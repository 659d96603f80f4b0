------------------------------- MODULE MCHttpd -------------------------------
EXTENDS Httpd
=============================================================================
