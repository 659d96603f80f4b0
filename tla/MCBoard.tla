------------------------------- MODULE MCBoard --------------------------------
(* Board with sectors of 3 bytes, one of them not the first, two           *)
(* temperatures (20.25 degrees and 70.5, which does not fit), three        *)
(* configuration bytes, and a watchdog that fires during the retries of a  *)
(* version 1 card, as on the board, and after those of a version 2 card.   *)
EXTENDS Board

MCTemps == {<< 20, 64 >>, << 70, 128 >>}
MCLbas == {0, 1}
=============================================================================
