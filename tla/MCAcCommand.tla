---------------------------- MODULE MCAcCommand ------------------------------
(* Limits of 2 and 1 commands; 336 is 80 in 8 bits, and 3 is a fan speed   *)
(* and a temperature below the range.                                      *)
EXTENDS AcCommand

MCNumbers == {3, 336}
=============================================================================
