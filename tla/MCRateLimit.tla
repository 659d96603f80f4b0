----------------------------- MODULE MCRateLimit -----------------------------
(* RateLimit with the two limits of main.c scaled down from 3 and 20 to 2  *)
(* and 4, the reset after 3 interrupts instead of 240, and a counter that  *)
(* wraps at 8 instead of 256.                                              *)
EXTENDS RateLimit

MCLimits == {2, 4}
MCPrescalar == 3
MCUint8 == 8
=============================================================================
