---------------------------- MODULE MCLgTransmit -----------------------------
EXTENDS LgTransmit, TLC
MCBytes == 2
MCByteBits == 2
B(x, y) == 0 :> x @@ 1 :> y
MCOpcodes == { [len |-> 3, data |-> B(B(1, 0), B(0, 0))],
               [len |-> 4, data |-> B(B(0, 1), B(1, 1))] }
MCGarbageLens == {0, 15}
=============================================================================
