------------------------------ MODULE ByteQueue ------------------------------
(***************************************************************************)
(* What one buffer of a W5100 socket promises to the code above w5100.c:   *)
(* a queue of bytes.  Bytes that one side puts in come out on the other    *)
(* side in the same order, none twice and none invented; w5100_drain() and *)
(* a new connection throw the oldest bytes away.                           *)
(***************************************************************************)
EXTENDS Naturals, Sequences

CONSTANT Capacity  \* bytes that fit

VARIABLES queue,    \* the bytes inside, the oldest first
          out,      \* the bytes that came out last
          offered   \* input: the bytes that the one side would put in

vars == << queue, out >>

Init == queue = << >> /\ out = << >>

(* One or more of the bytes offered, the first ones, are put behind the    *)
(* others.                                                                 *)
Put ==
    \E n \in 1 .. Len(offered) :
        /\ Len(queue) + n <= Capacity
        /\ queue' = queue \o SubSeq(offered, 1, n)
        /\ UNCHANGED out

After(n) == SubSeq(queue, n + 1, Len(queue))

Take ==
    \E n \in 1 .. Len(queue) :
        /\ out' = SubSeq(queue, 1, n)
        /\ queue' = After(n)

Drop ==
    \E n \in 1 .. Len(queue) :
        /\ queue' = After(n)
        /\ UNCHANGED out

(* The chip was reset. *)
Reset == queue' = << >> /\ out' = << >>

Next == Put \/ Take \/ Drop \/ Reset

Spec == Init /\ [][Next]_vars
=============================================================================
