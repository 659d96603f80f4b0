------------------------------ MODULE RateLimit ------------------------------
(***************************************************************************)
(* ratelimit.c: the counter that limits how many infrared commands the     *)
(* web server may send, and the TIMER1 overflow interrupt that clears it.  *)
(*                                                                         *)
(* The interrupt runs between any two steps of the main program.  The      *)
(* main program tests `count`, and then executes `count++`, which on the   *)
(* 8-bit target is a load, an add in a register and a store: an interrupt  *)
(* between the load and the store is overwritten.                          *)
(*                                                                         *)
(* `accepted` is a history variable: the commands accepted since the       *)
(* interrupt last cleared the counter, per limit they were asked with.     *)
(***************************************************************************)
EXTENDS Naturals

CONSTANTS Limits,               \* the limits the request handlers ask with
          RATE_LIMIT_PRESCALAR, \* interrupts from the first command to the reset
          UINT8                 \* 256: count is an unsigned 8-bit integer

ASSUME ConstantsAssumption ==
    /\ RATE_LIMIT_PRESCALAR \in Nat \ {0}
    /\ UINT8 \in Nat \ {0}
    /\ RATE_LIMIT_PRESCALAR < UINT8
    /\ Limits \subseteq 1 .. (UINT8 - 1)
    /\ Limits # {}

VARIABLES count,    \* volatile uint8_t count
          seconds,  \* static uint8_t seconds of the interrupt handler
          pc,       \* where the main program stands in ratelimit()
          limit,    \* the argument rate_limit of the call in progress
          reg,      \* the register that holds count during count++
          accepted  \* history: limit |-> commands accepted in this window

vars == << count, seconds, pc, limit, reg, accepted >>

Byte == 0 .. (UINT8 - 1)

TypeOK ==
    /\ count \in Byte
    /\ seconds \in 0 .. RATE_LIMIT_PRESCALAR
    /\ pc \in {"idle", "test", "load", "store"}
    /\ limit \in Limits
    /\ reg \in Byte
    /\ accepted \in [Limits -> Nat]

Init ==
    /\ count = 0
    /\ seconds = 0
    /\ pc = "idle"
    /\ limit \in Limits
    /\ reg = 0
    /\ accepted = [l \in Limits |-> 0]
-----------------------------------------------------------------------------
(* The main program: one call of ratelimit(), in the four steps between    *)
(* which an interrupt can run.                                             *)

Call ==
    /\ pc = "idle"
    /\ limit' \in Limits
    /\ pc' = "test"
    /\ UNCHANGED << count, seconds, reg, accepted >>

(* Mutants: an off-by-one in the comparison; a test for equality. *)
TestOffByOne ==
    /\ pc = "test"
    /\ pc' = IF count > limit /\ limit # 0 THEN "idle" ELSE "load"
    /\ UNCHANGED << count, seconds, limit, reg, accepted >>

TestEqual ==
    /\ pc = "test"
    /\ pc' = IF count = limit /\ limit # 0 THEN "idle" ELSE "load"
    /\ UNCHANGED << count, seconds, limit, reg, accepted >>

(* if (count >= rate_limit && rate_limit != 0) return 0; *)
Test ==
    /\ pc = "test"
    /\ pc' = IF count >= limit /\ limit # 0 THEN "idle" ELSE "load"
    /\ UNCHANGED << count, seconds, limit, reg, accepted >>

Load ==
    /\ pc = "load"
    /\ reg' = count
    /\ pc' = "store"
    /\ UNCHANGED << count, seconds, limit, accepted >>

(* The store of count++, and return 1: the caller sends its command. *)
Store ==
    /\ pc = "store"
    /\ count' = (reg + 1) % UINT8
    /\ accepted' = [accepted EXCEPT ![limit] = @ + 1]
    /\ pc' = "idle"
    /\ UNCHANGED << seconds, limit, reg >>

Main == Call \/ Test \/ Load \/ Store
-----------------------------------------------------------------------------
(* The interrupt handler.  The window opens with the first command: while  *)
(* count is zero, seconds stands still.                                    *)

(* Mutants: the reset forgets seconds; the reset forgets count. *)
ResetKeepsSeconds ==
    /\ seconds >= RATE_LIMIT_PRESCALAR
    /\ count' = 0
    /\ accepted' = [l \in Limits |-> 0]
    /\ UNCHANGED << seconds, pc, limit, reg >>

ResetKeepsCount ==
    /\ seconds >= RATE_LIMIT_PRESCALAR
    /\ seconds' = 0
    /\ UNCHANGED << count, pc, limit, reg, accepted >>

ResetWindow ==
    /\ seconds >= RATE_LIMIT_PRESCALAR
    /\ seconds' = 0
    /\ count' = 0
    /\ accepted' = [l \in Limits |-> 0]
    /\ UNCHANGED << pc, limit, reg >>

(* Mutant: the increment is not in the else branch of the reset. *)
CountSecondAlways ==
    /\ seconds' = IF count > 0 THEN seconds + 1 ELSE seconds
    /\ UNCHANGED << count, pc, limit, reg, accepted >>

CountSecond ==
    /\ seconds < RATE_LIMIT_PRESCALAR
    /\ seconds' = IF count > 0 THEN seconds + 1 ELSE seconds
    /\ UNCHANGED << count, pc, limit, reg, accepted >>

TimerIsr == ResetWindow \/ CountSecond

Next == Main \/ TimerIsr

(* The timer hardware raises the interrupt for ever.  A call of            *)
(* ratelimit() that has begun comes to its end: it has no loop.  That      *)
(* another call ever begins is not assumed.                                *)
Fairness ==
    /\ WF_vars(TimerIsr)
    /\ WF_vars(Test \/ Load \/ Store)

Spec == Init /\ [][Next]_vars /\ Fairness
-----------------------------------------------------------------------------
(* Every command accepted since the reset with a limit l came when fewer   *)
(* than l commands had been counted: however often an interrupt overwrites *)
(* or is overwritten, no more than l commands asked with limit l are sent  *)
(* in a window (main.c:46-47, 3 for the power key and 20 for the others).  *)
LimitHolds == \A l \in Limits : accepted[l] <= l

(* The limits share one counter: the commands of limit l and of all the    *)
(* smaller limits count together against l (ratelimit.c:52).  Stated for   *)
(* pairs: two limits never let through more than the larger one.           *)
SharedLimitHolds ==
    \A l, m \in Limits : l < m => accepted[l] + accepted[m] <= m

(* A reset that falls into count++ is lost.  A command is then counted     *)
(* that belongs to the closed window, but no window ever starts with       *)
(* seconds left over: a cleared counter means a fresh window.              *)
FreshWindow == count = 0 => seconds = 0

(* A refused caller is let through after a while (ratelimit.c:52, 71-74):  *)
(* once the counter stands at a limit, there comes a state in which no     *)
(* call is in progress and a request with that limit would be accepted.    *)
(* That the interrupt clears the counter is not enough, for a count++ in   *)
(* progress puts the old value back.  But this happens only to calls that  *)
(* were let through, each leaves the counter higher than before, and at    *)
(* the largest limit no more calls are let through.  A limit of 1, which   *)
(* main.c does not use, is excluded: a command of another limit that is    *)
(* let through before each reset and counted after it fills it for ever.   *)
Replenished ==
    \A l \in Limits \ {1} : (count >= l) ~> (count < l /\ pc = "idle")
=============================================================================
