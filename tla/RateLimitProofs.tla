--------------------------- MODULE RateLimitProofs ---------------------------
(***************************************************************************)
(* The window limits of RateLimit, proved for every set of limits, every   *)
(* prescaler and every width of the counter.                               *)
(*                                                                         *)
(* LimitHolds is not inductive: that a command may be accepted was decided *)
(* two steps before the store, with a value of count that an interrupt may *)
(* have cleared in between.  The strengthening says what the decision      *)
(* leaves behind: the value in the register (or still in count) is below   *)
(* the limit, and it is at least the number of commands accepted so far.   *)
(***************************************************************************)
EXTENDS RateLimit, TLAPS

(* The commands accepted under any two limits are covered by n. *)
Covered(n) ==
    /\ \A l \in Limits : accepted[l] <= n
    /\ \A l, m \in Limits : l # m => accepted[l] + accepted[m] <= n

IInv ==
    /\ TypeOK
    /\ Covered(count)
    /\ pc = "load" => count < limit
    /\ pc = "store" => reg < limit /\ Covered(reg)
    /\ LimitHolds
    /\ SharedLimitHolds

USE ConstantsAssumption

(* The constants are what the arithmetic of the proof needs. *)
LEMMA LimitsAreNat == \A l \in Limits : l \in Nat /\ l > 0 /\ l < UINT8
  BY DEF ConstantsAssumption

LEMMA InitIInv == Init => IInv
  BY LimitsAreNat
  DEF Init, IInv, TypeOK, Covered, LimitHolds, SharedLimitHolds, Byte

(* The main program's steps preserve the invariant. *)
LEMMA MainIInv == IInv /\ Main => IInv'
<1> SUFFICES ASSUME IInv, Main PROVE IInv'
  OBVIOUS
<1> USE LimitsAreNat
<1>1. CASE Call
  BY <1>1 DEF Call, IInv, TypeOK, Covered, LimitHolds, SharedLimitHolds, Byte
<1>2. CASE Test
  BY <1>2 DEF Test, IInv, TypeOK, Covered, LimitHolds, SharedLimitHolds, Byte
<1>3. CASE Load
  BY <1>3 DEF Load, IInv, TypeOK, Covered, LimitHolds, SharedLimitHolds, Byte
<1>4. CASE Store
  <2>1. /\ count' = reg + 1
        /\ reg \in Nat
        /\ reg + 1 <= limit
        /\ limit \in Limits
    BY <1>4 DEF Store, IInv, TypeOK, Byte
  <2>2. \A l \in Limits :
            accepted'[l] = IF l = limit THEN accepted[l] + 1 ELSE accepted[l]
    BY <1>4 DEF Store, IInv, TypeOK
  <2>3. \A l \in Limits : accepted[l] \in Nat
    BY DEF IInv, TypeOK
  <2>4. TypeOK'
    BY <1>4, <2>1 DEF Store, IInv, TypeOK, Byte
  <2>5. Covered(reg)
    BY <1>4 DEF Store, IInv
  <2>6. Covered(count)'
    <3>1. \A l \in Limits : accepted'[l] <= count'
      BY <2>1, <2>2, <2>3, <2>5 DEF Covered
    <3>2. ASSUME NEW l \in Limits, NEW m \in Limits, l # m
          PROVE  accepted'[l] + accepted'[m] <= count'
      BY <2>1, <2>2, <2>3, <2>5, <3>2 DEF Covered
    <3> QED
      BY <3>1, <3>2 DEF Covered
  <2>7. LimitHolds'
    BY <2>1, <2>2, <2>3, <2>5 DEF IInv, LimitHolds, Covered
  <2>8. SharedLimitHolds'
    <3>1. ASSUME NEW l \in Limits, NEW m \in Limits, l < m
          PROVE  accepted'[l] + accepted'[m] <= m
      <4>1. accepted[l] + accepted[m] <= reg /\ l # m
        BY <2>5, <3>1 DEF Covered
      <4>2. accepted[l] + accepted[m] <= m
        BY <3>1 DEF IInv, SharedLimitHolds
      <4> QED
        BY <2>1, <2>2, <2>3, <3>1, <4>1, <4>2
    <3> QED
      BY <3>1 DEF SharedLimitHolds
  <2> QED
    BY <1>4, <2>4, <2>6, <2>7, <2>8 DEF IInv, Store
<1> QED
  BY <1>1, <1>2, <1>3, <1>4 DEF Main

(* So do the interrupt's, at whatever point they fall. *)
LEMMA TimerIInv == IInv /\ TimerIsr => IInv'
<1> SUFFICES ASSUME IInv, TimerIsr PROVE IInv'
  OBVIOUS
<1> USE LimitsAreNat
<1>1. CASE ResetWindow
  BY <1>1
  DEF ResetWindow, IInv, TypeOK, Covered, LimitHolds, SharedLimitHolds, Byte
<1>2. CASE CountSecond
  BY <1>2
  DEF CountSecond, IInv, TypeOK, Covered, LimitHolds, SharedLimitHolds, Byte
<1> QED
  BY <1>1, <1>2 DEF TimerIsr

LEMMA NextIInv == IInv /\ [Next]_vars => IInv'
<1>1. IInv /\ UNCHANGED vars => IInv'
  BY DEF vars, IInv, TypeOK, Covered, LimitHolds, SharedLimitHolds
<1> QED
  BY <1>1, MainIInv, TimerIInv DEF Next

LEMMA SpecIInv == Spec => []IInv
  BY InitIInv, NextIInv, PTL DEF Spec

(* The counter, the register and the prescaler keep their ranges: count++  *)
(* never wraps, for the limits the handlers use.                           *)
THEOREM TypeCorrect == Spec => []TypeOK
<1>1. IInv => TypeOK
  BY DEF IInv
<1> QED
  BY <1>1, SpecIInv, PTL

(* No window lets through more commands of a limit than the limit,         *)
(* wherever the interrupts fall in the calls of ratelimit().               *)
THEOREM NeverOverLimit == Spec => []LimitHolds
<1>1. IInv => LimitHolds
  BY DEF IInv
<1> QED
  BY <1>1, SpecIInv, PTL

(* Commands of two limits share the counter: together they never exceed    *)
(* the larger limit.                                                       *)
THEOREM NeverOverSharedLimit == Spec => []SharedLimitHolds
<1>1. IInv => SharedLimitHolds
  BY DEF IInv
<1> QED
  BY <1>1, SpecIInv, PTL

(* FreshWindow is inductive together with the types: the only step that    *)
(* clears count clears seconds with it, and seconds moves only while       *)
(* count is positive.                                                      *)
THEOREM AlwaysFreshWindow == Spec => []FreshWindow
<1>1. Init => FreshWindow
  BY DEF Init, FreshWindow
<1>2. IInv /\ FreshWindow /\ [Next]_vars => FreshWindow'
  <2> SUFFICES ASSUME IInv, FreshWindow, [Next]_vars PROVE FreshWindow'
    OBVIOUS
  <2>1. CASE Main
    <3>1. pc = "store" => reg + 1 < UINT8 /\ reg \in Nat
      BY LimitsAreNat DEF IInv, TypeOK, Byte
    <3> QED
      BY <2>1, <3>1 DEF Main, Call, Test, Load, Store, FreshWindow
  <2>2. CASE TimerIsr
    BY <2>2 DEF TimerIsr, ResetWindow, CountSecond, FreshWindow, IInv, TypeOK, Byte
  <2>3. CASE UNCHANGED vars
    BY <2>3 DEF vars, FreshWindow
  <2> QED
    BY <2>1, <2>2, <2>3 DEF Next
<1> QED
  BY <1>1, <1>2, SpecIInv, PTL DEF Spec
=============================================================================
