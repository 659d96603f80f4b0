-------------------------- MODULE LgTransmitProofs ---------------------------
(***************************************************************************)
(* Proofs about LgTransmit, for every length of the pulses, every command  *)
(* and every garbage behind a torn pointer.                                *)
(***************************************************************************)
EXTENDS LgTransmit, TLAPS

MaxLen == BYTES * BYTE_BITS
HalfCount == IF half THEN 1 ELSE 0

(* How the counters of the interrupt hang together while a command from    *)
(* the buffer is on the air: sent pulses have used up byte and bit, and    *)
(* blockcount has not wrapped.                                             *)
CountersAgree ==
    active /\ frame # "torn" =>
        /\ len <= MaxLen
        /\ sent <= len + 1
        /\ sent = 0 => byte = 0 /\ bit = 0
        /\ sent # 0 => sent = BYTE_BITS * byte + bit + 1
        /\ half => sent # 0 /\ sent <= len
        /\ block < LG_PROLOG_LENGTH => sent = 0
        /\ (IF tick = 0 THEN block ELSE block + 1) <= LG_PROLOG_LENGTH + 2 * sent + HalfCount

CopyInRange == pc = "copy" => copied <= BYTES

Inv == TypeOK /\ CopyInRange /\ CountersAgree

(* What memcpy() has done so far, and that nothing else writes the buffer. *)
CopyProgress ==
    /\ pc = "copy" =>
         /\ copied > 0 => buffer.len = opcode.len
         /\ \A i \in ByteIndex : i + 1 < copied => buffer.data[i] = opcode.data[i]
    /\ pc \in {"publish", "high", "low"} => buffer = opcode
    /\ pc = "idle" /\ next # {} => buffer = opcode

(* The LED and the time since it was switched on. *)
LedAgrees ==
    /\ led => active
    /\ active /\ block < LG_PROLOG_ACTIVE => led \/ (block = 0 /\ tick = 0)
    /\ led /\ block < LG_PROLOG_LENGTH =>
         /\ since = block * LG_BIT_LENGTH + tick
         /\ block < LG_PROLOG_ACTIVE \/ (block = LG_PROLOG_ACTIVE /\ tick = 0)
    /\ led /\ block >= LG_PROLOG_LENGTH =>
         /\ 0 < tick /\ tick <= LG_BIT_ACTIVE
         /\ since = tick
-----------------------------------------------------------------------------
LEMMA Constants ==
    /\ BYTES \in Nat /\ BYTE_BITS \in Nat /\ BYTES > 0 /\ BYTE_BITS > 0
    /\ MaxLen \in Nat /\ MaxLen > 0
    /\ HeardMax = MaxLen + 1
    /\ LG_BIT_LENGTH \in Nat /\ LG_BIT_ACTIVE \in Nat
    /\ LG_PROLOG_LENGTH \in Nat /\ LG_PROLOG_ACTIVE \in Nat
    /\ UINT8 \in Nat /\ LG_PROLOG_LENGTH + 2 * MaxLen + 2 < UINT8
    /\ SinceMax \in Nat /\ SinceMax > 0
    /\ 0 < LG_BIT_ACTIVE /\ LG_BIT_ACTIVE < LG_BIT_LENGTH
    /\ 0 < LG_PROLOG_ACTIVE /\ LG_PROLOG_ACTIVE < LG_PROLOG_LENGTH /\ 2 < LG_PROLOG_LENGTH
    /\ Opcodes \subseteq Opcode /\ GarbageLens \subseteq 0 .. (UINT8 - 1)
<1>1. BYTES * BYTE_BITS \in Nat /\ BYTES * BYTE_BITS > 0
  BY ConstantsAssumption, SMT
<1>2. 2 * BYTES * BYTE_BITS = 2 * (BYTES * BYTE_BITS)
  BY ConstantsAssumption, SMT
<1>3. LG_PROLOG_LENGTH * LG_BIT_LENGTH \in Nat
  BY ConstantsAssumption, SMT
<1> QED BY <1>1, <1>2, <1>3, ConstantsAssumption DEF MaxLen, HeardMax, SinceMax

(* Arithmetic on 8 bits. *)
LEMMA Modulo ==
    ASSUME NEW n \in Nat
    PROVE  /\ n % UINT8 \in 0 .. (UINT8 - 1)
           /\ n < UINT8 => n % UINT8 = n
BY Constants, SMT

(* A position within the data lies in one of its bytes. *)
LEMMA ByteOfPosition ==
    ASSUME NEW i \in Nat, NEW j \in Nat, BYTE_BITS * i + j < MaxLen
    PROVE  i < BYTES
<1>1. SUFFICES ASSUME i >= BYTES PROVE FALSE
  BY Constants
<1>2. BYTE_BITS * i >= BYTE_BITS * BYTES
  BY <1>1, Constants, SMT
<1>3. BYTE_BITS * BYTES = MaxLen
  BY Constants, SMT DEF MaxLen
<1> QED BY <1>2, <1>3, Constants, SMT

(* Byte and bit of a position are unique. *)
LEMMA PositionUnique ==
    ASSUME NEW i \in Nat, NEW j \in BitIndex, NEW k \in Nat, NEW l \in BitIndex,
           BYTE_BITS * i + j = BYTE_BITS * k + l
    PROVE  i = k /\ j = l
<1>1. ASSUME NEW a \in Nat, NEW b \in Nat, a < b
      PROVE  BYTE_BITS * a + BYTE_BITS <= BYTE_BITS * b
  <2>1. a + 1 <= b BY <1>1
  <2>2. BYTE_BITS * (a + 1) <= BYTE_BITS * b BY <2>1, Constants, SMT
  <2>3. BYTE_BITS * (a + 1) = BYTE_BITS * a + BYTE_BITS BY Constants, SMT
  <2> QED BY <2>2, <2>3
<1>2. ~(i < k)
  BY <1>1, Constants, SMT DEF BitIndex
<1>3. ~(k < i)
  BY <1>1, Constants, SMT DEF BitIndex
<1> QED BY <1>2, <1>3, Constants, SMT DEF BitIndex
-----------------------------------------------------------------------------
LEMMA InitInv == Init => Inv
<1> SUFFICES ASSUME Init PROVE Inv
  OBVIOUS
<1>1. [i \in ByteIndex |-> [j \in BitIndex |-> 0]] \in [ByteIndex -> [BitIndex -> Bit]]
  BY DEF Bit
<1>2. buffer \in Opcode
  BY <1>1, Constants DEF Init, Opcode, MaxLen
<1>3. opcode \in Opcode
  BY Constants DEF Init
<1>4. TypeOK
  <2>1. bit \in BitIndex /\ tick \in 0 .. (LG_BIT_LENGTH - 1) /\ 0 \in 0 .. (UINT8 - 1)
    BY Constants DEF Init, BitIndex
  <2>2. heard \in Seq(Bit) /\ Len(heard) <= HeardMax
    BY Constants DEF Init
  <2>3. since \in 0 .. SinceMax /\ copied \in 0 .. (BYTES + 1) /\ byte \in 0 .. BYTES
    BY Constants DEF Init
  <2> QED BY <1>2, <1>3, <2>1, <2>2, <2>3 DEF Init, TypeOK
<1> QED BY <1>4 DEF Init, Inv, CopyInRange, CountersAgree

(* The counters as numbers. *)
LEMMA Counters ==
    ASSUME TypeOK
    PROVE  /\ tick \in Nat /\ tick < LG_BIT_LENGTH
           /\ block \in Nat /\ block < UINT8
           /\ sent \in Nat /\ sent < UINT8
           /\ len \in Nat /\ len < UINT8
           /\ byte \in Nat /\ byte <= BYTES
           /\ bit \in Nat /\ bit < BYTE_BITS
           /\ since \in Nat /\ since <= SinceMax
           /\ HalfCount \in {0, 1}
BY Constants DEF TypeOK, BitIndex, HalfCount

(* Drive() keeps the receiver's variables in their types. *)
LEMMA DriveType ==
    ASSUME TypeOK, NEW on \in BOOLEAN, Drive(on)
    PROVE  led' \in BOOLEAN /\ since' \in 0 .. SinceMax
           /\ heard' \in Seq(Bit) /\ Len(heard') <= HeardMax
<1>1. led' \in BOOLEAN /\ since' \in 0 .. SinceMax
  BY Constants DEF TypeOK, Drive
<1>2. CASE heard' = heard
  BY <1>1, <1>2 DEF TypeOK
<1>3. CASE heard' = << >>
  BY <1>1, <1>3, Constants
<1>4. ASSUME NEW b \in Bit, heard' = Append(heard, b), Len(heard) # HeardMax
      PROVE  heard' \in Seq(Bit) /\ Len(heard') <= HeardMax
  BY <1>4, Constants DEF TypeOK
<1>5. 0 \in Bit /\ 1 \in Bit
  BY DEF Bit
<1>6. \/ heard' = heard \/ heard' = << >>
      \/ \E b \in Bit : heard' = Append(heard, b) /\ Len(heard) # HeardMax
  BY <1>5 DEF Drive
<1> QED BY <1>1, <1>2, <1>3, <1>4, <1>6

(* The increments at the end of the interrupt, within their 8 bits. *)
LEMMA AdvanceType ==
    ASSUME TypeOK, Advance
    PROVE  /\ tick' \in 0 .. (LG_BIT_LENGTH - 1) /\ block' \in 0 .. (UINT8 - 1)
           /\ block + 1 < UINT8 =>
                IF tick + 1 >= LG_BIT_LENGTH
                  THEN tick' = 0 /\ block' = block + 1
                  ELSE tick' = tick + 1 /\ block' = block
<1>1. tick \in 0 .. (LG_BIT_LENGTH - 1) /\ block \in 0 .. (UINT8 - 1)
  BY DEF TypeOK
<1>2. block + 1 \in Nat /\ LG_BIT_LENGTH - 1 \in Nat
  BY <1>1, Constants
<1>3. CASE tick + 1 >= LG_BIT_LENGTH
  <2>1. tick' = 0 /\ block' = (block + 1) % UINT8
    BY <1>3 DEF Advance
  <2>2. block' \in 0 .. (UINT8 - 1) /\ (block + 1 < UINT8 => block' = block + 1)
    BY <1>2, <2>1, Modulo
  <2> QED BY <1>2, <1>3, <2>1, <2>2
<1>4. CASE ~(tick + 1 >= LG_BIT_LENGTH)
  <2>1. tick' = tick + 1 /\ block' = block
    BY <1>4 DEF Advance
  <2> QED BY <1>1, <1>2, <1>4, <2>1, Constants
<1> QED BY <1>3, <1>4

(* A command from the buffer leaves room for its blocks in 8 bits. *)
LEMMA BlockInRange ==
    ASSUME TypeOK, CountersAgree, active, frame # "torn"
    PROVE  /\ tick # 0 \/ sent <= len => block + 1 < UINT8
           /\ sent < UINT8 - 1
           /\ len < UINT8 - 2
BY Constants DEF TypeOK, CountersAgree, HalfCount

(* While a bit is being sent, byte points into the data. *)
LEMMA ByteInRange ==
    ASSUME TypeOK, CountersAgree, active, frame # "torn", sent \in 1 .. len
    PROVE  byte \in ByteIndex
<1>1. sent - 1 = BYTE_BITS * byte + bit /\ sent - 1 < MaxLen
  BY Constants DEF TypeOK, CountersAgree, BitIndex
<1>2. byte < BYTES
  BY <1>1, ByteOfPosition DEF TypeOK, BitIndex
<1> QED BY <1>2, Constants DEF TypeOK, ByteIndex
-----------------------------------------------------------------------------
LEMMA NextInv == Inv /\ [Next]_vars => Inv'
<1> SUFFICES ASSUME Inv, [Next]_vars PROVE Inv'
  OBVIOUS
<1> USE DEF Inv
<1>1. ASSUME NEW op \in Opcodes, Submit(op) PROVE Inv'
  BY <1>1, Constants
     DEF Submit, TypeOK, CopyInRange, CountersAgree, HalfCount, isrVars, airVars, history
<1>2. CASE CopyByte
  <2>0. /\ pc = "copy" /\ copied' = copied + 1
        /\ pc' = IF copied = BYTES THEN "publish" ELSE "copy"
        /\ frame' = IF active /\ frame = "clean" THEN "mixed" ELSE frame
        /\ UNCHANGED << opcode, next, active, len, byte, bit, half, tick, block, sent,
                        led, since, heard, intended >>
    BY <1>2 DEF CopyByte, isrVars, airVars
  <2>1. buffer' \in Opcode
    <3>1. CASE copied = 0
      BY <1>2, <3>1 DEF CopyByte, TypeOK, Opcode
    <3>2. CASE copied # 0
      <4>1. copied - 1 \in ByteIndex
        BY <2>0, <3>2, Constants DEF TypeOK, CopyInRange, ByteIndex
      <4>2. opcode.data[copied - 1] \in [BitIndex -> Bit]
        BY <4>1 DEF TypeOK, Opcode
      <4> QED BY <1>2, <3>2, <4>1, <4>2 DEF CopyByte, TypeOK, Opcode
    <3> QED BY <3>1, <3>2
  <2>2. TypeOK'
    <3>1. copied' \in 0 .. (BYTES + 1)
      BY <2>0, Constants DEF TypeOK, CopyInRange
    <3> QED BY <2>0, <2>1, <3>1 DEF TypeOK
  <2>3. CopyInRange'
    BY <2>0, Constants DEF TypeOK, CopyInRange
  <2>4. CountersAgree'
    BY <2>0 DEF CountersAgree, HalfCount
  <2> QED BY <2>2, <2>3, <2>4
<1>3. CASE StoreHalf \/ StoreOtherHalf
  <2>1. /\ pc' \in Halves \cup {"idle"} /\ next' \subseteq Halves
        /\ UNCHANGED << opcode, copied, buffer, active, len, byte, bit, half, tick, block,
                        sent, led, since, heard, frame, intended >>
    BY <1>3 DEF StoreHalf, StoreOtherHalf, TypeOK, Halves, isrVars, airVars, history
  <2>2. TypeOK'
    BY <2>1 DEF TypeOK, Halves
  <2>3. CopyInRange'
    BY <2>1 DEF CopyInRange, Halves
  <2>4. CountersAgree'
    BY <2>1 DEF CountersAgree, HalfCount
  <2> QED BY <2>2, <2>3, <2>4
<1>4. CASE TimerIsr
  <2>1. CopyInRange'
    BY <1>4 DEF TimerIsr, Idle, PickUp, PrologOn, PrologOff, StartPulse, BitPulse, OnePause,
                PulseEnd, Finish, Hold, CopyInRange, mainVars
  <2>2. CASE Idle
    <3>1. TypeOK'
      BY <2>2, DriveType DEF Idle, TypeOK, mainVars, isrVars, history
    <3>2. CountersAgree'
      BY <2>2 DEF Idle, CountersAgree, isrVars
    <3> QED BY <2>1, <3>1, <3>2
  <2>3. CASE PickUp
    <3>0. /\ active' /\ next' = {} /\ byte' = 0 /\ bit' = 0 /\ half' = FALSE
          /\ sent' = 0 /\ tick' = 1 /\ block' = 0
          /\ frame' \in {"clean", "mixed", "torn"}
          /\ intended' = opcode /\ Drive(TRUE) /\ UNCHANGED << pc, opcode, copied, buffer >>
      BY <2>3 DEF PickUp, mainVars
    <3>1. len' \in 0 .. (UINT8 - 1) /\ (frame' # "torn" => len' <= MaxLen)
      <4>1. buffer.len \in 0 .. MaxLen
        BY DEF TypeOK, Opcode, MaxLen
      <4>2. 0 .. MaxLen \subseteq 0 .. (UINT8 - 1)
        BY Constants
      <4>3. \/ len' = buffer.len
            \/ len' \in GarbageLens /\ frame' = "torn"
        BY <2>3 DEF PickUp
      <4>4. CASE len' = buffer.len
        BY <4>1, <4>2, <4>4, Constants
      <4>5. CASE len' \in GarbageLens /\ frame' = "torn"
        BY <4>5, Constants
      <4> QED BY <4>3, <4>4, <4>5
    <3>2. TypeOK'
      <4>1. /\ 0 \in BitIndex /\ 1 \in 0 .. (LG_BIT_LENGTH - 1)
            /\ 0 \in 0 .. (UINT8 - 1) /\ 0 \in 0 .. BYTES
        BY Constants DEF BitIndex
      <4>2. active' \in BOOLEAN
        BY <2>3 DEF PickUp
      <4> QED BY <3>0, <3>1, <4>1, <4>2, DriveType DEF TypeOK
    <3>3. CountersAgree'
      <4>1. frame' # "torn" => len' \in Nat /\ len' <= MaxLen
        BY <3>1, Constants
      <4>2. HalfCount' = 0
        BY <3>0 DEF HalfCount
      <4> QED BY <3>0, <4>1, <4>2, Constants DEF CountersAgree
    <3> QED BY <2>1, <3>2, <3>3
  <2>4. CASE PrologOn \/ PrologOff
    <3>0. /\ active /\ block < LG_PROLOG_LENGTH /\ Advance
          /\ UNCHANGED << active, len, byte, bit, half, sent, frame >>
      <4>1. CASE PrologOn
        BY <4>1, Counters, Constants DEF PrologOn, history
      <4>2. CASE PrologOff
        BY <4>2 DEF PrologOff, history
      <4> QED BY <2>4, <4>1, <4>2
    <3>1. TypeOK'
      BY <2>4, DriveType, AdvanceType DEF PrologOn, PrologOff, TypeOK, mainVars, history
    <3>2. CountersAgree'
      BY <3>0, Counters, AdvanceType, Constants DEF CountersAgree, HalfCount
    <3> QED BY <2>1, <3>1, <3>2
  <2>5. CASE StartPulse
    <3>0. /\ active /\ block >= LG_PROLOG_LENGTH /\ tick = 0 /\ sent = 0 /\ sent <= len
          /\ sent' = 1 /\ Advance /\ Drive(TRUE)
          /\ UNCHANGED << active, len, byte, bit, half, frame, intended >>
          /\ UNCHANGED << pc, opcode, copied, buffer, next >>
      BY <2>5 DEF StartPulse, InData, history, mainVars
    <3>1. TypeOK'
      <4>1. sent' \in 0 .. (UINT8 - 1)
        BY <3>0, Constants
      <4> QED BY <3>0, <4>1, DriveType, AdvanceType DEF TypeOK
    <3>2. CountersAgree'
      <4>1. (block + 1 < UINT8 /\ tick + 1 < LG_BIT_LENGTH) \/ frame = "torn"
        BY <3>0, BlockInRange, Constants
      <4>2. sent' = BYTE_BITS * byte + bit + 1 \/ frame = "torn"
        BY <3>0, Constants, SMT DEF CountersAgree
      <4> QED BY <3>0, <4>1, <4>2, Counters, AdvanceType, Constants
              DEF CountersAgree, HalfCount
    <3> QED BY <2>1, <3>1, <3>2
  <2>6. CASE BitPulse
    <3>0. /\ active /\ block >= LG_PROLOG_LENGTH /\ tick = 0 /\ sent # 0 /\ sent <= len
          /\ half' = FALSE /\ sent' = (sent + 1) % UINT8 /\ Advance /\ Drive(TRUE)
          /\ UNCHANGED << active, len, frame, intended >>
          /\ UNCHANGED << pc, opcode, copied, buffer, next >>
      BY <2>6 DEF BitPulse, InData, history, mainVars
    <3>1. frame # "torn" => byte \in ByteIndex
      BY <3>0, Counters, ByteInRange
    <3>2. TypeOK'
      <4>1. sent' \in 0 .. (UINT8 - 1)
        BY <3>0, Counters, Modulo
      <4>2. byte' \in 0 .. BYTES /\ bit' \in BitIndex
        <5>1. CASE bit + 1 = BYTE_BITS
          <6>1. bit' = 0 /\ byte' = IF frame = "torn" THEN byte ELSE byte + 1
            BY <2>6, <5>1 DEF BitPulse
          <6> QED BY <3>1, <6>1, Counters, Constants DEF BitIndex, ByteIndex
        <5>2. CASE bit + 1 # BYTE_BITS
          <6>1. bit' = bit + 1 /\ byte' = byte
            BY <2>6, <5>2 DEF BitPulse
          <6> QED BY <5>2, <6>1, Counters, Constants DEF BitIndex
        <5> QED BY <5>1, <5>2
      <4>3. half' \in BOOLEAN
        BY <3>0
      <4> QED BY <3>0, <4>1, <4>2, <4>3, DriveType, AdvanceType DEF TypeOK
    <3>3. frame # "torn" => sent' = sent + 1
      <4>1. frame # "torn" => sent + 1 < UINT8
        BY <3>0, BlockInRange, Counters, Constants
      <4>2. sent + 1 \in Nat
        BY Counters
      <4> QED BY <3>0, <4>1, <4>2, Modulo
    <3>4. ASSUME frame # "torn"
          PROVE  sent + 1 = BYTE_BITS * byte' + bit' + 1
      <4>1. sent = BYTE_BITS * byte + bit + 1
        BY <3>0, <3>4 DEF CountersAgree
      <4>2. CASE bit + 1 = BYTE_BITS
        <5>1. byte' = byte + 1 /\ bit' = 0
          BY <2>6, <3>4, <4>2 DEF BitPulse
        <5>2. BYTE_BITS * (byte + 1) = BYTE_BITS * byte + BYTE_BITS
          BY Constants, Counters, SMT
        <5>3. BYTE_BITS * byte \in Nat
          BY Constants, Counters, SMT
        <5> QED BY <4>1, <4>2, <5>1, <5>2, <5>3, Constants, Counters
      <4>3. CASE bit + 1 # BYTE_BITS
        <5>1. byte' = byte /\ bit' = bit + 1
          BY <2>6, <4>3 DEF BitPulse
        <5>2. BYTE_BITS * byte \in Nat
          BY Constants, Counters, SMT
        <5> QED BY <4>1, <5>1, <5>2, Counters
      <4> QED BY <4>2, <4>3
    <3>5. CountersAgree'
      <4>1. frame # "torn" => block + 1 < UINT8
        BY <3>0, BlockInRange
      <4> QED BY <3>0, <3>3, <3>4, <4>1, Counters, AdvanceType, Constants
              DEF CountersAgree, HalfCount
    <3> QED BY <2>1, <3>2, <3>5
  <2>7. CASE OnePause
    <3>0. /\ active /\ block >= LG_PROLOG_LENGTH /\ tick = 0 /\ sent # 0 /\ sent <= len
          /\ ~half /\ half' = TRUE /\ Advance /\ Drive(FALSE)
          /\ UNCHANGED << active, len, byte, bit, sent, frame, intended >>
          /\ UNCHANGED << pc, opcode, copied, buffer, next >>
      BY <2>7 DEF OnePause, InData, history, mainVars
    <3>1. TypeOK'
      <4>1. half' \in BOOLEAN
        BY <3>0
      <4> QED BY <3>0, <4>1, DriveType, AdvanceType DEF TypeOK
    <3>2. CountersAgree'
      <4>1. frame # "torn" => block + 1 < UINT8
        BY <3>0, BlockInRange
      <4> QED BY <3>0, <4>1, Counters, AdvanceType, Constants
              DEF CountersAgree, HalfCount
    <3> QED BY <2>1, <3>1, <3>2
  <2>8. CASE Finish
    <3>1. TypeOK'
      BY <2>8, DriveType, AdvanceType DEF Finish, InData, TypeOK, mainVars, history
    <3>2. CountersAgree'
      BY <2>8 DEF Finish, CountersAgree
    <3> QED BY <2>1, <3>1, <3>2
  <2>9. CASE PulseEnd \/ Hold
    <3>0. /\ active /\ block >= LG_PROLOG_LENGTH /\ tick # 0 /\ Advance
          /\ UNCHANGED << active, len, byte, bit, half, sent, frame >>
      <4>1. CASE PulseEnd
        <5>1. tick = LG_BIT_ACTIVE
          BY <4>1 DEF PulseEnd
        <5>2. tick # 0
          BY <5>1, Constants
        <5> QED BY <4>1, <5>2 DEF PulseEnd, InData, history
      <4>2. CASE Hold
        BY <4>2 DEF Hold, InData, history
      <4> QED BY <2>9, <4>1, <4>2
    <3>1. TypeOK'
      BY <2>9, DriveType, AdvanceType DEF PulseEnd, Hold, InData, TypeOK, mainVars, history
    <3>2. CountersAgree'
      <4>1. frame # "torn" => block + 1 < UINT8
        BY <3>0, BlockInRange
      <4> QED BY <3>0, <4>1, Counters, AdvanceType, Constants
              DEF CountersAgree, HalfCount
    <3> QED BY <2>1, <3>1, <3>2
  <2> QED BY <1>4, <2>2, <2>3, <2>4, <2>5, <2>6, <2>7, <2>8, <2>9 DEF TimerIsr
<1>5. CASE UNCHANGED vars
  BY <1>5 DEF vars, mainVars, isrVars, airVars, history, TypeOK, CopyInRange, CountersAgree,
              HalfCount
<1> QED BY <1>1, <1>2, <1>3, <1>4, <1>5 DEF Next, Main

LEMMA Invariance == Spec => []Inv
BY InitInv, NextInv, PTL DEF Spec

(* Every variable keeps its width: no counter of the interrupt leaves its  *)
(* 8 bits, whatever a torn pointer makes it read.                          *)
THEOREM TypeCorrect == Spec => []TypeOK
BY Invariance, PTL DEF Inv

(* However lg_send() and the interrupt interleave, and however many calls  *)
(* copy into the buffer while it is on the air, the interrupt reads the    *)
(* buffer within its bounds.                                               *)
THEOREM AlwaysReadsInBuffer == Spec => []ReadsInBuffer
<1>1. Inv => ReadsInBuffer
  BY ByteInRange DEF Inv, ReadsInBuffer
<1> QED BY <1>1, Invariance, PTL
-----------------------------------------------------------------------------
(* A command is determined by its length and its data bytes. *)
LEMMA OpcodeEqual ==
    ASSUME NEW a \in Opcode, NEW b \in Opcode, a.len = b.len,
           \A i \in ByteIndex : a.data[i] = b.data[i]
    PROVE  a = b
<1>1. a.data \in [ByteIndex -> [BitIndex -> Bit]] /\ b.data \in [ByteIndex -> [BitIndex -> Bit]]
  BY DEF Opcode
<1>2. a.data = b.data
  BY <1>1
<1>3. a = [len |-> a.len, data |-> a.data] /\ b = [len |-> b.len, data |-> b.data]
  BY DEF Opcode
<1> QED BY <1>2, <1>3

LEMMA NextCopy == Inv /\ CopyProgress /\ [Next]_vars => CopyProgress'
<1> SUFFICES ASSUME Inv, CopyProgress, [Next]_vars PROVE CopyProgress'
  OBVIOUS
<1> USE DEF Inv
<1>1. ASSUME NEW op \in Opcodes, Submit(op) PROVE CopyProgress'
  BY <1>1, Constants DEF Submit, CopyProgress, ByteIndex
<1>2. CASE CopyByte
  <2>0. /\ pc = "copy" /\ copied' = copied + 1 /\ UNCHANGED << opcode, next >>
        /\ pc' = IF copied = BYTES THEN "publish" ELSE "copy"
    BY <1>2 DEF CopyByte
  <2>1. copied \in Nat /\ copied <= BYTES /\ opcode \in Opcode /\ buffer \in Opcode
    BY <2>0, Constants DEF TypeOK, CopyInRange
  <2>2. buffer'.len = opcode.len
    <3>1. CASE copied = 0
      BY <1>2, <2>1, <3>1 DEF CopyByte, Opcode
    <3>2. CASE copied # 0
      <4>1. buffer'.len = buffer.len
        BY <1>2, <2>1, <3>2 DEF CopyByte, Opcode
      <4>2. buffer.len = opcode.len
        BY <2>0, <2>1, <3>2 DEF CopyProgress
      <4> QED BY <4>1, <4>2
    <3> QED BY <3>1, <3>2
  <2>3. ASSUME NEW i \in ByteIndex, i + 1 < copied'
        PROVE  buffer'.data[i] = opcode.data[i]
    <3>1. copied # 0 /\ copied - 1 \in ByteIndex
      BY <2>0, <2>1, <2>3, Constants DEF ByteIndex
    <3>2. buffer'.data = [buffer.data EXCEPT ![copied - 1] = opcode.data[copied - 1]]
      BY <1>2, <2>1, <3>1 DEF CopyByte, Opcode
    <3>3. buffer.data \in [ByteIndex -> [BitIndex -> Bit]]
      BY <2>1 DEF Opcode
    <3>4. CASE i = copied - 1
      BY <3>1, <3>2, <3>3, <3>4
    <3>5. CASE i # copied - 1
      <4>1. i + 1 < copied
        BY <2>0, <2>1, <2>3, <3>5, Constants DEF ByteIndex
      <4>2. buffer.data[i] = opcode.data[i]
        BY <2>0, <4>1 DEF CopyProgress
      <4> QED BY <3>1, <3>2, <3>3, <3>5, <4>2
    <3> QED BY <3>4, <3>5
  <2>4. pc' \in {"publish", "high", "low"} => buffer' = opcode
    <3>1. SUFFICES ASSUME pc' = "publish" PROVE buffer' = opcode
      BY <2>0
    <3>2. copied = BYTES
      BY <2>0, <3>1
    <3>3. \A i \in ByteIndex : buffer'.data[i] = opcode.data[i]
      BY <2>0, <2>3, <3>2, Constants DEF ByteIndex
    <3>4. buffer' \in Opcode
      BY <1>2, NextInv DEF Next, Main, TypeOK
    <3> QED BY <2>1, <2>2, <3>3, <3>4, OpcodeEqual
  <2> QED BY <2>0, <2>2, <2>3, <2>4 DEF CopyProgress
<1>3. CASE StoreHalf \/ StoreOtherHalf
  BY <1>3 DEF StoreHalf, StoreOtherHalf, Halves, CopyProgress
<1>4. CASE TimerIsr
  <2>1. UNCHANGED << pc, opcode, copied, buffer >> /\ (next' = next \/ next' = {})
    BY <1>4 DEF TimerIsr, Idle, PickUp, PrologOn, PrologOff, StartPulse, BitPulse, OnePause,
                PulseEnd, Finish, Hold, mainVars
  <2> QED BY <2>1 DEF CopyProgress
<1>5. CASE UNCHANGED vars
  BY <1>5 DEF vars, mainVars, CopyProgress
<1> QED BY <1>1, <1>2, <1>3, <1>4, <1>5 DEF Next, Main

LEMMA CopyInvariance == Spec => []CopyProgress
<1>1. Init => CopyProgress
  BY DEF Init, CopyProgress
<1> QED BY <1>1, NextCopy, Invariance, PTL DEF Spec

(* Between two calls of lg_send() the buffer behind next_command holds the *)
(* last command, whole, wherever the interrupt came in between.            *)
THEOREM PendingAlwaysLatest == Spec => []PendingIsLatest
<1>1. CopyProgress => PendingIsLatest
  BY DEF CopyProgress, PendingIsLatest, Halves
<1> QED BY <1>1, CopyInvariance, PTL
-----------------------------------------------------------------------------
(* Ticks and blocks add up. *)
LEMMA Elapsed ==
    /\ \A b \in Nat : b * LG_BIT_LENGTH \in Nat
    /\ \A b \in Nat : (b + 1) * LG_BIT_LENGTH = b * LG_BIT_LENGTH + LG_BIT_LENGTH
    /\ \A a, b \in Nat : a <= b => a * LG_BIT_LENGTH <= b * LG_BIT_LENGTH
    /\ SinceMax = LG_PROLOG_LENGTH * LG_BIT_LENGTH + 1
    /\ 0 * LG_BIT_LENGTH = 0
<1>1. \A b \in Nat : b * LG_BIT_LENGTH \in Nat
  BY Constants, SMT
<1>2. \A b \in Nat : (b + 1) * LG_BIT_LENGTH = b * LG_BIT_LENGTH + LG_BIT_LENGTH
  BY Constants, SMT
<1>3. ASSUME NEW a \in Nat, NEW b \in Nat, a <= b
      PROVE  a * LG_BIT_LENGTH <= b * LG_BIT_LENGTH
  BY <1>3, Constants, SMT
<1>4. 0 * LG_BIT_LENGTH = 0
  BY Constants, SMT
<1> QED BY <1>1, <1>2, <1>3, <1>4 DEF SinceMax

(* After a block of data there is another, or blockcount wraps to 0. *)
LEMMA DataBlock ==
    ASSUME TypeOK, InData, Advance
    PROVE  block' >= LG_PROLOG_ACTIVE \/ (block' = 0 /\ tick' = 0)
<1>1. block \in Nat /\ block < UINT8 /\ block >= LG_PROLOG_LENGTH
  BY Counters DEF InData
<1>2. CASE block + 1 < UINT8
  BY <1>1, <1>2, AdvanceType, Constants
<1>3. CASE block + 1 = UINT8
  <2>1. UINT8 % UINT8 = 0
    BY Constants, SMT
  <2> QED BY <1>1, <1>3, <2>1, Constants DEF Advance
<1> QED BY <1>1, <1>2, <1>3, Constants

LEMMA NextLed == Inv /\ LedAgrees /\ [Next]_vars => LedAgrees'
<1> SUFFICES ASSUME Inv, LedAgrees, [Next]_vars PROVE LedAgrees'
  OBVIOUS
<1> USE DEF Inv
<1>1. CASE Main
  <2>1. UNCHANGED << led, active, block, since, tick >>
    BY <1>1 DEF Main, Submit, CopyByte, StoreHalf, StoreOtherHalf, isrVars, airVars
  <2> QED BY <2>1 DEF LedAgrees
<1>2. CASE Idle
  <2>1. UNCHANGED << led, active, block, tick >> /\ ~led
    BY <1>2 DEF Idle, Drive, isrVars, LedAgrees
  <2> QED BY <2>1 DEF LedAgrees
<1>3. CASE PickUp
  <2>1. active' /\ led' /\ block' = 0 /\ tick' = 1 /\ since' = 1
    BY <1>3 DEF PickUp, Drive, LedAgrees
  <2>2. since' = block' * LG_BIT_LENGTH + tick'
    BY <2>1, Elapsed, Constants
  <2> QED BY <2>1, <2>2, Constants DEF LedAgrees
<1>4. CASE PrologOn
  <2>1. /\ active /\ active' /\ led' /\ block < LG_PROLOG_ACTIVE /\ Advance
        /\ since' = IF ~led THEN 1 ELSE IF since = SinceMax THEN since ELSE since + 1
    BY <1>4 DEF PrologOn, Drive
  <2>2. block + 1 < UINT8
    BY <2>1, Counters, Constants
  <2>3. since' = block * LG_BIT_LENGTH + tick + 1
    <3>1. CASE ~led
      <4>1. block = 0 /\ tick = 0
        BY <2>1, <3>1 DEF LedAgrees
      <4>2. block * LG_BIT_LENGTH + tick + 1 = 1
        BY <4>1, Elapsed, Constants
      <4> QED BY <2>1, <3>1, <4>2
    <3>2. CASE led
      <4>1. since = block * LG_BIT_LENGTH + tick
        BY <2>1, <3>2, Counters, Constants DEF LedAgrees
      <4>2. (block + 1) * LG_BIT_LENGTH <= LG_PROLOG_LENGTH * LG_BIT_LENGTH
        BY <2>1, Counters, Constants, Elapsed
      <4>3. since < SinceMax
        BY <4>1, <4>2, Counters, Constants, Elapsed
      <4> QED BY <2>1, <3>2, <4>1, <4>3, Counters
    <3> QED BY <3>1, <3>2
  <2>4. CASE tick + 1 >= LG_BIT_LENGTH
    <3>1. tick' = 0 /\ block' = block + 1 /\ tick + 1 = LG_BIT_LENGTH
      BY <2>1, <2>2, <2>4, AdvanceType, Counters, Constants
    <3>2. since' = block' * LG_BIT_LENGTH + tick'
      BY <2>3, <3>1, Counters, Elapsed, Constants
    <3>3. block' \in Nat /\ block' <= LG_PROLOG_ACTIVE
      BY <2>1, <3>1, Counters, Constants
    <3>4. /\ block' < LG_PROLOG_ACTIVE \/ block' = LG_PROLOG_ACTIVE
          /\ ~(block' >= LG_PROLOG_LENGTH)
      BY <3>3, Constants
    <3> QED BY <2>1, <3>1, <3>2, <3>4 DEF LedAgrees
  <2>5. CASE ~(tick + 1 >= LG_BIT_LENGTH)
    <3>1. tick' = tick + 1 /\ block' = block
      BY <2>1, <2>2, <2>5, AdvanceType
    <3>2. since' = block' * LG_BIT_LENGTH + tick'
      BY <2>3, <3>1, Counters, Elapsed, Constants
    <3> QED BY <2>1, <3>1, <3>2, Counters, Constants DEF LedAgrees
  <2> QED BY <2>4, <2>5
<1>5. CASE PrologOff
  <2>1. ~led' /\ LG_PROLOG_ACTIVE <= block /\ block < LG_PROLOG_LENGTH /\ Advance
    BY <1>5 DEF PrologOff, Drive
  <2>2. block' >= LG_PROLOG_ACTIVE
    BY <2>1, AdvanceType, Counters, Constants
  <2> QED BY <2>1, <2>2, AdvanceType, Constants DEF LedAgrees
<1>9. CASE PulseEnd \/ Finish \/ OnePause
  <2>1. ~led' /\ InData /\ Advance
    BY <1>9 DEF PulseEnd, Finish, OnePause, Drive
  <2>2. block' \in Nat
    BY <2>1, AdvanceType, Constants
  <2> QED BY <2>1, <2>2, DataBlock, Constants DEF LedAgrees
<1>6. CASE StartPulse \/ BitPulse
  <2>1. /\ active' /\ block >= LG_PROLOG_LENGTH /\ tick = 0 /\ Advance /\ Drive(TRUE)
    <3>1. CASE StartPulse
      BY <3>1 DEF StartPulse, InData
    <3>2. CASE BitPulse
      BY <3>2 DEF BitPulse, InData
    <3> QED BY <1>6, <3>1, <3>2
  <2>2. ~led
    BY <2>1, Constants DEF LedAgrees
  <2>3. since' = 1
    BY <2>1, <2>2 DEF Drive
  <2>4. tick' = 1 /\ block' = block
    BY <2>1, Counters, Constants DEF Advance
  <2> QED BY <2>1, <2>3, <2>4, Counters, Constants DEF LedAgrees
<1>7. CASE Hold
  <2>1. /\ active' /\ block >= LG_PROLOG_LENGTH /\ tick # 0 /\ tick # LG_BIT_ACTIVE /\ Advance
        /\ led' = led
        /\ led => since' = IF since = SinceMax THEN since ELSE since + 1
    BY <1>7 DEF Hold, InData, Drive
  <2>2. SUFFICES ASSUME led PROVE LedAgrees'
    <3>1. block' \in Nat /\ InData
      BY <1>7, <2>1, AdvanceType, Constants DEF Hold
    <3> QED BY <2>1, <3>1, DataBlock, Constants DEF LedAgrees
  <2>3. since = tick /\ tick < LG_BIT_ACTIVE
    BY <2>1, <2>2, Counters, Constants DEF LedAgrees
  <2>4. tick' = tick + 1 /\ block' = block
    BY <2>1, <2>3, Counters, Constants DEF Advance
  <2>5. SinceMax > LG_BIT_ACTIVE
    BY Elapsed, Constants
  <2> QED BY <2>1, <2>2, <2>3, <2>4, <2>5, Counters, Constants DEF LedAgrees
<1>8. CASE UNCHANGED vars
  BY <1>8 DEF vars, isrVars, airVars, LedAgrees
<1> QED BY <1>1, <1>2, <1>3, <1>4, <1>5, <1>6, <1>7, <1>8, <1>9
       DEF Next, TimerIsr

LEMMA LedInvariance == Spec => []LedAgrees
<1>1. Init => LedAgrees
  BY DEF Init, LedAgrees
<1> QED BY <1>1, NextLed, Invariance, PTL DEF Spec

(* The LED is lit only while a command is on the air, and never longer     *)
(* than the pulse at hand, a wrapped blockcount included.                  *)
THEOREM PulsesAlwaysBounded == Spec => []PulsesBounded
<1>1. Inv /\ LedAgrees => PulsesBounded
  <2>1. SUFFICES ASSUME Inv, LedAgrees, led PROVE PulsesBounded
    BY DEF PulsesBounded
  <2>2. CASE block >= LG_PROLOG_LENGTH
    BY <2>1, <2>2, Counters, Constants DEF Inv, LedAgrees, PulsesBounded
  <2>3. CASE block < LG_PROLOG_LENGTH
    <3>1. since = block * LG_BIT_LENGTH + tick
      BY <2>1, <2>3 DEF LedAgrees
    <3>2. CASE block < LG_PROLOG_ACTIVE
      <4>1. (block + 1) * LG_BIT_LENGTH <= LG_PROLOG_ACTIVE * LG_BIT_LENGTH
        BY <2>1, <3>2, Counters, Constants, Elapsed DEF Inv
      <4>2. since <= LG_PROLOG_ACTIVE * LG_BIT_LENGTH
        BY <2>1, <3>1, <4>1, Counters, Constants, Elapsed DEF Inv
      <4> QED BY <2>1, <2>3, <4>2, Counters, Constants DEF Inv, LedAgrees, PulsesBounded
    <3>3. CASE block = LG_PROLOG_ACTIVE /\ tick = 0
      <4>1. since = LG_PROLOG_ACTIVE * LG_BIT_LENGTH
        BY <3>1, <3>3, Constants, Elapsed
      <4> QED BY <2>1, <2>3, <4>1, Counters, Constants, Elapsed DEF Inv, LedAgrees, PulsesBounded
    <3> QED BY <2>1, <2>3, <3>2, <3>3 DEF LedAgrees
  <2> QED BY <2>1, <2>2, <2>3, Counters, Constants DEF Inv
<1> QED BY <1>1, LedInvariance, Invariance, PTL
=============================================================================
