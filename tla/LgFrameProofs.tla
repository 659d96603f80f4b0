---------------------------- MODULE LgFrameProofs ----------------------------
(***************************************************************************)
(* The proof that a clean frame arrives bit for bit, for every length of   *)
(* command and pulse: what the receiver has heard is tied to the counters  *)
(* of the interrupt (LgTransmitProofs) step by step.                       *)
(***************************************************************************)
EXTENDS LgTransmitProofs

(* The distance to the last pulse grows with the blocks. *)
SinceAgrees ==
    active /\ frame # "torn" =>
        /\ block < LG_PROLOG_LENGTH \/ (block = LG_PROLOG_LENGTH /\ sent = 0) =>
              since = block * LG_BIT_LENGTH + tick
        /\ block = 0 => tick > 0
        /\ sent # 0 => since = (IF half THEN LG_BIT_LENGTH ELSE 0)
                                + (IF tick = 0 THEN LG_BIT_LENGTH ELSE tick)

(* What the receiver has of a clean frame: the bits of the command up to   *)
(* the one that is being sent.                                             *)
HeardSoFar ==
    active /\ frame = "clean" =>
         /\ buffer = intended /\ len = intended.len
         /\ half => intended.data[byte][bit] = 1
         /\ sent # 0 =>
              /\ Len(heard) = sent - 1
              /\ \A i \in ByteIndex, j \in BitIndex :
                    BYTE_BITS * i + j < sent - 1 =>
                        heard[BYTE_BITS * i + j + 1] = intended.data[i][j]

FrameInv == Inv /\ LedAgrees /\ CopyProgress /\ SinceAgrees /\ HeardSoFar /\ CleanFrameArrives
-----------------------------------------------------------------------------
LEMMA ThreeBlocks ==
    /\ LG_PROLOG_LENGTH * LG_BIT_LENGTH >= 3 * LG_BIT_LENGTH
    /\ SinceMax > 3 * LG_BIT_LENGTH
<1>1. 3 * LG_BIT_LENGTH <= LG_PROLOG_LENGTH * LG_BIT_LENGTH
  BY Elapsed, Constants
<1> QED BY <1>1, Elapsed, Constants

(* At the first tick of a block of data the LED is off. *)
LEMMA DarkAtTick0 ==
    ASSUME TypeOK, LedAgrees, InData, tick = 0
    PROVE  ~led
BY Constants DEF LedAgrees, InData

(* The first pulse of the data comes right behind the prolog. *)
LEMMA FirstPulse ==
    ASSUME Inv, SinceAgrees, frame # "torn", StartPulse
    PROVE  /\ block = LG_PROLOG_LENGTH /\ ~half
           /\ since = LG_PROLOG_LENGTH * LG_BIT_LENGTH
<1>1. active /\ block >= LG_PROLOG_LENGTH /\ tick = 0 /\ sent = 0
  BY DEF StartPulse, InData
<1>2. ~half
  BY <1>1 DEF Inv, CountersAgree
<1>3. block = LG_PROLOG_LENGTH
  BY <1>1, <1>2, Counters, Constants DEF Inv, CountersAgree, HalfCount
<1>4. since = LG_PROLOG_LENGTH * LG_BIT_LENGTH + 0
  BY <1>1, <1>3 DEF SinceAgrees
<1> QED BY <1>2, <1>3, <1>4, Elapsed, Constants

(* A tick of the prolog, or within the data, lets since grow by one. *)
LEMMA SinceGrows ==
    ASSUME Inv, SinceAgrees, active, frame # "torn", NEW on, Drive(on), ~(on /\ ~led),
           block < LG_PROLOG_LENGTH \/ sent # 0
    PROVE  since' = since + 1
<1>1. since < SinceMax
  <2>1. CASE block < LG_PROLOG_LENGTH
    <3>1. since = block * LG_BIT_LENGTH + tick
      BY <2>1 DEF SinceAgrees
    <3>2. (block + 1) * LG_BIT_LENGTH <= LG_PROLOG_LENGTH * LG_BIT_LENGTH
      BY <2>1, Counters, Constants, Elapsed DEF Inv
    <3> QED BY <3>1, <3>2, Counters, Constants, Elapsed DEF Inv
  <2>2. CASE sent # 0
    <3>1. since <= 2 * LG_BIT_LENGTH
      <4>1. since = (IF half THEN LG_BIT_LENGTH ELSE 0) + (IF tick = 0 THEN LG_BIT_LENGTH ELSE tick)
        BY <2>2 DEF SinceAgrees
      <4>2. CASE half
        BY <4>1, <4>2, Counters, Constants DEF Inv
      <4>3. CASE ~half
        BY <4>1, <4>3, Counters, Constants DEF Inv
      <4> QED BY <4>2, <4>3
    <3> QED BY <3>1, ThreeBlocks, Counters, Constants DEF Inv
  <2> QED BY <2>1, <2>2
<1> QED BY <1>1, Counters, Constants DEF Inv, Drive
-----------------------------------------------------------------------------
LEMMA NextSince == Inv /\ LedAgrees /\ SinceAgrees /\ [Next]_vars => SinceAgrees'
<1> SUFFICES ASSUME Inv, LedAgrees, SinceAgrees, [Next]_vars,
                    active', frame' # "torn"
             PROVE  SinceAgrees'
  BY DEF SinceAgrees
<1>1. CASE Main
  <2>1. /\ UNCHANGED << active, block, since, tick, half, sent >>
        /\ frame # "torn"
    BY <1>1 DEF Main, Submit, CopyByte, StoreHalf, StoreOtherHalf, isrVars, airVars, history
  <2> QED BY <2>1 DEF SinceAgrees
<1>2. CASE Idle
  BY <1>2 DEF Idle, isrVars
<1>3. CASE PickUp
  <2>1. block' = 0 /\ tick' = 1 /\ since' = 1 /\ sent' = 0
    BY <1>3 DEF PickUp, Drive, LedAgrees
  <2>2. since' = block' * LG_BIT_LENGTH + tick'
    BY <2>1, Elapsed, Constants
  <2> QED BY <2>1, <2>2, Constants DEF SinceAgrees
<1>4. CASE PrologOn \/ PrologOff
  <2>1. /\ active /\ frame # "torn" /\ block < LG_PROLOG_LENGTH /\ Advance
        /\ UNCHANGED << active, half, sent, frame >>
        /\ \E on \in BOOLEAN : Drive(on) /\ (on => block < LG_PROLOG_ACTIVE)
    <3>1. CASE PrologOn
      <4>1. /\ active /\ block < LG_PROLOG_ACTIVE /\ Drive(TRUE) /\ Advance
            /\ UNCHANGED << active, half, sent, frame >>
        BY <3>1 DEF PrologOn, history
      <4>2. block < LG_PROLOG_LENGTH
        BY <4>1, Counters, Constants DEF Inv
      <4> QED BY <4>1, <4>2
    <3>2. CASE PrologOff
      BY <3>2 DEF PrologOff, history
    <3> QED BY <1>4, <3>1, <3>2
  <2>2. since' = since + 1
    <3>1. PICK on \in BOOLEAN : Drive(on) /\ (on => block < LG_PROLOG_ACTIVE)
      BY <2>1
    <3>2. on => led
      BY <2>1, <3>1, Counters DEF Inv, LedAgrees, SinceAgrees
    <3> QED BY <2>1, <3>1, <3>2, SinceGrows
  <2>3. since = block * LG_BIT_LENGTH + tick
    BY <2>1 DEF SinceAgrees
  <2>4. sent' = 0
    BY <2>1 DEF Inv, CountersAgree
  <2>5. block + 1 < UINT8
    BY <2>1, Counters, Constants DEF Inv
  <2>6. since' = block' * LG_BIT_LENGTH + tick' /\ (block' = 0 => tick' > 0)
    <3>1. CASE tick + 1 >= LG_BIT_LENGTH
      <4>1. tick' = 0 /\ block' = block + 1 /\ tick + 1 = LG_BIT_LENGTH
        BY <2>1, <2>5, <3>1, AdvanceType, Counters, Constants DEF Inv
      <4> QED BY <2>2, <2>3, <4>1, Counters, Constants, Elapsed DEF Inv
    <3>2. CASE ~(tick + 1 >= LG_BIT_LENGTH)
      <4>1. tick' = tick + 1 /\ block' = block
        BY <2>1, <2>5, <3>2, AdvanceType DEF Inv
      <4> QED BY <2>2, <2>3, <4>1, Counters, Constants, Elapsed DEF Inv
    <3> QED BY <3>1, <3>2
  <2> QED BY <2>4, <2>6 DEF SinceAgrees
<1>5. CASE StartPulse
  <2>1. /\ active /\ frame # "torn" /\ InData /\ tick = 0 /\ Advance /\ Drive(TRUE)
        /\ sent' = 1 /\ half' = half
    BY <1>5 DEF StartPulse, InData, history
  <2>2. ~led /\ ~half /\ block = LG_PROLOG_LENGTH
    BY <1>5, <2>1, DarkAtTick0, FirstPulse DEF Inv
  <2>3. since' = 1
    BY <2>1, <2>2 DEF Drive
  <2>4. tick' = 1 /\ block' = LG_PROLOG_LENGTH
    BY <2>1, <2>2, Counters, Constants DEF Inv, Advance
  <2> QED BY <2>1, <2>2, <2>3, <2>4, Constants DEF SinceAgrees
<1>6. CASE BitPulse
  <2>1. /\ active /\ frame # "torn" /\ InData /\ tick = 0 /\ Advance /\ Drive(TRUE)
        /\ half' = FALSE /\ sent <= len /\ sent # 0 /\ sent' = (sent + 1) % UINT8
    BY <1>6 DEF BitPulse, InData, history
  <2>2. ~led /\ block \in Nat /\ block >= LG_PROLOG_LENGTH
    BY <2>1, DarkAtTick0, Counters DEF Inv, InData
  <2>3. since' = 1
    BY <2>1, <2>2 DEF Drive
  <2>4. tick' = 1 /\ block' = block
    BY <2>1, Counters, Constants DEF Inv, Advance
  <2>5. sent' # 0
    <3>1. sent + 1 < UINT8 /\ sent + 1 \in Nat
      BY <2>1, BlockInRange, Counters, Constants DEF Inv
    <3> QED BY <2>1, <3>1, Modulo, Counters DEF Inv
  <2> QED BY <2>1, <2>2, <2>3, <2>4, <2>5, Constants DEF SinceAgrees
<1>7. CASE OnePause
  <2>1. /\ active /\ frame # "torn" /\ InData /\ tick = 0 /\ Advance /\ Drive(FALSE)
        /\ ~half /\ half' = TRUE /\ sent # 0 /\ sent' = sent
    BY <1>7 DEF OnePause, InData, history
  <2>2. since' = since + 1 /\ since = LG_BIT_LENGTH
    <3>1. since' = since + 1
      BY <2>1, SinceGrows
    <3>2. since = 0 + LG_BIT_LENGTH
      BY <2>1 DEF SinceAgrees
    <3> QED BY <3>1, <3>2, Constants
  <2>3. tick' = 1 /\ block' = block /\ block \in Nat /\ block >= LG_PROLOG_LENGTH
    BY <2>1, Counters, Constants DEF Inv, Advance, InData
  <2> QED BY <2>1, <2>2, <2>3, Constants DEF SinceAgrees
<1>8. CASE PulseEnd \/ Hold
  <2>1. /\ active /\ frame # "torn" /\ InData /\ tick # 0 /\ Advance
        /\ half' = half /\ sent' = sent
        /\ \E on \in BOOLEAN : Drive(on) /\ (on => led)
    <3>1. CASE PulseEnd
      <4>1. /\ active /\ tick = LG_BIT_ACTIVE /\ Drive(FALSE) /\ Advance /\ InData
            /\ UNCHANGED << active, half, sent, frame >>
        BY <3>1 DEF PulseEnd, InData, history
      <4>2. tick # 0
        BY <4>1, Constants
      <4> QED BY <4>1, <4>2
    <3>2. CASE Hold
      <4>1. led \in BOOLEAN
        BY DEF Inv, TypeOK
      <4> QED BY <3>2, <4>1 DEF Hold, InData, history
    <3> QED BY <1>8, <3>1, <3>2
  <2>2. sent # 0
    BY <2>1, Counters, Constants DEF Inv, CountersAgree, HalfCount, InData
  <2>3. since' = since + 1
    BY <2>1, <2>2, SinceGrows
  <2>4. since = (IF half THEN LG_BIT_LENGTH ELSE 0) + tick
    BY <2>1, <2>2 DEF SinceAgrees
  <2>5. block + 1 < UINT8
    BY <2>1, BlockInRange DEF Inv
  <2>6. /\ block' >= LG_PROLOG_LENGTH /\ block' \in Nat
        /\ IF tick + 1 >= LG_BIT_LENGTH THEN tick' = 0 ELSE tick' = tick + 1
    BY <2>1, <2>5, AdvanceType, Counters, Constants DEF Inv, InData
  <2> QED BY <2>1, <2>2, <2>3, <2>4, <2>6, Counters, Constants DEF Inv, SinceAgrees
<1>9. CASE Finish
  BY <1>9 DEF Finish
<1>10. CASE UNCHANGED vars
  BY <1>10 DEF vars, isrVars, airVars, history, SinceAgrees
<1> QED BY <1>1, <1>2, <1>3, <1>4, <1>5, <1>6, <1>7, <1>8, <1>9, <1>10 DEF Next, TimerIsr
-----------------------------------------------------------------------------
(* The bit that a pulse ends is appended to what was heard before. *)
LEMMA PulseHeard ==
    ASSUME FrameInv, frame = "clean", BitPulse
    PROVE  heard' = Append(heard, intended.data[byte][bit])
<1>1. /\ active /\ InData /\ tick = 0 /\ sent <= len /\ sent # 0 /\ Drive(TRUE)
      /\ half \/ 0 \in BitRead
  BY DEF BitPulse, InData
<1>2. ~led
  BY <1>1, DarkAtTick0 DEF FrameInv, Inv
<1>3. buffer = intended /\ Len(heard) = sent - 1 /\ len = intended.len
  BY <1>1 DEF FrameInv, HeardSoFar
<1>4. Len(heard) # HeardMax
  <2>1. sent <= len /\ len <= MaxLen
    BY <1>1 DEF FrameInv, Inv, CountersAgree
  <2>2. sent \in Nat /\ len \in Nat
    BY Counters DEF FrameInv, Inv
  <2>3. MaxLen \in Nat /\ HeardMax = MaxLen + 1
    BY Constants
  <2>4. Len(heard) = sent - 1
    BY <1>3
  <2> QED BY <2>1, <2>2, <2>3, <2>4
<1>5. byte \in ByteIndex /\ bit \in BitIndex
  BY <1>1, ByteInRange, Counters DEF FrameInv, Inv, TypeOK
<1>6. since = (IF half THEN LG_BIT_LENGTH ELSE 0) + LG_BIT_LENGTH
  BY <1>1 DEF FrameInv, SinceAgrees
<1>7. CASE half
  <2>1. since = 2 * LG_BIT_LENGTH /\ since # LG_BIT_LENGTH
    BY <1>6, <1>7, Constants
  <2>2. intended.data[byte][bit] = 1
    BY <1>1, <1>7 DEF FrameInv, HeardSoFar
  <2> QED BY <1>1, <1>2, <1>4, <2>1, <2>2 DEF Drive
<1>8. CASE ~half
  <2>1. since = LG_BIT_LENGTH
    BY <1>6, <1>8, Constants
  <2>2. intended.data[byte][bit] = 0
    BY <1>1, <1>3, <1>8 DEF BitRead
  <2> QED BY <1>1, <1>2, <1>4, <2>1, <2>2 DEF Drive
<1> QED BY <1>7, <1>8

LEMMA NextHeard == FrameInv /\ [Next]_vars => HeardSoFar'
<1> SUFFICES ASSUME FrameInv, [Next]_vars, active', frame' = "clean" PROVE HeardSoFar'
  BY DEF HeardSoFar
<1>1. CASE Main
  <2>1. /\ UNCHANGED << active, frame, intended, len, half, byte, bit, sent, heard >>
        /\ buffer' = buffer
    <3>1. CASE CopyByte
      BY <3>1 DEF CopyByte, isrVars, airVars
    <3>2. CASE ~CopyByte
      BY <1>1, <3>2 DEF Main, Submit, StoreHalf, StoreOtherHalf, isrVars, airVars, history
    <3> QED BY <3>1, <3>2
  <2> QED BY <2>1 DEF FrameInv, HeardSoFar
<1>2. CASE Idle
  BY <1>2 DEF Idle, isrVars
<1>3. CASE PickUp
  <2>1. /\ pc # "copy" /\ next = Halves /\ len' = buffer.len /\ intended' = opcode
        /\ buffer' = buffer /\ half' = FALSE /\ sent' = 0
    BY <1>3 DEF PickUp, mainVars
  <2>2. buffer = opcode
    BY <2>1 DEF FrameInv, Inv, TypeOK, CopyProgress, Halves
  <2> QED BY <2>1, <2>2 DEF HeardSoFar
<1>4. CASE PrologOn \/ PrologOff
  <2>1. /\ active /\ frame = "clean" /\ block < LG_PROLOG_LENGTH
        /\ UNCHANGED << buffer, intended, len, half, sent >>
    <3>1. CASE PrologOn
      BY <3>1, Counters, Constants DEF FrameInv, Inv, PrologOn, mainVars, history
    <3>2. CASE PrologOff
      BY <3>2 DEF PrologOff, mainVars, history
    <3> QED BY <1>4, <3>1, <3>2
  <2>2. sent = 0 /\ ~half
    BY <2>1 DEF FrameInv, Inv, CountersAgree
  <2> QED BY <2>1, <2>2 DEF FrameInv, HeardSoFar
<1>5. CASE StartPulse
  <2>1. /\ active /\ frame = "clean" /\ InData /\ tick = 0 /\ Drive(TRUE) /\ sent' = 1
        /\ UNCHANGED << buffer, intended, len, half >>
    BY <1>5 DEF StartPulse, InData, mainVars, history
  <2>2. ~led /\ ~half /\ since = LG_PROLOG_LENGTH * LG_BIT_LENGTH
    BY <1>5, <2>1, DarkAtTick0, FirstPulse DEF FrameInv, Inv
  <2>3. since # LG_BIT_LENGTH /\ since # 2 * LG_BIT_LENGTH
    BY <2>2, ThreeBlocks, Elapsed, Constants
  <2>4. heard' = << >>
    BY <2>1, <2>2, <2>3 DEF Drive
  <2>5. ASSUME NEW i \in ByteIndex, NEW j \in BitIndex PROVE ~(BYTE_BITS * i + j < sent' - 1)
    <3>1. i \in Nat /\ j \in Nat
      BY Constants DEF ByteIndex, BitIndex
    <3>2. BYTE_BITS * i \in Nat
      BY <3>1, Constants, SMT
    <3> QED BY <2>1, <3>1, <3>2
  <2> QED BY <2>1, <2>2, <2>4, <2>5 DEF FrameInv, HeardSoFar
<1>6. CASE BitPulse
  <2>1. /\ active /\ frame = "clean" /\ sent # 0 /\ sent <= len
        /\ half' = FALSE /\ sent' = (sent + 1) % UINT8
        /\ UNCHANGED << buffer, intended, len >>
    BY <1>6 DEF BitPulse, InData, mainVars, history
  <2>2. sent' = sent + 1
    <3>1. sent + 1 < UINT8 /\ sent + 1 \in Nat
      BY <2>1, BlockInRange, Counters, Constants DEF FrameInv, Inv
    <3> QED BY <2>1, <3>1, Modulo
  <2>3. heard \in Seq(Bit) /\ Len(heard) = sent - 1 /\ sent \in Nat
    BY <2>1, Counters DEF FrameInv, Inv, TypeOK, HeardSoFar
  <2>4. heard' = Append(heard, intended.data[byte][bit])
    BY <1>6, <2>1, PulseHeard
  <2>5. sent - 1 = BYTE_BITS * byte + bit
    <3>1. BYTE_BITS * byte + bit \in Nat
      BY Counters, Constants, SMT DEF FrameInv, Inv
    <3> QED BY <2>1, <3>1, Counters DEF FrameInv, Inv, CountersAgree
  <2>6. Len(heard') = sent
    BY <2>3, <2>4
  <2>7. ASSUME NEW i \in ByteIndex, NEW j \in BitIndex, BYTE_BITS * i + j < sent
        PROVE  heard'[BYTE_BITS * i + j + 1] = intended.data[i][j]
    <3>1. i \in Nat /\ j \in Nat /\ BYTE_BITS * i + j \in Nat
      <4>1. i \in Nat /\ j \in Nat
        BY Constants DEF ByteIndex, BitIndex
      <4> QED BY <4>1, Constants, SMT
    <3>2. CASE BYTE_BITS * i + j < sent - 1
      <4>1. heard[BYTE_BITS * i + j + 1] = intended.data[i][j]
        BY <2>1, <3>2 DEF FrameInv, HeardSoFar
      <4>2. BYTE_BITS * i + j + 1 \in 1 .. Len(heard)
        BY <2>3, <3>1, <3>2
      <4> QED BY <2>3, <2>4, <4>1, <4>2
    <3>3. CASE BYTE_BITS * i + j = sent - 1
      <4>1. i = byte /\ j = bit
        BY <2>5, <3>1, <3>3, PositionUnique, Counters DEF FrameInv, Inv, TypeOK
      <4>2. BYTE_BITS * i + j + 1 = Len(heard) + 1
        BY <2>3, <3>1, <3>3
      <4> QED BY <2>3, <2>4, <4>1, <4>2
    <3> QED BY <2>3, <2>7, <3>1, <3>2, <3>3
  <2> QED BY <2>1, <2>2, <2>3, <2>6, <2>7 DEF FrameInv, HeardSoFar
<1>7. CASE OnePause
  <2>1. /\ active /\ frame = "clean" /\ 1 \in BitRead /\ heard' = heard
        /\ UNCHANGED << buffer, intended, len, byte, bit, sent >>
    BY <1>7 DEF OnePause, InData, Drive, mainVars, history
  <2>2. intended.data[byte][bit] = 1
    BY <2>1 DEF BitRead, FrameInv, HeardSoFar
  <2> QED BY <2>1, <2>2 DEF FrameInv, HeardSoFar
<1>8. CASE PulseEnd \/ Hold
  <2>1. /\ active /\ frame = "clean" /\ heard' = heard
        /\ UNCHANGED << buffer, intended, len, half, byte, bit, sent >>
    BY <1>8 DEF PulseEnd, Hold, InData, Drive, mainVars, history
  <2> QED BY <2>1 DEF FrameInv, HeardSoFar
<1>9. CASE Finish
  BY <1>9 DEF Finish
<1>10. CASE UNCHANGED vars
  BY <1>10 DEF vars, mainVars, isrVars, airVars, history, FrameInv, HeardSoFar
<1> QED BY <1>1, <1>2, <1>3, <1>4, <1>5, <1>6, <1>7, <1>8, <1>9, <1>10 DEF Next, TimerIsr

LEMMA NextArrives == FrameInv /\ [Next]_vars => CleanFrameArrives'
<1> SUFFICES ASSUME FrameInv, [Next]_vars, ~active', frame' = "clean"
             PROVE  Carries(heard', intended')
  BY DEF CleanFrameArrives, Carries
<1>1. CASE ~active
  <2>1. UNCHANGED << heard, intended, frame >>
    <3>1. CASE Main
      BY <1>1, <3>1 DEF Main, Submit, CopyByte, StoreHalf, StoreOtherHalf, airVars, history
    <3>2. CASE Idle
      BY <3>2 DEF Idle, Drive, history
    <3>3. CASE UNCHANGED vars
      BY <3>3 DEF vars, airVars, history
    <3> QED BY <1>1, <3>1, <3>2, <3>3
            DEF Next, TimerIsr, PickUp, PrologOn, PrologOff, StartPulse, BitPulse, OnePause,
                PulseEnd, Finish, Hold, InData
  <2> QED BY <1>1, <2>1 DEF FrameInv, CleanFrameArrives
<1>2. CASE active
  <2>1. Finish
    BY <1>2 DEF Next, Main, TimerIsr, Submit, CopyByte, StoreHalf, StoreOtherHalf, Idle, PickUp,
                PrologOn, PrologOff, StartPulse, BitPulse, OnePause, PulseEnd, Hold, vars, isrVars
  <2>2. /\ InData /\ sent > len /\ frame = "clean" /\ heard' = heard /\ intended' = intended
    BY <2>1 DEF Finish, Drive, history
  <2>3. sent = len + 1 /\ sent # 0 /\ len \in Nat
    BY <1>2, <2>2, Counters DEF FrameInv, Inv, CountersAgree
  <2>4. Len(heard) = len /\ len = intended.len
    BY <1>2, <2>2, <2>3 DEF FrameInv, HeardSoFar
  <2>5. \A i \in ByteIndex, j \in BitIndex :
          BYTE_BITS * i + j < len => heard[BYTE_BITS * i + j + 1] = intended.data[i][j]
    BY <1>2, <2>2, <2>3 DEF FrameInv, HeardSoFar
  <2> QED BY <2>2, <2>4, <2>5 DEF Carries
<1> QED BY <1>1, <1>2

(* However the interrupt falls into lg_send(): a command that was picked up*)
(* whole, and that no later call copied over, is on the air bit for bit the*)
(* command that main asked for last.                                       *)
THEOREM CleanFramesArrive == Spec => []CleanFrameArrives
<1>1. Init => FrameInv
  BY InitInv DEF FrameInv, Init, LedAgrees, CopyProgress, SinceAgrees, HeardSoFar,
                 CleanFrameArrives
<1>2. FrameInv /\ [Next]_vars => FrameInv'
  BY NextInv, NextLed, NextCopy, NextSince, NextHeard, NextArrives DEF FrameInv
<1>3. FrameInv => CleanFrameArrives
  BY DEF FrameInv
<1> QED BY <1>1, <1>2, <1>3, PTL DEF Spec
=============================================================================
