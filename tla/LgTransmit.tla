----------------------------- MODULE LgTransmit ------------------------------
(***************************************************************************)
(* lg.c: lg_send(), which hands a command to the infrared transmitter, and *)
(* the TIMER0 overflow interrupt, which shapes the pulses on the infrared  *)
(* LED, one tick of the carrier per invocation.                            *)
(*                                                                         *)
(* lg_send() copies the command byte by byte into one static buffer and    *)
(* then stores a 16-bit pointer in two 8-bit stores.  The interrupt runs   *)
(* between any two of these steps.  It reads the buffer while it transmits *)
(* and takes any pointer that is not NULL, a half-stored one included: it  *)
(* then reads a length and bits that are not the command's ("torn").       *)
(*                                                                         *)
(* A command is a bit length and BYTES data bytes, a byte a function from  *)
(* bit positions (0 is the most significant) to bits.  The receiver in the *)
(* air conditioner is not part of the program: it measures the time between*)
(* the starts of two pulses.                                               *)
(***************************************************************************)
EXTENDS Naturals, Sequences

CONSTANTS Opcodes,           \* the commands main may send
          GarbageLens,       \* what command_len may be behind a torn pointer
          BYTES,             \* 4: data bytes of a command
          BYTE_BITS,         \* 8: bits of a byte
          LG_BIT_LENGTH,     \* 43: ticks of a block
          LG_BIT_ACTIVE,     \* 22: ticks the LED is on for a pulse
          LG_PROLOG_LENGTH,  \* 12: blocks of the prolog
          LG_PROLOG_ACTIVE,  \* 8: blocks of the prolog with the LED on
          UINT8              \* 256: blockcount and sent are 8 bits wide

Bit == {0, 1}
ByteIndex == 0 .. (BYTES - 1)
BitIndex == 0 .. (BYTE_BITS - 1)
Opcode == [len : 0 .. (BYTES * BYTE_BITS), data : [ByteIndex -> [BitIndex -> Bit]]]

ASSUME ConstantsAssumption ==
    /\ BYTES \in Nat \ {0}
    /\ BYTE_BITS \in Nat \ {0}
    /\ LG_BIT_LENGTH \in Nat /\ LG_BIT_ACTIVE \in Nat
    /\ 0 < LG_BIT_ACTIVE /\ LG_BIT_ACTIVE < LG_BIT_LENGTH
    /\ LG_PROLOG_LENGTH \in Nat /\ LG_PROLOG_ACTIVE \in Nat
    /\ 0 < LG_PROLOG_ACTIVE /\ LG_PROLOG_ACTIVE < LG_PROLOG_LENGTH
    /\ 2 < LG_PROLOG_LENGTH
    /\ UINT8 \in Nat
    /\ LG_PROLOG_LENGTH + 2 * BYTES * BYTE_BITS + 2 < UINT8
    /\ Opcodes \subseteq Opcode
    /\ Opcodes # {}
    /\ GarbageLens \subseteq 0 .. (UINT8 - 1)

VARIABLES
    pc,        \* main: "idle", "copy", "publish" or, half-way, the half to store
    opcode,    \* main: the argument of the last lg_send()
    copied,    \* main: bytes that memcpy has copied
    buffer,    \* static uint8_t buffer[5] of lg_send()
    next,      \* the halves of next_command that are not zero
    active,    \* interrupt: command != NULL
    len,       \* interrupt: command_len
    byte,      \* interrupt: the data byte command points to
    bit, half, \* interrupt: low nibble of bit; its high nibble is set
    tick, block, sent,  \* interrupt: tickcount, blockcount, sent
    led,       \* PIN5 of DDRD: the carrier reaches the LED
    since,     \* receiver: ticks since the last pulse began, up to SinceMax
    heard,     \* receiver: the bits since the last prolog
    frame,     \* history: how the last command was picked up
    intended   \* history: the command main last asked for when it was

mainVars == << pc, opcode, copied, buffer >>
isrVars == << active, len, byte, bit, half, tick, block, sent >>
airVars == << led, since, heard >>
history == << frame, intended >>
vars == << mainVars, next, isrVars, airVars, history >>

Halves == {"high", "low"}
Pending == next # {}
SinceMax == LG_PROLOG_LENGTH * LG_BIT_LENGTH + 1
HeardMax == BYTES * BYTE_BITS + 1

(* bits is the command op as it is sent: byte by byte, first bit first. *)
Carries(bits, op) ==
    /\ Len(bits) = op.len
    /\ \A i \in ByteIndex, j \in BitIndex :
          BYTE_BITS * i + j < op.len => bits[BYTE_BITS * i + j + 1] = op.data[i][j]

TypeOK ==
    /\ pc \in {"idle", "copy", "publish", "high", "low"}
    /\ opcode \in Opcode /\ buffer \in Opcode
    /\ copied \in 0 .. (BYTES + 1)
    /\ next \subseteq Halves
    /\ active \in BOOLEAN /\ half \in BOOLEAN /\ led \in BOOLEAN
    /\ len \in 0 .. (UINT8 - 1)
    /\ byte \in 0 .. BYTES
    /\ bit \in BitIndex
    /\ tick \in 0 .. (LG_BIT_LENGTH - 1)
    /\ block \in 0 .. (UINT8 - 1)
    /\ sent \in 0 .. (UINT8 - 1)
    /\ since \in 0 .. SinceMax
    /\ heard \in Seq(Bit) /\ Len(heard) <= HeardMax
    /\ frame \in {"none", "clean", "mixed", "torn"}
    /\ intended \in Opcode

Init ==
    /\ pc = "idle" /\ copied = 0
    /\ opcode \in Opcodes /\ intended = opcode
    /\ buffer = [len |-> 0, data |-> [i \in ByteIndex |-> [j \in BitIndex |-> 0]]]
    /\ next = {}
    /\ active = FALSE /\ len = 0 /\ byte = 0 /\ bit = 0 /\ half = FALSE
    /\ tick = 0 /\ block = 0 /\ sent = 0
    /\ led = FALSE /\ since = SinceMax /\ heard = << >>
    /\ frame = "none"
-----------------------------------------------------------------------------
(* The main program: lg_send(). *)

Submit(op) ==
    /\ pc = "idle"
    /\ opcode' = op
    /\ copied' = 0
    /\ pc' = "copy"
    /\ UNCHANGED << buffer, next, isrVars, airVars, history >>

(* Mutant: the copy stops one byte early. *)
CopyByteShort ==
    /\ pc = "copy"
    /\ buffer' = IF copied = 0
                   THEN [buffer EXCEPT !.len = opcode.len]
                   ELSE [buffer EXCEPT !.data[copied - 1] = opcode.data[copied - 1]]
    /\ copied' = copied + 1
    /\ pc' = IF copied = BYTES - 1 THEN "publish" ELSE "copy"
    /\ frame' = IF active /\ frame = "clean" THEN "mixed" ELSE frame
    /\ UNCHANGED << opcode, next, isrVars, airVars, intended >>

(* memcpy(buffer, opcode, 5), one byte; byte 0 is the length.  A copy into *)
(* the buffer that the interrupt is reading spoils the frame on the air.   *)
CopyByte ==
    /\ pc = "copy"
    /\ buffer' = IF copied = 0
                   THEN [buffer EXCEPT !.len = opcode.len]
                   ELSE [buffer EXCEPT !.data[copied - 1] = opcode.data[copied - 1]]
    /\ copied' = copied + 1
    /\ pc' = IF copied = BYTES THEN "publish" ELSE "copy"
    /\ frame' = IF active /\ frame = "clean" THEN "mixed" ELSE frame
    /\ UNCHANGED << opcode, next, isrVars, airVars, intended >>

(* next_command = buffer, in two stores of one byte, in either order. *)
StoreHalf ==
    /\ pc = "publish"
    /\ \E h \in Halves :
          /\ next' = next \cup {h}
          /\ pc' \in Halves \ {h}
    /\ UNCHANGED << opcode, copied, buffer, isrVars, airVars, history >>

StoreOtherHalf ==
    /\ pc \in Halves
    /\ next' = next \cup {pc}
    /\ pc' = "idle"
    /\ UNCHANGED << opcode, copied, buffer, isrVars, airVars, history >>

Main == (\E op \in Opcodes : Submit(op)) \/ CopyByte \/ StoreHalf \/ StoreOtherHalf
-----------------------------------------------------------------------------
(* The receiver, and the pin that feeds it.  A pulse that begins one block *)
(* after the last is a 0, two blocks after it a 1; any other distance      *)
(* belongs to a prolog, and the receiver starts afresh.  The bits of a torn*)
(* frame are arbitrary and are not recorded.                               *)

Drive(on) ==
    /\ led' = on
    /\ IF on /\ ~led
         THEN /\ since' = 1
              /\ heard' = IF frame # "torn" /\ since \in {LG_BIT_LENGTH, 2 * LG_BIT_LENGTH}
                            THEN IF Len(heard) = HeardMax THEN heard
                                 ELSE Append(heard, IF since = LG_BIT_LENGTH THEN 0 ELSE 1)
                            ELSE << >>
         ELSE /\ since' = IF since = SinceMax THEN since ELSE since + 1
              /\ heard' = heard
-----------------------------------------------------------------------------
(* The interrupt handler, one action per branch.  Each but Idle ends with  *)
(* the increments of tickcount and blockcount.                             *)

(* Mutant: the block is one tick too long. *)
AdvanceLate ==
    IF tick >= LG_BIT_LENGTH
      THEN tick' = 0 /\ block' = (block + 1) % UINT8
      ELSE tick' = tick + 1 /\ block' = block

Advance ==
    IF tick + 1 >= LG_BIT_LENGTH
      THEN tick' = 0 /\ block' = (block + 1) % UINT8
      ELSE tick' = tick + 1 /\ block' = block

Idle ==
    /\ ~active /\ ~Pending
    /\ Drive(led)
    /\ UNCHANGED << mainVars, next, isrVars, history >>

(* Mutant: bit is not reset with the other counters. *)
PickUpKeepsBit ==
    /\ ~active /\ Pending
    /\ next' = {}
    /\ active' = TRUE
    /\ byte' = 0 /\ bit' = bit /\ half' = FALSE
    /\ sent' = 0
    /\ tick' = 1 /\ block' = 0
    /\ IF next = Halves
         THEN /\ len' = buffer.len
              /\ frame' = IF pc = "copy" THEN "mixed" ELSE "clean"
         ELSE /\ len' \in GarbageLens
              /\ frame' = "torn"
    /\ intended' = opcode
    /\ Drive(TRUE)
    /\ UNCHANGED mainVars

(* A new command: reset the transmitter; the same invocation drives the    *)
(* first tick of the prolog.                                               *)
PickUp ==
    /\ ~active /\ Pending
    /\ next' = {}
    /\ active' = TRUE
    /\ byte' = 0 /\ bit' = 0 /\ half' = FALSE
    /\ sent' = 0
    /\ tick' = 1 /\ block' = 0
    /\ IF next = Halves
         THEN /\ len' = buffer.len
              /\ frame' = IF pc = "copy" THEN "mixed" ELSE "clean"
         ELSE /\ len' \in GarbageLens
              /\ frame' = "torn"
    /\ intended' = opcode
    /\ Drive(TRUE)
    /\ UNCHANGED mainVars

PrologOn ==
    /\ active /\ block < LG_PROLOG_ACTIVE
    /\ Drive(TRUE)
    /\ Advance
    /\ UNCHANGED << mainVars, next, active, len, byte, bit, half, sent, history >>

PrologOff ==
    /\ active /\ LG_PROLOG_ACTIVE <= block /\ block < LG_PROLOG_LENGTH
    /\ Drive(FALSE)
    /\ Advance
    /\ UNCHANGED << mainVars, next, active, len, byte, bit, half, sent, history >>

InData == active /\ block >= LG_PROLOG_LENGTH

StartPulse ==
    /\ InData /\ tick = 0 /\ sent <= len /\ sent = 0
    /\ Drive(TRUE)
    /\ sent' = 1
    /\ Advance
    /\ UNCHANGED << mainVars, next, active, len, byte, bit, half, history >>

(* What the interrupt may read at command: behind a torn pointer, anything.*)
BitRead == IF frame = "torn" THEN Bit ELSE {buffer.data[byte][bit]}

(* Mutant: the flag of a half-sent 1 is not cleared. *)
BitPulseKeepsHalf ==
    /\ InData /\ tick = 0 /\ sent <= len /\ sent # 0
    /\ half \/ 0 \in BitRead
    /\ Drive(TRUE)
    /\ sent' = (sent + 1) % UINT8
    /\ IF bit + 1 = BYTE_BITS
         THEN bit' = 0 /\ byte' = IF frame = "torn" THEN byte ELSE byte + 1
         ELSE bit' = bit + 1 /\ byte' = byte
    /\ Advance
    /\ UNCHANGED << mainVars, next, active, len, half, history >>

(* The pulse that ends a bit: a 0, or the second block of a 1.  The next   *)
(* byte of a torn frame is as arbitrary as the last: byte stands still.    *)
BitPulse ==
    /\ InData /\ tick = 0 /\ sent <= len /\ sent # 0
    /\ half \/ 0 \in BitRead
    /\ Drive(TRUE)
    /\ half' = FALSE
    /\ sent' = (sent + 1) % UINT8
    /\ IF bit + 1 = BYTE_BITS
         THEN bit' = 0 /\ byte' = IF frame = "torn" THEN byte ELSE byte + 1
         ELSE bit' = bit + 1 /\ byte' = byte
    /\ Advance
    /\ UNCHANGED << mainVars, next, active, len, history >>

(* The first, silent block of a 1. *)
OnePause ==
    /\ InData /\ tick = 0 /\ sent <= len /\ sent # 0
    /\ ~half /\ 1 \in BitRead
    /\ Drive(FALSE)
    /\ half' = TRUE
    /\ Advance
    /\ UNCHANGED << mainVars, next, active, len, byte, bit, sent, history >>

(* Mutant: the LED is not switched off between pulses. *)
PulseNeverEnds ==
    /\ InData /\ tick = LG_BIT_ACTIVE
    /\ Drive(led)
    /\ Advance
    /\ UNCHANGED << mainVars, next, active, len, byte, bit, half, sent, history >>

PulseEnd ==
    /\ InData /\ tick = LG_BIT_ACTIVE
    /\ Drive(FALSE)
    /\ Advance
    /\ UNCHANGED << mainVars, next, active, len, byte, bit, half, sent, history >>

(* Mutant: command is not set back to NULL. *)
FinishStaysActive ==
    /\ InData /\ tick = 0 /\ sent > len
    /\ Drive(FALSE)
    /\ Advance
    /\ UNCHANGED << mainVars, next, active, len, byte, bit, half, sent, history >>

Finish ==
    /\ InData /\ tick = 0 /\ sent > len
    /\ Drive(FALSE)
    /\ active' = FALSE
    /\ Advance
    /\ UNCHANGED << mainVars, next, len, byte, bit, half, sent, history >>

Hold ==
    /\ InData /\ tick \notin {0, LG_BIT_ACTIVE}
    /\ Drive(led)
    /\ Advance
    /\ UNCHANGED << mainVars, next, active, len, byte, bit, half, sent, history >>

TimerIsr ==
    \/ Idle \/ PickUp \/ PrologOn \/ PrologOff \/ StartPulse \/ BitPulse
    \/ OnePause \/ PulseEnd \/ Finish \/ Hold

Next == Main \/ TimerIsr

(* The timer hardware raises the interrupt on every carrier period. *)
Spec == Init /\ [][Next]_vars /\ WF_vars(TimerIsr)
-----------------------------------------------------------------------------
(* A command that was picked up whole, and that no later lg_send() copied  *)
(* over while it was on the air, arrives bit for bit as main last asked:   *)
(* lg_send(), both halves of the pointer, the prolog, the pulse distances  *)
(* and the end of the frame work together (lg.c:71-78, 121-190).           *)
CleanFrameArrives == ~active /\ frame = "clean" => Carries(heard, intended)

(* Between two calls of lg_send() a command that waits in next_command is  *)
(* the last one asked for, complete: an older one is replaced, never       *)
(* mingled with it (lg.c:75-77).                                           *)
PendingIsLatest == pc = "idle" /\ next = Halves => buffer = opcode

(* Whatever two commands overlap in the buffer, and whichever length was   *)
(* latched, the interrupt reads bits of the buffer only (lg.c:156, 163).   *)
ReadsInBuffer ==
    active /\ frame # "torn" /\ sent \in 1 .. len => byte \in ByteIndex

(* The LED is dark unless a command is on the air, and no pulse is longer  *)
(* than it should be, not even when a torn pointer yields a length that    *)
(* makes blockcount and sent wrap (lg.c:142-181).                          *)
PulsesBounded ==
    led => /\ active
           /\ since <= IF block >= LG_PROLOG_LENGTH
                         THEN LG_BIT_ACTIVE
                         ELSE LG_PROLOG_ACTIVE * LG_BIT_LENGTH

(* A frame from the buffer ends. (A torn one need not: with command_len    *)
(* 255 the comparison sent <= command_len is always true.)                 *)
FrameEnds == (active /\ frame # "torn") ~> ~active

(* A command that is completely handed over is taken up by the interrupt,  *)
(* unless a torn frame is on the air (lg.c:131).                           *)
TakenUp == (next = Halves /\ frame # "torn") ~> (next = {})

(* lg.c:73 says of the static buffer that its "value is not destroyed when *)
(* this method terminates, its needed by ISR": the frame that ends on the  *)
(* air was one of the commands submitted.  The next lg_send() destroys the *)
(* value while the interrupt still needs it.                               *)
HeardWasSubmitted ==
    ~active /\ frame \in {"clean", "mixed"} =>
        \E op \in Opcodes : Carries(heard, op)
=============================================================================
