-------------------------------- MODULE SdCard --------------------------------
(***************************************************************************)
(* mmc.c: disk_initialize() and disk_readp() over the SPI bus.  A step is  *)
(* one command with its response, send_cmd(), or the transfer that follows *)
(* it.  An ACMD is two commands in one step.                               *)
(*                                                                         *)
(* The card is external.  It answers nothing (255) until CMD0 has put it   *)
(* into SPI mode, it may miss any command, it may stay idle for as long as *)
(* it likes, and it can be taken out and replaced at any time.  A high-    *)
(* capacity card ("sdhc") leaves idle only if it is told that the host     *)
(* knows it (HCS), and it is addressed by sectors, the others by bytes.    *)
(* Deselecting a card ends the block it was sending; it lets go of the     *)
(* MISO line when it is clocked once more.                                 *)
(***************************************************************************)
EXTENDS Naturals, Sequences

CONSTANTS SECTOR,     \* 512
          TRIES_SD2,  \* 12000: polls of a version 2 card
          TRIES_SD1,  \* 25000: polls of a version 1 card or an MMC
          Lbas        \* sectors that are read

ASSUME CardAssumption ==
    /\ SECTOR \in Nat \ {0, 1}
    /\ TRIES_SD2 \in Nat \ {0} /\ TRIES_SD1 \in Nat \ {0}
    /\ Lbas \subseteq Nat /\ 0 \in Lbas

VARIABLES card,      \* what is in the slot
          cstate,    \* "native", "idle" or "ready"
          block,     \* bytes the card still has to send of a block and its CRC
          sector,    \* the sector they belong to
          drives,    \* the card drives MISO
          cs,        \* its select line: "float" before main() drives it
          CardType,  \* the flags of mmc.c
          dpc,       \* where mmc.c stands; "out" if not called
          ty, cmd, tmr, \* locals of disk_initialize()
          arg,       \* the arguments of disk_readp(): [lba, ofs, cnt]
          buff,      \* what it stored
          res,       \* what it returned, or disk_initialize() did
          pulled     \* history: the card was changed during the call

slotVars == << card, cstate, block, sector, drives, cs >>
diskVars == << CardType, dpc, ty, cmd, tmr, arg, buff, res, pulled >>
cardVars == << slotVars, diskVars >>

Cards == {"none", "mmc", "sd1", "sd2", "sdhc"}
CT_MMC == {"MMC"}
CT_SD1 == {"SD1"}
CT_SD2 == {"SD2"}
CT_BLOCK == {"BLOCK"}
CardTypes == {{}, CT_MMC, CT_SD1, CT_SD2, CT_SD2 \cup CT_BLOCK}

Reads == {a \in [lba : Lbas, ofs : 0 .. (SECTOR - 1), cnt : 1 .. SECTOR] :
            a.ofs + a.cnt <= SECTOR}
NoRead == [lba |-> 0, ofs |-> 0, cnt |-> 1]

CardTypeOK ==
    /\ card \in Cards /\ cstate \in {"native", "idle", "ready"}
    /\ block \in 0 .. (SECTOR + 2) /\ sector \in Nat
    /\ drives \in BOOLEAN /\ pulled \in BOOLEAN
    /\ cs \in {"float", "low", "high"}
    /\ CardType \in CardTypes /\ ty \in CardTypes
    /\ dpc \in {"out", "cmd0", "cmd8", "acmd41", "cmd58", "probe", "poll",
                "cmd16", "end", "cmd17", "token", "data", "release", "ret"}
    /\ cmd \in {"ACMD41", "CMD1"}
    /\ tmr \in 0 .. TRIES_SD2 \cup 0 .. TRIES_SD1
    /\ arg \in Reads
    /\ Len(buff) <= SECTOR
    /\ res \in {"OK", "ERROR"}
-----------------------------------------------------------------------------
(* The card. *)

NoAnswer == 255
Illegal == 5  \* the idle bit and the bit of an unknown command

(* What the card may answer to a command, besides nothing.  hcs: the host  *)
(* says that it knows high-capacity cards.                                 *)
Replies(c, hcs) ==
    IF card = "none" \/ (cstate = "native" /\ c # "CMD0") THEN {}
    ELSE CASE c = "CMD0" -> {1}
           [] c = "CMD8" -> IF card \in {"sd2", "sdhc"} THEN {1} ELSE {Illegal}
           [] c = "CMD55" -> IF card = "mmc" THEN {Illegal}
                             ELSE IF cstate = "idle" THEN {1} ELSE {0}
           [] c = "ACMD41" -> IF card = "sdhc" /\ ~hcs THEN {1} ELSE {0, 1}
           [] c = "CMD1" -> IF card = "sdhc" THEN {1} ELSE {0, 1}
           [] OTHER -> IF cstate = "idle" THEN {Illegal} ELSE {0}

(* The command c reaches the card and is answered by r.  CMD0 makes the    *)
(* card idle, the answer 0 to ACMD41 or CMD1 says that it is ready.        *)
Answered(c, hcs, r) ==
    /\ r \in Replies(c, hcs) \cup {NoAnswer}
    /\ cstate' = CASE c = "CMD0" /\ r = 1 -> "idle"
                   [] c \in {"ACMD41", "CMD1"} /\ r = 0 -> "ready"
                   [] OTHER -> cstate

(* send_cmd(): DESELECT, a dummy byte, SELECT, the packet, the response.   *)
(* An ACMD ends early if CMD55 is not accepted.                            *)
SendCmd(c, hcs, r) ==
    /\ cs' = "low"
    /\ drives' = (card # "none")
    /\ \/ c # "ACMD41" /\ Answered(c, hcs, r)
       \/ /\ c = "ACMD41"
          /\ \E a \in Replies("CMD55", hcs) \cup {NoAnswer} :
                IF a > 1
                  THEN r = a /\ UNCHANGED cstate
                  ELSE Answered(c, hcs, r)
    /\ UNCHANGED card

(* Someone changes the card.  The new one has just got its power. *)
Swap ==
    /\ card' \in Cards
    /\ cstate' = "native"
    /\ block' = 0 /\ sector' = 0
    /\ drives' = FALSE
    /\ pulled' = TRUE
    /\ UNCHANGED << cs, CardType, dpc, ty, cmd, tmr, arg, buff, res >>
-----------------------------------------------------------------------------
(* disk_initialize() *)

Inside(next) ==
    /\ dpc' = next
    /\ UNCHANGED << block, sector, CardType, arg, buff, res, pulled >>

(* A hundred bytes are clocked with the card deselected. *)
DiskInitialize ==
    /\ dpc' = "cmd0"
    /\ ty' = {} /\ drives' = FALSE
    /\ block' = 0 /\ sector' = 0
    /\ pulled' = FALSE
    /\ UNCHANGED << card, cstate, cs, CardType, cmd, tmr, arg, buff, res >>

Cmd0 ==
    /\ dpc = "cmd0"
    /\ \E r \in {1, NoAnswer} :
        /\ SendCmd("CMD0", FALSE, r)
        /\ Inside(IF r = 1 THEN "cmd8" ELSE "end")
    /\ UNCHANGED << ty, cmd, tmr >>

(* A version 2 card repeats the voltage range in its answer, or does not.  *)
Cmd8 ==
    /\ dpc = "cmd8"
    /\ \E r \in {1, Illegal, NoAnswer} :
        /\ SendCmd("CMD8", FALSE, r)
        /\ \/ r = 1 /\ Inside("acmd41") /\ tmr' = TRIES_SD2
           \/ r = 1 /\ Inside("end") /\ UNCHANGED tmr
           \/ r # 1 /\ Inside("probe") /\ UNCHANGED tmr
    /\ UNCHANGED << ty, cmd >>

(* for (tmr = ...; tmr && send_cmd(...); tmr--) ; *)
Retry(from, c, hcs, next) ==
    /\ dpc = from
    /\ IF tmr = 0
         THEN Inside("end") /\ UNCHANGED << card, cstate, drives, cs, tmr >>
         ELSE \E r \in {0, 1, Illegal, NoAnswer} :
                /\ SendCmd(c, hcs, r)
                /\ tmr' = IF r = 0 THEN tmr ELSE tmr - 1
                /\ Inside(IF r = 0 THEN next ELSE from)

Acmd41 ==
    /\ Retry("acmd41", "ACMD41", TRUE, "cmd58")
    /\ UNCHANGED << ty, cmd >>

(* Mutant: the CCS bit is not looked at. *)
Cmd58NoBlock ==
    /\ dpc = "cmd58"
    /\ \E r \in {0, Illegal, NoAnswer} :
        /\ SendCmd("CMD58", FALSE, r)
        /\ ty' = IF r = 0 THEN CT_SD2 ELSE {}
    /\ Inside("end")
    /\ UNCHANGED << cmd, tmr >>

(* The CCS bit of the OCR tells a card that is addressed by sectors. *)
Cmd58 ==
    /\ dpc = "cmd58"
    /\ \E r \in {0, Illegal, NoAnswer} :
        /\ SendCmd("CMD58", FALSE, r)
        /\ ty' = IF r # 0 THEN {}
                 ELSE IF card = "sdhc" THEN CT_SD2 \cup CT_BLOCK ELSE CT_SD2
    /\ Inside("end")
    /\ UNCHANGED << cmd, tmr >>

(* A card that does not take ACMD41 is an MMC. *)
Probe ==
    /\ dpc = "probe"
    /\ \E r \in {0, 1, Illegal, NoAnswer} :
        /\ SendCmd("ACMD41", FALSE, r)
        /\ ty' = IF r <= 1 THEN CT_SD1 ELSE CT_MMC
        /\ cmd' = IF r <= 1 THEN "ACMD41" ELSE "CMD1"
    /\ tmr' = TRIES_SD1
    /\ Inside("poll")

Poll ==
    /\ Retry("poll", cmd, FALSE, "cmd16")
    /\ ty' = IF tmr = 0 THEN {} ELSE ty
    /\ UNCHANGED cmd

Cmd16 ==
    /\ dpc = "cmd16"
    /\ \E r \in {0, Illegal, NoAnswer} :
        /\ SendCmd("CMD16", FALSE, r)
        /\ ty' = IF r = 0 THEN ty ELSE {}
    /\ Inside("end")
    /\ UNCHANGED << cmd, tmr >>

(* release_spi(): DESELECT, and a byte that makes the card let go. *)
ReleaseSpi ==
    /\ cs' = "high"
    /\ drives' = FALSE
    /\ block' = 0 /\ sector' = 0
    /\ UNCHANGED << card, cstate >>

DiskReady ==
    /\ dpc = "end"
    /\ CardType' = ty
    /\ res' = IF ty = {} THEN "ERROR" ELSE "OK"
    /\ ReleaseSpi
    /\ dpc' = "ret"
    /\ ty' = {} /\ tmr' = 0 /\ cmd' = "CMD1"
    /\ UNCHANGED << arg, buff, pulled >>
-----------------------------------------------------------------------------
(* disk_readp() *)

ReadPartial(a) ==
    /\ dpc' = "cmd17"
    /\ arg' = a /\ buff' = << >> /\ res' = "ERROR"
    /\ pulled' = FALSE
    /\ UNCHANGED << slotVars, CardType, ty, cmd, tmr >>

(* Sector numbers become byte addresses unless the card counts sectors.    *)
Address == IF CT_BLOCK \subseteq CardType THEN arg.lba ELSE arg.lba * SECTOR

(* READ_SINGLE_BLOCK. *)
Cmd17 ==
    /\ dpc = "cmd17"
    /\ \E r \in {0, Illegal, NoAnswer} :
        /\ SendCmd("CMD17", FALSE, r)
        /\ dpc' = IF r = 0 THEN "token" ELSE "release"
        /\ block' = IF r = 0 THEN SECTOR + 2 ELSE 0
        /\ sector' = IF r # 0 THEN 0
                     ELSE IF card = "sdhc" THEN Address ELSE Address \div SECTOR
    /\ UNCHANGED << CardType, ty, cmd, tmr, arg, buff, res, pulled >>

(* Mutant: the wait has no end. *)
TokenForever ==
    /\ dpc = "token"
    /\ block > 0
    /\ dpc' \in {"release", "data"}
    /\ UNCHANGED << slotVars, CardType, ty, cmd, tmr, arg, buff, res, pulled >>

(* Waiting for the data token: it comes, or another token, or none.        *)
Token ==
    /\ dpc = "token"
    /\ dpc' \in {"release"} \cup (IF block > 0 THEN {"data"} ELSE {})
    /\ UNCHANGED << slotVars, CardType, ty, cmd, tmr, arg, buff, res, pulled >>

(* Mutant: the bytes that were stored are skipped again. *)
DataSkipsMore ==
    /\ dpc = "data"
    /\ buff' = [i \in 1 .. arg.cnt |->
                  IF block > 0 THEN << sector, arg.ofs + i - 1 >> ELSE << >>]
    /\ block' = IF block > 0
                  THEN block - (arg.ofs + arg.cnt + (SECTOR + 2 - arg.ofs))
                  ELSE 0
    /\ res' = "OK"
    /\ dpc' = "release"
    /\ UNCHANGED << card, cstate, sector, drives, cs, CardType, ty, cmd, tmr, arg, pulled >>

(* Bytes before ofs are skipped, cnt are stored, the rest and the CRC are  *)
(* skipped.  If the card is gone, what is read is not data.                *)
Data ==
    /\ dpc = "data"
    /\ buff' = [i \in 1 .. arg.cnt |->
                  IF block > 0 THEN << sector, arg.ofs + i - 1 >> ELSE << >>]
    /\ block' = IF block > 0
                  THEN block - (arg.ofs + arg.cnt + (SECTOR + 2 - arg.ofs - arg.cnt))
                  ELSE 0
    /\ res' = "OK"
    /\ dpc' = "release"
    /\ UNCHANGED << card, cstate, sector, drives, cs, CardType, ty, cmd, tmr, arg, pulled >>

(* Mutant: only a read that succeeded releases the bus. *)
ReleaseIfRead ==
    /\ dpc = "release"
    /\ IF res = "OK" THEN ReleaseSpi ELSE UNCHANGED slotVars
    /\ dpc' = "ret"
    /\ UNCHANGED << CardType, ty, cmd, tmr, arg, buff, res, pulled >>

Release ==
    /\ dpc = "release"
    /\ ReleaseSpi
    /\ dpc' = "ret"
    /\ UNCHANGED << CardType, ty, cmd, tmr, arg, buff, res, pulled >>

(* What the locals of disk_readp() held is gone. *)
DiskForgets ==
    /\ dpc' = "out"
    /\ arg' = NoRead /\ buff' = << >> /\ res' = "ERROR" /\ pulled' = FALSE

DiskReturns == DiskForgets /\ UNCHANGED << slotVars, CardType, ty, cmd, tmr >>

(* The processor is reset, and its pins float; the card goes on. *)
DriverAfterReset ==
    /\ DiskForgets
    /\ cs' = "float"
    /\ CardType' = {} /\ ty' = {} /\ cmd' = "CMD1" /\ tmr' = 0

CardAfterReset == DriverAfterReset /\ UNCHANGED << card, cstate, block, sector, drives >>

(* The card, too, is without power for a moment. *)
CardAfterPowerCut ==
    /\ DriverAfterReset
    /\ cstate' = "native" /\ block' = 0 /\ sector' = 0 /\ drives' = FALSE
    /\ UNCHANGED card

Polls == Acmd41 \/ Poll
CardStep ==
    \/ Cmd0 \/ Cmd8 \/ Cmd58 \/ Probe \/ Cmd16 \/ DiskReady
    \/ Cmd17 \/ Data \/ Release
=============================================================================
