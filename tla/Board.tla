-------------------------------- MODULE Board --------------------------------
(***************************************************************************)
(* main(): the program from a reset to its endless loop, with the devices  *)
(* on its buses.  The W5100 and the SD card share the SPI bus, each with a *)
(* select line of its own (w5100.c, spi.c, mmc.c); the temperature sensor  *)
(* is alone on the two-wire bus.                                           *)
(*                                                                         *)
(* Start-up configures the W5100, initialises the card, mounts its file    *)
(* system (pf_mount() of pff.c), and writes to the sensor.  What the loop  *)
(* does to the buses while it serves a client is any sequence of accesses  *)
(* to the registers of the W5100, readings of the temperature and, if the  *)
(* card is mounted, reads from it.                                         *)
(*                                                                         *)
(* The watchdog is reset at the top of the loop only.  Start-up takes far  *)
(* less than its 8 seconds, but for the polls of a card that is not ready  *)
(* and the waits for its data tokens, at the slow clock of the start.      *)
(* `age` counts both, and after PATIENCE polls the watchdog fires.         *)
(***************************************************************************)
EXTENDS Sensor, SdCard

CONSTANTS CONF,     \* 19: bytes of configuration that the W5100 gets
          PATIENCE, \* 6250: polls of the card that take 8 seconds
          WAIT      \* 1500: polls that take as long as 30000 bytes without a token

ASSUME BoardAssumption ==
    CONF \in Nat \ {0} /\ PATIENCE \in Nat \ {0} /\ WAIT \in Nat

VARIABLES stage,  \* where main() stands
          xfer,   \* the access to the W5100 under way
          w5cs,   \* its select line: "float" before main() drives it
          conf,   \* configuration bytes the chip has taken
          sent,   \* and those that the program has written
          speed,  \* of the SPI clock
          mpc,    \* where pf_mount() stands
          bsect,  \* its local: the sector where the file system begins
          FatFs,  \* pff.c: a file system is mounted
          age     \* time of this start that went by, in polls of the card

boardVars == << stage, xfer, w5cs, conf, sent, speed, mpc, bsect, FatFs, age >>
vars == << sensorVars, cardVars, boardVars >>

TypeOK ==
    /\ SensorTypeOK /\ CardTypeOK
    /\ stage \in {"start", "config", "disk", "mount", "clock", "sensor", "loop"}
    /\ xfer \in {"none", "write", "read"}
    /\ w5cs \in {"float", "low", "high"}
    /\ conf \in 0 .. CONF /\ sent \in 0 .. CONF
    /\ speed \in {"slow", "full"}
    /\ mpc \in {"out", "init", "sig", "fs", "mbr", "bpb"}
    /\ bsect \in Lbas
    /\ FatFs \in BOOLEAN
    /\ age \in 0 .. PATIENCE

Init ==
    /\ bus = "free" /\ held = FALSE /\ sending = FALSE /\ pointer = "temp"
    /\ temp \in Temps /\ measured = NoReading /\ reply = NoReading
    /\ spc = "out" /\ call = "init" /\ left = 0
    /\ result = << 0, 0 >> /\ ret = 0 /\ clean = TRUE
    /\ card \in Cards /\ cstate = "native" /\ block = 0 /\ sector = 0
    /\ drives = FALSE /\ cs = "float"
    /\ CardType = {} /\ dpc = "out" /\ ty = {} /\ cmd = "CMD1" /\ tmr = 0
    /\ arg = NoRead /\ buff = << >> /\ res = "ERROR" /\ pulled = FALSE
    /\ stage = "start" /\ xfer = "none" /\ w5cs = "float" /\ conf = 0 /\ sent = 0
    /\ speed = "slow" /\ mpc = "out" /\ bsect = 0 /\ FatFs = FALSE /\ age = 0

-----------------------------------------------------------------------------
(* The select line of the W5100 is toggled by w5100_cs(), not set. *)

w5100_cs == w5cs' = IF w5cs = "low" THEN "high" ELSE "low"

Select(access) ==
    /\ xfer = "none"
    /\ w5100_cs
    /\ xfer' = access
    /\ UNCHANGED << sensorVars, cardVars, stage, conf, sent, speed, mpc, bsect, FatFs, age >>

(* The four bytes of an access.  The chip takes them if it is selected.    *)
Transfer ==
    /\ xfer # "none"
    /\ w5100_cs
    /\ xfer' = "none"
    /\ sent' = IF xfer = "write" THEN sent + 1 ELSE sent
    /\ conf' = IF xfer = "write" /\ w5cs = "low" THEN conf + 1 ELSE conf
    /\ UNCHANGED << sensorVars, cardVars, stage, speed, mpc, bsect, FatFs, age >>

(* w5100_init(): the chip is reset, and its select line driven high. *)
W5100Init ==
    /\ stage = "start"
    /\ stage' = "config"
    /\ w5cs' = "high" /\ speed' = "slow"
    /\ conf' = 0 /\ sent' = 0
    /\ UNCHANGED << sensorVars, cardVars, xfer, mpc, bsect, FatFs, age >>

(* w5100_mem_write_P() and the retry count. *)
W5100Config ==
    /\ stage = "config" /\ sent < CONF
    /\ Select("write")
-----------------------------------------------------------------------------
(* main(): the card. *)

(* Its select line is driven high. *)
CardPin ==
    /\ stage = "config" /\ sent = CONF /\ xfer = "none"
    /\ stage' = "disk"
    /\ cs' = "high"
    /\ UNCHANGED << sensorVars, card, cstate, block, sector, drives, diskVars,
                    xfer, w5cs, conf, sent, speed, mpc, bsect, FatFs, age >>

StartDisk ==
    /\ stage = "disk" /\ dpc = "out"
    /\ DiskInitialize
    /\ UNCHANGED << sensorVars, boardVars >>

(* A card that answered is mounted. *)
DiskStarted ==
    /\ stage = "disk" /\ dpc = "ret"
    /\ IF res = "OK"
         THEN stage' = "mount" /\ mpc' = "init"
         ELSE stage' = "clock" /\ mpc' = mpc
    /\ DiskReturns
    /\ UNCHANGED << sensorVars, xfer, w5cs, conf, sent, speed, bsect, FatFs, age >>
-----------------------------------------------------------------------------
(* pf_mount(): the card is initialised once more, and the first sector of  *)
(* the card, the table of partitions, and the first sector of a partition  *)
(* are looked at.  What they say is left open; a read may fail.            *)

MountStays == UNCHANGED << sensorVars, xfer, w5cs, conf, sent, speed, age >>

MountStart ==
    /\ mpc = "init" /\ dpc = "out"
    /\ DiskInitialize
    /\ UNCHANGED << stage, mpc, bsect, FatFs >>
    /\ MountStays

(* disk_readp() of a part of the sector bsect: the table is in sector 0.   *)
MountRead ==
    /\ mpc \in {"sig", "fs", "mbr", "bpb"} /\ dpc = "out"
    /\ \E a \in Reads : a.lba = bsect /\ ReadPartial(a)
    /\ UNCHANGED << stage, mpc, bsect, FatFs >>
    /\ MountStays

(* What may come after a step of pf_mount(): "out" for the end. *)
AfterMount ==
    CASE mpc = "init" -> IF res = "OK" THEN {"sig"} ELSE {"out"}
      [] mpc = "fs" -> (IF res = "OK" THEN {"bpb"} ELSE {})
                         \cup {IF bsect = 0 THEN "mbr" ELSE "out"}
      [] mpc = "sig" -> {"out"} \cup (IF res = "OK" THEN {"fs"} ELSE {})
      [] mpc = "mbr" -> {"out"} \cup (IF res = "OK" THEN {"sig"} ELSE {})
      [] mpc = "bpb" -> {"out"}

MountStep ==
    /\ stage = "mount" /\ dpc = "ret"
    /\ mpc' \in AfterMount
    /\ bsect' \in IF mpc' = "out" THEN {0}
                 ELSE IF mpc = "mbr" THEN Lbas \ {0} ELSE {bsect}
    /\ FatFs' \in IF mpc = "bpb" /\ res = "OK" THEN BOOLEAN ELSE {FALSE}
    /\ stage' = IF mpc' = "out" THEN "clock" ELSE stage
    /\ DiskReturns
    /\ MountStays
-----------------------------------------------------------------------------
(* main(): the rest of the start, and the loop. *)

spi_fullspeed ==
    /\ stage = "clock"
    /\ speed' = "full"
    /\ stage' = "sensor"
    /\ SensorInit
    /\ UNCHANGED << cardVars, xfer, w5cs, conf, sent, mpc, bsect, FatFs, age >>

(* mcp9800_init() has returned, and the loop begins with wdt_reset(). *)
EnterLoop ==
    /\ stage = "sensor" /\ spc = "ret"
    /\ stage' = "loop"
    /\ age' = 0
    /\ SensorReturns
    /\ UNCHANGED << cardVars, xfer, w5cs, conf, sent, speed, mpc, bsect, FatFs >>

InLoop == stage = "loop" /\ xfer = "none" /\ dpc = "out" /\ spc = "out"

(* A register is read.  To write one is the same, but nothing comes back.  *)
ReadRegister == InLoop /\ Select("read")

(* /cgi-bin/temp/raw *)
AskTemp ==
    /\ InLoop
    /\ GetTemp
    /\ UNCHANGED << cardVars, boardVars >>

TempAnswered ==
    /\ stage = "loop" /\ spc = "ret"
    /\ SensorReturns
    /\ UNCHANGED << cardVars, boardVars >>

(* pf_open() or pf_read(). *)
ReadSector ==
    /\ InLoop /\ FatFs
    /\ \E a \in Reads : ReadPartial(a)
    /\ UNCHANGED << sensorVars, boardVars >>

SectorRead ==
    /\ stage = "loop" /\ dpc = "ret"
    /\ DiskReturns
    /\ UNCHANGED << sensorVars, boardVars >>

(* A poll of a card that is not ready takes its share of the 8 seconds. *)
PollCard ==
    /\ age < PATIENCE
    /\ Polls
    /\ age' = age + 1
    /\ UNCHANGED << sensorVars, stage, xfer, w5cs, conf, sent, speed, mpc, bsect, FatFs >>

(* The wait for a token ends at any time up to WAIT.  In the loop, where   *)
(* the clock is fast and the watchdog is reset, `age` stands still.        *)
AwaitToken ==
    /\ Token
    /\ IF stage = "loop"
         THEN age' = age
         ELSE age < PATIENCE /\ age' \in {n \in age .. PATIENCE : n <= age + WAIT}
    /\ UNCHANGED << sensorVars, stage, xfer, w5cs, conf, sent, speed, mpc, bsect, FatFs >>

Program ==
    \/ W5100Init \/ W5100Config \/ Transfer
    \/ CardPin \/ StartDisk \/ DiskStarted
    \/ MountStart \/ MountRead \/ MountStep
    \/ spi_fullspeed \/ EnterLoop
    \/ ReadRegister \/ AskTemp \/ TempAnswered \/ ReadSector \/ SectorRead
    \/ PollCard \/ AwaitToken
    \/ CardStep /\ UNCHANGED << sensorVars, boardVars >>
    \/ SensorStep /\ UNCHANGED << cardVars, boardVars >>
-----------------------------------------------------------------------------
(* What the program does not do. *)

MainAfterReset ==
    /\ stage' = "start" /\ xfer' = "none" /\ w5cs' = "float"
    /\ speed' = "slow" /\ mpc' = "out" /\ bsect' = 0 /\ FatFs' = FALSE /\ age' = 0
    /\ UNCHANGED << conf, sent >>

(* The processor starts again, the other chips keep their power: by the    *)
(* reset pin or by the watchdog, which a silent client may bring about.    *)
Reset == SensorAfterReset /\ CardAfterReset /\ MainAfterReset

PowerCut == SensorAfterPowerCut /\ CardAfterPowerCut /\ MainAfterReset

Hung == held /\ spc \in {"w_start", "r_start"}
Stuck == age = PATIENCE \/ Hung

Watchdog == Stuck /\ Reset

World ==
    \/ Weather /\ UNCHANGED << cardVars, boardVars >>
    \/ Swap /\ UNCHANGED << sensorVars, boardVars >>

Next == Program \/ Reset \/ PowerCut \/ World

(* The processor runs, and the watchdog fires when it must. *)
Spec == Init /\ [][Next]_vars /\ WF_vars(Program) /\ WF_vars(Watchdog)
-----------------------------------------------------------------------------
Identifying == dpc \in {"cmd0", "cmd8", "acmd41", "cmd58", "probe", "poll", "cmd16"}

(* Two chips share the SPI bus.  While the program reads from the W5100    *)
(* the card is deselected and has let go of the line, whichever way the    *)
(* last call of mmc.c ended (mmc.c:66-71, 225); while it talks to the card *)
(* the W5100 is not selected, although its line is only ever toggled       *)
(* (w5100.c:53-56); and a card is identified at the slow clock only.       *)
OneOnTheBus ==
    /\ xfer # "none" => w5cs = "low"
    /\ xfer = "read" => cs = "high" /\ ~drives
    /\ dpc # "out" => w5cs = "high"
    /\ Identifying => speed = "slow"
    /\ stage \notin {"start", "config"} => conf = CONF

(* A read of the card that reports success has stored the bytes that were  *)
(* asked for, of the sector that was asked for, and the whole block has    *)
(* been taken off the bus (mmc.c:193-225): for every kind of card, after   *)
(* every answer that was missed and every reset in the middle of a block,  *)
(* unless the card was changed during the read.                            *)
SectorIsAsked ==
    dpc = "release" /\ res = "OK" /\ ~pulled =>
        /\ block = 0
        /\ buff = [i \in 1 .. arg.cnt |-> << arg.lba, arg.ofs + i - 1 >>]

(* What a reading returns (mcp9800.c:51-74) is what the sensor measured,   *)
(* if nothing failed, although earlier calls may have ended without STOP.  *)
(* A failure shows as 0, except for one: if the bus is lost at the last    *)
(* byte the whole degrees are right and the fraction is 0 (i2c.c:142).     *)
TempIsMeasured ==
    spc = "ret" =>
        /\ clean => ret = Compress(measured)
        /\ ret \in {0, Compress(measured), Compress(<< measured[1], 0 >>)}

Starting == stage # "loop"
ResetFromOutside == (Reset /\ ~Stuck) \/ PowerCut

(* If resets from outside end, every start comes to the loop, whatever     *)
(* card is in the slot and however often it is changed, misses a command   *)
(* or sends no data (mmc.c:111-113, 199-202).  Three things stop it until  *)
(* the watchdog fires: a card that stays busy (mmc.c:148, 161), as its     *)
(* retries take longer than 8 seconds; one that is late with nearly every  *)
(* token of pf_mount(), at up to 1.9 seconds each (mmc.c:199); and a       *)
(* sensor that holds the data line (i2c.c:52).                             *)
Boots == <>[][~ResetFromOutside]_vars => (Starting ~> (~Starting \/ Stuck))
=============================================================================
