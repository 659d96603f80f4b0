----------------------------- MODULE BoardProofs ------------------------------
(***************************************************************************)
(* Proofs about Sensor, SdCard and Board: for all temperatures, any size   *)
(* of a sector, any number of retries and any patience of the watchdog.    *)
(***************************************************************************)
EXTENDS Board, TLAPS

(* The sensor.  What has been read so far of a temperature, and that the   *)
(* pointer was set before it is used.                                      *)
Writing == spc \in {"w_start", "w_sla", "w_data"}
ReadingTemp == spc \in {"r_start", "r_sla", "r_first", "r_last"}

SensorInv ==
    /\ Writing => left > 0
    /\ call = "init" => ~ReadingTemp /\ spc # "ret"
    /\ call = "get" /\ (Writing \/ spc \in {"r_start", "r_sla", "r_first"}) => result = << 0, 0 >>
    /\ spc \in {"r_start", "r_sla"} => pointer = "temp"
    /\ spc \in {"r_first", "r_last"} => reply = measured
    /\ spc = "r_last" => result = << measured[1], 0 >>
    /\ spc = "stop" /\ call = "get" =>
          result = measured \/ (~clean /\ result = << measured[1], 0 >>)
    /\ TempIsMeasured

LEMMA Compressed ==
    ASSUME NEW t \in (0 .. 255) \X (0 .. 255)
    PROVE  Compress(t) \in 0 .. 255
BY DEF Compress

(* Every reading is a pair of bytes. *)
LEMMA Readings ==
    /\ NoReading \in Temps
    /\ \A t \in Temps : t \in (0 .. 255) \X (0 .. 255) /\ << t[1], 0 >> \in (0 .. 255) \X (0 .. 255)
    /\ \A t \in Temps : t = << t[1], t[2] >>
BY SensorAssumption DEF NoReading

(* A call that fails, and a step that changes nothing but its place.       *)
LEMMA FailTypes ==
    ASSUME SensorTypeOK, SensorInv, Fails, spc \notin {"out", "stop", "ret"},
           UNCHANGED << temp, measured, reply >>,
           bus' \in {"free", "ours"}, held' = held, sending' \in BOOLEAN,
           pointer' \in {"temp", "config"}
    PROVE  SensorTypeOK' /\ SensorInv'
<1>1. /\ clean' = FALSE /\ UNCHANGED << call, left, result >>
      /\ (call = "init" /\ spc' = "stop" /\ ret' = ret) \/ (call = "get" /\ spc' = "ret" /\ ret' = 0)
  BY DEF Fails, ReturnOne, SensorTypeOK
<1>2. SensorTypeOK'
  <2>1. held' \in BOOLEAN /\ sending' \in BOOLEAN /\ clean' \in BOOLEAN
    BY <1>1 DEF SensorTypeOK
  <2> QED BY <1>1, <2>1 DEF SensorTypeOK
<1>3. SensorInv'
  BY <1>1 DEF SensorInv, TempIsMeasured, Writing, ReadingTemp
<1> QED BY <1>2, <1>3

LEMMA StartTypes ==
    ASSUME SensorTypeOK, SensorInv, Start("w_start", "w_sla") \/ Start("r_start", "r_sla")
    PROVE  SensorTypeOK' /\ SensorInv'
<1>1. spc \notin {"out", "stop", "ret"} /\ UNCHANGED << held, pointer, temp, reply, measured >>
      /\ bus' \in {"free", "ours"} /\ sending' = FALSE
      /\ \/ Fails
         \/ spc = "w_start" /\ GoesOn("w_sla")
         \/ spc = "r_start" /\ GoesOn("r_sla")
  BY DEF Start, StartAccepted, Lost
<1>2. CASE Fails
  BY <1>1, <1>2, FailTypes DEF SensorTypeOK
<1>3. CASE ~Fails
  <2>1. /\ UNCHANGED << call, left, result, ret, clean >>
        /\ (spc = "w_start" /\ spc' = "w_sla") \/ (spc = "r_start" /\ spc' = "r_sla")
    BY <1>1, <1>3 DEF GoesOn
  <2>2. SensorTypeOK'
    <3>1. sending' \in BOOLEAN
      BY <1>1
    <3> QED BY <1>1, <2>1, <3>1 DEF SensorTypeOK
  <2>3. SensorInv'
    BY <1>1, <2>1 DEF SensorInv, TempIsMeasured, Writing, ReadingTemp
  <2> QED BY <2>2, <2>3
<1> QED BY <1>2, <1>3

LEMMA WriteTypes ==
    ASSUME SensorTypeOK, SensorInv, SlaWrite \/ WriteByte
    PROVE  SensorTypeOK' /\ SensorInv'
<1>1. CASE SlaWrite
  <2>1. spc = "w_sla" /\ UNCHANGED << held, pointer, temp, reply, measured >>
    BY <1>1 DEF SlaWrite, hardVars, Lost
  <2>2. CASE Fails
    <3>1. bus' \in {"free", "ours"} /\ sending' \in BOOLEAN
      BY <1>1, <2>2, Zenon DEF SlaWrite, hardVars, Lost, SensorTypeOK
    <3> QED BY <2>1, <2>2, <3>1, FailTypes DEF SensorTypeOK
  <2>3. CASE ~Fails
    <3>1. spc' = "w_data" /\ UNCHANGED << bus, sending, call, left, result, ret, clean >>
      BY <1>1, <2>3 DEF SlaWrite, GoesOn, hardVars
    <3> QED BY <2>1, <3>1 DEF SensorTypeOK, SensorInv, TempIsMeasured, Writing, ReadingTemp
  <2> QED BY <2>2, <2>3
<1>2. CASE WriteByte
  <2> DEFINE register == IF call = "init" THEN "config" ELSE "temp"
             first == left = (IF call = "init" THEN 2 ELSE 1)
  <2>1. spc = "w_data" /\ left > 0 /\ left \in 0 .. 2 /\ call \in {"init", "get"}
    BY <1>2 DEF WriteByte, SensorTypeOK, SensorInv, Writing
  <2>2. CASE Fails
    <3>1. bus' \in {"free", "ours"} /\ sending' \in BOOLEAN /\ pointer' \in {"temp", "config"}
          /\ UNCHANGED << temp, measured, reply, held >>
      <4>1. /\ UNCHANGED << bus, sending >> \/ (bus' = "free" /\ sending' = FALSE)
            /\ UNCHANGED << temp, measured, reply, held >>
        BY <1>2 DEF WriteByte, Lost
      <4>2. pointer' = pointer \/ pointer' = register
        BY <1>2 DEF WriteByte, Lost
      <4> QED BY <4>1, <4>2 DEF SensorTypeOK
    <3> QED BY <2>1, <2>2, <3>1, FailTypes
  <2>3. CASE ~Fails
    <3>1. /\ pointer' = IF first THEN register ELSE pointer
          /\ left' = left - 1
          /\ spc' = IF left > 1 THEN "w_data" ELSE IF call = "init" THEN "stop" ELSE "r_start"
          /\ UNCHANGED << bus, held, sending, temp, reply, measured, call, result, ret, clean >>
      BY <1>2, <2>3 DEF WriteByte
    <3>2. SensorTypeOK'
      BY <2>1, <3>1 DEF SensorTypeOK
    <3>3. spc' = "r_start" => call = "get" /\ left = 1 /\ pointer' = "temp"
      BY <2>1, <3>1
    <3>4. SensorInv'
      BY <2>1, <3>1, <3>3 DEF SensorInv, TempIsMeasured, Writing, ReadingTemp
    <3> QED BY <3>2, <3>4
  <2> QED BY <2>2, <2>3
<1> QED BY <1>1, <1>2

LEMMA ReadTypes ==
    ASSUME SensorTypeOK, SensorInv, SlaRead \/ ReadFirst \/ ReadLast
    PROVE  SensorTypeOK' /\ SensorInv'
<1>1. CASE SlaRead
  <2>1. spc = "r_sla" /\ UNCHANGED << held, pointer, temp >> /\ pointer = "temp"
    BY <1>1 DEF SlaRead, Lost, hardVars, SensorInv
  <2>2. CASE Fails
    <3>1. CASE UNCHANGED hardVars
      BY <2>1, <2>2, <3>1, FailTypes DEF hardVars, SensorTypeOK
    <3>2. CASE Lost
      <4>1. sending' \in BOOLEAN
        BY <3>2 DEF Lost
      <4> QED BY <2>1, <2>2, <3>2, <4>1, FailTypes DEF Lost, SensorTypeOK
    <3> QED BY <1>1, <2>2, <3>1, <3>2 DEF SlaRead, GoesOn, Fails, ReturnOne, SensorTypeOK
  <2>3. CASE ~Fails
    <3>1. /\ sending' = TRUE /\ reply' = temp /\ measured' = temp /\ spc' = "r_first"
          /\ UNCHANGED << bus, call, left, result, ret, clean >>
      BY <1>1, <2>1, <2>3 DEF SlaRead, GoesOn
    <3>2. sending' \in BOOLEAN
      BY <3>1
    <3>3. SensorTypeOK'
      BY <2>1, <3>1, <3>2 DEF SensorTypeOK
    <3>4. SensorInv'
      BY <2>1, <3>1 DEF SensorInv, TempIsMeasured, Writing, ReadingTemp
    <3> QED BY <3>3, <3>4
  <2> QED BY <2>2, <2>3
<1>2. CASE ReadFirst
  <2>1. /\ spc = "r_first" /\ spc' = "r_last" /\ result' = << reply[1], result[2] >>
        /\ UNCHANGED << bus, held, sending, pointer, temp, reply, measured, call, left, ret, clean >>
    BY <1>2 DEF ReadFirst, hardVars
  <2>2. call = "get" /\ reply = measured /\ result = << 0, 0 >> /\ measured \in Temps
    BY <2>1 DEF SensorInv, SensorTypeOK, ReadingTemp
  <2>3. result' = << measured[1], 0 >> /\ result' \in (0 .. 255) \X (0 .. 255)
    BY <2>1, <2>2, Readings
  <2>4. SensorTypeOK'
    BY <2>1, <2>3 DEF SensorTypeOK
  <2>5. SensorInv'
    BY <2>1, <2>2, <2>3 DEF SensorInv, TempIsMeasured, Writing, ReadingTemp
  <2> QED BY <2>4, <2>5
<1>3. CASE ReadLast
  <2>1. /\ spc = "r_last" /\ spc' = "stop" /\ UNCHANGED << held, pointer, temp, reply, measured >>
        /\ UNCHANGED << call, left, ret >>
    BY <1>3 DEF ReadLast, Lost
  <2>2. call = "get" /\ reply = measured /\ result = << measured[1], 0 >> /\ measured \in Temps
    BY <2>1 DEF SensorInv, SensorTypeOK, ReadingTemp
  <2>3. CASE result' = << result[1], reply[2] >> /\ sending' = FALSE /\ UNCHANGED << bus, clean >>
    <3>1. result' = measured
      BY <2>2, <2>3, Readings
    <3>2. result' \in (0 .. 255) \X (0 .. 255) /\ sending' \in BOOLEAN
      BY <2>2, <2>3, <3>1, Readings
    <3>3. SensorTypeOK'
      BY <2>1, <2>3, <3>2 DEF SensorTypeOK
    <3>4. SensorInv'
      BY <2>1, <2>2, <2>3, <3>1 DEF SensorInv, TempIsMeasured, Writing, ReadingTemp
    <3> QED BY <3>3, <3>4
  <2>4. CASE Lost /\ clean' = FALSE /\ UNCHANGED result
    <3>1. sending' \in BOOLEAN /\ clean' \in BOOLEAN /\ bus' = "free"
      BY <2>4 DEF Lost
    <3>2. SensorTypeOK'
      BY <2>1, <2>4, <3>1 DEF SensorTypeOK
    <3>3. SensorInv'
      BY <2>1, <2>2, <2>4 DEF SensorInv, TempIsMeasured, Writing, ReadingTemp
    <3> QED BY <3>2, <3>3
  <2> QED BY <1>3, <2>3, <2>4 DEF ReadLast
<1> QED BY <1>1, <1>2, <1>3

(* The stop, and with it the end of a call of mcp9800_get_temp().          *)
LEMMA StopTypes ==
    ASSUME SensorTypeOK, SensorInv, Stop
    PROVE  SensorTypeOK' /\ SensorInv'
<1>1. /\ spc = "stop" /\ bus' = "free" /\ sending' \in BOOLEAN
      /\ UNCHANGED << held, pointer, temp, reply, measured >>
  BY DEF Stop
<1>2. CASE call = "init"
  <2>1. /\ call' = "get" /\ left' = 1 /\ result' = << 0, 0 >> /\ spc' = "w_start" /\ UNCHANGED ret
        /\ clean' \in BOOLEAN
    BY <1>2 DEF Stop
  <2>2. SensorTypeOK'
    BY <1>1, <2>1 DEF SensorTypeOK
  <2>3. SensorInv'
    BY <1>1, <2>1 DEF SensorInv, TempIsMeasured, Writing, ReadingTemp
  <2> QED BY <2>2, <2>3
<1>3. CASE call = "get"
  <2>1. ret' = Compress(result) /\ spc' = "ret" /\ UNCHANGED << call, left, result, clean >>
    BY <1>3 DEF Stop
  <2>2. ret' \in 0 .. 255
    BY <2>1, Compressed DEF SensorTypeOK
  <2>3. SensorTypeOK'
    BY <1>1, <2>1, <2>2 DEF SensorTypeOK
  <2>4. result = measured \/ (~clean /\ result = << measured[1], 0 >>)
    BY <1>1, <1>3 DEF SensorInv
  <2>5. TempIsMeasured'
    <3>1. clean' = clean /\ measured' = measured
      BY <1>1, <2>1
    <3>2. CASE result = measured
      BY <2>1, <3>1, <3>2 DEF TempIsMeasured, Compress
    <3>3. CASE ~clean /\ result = << measured[1], 0 >>
      BY <2>1, <3>1, <3>3 DEF TempIsMeasured, Compress
    <3> QED BY <2>4, <3>2, <3>3
  <2>6. SensorInv'
    BY <1>1, <1>3, <2>1, <2>5 DEF SensorInv, Writing, ReadingTemp
  <2> QED BY <2>3, <2>6
<1> QED BY <1>2, <1>3 DEF SensorTypeOK

(* Calls begin, return and are forgotten.                                  *)
LEMMA CallTypes ==
    ASSUME SensorTypeOK, SensorInv, SensorInit \/ GetTemp \/ Weather \/ UNCHANGED sensorVars
    PROVE  SensorTypeOK' /\ SensorInv'
<1>1. CASE SensorInit \/ GetTemp
  <2>1. /\ UNCHANGED << bus, held, sending, pointer, temp, reply, measured, ret >>
        /\ spc' = "w_start" /\ clean' \in BOOLEAN
    BY <1>1 DEF SensorInit, GetTemp, hardVars
  <2>2. \/ call' = "init" /\ left' = 2 /\ UNCHANGED result
        \/ call' = "get" /\ left' = 1 /\ result' = << 0, 0 >>
    BY <1>1 DEF SensorInit, GetTemp
  <2>3. SensorTypeOK'
    BY <2>1, <2>2 DEF SensorTypeOK
  <2>4. SensorInv'
    BY <2>1, <2>2 DEF SensorInv, TempIsMeasured, Writing, ReadingTemp
  <2> QED BY <2>3, <2>4
<1>2. CASE Weather
  <2>1. SensorTypeOK'
    BY <1>2 DEF Weather, SensorTypeOK
  <2>2. SensorInv'
    BY <1>2 DEF Weather, SensorInv, TempIsMeasured, Writing, ReadingTemp
  <2> QED BY <2>1, <2>2
<1>3. CASE UNCHANGED sensorVars
  <2>1. UNCHANGED << bus, held, sending, pointer, temp, reply, measured,
                     spc, call, left, result, ret, clean >>
    BY <1>3 DEF sensorVars, hardVars
  <2>2. SensorTypeOK'
    BY <2>1 DEF SensorTypeOK
  <2>3. SensorInv'
    BY <2>1 DEF SensorInv, TempIsMeasured, Writing, ReadingTemp
  <2> QED BY <2>2, <2>3
<1> QED BY <1>1, <1>2, <1>3

LEMMA ForgetTypes ==
    ASSUME SensorTypeOK, SensorInv, SensorReturns \/ SensorAfterReset \/ SensorAfterPowerCut
    PROVE  SensorTypeOK' /\ SensorInv'
<1>1. /\ spc' = "out" /\ call' = "init" /\ left' = 0 /\ result' = << 0, 0 >> /\ ret' = 0
      /\ reply' = NoReading /\ measured' = NoReading /\ temp' = temp
  BY DEF SensorReturns, SensorAfterReset, SensorAfterPowerCut, SensorForgets
<1>2. clean' \in BOOLEAN
  BY DEF SensorReturns, SensorAfterReset, SensorAfterPowerCut, SensorForgets
<1>3. sending' \in BOOLEAN
  BY DEF SensorReturns, SensorAfterReset, SensorAfterPowerCut, SensorTypeOK
<1>4. held' \in BOOLEAN
  BY Zenon DEF SensorReturns, SensorAfterReset, SensorAfterPowerCut, SensorTypeOK
<1>5. bus' \in {"free", "ours"} /\ pointer' \in {"temp", "config"}
  BY DEF SensorReturns, SensorAfterReset, SensorAfterPowerCut, SensorTypeOK
<1>6. SensorTypeOK'
  BY <1>1, <1>2, <1>3, <1>4, <1>5, Readings DEF SensorTypeOK
<1>7. SensorInv'
  BY <1>1 DEF SensorInv, TempIsMeasured, Writing, ReadingTemp
<1> QED BY <1>6, <1>7

LEMMA SensorInvHolds ==
    ASSUME SensorTypeOK, SensorInv, SensorStep \/ UNCHANGED sensorVars
    PROVE  SensorTypeOK' /\ SensorInv'
BY StartTypes, WriteTypes, ReadTypes, StopTypes, CallTypes DEF SensorStep
-----------------------------------------------------------------------------
(* The card.  A block is all there or not at all, and it is the one that   *)
(* was asked for unless the card was changed; and as long as the card is   *)
(* ready, the driver is right about what its addresses count.              *)
CardMatches(type) ==
    cstate = "ready" /\ type # {} => (card = "sdhc" <=> CT_BLOCK \subseteq type)

CardInv ==
    /\ block \in {0, SECTOR + 2}
    /\ dpc \in {"token", "data"} => pulled \/ (block # 0 /\ sector = arg.lba)
    /\ dpc \in {"cmd17", "token", "data"} => res = "ERROR"
    /\ dpc = "cmd17" => CardType # {}
    /\ dpc \in {"cmd0", "cmd8", "acmd41", "cmd58", "probe"} => ty = {}
    /\ dpc \in {"poll", "cmd16"} => ty \in {CT_SD1, CT_MMC}
    /\ dpc \in {"cmd8", "probe", "poll", "cmd16"} /\ cstate = "ready" => card # "sdhc"
    /\ dpc = "end" => CardMatches(ty)
    /\ ~Identifying /\ dpc # "end" => CardMatches(CardType)
    /\ SectorIsAsked

(* main() and pf_mount(): who may call mmc.c and when, and what they leave *)
(* the lines of the two chips like.                                        *)
Addressing == dpc \in {"cmd17", "token", "data", "release"}
Mounting == mpc \in {"sig", "fs", "mbr", "bpb"}

MainTypeOK ==
    /\ stage \in {"start", "config", "disk", "mount", "clock", "sensor", "loop"}
    /\ xfer \in {"none", "write", "read"}
    /\ w5cs \in {"float", "low", "high"}
    /\ conf \in 0 .. CONF /\ sent \in 0 .. CONF
    /\ speed \in {"slow", "full"}
    /\ mpc \in {"out", "init", "sig", "fs", "mbr", "bpb"}
    /\ bsect \in Lbas
    /\ FatFs \in BOOLEAN
    /\ age \in 0 .. PATIENCE

CallInv ==
    /\ stage = "mount" <=> mpc # "out"
    /\ Identifying \/ dpc = "end" => stage = "disk" \/ mpc = "init"
    /\ Addressing => Mounting \/ (stage = "loop" /\ FatFs)
    /\ dpc = "ret" => stage \in {"disk", "mount"} \/ (stage = "loop" /\ FatFs)
    /\ dpc = "ret" /\ (stage = "disk" \/ mpc = "init") => (res = "OK" <=> CardType # {})
    /\ Mounting \/ FatFs => CardType # {}
    /\ FatFs => stage \in {"clock", "sensor", "loop"}

LineInv ==
    /\ xfer = "none" /\ stage # "start" => w5cs = "high"
    /\ xfer # "none" => w5cs = "low" /\ stage \in {"config", "loop"} /\ dpc = "out"
    /\ xfer = "write" => stage = "config" /\ sent < CONF
    /\ xfer = "read" => stage = "loop"
    /\ stage = "config" => conf = sent
    /\ stage \notin {"start", "config"} => conf = CONF
    /\ stage \notin {"sensor", "loop"} => speed = "slow"
    /\ dpc = "ret" \/ (dpc = "out" /\ stage \in {"mount", "clock", "sensor", "loop"})
          => cs = "high" /\ ~drives

MainInv == MainTypeOK /\ CallInv /\ LineInv
IInv == SensorTypeOK /\ SensorInv /\ CardTypeOK /\ CardInv /\ MainInv

LEMMA Blocks ==
    /\ ~(CT_BLOCK \subseteq CT_SD1) /\ ~(CT_BLOCK \subseteq CT_MMC)
    /\ ~(CT_BLOCK \subseteq CT_SD2) /\ CT_BLOCK \subseteq CT_SD2 \cup CT_BLOCK
    /\ CT_SD1 # {} /\ CT_MMC # {} /\ CT_SD2 # {} /\ CT_SD2 \cup CT_BLOCK # {}
    /\ {} \in CardTypes /\ CT_SD1 \in CardTypes /\ CT_MMC \in CardTypes /\ CT_SD2 \in CardTypes
    /\ CT_SD2 \cup CT_BLOCK \in CardTypes
BY DEF CT_BLOCK, CT_SD1, CT_SD2, CT_MMC, CardTypes

(* The number of a sector survives its way through a byte address.         *)
LEMMA AddressDivided ==
    ASSUME NEW lba \in Nat
    PROVE  lba * SECTOR \in Nat /\ (lba * SECTOR) \div SECTOR = lba
BY CardAssumption

LEMMA NothingAsked == NoRead \in Reads /\ Len(<< >>) <= SECTOR
BY CardAssumption DEF NoRead, Reads

(* The answer 0 comes from a card that is ready or has just become so.     *)
LEMMA ZeroAnswer ==
    ASSUME NEW c \in {"CMD0", "CMD8", "CMD58", "CMD16", "CMD17", "ACMD41", "CMD1"},
           NEW hcs \in BOOLEAN, 0 \in Replies(c, hcs)
    PROVE  /\ cstate # "native"
           /\ c \in {"CMD58", "CMD16", "CMD17"} => cstate # "idle"
           /\ c = "ACMD41" /\ card = "sdhc" => hcs
           /\ c = "CMD1" => card # "sdhc"
<1>0. 0 # 1 /\ 0 # 5
  OBVIOUS
<1>1. CASE c = "ACMD41"
  BY <1>0, <1>1, Zenon DEF Replies
<1>2. CASE c = "CMD1"
  BY <1>0, <1>2, Zenon DEF Replies
<1>3. CASE c = "CMD0"
  BY <1>3 DEF Replies
<1>4. CASE c = "CMD8"
  BY <1>4 DEF Replies, Illegal
<1>5. CASE c \in {"CMD58", "CMD16", "CMD17"}
  <2>1. c \notin {"CMD0", "CMD8", "CMD55", "ACMD41", "CMD1"}
    BY <1>5
  <2> QED BY <1>5, <2>1 DEF Replies, Illegal
<1> QED BY <1>1, <1>2, <1>3, <1>4, <1>5

LEMMA AnswerOrNone ==
    ASSUME NEW c, NEW hcs \in BOOLEAN, NEW r \in 0 .. 255, Answered(c, hcs, r)
    PROVE  /\ r = 255 \/ r \in Replies(c, hcs)
           /\ c = "CMD0" /\ r = 1 => cstate' = "idle"
           /\ c \in {"ACMD41", "CMD1"} /\ r = 0 => cstate' = "ready"
           /\ ~(c = "CMD0" /\ r = 1) /\ ~(c \in {"ACMD41", "CMD1"} /\ r = 0) => cstate' = cstate
BY Zenon DEF Answered, NoAnswer

(* A command selects the card.  It makes a card ready only if it is one of *)
(* the two for it and, for a high-capacity card, the one that says HCS.    *)
LEMMA CommandCard ==
    ASSUME CardTypeOK, NEW hcs \in BOOLEAN, NEW r \in 0 .. 255,
           NEW c \in {"CMD0", "CMD8", "CMD58", "CMD16", "CMD17", "ACMD41", "CMD1"},
           SendCmd(c, hcs, r)
    PROVE  /\ cs' = "low" /\ card' = card /\ drives' \in BOOLEAN
           /\ cstate' \in {"native", "idle", "ready"}
           /\ cstate' = "ready" /\ cstate # "ready" =>
                 /\ c \in {"ACMD41", "CMD1"} /\ r = 0
                 /\ card = "sdhc" => hcs /\ c = "ACMD41"
<1>1. cs' = "low" /\ card' = card /\ drives' \in BOOLEAN
  BY DEF SendCmd
<1>2. CASE UNCHANGED cstate
  BY <1>1, <1>2 DEF CardTypeOK
<1>3. CASE Answered(c, hcs, r)
  <2>1. cstate' \in {"native", "idle", "ready"}
    BY <1>3, AnswerOrNone DEF CardTypeOK
  <2>2. ASSUME cstate' = "ready", cstate # "ready"
        PROVE  c \in {"ACMD41", "CMD1"} /\ r = 0 /\ (card = "sdhc" => hcs /\ c = "ACMD41")
    <3>1. c \in {"ACMD41", "CMD1"} /\ r = 0
      BY <1>3, <2>2, AnswerOrNone
    <3>2. r \in Replies(c, hcs)
      BY <1>3, <3>1, AnswerOrNone
    <3>3. 0 \in Replies(c, hcs)
      BY <3>1, <3>2
    <3> QED BY <3>1, <3>3, ZeroAnswer
  <2> QED BY <1>1, <2>1, <2>2
<1> QED BY <1>2, <1>3 DEF SendCmd

(* A command that says nothing of being ready leaves a card as ready as it *)
(* was.                                                                    *)
LEMMA OrdinaryCommand ==
    ASSUME CardTypeOK, NEW c \in {"CMD0", "CMD8", "CMD58", "CMD16", "CMD17"},
           NEW r \in 0 .. 255, SendCmd(c, FALSE, r)
    PROVE  /\ cs' = "low" /\ card' = card /\ drives' \in BOOLEAN
           /\ cstate' \in {"native", "idle", "ready"}
           /\ cstate' = "ready" => cstate = "ready"
           /\ c = "CMD0" /\ r = 1 => cstate' = "idle"
           /\ c = "CMD8" => cstate' = cstate
           /\ c \in {"CMD58", "CMD16", "CMD17"} /\ r = 0 => cstate' = "ready"
<1>1. /\ cs' = "low" /\ card' = card /\ drives' \in BOOLEAN
      /\ cstate' \in {"native", "idle", "ready"}
      /\ cstate' = "ready" => cstate = "ready"
  <2>1. FALSE \in BOOLEAN /\ c \in {"CMD0", "CMD8", "CMD58", "CMD16", "CMD17", "ACMD41", "CMD1"}
    OBVIOUS
  <2>2. /\ cs' = "low" /\ card' = card /\ drives' \in BOOLEAN
        /\ cstate' \in {"native", "idle", "ready"}
        /\ cstate' = "ready" /\ cstate # "ready" => c \in {"ACMD41", "CMD1"}
    BY <2>1, CommandCard, Zenon
  <2>3. c \notin {"ACMD41", "CMD1"}
    OBVIOUS
  <2> QED BY <2>2, <2>3
<1>2. Answered(c, FALSE, r)
  BY DEF SendCmd
<1>3. c = "CMD0" /\ r = 1 => cstate' = "idle"
  BY <1>2, AnswerOrNone
<1>4. c # "CMD0" => cstate' = cstate
  BY <1>2, AnswerOrNone
<1>5. ASSUME c \in {"CMD58", "CMD16", "CMD17"}, r = 0
      PROVE  cstate' = "ready"
  <2>1. r \in Replies(c, FALSE)
    <3>1. r = 255 \/ r \in Replies(c, FALSE)
      BY <1>2, Zenon DEF Answered, NoAnswer
    <3>2. r # 255
      BY <1>5
    <3> QED BY <3>1, <3>2, Zenon
  <2>2. 0 \in Replies(c, FALSE)
    BY <1>5, <2>1
  <2>3. cstate # "native" /\ cstate # "idle"
    BY <1>5, <2>2, ZeroAnswer
  <2> QED BY <1>4, <1>5, <2>3 DEF CardTypeOK
<1> QED BY <1>1, <1>3, <1>4, <1>5

(* What every step of disk_initialize() has to see to.                     *)
LEMMA Identified ==
    ASSUME CardTypeOK, CardInv, Identifying,
           UNCHANGED << card, block, sector, CardType, arg, buff, res, pulled >>,
           cstate' \in {"native", "idle", "ready"}, drives' \in BOOLEAN,
           cs' \in {"float", "low", "high"}, ty' \in CardTypes, cmd' \in {"ACMD41", "CMD1"},
           tmr' \in 0 .. TRIES_SD2 \cup 0 .. TRIES_SD1,
           dpc' \in {"cmd0", "cmd8", "acmd41", "cmd58", "probe", "poll", "cmd16", "end"},
           dpc' \in {"cmd0", "cmd8", "acmd41", "cmd58", "probe"} => ty' = {},
           dpc' \in {"poll", "cmd16"} => ty' \in {CT_SD1, CT_MMC},
           dpc' \in {"cmd8", "probe", "poll", "cmd16"} /\ cstate' = "ready" => card # "sdhc",
           dpc' = "end" => CardMatches(ty)'
    PROVE  CardTypeOK' /\ CardInv'
<1>1. CardTypeOK'
  <2>1. pulled' \in BOOLEAN
    BY DEF CardTypeOK
  <2> QED BY <2>1 DEF CardTypeOK
<1>2. CardInv'
  BY DEF CardInv, CardMatches, SectorIsAsked, Identifying
<1> QED BY <1>1, <1>2

LEMMA FirstCommands ==
    ASSUME CardTypeOK, CardInv, Cmd0 \/ Cmd8
    PROVE  CardTypeOK' /\ CardInv'
<1>1. UNCHANGED << ty, cmd, block, sector, CardType, arg, buff, res, pulled >> /\ Identifying /\ ty = {}
  BY DEF Cmd0, Cmd8, Inside, Identifying, CardInv
<1>2. CardMatches(ty)'
  BY <1>1 DEF CardMatches
<1>3. CASE Cmd0
  <2>1. PICK r \in {1, NoAnswer} : /\ SendCmd("CMD0", FALSE, r)
                                  /\ Inside(IF r = 1 THEN "cmd8" ELSE "end")
    BY <1>3 DEF Cmd0
  <2>2. r \in 0 .. 255 /\ tmr' = tmr
    BY <1>3 DEF NoAnswer, Cmd0
  <2>3. /\ cs' = "low" /\ card' = card /\ drives' \in BOOLEAN
        /\ cstate' \in {"native", "idle", "ready"}
    BY <2>1, <2>2, CommandCard
  <2>5. r = 1 => cstate' = "idle"
    <3>1. Answered("CMD0", FALSE, r)
      BY <2>1 DEF SendCmd
    <3> QED BY <2>2, <3>1, AnswerOrNone
  <2>4. dpc' = IF r = 1 THEN "cmd8" ELSE "end"
    BY <2>1 DEF Inside
  <2> QED BY <1>1, <1>2, <2>2, <2>3, <2>4, <2>5, Identified DEF CardTypeOK
<1>4. CASE Cmd8
  <2>1. PICK r \in {1, Illegal, NoAnswer} : SendCmd("CMD8", FALSE, r)
    BY <1>4 DEF Cmd8
  <2>2. r \in 0 .. 255
    BY DEF NoAnswer, Illegal
  <2>3. dpc = "cmd8" /\ dpc' \in {"acmd41", "end", "probe"} /\ (tmr' = TRIES_SD2 \/ tmr' = tmr)
    BY <1>4 DEF Cmd8, Inside
  <2>4. /\ cs' = "low" /\ card' = card /\ drives' \in BOOLEAN
        /\ cstate' \in {"native", "idle", "ready"}
    BY <2>1, <2>2, CommandCard
  <2>7. cstate' = cstate
    BY <2>1 DEF SendCmd, Answered
  <2>5. tmr' \in 0 .. TRIES_SD2 \cup 0 .. TRIES_SD1
    BY <2>3, CardAssumption DEF CardTypeOK
  <2>6. cstate' = "ready" => card # "sdhc"
    BY <2>3, <2>7 DEF CardInv
  <2> QED BY <1>1, <1>2, <2>3, <2>4, <2>5, <2>6, Identified DEF CardTypeOK
<1> QED BY <1>3, <1>4

(* The two loops that wait for the card to become ready.                   *)
LEMMA RetrySteps ==
    ASSUME CardTypeOK, NEW from, NEW next, NEW hcs \in BOOLEAN,
           NEW c \in {"ACMD41", "CMD1"}, Retry(from, c, hcs, next)
    PROVE  /\ dpc = from /\ card' = card
           /\ dpc' = (IF tmr = 0 THEN "end" ELSE dpc') /\ dpc' \in {from, next, "end"}
           /\ UNCHANGED << block, sector, CardType, arg, buff, res, pulled >>
           /\ cstate' \in {"native", "idle", "ready"} /\ drives' \in BOOLEAN
           /\ cs' \in {"float", "low", "high"}
           /\ tmr' \in 0 .. TRIES_SD2 \cup 0 .. TRIES_SD1
           /\ tmr = 0 => cstate' = cstate
           /\ tmr # 0 => dpc' \in {from, next}
           /\ cstate' = "ready" /\ cstate # "ready" => (card = "sdhc" => hcs /\ c = "ACMD41")
<1>1. dpc = from /\ UNCHANGED << block, sector, CardType, arg, buff, res, pulled >>
  BY DEF Retry, Inside
<1>2. CASE tmr = 0
  <2>1. dpc' = "end" /\ UNCHANGED << card, cstate, drives, cs, tmr >>
    BY <1>2 DEF Retry, Inside
  <2>2. drives' \in BOOLEAN
    BY <2>1 DEF CardTypeOK
  <2> QED BY <1>1, <1>2, <2>1, <2>2 DEF CardTypeOK
<1>3. CASE tmr # 0
  <2>1. PICK r \in {0, 1, Illegal, NoAnswer} : /\ SendCmd(c, hcs, r)
                                               /\ tmr' = (IF r = 0 THEN tmr ELSE tmr - 1)
                                               /\ Inside(IF r = 0 THEN next ELSE from)
    BY <1>3 DEF Retry
  <2>2. r \in 0 .. 255
    BY DEF NoAnswer, Illegal
  <2>3. /\ cs' = "low" /\ card' = card /\ drives' \in BOOLEAN
        /\ cstate' \in {"native", "idle", "ready"}
        /\ cstate' = "ready" /\ cstate # "ready" => (card = "sdhc" => hcs /\ c = "ACMD41")
    BY <2>1, <2>2, CommandCard
  <2>4. dpc' \in {from, next}
    BY <2>1 DEF Inside
  <2>5. tmr' \in 0 .. TRIES_SD2 \cup 0 .. TRIES_SD1
    BY <1>3, <2>1, CardAssumption DEF CardTypeOK
  <2> QED BY <1>1, <1>3, <2>3, <2>4, <2>5
<1> QED BY <1>2, <1>3

LEMMA PollingSteps ==
    ASSUME CardTypeOK, CardInv, Polls
    PROVE  CardTypeOK' /\ CardInv' /\ dpc' # "ret" /\ dpc' # "out"
<1>1. CASE Acmd41
  <2>1. Retry("acmd41", "ACMD41", TRUE, "cmd58") /\ UNCHANGED << ty, cmd >>
    BY <1>1 DEF Acmd41
  <2>2. /\ dpc = "acmd41" /\ UNCHANGED << card, block, sector, CardType, arg, buff, res, pulled >>
        /\ dpc' \in {"acmd41", "cmd58", "end"}
        /\ cstate' \in {"native", "idle", "ready"} /\ drives' \in BOOLEAN
        /\ cs' \in {"float", "low", "high"}
        /\ tmr' \in 0 .. TRIES_SD2 \cup 0 .. TRIES_SD1
    BY <2>1, RetrySteps
  <2>3. ty = {} /\ Identifying
    BY <2>2 DEF CardInv, Identifying
  <2>4. CardMatches(ty)'
    BY <2>1, <2>3 DEF CardMatches
  <2> QED BY <2>1, <2>2, <2>3, <2>4, Identified DEF CardTypeOK
<1>2. CASE Poll
  <2>1. Retry("poll", cmd, FALSE, "cmd16") /\ ty' = (IF tmr = 0 THEN {} ELSE ty) /\ cmd' = cmd
        /\ cmd \in {"ACMD41", "CMD1"}
    BY <1>2 DEF Poll, CardTypeOK
  <2>2. /\ dpc = "poll" /\ UNCHANGED << card, block, sector, CardType, arg, buff, res, pulled >>
        /\ dpc' \in {"poll", "cmd16", "end"}
        /\ cstate' \in {"native", "idle", "ready"} /\ drives' \in BOOLEAN
        /\ cs' \in {"float", "low", "high"}
        /\ tmr' \in 0 .. TRIES_SD2 \cup 0 .. TRIES_SD1
    BY <2>1, RetrySteps
  <2>3. /\ tmr = 0 => dpc' = "end"
        /\ tmr # 0 => dpc' \in {"poll", "cmd16"}
        /\ cstate' = "ready" /\ cstate # "ready" => card # "sdhc"
    BY <2>1, RetrySteps
  <2>4. Identifying /\ ty \in {CT_SD1, CT_MMC} /\ (cstate = "ready" => card # "sdhc")
    BY <2>2 DEF CardInv, Identifying
  <2>5. ty' \in CardTypes
    BY <2>1, <2>4, Blocks
  <2>6. dpc' \in {"poll", "cmd16"} => ty' \in {CT_SD1, CT_MMC}
    BY <2>1, <2>3, <2>4
  <2>7. CardMatches(ty)'
    BY <2>1, <2>2, <2>3, <2>4, Blocks DEF CardMatches
  <2> QED BY <2>1, <2>2, <2>3, <2>4, <2>5, <2>6, <2>7, Identified
<1> QED BY <1>1, <1>2 DEF Polls

(* The commands that find out what kind of card it is.                     *)
LEMMA KindCommands ==
    ASSUME CardTypeOK, CardInv, Cmd58 \/ Probe \/ Cmd16
    PROVE  CardTypeOK' /\ CardInv'
<1>1. UNCHANGED << block, sector, CardType, arg, buff, res, pulled >> /\ Identifying
  BY DEF Cmd58, Probe, Cmd16, Inside, Identifying
<1>2. CASE Cmd58
  <2>1. PICK r \in {0, Illegal, NoAnswer} : /\ SendCmd("CMD58", FALSE, r)
             /\ ty' = IF r # 0 THEN {} ELSE IF card = "sdhc" THEN CT_SD2 \cup CT_BLOCK ELSE CT_SD2
    BY <1>2 DEF Cmd58
  <2>2. r \in 0 .. 255 /\ dpc' = "end" /\ UNCHANGED << cmd, tmr >>
    BY <1>2 DEF NoAnswer, Illegal, Cmd58, Inside
  <2>3. /\ cs' = "low" /\ card' = card /\ drives' \in BOOLEAN
        /\ cstate' \in {"native", "idle", "ready"}
    BY <2>1, <2>2, CommandCard
  <2>4. ty' \in CardTypes
    BY <2>1, Blocks
  <2>5. CardMatches(ty)'
    BY <2>1, <2>3, Blocks DEF CardMatches
  <2> QED BY <1>1, <2>2, <2>3, <2>4, <2>5, Identified DEF CardTypeOK
<1>3. CASE Probe
  <2>1. PICK r \in {0, 1, Illegal, NoAnswer} : /\ SendCmd("ACMD41", FALSE, r)
                                               /\ ty' = IF r <= 1 THEN CT_SD1 ELSE CT_MMC
                                               /\ cmd' = IF r <= 1 THEN "ACMD41" ELSE "CMD1"
    BY <1>3 DEF Probe
  <2>2. r \in 0 .. 255 /\ dpc = "probe" /\ dpc' = "poll" /\ tmr' = TRIES_SD1
    BY <1>3 DEF NoAnswer, Illegal, Probe, Inside
  <2>3. /\ cs' = "low" /\ card' = card /\ drives' \in BOOLEAN
        /\ cstate' \in {"native", "idle", "ready"}
        /\ cstate' = "ready" /\ cstate # "ready" => card # "sdhc"
    BY <2>1, <2>2, CommandCard
  <2>4. ty' \in CardTypes /\ ty' \in {CT_SD1, CT_MMC}
    BY <2>1, Blocks
  <2>5. cstate' = "ready" => card # "sdhc"
    BY <2>2, <2>3 DEF CardInv
  <2>6. tmr' \in 0 .. TRIES_SD2 \cup 0 .. TRIES_SD1 /\ cmd' \in {"ACMD41", "CMD1"}
    BY <2>1, <2>2, CardAssumption
  <2> QED BY <1>1, <2>2, <2>3, <2>4, <2>5, <2>6, Identified
<1>4. CASE Cmd16
  <2>1. PICK r \in {0, Illegal, NoAnswer} : /\ SendCmd("CMD16", FALSE, r)
                                            /\ ty' = IF r = 0 THEN ty ELSE {}
    BY <1>4 DEF Cmd16
  <2>2. r \in 0 .. 255 /\ dpc = "cmd16" /\ dpc' = "end" /\ UNCHANGED << cmd, tmr >>
    BY <1>4 DEF NoAnswer, Illegal, Cmd16, Inside
  <2>3. /\ cs' = "low" /\ card' = card /\ drives' \in BOOLEAN
        /\ cstate' \in {"native", "idle", "ready"}
        /\ cstate' = "ready" => cstate = "ready"
    BY <2>1, <2>2, CommandCard
  <2>4. ty \in {CT_SD1, CT_MMC} /\ (cstate = "ready" => card # "sdhc")
    BY <2>2 DEF CardInv
  <2>5. ty' \in CardTypes
    BY <2>1, <2>4, Blocks
  <2>6. CardMatches(ty)'
    BY <2>1, <2>3, <2>4, Blocks DEF CardMatches
  <2> QED BY <1>1, <2>2, <2>3, <2>5, <2>6, Identified DEF CardTypeOK
<1> QED BY <1>2, <1>3, <1>4

LEMMA DiskSteps ==
    ASSUME CardTypeOK, CardInv, DiskInitialize \/ DiskReady \/ Token \/ Release \/ (DiskReturns /\ dpc = "ret")
    PROVE  CardTypeOK' /\ CardInv'
<1>1. card' = card /\ cstate' = cstate /\ cs' \in {"float", "low", "high"}
  BY DEF DiskInitialize, DiskReady, ReleaseSpi, Token, Release, DiskReturns, slotVars, CardTypeOK
<1>2. drives' \in BOOLEAN
  BY DEF DiskInitialize, DiskReady, ReleaseSpi, Token, Release, DiskReturns, slotVars, CardTypeOK
<1>3. CASE DiskInitialize
  <2>1. /\ dpc' = "cmd0" /\ ty' = {} /\ block' = 0 /\ sector' = 0 /\ pulled' = FALSE
        /\ UNCHANGED << CardType, cmd, tmr, arg, buff, res >>
    BY <1>3 DEF DiskInitialize
  <2>2. pulled' \in BOOLEAN /\ ty' \in CardTypes /\ block' \in 0 .. (SECTOR + 2)
    <3>1. pulled' \in BOOLEAN
      BY <2>1
    <3> QED BY <2>1, <3>1, Blocks, CardAssumption
  <2>3. CardTypeOK'
    BY <1>1, <1>2, <2>1, <2>2 DEF CardTypeOK
  <2>4. CardInv'
    BY <1>1, <2>1 DEF CardInv, SectorIsAsked, Identifying
  <2> QED BY <2>3, <2>4
<1>4. CASE DiskReady
  <2>1. /\ dpc = "end" /\ CardType' = ty /\ dpc' = "ret" /\ ty' = {} /\ tmr' = 0 /\ cmd' = "CMD1"
        /\ block' = 0 /\ sector' = 0 /\ UNCHANGED << arg, buff, pulled >> /\ res' \in {"OK", "ERROR"}
    BY <1>4 DEF DiskReady, ReleaseSpi
  <2>2. /\ pulled' \in BOOLEAN /\ ty' \in CardTypes /\ CardType' \in CardTypes
        /\ block' \in 0 .. (SECTOR + 2) /\ tmr' \in 0 .. TRIES_SD1
    BY <2>1, Blocks, CardAssumption DEF CardTypeOK
  <2>3. CardTypeOK'
    BY <1>1, <1>2, <2>1, <2>2 DEF CardTypeOK
  <2>4. CardMatches(CardType)'
    BY <1>1, <2>1 DEF CardInv, CardMatches
  <2>5. CardInv'
    BY <2>1, <2>4 DEF CardInv, SectorIsAsked
  <2> QED BY <2>3, <2>5
<1>5. CASE Token
  <2>1. /\ dpc = "token" /\ dpc' \in {"release", "data"}
        /\ UNCHANGED << block, sector, CardType, ty, cmd, tmr, arg, buff, res, pulled >>
    BY <1>5 DEF Token, slotVars
  <2>2. CardTypeOK'
    <3>1. pulled' \in BOOLEAN
      BY <2>1 DEF CardTypeOK
    <3> QED BY <1>1, <1>2, <2>1, <3>1 DEF CardTypeOK
  <2>3. CardInv'
    BY <1>1, <2>1 DEF CardInv, CardMatches, SectorIsAsked, Identifying
  <2> QED BY <2>2, <2>3
<1>6. CASE Release
  <2>1. /\ dpc = "release" /\ dpc' = "ret" /\ block' = 0 /\ sector' = 0
        /\ UNCHANGED << CardType, ty, cmd, tmr, arg, buff, res, pulled >>
    BY <1>6 DEF Release, ReleaseSpi
  <2>2. CardTypeOK'
    <3>1. pulled' \in BOOLEAN /\ block' \in 0 .. (SECTOR + 2)
      BY <2>1, CardAssumption DEF CardTypeOK
    <3> QED BY <1>1, <1>2, <2>1, <3>1 DEF CardTypeOK
  <2>3. CardInv'
    BY <1>1, <2>1 DEF CardInv, CardMatches, SectorIsAsked, Identifying
  <2> QED BY <2>2, <2>3
<1>7. CASE DiskReturns /\ dpc = "ret"
  <2>1. /\ dpc' = "out" /\ arg' = NoRead /\ buff' = << >> /\ res' = "ERROR" /\ pulled' = FALSE
        /\ UNCHANGED << block, sector, CardType, ty, cmd, tmr >>
    BY <1>7 DEF DiskReturns, DiskForgets, slotVars
  <2>2. CardTypeOK'
    <3>1. pulled' \in BOOLEAN
      BY <2>1
    <3> QED BY <1>1, <1>2, <2>1, <3>1, NothingAsked DEF CardTypeOK
  <2>3. CardInv'
    BY <1>1, <1>7, <2>1 DEF CardInv, CardMatches, SectorIsAsked, Identifying
  <2> QED BY <2>2, <2>3
<1> QED BY <1>3, <1>4, <1>5, <1>6, <1>7

(* The beginning of a read, and its command: the card takes the number of  *)
(* the sector for what it is.                                              *)
LEMMA ReadCommand ==
    ASSUME CardTypeOK, CardInv,
           Cmd17 \/ (dpc = "out" /\ CardType # {} /\ \E a \in Reads : ReadPartial(a))
    PROVE  CardTypeOK' /\ CardInv'
<1>1. CASE dpc = "out" /\ CardType # {} /\ \E a \in Reads : ReadPartial(a)
  <2>1. PICK a \in Reads : ReadPartial(a)
    BY <1>1
  <2>2. /\ dpc' = "cmd17" /\ arg' = a /\ buff' = << >> /\ res' = "ERROR" /\ pulled' = FALSE
        /\ UNCHANGED << card, cstate, block, sector, drives, cs, CardType, ty, cmd, tmr >>
    BY <2>1 DEF ReadPartial, slotVars
  <2>3. pulled' \in BOOLEAN /\ drives' \in BOOLEAN
    BY <2>2 DEF CardTypeOK
  <2>4. CardTypeOK'
    BY <2>2, <2>3, NothingAsked DEF CardTypeOK
  <2>5. CardInv'
    BY <1>1, <2>2 DEF CardInv, CardMatches, SectorIsAsked, Identifying
  <2> QED BY <2>4, <2>5
<1>2. CASE Cmd17
  <2>1. PICK r \in {0, Illegal, NoAnswer} :
           /\ SendCmd("CMD17", FALSE, r)
           /\ dpc' = IF r = 0 THEN "token" ELSE "release"
           /\ block' = IF r = 0 THEN SECTOR + 2 ELSE 0
           /\ sector' = IF r # 0 THEN 0
                        ELSE IF card = "sdhc" THEN Address ELSE Address \div SECTOR
    BY <1>2 DEF Cmd17
  <2>2. r \in 0 .. 255 /\ dpc = "cmd17" /\ UNCHANGED << CardType, ty, cmd, tmr, arg, buff, res, pulled >>
    BY <1>2 DEF NoAnswer, Illegal, Cmd17
  <2>3. /\ cs' = "low" /\ card' = card /\ drives' \in BOOLEAN
        /\ cstate' \in {"native", "idle", "ready"} /\ (cstate' = "ready" => cstate = "ready")
    BY <2>1, <2>2, CommandCard
  <2>4. res = "ERROR" /\ CardType # {} /\ CardMatches(CardType)
    BY <2>2 DEF CardInv, Identifying
  <2>5. CardMatches(CardType)'
    BY <2>2, <2>3, <2>4 DEF CardMatches
  <2>6. r = 0 => cstate = "ready"
    <3>1. r = 0 => cstate' = "ready"
      BY <2>1, <2>2, OrdinaryCommand
    <3> QED BY <2>3, <3>1
  <2>7. arg.lba \in Nat
    BY CardAssumption DEF CardTypeOK, Reads
  <2>8. r = 0 => sector' = arg.lba
    BY <2>1, <2>4, <2>6, <2>7, AddressDivided DEF CardMatches, Address
  <2>9. sector' \in Nat /\ block' \in 0 .. (SECTOR + 2) /\ pulled' \in BOOLEAN
    <3>1. pulled' \in BOOLEAN
      BY <2>2 DEF CardTypeOK
    <3> QED BY <2>1, <2>7, <2>8, <3>1, CardAssumption
  <2>10. CardTypeOK'
    BY <2>1, <2>2, <2>3, <2>9 DEF CardTypeOK
  <2>11. CardInv'
    BY <2>1, <2>2, <2>3, <2>4, <2>5, <2>8, CardAssumption DEF CardInv, SectorIsAsked, Identifying
  <2> QED BY <2>10, <2>11
<1> QED BY <1>1, <1>2

(* What is stored is of the sector that was asked for, and the skips and   *)
(* the bytes stored add up to the block.                                   *)
LEMMA DataStored ==
    ASSUME CardTypeOK, CardInv, Data
    PROVE  CardTypeOK' /\ CardInv'
<1>1. /\ dpc = "data" /\ dpc' = "release" /\ res' = "OK"
      /\ UNCHANGED << card, cstate, sector, drives, cs, CardType, ty, cmd, tmr, arg, pulled >>
      /\ block \in {0, SECTOR + 2} /\ (pulled \/ (block # 0 /\ sector = arg.lba))
  BY DEF Data, CardInv
<1>2. arg.ofs \in Nat /\ arg.cnt \in 1 .. SECTOR /\ SECTOR \in Nat
  BY CardAssumption DEF CardTypeOK, Reads
<1>3. block' = 0
  <2>1. block' = IF block > 0 THEN block - (arg.ofs + arg.cnt + (SECTOR + 2 - arg.ofs - arg.cnt)) ELSE 0
    BY DEF Data
  <2> QED BY <1>1, <1>2, <2>1
<1>4. Len(buff') <= SECTOR
  <2> DEFINE store(i) == IF block > 0 THEN << sector, arg.ofs + i - 1 >> ELSE << >>
  <2>1. buff' = [i \in 1 .. arg.cnt |-> store(i)]
    BY DEF Data
  <2> HIDE DEF store
  <2>2. Len(buff') = arg.cnt
    BY <1>2, <2>1
  <2> QED BY <1>2, <2>2
<1>5. ~pulled => buff' = [i \in 1 .. arg.cnt |-> << arg.lba, arg.ofs + i - 1 >>]
  <2>1. SUFFICES ASSUME ~pulled
                 PROVE  buff' = [i \in 1 .. arg.cnt |-> << arg.lba, arg.ofs + i - 1 >>]
    OBVIOUS
  <2>2. block > 0 /\ sector = arg.lba
    BY <1>1, <1>2, <2>1
  <2> QED BY <2>2 DEF Data
<1>6. CardTypeOK'
  <2>1. drives' \in BOOLEAN /\ pulled' \in BOOLEAN
    BY <1>1 DEF CardTypeOK
  <2>2. block' \in 0 .. (SECTOR + 2)
    BY <1>2, <1>3
  <2> QED BY <1>1, <1>4, <2>1, <2>2 DEF CardTypeOK
<1>7. SectorIsAsked'
  BY <1>1, <1>3, <1>5 DEF SectorIsAsked
<1>8. CardInv'
  BY <1>1, <1>3, <1>7 DEF CardInv, CardMatches, Identifying
<1> QED BY <1>6, <1>8

(* The card is changed, the driver starts anew, or nothing happens to it.  *)
LEMMA CardElsewhere ==
    ASSUME CardTypeOK, CardInv,
           \/ Swap \/ CardAfterReset \/ CardAfterPowerCut \/ UNCHANGED cardVars
           \/ cs' = "high" /\ UNCHANGED << card, cstate, block, sector, drives, diskVars >>
    PROVE  CardTypeOK' /\ CardInv'
<1>1. CASE Swap
  <2>1. /\ card' \in Cards /\ cstate' = "native" /\ block' = 0 /\ sector' = 0
        /\ drives' = FALSE /\ pulled' = TRUE
        /\ UNCHANGED << cs, CardType, dpc, ty, cmd, tmr, arg, buff, res >>
    BY <1>1 DEF Swap
  <2>2. drives' \in BOOLEAN /\ pulled' \in BOOLEAN /\ block' \in 0 .. (SECTOR + 2)
    <3>1. drives' \in BOOLEAN /\ pulled' \in BOOLEAN
      BY <2>1
    <3> QED BY <2>1, <3>1, CardAssumption
  <2>3. CardTypeOK'
    BY <2>1, <2>2 DEF CardTypeOK
  <2>4. CardInv'
    BY <2>1 DEF CardInv, CardMatches, SectorIsAsked, Identifying
  <2> QED BY <2>3, <2>4
<1>2. CASE CardAfterReset \/ CardAfterPowerCut
  <2>1. /\ dpc' = "out" /\ arg' = NoRead /\ buff' = << >> /\ res' = "ERROR" /\ pulled' = FALSE
        /\ cs' = "float" /\ CardType' = {} /\ ty' = {} /\ cmd' = "CMD1" /\ tmr' = 0 /\ card' = card
    BY <1>2 DEF CardAfterReset, CardAfterPowerCut, DriverAfterReset, DiskForgets
  <2>2. /\ cstate' \in {"native", "idle", "ready"} /\ block' \in {0, block} /\ sector' \in {0, sector}
    BY <1>2 DEF CardAfterReset, CardAfterPowerCut, CardTypeOK
  <2>3. drives' \in BOOLEAN /\ pulled' \in BOOLEAN
    BY <1>2, <2>1 DEF CardAfterReset, CardAfterPowerCut, CardTypeOK
  <2>4. block' \in 0 .. (SECTOR + 2) /\ sector' \in Nat /\ tmr' \in 0 .. TRIES_SD1
        /\ CardType' \in CardTypes /\ ty' \in CardTypes
    BY <2>1, <2>2, Blocks, CardAssumption DEF CardTypeOK
  <2>5. CardTypeOK'
    BY <2>1, <2>2, <2>3, <2>4, NothingAsked DEF CardTypeOK
  <2>6. CardInv'
    BY <2>1, <2>2 DEF CardInv, CardMatches, SectorIsAsked, Identifying
  <2> QED BY <2>5, <2>6
<1>3. CASE \/ UNCHANGED cardVars
           \/ cs' = "high" /\ UNCHANGED << card, cstate, block, sector, drives, diskVars >>
  <2>1. /\ UNCHANGED << card, cstate, block, sector, drives, CardType, dpc, ty, cmd, tmr, arg,
                        buff, res, pulled >>
        /\ cs' \in {cs, "high"}
    BY <1>3 DEF cardVars, slotVars, diskVars
  <2>2. drives' \in BOOLEAN /\ pulled' \in BOOLEAN
    BY <2>1 DEF CardTypeOK
  <2>3. CardTypeOK'
    BY <2>1, <2>2 DEF CardTypeOK
  <2>4. CardInv'
    BY <2>1 DEF CardInv, CardMatches, SectorIsAsked, Identifying
  <2> QED BY <2>3, <2>4
<1> QED BY <1>1, <1>2, <1>3

(* Where a step of mmc.c leads, and how it leaves the bus when it returns. *)
LEMMA CardMoves ==
    ASSUME CardTypeOK, CardStep \/ Token \/ Polls
    PROVE  \/ /\ Identifying /\ (Identifying' \/ dpc' = "end")
              /\ UNCHANGED CardType
           \/ /\ dpc = "end" /\ dpc' = "ret" /\ (res' = "OK" <=> CardType' # {})
              /\ cs' = "high" /\ ~drives'
           \/ /\ Addressing /\ Addressing' /\ UNCHANGED CardType
           \/ /\ dpc = "release" /\ dpc' = "ret" /\ UNCHANGED CardType
              /\ cs' = "high" /\ ~drives'
<1>1. CASE Cmd0 \/ Cmd8 \/ Cmd58 \/ Probe \/ Cmd16 \/ Polls
  BY <1>1 DEF Cmd0, Cmd8, Cmd58, Probe, Cmd16, Polls, Acmd41, Poll, Retry, Inside, Identifying
<1>2. CASE DiskReady
  BY <1>2 DEF DiskReady, ReleaseSpi
<1>3. CASE Cmd17 \/ Token \/ Data
  BY <1>3 DEF Cmd17, Token, Data, Addressing
<1>4. CASE Release
  BY <1>4 DEF Release, ReleaseSpi
<1> QED BY <1>1, <1>2, <1>3, <1>4 DEF CardStep

(* No step of the board does anything else to the sensor or to the card.   *)
LEMMA SensorPart ==
    ASSUME SensorTypeOK, SensorInv, Next \/ UNCHANGED vars
    PROVE  SensorTypeOK' /\ SensorInv'
<1>1. CASE \/ W5100Init \/ W5100Config \/ Transfer \/ CardPin \/ StartDisk \/ DiskStarted
           \/ MountStart \/ MountRead \/ MountStep \/ ReadRegister \/ ReadSector \/ SectorRead
           \/ PollCard \/ AwaitToken \/ (CardStep /\ UNCHANGED << sensorVars, boardVars >>)
           \/ (Swap /\ UNCHANGED << sensorVars, boardVars >>) \/ UNCHANGED vars
  <2>1. UNCHANGED sensorVars
    BY <1>1 DEF W5100Init, W5100Config, Transfer, CardPin, StartDisk, DiskStarted, MountStart, MountRead,
                MountStep, MountStays, ReadRegister, Select, ReadSector, SectorRead, PollCard,
                AwaitToken, vars
  <2> QED BY <2>1, CallTypes
<1>2. CASE spi_fullspeed \/ AskTemp \/ (Weather /\ UNCHANGED << cardVars, boardVars >>)
  <2>1. SensorInit \/ GetTemp \/ Weather
    BY <1>2 DEF spi_fullspeed, AskTemp
  <2> QED BY <2>1, CallTypes
<1>3. CASE EnterLoop \/ TempAnswered \/ Reset \/ PowerCut
  <2>1. SensorReturns \/ SensorAfterReset \/ SensorAfterPowerCut
    BY <1>3 DEF EnterLoop, TempAnswered, Reset, PowerCut
  <2> QED BY <2>1, ForgetTypes
<1>4. CASE SensorStep /\ UNCHANGED << cardVars, boardVars >>
  BY <1>4, SensorInvHolds
<1> QED BY <1>1, <1>2, <1>3, <1>4 DEF Next, Program, World

LEMMA CardPart ==
    ASSUME CardTypeOK, CardInv, MainInv, Next \/ UNCHANGED vars
    PROVE  CardTypeOK' /\ CardInv'
<1>1. CASE \/ W5100Init \/ W5100Config \/ Transfer \/ spi_fullspeed \/ EnterLoop \/ ReadRegister
           \/ AskTemp \/ TempAnswered \/ (SensorStep /\ UNCHANGED << cardVars, boardVars >>)
           \/ (Weather /\ UNCHANGED << cardVars, boardVars >>) \/ UNCHANGED vars
  <2>1. UNCHANGED cardVars
    BY <1>1 DEF W5100Init, W5100Config, Transfer, spi_fullspeed, EnterLoop, ReadRegister, Select,
                AskTemp, TempAnswered, vars
  <2> QED BY <2>1, CardElsewhere
<1>2. CASE CardPin \/ Swap \/ Reset \/ PowerCut
  BY <1>2, CardElsewhere DEF CardPin, Reset, PowerCut
<1>3. CASE StartDisk \/ DiskStarted \/ MountStart \/ MountStep \/ SectorRead
  <2>1. DiskInitialize \/ (DiskReturns /\ dpc = "ret")
    BY <1>3 DEF StartDisk, DiskStarted, MountStart, MountStep, SectorRead
  <2> QED BY <2>1, DiskSteps
<1>4. CASE MountRead \/ ReadSector
  <2>1. dpc = "out" /\ (Mounting \/ FatFs) /\ \E a \in Reads : ReadPartial(a)
    BY <1>4 DEF MountRead, ReadSector, InLoop, Mounting
  <2> QED BY <2>1, ReadCommand DEF MainInv, CallInv
<1>5. CASE CardStep \/ PollCard \/ AwaitToken
  <2>1. CardStep \/ Token \/ Polls
    BY <1>5 DEF PollCard, AwaitToken
  <2> QED BY <2>1, FirstCommands, PollingSteps, KindCommands, DiskSteps, ReadCommand, DataStored
          DEF CardStep
<1> QED BY <1>1, <1>2, <1>3, <1>4, <1>5 DEF Next, Program, World

(* main() from the reset to the file system: the W5100 is configured while *)
(* the card is not yet used, and each call of mmc.c returns before the     *)
(* next step.                                                              *)
LEMMA ConfigPart ==
    ASSUME CardTypeOK, MainInv, W5100Init \/ W5100Config \/ ReadRegister \/ Transfer \/ CardPin
    PROVE  MainInv'
<1>1. CASE W5100Init
  <2>1. /\ stage = "start" /\ stage' = "config" /\ w5cs' = "high" /\ speed' = "slow" /\ conf' = 0 /\ sent' = 0
        /\ UNCHANGED << xfer, mpc, bsect, FatFs, age, dpc, res, CardType, cs, drives >>
    BY <1>1 DEF W5100Init, cardVars, diskVars, slotVars
  <2>2. MainTypeOK'
    <3>1. FatFs' \in BOOLEAN
      BY <2>1 DEF MainInv, MainTypeOK
    <3> QED BY <2>1, <3>1, BoardAssumption DEF MainInv, MainTypeOK
  <2>3. CallInv'
    BY <2>1 DEF MainInv, CallInv, Identifying, Addressing, Mounting
  <2>4. LineInv'
    BY <2>1 DEF MainInv, LineInv
  <2> QED BY <2>2, <2>3, <2>4 DEF MainInv
<1>2. CASE W5100Config \/ ReadRegister
  <2>1. PICK access \in {"write", "read"} : Select(access) /\ dpc = "out"
           /\ (access = "write" => stage = "config" /\ sent < CONF)
           /\ (access = "read" => stage = "loop")
    <3>1. CASE W5100Config
      <4>1. dpc = "out"
        BY <3>1 DEF W5100Config, CardTypeOK, MainInv, CallInv, MainTypeOK, Identifying, Addressing, Mounting
      <4> QED BY <3>1, <4>1 DEF W5100Config
    <3>2. CASE ReadRegister
      BY <3>2 DEF ReadRegister, InLoop
    <3> QED BY <1>2, <3>1, <3>2
  <2>2. /\ xfer = "none" /\ xfer' = access /\ w5cs' = (IF w5cs = "low" THEN "high" ELSE "low")
        /\ UNCHANGED << stage, conf, sent, speed, mpc, bsect, FatFs, age >>
        /\ UNCHANGED << dpc, res, CardType, cs, drives >>
    BY <2>1 DEF Select, w5100_cs, cardVars, diskVars, slotVars
  <2>3. MainTypeOK'
    <3>1. FatFs' \in BOOLEAN
      BY <2>2 DEF MainInv, MainTypeOK
    <3> QED BY <2>1, <2>2, <3>1 DEF MainInv, MainTypeOK
  <2>4. CallInv'
    BY <2>2 DEF MainInv, CallInv, Identifying, Addressing, Mounting
  <2>5. LineInv'
    BY <2>1, <2>2 DEF MainInv, LineInv
  <2> QED BY <2>3, <2>4, <2>5 DEF MainInv
<1>3. CASE Transfer
  <2>1. /\ xfer # "none" /\ xfer' = "none" /\ w5cs' = (IF w5cs = "low" THEN "high" ELSE "low")
        /\ sent' = (IF xfer = "write" THEN sent + 1 ELSE sent)
        /\ conf' = (IF xfer = "write" /\ w5cs = "low" THEN conf + 1 ELSE conf)
        /\ UNCHANGED << stage, speed, mpc, bsect, FatFs, age, dpc, res, CardType, cs, drives >>
    BY <1>3 DEF Transfer, w5100_cs, cardVars, diskVars, slotVars
  <2>2. /\ w5cs = "low" /\ stage \in {"config", "loop"} /\ dpc = "out"
        /\ xfer = "write" => stage = "config" /\ sent < CONF /\ conf = sent
    BY <2>1 DEF MainInv, LineInv
  <2>3. MainTypeOK'
    <3>1. FatFs' \in BOOLEAN
      BY <2>1 DEF MainInv, MainTypeOK
    <3>2. sent' \in 0 .. CONF /\ conf' \in 0 .. CONF
      BY <2>1, <2>2, BoardAssumption DEF MainInv, MainTypeOK
    <3> QED BY <2>1, <3>1, <3>2 DEF MainInv, MainTypeOK
  <2>4. CallInv'
    BY <2>1 DEF MainInv, CallInv, Identifying, Addressing, Mounting
  <2>5. LineInv'
    BY <2>1, <2>2 DEF MainInv, LineInv
  <2> QED BY <2>3, <2>4, <2>5 DEF MainInv
<1>4. CASE CardPin
  <2>1. /\ stage = "config" /\ sent = CONF /\ xfer = "none" /\ stage' = "disk"
        /\ UNCHANGED << xfer, w5cs, conf, sent, speed, mpc, bsect, FatFs, age >>
        /\ UNCHANGED << dpc, res, CardType, drives >>
    BY <1>4 DEF CardPin, diskVars
  <2>2. dpc = "out" /\ FatFs = FALSE
    BY <2>1 DEF CardTypeOK, MainInv, CallInv, MainTypeOK, Identifying, Addressing, Mounting
  <2>3. MainTypeOK'
    <3>1. FatFs' \in BOOLEAN
      BY <2>1 DEF MainInv, MainTypeOK
    <3> QED BY <2>1, <3>1 DEF MainInv, MainTypeOK
  <2>4. CallInv'
    BY <2>1, <2>2 DEF MainInv, CallInv, Identifying, Addressing, Mounting
  <2>5. LineInv'
    BY <2>1, <2>2 DEF MainInv, LineInv
  <2> QED BY <2>3, <2>4, <2>5 DEF MainInv
<1> QED BY <1>1, <1>2, <1>3, <1>4

LEMMA CallsPart ==
    ASSUME CardTypeOK, MainInv, StartDisk \/ MountStart \/ MountRead \/ ReadSector
    PROVE  MainInv'
<1>1. /\ UNCHANGED << stage, xfer, w5cs, conf, sent, speed, mpc, bsect, FatFs, age, CardType >>
      /\ dpc = "out" /\ xfer = "none"
  BY DEF StartDisk, MountStart, MountRead, MountStays, ReadSector, InLoop, boardVars, DiskInitialize,
         ReadPartial, MainInv, LineInv, CallInv
<1>2. \/ dpc' = "cmd0" /\ (stage = "disk" \/ mpc = "init")
      \/ dpc' = "cmd17" /\ (Mounting \/ (stage = "loop" /\ FatFs))
  BY DEF StartDisk, MountStart, MountRead, ReadSector, InLoop, DiskInitialize, ReadPartial, Mounting
<1>3. MainTypeOK'
  <2>1. FatFs' \in BOOLEAN
    BY <1>1 DEF MainInv, MainTypeOK
  <2> QED BY <1>1, <2>1 DEF MainInv, MainTypeOK
<1>4. CallInv'
  BY <1>1, <1>2 DEF MainInv, CallInv, Identifying, Addressing, Mounting
<1>5. LineInv'
  BY <1>1, <1>2 DEF MainInv, LineInv
<1> QED BY <1>3, <1>4, <1>5 DEF MainInv

LEMMA ReturnsPart ==
    ASSUME CardTypeOK, MainInv, DiskStarted \/ MountStep \/ SectorRead
    PROVE  MainInv'
<1>1. /\ dpc = "ret" /\ dpc' = "out" /\ UNCHANGED << CardType, cs, drives >> /\ cs = "high" /\ ~drives
      /\ UNCHANGED << xfer, w5cs, conf, sent, speed, age >>
  BY DEF DiskStarted, MountStep, SectorRead, DiskReturns, DiskForgets, slotVars, MountStays, boardVars,
         MainInv, LineInv
<1>2. CASE DiskStarted
  <2>1. /\ stage = "disk" /\ UNCHANGED << bsect, FatFs >> /\ mpc = "out"
        /\ (stage' = "mount" /\ mpc' = "init") \/ (stage' = "clock" /\ mpc' = mpc)
    BY <1>2 DEF DiskStarted, MainInv, CallInv
  <2>2. MainTypeOK'
    <3>1. FatFs' \in BOOLEAN
      BY <2>1 DEF MainInv, MainTypeOK
    <3> QED BY <1>1, <2>1, <3>1 DEF MainInv, MainTypeOK
  <2>3. CallInv'
    BY <1>1, <2>1 DEF MainInv, CallInv, Identifying, Addressing, Mounting
  <2>4. LineInv'
    BY <1>1, <2>1 DEF MainInv, LineInv
  <2> QED BY <2>2, <2>3, <2>4 DEF MainInv
<1>3. CASE MountStep
  <2>1. /\ stage = "mount" /\ mpc' \in AfterMount
        /\ bsect' \in (IF mpc' = "out" THEN {0} ELSE IF mpc = "mbr" THEN Lbas \ {0} ELSE {bsect})
        /\ FatFs' \in (IF mpc = "bpb" /\ res = "OK" THEN BOOLEAN ELSE {FALSE})
        /\ stage' = (IF mpc' = "out" THEN "clock" ELSE stage)
    BY <1>3 DEF MountStep
  <2>2. mpc \in {"init", "sig", "fs", "mbr", "bpb"}
    BY <2>1 DEF MainInv, MainTypeOK, CallInv
  <2>3. /\ mpc' \in {"out", "sig", "fs", "mbr", "bpb"}
        /\ mpc' # "out" => mpc # "bpb"
        /\ mpc' # "out" /\ mpc = "init" => res = "OK"
    BY <2>1, <2>2 DEF AfterMount
  <2>4. FatFs' \in BOOLEAN /\ (FatFs' => mpc = "bpb")
    <3>1. CASE mpc = "bpb" /\ res = "OK"
      BY <2>1, <3>1
    <3>2. CASE ~(mpc = "bpb" /\ res = "OK")
      <4>1. FatFs' = FALSE
        BY <2>1, <3>2
      <4> QED BY <4>1
    <3> QED BY <3>1, <3>2
  <2>5. bsect' \in Lbas
    BY <2>1, CardAssumption DEF MainInv, MainTypeOK
  <2>6. CardType # {} \/ (mpc' = "out" /\ ~FatFs')
    BY <1>1, <2>2, <2>3, <2>4 DEF MainInv, CallInv, Mounting
  <2>7. FatFs' => mpc' = "out"
    BY <2>3, <2>4
  <2>8. MainTypeOK'
    BY <1>1, <2>1, <2>3, <2>4, <2>5 DEF MainInv, MainTypeOK
  <2>9. CallInv'
    BY <1>1, <2>1, <2>3, <2>6, <2>7 DEF MainInv, CallInv, Identifying, Addressing, Mounting
  <2>10. LineInv'
    BY <1>1, <2>1 DEF MainInv, LineInv
  <2> QED BY <2>8, <2>9, <2>10 DEF MainInv
<1>4. CASE SectorRead
  <2>1. stage = "loop" /\ UNCHANGED << stage, mpc, bsect, FatFs >>
    BY <1>4 DEF SectorRead, boardVars
  <2>2. MainTypeOK'
    <3>1. FatFs' \in BOOLEAN
      BY <2>1 DEF MainInv, MainTypeOK
    <3> QED BY <1>1, <2>1, <3>1 DEF MainInv, MainTypeOK
  <2>3. CallInv'
    BY <1>1, <2>1 DEF MainInv, CallInv, Identifying, Addressing, Mounting
  <2>4. LineInv'
    BY <1>1, <2>1 DEF MainInv, LineInv
  <2> QED BY <2>2, <2>3, <2>4 DEF MainInv
<1> QED BY <1>2, <1>3, <1>4

(* The last steps of the start.  No call of mmc.c is under way then.       *)
LEMMA EnterPart ==
    ASSUME CardTypeOK, MainInv, spi_fullspeed \/ EnterLoop
    PROVE  MainInv'
<1>1. /\ UNCHANGED << xfer, w5cs, conf, sent, mpc, bsect, FatFs, dpc, res, CardType, cs, drives >>
      /\ \/ stage = "clock" /\ stage' = "sensor" /\ speed' = "full" /\ age' = age
         \/ stage = "sensor" /\ stage' = "loop" /\ speed' = speed /\ age' = 0
  BY DEF spi_fullspeed, EnterLoop, cardVars, slotVars, diskVars
<1>2. dpc = "out" /\ mpc = "out"
  BY <1>1 DEF CardTypeOK, MainInv, CallInv, MainTypeOK, Identifying, Addressing, Mounting
<1>3. MainTypeOK'
  <2>1. FatFs' \in BOOLEAN
    BY <1>1 DEF MainInv, MainTypeOK
  <2> QED BY <1>1, <2>1, BoardAssumption DEF MainInv, MainTypeOK
<1>4. CallInv'
  BY <1>1, <1>2 DEF MainInv, CallInv, Identifying, Addressing, Mounting
<1>5. LineInv'
  BY <1>1, <1>2 DEF MainInv, LineInv
<1> QED BY <1>3, <1>4, <1>5 DEF MainInv

LEMMA DriverPart ==
    ASSUME CardTypeOK, MainInv,
           PollCard \/ AwaitToken \/ (CardStep /\ UNCHANGED << sensorVars, boardVars >>)
    PROVE  MainInv'
<1>1. /\ UNCHANGED << stage, xfer, w5cs, conf, sent, speed, mpc, bsect, FatFs >>
      /\ CardStep \/ Token \/ Polls
  BY DEF PollCard, AwaitToken, boardVars
<1>2. MainTypeOK'
  <2>1. FatFs' \in BOOLEAN
    BY <1>1 DEF MainInv, MainTypeOK
  <2>2. age' \in 0 .. PATIENCE
    BY BoardAssumption DEF MainInv, MainTypeOK, PollCard, AwaitToken, boardVars
  <2> QED BY <1>1, <2>1, <2>2 DEF MainInv, MainTypeOK
<1>3. dpc # "out" /\ dpc' # "out" /\ (dpc' = "ret" => cs' = "high" /\ ~drives')
  BY <1>1, CardMoves DEF Identifying, Addressing
<1>4. CallInv'
  BY <1>1, CardMoves DEF MainInv, CallInv, Identifying, Addressing, Mounting
<1>5. LineInv'
  BY <1>1, <1>3 DEF MainInv, LineInv
<1> QED BY <1>2, <1>4, <1>5 DEF MainInv

(* What happens outside of main() and of mmc.c: a card may be changed at   *)
(* any time, and lets go of the bus.                                       *)
LEMMA OutsidePart ==
    ASSUME CardTypeOK, MainInv,
           \/ AskTemp \/ TempAnswered \/ World
           \/ (SensorStep /\ UNCHANGED << cardVars, boardVars >>) \/ UNCHANGED vars
    PROVE  MainInv'
<1>1. UNCHANGED << stage, xfer, w5cs, conf, sent, speed, mpc, bsect, FatFs, age >>
  BY DEF AskTemp, TempAnswered, World, vars, boardVars
<1>2. UNCHANGED << dpc, res, CardType, cs >> /\ (drives' = drives \/ drives' = FALSE)
  BY DEF AskTemp, TempAnswered, World, Swap, vars, cardVars, slotVars, diskVars
<1>3. MainTypeOK'
  <2>1. FatFs' \in BOOLEAN
    BY <1>1 DEF MainInv, MainTypeOK
  <2> QED BY <1>1, <2>1 DEF MainInv, MainTypeOK
<1>4. CallInv'
  BY <1>1, <1>2 DEF MainInv, CallInv, Identifying, Addressing, Mounting
<1>5. LineInv'
  BY <1>1, <1>2 DEF MainInv, LineInv
<1> QED BY <1>3, <1>4, <1>5 DEF MainInv

LEMMA ResetPart ==
    ASSUME CardTypeOK, MainInv, Reset \/ PowerCut
    PROVE  MainInv'
<1>1. /\ stage' = "start" /\ xfer' = "none" /\ w5cs' = "float" /\ speed' = "slow" /\ mpc' = "out"
      /\ bsect' = 0 /\ FatFs' = FALSE /\ age' = 0 /\ UNCHANGED << conf, sent >>
  BY DEF Reset, PowerCut, MainAfterReset
<1>2. dpc' = "out"
  BY DEF Reset, PowerCut, CardAfterReset, CardAfterPowerCut, DriverAfterReset, DiskForgets
<1>3. MainTypeOK'
  <2>1. FatFs' \in BOOLEAN
    BY <1>1
  <2> QED BY <1>1, <2>1, BoardAssumption, CardAssumption DEF MainInv, MainTypeOK
<1>4. CallInv'
  BY <1>1, <1>2 DEF CallInv, Identifying, Addressing, Mounting
<1>5. LineInv'
  BY <1>1, <1>2 DEF LineInv
<1> QED BY <1>3, <1>4, <1>5 DEF MainInv

LEMMA BoardInitHolds == Init => IInv
<1> SUFFICES ASSUME Init PROVE IInv
  OBVIOUS
<1>1. SensorTypeOK
  <2>1. held \in BOOLEAN /\ sending \in BOOLEAN /\ clean \in BOOLEAN
    BY DEF Init
  <2> QED BY <2>1, Readings DEF Init, SensorTypeOK
<1>2. SensorInv
  BY DEF Init, SensorInv, TempIsMeasured, Writing, ReadingTemp
<1>3. CardTypeOK
  <2>1. drives \in BOOLEAN /\ pulled \in BOOLEAN
    BY DEF Init
  <2> QED BY <2>1, NothingAsked, Blocks, CardAssumption DEF Init, CardTypeOK
<1>4. CardInv
  BY DEF Init, CardInv, CardMatches, SectorIsAsked, Identifying
<1>5. MainTypeOK
  <2>1. FatFs \in BOOLEAN
    BY DEF Init
  <2> QED BY <2>1, BoardAssumption, CardAssumption DEF Init, MainTypeOK
<1>6. CallInv /\ LineInv
  BY DEF Init, CallInv, LineInv, Identifying, Addressing, Mounting
<1> QED BY <1>1, <1>2, <1>3, <1>4, <1>5, <1>6 DEF IInv, MainInv

LEMMA BoardInvariant == Spec => []IInv
<1>1. Init => IInv
  BY BoardInitHolds
<1>2. IInv /\ [Next]_vars => IInv'
  <2> SUFFICES ASSUME IInv, Next \/ UNCHANGED vars
               PROVE  IInv'
    OBVIOUS
  <2>1. SensorTypeOK' /\ SensorInv'
    BY SensorPart DEF IInv
  <2>2. CardTypeOK' /\ CardInv'
    BY CardPart DEF IInv
  <2>3. MainInv'
    BY ConfigPart, CallsPart, ReturnsPart, EnterPart, DriverPart, OutsidePart, ResetPart
       DEF IInv, Next, Program
  <2> QED BY <2>1, <2>2, <2>3 DEF IInv
<1> QED BY <1>1, <1>2, PTL DEF Spec
-----------------------------------------------------------------------------
(* Every variable of the drivers, of the devices and of main() keeps its   *)
(* type: the counters of the retries, of the polls and of the bytes stay   *)
(* in their ranges, and what is read of a card fits into a sector.         *)
THEOREM TypeCorrect == Spec => []TypeOK
<1>1. IInv => TypeOK
  BY DEF IInv, MainInv, MainTypeOK, TypeOK
<1> QED BY <1>1, BoardInvariant, PTL

(* The two chips never share the bus, the card is identified at the slow   *)
(* clock, and the W5100 has got all of its configuration.                  *)
THEOREM OneAtATime == Spec => []OneOnTheBus
<1>1. IInv => OneOnTheBus
  <2> SUFFICES ASSUME IInv PROVE OneOnTheBus
    OBVIOUS
  <2>1. MainTypeOK /\ CallInv /\ LineInv /\ CardTypeOK
    BY DEF IInv, MainInv
  <2>2. dpc # "out" => stage \notin {"start", "config", "clock", "sensor"} /\ xfer = "none"
    BY <2>1 DEF CallInv, LineInv, MainTypeOK, CardTypeOK, Identifying, Addressing, Mounting
  <2>3. Identifying => stage \in {"disk", "mount"}
    BY <2>1 DEF CallInv
  <2> QED BY <2>1, <2>2, <2>3 DEF LineInv, OneOnTheBus
<1> QED BY <1>1, BoardInvariant, PTL

(* A read that reports success has stored the bytes that were asked for,   *)
(* of the sector that was asked for.                                       *)
THEOREM AlwaysTheSectorAsked == Spec => []SectorIsAsked
<1>1. IInv => SectorIsAsked
  BY DEF IInv, CardInv
<1> QED BY <1>1, BoardInvariant, PTL

(* A reading of the temperature is what the sensor has measured, or 0, or  *)
(* the whole degrees of it.                                                *)
THEOREM AlwaysTheTempMeasured == Spec => []TempIsMeasured
<1>1. IInv => TempIsMeasured
  BY DEF IInv, SensorInv
<1> QED BY <1>1, BoardInvariant, PTL
=============================================================================
