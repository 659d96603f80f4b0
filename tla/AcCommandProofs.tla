--------------------------- MODULE AcCommandProofs ---------------------------
(***************************************************************************)
(* Proofs about LgCode and AcCommand, for all temperatures and fan speeds, *)
(* for requests of any length and all limits.                              *)
(***************************************************************************)
EXTENDS AcCommand, TLAPS

(* What the parts of a setting's frame are. *)
LEMMA Codes ==
    ASSUME NEW t \in Byte, NEW f \in Byte
    PROVE  /\ TempCode(t) \in Byte /\ FanCode(f) \in {0, 2, 4}
           /\ SettingByte(t, f) = 16 * (TempCode(t) % 16) + FanCode(f)
           /\ SettingByte(t, f) \in Byte
           /\ High(SettingByte(t, f)) = TempCode(t) % 16
           /\ Low(SettingByte(t, f)) = FanCode(f)
<1>1. TempCode(t) \in Byte
  BY DEF TempCode, Byte
<1>2. FanCode(f) \in {0, 2, 4}
  BY DEF FanCode, Byte
<1>3. ASSUME NEW c \in Byte PROVE (c * 16) % 256 = 16 * (c % 16)
  BY <1>3, SMT DEF Byte
<1>4. SettingByte(t, f) = 16 * (TempCode(t) % 16) + FanCode(f)
  BY <1>1, <1>3 DEF SettingByte
<1>5. TempCode(t) % 16 \in 0 .. 15
  BY <1>1 DEF Byte
<1> QED BY <1>1, <1>2, <1>4, <1>5 DEF Byte, High, Low

(* The checksum of a setting is the sum of the nibbles: the low nibbles of *)
(* its bytes (8, 0 and at most 4) do not carry.                            *)
LEMMA SettingChecksum ==
    ASSUME NEW s \in Byte, Low(s) <= 4
    PROVE  LgChecksum(136, 0, s) = (8 + 8 + High(s) + Low(s)) % 16
BY SMT DEF Byte, High, Low, LgChecksum, Fold

LEMMA SettingFrame ==
    ASSUME NEW t \in Byte, NEW f \in Byte
    PROVE  LgCreateCmd(t, f) \in Frame /\ ChecksumValid(LgCreateCmd(t, f))
<1> DEFINE s == SettingByte(t, f)
           k == LgChecksum(136, 0, s)
<1>1. s \in Byte /\ Low(s) <= 4
  <2>1. s \in Byte /\ Low(s) = FanCode(f) /\ FanCode(f) \in {0, 2, 4}
    BY Codes
  <2>2. FanCode(f) <= 4
    BY <2>1
  <2> QED BY <2>1, <2>2
<1>2. k = (8 + 8 + High(s) + Low(s)) % 16
  BY <1>1, SettingChecksum
<1>3. High(s) \in 0 .. 15 /\ Low(s) \in 0 .. 4
  BY <1>1 DEF Byte, High, Low
<1>4. k \in 0 .. 15 /\ k * 16 \in Byte /\ (k * 16) \div 16 = k
  BY <1>2, <1>3 DEF Byte
<1>5. LgCreateCmd(t, f) = << 28, 136, 0, s, k * 16 >>
  BY DEF LgCreateCmd
<1>6. LgCreateCmd(t, f) \in Frame
  BY <1>1, <1>4, <1>5 DEF Frame, Byte
<1>7. NibbleSum(LgCreateCmd(t, f)) = (8 + 8 + High(s) + Low(s)) % 16
  BY <1>3, <1>5 DEF NibbleSum, High, Low
<1> QED BY <1>2, <1>4, <1>5, <1>6, <1>7 DEF ChecksumValid, High

LEMMA Warmer ==
    ASSUME NEW t \in Byte, NEW u \in Byte, NEW f \in Byte, t <= u
    PROVE  TempOf(LgCreateCmd(t, f)) <= TempOf(LgCreateCmd(u, f))
<1>1. TempOf(LgCreateCmd(t, f)) = TempCode(t) % 16 /\ TempOf(LgCreateCmd(u, f)) = TempCode(u) % 16
  BY Codes DEF TempOf, LgCreateCmd
<1>2. TempCode(t) % 16 <= TempCode(u) % 16
  BY DEF TempCode, Byte
<1> QED BY <1>1, <1>2
-----------------------------------------------------------------------------
(* The place in the request that belongs to each state, and what has been  *)
(* sent when a request is over.                                            *)
Progress ==
    /\ pc # "idle" => frame = NoFrame /\ answer = "none"
    /\ pc \in {"group", "command", "param", "value", "sensor"} => Len(words) < MaxWords
    /\ pc = "group" => words = << >>
    /\ pc \in {"command", "sensor"} => Len(words) = 1
    /\ pc = "command" => words[1].name = "ac"
    /\ pc = "sensor" => words[1].name = "temp"
    /\ pc \in {"param", "value", "build"} =>
          Len(words) >= 2 /\ words[1].name = "ac" /\ words[2].name = "on"
    /\ SentSetting => frame = LgCreateCmd(temp, fan)

Inv == TypeOK /\ Progress /\ OkMeansSent /\ ChecksumHolds

(* What a single command sends. *)
LEMMA TableFrame ==
    ASSUME NEW k \in Keys
    PROVE  LET f == LgCmd(LG_CMD[k])
           IN  f \in Frame /\ f # NoFrame /\ (f[1] = 28 => ChecksumValid(f))
<1>1. LG_CMD[k] \in Rows
  BY DEF Keys, LG_CMD, Rows
<1>2. ASSUME NEW r \in Rows
      PROVE  LgCmd(r) \in Frame /\ (LgCmd(r)[1] = 28 => ChecksumValid(LgCmd(r)))
  <2>1. CASE r = 0
    <3>1. LgCmd(r) = << 28, 136, 192, 5, 16 >>
      BY <2>1 DEF commands, LgCmd
    <3>2. /\ High(136) = 8 /\ Low(136) = 8 /\ High(192) = 12 /\ Low(192) = 0
          /\ High(5) = 0 /\ Low(5) = 5 /\ High(16) = 1
      BY DEF High, Low
    <3> QED BY <3>1, <3>2 DEF Frame, Byte, ChecksumValid, NibbleSum
  <2>2. CASE r # 0
    <3>1. LgCmd(r) \in {<< 32, 129, 102, 129, 126 >>, << 32, 129, 102, 81, 174 >>, << 32, 129, 102, 161, 94 >>,
                       << 32, 129, 102, 153, 102 >>, << 32, 129, 102, 249, 6 >>, << 32, 129, 102, 217, 38 >>,
                       << 32, 129, 102, 65, 190 >>}
      <4>1. r \in {1, 2, 3, 4, 5, 6, 7}
        BY <2>2 DEF Rows
      <4> QED BY <4>1 DEF commands, LgCmd
    <3>2. ASSUME NEW b \in Byte, NEW c \in Byte
          PROVE  << 32, 129, 102, b, c >> \in Frame /\ << 32, 129, 102, b, c >>[1] = 32
      BY DEF Frame, Byte
    <3>3. {129, 126, 81, 174, 161, 94, 153, 102, 249, 6, 217, 38, 65, 190} \subseteq Byte
      BY DEF Byte
    <3>4. PICK b \in Byte, c \in Byte : LgCmd(r) = << 32, 129, 102, b, c >>
      BY <3>1, <3>3
    <3> QED BY <3>2, <3>4
  <2> QED BY <2>1, <2>2
<1>3. \A f \in Frame : f # NoFrame
  BY DEF Frame, NoFrame
<1> QED BY <1>1, <1>2, <1>3
-----------------------------------------------------------------------------
(* One word more. *)
LEMMA ReadWord ==
    ASSUME TypeOK, NEW w \in Word, Read(w), Len(words) < MaxWords
    PROVE  /\ words' \in Seq(Word) /\ Len(words') <= MaxWords
           /\ Len(words') = Len(words) + 1
           /\ words'[Len(words) + 1] = w
           /\ \A i \in 1 .. Len(words) : words'[i] = words[i]
           /\ w.status # "DONE" => Len(words') < MaxWords
<1>1. words \in Seq(Word) /\ Len(words) \in Nat /\ MaxWords \in Nat
  BY CommandAssumption DEF TypeOK
<1>2. words' = Append(words, w) /\ (Len(words) + 1 = MaxWords => w.status = "DONE")
  BY DEF Read
<1>3. words' \in Seq(Word) /\ Len(words') = Len(words) + 1
  BY <1>1, <1>2
<1>4. words'[Len(words) + 1] = w /\ \A i \in 1 .. Len(words) : words'[i] = words[i]
  BY <1>1, <1>2
<1> QED BY <1>1, <1>2, <1>3, <1>4

(* Every word is one, and none that names a command but "on" is "on". *)
LEMMA WordSets ==
    /\ Named(Groups) \subseteq Word /\ Named(Commands) \subseteq Word
    /\ Named(Params) \subseteq Word /\ Named(Sensors) \subseteq Word /\ Values \subseteq Word
    /\ \A w \in Values : w.num \in Int
    /\ "on" \notin Keys
<1>1. \A w \in Values : w.num \in Int
  <2>1. ASSUME NEW w \in Named({"other"}) PROVE w.num = 0
    BY DEF Named
  <2>2. ASSUME NEW w \in [name : {"number"}, num : Numbers, status : Statuses] PROVE w.num \in Int
    BY CommandAssumption
  <2> QED BY <2>1, <2>2 DEF Values
<1>2. "on" \notin Keys
  BY DEF Keys, LG_CMD
<1> QED BY <1>1, <1>2 DEF Named, Word

(* ratelimit() and lg_send() together. *)
LEMMA TransmitEffect ==
    ASSUME TypeOK, pc # "idle", Progress, NEW limit \in 1 .. RATE_LIMIT_DEFAULT,
           NEW f \in Frame, Transmit(limit, f)
    PROVE  /\ pc' = "idle" /\ count' \in 0 .. RATE_LIMIT_DEFAULT
           /\ \/ answer' = "OK" /\ frame' = f
              \/ answer' = "ERR" /\ frame' = NoFrame
BY CommandAssumption DEF TypeOK, Progress, Transmit, Finish

LEMMA LimitInRange == \A k \in Keys : LimitOf(k) \in 1 .. RATE_LIMIT_DEFAULT
BY CommandAssumption DEF LimitOf

LEMMA NextInv == Inv /\ [Next]_vars => Inv'
<1> SUFFICES ASSUME Inv, [Next]_vars PROVE Inv'
  OBVIOUS
<1> USE DEF Inv
<1>0. NoFrame \notin Frame
  BY DEF Frame, NoFrame
<1>1. CASE Request
  BY <1>1, CommandAssumption
     DEF Request, TypeOK, Progress, OkMeansSent, ChecksumHolds, SentSetting, Byte
<1>2. ASSUME NEW w \in Named(Groups), ReadGroup(w) PROVE Inv'
  <2>1. w \in Word /\ Read(w) /\ pc = "group" /\ words = << >> /\ Len(words) < MaxWords
    BY <1>2, WordSets DEF ReadGroup, Progress
  <2>2. /\ words' \in Seq(Word) /\ Len(words') <= MaxWords /\ Len(words') = 1
        /\ words'[1] = w
        /\ w.status # "DONE" => Len(words') < MaxWords
    BY <2>1, ReadWord
  <2>3. /\ UNCHANGED << temp, fan, param, count, frame >> /\ frame = NoFrame /\ answer = "none"
        /\ \/ w.status = "PATH" /\ w.name = "ac" /\ pc' = "command" /\ answer' = answer
           \/ w.status = "PATH" /\ w.name = "temp" /\ pc' = "sensor" /\ answer' = answer
           \/ pc' = "idle" /\ answer' = "NOTFOUND"
    BY <1>2, <2>1 DEF ReadGroup, Finish, Progress
  <2>4. TypeOK'
    BY <2>2, <2>3 DEF TypeOK
  <2> QED BY <2>2, <2>3, <2>4 DEF Progress, OkMeansSent, ChecksumHolds, SentSetting, AcRequest
<1>3. ASSUME NEW w \in Named(Commands), ReadKey(w) PROVE Inv'
  <2>1. /\ w \in Word /\ Read(w) /\ pc = "command" /\ Len(words) = 1 /\ Len(words) < MaxWords
        /\ words[1].name = "ac" /\ w.name \in Keys
    BY <1>3, WordSets DEF ReadKey, Progress
  <2>2. /\ words' \in Seq(Word) /\ Len(words') <= MaxWords /\ Len(words') = 2
        /\ words'[1].name = "ac" /\ words'[2] = w /\ w.name # "on"
    BY <2>1, ReadWord, WordSets
  <2>3. UNCHANGED << temp, fan, param >>
    BY <1>3 DEF ReadKey
  <2> DEFINE f == LgCmd(LG_CMD[w.name])
  <2>4. f \in Frame /\ (f[1] = 28 => ChecksumValid(f))
    BY <2>1, TableFrame
  <2>5. Transmit(LimitOf(w.name), f)
    BY <1>3 DEF ReadKey
  <2>6. /\ pc' = "idle" /\ count' \in 0 .. RATE_LIMIT_DEFAULT
        /\ \/ answer' = "OK" /\ frame' = f
           \/ answer' = "ERR" /\ frame' = NoFrame
    BY <2>1, <2>4, <2>5, TransmitEffect, LimitInRange
  <2> HIDE DEF f
  <2>7. TypeOK'
    BY <2>2, <2>3, <2>4, <2>6 DEF TypeOK
  <2>8. OkMeansSent' /\ ChecksumHolds' /\ Progress'
    BY <1>0, <2>2, <2>4, <2>6 DEF OkMeansSent, ChecksumHolds, Progress, SentSetting
  <2> QED BY <2>7, <2>8
<1>4. ASSUME NEW w \in Named(Commands), ReadOn(w) PROVE Inv'
  <2>1. /\ w \in Word /\ Read(w) /\ pc = "command" /\ Len(words) = 1 /\ Len(words) < MaxWords
        /\ words[1].name = "ac" /\ w.name = "on"
    BY <1>4, WordSets DEF ReadOn, Progress
  <2>2. /\ words' \in Seq(Word) /\ Len(words') <= MaxWords /\ Len(words') = 2
        /\ words'[1].name = "ac" /\ words'[2].name = "on"
        /\ w.status # "DONE" => Len(words') < MaxWords
    BY <2>1, ReadWord
  <2>3. /\ UNCHANGED << temp, fan, param, count, frame, answer >>
        /\ \/ pc' = "param" /\ w.status # "DONE"
           \/ pc' = "build"
    BY <1>4 DEF ReadOn
  <2>4. TypeOK'
    BY <2>2, <2>3 DEF TypeOK
  <2> QED BY <2>1, <2>2, <2>3, <2>4 DEF Progress, OkMeansSent, ChecksumHolds, SentSetting
<1>5. ASSUME NEW w \in Named(Commands), ReadNoCommand(w) PROVE Inv'
  <2>1. w \in Word /\ Read(w) /\ pc = "command" /\ Len(words) = 1 /\ Len(words) < MaxWords
    BY <1>5, WordSets DEF ReadNoCommand, Progress
  <2>2. words' \in Seq(Word) /\ Len(words') <= MaxWords
    BY <2>1, ReadWord
  <2>3. /\ UNCHANGED << temp, fan, param, count, frame >> /\ frame = NoFrame
        /\ pc' = "idle" /\ answer' = "NOTFOUND"
    BY <1>5, <2>1 DEF ReadNoCommand, Finish, Progress
  <2>4. TypeOK'
    BY <2>2, <2>3 DEF TypeOK
  <2> QED BY <2>3, <2>4 DEF Progress, OkMeansSent, ChecksumHolds, SentSetting
<1>6. ASSUME NEW w \in Named(Params) \cup Values, ReadParam(w) \/ ReadValue(w) PROVE Inv'
  <2>1. /\ w \in Word /\ Read(w) /\ pc \in {"param", "value"} /\ Len(words) >= 2
        /\ Len(words) < MaxWords /\ words[1].name = "ac" /\ words[2].name = "on"
    BY <1>6, WordSets DEF ReadParam, ReadValue, Progress
  <2>2. /\ words' \in Seq(Word) /\ Len(words') <= MaxWords /\ Len(words') >= 2
        /\ words'[1].name = "ac" /\ words'[2].name = "on"
        /\ w.status # "DONE" => Len(words') < MaxWords
    <3>1. Len(words) \in Nat /\ 1 \in 1 .. Len(words) /\ 2 \in 1 .. Len(words)
      BY <2>1 DEF TypeOK
    <3> QED BY <2>1, <3>1, ReadWord
  <2>3. /\ UNCHANGED << count, frame, answer >>
        /\ \/ pc' \in {"param", "value"} /\ w.status # "DONE"
           \/ pc' = "build"
    BY <1>6 DEF ReadParam, ReadValue
  <2>4. temp' \in Byte /\ fan' \in Byte /\ param' \in {"none", "temp", "fan"}
    <3>1. CASE ReadParam(w)
      BY <3>1 DEF ReadParam, TypeOK
    <3>2. CASE ReadValue(w)
      <4>1. w.num \in Int
        BY <1>6, WordSets DEF Named
      <4>2. w.num % 256 \in Byte
        BY <4>1 DEF Byte
      <4> QED BY <3>2, <4>2 DEF ReadValue, TypeOK
    <3> QED BY <1>6, <3>1, <3>2
  <2>5. TypeOK'
    BY <2>2, <2>3, <2>4 DEF TypeOK
  <2> QED BY <2>1, <2>2, <2>3, <2>5 DEF Progress, OkMeansSent, ChecksumHolds, SentSetting
<1>7. CASE Build
  <2>1. /\ pc = "build" /\ Transmit(RATE_LIMIT_DEFAULT, LgCreateCmd(temp, fan))
        /\ UNCHANGED << temp, fan, param, words >>
    BY <1>7 DEF Build
  <2> DEFINE f == LgCreateCmd(temp, fan)
  <2>2. f \in Frame /\ ChecksumValid(f)
    BY SettingFrame DEF TypeOK
  <2>3. RATE_LIMIT_DEFAULT \in 1 .. RATE_LIMIT_DEFAULT
    BY CommandAssumption
  <2>4. /\ pc' = "idle" /\ count' \in 0 .. RATE_LIMIT_DEFAULT
        /\ \/ answer' = "OK" /\ frame' = f
           \/ answer' = "ERR" /\ frame' = NoFrame
    BY <2>1, <2>2, <2>3, TransmitEffect
  <2>5. f' = f
    BY <2>1
  <2> HIDE DEF f
  <2>6. TypeOK'
    BY <2>1, <2>2, <2>4 DEF TypeOK
  <2>7. Progress'
    BY <2>1, <2>4, <2>5 DEF Progress, SentSetting, f
  <2>8. OkMeansSent' /\ ChecksumHolds'
    BY <1>0, <2>1, <2>2, <2>4 DEF OkMeansSent, ChecksumHolds
  <2> QED BY <2>6, <2>7, <2>8
<1>8. ASSUME NEW w \in Named(Sensors), ReadSensor(w) PROVE Inv'
  <2>1. /\ w \in Word /\ Read(w) /\ pc = "sensor" /\ Len(words) = 1 /\ Len(words) < MaxWords
        /\ words[1].name = "temp"
    BY <1>8, WordSets DEF ReadSensor, Progress
  <2>2. words' \in Seq(Word) /\ Len(words') <= MaxWords /\ words'[1].name = "temp"
    BY <2>1, ReadWord
  <2>3. /\ UNCHANGED << temp, fan, param, count, frame >> /\ frame = NoFrame
        /\ pc' = "idle" /\ answer' \in {"OK", "NOTFOUND"}
    BY <1>8, <2>1 DEF ReadSensor, Finish, Progress
  <2>4. TypeOK'
    BY <2>2, <2>3 DEF TypeOK
  <2> QED BY <2>2, <2>3, <2>4 DEF Progress, OkMeansSent, AcRequest, ChecksumHolds, SentSetting
<1>9. CASE WindowReset
  BY <1>9, CommandAssumption DEF WindowReset, TypeOK, Progress, OkMeansSent, AcRequest, ChecksumHolds, SentSetting
<1>10. CASE UNCHANGED vars
  BY <1>10 DEF vars, TypeOK, Progress, OkMeansSent, AcRequest, ChecksumHolds, SentSetting
<1> QED BY <1>1, <1>2, <1>3, <1>4, <1>5, <1>6, <1>7, <1>8, <1>9, <1>10 DEF Next

LEMMA Invariance == Spec => []Inv
<1>1. Init => Inv
  BY CommandAssumption
     DEF Init, Inv, TypeOK, Byte, Progress, OkMeansSent, AcRequest, ChecksumHolds, SentSetting
<1> QED BY <1>1, NextInv, PTL DEF Spec

(* Every setting stays in its 8 bits and no request outgrows its words. *)
THEOREM TypeCorrect == Spec => []TypeOK
BY Invariance, PTL DEF Inv

(* Whatever a client asks for, the answer tells it whether a frame left. *)
THEOREM OkAlwaysMeansSent == Spec => []OkMeansSent
BY Invariance, PTL DEF Inv

(* The air conditioner accepts the checksum of every frame, for all 256    *)
(* temperatures and all 256 fan speeds.                                    *)
THEOREM ChecksumAlwaysHolds == Spec => []ChecksumHolds
BY Invariance, PTL DEF Inv

(* Of two temperatures, the higher never yields the lower code. *)
THEOREM WarmerIsNeverColder == Spec => []WarmerIsNotColder
<1>1. Inv => WarmerIsNotColder
  <2>1. SUFFICES ASSUME Inv, SentSetting, NEW t \in Byte
                 PROVE  /\ t <= temp => TempOf(LgCreateCmd(t, fan)) <= TempOf(frame)
                        /\ t >= temp => TempOf(LgCreateCmd(t, fan)) >= TempOf(frame)
    BY DEF WarmerIsNotColder
  <2>2. frame = LgCreateCmd(temp, fan) /\ temp \in Byte /\ fan \in Byte
    BY <2>1 DEF Inv, TypeOK, Progress
  <2>3. t <= temp => TempOf(LgCreateCmd(t, fan)) <= TempOf(frame)
    BY <2>2, Warmer
  <2>4. temp <= t => TempOf(frame) <= TempOf(LgCreateCmd(t, fan))
    BY <2>2, Warmer
  <2>5. TempOf(LgCreateCmd(t, fan)) \in Nat /\ TempOf(frame) \in Nat /\ t \in Nat /\ temp \in Nat
    <3>1. ASSUME NEW u \in Byte PROVE TempOf(LgCreateCmd(u, fan)) \in Nat
      <4>1. TempOf(LgCreateCmd(u, fan)) = TempCode(u) % 16 /\ TempCode(u) \in Byte
        BY <2>2, Codes DEF TempOf, LgCreateCmd
      <4> QED BY <4>1 DEF Byte
    <3> QED BY <2>2, <3>1 DEF Byte
  <2> QED BY <2>3, <2>4, <2>5
<1> QED BY <1>1, Invariance, PTL
-----------------------------------------------------------------------------
(* The query as it is parsed.  The names and values read so far alternate; *)
(* Complete are the places of the names whose value was read.              *)
Alternate(ws) == \A i \in 3 .. Len(ws) : ws[i].status = "QUERY_VALUE" <=> i % 2 = 1
Complete(ws) == {i \in 3 .. (Len(ws) - 1) : i % 2 = 1}

(* x is the value of the last complete pair with that name.                *)
Settled(ws, x, name, default) ==
    \/ x = default /\ \A i \in Complete(ws) : ws[i].name # name
    \/ \E i \in Complete(ws) :
          /\ ws[i].name = name /\ x = ws[i + 1].num % 256
          /\ \A j \in Complete(ws) : ws[j].name = name => j <= i

Parsed ==
    /\ pc \in {"group", "command"} => temp = 70 /\ fan = 1
    /\ (pc \in {"param", "value", "build"} \/ SentSetting) /\ Alternate(words) =>
          /\ pc = "param" => Len(words) % 2 = 0
          /\ pc = "value" =>
                /\ Len(words) % 2 = 1
                /\ \A name \in {"temp", "fan"} : param = name <=> words[Len(words)].name = name
          /\ Settled(words, temp, "temp", 70) /\ Settled(words, fan, "fan", 1)

(* vs is ws with the word w behind it.                                     *)
Longer(ws, w, vs) ==
    /\ Len(ws) \in Nat /\ Len(ws) >= 2
    /\ Len(vs) = Len(ws) + 1 /\ vs[Len(ws) + 1] = w
    /\ \A i \in 1 .. Len(ws) : vs[i] = ws[i]

LEMMA OneMore ==
    ASSUME NEW ws, NEW w, NEW vs, Longer(ws, w, vs), Alternate(vs)
    PROVE  /\ Alternate(ws)
           /\ w.status = "QUERY_VALUE" <=> Len(ws) % 2 = 0
<1>1. /\ Len(ws) \in Nat /\ Len(ws) >= 2 /\ Len(vs) = Len(ws) + 1 /\ vs[Len(ws) + 1] = w
      /\ \A i \in 1 .. Len(ws) : vs[i] = ws[i]
  BY DEF Longer
<1> DEFINE k == Len(ws)
<1> HIDE DEF k
<1>2. k \in Nat /\ k >= 2 /\ Len(vs) = k + 1 /\ vs[k + 1] = w /\ (\A i \in 1 .. k : vs[i] = ws[i]) /\ Len(ws) = k
  BY <1>1 DEF k
<1>3. ASSUME NEW i \in 3 .. k
      PROVE  ws[i].status = "QUERY_VALUE" <=> i % 2 = 1
  <2>1. i \in 3 .. Len(vs) /\ i \in 1 .. k
    BY <1>2
  <2> QED BY <1>2, <2>1 DEF Alternate
<1>4. w.status = "QUERY_VALUE" <=> (k + 1) % 2 = 1
  <2>1. k + 1 \in 3 .. Len(vs)
    BY <1>2
  <2> QED BY <1>2, <2>1 DEF Alternate
<1>5. (k + 1) % 2 = 1 <=> k % 2 = 0
  BY <1>2
<1>6. Alternate(ws)
  BY <1>2, <1>3 DEF Alternate
<1> QED BY <1>2, <1>4, <1>5, <1>6

(* A name settles nothing.                                                 *)
LEMMA NameRead ==
    ASSUME NEW ws, NEW w, NEW vs, Longer(ws, w, vs), Len(ws) % 2 = 0,
           NEW x, NEW name, NEW default, Settled(ws, x, name, default)
    PROVE  Settled(vs, x, name, default)
<1> DEFINE k == Len(ws)
<1> HIDE DEF k
<1>1. k \in Nat /\ k >= 2 /\ Len(vs) = k + 1 /\ (\A i \in 1 .. k : vs[i] = ws[i]) /\ Len(ws) = k /\ k % 2 = 0
  BY DEF Longer, k
<1>2. Complete(vs) = Complete(ws)
  BY <1>1 DEF Complete
<1>3. \A i \in Complete(ws) : i \in 1 .. k /\ i + 1 \in 1 .. k
  BY <1>1 DEF Complete
<1> QED BY <1>1, <1>2, <1>3 DEF Settled

(* A value settles the setting that its name asks for, and no other.       *)
LEMMA ValueRead ==
    ASSUME NEW ws, NEW w, NEW vs, Longer(ws, w, vs), Len(ws) % 2 = 1,
           NEW x, NEW y, NEW name, NEW default, Settled(ws, x, name, default),
           y = IF ws[Len(ws)].name = name THEN w.num % 256 ELSE x
    PROVE  Settled(vs, y, name, default)
<1> DEFINE k == Len(ws)
<1> HIDE DEF k
<1>1. /\ k \in Nat /\ k >= 2 /\ Len(vs) = k + 1 /\ (\A i \in 1 .. k : vs[i] = ws[i]) /\ Len(ws) = k /\ k % 2 = 1
      /\ vs[k + 1] = w /\ y = IF ws[k].name = name THEN w.num % 256 ELSE x
  BY DEF Longer, k
<1>2. Complete(vs) = Complete(ws) \cup {k}
  BY <1>1 DEF Complete
<1>3. \A i \in Complete(ws) : i \in 1 .. k /\ i + 1 \in 1 .. k /\ i < k
  BY <1>1 DEF Complete
<1>4. CASE ws[k].name = name
  <2>1. k \in Complete(vs) /\ vs[k].name = name /\ y = vs[k + 1].num % 256
    BY <1>1, <1>2, <1>4
  <2>2. \A j \in Complete(vs) : j <= k
    BY <1>1, <1>2, <1>3
  <2> QED BY <2>1, <2>2 DEF Settled
<1>5. CASE ws[k].name # name
  <2>1. y = x /\ vs[k].name # name
    BY <1>1, <1>5
  <2>2. ASSUME x = default, \A i \in Complete(ws) : ws[i].name # name
        PROVE  \A i \in Complete(vs) : vs[i].name # name
    BY <1>1, <1>2, <1>3, <2>1, <2>2
  <2>3. ASSUME NEW i \in Complete(ws), ws[i].name = name, x = ws[i + 1].num % 256,
               \A j \in Complete(ws) : ws[j].name = name => j <= i
        PROVE  /\ i \in Complete(vs) /\ vs[i].name = name /\ x = vs[i + 1].num % 256
               /\ \A j \in Complete(vs) : vs[j].name = name => j <= i
    BY <1>1, <1>2, <1>3, <2>1, <2>3
  <2> QED BY <2>1, <2>2, <2>3 DEF Settled
<1> QED BY <1>4, <1>5

LEMMA Longest ==
    ASSUME TypeOK, NEW w \in Word, Read(w), Len(words) < MaxWords, Len(words) >= 2
    PROVE  Longer(words, w, words')
<1>1. Len(words) \in Nat
  BY DEF TypeOK
<1> QED BY <1>1, ReadWord DEF Longer

LEMMA ParsedNext == Inv /\ Parsed /\ [Next]_vars => Parsed'
<1> SUFFICES ASSUME Inv, Parsed, [Next]_vars PROVE Parsed'
  OBVIOUS
<1>0. Inv' /\ TypeOK /\ Progress /\ NoFrame \notin Frame
  BY NextInv DEF Inv, Frame, NoFrame
<1>1. CASE Request
  BY <1>1 DEF Request, Parsed, SentSetting
<1>2. ASSUME NEW w \in Named(Groups), ReadGroup(w) PROVE Parsed'
  <2>1. /\ UNCHANGED << temp, fan, frame >> /\ pc = "group" /\ frame = NoFrame
        /\ pc' \in {"command", "sensor", "idle"}
    BY <1>0, <1>2 DEF ReadGroup, Finish, Progress
  <2> QED BY <2>1 DEF Parsed, SentSetting
<1>3. ASSUME NEW w \in Named(Commands), ReadKey(w) PROVE Parsed'
  <2>1. /\ w \in Word /\ Read(w) /\ Len(words) = 1 /\ Len(words) < MaxWords
        /\ w.name \in Keys /\ pc' = "idle"
    BY <1>0, <1>3, WordSets DEF ReadKey, Progress, Transmit, Finish
  <2>2. words'[2] = w /\ w.name # "on"
    BY <1>0, <2>1, ReadWord, WordSets
  <2> QED BY <2>1, <2>2 DEF Parsed, SentSetting
<1>4. ASSUME NEW w \in Named(Commands), ReadOn(w) PROVE Parsed'
  <2>1. /\ w \in Word /\ Read(w) /\ Len(words) = 1 /\ Len(words) < MaxWords
        /\ UNCHANGED << temp, fan >> /\ pc = "command" /\ pc' \in {"param", "build"}
    BY <1>0, <1>4, WordSets DEF ReadOn, Progress
  <2>2. Len(words') = 2 /\ temp' = 70 /\ fan' = 1
    BY <1>0, <2>1, ReadWord DEF Parsed
  <2>3. Complete(words') = {}
    BY <2>2 DEF Complete
  <2>4. Settled(words', 70, "temp", 70) /\ Settled(words', 1, "fan", 1)
    BY <2>3 DEF Settled
  <2>5. 2 % 2 = 0
    OBVIOUS
  <2> QED BY <2>1, <2>2, <2>4, <2>5 DEF Parsed
<1>5. ASSUME NEW w \in Named(Commands), ReadNoCommand(w) PROVE Parsed'
  <2>1. pc' = "idle" /\ frame' = NoFrame
    BY <1>0, <1>5 DEF ReadNoCommand, Finish, Progress
  <2> QED BY <2>1 DEF Parsed, SentSetting
<1>6. ASSUME NEW w \in Named(Params), ReadParam(w) PROVE Parsed'
  <2>1. /\ w \in Word /\ Read(w) /\ pc = "param" /\ Len(words) >= 2 /\ Len(words) < MaxWords
        /\ UNCHANGED << temp, fan >>
        /\ param' = IF w.status = "QUERY_VALUE" /\ w.name \in {"temp", "fan"} THEN w.name ELSE "none"
        /\ pc' \in {"value", "build", "param"} /\ (w.status = "QUERY_VALUE" <=> pc' = "value")
    BY <1>0, <1>6, WordSets DEF ReadParam, Progress
  <2>2. Longer(words, w, words')
    BY <1>0, <2>1, Longest
  <2>3. ASSUME Alternate(words')
        PROVE  /\ pc' = "value" /\ Len(words') % 2 = 1
               /\ \A name \in {"temp", "fan"} : param' = name <=> words'[Len(words')].name = name
               /\ Settled(words', temp, "temp", 70) /\ Settled(words', fan, "fan", 1)
    <3>1. Alternate(words) /\ (w.status = "QUERY_VALUE" <=> Len(words) % 2 = 0)
      BY <2>2, <2>3, OneMore
    <3>2. Len(words) % 2 = 0 /\ Settled(words, temp, "temp", 70) /\ Settled(words, fan, "fan", 1)
      BY <2>1, <3>1 DEF Parsed
    <3>3. Settled(words', temp, "temp", 70) /\ Settled(words', fan, "fan", 1)
      BY <2>2, <3>2, NameRead
    <3>4. pc' = "value" /\ w.status = "QUERY_VALUE"
      BY <2>1, <3>1, <3>2
    <3>5. Len(words) \in Nat /\ Len(words') = Len(words) + 1 /\ words'[Len(words')] = w
      BY <2>2 DEF Longer
    <3>6. Len(words') % 2 = 1
      BY <3>2, <3>5
    <3>7. \A name \in {"temp", "fan"} : param' = name <=> w.name = name
      BY <2>1, <3>4
    <3> QED BY <3>3, <3>4, <3>5, <3>6, <3>7
  <2> QED BY <2>1, <2>3 DEF Parsed
<1>7. ASSUME NEW w \in Values, ReadValue(w) PROVE Parsed'
  <2>1. /\ w \in Word /\ Read(w) /\ pc = "value" /\ Len(words) >= 2 /\ Len(words) < MaxWords
        /\ temp' = IF param = "temp" THEN w.num % 256 ELSE temp
        /\ fan' = IF param = "fan" THEN w.num % 256 ELSE fan
        /\ pc' \in {"build", "param"}
    BY <1>0, <1>7, WordSets DEF ReadValue, Progress
  <2>2. Longer(words, w, words')
    BY <1>0, <2>1, Longest
  <2>3. ASSUME Alternate(words')
        PROVE  /\ Len(words') % 2 = 0
               /\ Settled(words', temp', "temp", 70) /\ Settled(words', fan', "fan", 1)
    <3>1. Alternate(words)
      BY <2>2, <2>3, OneMore
    <3>2. /\ Len(words) % 2 = 1 /\ Settled(words, temp, "temp", 70) /\ Settled(words, fan, "fan", 1)
          /\ (param = "temp" <=> words[Len(words)].name = "temp")
          /\ (param = "fan" <=> words[Len(words)].name = "fan")
      BY <2>1, <3>1 DEF Parsed
    <3>3. temp' = IF words[Len(words)].name = "temp" THEN w.num % 256 ELSE temp
      BY <2>1, <3>2
    <3>4. fan' = IF words[Len(words)].name = "fan" THEN w.num % 256 ELSE fan
      BY <2>1, <3>2
    <3>5. Settled(words', temp', "temp", 70)
      BY <2>2, <3>2, <3>3, ValueRead
    <3>6. Settled(words', fan', "fan", 1)
      BY <2>2, <3>2, <3>4, ValueRead
    <3>7. Len(words) \in Nat /\ Len(words') = Len(words) + 1
      BY <2>2 DEF Longer
    <3>8. Len(words') % 2 = 0
      BY <3>2, <3>7
    <3> QED BY <3>5, <3>6, <3>8
  <2> QED BY <2>1, <2>3 DEF Parsed
<1>8. CASE Build
  <2>1. pc = "build" /\ pc' = "idle" /\ UNCHANGED << temp, fan, words >>
    BY <1>8 DEF Build, Transmit, Finish
  <2> QED BY <2>1 DEF Parsed
<1>9. ASSUME NEW w \in Named(Sensors), ReadSensor(w) PROVE Parsed'
  <2>1. pc' = "idle" /\ frame' = NoFrame
    BY <1>0, <1>9 DEF ReadSensor, Finish, Progress
  <2> QED BY <2>1 DEF Parsed, SentSetting
<1>10. CASE WindowReset
  BY <1>10 DEF WindowReset, Parsed, SentSetting
<1>11. CASE UNCHANGED vars
  BY <1>11 DEF vars, Parsed, SentSetting
<1> QED BY <1>1, <1>2, <1>3, <1>4, <1>5, <1>6, <1>7, <1>8, <1>9, <1>10, <1>11 DEF Next

(* Of a query of name=value pairs, in any order and of any length, the     *)
(* frame carries the last temp and the last fan (do_on_cmd).               *)
THEOREM LastSettingAlwaysWins == Spec => []LastSettingWins
<1>1. Init => Inv /\ Parsed
  BY CommandAssumption
     DEF Init, Inv, TypeOK, Byte, Progress, OkMeansSent, AcRequest, ChecksumHolds, SentSetting, Parsed
<1>2. Inv /\ Parsed /\ [Next]_vars => (Inv /\ Parsed)'
  BY NextInv, ParsedNext
<1>3. ASSUME Inv, Parsed PROVE LastSettingWins
  <2> SUFFICES ASSUME SentSetting, WellFormed
               PROVE  frame = LgCreateCmd(Asked("temp", 70), Asked("fan", 1))
    BY DEF LastSettingWins
  <2> DEFINE k == Len(words)
  <2>1. k \in Nat /\ k % 2 = 0 /\ Pairs = {i \in 3 .. k : i % 2 = 1}
    BY <1>3 DEF WellFormed, Pairs, Inv, TypeOK
  <2>2. \A i \in Pairs : words[i].status = "QUERY_VALUE" /\ words[i + 1].status # "QUERY_VALUE"
    BY DEF WellFormed
  <2>3. Complete(words) = {i \in 3 .. (k - 1) : i % 2 = 1}
    BY DEF Complete
  <2> HIDE DEF k
  <2>4. Complete(words) = Pairs
    BY <2>1, <2>3
  <2>5. Alternate(words)
    <3> SUFFICES ASSUME NEW i \in 3 .. k
                 PROVE  words[i].status = "QUERY_VALUE" <=> i % 2 = 1
      BY DEF Alternate, k
    <3>1. CASE i % 2 = 1
      BY <2>1, <2>2, <3>1
    <3>2. CASE i % 2 # 1
      <4>1. i - 1 \in Pairs /\ (i - 1) + 1 = i
        BY <2>1, <3>2
      <4> QED BY <2>2, <3>2, <4>1
    <3> QED BY <3>1, <3>2
  <2>6. Settled(words, temp, "temp", 70) /\ Settled(words, fan, "fan", 1)
    BY <1>3, <2>5 DEF Parsed
  <2>7. ASSUME NEW x, NEW name, NEW default, Settled(words, x, name, default)
        PROVE  x = Asked(name, default)
    <3> DEFINE given == {i \in Pairs : words[i].name = name}
    <3>1. \A i \in given : i \in Int
      BY <2>1
    <3>2. CASE given = {}
      BY <2>4, <2>7, <3>2 DEF Settled, Asked
    <3>3. CASE given # {}
      <4>1. PICK i \in given : x = words[i + 1].num % 256 /\ \A j \in given : j <= i
        BY <2>4, <2>7, <3>3 DEF Settled
      <4> DEFINE c == CHOOSE m \in given : \A j \in given : j <= m
      <4>2. c \in given /\ \A j \in given : j <= c
        BY <4>1
      <4>3. c = i
        <5>1. c <= i /\ i <= c /\ c \in Int /\ i \in Int
          BY <3>1, <4>1, <4>2
        <5> QED BY <5>1
      <4>4. Asked(name, default) = words[1 + c].num % 256
        BY <3>3 DEF Asked
      <4>5. 1 + c = i + 1
        BY <3>1, <4>1, <4>3
      <4> QED BY <4>1, <4>4, <4>5
    <3> QED BY <3>2, <3>3
  <2>8. temp = Asked("temp", 70) /\ fan = Asked("fan", 1)
    BY <2>6, <2>7
  <2>9. frame = LgCreateCmd(temp, fan)
    BY <1>3 DEF Inv, Progress
  <2> QED BY <2>8, <2>9
<1> QED BY <1>1, <1>2, <1>3, PTL DEF Spec
===============================================================================
