----------------------------- MODULE AcCommand -------------------------------
(***************************************************************************)
(* main.c: cgi_handler() and the functions it calls, from the words of a   *)
(* request behind /cgi-bin/ to the infrared frame that lg_send() gets and  *)
(* the answer.                                                             *)
(*                                                                         *)
(* A word is what one call of httpd_read_path() yields: a name or a number,*)
(* and the status that tells which character ended it.  The words are      *)
(* chosen as they are read.  The limiter is seen from outside: a call, and *)
(* a reset of the window at any time (RateLimit has the detail).           *)
(***************************************************************************)
EXTENDS LgCode, Sequences

CONSTANTS Numbers,             \* what atoi() makes of the numbers in requests
          MaxWords,            \* words of a request at most
          RATE_LIMIT_DEFAULT,  \* 20
          RATE_LIMIT_POWER     \* 3

ASSUME CommandAssumption ==
    /\ Numbers \subseteq Int
    /\ MaxWords \in Nat \ {0}
    /\ RATE_LIMIT_DEFAULT \in 1 .. 255
    /\ RATE_LIMIT_POWER \in 1 .. RATE_LIMIT_DEFAULT

VARIABLES pc,        \* what cgi_handler() reads next
          temp, fan, \* do_on_cmd(): the settings
          param,     \* do_on_cmd(): the parameter whose value comes next
          count,     \* the counter of ratelimit.c
          frame,     \* what lg_send() got in this request, or NoFrame
          answer,    \* the status line of the answer
          words      \* history: the words of the request so far

vars == << pc, temp, fan, param, count, frame, answer, words >>

NoFrame == << >>

(* The single commands: name in the URL (tempup is temp-up) |-> row of the *)
(* table; and the limit each is sent with.                                 *)
LG_CMD == [power |-> 1, tempup |-> 3, tempdown |-> 2, speed |-> 4,
           timer |-> 5, mode |-> 6, energy |-> 7, off |-> 0]
Keys == DOMAIN LG_CMD
LimitOf(key) == IF key = "power" THEN RATE_LIMIT_POWER ELSE RATE_LIMIT_DEFAULT

Statuses == {"DONE", "PATH", "QUERY_STRING", "QUERY_PARAM", "QUERY_VALUE"}

(* "other" stands for every word that is not compared with at its place.   *)
Groups == {"ac", "temp", "other"}
Commands == Keys \cup {"on", "other"}
Params == {"temp", "fan", "other"}
Sensors == {"raw", "other"}

(* A number is read by atoi(); any other word is 0 to it. *)
Named(names) == [name : names, num : {0}, status : Statuses]
Values == Named({"other"}) \cup [name : {"number"}, num : Numbers, status : Statuses]
Word == Named(Groups \cup Commands \cup Params \cup Sensors) \cup Values

TypeOK ==
    /\ pc \in {"idle", "group", "command", "param", "value", "build", "sensor"}
    /\ temp \in Byte /\ fan \in Byte
    /\ param \in {"none", "temp", "fan"}
    /\ count \in 0 .. RATE_LIMIT_DEFAULT
    /\ frame \in Frame \cup {NoFrame}
    /\ answer \in {"none", "OK", "ERR", "NOTFOUND"}
    /\ words \in Seq(Word) /\ Len(words) <= MaxWords

Init ==
    /\ pc = "idle"
    /\ temp = 70 /\ fan = 1 /\ param = "none"
    /\ count = 0
    /\ frame = NoFrame /\ answer = "none" /\ words = << >>

(* httpd_read_path() yields the word w; the last word there is room for    *)
(* ends the request.                                                       *)
Read(w) ==
    /\ Len(words) + 1 = MaxWords => w.status = "DONE"
    /\ words' = Append(words, w)

Finish(status) == pc' = "idle" /\ answer' = status

(* Mutant: the frame is sent before the limiter is asked. *)
TransmitFirst(limit, f) ==
    /\ frame' = f
    /\ count' = IF count >= limit THEN count ELSE count + 1
    /\ Finish(IF count >= limit THEN "ERR" ELSE "OK")

(* if (ratelimit(limit)) lg_send(f): OK, or the answer to a caller that is *)
(* too fast.                                                               *)
Transmit(limit, f) ==
    IF count >= limit
      THEN /\ UNCHANGED << count, frame >>
           /\ Finish("ERR")
      ELSE /\ count' = count + 1
           /\ frame' = f
           /\ Finish("OK")
-----------------------------------------------------------------------------
Request ==
    /\ pc = "idle"
    /\ pc' = "group"
    /\ temp' = 70 /\ fan' = 1 /\ param' = "none"
    /\ frame' = NoFrame /\ answer' = "none" /\ words' = << >>
    /\ UNCHANGED count

(* cgi_handler(): the directory "ac" or "temp". *)
ReadGroup(w) ==
    /\ pc = "group"
    /\ Read(w)
    /\ CASE w.status = "PATH" /\ w.name = "ac"   -> pc' = "command" /\ answer' = answer
         [] w.status = "PATH" /\ w.name = "temp" -> pc' = "sensor" /\ answer' = answer
         [] OTHER                                -> Finish("NOTFOUND")
    /\ UNCHANGED << temp, fan, param, count, frame >>

(* cgi_handler(): a single command, sent at once. *)
ReadKey(w) ==
    /\ pc = "command"
    /\ w.status \in {"DONE", "QUERY_STRING"} /\ w.name \in Keys
    /\ Read(w)
    /\ Transmit(LimitOf(w.name), LgCmd(LG_CMD[w.name]))
    /\ UNCHANGED << temp, fan, param >>

(* cgi_handler(): "on", with or without parameters. *)
ReadOn(w) ==
    /\ pc = "command"
    /\ w.status \in {"DONE", "QUERY_STRING"} /\ w.name = "on"
    /\ Read(w)
    /\ pc' = IF w.status = "QUERY_STRING" THEN "param" ELSE "build"
    /\ UNCHANGED << temp, fan, param, count, frame, answer >>

ReadNoCommand(w) ==
    /\ pc = "command"
    /\ ~(w.status \in {"DONE", "QUERY_STRING"} /\ w.name \in Keys \cup {"on"})
    /\ Read(w)
    /\ Finish("NOTFOUND")
    /\ UNCHANGED << temp, fan, param, count, frame >>

(* Mutant: param is not reset for a name that is not known. *)
ReadParamKeeps(w) ==
    /\ pc = "param"
    /\ Read(w)
    /\ param' = IF w.status = "QUERY_VALUE" /\ w.name \in {"temp", "fan"}
                  THEN w.name ELSE param
    /\ pc' = CASE w.status = "QUERY_VALUE" -> "value"
               [] w.status = "DONE"        -> "build"
               [] OTHER                    -> "param"
    /\ UNCHANGED << temp, fan, count, frame, answer >>

(* do_on_cmd(): the first read of the loop.  A word that = does not end is *)
(* skipped.                                                                *)
ReadParam(w) ==
    /\ pc = "param"
    /\ Read(w)
    /\ param' = IF w.status = "QUERY_VALUE" /\ w.name \in {"temp", "fan"}
                  THEN w.name ELSE "none"
    /\ pc' = CASE w.status = "QUERY_VALUE" -> "value"
               [] w.status = "DONE"        -> "build"
               [] OTHER                    -> "param"
    /\ UNCHANGED << temp, fan, count, frame, answer >>

(* Mutant: value is as wide as what atoi() returns. *)
ReadValueWide(w) ==
    /\ pc = "value"
    /\ Read(w)
    /\ temp' = IF param = "temp" THEN w.num ELSE temp
    /\ fan' = IF param = "fan" THEN w.num ELSE fan
    /\ pc' = IF w.status = "DONE" THEN "build" ELSE "param"
    /\ UNCHANGED << param, count, frame, answer >>

(* do_on_cmd(): the second read; atoi() yields an int, value has 8 bits.   *)
ReadValue(w) ==
    /\ pc = "value"
    /\ Read(w)
    /\ temp' = IF param = "temp" THEN w.num % 256 ELSE temp
    /\ fan' = IF param = "fan" THEN w.num % 256 ELSE fan
    /\ pc' = IF w.status = "DONE" THEN "build" ELSE "param"
    /\ UNCHANGED << param, count, frame, answer >>

(* do_on_cmd(): the frame is built and sent. *)
Build ==
    /\ pc = "build"
    /\ Transmit(RATE_LIMIT_DEFAULT, LgCreateCmd(temp, fan))
    /\ UNCHANGED << temp, fan, param, words >>

(* cgi_handler(): /temp/raw answers with the sensor's reading. *)
ReadSensor(w) ==
    /\ pc = "sensor"
    /\ Read(w)
    /\ Finish(IF w.status \in {"DONE", "QUERY_STRING"} /\ w.name = "raw"
                THEN "OK" ELSE "NOTFOUND")
    /\ UNCHANGED << temp, fan, param, count, frame >>

(* The interrupt of ratelimit.c ends a window. *)
WindowReset ==
    /\ count > 0
    /\ count' = 0
    /\ UNCHANGED << pc, temp, fan, param, frame, answer, words >>

Next ==
    \/ Request
    \/ \E w \in Named(Groups) : ReadGroup(w)
    \/ \E w \in Named(Commands) : ReadKey(w) \/ ReadOn(w) \/ ReadNoCommand(w)
    \/ \E w \in Named(Params) : ReadParam(w)
    \/ \E w \in Values : ReadValue(w)
    \/ \E w \in Named(Sensors) : ReadSensor(w)
    \/ Build
    \/ WindowReset

Spec == Init /\ [][Next]_vars
-----------------------------------------------------------------------------
(* The command that the request was about, once its second word is read.   *)
AcRequest == Len(words) >= 2 /\ words[1].name = "ac"
SentSetting == pc = "idle" /\ frame # NoFrame /\ words[2].name = "on"

(* A query as browsers send it: name=value pairs with & between them.      *)
Pairs == {i \in 3 .. Len(words) : i % 2 = 1}
WellFormed ==
    /\ Len(words) % 2 = 0
    /\ \A i \in Pairs : words[i].status = "QUERY_VALUE" /\ words[i + 1].status # "QUERY_VALUE"

(* What the query asks for: the value of the last pair with that name.     *)
Asked(name, default) ==
    LET given == {i \in Pairs : words[i].name = name}
    IN  IF given = {} THEN default
        ELSE words[1 + CHOOSE i \in given : \A j \in given : j <= i].num % 256

(* "OK" promises the client that the infrared command was handed to the    *)
(* transmitter; every other answer to an /ac/ request (main.c NOTFOUND and *)
(* ERR) promises that nothing was sent, so that it may be tried again.     *)
OkMeansSent ==
    pc = "idle" /\ AcRequest => (answer = "OK" <=> frame # NoFrame)

(* do_on_cmd(): of a query of name=value pairs, in any order, repeated or  *)
(* with unknown names among them, the frame carries the last temp and the  *)
(* last fan, and 70 degrees and the lowest fan speed where none is given.  *)
LastSettingWins ==
    SentSetting /\ WellFormed =>
        frame = LgCreateCmd(Asked("temp", 70), Asked("fan", 1))

(* lg_checksum() adds bytes and folds the sum once, which is the sum of    *)
(* the nibbles only while the low nibbles do not carry: every frame of 28  *)
(* bits that leaves has the last nibble that the air conditioner expects.  *)
ChecksumHolds ==
    frame # NoFrame /\ frame[1] = 28 => ChecksumValid(frame)

(* lg_create_cmd(): nobody who asks for more degrees gets fewer, across    *)
(* the gap in the codes at 80 and after the code is cut to a nibble.       *)
WarmerIsNotColder ==
    SentSetting =>
        \A t \in Byte : /\ t <= temp => TempOf(LgCreateCmd(t, fan)) <= TempOf(frame)
                        /\ t >= temp => TempOf(LgCreateCmd(t, fan)) >= TempOf(frame)
=============================================================================
