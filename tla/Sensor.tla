-------------------------------- MODULE Sensor --------------------------------
(***************************************************************************)
(* i2c.c and mcp9800.c: the temperature sensor on the two-wire bus.  A     *)
(* step is one command to the two-wire hardware (TWCR) and what the code   *)
(* does with the status that follows.                                      *)
(*                                                                         *)
(* External: the hardware and the sensor.  The sensor may refuse any byte  *)
(* (NACK); noise may take the bus from us (arbitration lost) whenever we   *)
(* send a START, a one or a NACK; a sensor that is interrupted in the      *)
(* middle of a byte may hold the data line, and no START is then ever      *)
(* completed.  The reading is fixed when the sensor acknowledges a read.   *)
(***************************************************************************)
EXTENDS Naturals

CONSTANTS Temps,      \* readings: the two bytes of the temperature register
          ConfigByte  \* 0x20: what the configuration register holds

ASSUME SensorAssumption ==
    /\ Temps \subseteq (0 .. 255) \X (0 .. 255) /\ Temps # {}
    /\ ConfigByte \in 0 .. 255

VARIABLES bus,       \* "free", or "ours" between START and STOP
          held,      \* the sensor holds the data line
          sending,   \* the sensor is in the middle of a read
          pointer,   \* the register the sensor would answer from
          temp,      \* the temperature
          reply,     \* the two bytes the sensor sends
          spc,       \* where i2c.c and mcp9800.c stand; "out" if not called
          call,      \* "init" or "get": the caller of i2c_write()
          left,      \* bytes that i2c_write() still has to send
          result,    \* result[] of mcp9800_get_temp()
          ret,       \* what mcp9800_get_temp() returned
          measured,  \* history: the temperature when the read was acknowledged
          clean      \* history: no failure in this call

hardVars == << bus, held, sending, pointer, temp, reply, measured >>
sensorVars == << hardVars, spc, call, left, result, ret, clean >>

SensorTypeOK ==
    /\ bus \in {"free", "ours"}
    /\ held \in BOOLEAN /\ sending \in BOOLEAN /\ clean \in BOOLEAN
    /\ pointer \in {"temp", "config"}
    /\ temp \in Temps /\ measured \in Temps
    /\ reply \in Temps \cup {<< ConfigByte, ConfigByte >>}
    /\ spc \in {"out", "w_start", "w_sla", "w_data", "r_start", "r_sla",
                "r_first", "r_last", "stop", "ret"}
    /\ call \in {"init", "get"}
    /\ left \in 0 .. 2
    /\ result \in (0 .. 255) \X (0 .. 255)
    /\ ret \in 0 .. 255

NoReading == CHOOSE t \in Temps : TRUE

(* result[0] << 2 | result[1] >> 6, in eight bits. *)
Compress(r) == ((r[1] * 4) % 256) + (r[2] \div 64)

(* i2c_write() or i2c_read() returns 1: mcp9800_init() ignores it and      *)
(* sends the STOP, mcp9800_get_temp() returns 0 without one.               *)
ReturnOne ==
    /\ IF call = "init"
         THEN spc' = "stop" /\ UNCHANGED ret
         ELSE spc' = "ret" /\ ret' = 0
    /\ UNCHANGED << call, left, result >>

(* It does so because the sensor or the bus has failed. *)
Fails == clean' = FALSE /\ ReturnOne

GoesOn(next) ==
    /\ spc' = next
    /\ UNCHANGED << call, left, result, ret, clean >>

Lost == bus' = "free" /\ sending' = FALSE
         /\ UNCHANGED << held, pointer, temp, reply, measured >>

(* Mutant: a repeated start is not accepted. *)
StartStatusOnly(status) == status = "START"

(* TW_STATUS != TW_START && TW_STATUS != TW_REP_START *)
StartAccepted(status) == status \in {"START", "REP_START"}

Start(from, next) ==
    /\ spc = from
    /\ ~held
    /\ \/ /\ bus' = "ours"
          /\ sending' = FALSE
          /\ UNCHANGED << held, pointer, temp, reply, measured >>
          /\ IF StartAccepted(IF bus = "free" THEN "START" ELSE "REP_START")
               THEN GoesOn(next)
               ELSE ReturnOne /\ UNCHANGED clean
       \/ Lost /\ Fails

(* The address, with the write or the read bit. *)
SlaWrite ==
    /\ spc = "w_sla"
    /\ \/ UNCHANGED hardVars /\ GoesOn("w_data")
       \/ UNCHANGED hardVars /\ Fails
       \/ Lost /\ Fails

(* A data byte; the first one sets the pointer.  A byte that is refused    *)
(* may have set it all the same.                                           *)
WriteByte ==
    LET first == left = (IF call = "init" THEN 2 ELSE 1)
        register == IF call = "init" THEN "config" ELSE "temp"
    IN  /\ spc = "w_data"
        /\ \/ /\ pointer' = IF first THEN register ELSE pointer
              /\ left' = left - 1
              /\ spc' = IF left > 1 THEN "w_data"
                        ELSE IF call = "init" THEN "stop" ELSE "r_start"
              /\ UNCHANGED << bus, held, sending, temp, reply, measured,
                              call, result, ret, clean >>
           \/ /\ pointer' \in {pointer, register}
              /\ UNCHANGED << bus, held, sending, temp, reply, measured >>
              /\ Fails
           \/ Lost /\ Fails

SlaRead ==
    /\ spc = "r_sla"
    /\ \/ /\ sending' = TRUE
          /\ reply' = IF pointer = "temp" THEN temp ELSE << ConfigByte, ConfigByte >>
          /\ measured' = temp
          /\ UNCHANGED << bus, held, pointer, temp >>
          /\ GoesOn("r_first")
       \/ UNCHANGED hardVars /\ Fails
       \/ Lost /\ Fails

(* The first byte is acknowledged by us. *)
ReadFirst ==
    /\ spc = "r_first"
    /\ result' = << reply[1], result[2] >>
    /\ spc' = "r_last"
    /\ UNCHANGED << hardVars, call, left, ret, clean >>

(* The last byte ends with our NACK.  If the bus is lost at that point the *)
(* failure is logged, the byte is not stored and success is reported.      *)
ReadLast ==
    /\ spc = "r_last"
    /\ spc' = "stop"
    /\ \/ /\ result' = << result[1], reply[2] >>
          /\ sending' = FALSE
          /\ UNCHANGED << bus, held, pointer, temp, reply, measured, clean >>
       \/ /\ Lost
          /\ clean' = FALSE
          /\ UNCHANGED result
    /\ UNCHANGED << call, left, ret >>

(* The beginning of mcp9800_get_temp(): result[0] is the register, 0. *)
GetTemp ==
    /\ clean' = TRUE
    /\ call' = "get" /\ left' = 1
    /\ result' = << 0, 0 >>
    /\ spc' = "w_start"
    /\ UNCHANGED << ret, hardVars >>

(* i2c_stop(), and the rest of the caller. *)
Stop ==
    /\ spc = "stop"
    /\ bus' = "free" /\ sending' = FALSE
    /\ UNCHANGED << held, pointer, temp, reply, measured >>
    /\ IF call = "init"
         THEN /\ call' = "get" /\ left' = 1
              /\ result' = << 0, 0 >>
              /\ clean' = TRUE
              /\ spc' = "w_start"
              /\ UNCHANGED ret
         ELSE /\ ret' = Compress(result)
              /\ spc' = "ret"
              /\ UNCHANGED << call, left, result, clean >>

(* mcp9800_init(): i2c_write(MCP9800_ADDR, config, 2). *)
SensorInit ==
    /\ call' = "init" /\ left' = 2
    /\ clean' = TRUE
    /\ spc' = "w_start"
    /\ UNCHANGED << hardVars, result, ret >>

(* What the locals of a call held is gone. *)
SensorForgets ==
    /\ spc' = "out" /\ call' = "init" /\ left' = 0
    /\ result' = << 0, 0 >> /\ ret' = 0 /\ clean' = TRUE
    /\ reply' = NoReading /\ measured' = NoReading

(* mcp9800_get_temp() has returned. *)
SensorReturns == SensorForgets /\ UNCHANGED << bus, held, sending, pointer, temp >>

SensorStep ==
    \/ Start("w_start", "w_sla") \/ SlaWrite \/ WriteByte
    \/ Start("r_start", "r_sla") \/ SlaRead \/ ReadFirst \/ ReadLast
    \/ Stop

(* The room gets warmer or colder. *)
Weather ==
    /\ temp' \in Temps
    /\ UNCHANGED << bus, held, sending, pointer, reply, measured,
                    spc, call, left, result, ret, clean >>

(* The processor is reset.  A sensor in the middle of a byte may hold on.  *)
SensorAfterReset ==
    /\ SensorForgets
    /\ held' \in IF sending THEN BOOLEAN ELSE {held}
    /\ bus' = "free" /\ sending' = FALSE
    /\ UNCHANGED << pointer, temp >>

(* The sensor, too, is without power for a moment. *)
SensorAfterPowerCut ==
    /\ SensorForgets
    /\ held' = FALSE /\ pointer' = "temp"
    /\ bus' = "free" /\ sending' = FALSE
    /\ UNCHANGED temp
=============================================================================
