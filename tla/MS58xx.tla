------------------------------- MODULE MS58xx -------------------------------
(***************************************************************************)
(* The MS58XX character driver, drivers/sensors/ms58xx.c: registration,    *)
(* the SNIOC_RESET, SNIOC_OVERSAMPLING and SNIOC_MEASURE ioctls, each      *)
(* I2C transfer a step of its own, on a bus whose transfers may fail and   *)
(* whose PROM reads may deliver corrupted words, against a sensor that     *)
(* converts, settles and answers as its datasheet says.  The driver has no *)
(* lock: the tasks of Tasks interleave at every transfer.                  *)
(*                                                                         *)
(* The compensation arithmetic of ms58xx_measure (64-bit, out of TLC's     *)
(* integers) is abstracted to what it is computed from: a stored           *)
(* measurement records the two raw ADC readings and the coefficients.      *)
(***************************************************************************)
EXTENDS Integers, Sequences, FiniteSets, MS58xxProm

CONSTANTS
  SensorModels, \* the models the sensor may be
  Tasks,        \* the tasks calling ioctl() on the registered device
  Boot,         \* the context running ms58xx_register
  RegisterOsr,  \* the osr argument given to ms58xx_register
  OsrArgs,      \* the arguments given to SNIOC_OVERSAMPLING
  Genuine,      \* Genuine[m]: the PROM of a sensor of model m
  GlitchMasks,  \* what a corrupted PROM word is xor-ed with
  ConvTime,     \* ConvTime[s]: microseconds a conversion at selector s takes
  MaxFaults,    \* bound on failed I2C transfers
  MaxGlitches,  \* bound on corrupted PROM words delivered without error
  ReloadWords,  \* the words a PROM read may return while the PROM reloads
  Undef,        \* uninitialised memory of the kmm_malloc'ed instance
  NoConv,       \* the sensor has no conversion pending
  NoMeas,       \* temp = press = 0: nothing measured yet
  CONFIG_DEBUG_SENSORS \* sndbg() prints (a build with sensor debug output)

ASSUME SensorModels \subseteq Models /\ Boot \notin Tasks /\ MaxFaults \in Nat /\ MaxGlitches \in Nat

Procs == Tasks \cup {Boot}

\* Register addresses (command bytes).
MS58XX_RESET_REG == 30
MS58XX_PRESS_REG == 64
MS58XX_TEMP_REG  == 80
MS58XX_ADC_REG   == 0
MS58XX_PROM_REG  == 160

ChanReg == [P |-> MS58XX_PRESS_REG, T |-> MS58XX_TEMP_REG]

\* The models that support an oversampling ratio of 8192.
Osr8192Models == {"MS5805_02", "MS5837_30"}

\* Datasheet: the OSR selectors a sensor of model m decodes.
SensorSelectors(m) == {0, 2, 4, 6, 8} \cup (IF m \in Osr8192Models THEN {10} ELSE {})

\* What an ADC read returns, abstracted: the channel of a clean, finished
\* conversion, 0 with nothing converted ("Zero") or while converting
\* ("Busy"), or the wrong result of overlapped conversions ("Garbage").
RawValues == {"P", "T", "Zero", "Busy", "Garbage"}

Ok   == "OK"
Errs == {"EBUS", "ENODEV", "EINVAL", "ENOTTY", "ENOMEM", "ENOSYS"}

VARIABLES
  model,     \* priv->model
  phase,     \* "registering", "registered", "failed" (instance freed) or
             \* "panicked" (the kernel halted on a memory fault)
  osr,       \* priv->osr
  delay,     \* priv->delay
  cal,       \* priv->c1 .. priv->c8
  meas,      \* priv->temp, priv->press
  pc,        \* pc[t]: where context t is
  op,        \* op[t]: the call context t makes (or made last)
  ret,       \* ret[t]: what its last call returned
  loc,       \* loc[t]: the live locals of the call (arg, chan, i, buf, raw)
  lastcmd,   \* the last command byte the sensor received
  conv,      \* the sensor's conversion: NoConv or [ch, sel, done, clean]
  reloading, \* the sensor is reloading its PROM after a reset command
  faults, glitches

driver  == <<model, phase, osr, delay, cal, meas>>
control == <<pc, op, ret, loc>>
sensor  == <<lastcmd, conv, reloading, faults, glitches>>
vars    == <<driver, control, sensor>>

\* The locals of a call that has not started (or has returned).
Fresh == [arg |-> 0, chan |-> "P", i |-> 0,
          buf |-> [k \in 1..MS58XX_PROM_LEN |-> 0],
          raw |-> [P |-> "Zero", T |-> "Zero"]]

-----------------------------------------------------------------------------
(* The sensor: what it does with a command byte, and what a read returns.  *)

Receive(c) ==
  /\ lastcmd' = c
  /\ reloading' = (reloading \/ c = MS58XX_RESET_REG)
  /\ conv' = CASE c = MS58XX_RESET_REG -> NoConv
               [] c \div 16 \in {4, 5} /\ c % 16 \in SensorSelectors(model) ->
                    [ch |-> IF c \div 16 = 4 THEN "P" ELSE "T", sel |-> c % 16,
                     done |-> FALSE, clean |-> conv = NoConv \/ conv.done]
               [] OTHER -> conv

AdcReply ==
  CASE lastcmd # MS58XX_ADC_REG -> "Garbage"
    [] conv = NoConv            -> "Zero"
    [] ~conv.done               -> "Busy"
    [] ~conv.clean              -> "Garbage"
    [] OTHER                    -> conv.ch

\* Reading during a conversion does not stop it but spoils its result.
AdcAfterRead ==
  CASE conv = NoConv \/ lastcmd # MS58XX_ADC_REG -> conv
    [] ~conv.done -> [conv EXCEPT !.clean = FALSE]
    [] OTHER      -> NoConv

PromReply ==
  IF lastcmd \in {MS58XX_PROM_REG + 2 * k : k \in 0..MS58XX_PROM_LEN - 1}
  THEN Genuine[model][(lastcmd - MS58XX_PROM_REG) \div 2 + 1]
  ELSE 0

\* Time passes: a pending conversion finishes.
ConversionEnds ==
  /\ conv # NoConv /\ ~conv.done
  /\ conv' = [conv EXCEPT !.done = TRUE]
  /\ UNCHANGED <<driver, control, lastcmd, reloading, faults, glitches>>

\* Time passes: the PROM reload that a reset starts (2.8 ms) is over.
ReloadEnds ==
  /\ reloading
  /\ reloading' = FALSE
  /\ UNCHANGED <<driver, control, lastcmd, conv, faults, glitches>>

Fault == faults < MaxFaults /\ faults' = faults + 1

-----------------------------------------------------------------------------
(* The driver.  Goto(t, l) moves context t to label l; Return(t, r) ends   *)
(* the running call with result r, and its locals die.                     *)

Goto(t, l) == pc' = [pc EXCEPT ![t] = l]

\* Where a call returns to: ms58xx_register, the debug print that follows
\* ms58xx_setosr in SNIOC_OVERSAMPLING, or the caller of ioctl().
AfterCall(t) ==
  CASE t = Boot -> "boot"
    [] pc[t] \in {"so_delay", "so_osr"} /\ CONFIG_DEBUG_SENSORS -> "so_dbg"
    [] OTHER -> "idle"

Return(t, r) ==
  /\ ret' = [ret EXCEPT ![t] = r]
  /\ loc' = [loc EXCEPT ![t] = Fresh]
  /\ Goto(t, AfterCall(t))

\* Continue at label l with the locals changed to lc.
Continue(t, l, lc) == Goto(t, l) /\ loc' = [loc EXCEPT ![t] = lc] /\ UNCHANGED ret

\* Variant: the 512 delay of the table mistyped as 1100 us.
OsrDelaySlow == [o \in {256, 512, 1024, 2048, 4096, 8192} |->
                   CASE o = 256 -> 600 [] o = 512 -> 1100 [] o = 1024 -> 2280
                     [] o = 2048 -> 4540 [] o = 4096 -> 9040 [] o = 8192 -> 18080]

\* ms58xx_setosr, the switch: the delay of a legal ratio, else -EINVAL.
OsrDelay == [o \in {256, 512, 1024, 2048, 4096, 8192} |->
               CASE o = 256 -> 600 [] o = 512 -> 1170 [] o = 1024 -> 2280
                 [] o = 2048 -> 4540 [] o = 4096 -> 9040 [] o = 8192 -> 18080]

OsrLegal(o, m) == o \in DOMAIN OsrDelay /\ (o = 8192 => m \in Osr8192Models)

SetOsrDelay(t) ==
  /\ pc[t] = "so_delay"
  /\ IF OsrLegal(loc[t].arg, model)
     THEN delay' = OsrDelay[loc[t].arg] /\ Continue(t, "so_osr", loc[t])
     ELSE Return(t, "EINVAL") /\ UNCHANGED delay
  /\ UNCHANGED <<model, phase, osr, cal, meas, op, sensor>>

\* priv->osr = (osr / 256 - 1) * 2, stored in a uint8_t.
OsrBits(o) == ((o \div 256 - 1) * 2) % 256

\* if (ret == OK) priv->osr = ...
SetOsrBits(t) ==
  /\ pc[t] = "so_osr"
  /\ osr' = OsrBits(loc[t].arg)
  /\ Return(t, Ok)
  /\ UNCHANGED <<model, phase, delay, cal, meas, op, sensor>>

\* ms58xx_reset: the reset command, then ms58xx_readprom.
ResetWrite(t) ==
  /\ pc[t] = "rs_write"
  /\ \/ Receive(MS58XX_RESET_REG) /\ UNCHANGED faults
        /\ Continue(t, "pr_write", [loc[t] EXCEPT !.i = 0])
     \/ Fault /\ Return(t, "EBUS") /\ UNCHANGED <<lastcmd, conv, reloading>>
  /\ UNCHANGED <<driver, op, glitches>>

\* ms58xx_readu16, the register write.
PromWrite(t) ==
  /\ pc[t] = "pr_write"
  /\ \/ Receive(MS58XX_PROM_REG + 2 * loc[t].i) /\ UNCHANGED faults
        /\ Continue(t, "pr_read", loc[t])
     \/ Fault /\ Return(t, "EBUS") /\ UNCHANGED <<lastcmd, conv, reloading>>
  /\ UNCHANGED <<driver, op, glitches>>

\* The words a PROM read can deliver without error: the one asked for, or
\* while glitches remain, that word corrupted by a mask of GlitchMasks.
\* While the sensor reloads, the datasheet leaves its answer open: a word
\* of ReloadWords, or no acknowledge (ReloadNack).
PromWordsRead ==
  IF reloading THEN ReloadWords
  ELSE {PromReply} \cup
         (IF glitches < MaxGlitches THEN {PromReply ^^ g : g \in GlitchMasks} ELSE {})

ReloadNack == reloading /\ UNCHANGED faults

\* Variant: the loop of readprom runs while i <= len.
PromReadPastEnd(t) ==
  /\ pc[t] = "pr_read"
  /\ LET k == loc[t].i IN
     \/ /\ \E w \in PromWordsRead :
             /\ glitches' = IF reloading \/ w = PromReply THEN glitches ELSE glitches + 1
             /\ Continue(t, IF k + 1 <= PromWords(model) THEN "pr_write" ELSE "pr_check",
                         [loc[t] EXCEPT !.buf[k + 1] = w, !.i = k + 1])
        /\ UNCHANGED faults
     \/ (Fault \/ ReloadNack) /\ Return(t, "EBUS") /\ UNCHANGED glitches
  /\ UNCHANGED <<driver, op, lastcmd, conv, reloading>>

\* ms58xx_readu16, the 2-byte read, stored in prom[i]; the loop of readprom.
PromRead(t) ==
  /\ pc[t] = "pr_read"
  /\ LET k == loc[t].i IN
     \/ /\ \E w \in PromWordsRead :
             /\ glitches' = IF reloading \/ w = PromReply THEN glitches ELSE glitches + 1
             /\ Continue(t, IF k + 1 < PromWords(model) THEN "pr_write" ELSE "pr_check",
                         [loc[t] EXCEPT !.buf[k + 1] = w, !.i = k + 1])
        /\ UNCHANGED faults
     \/ (Fault \/ ReloadNack) /\ Return(t, "EBUS") /\ UNCHANGED glitches
  /\ UNCHANGED <<driver, op, lastcmd, conv, reloading>>

\* Variant: the coefficients stored before the CRC is compared.
PromCheckEarly(t) ==
  /\ pc[t] = "pr_check"
  /\ cal' = Decode(loc[t].buf, model)
  /\ Return(t, IF CrcMatches(loc[t].buf, model) THEN Ok ELSE "ENODEV")
  /\ UNCHANGED <<model, phase, osr, delay, meas, op, sensor>>

\* The CRC check of ms58xx_readprom and, on a match, C1..C8.
PromCheck(t) ==
  /\ pc[t] = "pr_check"
  /\ IF CrcMatches(loc[t].buf, model)
     THEN cal' = Decode(loc[t].buf, model) /\ Return(t, Ok)
     ELSE Return(t, "ENODEV") /\ UNCHANGED cal
  /\ UNCHANGED <<model, phase, osr, delay, meas, op, sensor>>

\* ms58xx_convert: the conversion command, its error ignored.
ConvTrigger(t) ==
  /\ pc[t] = "cv_trigger"
  /\ \/ Receive(ChanReg[loc[t].chan] | osr) /\ UNCHANGED faults
     \/ Fault /\ UNCHANGED <<lastcmd, conv, reloading>>
  /\ Continue(t, "cv_wait", loc[t])
  /\ UNCHANGED <<driver, op, glitches>>

\* Variant: the wait skipped.
ConvWaitShort(t) ==
  /\ pc[t] = "cv_wait"
  /\ Continue(t, "ad_write", loc[t])
  /\ UNCHANGED <<driver, op, sensor>>

\* up_udelay(priv->delay): a conversion that needs no longer is finished.
ConvWait(t) ==
  /\ pc[t] = "cv_wait"
  /\ conv' = IF conv # NoConv /\ delay >= ConvTime[conv.sel]
             THEN [conv EXCEPT !.done = TRUE] ELSE conv
  /\ Continue(t, "ad_write", loc[t])
  /\ UNCHANGED <<driver, op, lastcmd, reloading, faults, glitches>>

\* ms58xx_readadc, the register write; a failure ends ms58xx_measure.
AdcWrite(t) ==
  /\ pc[t] = "ad_write"
  /\ \/ Receive(MS58XX_ADC_REG) /\ UNCHANGED faults /\ Continue(t, "ad_read", loc[t])
     \/ Fault /\ Return(t, "EBUS") /\ UNCHANGED <<lastcmd, conv, reloading>>
  /\ UNCHANGED <<driver, op, glitches>>

\* ms58xx_readadc, the 3-byte read; ms58xx_measure converts the pressure,
\* then the temperature.
AdcRead(t) ==
  /\ pc[t] = "ad_read"
  /\ LET lc == [loc[t] EXCEPT !.raw[loc[t].chan] = AdcReply] IN
     \/ /\ conv' = AdcAfterRead
        /\ IF loc[t].chan = "P"
           THEN Continue(t, "cv_trigger", [lc EXCEPT !.chan = "T"])
           ELSE Continue(t, "ms_compute", lc)
        /\ UNCHANGED faults
     \/ Fault /\ Return(t, "EBUS") /\ UNCHANGED conv
  /\ UNCHANGED <<driver, op, lastcmd, reloading, glitches>>

\* The compensation of ms58xx_measure and the stores of temp and press.
Compute(t) ==
  /\ pc[t] = "ms_compute"
  /\ meas' = [p |-> loc[t].raw.P, t |-> loc[t].raw.T, cal |-> cal]
  /\ Return(t, Ok)
  /\ UNCHANGED <<model, phase, osr, delay, cal, op, sensor>>

\* ms58xx_ioctl: SNIOC_MEASURE, SNIOC_RESET and SNIOC_OVERSAMPLING (with
\* its unsigned long argument cast to uint16_t) start a
\* call; SNIOC_TEMPERATURE and SNIOC_PRESSURE copy out priv->temp or
\* priv->press and return, and any other command returns -ENOTTY.
Ioctl(t) ==
  /\ t \in Tasks /\ phase = "registered" /\ pc[t] = "idle"
  /\ \/ op' = [op EXCEPT ![t] = "measure"] /\ Continue(t, "cv_trigger", Fresh)
     \/ op' = [op EXCEPT ![t] = "reset"] /\ Continue(t, "rs_write", Fresh)
     \/ \E o \in OsrArgs :
          /\ op' = [op EXCEPT ![t] = "osr"]
          /\ Continue(t, "so_delay", [Fresh EXCEPT !.arg = o % 65536])
     \/ op' = [op EXCEPT ![t] = "read"] /\ Return(t, Ok)
     \/ op' = [op EXCEPT ![t] = "other"] /\ Return(t, "ENOTTY")
  /\ UNCHANGED <<driver, sensor>>

\* Variant: the result of ms58xx_reset not checked.
RegisterUnchecked(t) ==
  /\ t = Boot /\ pc[t] = "boot"
  /\ \/ ret[t] # Ok /\ op[t] = "osr" /\ phase' = "failed" /\ Goto(t, "done") /\ UNCHANGED op
     \/ ret[t] = Ok /\ op[t] = "osr"
        /\ op' = [op EXCEPT ![t] = "reset"] /\ Goto(t, "rs_write") /\ UNCHANGED phase
     \/ op[t] = "reset"
        /\ phase' \in {"registered", "failed"} /\ Goto(t, "done") /\ UNCHANGED op
  /\ UNCHANGED <<model, osr, delay, cal, meas, ret, loc, sensor>>

\* sndbg("osr: %04x ret: %d\n", *(uint16_t * )arg, ret): arg is the ratio,
\* not a pointer, and the read through it is undefined: it returns
\* whatever is mapped at that address, or it faults and the kernel panics.
OsrDebugPrint(t) ==
  /\ pc[t] = "so_dbg"
  /\ \/ Goto(t, "idle") /\ UNCHANGED phase
     \/ phase' = "panicked" /\ UNCHANGED pc
  /\ UNCHANGED <<model, osr, delay, cal, meas, op, ret, loc, sensor>>

\* ms58xx_open, ms58xx_close and ms58xx_read return 0; ms58xx_write
\* returns -ENOSYS.  None touches the device.
FileOp(t) ==
  /\ t \in Tasks /\ phase = "registered" /\ pc[t] = "idle"
  /\ op' = [op EXCEPT ![t] = "file"]
  /\ \/ Return(t, Ok)
     \/ Return(t, "ENOSYS")
  /\ UNCHANGED <<driver, sensor>>

\* kmm_malloc of the instance: NULL when the kernel heap has no room.
InstanceAlloc(t) ==
  /\ t = Boot /\ pc[t] = "alloc"
  /\ \/ Goto(t, "so_delay") /\ UNCHANGED <<phase, ret>>
     \/ phase' = "failed" /\ ret' = [ret EXCEPT ![t] = "ENOMEM"] /\ Goto(t, "done")
  /\ UNCHANGED <<model, osr, delay, cal, meas, op, loc, sensor>>

\* ms58xx_register after each call: ms58xx_setosr, then ms58xx_reset, then
\* register_driver; the instance is freed on the first failure.
Register(t) ==
  /\ t = Boot /\ pc[t] = "boot"
  /\ \/ ret[t] # Ok /\ phase' = "failed" /\ Goto(t, "done") /\ UNCHANGED op
     \/ ret[t] = Ok /\ op[t] = "osr"
        /\ op' = [op EXCEPT ![t] = "reset"] /\ Goto(t, "rs_write") /\ UNCHANGED phase
     \/ ret[t] = Ok /\ op[t] = "reset"
        /\ phase' \in {"registered", "failed"} /\ Goto(t, "done") /\ UNCHANGED op
  /\ UNCHANGED <<model, osr, delay, cal, meas, ret, loc, sensor>>

Init ==
  /\ model \in SensorModels
  /\ phase = "registering"
  /\ osr = Undef /\ delay = Undef /\ cal = Undef /\ meas = NoMeas
  /\ pc = [p \in Procs |-> IF p = Boot THEN "alloc" ELSE "idle"]
  /\ op = [p \in Procs |-> "osr"]
  /\ ret = [p \in Procs |-> Ok]
  /\ loc = [p \in Procs |-> IF p = Boot THEN [Fresh EXCEPT !.arg = RegisterOsr] ELSE Fresh]
  /\ lastcmd = Undef /\ conv = NoConv /\ reloading = FALSE
  /\ faults = 0 /\ glitches = 0

\* The steps of a call in progress.
Run(t) ==
  /\ phase # "panicked"
  /\ \/ SetOsrDelay(t) \/ SetOsrBits(t)
     \/ ResetWrite(t) \/ PromWrite(t) \/ PromRead(t) \/ PromCheck(t)
     \/ ConvTrigger(t) \/ ConvWait(t) \/ AdcWrite(t) \/ AdcRead(t) \/ Compute(t)
     \/ Register(t) \/ InstanceAlloc(t) \/ OsrDebugPrint(t)

\* A failed registration leaves no device, and a panic halts the system:
\* nothing happens any more.
Terminated == phase \in {"failed", "panicked"} /\ UNCHANGED vars

Next ==
  \/ \E t \in Procs : Ioctl(t) \/ FileOp(t) \/ Run(t)
  \/ ConversionEnds
  \/ ReloadEnds
  \/ Terminated

\* Only safety and refinement are checked, so no fairness is assumed.
Spec == Init /\ [][Next]_vars

-----------------------------------------------------------------------------
Labels == {"idle", "done", "boot", "alloc", "so_dbg", "so_delay", "so_osr", "rs_write", "pr_write",
           "pr_read", "pr_check", "cv_trigger", "cv_wait", "ad_write", "ad_read",
           "ms_compute"}

Cal == [c1 : Word, c2 : Word, c3 : Word, c4 : Word, c5 : Word, c6 : Word,
        c7 : 0..255, c8 : 0..255]

TypeOK ==
  /\ model \in Models
  /\ phase \in {"registering", "registered", "failed", "panicked"}
  /\ osr \in 0..255 \cup {Undef}
  /\ delay \in Nat \cup {Undef}
  /\ cal \in Cal \cup {Undef}
  /\ meas \in [p : RawValues, t : RawValues, cal : Cal] \cup {NoMeas}
  /\ pc \in [Procs -> Labels]
  /\ op \in [Procs -> {"osr", "reset", "measure", "read", "other", "file"}]
  /\ ret \in [Procs -> {Ok} \cup Errs]
  /\ loc \in [Procs -> [arg : Nat, chan : {"P", "T"}, i : 0..MS58XX_PROM_LEN,
                         buf : [1..MS58XX_PROM_LEN -> Word],
                         raw : [{"P", "T"} -> RawValues]]]
  /\ reloading \in BOOLEAN
  /\ faults \in 0..MaxFaults /\ glitches \in 0..MaxGlitches

\* The coefficients of the sensor's genuine PROM.
GenuineCal == [m \in Models |-> Decode(Genuine[m], m)]

(* Reset is all or nothing (ms58xx_readprom, ms58xx_reset): whatever NACKed *)
(* transfers and PROM words with one flipped bit (GlitchMasks) earlier     *)
(* resets met, the registered device holds the genuine coefficients, and   *)
(* every stored measurement was computed from them.                        *)
CalibrationGenuine ==
  phase = "registered" =>
    /\ cal = GenuineCal[model]
    /\ meas # NoMeas => meas.cal = GenuineCal[model]

(* ms58xx_setosr keeps priv->osr and priv->delay together: whenever no    *)
(* call is between its two stores, the selector is one the sensor model    *)
(* decodes and the delay covers the sensor's conversion time at it.        *)
OsrDelayConsistent ==
  (osr # Undef /\ \A t \in Procs : pc[t] # "so_osr") =>
    /\ osr \in SensorSelectors(model)
    /\ delay # Undef /\ delay >= ConvTime[osr]

(* ms58xx_convert waits long enough: no stored measurement was computed    *)
(* from an ADC read made before its conversion ended, or from overlapped   *)
(* conversions.                                                            *)
MeasurementSettled ==
  meas # NoMeas => {meas.p, meas.t} \cap {"Busy", "Garbage"} = {}

(* The spec (4.4): a bus failure at either phase of a conversion aborts    *)
(* the measurement, so a stored measurement comes from a pressure and a    *)
(* temperature conversion made for it.                                     *)
MeasurementFresh ==
  meas # NoMeas => meas.p = "P" /\ meas.t = "T"

-----------------------------------------------------------------------------
(* Refinement.  The abstract device's configuration is the one the last   *)
(* setosr committed to: a call between its two stores has stored the new  *)
(* delay and will store the selector of its argument.  Every other step   *)
(* of a call is a stuttering step of the abstract device; PromCheck,      *)
(* Compute and Register are its Reset, Measure and Register or Fail.      *)
CfgBar ==
  IF \E t \in Procs : pc[t] = "so_osr"
  THEN LET t == CHOOSE t \in Procs : pc[t] = "so_osr"
       IN  [sel |-> OsrBits(loc[t].arg), delay |-> delay]
  ELSE [sel |-> osr, delay |-> delay]

\* A halted kernel does nothing more: to the abstract device, a stutter.
PhaseBar == IF phase = "panicked" THEN "registered" ELSE phase

Device == INSTANCE MS58xxDevice WITH phase <- PhaseBar, cfg <- CfgBar, CalOf <- GenuineCal

(* With one caller and a bus whose transfers succeed (a reset may still   *)
(* meet a reloading sensor or a corrupted word), in any build, the debug  *)
(* print of SNIOC_OVERSAMPLING included, the driver implements            *)
(* the atomic device of spec.md: setosr sets the tabled selector and      *)
(* delay together, reset and measure commit whole or not at all, and the  *)
(* device is registered only after setosr and reset succeeded.            *)
DeviceRefinement == Device!Spec
=============================================================================
