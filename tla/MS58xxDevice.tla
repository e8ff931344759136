----------------------------- MODULE MS58xxDevice ----------------------------
(***************************************************************************)
(* What the driver promises one caller (spec.md 4.3, 4.6 and 7), with      *)
(* every operation atomic: registration runs setosr and reset and then     *)
(* registers the device, or fails; setosr sets the selector and the delay  *)
(* together, or on an illegal ratio leaves both; reset loads the sensor's  *)
(* coefficients, or on any failure leaves the old ones; measure stores a   *)
(* measurement made from a pressure and a temperature conversion with the  *)
(* current coefficients, or on any failure leaves the old one.  A failed   *)
(* call changes nothing, so it is a stuttering step.                       *)
(***************************************************************************)
EXTENDS Naturals

CONSTANTS
  SensorModels,  \* the models the sensor may be
  Osr8192Models, \* the models that allow the ratio 8192
  CalOf,         \* CalOf[m]: the coefficients in the PROM of a model-m sensor
  Undef,         \* a field not yet set
  NoMeas         \* nothing measured yet

VARIABLES
  model, \* the sensor model given at construction
  phase, \* "registering", "registered" or "failed"
  cfg,   \* the oversampling configuration: [sel, delay]
  cal,   \* the calibration coefficients
  meas   \* the last stored measurement

vars == <<model, phase, cfg, cal, meas>>

\* spec.md 4.3: the legal ratios and their settle delays (us).
Delay == [o \in {256, 512, 1024, 2048, 4096, 8192} |->
            CASE o = 256 -> 600 [] o = 512 -> 1170 [] o = 1024 -> 2280
              [] o = 2048 -> 4540 [] o = 4096 -> 9040 [] o = 8192 -> 18080]

Legal(o, m) == o \in DOMAIN Delay /\ (o = 8192 => m \in Osr8192Models)

\* The datasheet's OSR field of the conversion command: 2 * log2(o / 256).
\* (spec.md 4.3 writes (ratio / 256 - 1) * 2, which agrees only for 256
\* and 512 although it calls the result an even value in [0, 10].)
Selector(o) == CHOOSE s \in {0, 2, 4, 6, 8, 10} : 2^(s \div 2) * 256 = o

\* The calls of registration, and the ioctls once registered.
Open == phase \in {"registering", "registered"}

Init ==
  /\ model \in SensorModels
  /\ phase = "registering"
  /\ cfg = [sel |-> Undef, delay |-> Undef]
  /\ cal = Undef
  /\ meas = NoMeas

SetOsr(o) ==
  /\ Open /\ Legal(o, model)
  /\ cfg' = [sel |-> Selector(o), delay |-> Delay[o]]
  /\ UNCHANGED <<model, phase, cal, meas>>

Reset ==
  /\ Open
  /\ cal' = CalOf[model]
  /\ UNCHANGED <<model, phase, cfg, meas>>

Measure ==
  /\ phase = "registered"
  /\ meas' = [p |-> "P", t |-> "T", cal |-> cal]
  /\ UNCHANGED <<model, phase, cfg, cal>>

\* Registration ends: the device is registered only once setosr and reset
\* have succeeded; any failure frees it.
Register ==
  /\ phase = "registering" /\ cfg.sel # Undef /\ cal # Undef
  /\ phase' = "registered"
  /\ UNCHANGED <<model, cfg, cal, meas>>

Fail ==
  /\ phase = "registering"
  /\ phase' = "failed"
  /\ UNCHANGED <<model, cfg, cal, meas>>

Next ==
  \/ \E o \in DOMAIN Delay : SetOsr(o)
  \/ Reset \/ Measure \/ Register \/ Fail

Spec == Init /\ [][Next]_vars
=============================================================================
