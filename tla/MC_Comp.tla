------------------------------- MODULE MC_Comp -------------------------------
(***************************************************************************)
(* Evaluates the compensation of ms58xx_measure for each model, the        *)
(* coefficients of MC_Data's genuine PROM (the datasheet example) and of a *)
(* PROM of all ones (the largest each field can hold), and raw ADC         *)
(* readings from RawPress and RawTemp.                                     *)
(***************************************************************************)
EXTENDS MS58xxComp, MC_Data

CONSTANTS
  CompModels,         \* the sensor models
  RawPress, RawTemp,  \* readings of the 24-bit ADC
  CONFIG_MS58XX_VDD   \* the supply voltage, tenths of a volt

AllOnes == [k \in 1..MS58XX_PROM_LEN |-> 65535]

VARIABLES model, cal, rawpress, rawtemp
vars == <<model, cal, rawpress, rawtemp>>

Init ==
  /\ model \in CompModels
  /\ cal \in {Decode(GenuineProm[model], model), Decode(AllOnes, model)}
  /\ rawpress \in RawPress
  /\ rawtemp \in RawTemp

Spec == Init /\ [][UNCHANGED vars]_vars

Result(mode) == ms58xx_measure(mode, model, cal, rawpress, rawtemp, CONFIG_MS58XX_VDD)

(* No int64_t intermediate of ms58xx_measure overflows and no conversion  *)
(* to int32_t (temp, press, the second-order temperature, the             *)
(* post-corrections) loses bits: for every model's tables, extreme        *)
(* coefficients and every ADC reading, the stored temp and press are the  *)
(* formulas' exact integer values.                                        *)
CompensationExact == Result("c") = Result("exact")

(* The temperature ms58xx_measure computes before its second-order        *)
(* correction is the datasheet's first-order TEMP for the same D2, C5 and *)
(* C6 (spec.md 4.5, step 1): the reference temperature is subtracted as   *)
(* C5 * 2^8 (line 583).                                                   *)
TempMatchesDatasheet ==
  ms58xx_temp("c", ms58xx_diff("c", rawtemp, cal.c5), cal.c6)
    = RefTemp(rawtemp, cal.c5, cal.c6)
=============================================================================
