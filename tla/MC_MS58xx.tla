----------------------------- MODULE MC_MS58xx -----------------------------
(***************************************************************************)
(* Instantiates the driver model for TLC: every sensor model, the genuine  *)
(* PROMs of MC_Data, and the datasheet's maximum conversion times.         *)
(***************************************************************************)
EXTENDS MS58xx, MC_Data

\* Datasheet maximum conversion time (us) at each OSR selector.
DatasheetConvTime ==
  [s \in {0, 2, 4, 6, 8, 10} |->
     CASE s = 0 -> 600 [] s = 2 -> 1170 [] s = 4 -> 2280
       [] s = 6 -> 4540 [] s = 8 -> 9040 [] s = 10 -> 18080]
=============================================================================
