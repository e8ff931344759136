------------------------------ MODULE MC_Data ------------------------------
(***************************************************************************)
(* Calibration data of the sensors the models are checked with.  The      *)
(* words C1..C6 are the example values of the MS5803 datasheet; word 0     *)
(* holds factory data and word 7 the C7/C8 fields of the models that have  *)
(* them.  GenuineProm[m] is the PROM a sensor of model m holds; MC_Prom    *)
(* checks that its CRC nibble is the datasheet CRC of the rest.            *)
(***************************************************************************)
EXTENDS MS58xxProm

\* The images with their CRC nibbles filled in: WideProm carries the CRC in
\* the low nibble of word 7, CompactProm in the top nibble of word 0 and
\* has a zero eighth slot.
WideProm    == <<2834, 46372, 43981, 29059, 27842, 31553, 28165, 23092>>
CompactProm == <<35602, 46372, 43981, 29059, 27842, 31553, 28165, 0>>

GenuineProm == [m \in Models |-> IF m \in CompactModels THEN CompactProm ELSE WideProm]
=============================================================================
