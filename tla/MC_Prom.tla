------------------------------ MODULE MC_Prom ------------------------------
(***************************************************************************)
(* Checks the CRC-4 of ms58xx_crc, with the nibble handling of             *)
(* ms58xx_readprom, against the datasheet definition over every image a    *)
(* sensor's PROM can reach the driver as, after at most MaxFlips bits of   *)
(* the words on the bus were corrupted.                                    *)
(***************************************************************************)
EXTENDS MC_Data, FiniteSets, SequencesExt

CONSTANTS MaxFlips,   \* bound on the corrupted bits of one PROM read
          FlipBits    \* the bit positions that may be corrupted

VARIABLES model, prom, flips
vars == <<model, prom, flips>>

\* The images the driver can read: the genuine PROM with the bits of a set
\* of at most MaxFlips (word, bit) positions inverted, in the words read.
Flip(img, F) ==
  [k \in 1..MS58XX_PROM_LEN |->
     img[k] ^^ FoldLeft(LAMBDA a, pos : IF pos[1] = k THEN a + 2^pos[2] ELSE a,
                        0, SetToSeq(F))]

\* The subsets of S with at most k elements, built without SUBSET S.
RECURSIVE AtMost(_, _)
AtMost(k, S) ==
  IF k = 0 THEN {{}}
  ELSE AtMost(k - 1, S) \cup {T \cup {x} : T \in AtMost(k - 1, S), x \in S}

Corruptions(m) ==
  { <<Flip(GenuineProm[m], F), Cardinality(F)>> :
      F \in AtMost(MaxFlips, (1..PromWords(m)) \X FlipBits) }

\* Computed once, as constant-level definitions are.
Reads == [m \in Models |-> Corruptions(m)]

Init ==
  /\ model \in Models
  /\ prom = GenuineProm[model]
  /\ flips = 0

\* ms58xx_readprom reads the PROM once more.
ReadAgain ==
  /\ \E c \in Reads[model] : prom' = c[1] /\ flips' = c[2]
  /\ UNCHANGED model

Spec == Init /\ [][ReadAgain]_vars

(* The CRC ms58xx_readprom computes with ms58xx_crc over the buffer cast   *)
(* to bytes equals the datasheet CRC-4 (most significant byte first) for   *)
(* every image read.                                                       *)
CrcMatchesReference ==
  ms58xx_crc(PromBytes(MaskCrc(prom, model))) = RefCrc(MaskCrc(prom, model))

(* ms58xx_readprom accepts the image it read exactly when it is the        *)
(* sensor's genuine PROM: no single corrupted bit passes the check.        *)
AcceptsExactlyGenuine ==
  CrcMatches(prom, model) <=> prom = GenuineProm[model]

(* ms58xx_readprom splits the 12 bits of word 7 above the CRC nibble of an *)
(* MS5803-07 between C7 (the low 6, mask 0x03f0 >> 4) and C8 (the high 6,  *)
(* >> 10): every bit of the field reaches one coefficient.                 *)
Word7Preserved ==
  model = "MS5803_07" =>
    LET c == Decode(prom, model)
    IN  c.c7 + 64 * c.c8 = MaskCrc(prom, model)[8] \div 16
=============================================================================
