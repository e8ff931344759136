----------------------------- MODULE MS58xxProm -----------------------------
(***************************************************************************)
(* The calibration PROM of the MS58XX sensors as drivers/sensors/ms58xx.c  *)
(* handles it: the CRC-4 of ms58xx_crc, the location of the CRC nibble,    *)
(* its extraction and masking, and the decoding of C1..C8 done by          *)
(* ms58xx_readprom.  A PROM image is a sequence of 8 16-bit words;         *)
(* prom[k] is the C array element prom[k-1].                               *)
(***************************************************************************)
EXTENDS Integers, Sequences, Bitwise

CONSTANT ByteOrder    \* byte order of uint16_t in the build: "big" or "little"

ASSUME ByteOrder \in {"big", "little"}

\* enum ms58xx_model_e
Models == {"MS5803_02", "MS5803_05", "MS5803_07", "MS5803_14",
           "MS5803_30", "MS5805_02", "MS5806_02", "MS5837_30"}

\* The models with 7 PROM words and the CRC in the top nibble of word 0.
CompactModels == {"MS5805_02", "MS5837_30"}

MS58XX_PROM_LEN == 8

Word == 0..65535

-----------------------------------------------------------------------------
(* ms58xx_crc(src, len) applied to (uint8_t * )prom and sizeof(prom): the  *)
(* 16 bytes of the buffer in memory order, which is the build's order.     *)
PromBytes(prom) ==
  [k \in 1..2 * MS58XX_PROM_LEN |->
     LET w     == prom[(k + 1) \div 2]
         first == k % 2 = 1
     IN  IF first = (ByteOrder = "big") THEN w \div 256 ELSE w % 256]

\* Variant: the carry tested after the shift instead of before it.
CrcShiftLate(crc) ==
  LET s == (2 * crc) % 65536
  IN  IF s >= 32768 THEN s ^^ 12288 ELSE s

\* One iteration of the inner loop: crc <<= 1 and xor 0x3000 on carry.
CrcShift(crc) ==
  LET s == (2 * crc) % 65536
  IN  IF crc >= 32768 THEN s ^^ 12288 ELSE s

\* The register is handed from step to step by function application, which
\* evaluates it once whatever the mode TLC evaluates the action in.
CrcShiftOf == [crc \in Nat |-> CrcShift(crc)]

\* One pass of the outer loop: crc ^= src[i], then the 8 inner iterations.
CrcByte == [crc \in Nat, byte \in Nat |->
              LET r[j \in 0..8] == IF j = 0 THEN crc ^^ byte ELSE CrcShiftOf[r[j - 1]]
              IN  r[8]]

\* The outer loop over all the bytes, from crc = 0.
CrcBytes(bytes) ==
  LET r[k \in 0..Len(bytes)] == IF k = 0 THEN 0 ELSE CrcByte[r[k - 1], bytes[k]]
  IN  r[Len(bytes)]

\* return (uint8_t)(crc >> 12)
ms58xx_crc(bytes) == CrcBytes(bytes) \div 4096

-----------------------------------------------------------------------------
(* ms58xx_readprom: where the CRC nibble is, and how it is taken out.      *)

crcindex(model) == IF model \in CompactModels THEN 0 ELSE 7
crcshift(model) == IF model \in CompactModels THEN 12 ELSE 0

\* The number of words read from the bus (len).
PromWords(model) ==
  IF model \in CompactModels THEN MS58XX_PROM_LEN - 1 ELSE MS58XX_PROM_LEN

\* crc = (prom[crcindex] & crcmask) >> crcshift
StoredCrc(prom, model) ==
  (prom[crcindex(model) + 1] \div 2^crcshift(model)) % 16

\* Variant: the CRC nibble left in place.
MaskCrcKeep(prom, model) == prom

\* prom[crcindex] &= ~crcmask
MaskCrc(prom, model) ==
  [prom EXCEPT ![crcindex(model) + 1] =
                 @ - StoredCrc(prom, model) * 2^crcshift(model)]

\* The check of ms58xx_readprom: crc == ms58xx_crc(masked buffer).
CrcMatches(prom, model) ==
  StoredCrc(prom, model) = ms58xx_crc(PromBytes(MaskCrc(prom, model)))

\* The coefficients committed on success: C1..C6 verbatim, C7/C8 from the
\* masked word 7 with the model's bit-field layout.
Decode(prom, model) ==
  LET p  == MaskCrc(prom, model)
      w7 == p[8]
  IN  [c1 |-> p[2], c2 |-> p[3], c3 |-> p[4],
       c4 |-> p[5], c5 |-> p[6], c6 |-> p[7],
       c7 |-> CASE model = "MS5803_07" -> (w7 & 1008) \div 16
                [] model = "MS5806_02" -> (w7 & 4080) \div 16
                [] OTHER               -> 0,
       c8 |-> IF model = "MS5803_07" THEN (w7 & 63232) \div 1024 ELSE 0]

-----------------------------------------------------------------------------
(* Reference definitions, not code: the CRC-4 of the datasheet as a        *)
(* polynomial remainder.  The data are read most significant bit first,   *)
(* word by word; the 16-bit register of ms58xx_crc reduces modulo          *)
(* x^16 + x^13 + x^12 = x^12 (x^4 + x + 1), so its top nibble is the       *)
(* remainder modulo x^4 + x + 1 of the stream without its last 4 bits.     *)

PolyStep(r, bit) ==
  LET s == 2 * r + bit
  IN  IF s >= 16 THEN s ^^ 19 ELSE s

\* Feeds the top n bits of the word w into the remainder r, MSB first.
RECURSIVE FeedBits(_, _, _)
FeedBits(r, w, n) ==
  IF n = 0 THEN r
  ELSE LET next == PolyStep(r, (w \div 2^(n - 1)) % 2)
       IN  IF next >= 0 THEN FeedBits(next, w, n - 1) ELSE r

\* All words, the last one without its low 4 bits.
RECURSIVE FeedWords(_, _)
FeedWords(r, ws) ==
  CASE ws = <<>>  -> r
    [] Len(ws) = 1 -> FeedBits(r, Head(ws) \div 16, 12)
    [] OTHER       -> LET next == FeedBits(r, Head(ws), 16)
                      IN  IF next >= 0 THEN FeedWords(next, Tail(ws)) ELSE r

RefCrc(prom) == FeedWords(0, prom)

=============================================================================
