-------------------------------- MODULE CInt --------------------------------
(***************************************************************************)
(* C's fixed-width signed integers, for values TLC's 32-bit integers       *)
(* cannot hold.  A value is a two's-complement number of NLimbs limbs of   *)
(* LimbBits bits (78 bits), least significant limb first; that is wide     *)
(* enough for every exact intermediate of ms58xx_measure, so that Wrap(a,  *)
(* 64) and Wrap(a, 32) are C's conversions to int64_t and int32_t and the  *)
(* identity is exact arithmetic.  Every limb operation stays below 2^31.   *)
(* Each operation is a function applied to its operands, so that TLC       *)
(* evaluates an operand once rather than at each of its limbs.            *)
(***************************************************************************)
EXTENDS Integers

LimbBits == 13
B        == 2^LimbBits
NLimbs   == 6
Limbs    == 0..NLimbs - 1
Value    == [Limbs -> Int]

\* The limbs of columns c (any integers) after carry propagation, modulo
\* 2^(LimbBits * NLimbs).
NormF ==
  [c \in Value |->
     LET carry[j \in 0..NLimbs] ==
           IF j = 0 THEN 0 ELSE (c[j - 1] + carry[j - 1]) \div B
     IN  [j \in Limbs |-> (c[j] + carry[j]) % B]]

Norm(c) == NormF[c]

\* The value of a TLC integer i (|i| < 2^31).
FromInt(i) ==
  Norm([j \in Limbs |-> IF j = 0 THEN i % B
                        ELSE IF j = 1 THEN (i \div B) % B
                        ELSE IF j = 2 THEN i \div (B * B) ELSE 0])

Pow2(k) == [j \in Limbs |-> IF j = k \div LimbBits THEN 2^(k % LimbBits) ELSE 0]

AddF == [a \in Value, b \in Value |-> Norm([j \in Limbs |-> a[j] + b[j]])]
SubF == [a \in Value, b \in Value |-> Norm([j \in Limbs |-> a[j] - b[j]])]
NegF == [a \in Value |-> Norm([j \in Limbs |-> -a[j]])]
MulF == [a \in Value, b \in Value |->
           Norm([j \in Limbs |-> LET s[i \in 0..j + 1] ==
                                      IF i = 0 THEN 0
                                      ELSE s[i - 1] + a[i - 1] * b[j - i + 1]
                               IN  s[j + 1]])]

Add(a, b) == AddF[a, b]
Sub(a, b) == SubF[a, b]
Neg(a)    == NegF[a]
Mul(a, b) == MulF[a, b]

IsNeg(a)  == a[NLimbs - 1] >= B \div 2
Lt(a, b)  == IsNeg(Sub(a, b))
Gt(a, b)  == Lt(b, a)

\* The magnitude a >= 0 divided by 0 < d < 2^17, rounded down.
DivMagF ==
  [a \in Value, d \in Nat |->
     LET rem[j \in 0..NLimbs] ==
           IF j = 0 THEN 0 ELSE (rem[j - 1] * B + a[NLimbs - j]) % d
     IN  [j \in Limbs |-> (rem[NLimbs - 1 - j] * B + a[j]) \div d]]

DivMag(a, d) == DivMagF[a, d]

\* The magnitude a >= 0 divided by 2^k, rounded down.
ShrMagF ==
  [a \in Value, k \in Nat |->
     LET q == k \div LimbBits
     IN  DivMag([j \in Limbs |-> IF j + q < NLimbs THEN a[j + q] ELSE 0],
                2^(k % LimbBits))]

\* C's `/`: truncation toward zero, by d < 2^17 and by 2^k.
DivF   == [a \in Value, d \in Nat |->
             IF IsNeg(a) THEN Neg(DivMag(Neg(a), d)) ELSE DivMag(a, d)]
DivP2F == [a \in Value, k \in Nat |->
             IF IsNeg(a) THEN Neg(ShrMagF[Neg(a), k]) ELSE ShrMagF[a, k]]

Div(a, d)   == DivF[a, d]
DivP2(a, k) == DivP2F[a, k]

\* The conversion to a signed integer of w bits: the low w bits, sign
\* extended (what GCC does for int64_t and int32_t).
WrapF ==
  [a \in Value, w \in Nat |->
  LET q   == w \div LimbBits
      r   == w % LimbBits
      low == a[q] % 2^r
      neg == low >= 2^(r - 1)
  IN  [j \in Limbs |-> CASE j < q -> a[j]
                         [] j = q -> IF neg THEN low + B - 2^r ELSE low
                         [] OTHER -> IF neg THEN B - 1 ELSE 0]]

Wrap(a, w) == WrapF[a, w]

\* The TLC integer a stands for, when |a| < 2^31.
ValF ==
  [a \in Value |->
     LET m == IF IsNeg(a) THEN Neg(a) ELSE a
         v == m[0] + m[1] * B + (m[2] % 32) * B * B
     IN  IF IsNeg(a) THEN -v ELSE v]

Val(a) == ValF[a]
=============================================================================
