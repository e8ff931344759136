----------------------------- MODULE MS58xxComp -----------------------------
(***************************************************************************)
(* The compensation of ms58xx_measure (lines 583-671) with the per-model   *)
(* tables that ms58xx_register fills in (lines 858-1010), in C's integer   *)
(* arithmetic on the values of CInt.  Every step takes a mode: in mode     *)
(* "c" each int64_t and int32_t result is converted to its type, as the    *)
(* code computes it; in mode "exact" nothing is, which is the arithmetic   *)
(* the formulas mean.  The two agree exactly when no step overflows.       *)
(***************************************************************************)
EXTENDS Integers, CInt

\* The value of a C expression of w bits in the given mode.
Fit(mode, a, w) == IF mode = "exact" THEN a ELSE Wrap(a, w)

I(n) == FromInt(n)

\* ms58xx_register: c1s .. c4s.
CoefShifts(m) ==
  CASE m = "MS5803_05" -> [c1s |-> 17, c2s |-> 18, c3s |-> 7, c4s |-> 5]
    [] m = "MS5803_07" -> [c1s |-> 17, c2s |-> 18, c3s |-> 6, c4s |-> 5]
    [] m \in {"MS5803_14", "MS5803_30", "MS5837_30"} ->
                          [c1s |-> 15, c2s |-> 16, c3s |-> 8, c4s |-> 7]
    [] OTHER           -> [c1s |-> 16, c2s |-> 17, c3s |-> 7, c4s |-> 6]

\* ms58xx_register: the second-order multipliers and divisor exponents,
\* low-temperature (l), very-low-temperature (vl) and high-temperature (h).
SecondOrder(m) ==
  LET T(dml, ddl, oml, odl, sml, sdl, omvl, smvl, dmh, ddh, omh, odh, smh, sdh) ==
        [diffmull |-> dml, diffdivls |-> ddl, offmull |-> oml, offdivls |-> odl,
         sensmull |-> sml, sensdivls |-> sdl, offmulvl |-> omvl, sensmulvl |-> smvl,
         diffmulh |-> dmh, diffdivhs |-> ddh, offmulh |-> omh, offdivhs |-> odh,
         sensmulh |-> smh, sensdivhs |-> sdh]
  IN  CASE m \in {"MS5803_02", "MS5806_02"} -> T(1, 31, 61, 4, 2, 0, 20, 12, 0, 0, 0, 0, 0, 0)
        [] m \in {"MS5803_05", "MS5803_07"} -> T(3, 33, 3, 3, 7, 3, 0, 3, 0, 0, 0, 0, 0, 0)
        [] m \in {"MS5803_14", "MS5803_30"} -> T(3, 33, 3, 1, 5, 3, 7, 4, 7, 37, 1, 4, 0, 0)
        [] m = "MS5805_02"                  -> T(11, 35, 31, 3, 63, 5, 0, 0, 0, 0, 0, 0, 0, 0)
        [] m = "MS5837_30"                  -> T(3, 33, 3, 1, 5, 3, 7, 4, 2, 37, 1, 4, 0, 0)

\* ms58xx_register: pressdivs.
PressDivs(m) == IF m \in {"MS5803_30", "MS5837_30"} THEN 13 ELSE 15

\* diff = (int32_t)rawtemp - (int32_t)priv->c5 / ((int32_t)1 << 8)
ms58xx_diff(mode, rawtemp, c5) == Fit(mode, Sub(I(rawtemp), Div(I(c5), 256)), 32)

\* temp = (int32_t)(2000 + (int64_t)diff * c6 / 2^23)
ms58xx_temp(mode, diff, c6) ==
  Fit(mode, Fit(mode, Add(I(2000), DivP2(Fit(mode, Mul(diff, I(c6)), 64), 23)), 64), 32)

\* Variant: the cast of k to int64_t left out, k * diff computed in int.
LinearInt32(mode, c, s, k, t, diff) ==
  Fit(mode, Add(Fit(mode, Mul(I(c), Pow2(s)), 64),
                DivP2(Fit(mode, Mul(I(k), diff), 32), t)), 64)

\* (int64_t)c * 2^s + (int64_t)k * diff / 2^t: off (c2, c4) and sens (c1, c3).
Linear(mode, c, s, k, t, diff) ==
  Fit(mode, Add(Fit(mode, Mul(I(c), Pow2(s)), 64),
                DivP2(Fit(mode, Mul(I(k), diff), 64), t)), 64)

\* The branch on temp: diffmul, diffdiv, offmula, offdiva, sensmula,
\* sensdiva, offmulb and sensmulb (divisors as their exponents).
Branch(m, temp) ==
  LET t == SecondOrder(m) IN
  IF Lt(temp, I(2000))
  THEN [dm |-> t.diffmull, dd |-> t.diffdivls, oma |-> t.offmull, oda |-> t.offdivls,
        sma |-> t.sensmull, sda |-> t.sensdivls,
        omb |-> IF Lt(temp, I(-1500)) THEN t.offmulvl ELSE 0,
        smb |-> IF Lt(temp, I(-1500)) THEN t.sensmulvl ELSE 0]
  ELSE [dm |-> t.diffmulh, dd |-> t.diffdivhs, oma |-> t.offmulh, oda |-> t.offdivhs,
        sma |-> t.sensmulh, sda |-> t.sensdivhs, omb |-> 0, smb |-> 0]

\* (temp + k)^2 in int64_t: tm with k = -2000, tp with k = 1500.
Square(mode, temp, k) ==
  LET d == Fit(mode, Add(temp, I(k)), 64) IN Fit(mode, Mul(d, d), 64)

\* x -= mula * tm / 2^diva + mulb * tp, for off and sens.
Correct(mode, x, mula, diva, mulb, tm, tp) ==
  Fit(mode, Sub(x, Fit(mode, Add(DivP2(Fit(mode, Mul(I(mula), tm), 64), diva),
                                 Fit(mode, Mul(I(mulb), tp), 64)), 64)), 64)

\* temp -= (int32_t)(diffmul * diff * diff / diffdiv)
Temp2(mode, temp, dm, dd, diff) ==
  LET t2 == DivP2(Fit(mode, Mul(Fit(mode, Mul(I(dm), diff), 64), diff), 64), dd)
  IN  Fit(mode, Sub(temp, Fit(mode, t2, 32)), 32)

\* press = (int32_t)((rawpress * sens / 2^21 - off) / 2^pressdivs)
Press(mode, rawpress, sens, off, k) ==
  Fit(mode, DivP2(Fit(mode, Sub(DivP2(Fit(mode, Mul(I(rawpress), sens), 64), 21), off), 64),
                  k), 32)

\* The post-correction of the MS5803-07 above 110000 and of the MS5806-02
\* for a supply voltage vdd (CONFIG_MS58XX_VDD, tenths of a volt).
PostCorrect(mode, m, c7, c8, temp, press, vdd) ==
  CASE m = "MS5803_07" /\ Gt(press, I(110000)) ->
         LET k  == Fit(mode, Sub(Fit(mode, Mul(Fit(mode, Mul(I(c7 - 32), I(100)), 64), I(4)), 64),
                                 DivP2(Fit(mode, Mul(I(c8 - 32), Fit(mode, Add(temp, I(-2000)), 64)), 64), 4)), 64)
             p  == Fit(mode, Mul(k, Fit(mode, Add(press, I(-110000)), 64)), 64)
             \* / 49000000 = 2^6 * 125 * 125 * 49, divided in turn
             q  == Div(Div(Div(DivP2(p, 6), 125), 125), 49)
         IN  Fit(mode, Add(press, Fit(mode, q, 32)), 32)
    [] m = "MS5806_02" /\ 22 <= vdd /\ vdd <= 30 ->
         Fit(mode, Add(press, Fit(mode, Div(Fit(mode, Mul(I(30 - vdd), I(c7)), 64), 640), 32)), 32)
    [] OTHER -> press

\* ms58xx_measure after its two conversions: the stored temp and press.
ms58xx_measure(mode, m, cal, rawpress, rawtemp, vdd) ==
  LET sh   == CoefShifts(m)
      diff == ms58xx_diff(mode, rawtemp, cal.c5)
      t1   == ms58xx_temp(mode, diff, cal.c6)
      off  == Linear(mode, cal.c2, sh.c2s, cal.c4, sh.c4s, diff)
      sens == Linear(mode, cal.c1, sh.c1s, cal.c3, sh.c3s, diff)
      br   == Branch(m, t1)
      tm   == Square(mode, t1, -2000)
      tp   == Square(mode, t1, 1500)
      off2 == Correct(mode, off, br.oma, br.oda, br.omb, tm, tp)
      sns2 == Correct(mode, sens, br.sma, br.sda, br.smb, tm, tp)
      temp == Temp2(mode, t1, br.dm, br.dd, diff)
      p    == Press(mode, rawpress, sns2, off2, PressDivs(m))
  IN  [temp |-> temp, press |-> PostCorrect(mode, m, cal.c7, cal.c8, temp, p, vdd)]

-----------------------------------------------------------------------------
(* Reference, not code: the first-order temperature of spec.md 4.5 and    *)
(* the datasheet, dT = D2 - C5 * 2^8, TEMP = 2000 + dT * C6 / 2^23.       *)
RefTemp(d2, c5, c6) ==
  Add(I(2000), DivP2(Mul(Sub(I(d2), Mul(I(c5), I(256))), I(c6)), 23))
=============================================================================
