----------------------------- MODULE BatteryMath -----------------------------
(***************************************************************************)
(* The arithmetic of battery/bq25890_battery.c: register tables, the rest  *)
(* OCV curve, the INA228 scale factors and its filters.  Pure operators in *)
(* the driver's units (uV, uA, uAh, ppm).  Products that the driver forms  *)
(* in 64 bits are reduced first, without changing the quotient, so that    *)
(* TLC's 32-bit integers hold them.                                        *)
(***************************************************************************)
EXTENDS Integers, Sequences

LOCAL INSTANCE FiniteSetsExt

Abs(x) == IF x < 0 THEN -x ELSE x
AtMost(x, hi) == IF x > hi THEN hi ELSE x
AtLeast(x, lo) == IF x < lo THEN lo ELSE x
Clamp(x, lo, hi) == AtLeast(AtMost(x, hi), lo)

\* C division: the quotient is cut towards zero
Quot(a, b) == IF a >= 0 THEN a \div b ELSE -((-a) \div b)

\* c * (10^6 + ppm) / 10^6, the product split at 1000 to stay small
Scaled(c, ppm) ==
  LET part(n) == n + ((n \div 1000) * ppm + ((n % 1000) * ppm) \div 1000) \div 1000
  IN  IF c < 0 THEN -part(-c) ELSE part(c)

---------------------------------------------------------------------------
(* Register tables.                                                       *)

RangeTable ==
  [ICHG    |-> [min |-> 0,       max |-> 5056000,  step |-> 64000],
   ITERM   |-> [min |-> 64000,   max |-> 1024000,  step |-> 64000],
   IINLIM  |-> [min |-> 100000,  max |-> 3250000,  step |-> 50000],
   VREG    |-> [min |-> 3840000, max |-> 4608000,  step |-> 16000],
   BOOSTV  |-> [min |-> 4550000, max |-> 5510000,  step |-> 64000],
   SYSVMIN |-> [min |-> 3000000, max |-> 3700000,  step |-> 100000],
   VBUSV   |-> [min |-> 2600000, max |-> 15300000, step |-> 100000],
   VBATCOMP |-> [min |-> 0,      max |-> 224000,   step |-> 32000],
   RBATCOMP |-> [min |-> 0,      max |-> 140000,   step |-> 20000]]

LookupTable ==
  [TREG   |-> <<60, 80, 100, 120>>,
   BOOSTI |-> <<500000, 700000, 1100000, 1300000, 1600000, 1800000, 2100000, 2400000>>]

TopIdx(r) == (r.max - r.min) \div r.step

FindIdxUnsigned(value, r) ==
  IF value < r.min THEN 0 ELSE AtMost((value - r.min) \div r.step, TopIdx(r))

\* the parameter is a u32: a negative int is larger than every entry
FindIdx(value, id) ==
  LET r == RangeTable[id]
  IN  IF value < 0 THEN TopIdx(r) ELSE FindIdxUnsigned(value, r)

FindIdxLookup(value, id) ==
  LET t == LookupTable[id]
      below == {i \in 1..Len(t) - 1 : \A j \in 1..i : t[j + 1] <= value}
  IN  IF value < 0 THEN Len(t) - 1 ELSE Max(below \cup {0})

FindVal(idx, id) == RangeTable[id].min + idx * RangeTable[id].step

BatvUv(code) == 2304000 + code * 20000
IchgrUa(code) == code * 50000

---------------------------------------------------------------------------
(* The rest OCV curve: <<centivolts, percent>>, lowest voltage first.     *)

OcvTable == <<
  <<334, 2>>, <<335, 4>>, <<337, 6>>, <<338, 7>>, <<339, 8>>, <<340, 9>>, <<341, 10>>,
  <<342, 11>>, <<343, 18>>, <<344, 18>>, <<345, 21>>, <<346, 21>>, <<347, 22>>,
  <<348, 24>>, <<349, 27>>, <<350, 28>>, <<351, 29>>, <<352, 30>>, <<353, 31>>,
  <<355, 33>>, <<356, 35>>, <<357, 39>>, <<358, 41>>, <<359, 42>>, <<360, 43>>,
  <<361, 45>>, <<363, 48>>, <<365, 51>>, <<366, 51>>, <<367, 53>>, <<369, 54>>,
  <<370, 55>>, <<371, 56>>, <<373, 60>>, <<374, 60>>, <<375, 63>>, <<377, 63>>,
  <<378, 65>>, <<379, 65>>, <<380, 73>>, <<381, 73>>, <<383, 76>>, <<384, 77>>,
  <<385, 78>>, <<386, 81>>, <<387, 83>>, <<388, 86>>, <<389, 88>>, <<390, 88>>,
  <<391, 89>>, <<392, 92>>, <<393, 93>>, <<395, 94>>, <<399, 96>>, <<407, 97>>,
  <<413, 98>>, <<418, 100>> >>

OcvVolts(i) == OcvTable[i][1]
OcvSoc(i) == OcvTable[i][2]

LipoPct(uv) ==
  LET v == Quot(uv, 10000)
      last == Len(OcvTable)
      i == Max({k \in 1..last : OcvVolts(k) <= v} \cup {1})
  IN  IF v <= OcvVolts(1) THEN 0
      ELSE IF v >= OcvVolts(last) THEN 100
      ELSE OcvSoc(i) + ((v - OcvVolts(i)) * (OcvSoc(i + 1) - OcvSoc(i)))
                         \div (OcvVolts(i + 1) - OcvVolts(i))

---------------------------------------------------------------------------
(* INA228.  Registers are given by their signed 20-bit value.             *)

LsbNa(max_current_ua) == AtLeast(((max_current_ua \div 64) * 125) \div 1024, 1)

CurrentUa(signed20, lsb) == Quot(signed20 * lsb + 500, 1000)
DietempMdeg(s16) == Quot(s16 * 125, 16)

TempCorrection(calib, now, tcr) ==
  Clamp(Quot((now - calib) * tcr, 1000), -100000, 100000)

\* the exponential average, and what it leaves alone inside the dead zone
FilterStep(f, sample, alpha, deadzone) ==
  IF f.filtered = 0 /\ f.last = 0
  THEN [f EXCEPT !.filtered = sample, !.last = sample]
  ELSE IF Abs(sample - f.last) < deadzone THEN [f EXCEPT !.last = sample]
  ELSE [f EXCEPT !.filtered = IF alpha >= 1000 THEN sample
                              ELSE Quot(alpha * sample + (1000 - alpha) * f.filtered, 1000),
                 !.last = sample]

\* moves a towards b by dt / (tau + dt), cut towards a
Approach(a, b, dt, tau) == a + Quot((b - a) * dt, tau + dt)
=============================================================================
