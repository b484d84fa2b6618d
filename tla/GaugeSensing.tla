---------------------------- MODULE GaugeSensing ----------------------------
(***************************************************************************)
(* What FuelGauge takes as given, computed: the smoothed voltage, the rest *)
(* voltage, the INA228 readings, the charge they move and the slow drift   *)
(* correction of battery/bq25890_battery.c.  Every Sample is one run of    *)
(* bq25890_sample_and_update_fg; a longer gap before it is a run of        *)
(* samples that failed on the bus and changed nothing.  Jiffies are kept   *)
(* as the seconds that passed since; the driver's zero initial stamps are  *)
(* "now", which shifts the first ten minutes after boot.                   *)
(***************************************************************************)
EXTENDS BatteryMath

CONSTANTS
  Full,        \* charge_full_uah
  Samples,     \* register readings a sample may meet, see SampleShape
  Gaps,        \* seconds since the last successful sample
  Seeds,       \* coulomb_uah written by userspace at boot; -1 for no write
  Asked,       \* <<property, value>> that userspace may write
  IchgMax,     \* init_data.ichg
  VregMax,     \* init_data.vreg
  LowPersist,  \* low_v_persistent_count
  MaxSamples   \* bound on the samples of a behaviour

LowMax == 20   \* BQ25890_FG_LOW_V_COUNT_MAX

SampleShape ==
  [code : 0..127, ina : -160000..160000, temp : -32768..32767, ichgr : 0..127,
   ext : BOOLEAN, done : BOOLEAN]

ASSUME SensingAssumption ==
  Full \in 1..2000000 /\ MaxSamples \in Nat /\ LowPersist \in 1..LowMax

ASSUME InputAssumption ==
  Samples \subseteq SampleShape /\ Gaps \subseteq 0..1200 /\ Seeds \subseteq -1..Full

ASSUME SettingAssumption ==
  /\ IchgMax \in 0..79 /\ VregMax \in 0..48
  /\ Asked \subseteq {"ICHG", "VREG", "IINLIM"} \X Int

\* the order the comment at :855 asks of the curve
ASSUME CurveAssumption ==
  \A i \in 1..Len(OcvTable) - 1 : OcvVolts(i) < OcvVolts(i + 1) /\ OcvSoc(i) <= OcvSoc(i + 1)

\* writing back what was read changes no register
ASSUME TableAssumption ==
  /\ \A id \in DOMAIN RangeTable : \A k \in 0..TopIdx(RangeTable[id]) : FindIdx(FindVal(k, id), id) = k
  /\ \A id \in DOMAIN LookupTable : \A k \in 1..Len(LookupTable[id]) :
       FindIdxLookup(LookupTable[id][k], id) = k - 1

VARIABLES
  volt,     \* batv_smoothed_uv, seconds since it moved, load-glitch seconds left, fg_v_ocv_uv
  ina,      \* current_ua, filtered and last filtered current, calibration temperature, ppm
  drift,    \* drift_accum_ppb, drift_correction_ppm, seconds since drift_check_jiffies
  counter,  \* fg_disch_remain_uah, last_disch_remain_nah, seconds since fg_disch_jiffies
  chg,      \* chg_remain_uah >= 0 and chg_added_uah
  soc,      \* capacity_cache, capacity_valid
  mode,     \* fg_mode
  quiet,    \* seconds since fg_load_jiffies
  low,      \* fg_low_v_count
  ext, charging,   \* last_ext_pwr, last_charging
  input,    \* the registers the last sample read, and the gap before it
  regs,     \* the F_ICHG, F_VREG and F_IINLIM fields
  asked,    \* the last property write
  n         \* samples taken

gvars == <<volt, ina, drift, counter, chg, soc, mode, quiet, low, ext, charging, input, regs, asked, n>>

TauV == 20            \* BQ25890_FG_V_TAU_SEC
TauOcv == 60          \* fg_v_ocv_tau_sec with an INA228 bound
GlitchSec == 5        \* BQ25890_FG_LOAD_GLITCH_SEC
RestMin == 3150000    \* BQ25890_BATV_REST_MIN_UV
RestSec == 300        \* rest_min_sec
LowV == 3200000       \* BQ25890_FG_LOW_V_THRESH_UV
LowRecover == 3350000 \* BQ25890_FG_LOW_V_RECOVER_UV
IdleUa == 50000       \* BQ25890_FG_DRIFT_IDLE_UA
ChargeMinUa == 100000 \* BQ25890_CHARGE_CURRENT_MIN_UA
IrMohm == 180         \* batt_ir_mohm
PolarUv == 50000      \* BQ25890_FG_CHG_POLAR_UV
DriftAgeMax == 1200   \* bound on the age of a drift check

Floor(uv) == uv >= 2304000 /\ uv <= 2344000   \* batv_is_adc_floor
PctUah(pct) == (pct * Full) \div 100
UahPct(uah) == Clamp((uah * 100) \div Full, 0, 100)

---------------------------------------------------------------------------
(* The trackers of one sample.  Each takes the old record and returns the *)
(* new one.                                                               *)

Aged(v, gap) == [v EXCEPT !.since = AtMost(@ + gap, TauOcv),
                          !.glitch = AtLeast(@ - gap, 0)]

Loaded(v) == [v EXCEPT !.glitch = GlitchSec]
Moved(v, uv) == [v EXCEPT !.smoothed = uv, !.since = 0]

\* bq25890_update_smoothed_batv_locked; the arms are its returns, in order
SmoothArms(v, raw, reseed, held) ==
  LET noted == IF Floor(raw) THEN Loaded(v) ELSE v
      loaded == IF v.smoothed - raw > v.smoothed \div 16 /\ raw > RestMin
                THEN Loaded(noted) ELSE noted
      near == Approach(v.smoothed, raw, AtMost(v.since, TauV), TauV)
  IN  IF held THEN noted
      ELSE IF reseed \/ v.smoothed <= 0 THEN Moved(noted, raw)
      ELSE IF Floor(raw) /\ v.smoothed > 2800000 THEN noted
      ELSE IF raw - v.smoothed > 350000 THEN Moved(loaded, raw)
      ELSE IF v.since < 1 \/ (Floor(raw) /\ v.smoothed - raw > 350000) THEN loaded
      ELSE Moved(loaded, near)

SmoothReseedFirst(v, raw, reseed) ==
  SmoothArms(v, raw, reseed, ~reseed /\ Floor(raw) /\ v.smoothed > RestMin)
Smooth(v, raw, reseed) == SmoothArms(v, raw, reseed, Floor(raw) /\ v.smoothed > RestMin)

\* bq25890_update_v_ocv_locked, with v already smoothed
OcvTracked(v, reseed) ==
  LET dt == IF v.glitch = 0 THEN 1 ELSE AtMost(v.since, TauOcv)
  IN  IF reseed \/ v.ocv <= 0 THEN v.smoothed
      ELSE IF dt < 1 THEN v.ocv
      ELSE Approach(v.ocv, v.smoothed, dt, TauOcv)
WithOcv(v) == [v EXCEPT !.ocv = OcvTracked(v, FALSE)]

\* bq25890_ina228_refresh_locked; a temperature below zero reads as an error
Refresh(i, r) ==
  LET read == [i EXCEPT !.current = CurrentUa(r.ina, LsbNa(6400000))]
      mdeg == DietempMdeg(r.temp)
      calib == IF i.calib = 0 THEN mdeg ELSE i.calib
      ppm == TempCorrection(calib, mdeg, 100)
      f == FilterStep([filtered |-> i.filtered, last |-> i.last],
                      Scaled(read.current, ppm), 250, 10)
  IN  IF r.temp < 0 THEN read
      ELSE [read EXCEPT !.calib = calib, !.ppm = ppm, !.filtered = f.filtered,
                        !.last = f.last, !.shown = f.filtered]

\* bq25890_fg_integrate_ina228_locked
BaseNah(c) == IF c.uah = 0 THEN 0 ELSE IF c.nah = 0 THEN 1000 * c.uah ELSE c.nah
Integrate(c, i, ppm) ==
  LET ua == Scaled(i.current, i.ppm)
      delta == (Abs(Scaled(ua, ppm)) * AtMost(c.age, 60) * 5) \div 18
      nah == IF ua > 0 THEN AtLeast(BaseNah(c) - delta, 0)
             ELSE AtMost(BaseNah(c) + delta, 1000 * Full)
  IN  IF ua = 0 \/ c.uah < 0 \/ c.age = 0 THEN c
      ELSE IF delta = 0 THEN [c EXCEPT !.age = 0]
      ELSE [uah |-> Clamp((nah + 500) \div 1000, 0, Full), nah |-> nah, age |-> 0]

\* bq25890_fg_check_drift_correction; ppb is parts per 10^9 of the current
DriftChecked(d, c, smoothed) ==
  LET gap == UahPct(c.uah) - LipoPct(smoothed)
      step == 10 * 1000 * AtLeast(d.age \div 60, 1)
      accum == IF gap > 0 THEN AtMost(d.accum + step, gap * 1000000)
               ELSE AtLeast(d.accum - step, gap * 1000000)
  IN  IF d.age < 300 THEN d
      ELSE IF Abs(gap) < 5 THEN [d EXCEPT !.age = 0]
      ELSE [accum |-> accum, ppm |-> Clamp(Quot(accum, 1000), -50000, 50000), age |-> 0]

---------------------------------------------------------------------------
(* One sample.                                                            *)

\* bq25890_fg_charge_begin: the seed of a charge session
ChargeSeed(v, r) ==
  LET at == v.smoothed - (IchgrUa(r.ichgr) * IrMohm) \div 1000 - PolarUv
      curve == IF at < 0 THEN 50 ELSE LipoPct(at)
      pct == IF ~soc.valid THEN curve
             ELSE IF soc.cache + 15 < curve THEN curve - 10 ELSE soc.cache
  IN  PctUah(Clamp(pct, 0, 99))

\* bq25890_fg_charge_integrate
ChargeAdded(g, r) ==
  IF g.age = 0 THEN g
  ELSE [g EXCEPT !.added = @ + (IchgrUa(r.ichgr) * AtMost(g.age, 60)) \div 3600, !.age = 0]

NoSession == [remain |-> -1, added |-> 0, age |-> 0]

\* bq25890_fg_ensure_remain_seeded_locked
Seeded(c, v) ==
  IF c.uah >= 0 THEN c
  ELSE LET u == PctUah(LipoPct(v.smoothed)) IN [uah |-> u, nah |-> 1000 * u, age |-> 0]
SeededSoc(c, v) ==
  IF c.uah >= 0 \/ soc.valid THEN soc ELSE [cache |-> LipoPct(v.smoothed), valid |-> TRUE]

LowCount(raw) ==
  IF raw <= LowV THEN AtMost(low + 1, LowMax)
  ELSE IF raw >= LowRecover THEN AtLeast(low - 2, 0) ELSE low

ChargingNow(r) ==
  r.ext /\ ~r.done /\ (IchgrUa(r.ichgr) >= ChargeMinUa \/ ina.shown < -50000)

Terminal(v, c) ==
  /\ mode' = "CHARGING_DONE"
  /\ chg' = NoSession
  /\ counter' = [c EXCEPT !.uah = Full, !.age = 0]
  /\ volt' = v
  /\ soc' = [cache |-> 100, valid |-> TRUE]
  /\ UNCHANGED drift

Charge(r, v, i, c, d, g) ==
  LET session == IF ext /\ chg.remain >= 0 THEN g
                 ELSE [remain |-> ChargeSeed(v, r), added |-> 0, age |-> 0]
  IN  /\ mode' = "CHARGING"
      /\ chg' = ChargeAdded(session, r)
      /\ counter' = Integrate(c, i, d.ppm)
      /\ volt' = WithOcv(v)
      /\ soc' = [cache |-> UahPct(counter'.uah), valid |-> TRUE]
      /\ drift' = d

Hold(v, c, d, s, g) ==
  /\ mode' = "CHARGING"
  /\ counter' = c
  /\ volt' = WithOcv(v)
  /\ soc' = s
  /\ drift' = d
  /\ chg' = g

\* the curve may lower the first resting SOC, one percent for each minute
Rested(v, s, out, gap) ==
  AtMost(AtLeast(LipoPct(v.smoothed), s.cache - AtLeast(gap \div 60, 1)), out)

LowGuard(count, v, out) ==
  IF count >= LowPersist /\ 1 < out /\ v.smoothed > RestMin THEN 1 ELSE out

Discharge(v, i, c, d, s, gap) ==
  LET resting == quiet' > RestSec
      moved == Integrate(c, i, d.ppm)
      out == UahPct(moved.uah)
      rested == IF resting /\ mode # "RESTING" THEN Rested(v, s, out, gap) ELSE out
  IN  /\ mode' = IF resting THEN "RESTING" ELSE "ACTIVE"
      /\ chg' = IF ext THEN NoSession ELSE chg
      /\ counter' = moved
      /\ drift' = IF resting /\ Abs(i.shown) <= IdleUa
                  THEN DriftChecked(d, moved, v.smoothed) ELSE d
      /\ volt' = WithOcv(v)
      /\ soc' = [cache |-> LowGuard(low', v, rested), valid |-> TRUE]

\* bq25890_sample_and_update_fg
Sample(r, gap) ==
  LET v == Smooth(Aged(volt, gap), BatvUv(r.code), ext # r.ext)
      i == Refresh(ina, r)
      c == Seeded([counter EXCEPT !.age = AtMost(@ + gap, 60)], v)
      d == [drift EXCEPT !.age = AtMost(@ + gap, DriftAgeMax)]
      s == SeededSoc(counter, v)
      g == [chg EXCEPT !.age = AtMost(@ + gap, 60)]
  IN  /\ n < MaxSamples
      /\ n' = n + 1
      /\ input' = [r |-> r, gap |-> gap]
      /\ ina' = i
      /\ low' = LowCount(BatvUv(r.code))
      /\ quiet' = IF v.glitch > 0 THEN 0 ELSE AtMost(quiet + gap, RestSec + 1)
      /\ ext' = r.ext /\ charging' = ChargingNow(r)
      /\ \/ r.ext /\ r.done /\ Terminal(v, c)
         \/ r.ext /\ ~r.done /\ ChargingNow(r) /\ Charge(r, v, i, c, d, g)
         \/ r.ext /\ ~r.done /\ ~ChargingNow(r) /\ Hold(v, c, d, s, g)
         \/ ~r.ext /\ Discharge(v, i, c, d, s, gap)
      /\ UNCHANGED <<regs, asked>>

---------------------------------------------------------------------------
(* Property writes.                                                       *)

CappedLoose(p, value) == value
Capped(p, value) ==
  CASE p = "ICHG" -> AtMost(value, FindVal(IchgMax, "ICHG"))
    [] p = "VREG" -> AtMost(value, FindVal(VregMax, "VREG"))
    [] p = "IINLIM" -> value

\* bq25890_power_supply_set_property
SetProperty(p, value) ==
  /\ asked = <<>>
  /\ asked' = <<p, value>>
  /\ regs' = [regs EXCEPT ![p] = FindIdx(Capped(p, value), p)]
  /\ UNCHANGED <<volt, ina, drift, counter, chg, soc, mode, quiet, low, ext, charging, input, n>>

GInit ==
  /\ volt = [smoothed |-> 0, since |-> 0, glitch |-> 0, ocv |-> 0]
  /\ ina = [current |-> 0, filtered |-> 0, last |-> 0, calib |-> 0, ppm |-> 0, shown |-> 0]
  /\ drift = [accum |-> 0, ppm |-> 0, age |-> 0]
  /\ \E u \in Seeds :
       /\ counter = [uah |-> u, nah |-> IF u < 0 THEN 0 ELSE 1000 * u, age |-> 0]
       /\ soc = IF u < 0 THEN [cache |-> 0, valid |-> FALSE]
                ELSE [cache |-> UahPct(u), valid |-> TRUE]
  /\ chg = NoSession
  /\ mode = "UNKNOWN" /\ quiet = 0 /\ low = 0
  /\ ext = FALSE /\ charging = FALSE
  /\ input = [r |-> CHOOSE r \in Samples : TRUE, gap |-> 0]
  /\ regs = [ICHG |-> IchgMax, VREG |-> VregMax, IINLIM |-> 8]
  /\ asked = <<>> /\ n = 0

GNext ==
  \/ \E r \in Samples, gap \in Gaps : Sample(r, gap)
  \/ \E a \in Asked : SetProperty(a[1], a[2])

GSpec == GInit /\ [][GNext]_gvars

---------------------------------------------------------------------------
(* Properties.                                                            *)

(* A reading stuck at the ADC floor is "a bad sample, not a real collapse": *)
(* it never lowers a smoothed voltage above 3.15 V, on a plug change either, *)
(* and the first resting sample never takes it for the rest voltage.         *)
FloorNeverSags ==
  [][n' # n /\ Floor(BatvUv(input'.r.code)) /\ volt.smoothed > RestMin =>
       volt'.smoothed = volt.smoothed /\ mode' # "RESTING"]_gvars

(* A current or voltage that userspace asks for (a number the register can  *)
(* hold) is never exceeded, is missed by less than one step, and stays      *)
(* within the device tree's maximum.                                        *)
DtMax == [ICHG |-> FindVal(IchgMax, "ICHG"), VREG |-> FindVal(VregMax, "VREG"),
          IINLIM |-> RangeTable["IINLIM"].max]
SettingHonoured ==
  \A p \in DOMAIN regs :
    asked # <<>> /\ asked[1] = p /\ asked[2] >= RangeTable[p].min =>
      LET want == AtMost(asked[2], DtMax[p])
          have == FindVal(regs[p], p)
      IN  have <= want /\ want < have + RangeTable[p].step

=============================================================================
