------------------------------ MODULE FuelGauge ------------------------------
(***************************************************************************)
(* The software fuel gauge of battery/bq25890_battery.c: the state that is *)
(* kept under bq->lock and the operations that change it.  Every action is *)
(* one critical section of that lock; FuelGaugeThreads adds the threads    *)
(* that run them and what those threads do between critical sections.      *)
(*                                                                         *)
(* Voltages are abstracted to the percentage the OCV table gives for them  *)
(* (calc_lipo_percentage), a failed BATV read to ReadError.  Currents and  *)
(* elapsed times only matter through the charge they move, so a sample     *)
(* takes that charge from a small set: Moves (signed nAh, INA228) or       *)
(* ProxyDrops (uAh).  Timers (rest_min_sec, the load-glitch window, the    *)
(* minutes since the last sample) are the booleans and bounds they gate.   *)
(***************************************************************************)
EXTENDS Integers

CONSTANTS
  Full,          \* charge_full_uah, in uAh
  OcvPcts,       \* percentages the OCV table can return
  Moves,         \* nAh that the INA228 integrator moves in a sample; > 0 discharges
  ProxyDrops,    \* uAh that the proxy integrator removes in a sample
  RestDrops,     \* max_drop of a first resting sample: 1 %/min times dt_min
  MaxMove,       \* bound of Moves and ProxyDrops, in uAh
  MaxRestDrop,   \* bound of RestDrops
  LowVPersist,   \* low_v_persistent_count
  LowVMax,       \* BQ25890_FG_LOW_V_COUNT_MAX
  InaFitted,     \* an INA228 answers at probe
  BatvFails,     \* a BATV register read may fail
  VbusSteady     \* both VBUSV reads of a sample return the same side of 4 V

ASSUME FullAssumption == Full \in Nat \ {0}
ASSUME OcvAssumption == OcvPcts \subseteq 0..100 /\ OcvPcts # {}
ASSUME MovesAssumption ==
  MaxMove \in Nat /\ Moves \subseteq (-1000 * MaxMove)..(1000 * MaxMove)
ASSUME DropsAssumption ==
  MaxRestDrop \in Nat /\ ProxyDrops \subseteq 0..MaxMove /\ RestDrops \subseteq 0..MaxRestDrop
ASSUME LowVAssumption == LowVPersist \in Nat /\ LowVMax \in Nat
ASSUME SwitchAssumption ==
  {InaFitted, BatvFails, VbusSteady} \subseteq BOOLEAN

VARIABLES
  cell,            \* what the OCV table says of the voltage BATV shows now
  capacity_cache, capacity_valid,
  last_ext_pwr, last_charging,
  fg_mode,         \* fg_mode and last_fg_mode: equal whenever the lock is free
  chrg_done,       \* bq->state.chrg_status = STATUS_TERMINATION_DONE
  chg_session,     \* chg_remain_uah >= 0: a charge session is being counted
  remain,          \* fg_disch_remain_uah; -1 = never seeded
  nah,             \* ina228->last_disch_remain_nah
  low_v_count,     \* fg_low_v_count
  fg_user_seeded,
  ina228,          \* bq->ina228 && bq->ina228->present
  ina228_enabled,
  ina228_off,      \* history bit: ina228_enabled has been 0 at some time
  seed_gen         \* history bit, flipped by every write of coulomb_uah

published == <<capacity_cache, capacity_valid>>
power     == <<last_ext_pwr, last_charging, fg_mode, chrg_done, chg_session>>
counter   == <<remain, nah>>
config    == <<ina228, ina228_enabled, ina228_off>>
seeding   == <<fg_user_seeded, seed_gen>>
vars == <<cell, published, power, counter, low_v_count, config, seeding>>

ReadError == -1

FgModes == {"UNKNOWN", "CHARGING", "CHARGING_DONE",
            "DISCHARGING_ACTIVE", "DISCHARGING_RESTING"}

\* calc_lipo_percentage: any negative voltage is below the table, hence 0 %.
OcvPct(v) == IF v < 0 THEN 0 ELSE v

PctToUah(p) == (p * Full) \div 100

\* remain_uah * 100 / charge_full_uah, clamped to 0..100.
UahToPct(r) ==
  LET pct == (r * 100) \div Full
  IN IF pct < 0 THEN 0 ELSE IF pct > 100 THEN 100 ELSE pct

MinOf(a, b) == IF a < b THEN a ELSE b
MaxOf(a, b) == IF a > b THEN a ELSE b

\* What one read of the BATV register may return.
BatvReads == {cell} \cup IF BatvFails THEN {ReadError} ELSE {}

Integrating == ina228 /\ ina228_enabled

-----------------------------------------------------------------------------
(* The two discharge integrators. *)

\* Where bq25890_fg_integrate_ina228_locked starts counting from.
BaseNah(r, n) == IF r = 0 THEN 0 ELSE IF n = 0 THEN 1000 * r ELSE n

MovedNah(r, n, move) ==
  MaxOf(0, MinOf(1000 * Full, BaseNah(r, n) - move))

\* Mutant: the new accumulator value is not stored.
IntegratedNahLost(r, n, move) == n

\* Nothing is counted before the counter is seeded, at zero current, or when
\* the sample follows the previous one within 0.1 s (move = 0).
IntegratedNah(r, n, move) ==
  IF r < 0 \/ move = 0 THEN n ELSE MovedNah(r, n, move)

IntegratedUah(r, n, move) ==
  IF r < 0 \/ move = 0 THEN r ELSE (MovedNah(r, n, move) + 500) \div 1000

ProxyUah(r, drop) == IF r < 0 THEN r ELSE MaxOf(0, r - drop)

-----------------------------------------------------------------------------
(* The estimator, bq25890_sample_and_update_fg.  Each branch of its mode   *)
(* selection is an action; what precedes the selection is shared.          *)

\* Mutant: a tracked counter is seeded again.
SeedsAlways(v) == ~fg_user_seeded /\ v >= 0

\* bq25890_fg_ensure_remain_seeded_locked(v): v is the smoothed voltage, or
\* the terminal voltage when the former could not be read.
Seeds(v) == ~fg_user_seeded /\ remain < 0 /\ v >= 0

SeededUah(v) == IF Seeds(v) THEN PctToUah(v) ELSE remain
SeededNah(v) == IF Seeds(v) /\ ina228 THEN 1000 * PctToUah(v) ELSE nah
SeededValid(v) == capacity_valid \/ Seeds(v)

SeededCache(v) ==
  IF Seeds(v) /\ ~capacity_valid THEN v ELSE capacity_cache

\* Mutant: the counter is not capped.
LowVCountsUncapped(vt) ==
  IF vt < 0 THEN {low_v_count} ELSE {low_v_count, low_v_count + 1}

\* The persistent-low-voltage counter: up by one at or below 3.2 V, down by
\* two at or above 3.35 V, unchanged between them and on a failed read.
LowVCounts(vt) ==
  IF vt < 0 THEN {low_v_count}
  ELSE {low_v_count, MinOf(low_v_count + 1, LowVMax), MaxOf(low_v_count - 2, 0)}

CountLowV(vt) == low_v_count' \in LowVCounts(vt)

Publish(soc) ==
  /\ capacity_cache' = IF soc < 0 THEN 0 ELSE IF soc > 100 THEN 100 ELSE soc
  /\ capacity_valid' = TRUE

\* What a sample never writes.
SampleFrame == UNCHANGED <<cell, config, seeding>>

\* Charge terminated with the adapter present: the counter is set to full.
SampleDone(vs, vt) ==
  LET v == IF vs >= 0 THEN vs ELSE vt IN
  /\ CountLowV(vt)
  /\ fg_mode' = "CHARGING_DONE"
  /\ chg_session' = FALSE
  /\ remain' = Full
  /\ nah' = SeededNah(v)
  /\ Publish(100)
  /\ last_ext_pwr' = TRUE /\ last_charging' = FALSE /\ chrg_done' = TRUE
  /\ SampleFrame

\* Current flows into the cell: a charge session is opened when the adapter
\* has just come or none is open, and the INA228 integrator runs.
SampleCharging(vs, vt, move) ==
  LET v == IF vs >= 0 THEN vs ELSE vt
      r == SeededUah(v)
      n == SeededNah(v)
      i == IF Integrating THEN move ELSE 0
  IN
  /\ CountLowV(vt)
  /\ fg_mode' = "CHARGING"
  /\ chg_session' = TRUE
  /\ remain' = IntegratedUah(r, n, i)
  /\ nah' = IntegratedNah(r, n, i)
  /\ Publish(IF remain' >= 0 THEN UahToPct(remain')
             ELSE IF capacity_valid THEN capacity_cache ELSE 50)
  /\ last_ext_pwr' = TRUE /\ last_charging' = TRUE /\ chrg_done' = FALSE
  /\ SampleFrame

\* Adapter present, no charge current: the last SOC is held.  `done' can
\* only be reported here by a sample that SampleDone does not take, so it is
\* FALSE.
SampleHold(vs, vt) ==
  LET v == IF vs >= 0 THEN vs ELSE vt
      r == SeededUah(v)
      p == OcvPct(vs)
  IN
  /\ CountLowV(vt)
  /\ fg_mode' = "CHARGING"
  /\ UNCHANGED chg_session
  /\ remain' = IF r < 0 THEN PctToUah(p) ELSE r
  /\ nah' = SeededNah(v)
  /\ Publish(IF r < 0 THEN p
             ELSE IF SeededValid(v) THEN SeededCache(v) ELSE UahToPct(r))
  /\ last_ext_pwr' = TRUE /\ last_charging' = FALSE /\ chrg_done' = FALSE
  /\ SampleFrame

\* Mutants: the drop is not limited; the SOC may rise above the counter.
RestedSocUnlimited(soc_in, soc_out, ocv, drop) == MinOf(soc_out, ocv)
RestedSocRaised(soc_in, soc_out, ocv, drop) == MaxOf(ocv, soc_in - drop)

\* The first resting sample may lower the SOC toward the OCV table, by at
\* most drop below the last published value.
RestedSoc(soc_in, soc_out, ocv, drop) ==
  MinOf(soc_out, MaxOf(ocv, soc_in - drop))

\* The first sample after the adapter is gone closes the charge session.
SessionOnBattery == chg_session /\ ~last_ext_pwr

\* On battery.  `charging' is TRUE only when the second VBUSV read of the
\* sample, the one is_actively_charging makes, saw the adapter and the first
\* did not.
SampleDischarging(vs, vt, move, proxy, rested, drop, done, charging, low_ok) ==
  LET v == IF vs >= 0 THEN vs ELSE vt
      r == SeededUah(v)
      n == SeededNah(v)
      i == IF Integrating THEN move ELSE 0
      r1 == IF Integrating THEN IntegratedUah(r, n, i) ELSE ProxyUah(r, proxy)
      n1 == IntegratedNah(r, n, i)
      p == OcvPct(vs)
      soc_in == IF r1 < 0 THEN p ELSE SeededCache(v)
      soc == UahToPct(remain')
      settled == IF rested /\ fg_mode # "DISCHARGING_RESTING"
                 THEN RestedSoc(soc_in, soc, p, drop) ELSE soc
  IN
  /\ ~(done /\ charging)
  /\ CountLowV(vt)
  /\ fg_mode' = IF rested THEN "DISCHARGING_RESTING" ELSE "DISCHARGING_ACTIVE"
  /\ chg_session' = SessionOnBattery
  /\ remain' = IF r1 < 0 THEN PctToUah(p) ELSE r1
  /\ nah' = IF r1 < 0 /\ ina228 THEN 1000 * PctToUah(p) ELSE n1
  /\ Publish(IF LowVPersist > 0 /\ low_v_count' >= LowVPersist /\ low_ok
                /\ vs >= 0
             THEN MinOf(1, settled) ELSE settled)
  /\ last_ext_pwr' = FALSE /\ last_charging' = charging /\ chrg_done' = done
  /\ SampleFrame

SecondRead == IF VbusSteady THEN {FALSE} ELSE BOOLEAN

\* An I2C error before or while the chip state is read leaves everything as
\* it was: the sample returns an error and is a stuttering step here.
Sample ==
  \E vs \in BatvReads, vt \in BatvReads :
    \/ SampleDone(vs, vt)
    \/ \E move \in Moves : SampleCharging(vs, vt, move)
    \/ SampleHold(vs, vt)
    \/ \E move \in Moves, proxy \in ProxyDrops, drop \in RestDrops,
          rested, done, low_ok \in BOOLEAN,
          charging \in SecondRead :
         SampleDischarging(vs, vt, move, proxy, rested, drop, done,
                           charging, low_ok)

-----------------------------------------------------------------------------
(* The other critical sections of bq->lock, and the environment. *)

\* First half of bq25890_capacity_calibrate_work; its second half samples.
CalibrateSeed ==
  /\ ~fg_user_seeded /\ remain < 0 /\ ~last_charging /\ ~last_ext_pwr
  /\ \E v \in BatvReads :
       /\ v >= 0
       /\ remain' = PctToUah(v)
       /\ nah' = IF ina228 THEN 1000 * PctToUah(v) ELSE nah
  /\ UNCHANGED <<cell, published, power, low_v_count, config, seeding>>

StoredUah(uah) == MaxOf(0, MinOf(uah, Full))

\* bq25890_fg_store_coulomb_uah: userspace (pibrick-battery-load-soc.sh,
\* battery_set.py) writes the counter.  The value is clamped to 0..Full.
StoreCoulomb(uah) ==
  /\ remain' = StoredUah(uah)
  /\ nah' = IF ina228 THEN 1000 * remain' ELSE nah
  /\ capacity_cache' = UahToPct(remain') /\ capacity_valid' = TRUE
  /\ fg_user_seeded' = TRUE /\ seed_gen' = ~seed_gen
  /\ UNCHANGED <<cell, power, low_v_count, config>>

\* Mutant: the withdrawn SOC stays in the cache.
ResetSocKeepsCache ==
  /\ capacity_valid' = FALSE
  /\ UNCHANGED <<cell, capacity_cache, power, counter, low_v_count, config, seeding>>

\* bq25890_fg_reset_soc_store with value 1.
ResetSoc ==
  /\ capacity_valid' = FALSE /\ capacity_cache' = 0
  /\ UNCHANGED <<cell, power, counter, low_v_count, config, seeding>>

\* bq25890_ina228_probe runs after the power supplies and coulomb_uah have
\* been registered, so samples and writes may precede it.
Ina228Probe ==
  /\ InaFitted /\ ~ina228
  /\ ina228' = TRUE /\ nah' = 0
  /\ UNCHANGED <<cell, published, power, remain, low_v_count, ina228_enabled,
                 ina228_off, seeding>>

\* The ina228_enabled module parameter is writable at run time.
SetIna228Enabled ==
  /\ ina228_enabled' = ~ina228_enabled
  /\ ina228_off' = TRUE
  /\ UNCHANGED <<cell, published, power, counter, low_v_count, ina228, seeding>>

\* The IRQ thread (__bq25890_handle_irq) and bq25890_resume store a chip
\* state of their own; only the sample that follows updates the rest.
CacheChipState ==
  /\ chrg_done' \in BOOLEAN
  /\ UNCHANGED <<cell, published, last_ext_pwr, last_charging, fg_mode,
                 chg_session, counter, low_v_count, config, seeding>>

CellMoves ==
  /\ cell' \in OcvPcts
  /\ UNCHANGED <<published, power, counter, low_v_count, config, seeding>>

\* coulomb_uah is written with values above the range, at its ends and inside.
Stores == {-1, 0, Full, Full + 1} \cup {PctToUah(p) : p \in OcvPcts}

Init ==
  /\ cell \in OcvPcts
  /\ capacity_cache = 0 /\ capacity_valid = FALSE
  /\ last_ext_pwr = FALSE /\ last_charging = FALSE /\ fg_mode = "UNKNOWN"
  /\ chrg_done \in BOOLEAN /\ chg_session = FALSE
  /\ remain = -1 /\ nah = 0
  /\ low_v_count = 0 /\ fg_user_seeded = FALSE
  /\ ina228 = FALSE /\ ina228_enabled \in BOOLEAN /\ ina228_off = ~ina228_enabled
  /\ seed_gen = FALSE

Next ==
  \/ Sample
  \/ CalibrateSeed
  \/ \E uah \in Stores : StoreCoulomb(uah)
  \/ ResetSoc
  \/ Ina228Probe
  \/ SetIna228Enabled
  \/ CacheChipState
  \/ CellMoves

Spec == Init /\ [][Next]_vars

-----------------------------------------------------------------------------
(* Properties. *)

\* Every variable keeps its range: the counter stays in -1..charge_full_uah,
\* the published SOC in 0..100 (bq->lock sections, the clamps in them).
TypeOK ==
  /\ cell \in OcvPcts
  /\ capacity_cache \in 0..100 /\ capacity_valid \in BOOLEAN
  /\ last_ext_pwr \in BOOLEAN /\ last_charging \in BOOLEAN
  /\ fg_mode \in FgModes /\ chrg_done \in BOOLEAN /\ chg_session \in BOOLEAN
  /\ remain \in -1..Full
  /\ nah \in 0..(1000 * Full)
  /\ low_v_count \in 0..LowVMax
  /\ fg_user_seeded \in BOOLEAN /\ seed_gen \in BOOLEAN
  /\ ina228 \in BOOLEAN /\ ina228_enabled \in BOOLEAN /\ ina228_off \in BOOLEAN

\* The nAh accumulator that the next INA228 step starts from is the counter
\* that was last shown, to within rounding, or is about to be reloaded from
\* it.  The exceptions are the full counter a terminated charge leaves behind
\* and a counter that the proxy has drained while ina228_enabled was 0.
AccumulatorTracks ==
  \/ ina228_off
  \/ nah = 0
  \/ remain = Full
  \/ 1000 * remain - 500 <= nah /\ nah < 1000 * remain + 500

\* A userspace seed is never forgotten: once coulomb_uah has been written
\* the counter is never again "never seeded", so no OCV reseed (first sample,
\* boot calibration, hold or discharge branch) can apply.
UserSeedHeld == fg_user_seeded => remain >= 0

\* While the counter tracks, the SOC shown is never above it by more than
\* what rounding a seed down to uAh costs (below it is possible: a rested or
\* low-voltage sample lowers the SOC and not the counter).
RoundingPct == (99 + Full) \div Full
NeverOverstated ==
  capacity_valid /\ remain >= 0 => capacity_cache <= UahToPct(remain) + RoundingPct

-----------------------------------------------------------------------------
(* Action properties. *)

View == INSTANCE SocView WITH Socs <- 0..100

\* Refinement: all that the gauge shows outside the lock is what SocView
\* promises, whichever critical section runs.  The boot calibration's seed,
\* the INA228 probe and a failed sample are invisible.
ImplementsView == View!ViewSpec

\* What a move of m uAh can cost in percent, rounded up.
PctOf(m) == (100 * m + Full - 1) \div Full

NotWritten == seed_gen' = seed_gen

\* The counter is continuous: once it tracks, no sample, boot calibration,
\* plug, unplug or INA228 probe moves it further than the charge one sample
\* may move, except that a terminated charge sets it to full and that the
\* step after a full counter starts from the accumulator (whatever
\* that still holds).  No voltage ever reseeds a tracked counter.
CounterContinuous ==
  [][ remain >= 0 /\ remain # Full /\ NotWritten /\ ~ina228_off' =>
        \/ fg_mode' = "CHARGING_DONE" /\ remain' = Full
        \/ remain' - remain \in (-MaxMove)..MaxMove ]_vars

\* A terminated charge has set the counter full and left the accumulator where
\* it was (:2528 writes fg_disch_remain_uah only).
StaleAccumulator == remain = Full /\ nah # 0 /\ nah < 1000 * Full - 500

\* What one sample may cost: its charge, or one rest correction.
SampleCost == MaxOf(PctOf(MaxMove), MaxRestDrop)

\* The SOC shown does not collapse: from one published value to the next it
\* falls by no more than one sample's charge or one rest correction, unless
\* the low-voltage guard has counted LowVPersist samples.  A single sagging
\* voltage can therefore not make userspace power off.  Excepted is the sample
\* that follows a terminated charge: it may drop the SOC from full to what the
\* stale accumulator holds, and no lower than that and its own cost.
NoSocCollapse ==
  [][ capacity_valid /\ capacity_valid' /\ remain >= 0 /\ NotWritten /\ ~ina228_off'
      => \/ capacity_cache' >= capacity_cache - RoundingPct - SampleCost
         \/ LowVPersist > 0 /\ low_v_count' >= LowVPersist
         \/ /\ StaleAccumulator
            /\ capacity_cache' >= UahToPct((nah + 500) \div 1000) - SampleCost ]_vars

\* The first sample after probe does not publish 0 % when BATV shows a cell that
\* is not empty (the comment of ensure_remain_seeded_locked states this
\* promise).  It says nothing of a first reading that is itself wrong: one at
\* the ADC's floor (959-963), or one that failed, publishes 0 %.
FirstSocNotEmpty ==
  [][ remain < 0 /\ NotWritten /\ capacity_valid' /\ capacity_cache' = 0 =>
        UahToPct(MaxOf(0, PctToUah(cell) - MaxMove)) = 0 ]_vars

\* What userspace sees of the SOC is never a sudden empty battery, as long as
\* BATV can be read (~BatvFails).
NoSuddenEmpty == NoSocCollapse /\ FirstSocNotEmpty
=============================================================================
