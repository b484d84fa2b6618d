--------------------------- MODULE FuelGauge_proofs ---------------------------
(***************************************************************************)
(* Proofs about FuelGauge, for every charge_full_uah, OCV table, set of    *)
(* integrator moves and low-voltage parameter.                             *)
(***************************************************************************)
EXTENDS FuelGauge, TLAPS

LEMMA PctToUahRange == ASSUME NEW p \in 0..100 PROVE PctToUah(p) \in 0..Full
<1>1. Full \in Nat /\ Full > 0  BY FullAssumption
<1>2. p * Full \in 0..(100 * Full)  BY <1>1
<1>. QED BY <1>1, <1>2 DEF PctToUah

LEMMA UahToPctRange == ASSUME NEW r \in Int PROVE UahToPct(r) \in 0..100
<1>1. (r * 100) \div Full \in Int  BY FullAssumption
<1>. QED BY <1>1 DEF UahToPct

\* What a sample can read of BATV: a table percentage, or the error.
LEMMA BatvReadRange ==
  ASSUME TypeOK, NEW v \in BatvReads PROVE v \in -1..100 /\ OcvPct(v) \in 0..100
BY OcvAssumption DEF TypeOK, BatvReads, ReadError, OcvPct

\* The integrators keep the counter and the accumulator in range.
LEMMA IntegratorRange ==
  ASSUME NEW uah \in -1..Full, NEW acc \in 0..(1000 * Full), NEW m \in Int
  PROVE  /\ IntegratedUah(uah, acc, m) \in -1..Full
         /\ IntegratedNah(uah, acc, m) \in 0..(1000 * Full)
         /\ uah >= 0 => IntegratedUah(uah, acc, m) >= 0
<1>1. Full \in Nat  BY FullAssumption
<1>2. MovedNah(uah, acc, m) \in 0..(1000 * Full)
  BY <1>1 DEF MovedNah, BaseNah, MinOf, MaxOf
<1>3. (MovedNah(uah, acc, m) + 500) \div 1000 \in 0..Full
  BY <1>1, <1>2
<1>. QED BY <1>1, <1>2, <1>3 DEF IntegratedUah, IntegratedNah

LEMMA ProxyRange ==
  ASSUME NEW uah \in -1..Full, NEW d \in ProxyDrops
  PROVE  ProxyUah(uah, d) \in -1..Full /\ (uah >= 0 => ProxyUah(uah, d) >= 0)
BY FullAssumption, DropsAssumption DEF ProxyUah, MaxOf

\* What the sample's seeding step leaves.
LEMMA SeedRange ==
  ASSUME TypeOK, NEW v \in -1..100
  PROVE  /\ SeededUah(v) \in -1..Full
         /\ SeededNah(v) \in 0..(1000 * Full)
         /\ SeededCache(v) \in 0..100
         /\ SeededValid(v) \in BOOLEAN
         /\ remain >= 0 => SeededUah(v) = remain /\ SeededNah(v) = nah
         /\ v >= 0 /\ ~fg_user_seeded => SeededUah(v) >= 0
<1>1. v >= 0 => PctToUah(v) \in 0..Full  BY PctToUahRange
<1>. QED BY <1>1, FullAssumption
         DEF TypeOK, Seeds, SeededUah, SeededNah, SeededCache, SeededValid

LEMMA LowVRange ==
  ASSUME TypeOK, NEW vt \in -1..100, CountLowV(vt) PROVE low_v_count' \in 0..LowVMax
BY LowVAssumption DEF TypeOK, CountLowV, LowVCounts, MinOf, MaxOf

-----------------------------------------------------------------------------
(* Type correctness. *)

LEMMA PublishRange ==
  ASSUME NEW soc \in Int, Publish(soc)
  PROVE  capacity_cache' \in 0..100 /\ capacity_valid' = TRUE
BY DEF Publish

LEMMA DoneType ==
  ASSUME TypeOK, NEW vs \in BatvReads, NEW vt \in BatvReads, SampleDone(vs, vt)
  PROVE  TypeOK'
<1>. DEFINE v == IF vs >= 0 THEN vs ELSE vt
<1>1. v \in -1..100 /\ vt \in -1..100  BY BatvReadRange
<1>2. SeededNah(v) \in 0..(1000 * Full)  BY <1>1, SeedRange
<1>3. low_v_count' \in 0..LowVMax  BY <1>1, LowVRange DEF SampleDone
<1>4. capacity_cache' \in 0..100 /\ capacity_valid' = TRUE
  <2>1. Publish(100)  BY DEF SampleDone
  <2>. QED BY <2>1 DEF Publish
<1>5. remain' = Full /\ nah' = SeededNah(v)  BY DEF SampleDone
<1>6. remain' \in -1..Full /\ nah' \in 0..(1000 * Full)
  <2>. HIDE DEF v
  <2>. QED BY <1>2, <1>5, FullAssumption
<1>. QED
  BY <1>3, <1>4, <1>6
  DEF TypeOK, SampleDone, SampleFrame, config, seeding, FgModes

LEMMA ChargingType ==
  ASSUME TypeOK, NEW vs \in BatvReads, NEW vt \in BatvReads, NEW move \in Moves,
         SampleCharging(vs, vt, move)
  PROVE  TypeOK'
<1>. DEFINE v == IF vs >= 0 THEN vs ELSE vt
            i == IF Integrating THEN move ELSE 0
<1>1. v \in -1..100 /\ vt \in -1..100  BY BatvReadRange
<1>2. i \in Int  BY MovesAssumption
<1>3. /\ remain' = IntegratedUah(SeededUah(v), SeededNah(v), i)
      /\ nah' = IntegratedNah(SeededUah(v), SeededNah(v), i)
  BY DEF SampleCharging
<1>4. remain' \in -1..Full /\ nah' \in 0..(1000 * Full)
  <2>1. SeededUah(v) \in -1..Full /\ SeededNah(v) \in 0..(1000 * Full)
    BY <1>1, SeedRange
  <2>. DEFINE r == SeededUah(v)
              n == SeededNah(v)
  <2>2. IntegratedUah(r, n, i) \in -1..Full /\ IntegratedNah(r, n, i) \in 0..(1000 * Full)
    <3>1. r \in -1..Full /\ n \in 0..(1000 * Full)  BY <2>1
    <3>. HIDE DEF r, n, i
    <3>. QED BY <3>1, <1>2, IntegratorRange, FullAssumption
  <2>. HIDE DEF v, i
  <2>. QED BY <2>2, <1>3
<1>5. low_v_count' \in 0..LowVMax  BY <1>1, LowVRange DEF SampleCharging
<1>6. capacity_cache' \in 0..100 /\ capacity_valid' = TRUE
  <2>. DEFINE soc == IF remain' >= 0 THEN UahToPct(remain')
                     ELSE IF capacity_valid THEN capacity_cache ELSE 50
  <2>1. remain' \in Int  BY <1>4, FullAssumption
  <2>2. UahToPct(remain') \in 0..100  BY <2>1, UahToPctRange
  <2>3. soc \in Int  BY <2>2 DEF TypeOK
  <2>4. Publish(soc)  BY DEF SampleCharging
  <2>. QED BY <2>3, <2>4, PublishRange
<1>. QED
  BY <1>4, <1>5, <1>6
  DEF TypeOK, SampleCharging, SampleFrame, config, seeding, FgModes

LEMMA HoldType ==
  ASSUME TypeOK, NEW vs \in BatvReads, NEW vt \in BatvReads, SampleHold(vs, vt)
  PROVE  TypeOK'
<1>. DEFINE v == IF vs >= 0 THEN vs ELSE vt
            p == OcvPct(vs)
            r == SeededUah(v)
<1>1. v \in -1..100 /\ vt \in -1..100 /\ p \in 0..100  BY BatvReadRange
<1>2. r \in -1..Full /\ SeededNah(v) \in 0..(1000 * Full)
  BY <1>1, SeedRange
<1>3. PctToUah(p) \in 0..Full  BY <1>1, PctToUahRange
<1>4. remain' \in -1..Full /\ nah' \in 0..(1000 * Full)
  BY <1>2, <1>3, FullAssumption DEF SampleHold
<1>5. low_v_count' \in 0..LowVMax  BY <1>1, LowVRange DEF SampleHold
<1>6. capacity_cache' \in 0..100 /\ capacity_valid' = TRUE
  <2>. DEFINE soc == IF r < 0 THEN p
                     ELSE IF SeededValid(v) THEN SeededCache(v) ELSE UahToPct(r)
  <2>1. r \in Int  BY <1>2, FullAssumption
  <2>2. UahToPct(r) \in 0..100  BY <2>1, UahToPctRange
  <2>3. SeededCache(v) \in 0..100  BY <1>1, SeedRange
  <2>4. soc \in Int  BY <1>1, <2>2, <2>3
  <2>5. Publish(soc)  BY DEF SampleHold
  <2>. QED BY <2>4, <2>5, PublishRange
<1>. QED
  BY <1>4, <1>5, <1>6
  DEF TypeOK, SampleHold, SampleFrame, config, seeding, FgModes

LEMMA DischargingType ==
  ASSUME TypeOK, NEW vs \in BatvReads, NEW vt \in BatvReads,
         NEW move \in Moves, NEW proxy \in ProxyDrops, NEW drop \in RestDrops,
         NEW rested \in BOOLEAN, NEW done \in BOOLEAN, NEW charging \in BOOLEAN,
         NEW low_ok \in BOOLEAN,
         SampleDischarging(vs, vt, move, proxy, rested, drop, done, charging, low_ok)
  PROVE  TypeOK'
<1>. DEFINE v == IF vs >= 0 THEN vs ELSE vt
            r == SeededUah(v)
            n == SeededNah(v)
            i == IF Integrating THEN move ELSE 0
            r1 == IF Integrating THEN IntegratedUah(r, n, i) ELSE ProxyUah(r, proxy)
            n1 == IntegratedNah(r, n, i)
            p == OcvPct(vs)
            soc_in == IF r1 < 0 THEN p ELSE SeededCache(v)
            soc == UahToPct(remain')
            settled == IF rested /\ fg_mode # "DISCHARGING_RESTING"
                       THEN RestedSoc(soc_in, soc, p, drop) ELSE soc
            shown == IF LowVPersist > 0 /\ low_v_count' >= LowVPersist /\ low_ok
                        /\ vs >= 0
                     THEN MinOf(1, settled) ELSE settled
<1>1. v \in -1..100 /\ vt \in -1..100 /\ p \in 0..100  BY BatvReadRange
<1>2. r \in -1..Full /\ n \in 0..(1000 * Full)  BY <1>1, SeedRange
<1>3. i \in Int  BY MovesAssumption
<1>4. r1 \in -1..Full /\ n1 \in 0..(1000 * Full)
  <2>1. SeededUah(v) \in -1..Full /\ SeededNah(v) \in 0..(1000 * Full)
    BY <1>2
  <2>2. IntegratedUah(SeededUah(v), SeededNah(v), i) \in -1..Full
    <3>1. IntegratedUah(r, n, i) \in -1..Full
      <4>. HIDE DEF r, n, i
      <4>. QED BY <1>2, <1>3, IntegratorRange, FullAssumption
    <3>. QED BY <3>1
  <2>3. n1 \in 0..(1000 * Full)
    <3>1. n1 = IntegratedNah(r, n, i)
      OBVIOUS
    <3>. HIDE DEF r, n, i, n1
    <3>2. IntegratedNah(r, n, i) \in 0..(1000 * Full)
      BY <1>2, <1>3, IntegratorRange, FullAssumption
    <3>. QED BY <3>1, <3>2
  <2>4. ProxyUah(SeededUah(v), proxy) \in -1..Full
    <3>. HIDE DEF v
    <3>. QED BY <2>1, ProxyRange, FullAssumption
  <2>. QED BY <2>2, <2>3, <2>4
<1>5. PctToUah(p) \in 0..Full  BY <1>1, PctToUahRange
<1>6. /\ remain' = IF r1 < 0 THEN PctToUah(p) ELSE r1
      /\ nah' = IF r1 < 0 /\ ina228 THEN 1000 * PctToUah(p) ELSE n1
  BY DEF SampleDischarging
<1>7. remain' \in -1..Full /\ nah' \in 0..(1000 * Full)
  <2>. HIDE DEF r1, n1
  <2>. QED BY <1>4, <1>5, <1>6, FullAssumption
<1>8. low_v_count' \in 0..LowVMax  BY <1>1, LowVRange DEF SampleDischarging
<1>9. capacity_cache' \in 0..100 /\ capacity_valid' = TRUE
  <2>1. remain' \in Int  BY <1>7, FullAssumption
  <2>2. soc \in 0..100  BY <2>1, UahToPctRange
  <2>3. SeededCache(v) \in 0..100  BY <1>1, SeedRange
  <2>4. soc_in \in 0..100
    <3>. HIDE DEF r1
    <3>. QED BY <1>1, <2>3
  <2>5. drop \in Int  BY DropsAssumption
  <2>6. RestedSoc(soc_in, soc, p, drop) \in Int
    <3>. HIDE DEF soc_in, soc
    <3>. QED BY <1>1, <2>2, <2>4, <2>5 DEF RestedSoc, MinOf, MaxOf
  <2>7. settled \in Int
    <3>. HIDE DEF soc_in, soc
    <3>. QED BY <2>2, <2>6
  <2>8. shown \in Int
    <3>. HIDE DEF settled
    <3>. QED BY <2>7 DEF MinOf
  <2>9. Publish(shown)  BY DEF SampleDischarging
  <2>. HIDE DEF shown
  <2>. QED BY <2>8, <2>9, PublishRange
<1>. QED
  BY <1>7, <1>8, <1>9
  DEF TypeOK, SampleDischarging, SessionOnBattery, SampleFrame, config, seeding, FgModes

LEMMA SampleType == ASSUME TypeOK, Sample PROVE TypeOK'
<1>1. PICK vs \in BatvReads, vt \in BatvReads :
        \/ SampleDone(vs, vt)
        \/ \E move \in Moves : SampleCharging(vs, vt, move)
        \/ SampleHold(vs, vt)
        \/ \E move \in Moves, proxy \in ProxyDrops, drop \in RestDrops,
              rested, done, low_ok \in BOOLEAN,
              charging \in SecondRead :
             SampleDischarging(vs, vt, move, proxy, rested, drop, done,
                               charging, low_ok)
  BY DEF Sample
<1>2. CASE SampleDone(vs, vt)  BY <1>2, DoneType
<1>3. ASSUME NEW move \in Moves, SampleCharging(vs, vt, move) PROVE TypeOK'
  BY <1>3, ChargingType
<1>4. CASE SampleHold(vs, vt)  BY <1>4, HoldType
<1>5. ASSUME NEW move \in Moves, NEW proxy \in ProxyDrops, NEW drop \in RestDrops,
             NEW rested \in BOOLEAN, NEW done \in BOOLEAN, NEW low_ok \in BOOLEAN,
             NEW charging \in SecondRead,
             SampleDischarging(vs, vt, move, proxy, rested, drop, done,
                               charging, low_ok)
      PROVE  TypeOK'
  <2>1. charging \in BOOLEAN  BY DEF SecondRead
  <2>. QED BY <1>5, <2>1, DischargingType
<1>. QED BY <1>1, <1>2, <1>3, <1>4, <1>5

LEMMA TypeInit == Init => TypeOK
<1>. SUFFICES ASSUME Init PROVE TypeOK
  OBVIOUS
<1>1. /\ capacity_valid \in BOOLEAN /\ last_ext_pwr \in BOOLEAN
      /\ last_charging \in BOOLEAN /\ chg_session \in BOOLEAN
      /\ fg_user_seeded \in BOOLEAN /\ seed_gen \in BOOLEAN
      /\ ina228 \in BOOLEAN /\ ina228_enabled \in BOOLEAN
      /\ ina228_off \in BOOLEAN /\ fg_mode \in FgModes
  BY DEF Init, FgModes
<1>2. remain \in -1..Full /\ nah \in 0..(1000 * Full) /\ low_v_count \in 0..LowVMax
  BY FullAssumption, LowVAssumption DEF Init
<1>. QED BY <1>1, <1>2 DEF Init, TypeOK

LEMMA TypeStep == TypeOK /\ [Next]_vars => TypeOK'
<1>. SUFFICES ASSUME TypeOK, [Next]_vars PROVE TypeOK'
  OBVIOUS
<1>1. CASE Sample
  BY <1>1, SampleType
<1>2. CASE CalibrateSeed
  <2>1. PICK u \in BatvReads : u >= 0 /\ remain' = PctToUah(u)
           /\ nah' = IF ina228 THEN 1000 * PctToUah(u) ELSE nah
    BY <1>2 DEF CalibrateSeed
  <2>2. PctToUah(u) \in 0..Full  BY <2>1, BatvReadRange, PctToUahRange
  <2>3. remain' \in -1..Full /\ nah' \in 0..(1000 * Full)
    BY <2>1, <2>2, FullAssumption DEF TypeOK
  <2>. QED BY <1>2, <2>3
       DEF TypeOK, CalibrateSeed, published, power, config, seeding
<1>3. ASSUME NEW u \in Stores, StoreCoulomb(u) PROVE TypeOK'
  <2>1. u \in Int
    <3>1. \A p \in OcvPcts : PctToUah(p) \in 0..Full
      BY PctToUahRange, OcvAssumption
    <3>. QED BY <3>1, FullAssumption DEF Stores
  <2>2. remain' \in 0..Full
    BY <1>3, <2>1, FullAssumption DEF StoreCoulomb, StoredUah, MinOf, MaxOf
  <2>3. UahToPct(remain') \in 0..100
    BY <2>2, FullAssumption, UahToPctRange
  <2>. QED BY <1>3, <2>2, <2>3, FullAssumption
       DEF TypeOK, StoreCoulomb, power, config
<1>4. CASE ResetSoc
  <2>1. capacity_valid' \in BOOLEAN  BY <1>4 DEF ResetSoc
  <2>. QED BY <1>4, <2>1 DEF TypeOK, ResetSoc, power, counter, config, seeding
<1>5. CASE Ina228Probe
  BY <1>5, FullAssumption DEF TypeOK, Ina228Probe, published, power, seeding
<1>6. CASE SetIna228Enabled
  BY <1>6 DEF TypeOK, SetIna228Enabled, published, power, counter, seeding
<1>7. CASE CacheChipState
  BY <1>7 DEF TypeOK, CacheChipState, published, counter, config, seeding
<1>8. CASE CellMoves
  BY <1>8 DEF TypeOK, CellMoves, published, power, counter, config, seeding
<1>9. CASE UNCHANGED vars
  BY <1>9 DEF TypeOK, vars, published, power, counter, config, seeding
<1>. QED
  BY <1>1, <1>2, <1>3, <1>4, <1>5, <1>6, <1>7, <1>8, <1>9 DEF Next

\* Every value ever held by the estimator's state is in range: in particular
\* fg_disch_remain_uah stays in -1..charge_full_uah and the SOC in 0..100.
THEOREM TypeCorrect == Spec => []TypeOK
<1>. QED BY TypeInit, TypeStep, PTL DEF Spec

-----------------------------------------------------------------------------
(* The counter and the INA228 accumulator.  The proxy integrator drains    *)
(* the counter without touching the accumulator, so nothing is claimed     *)
(* once ina228_enabled has been 0; CounterInv is the invariant until then. *)

Tracks(r, n) ==
  \/ n = 0
  \/ r = Full
  \/ 1000 * r - 500 <= n /\ n < 1000 * r + 500

\* The strengthening: the integrator in use changes once at most, when the
\* INA228 is bound, and before that the accumulator is untouched.
CounterInv ==
  /\ TypeOK
  /\ Tracks(remain, nah)
  /\ ina228_enabled
  /\ ina228 \/ nah = 0

\* One INA228 step leaves the accumulator within rounding of the counter,
\* and from a tracked counter moves it by no more than the charge moved.
LEMMA IntegratorTracks ==
  ASSUME NEW uah \in -1..Full, NEW acc \in 0..(1000 * Full), NEW m \in Moves,
         Tracks(uah, acc)
  PROVE  Tracks(IntegratedUah(uah, acc, m), IntegratedNah(uah, acc, m))
<1>1. Full \in Nat /\ m \in Int  BY FullAssumption, MovesAssumption
<1>2. CASE uah < 0 \/ m = 0
  BY <1>2 DEF IntegratedUah, IntegratedNah
<1>3. CASE ~(uah < 0 \/ m = 0)
  <2>. DEFINE moved == MovedNah(uah, acc, m)
  <2>1. moved \in Int  BY <1>1 DEF MovedNah, BaseNah, MinOf, MaxOf
  <2>2. /\ IntegratedUah(uah, acc, m) = (moved + 500) \div 1000
        /\ IntegratedNah(uah, acc, m) = moved
    BY <1>3 DEF IntegratedUah, IntegratedNah
  <2>. HIDE DEF moved
  <2>3. /\ 1000 * ((moved + 500) \div 1000) - 500 <= moved
        /\ moved < 1000 * ((moved + 500) \div 1000) + 500
    BY <2>1
  <2>. QED BY <2>2, <2>3 DEF Tracks
<1>. QED BY <1>2, <1>3

LEMMA IntegratorStep ==
  ASSUME NEW uah \in 0..Full, NEW acc \in 0..(1000 * Full), NEW m \in Moves,
         Tracks(uah, acc), uah # Full
  PROVE  IntegratedUah(uah, acc, m) - uah \in (-MaxMove)..MaxMove
<1>1. /\ Full \in Nat /\ MaxMove \in Nat /\ m \in Int
      /\ -1000 * MaxMove <= m /\ m <= 1000 * MaxMove
  BY FullAssumption, MovesAssumption
<1>2. CASE m = 0
  BY <1>1, <1>2 DEF IntegratedUah
<1>3. CASE m # 0
  <2>. DEFINE base == BaseNah(uah, acc)
              moved == MovedNah(uah, acc, m)
  <2>1. base \in Int /\ 1000 * uah - 500 <= base /\ base < 1000 * uah + 500
    BY <1>1 DEF BaseNah, Tracks
  <2>2. moved = MaxOf(0, MinOf(1000 * Full, base - m))  BY DEF MovedNah
  <2>. HIDE DEF base, moved
  <2>3. /\ moved \in Int
        /\ 1000 * (uah - MaxMove) - 500 <= moved
        /\ moved < 1000 * (uah + MaxMove) + 500
    BY <1>1, <2>1, <2>2 DEF MinOf, MaxOf
  <2>4. (moved + 500) \div 1000 - uah \in (-MaxMove)..MaxMove
    BY <1>1, <2>3
  <2>5. IntegratedUah(uah, acc, m) = (moved + 500) \div 1000
    BY <1>3 DEF IntegratedUah, moved
  <2>. QED BY <2>4, <2>5
<1>. QED BY <1>2, <1>3

LEMMA SeedTracks ==
  ASSUME CounterInv, NEW v \in -1..100
  PROVE  Tracks(SeededUah(v), SeededNah(v)) /\ (ina228 \/ SeededNah(v) = 0)
<1>1. v >= 0 => PctToUah(v) \in 0..Full  BY PctToUahRange
<1>2. CASE Seeds(v)
  BY <1>1, <1>2, FullAssumption
  DEF CounterInv, TypeOK, Tracks, Seeds, SeededUah, SeededNah
<1>3. CASE ~Seeds(v)
  BY <1>3 DEF CounterInv, SeededUah, SeededNah
<1>. QED BY <1>2, <1>3

LEMMA ChargingTracks ==
  ASSUME CounterInv, NEW vs \in BatvReads, NEW vt \in BatvReads,
         NEW move \in Moves, SampleCharging(vs, vt, move)
  PROVE  /\ Tracks(remain', nah') /\ (ina228' \/ nah' = 0)
         /\ remain >= 0 /\ remain # Full => remain' - remain \in (-MaxMove)..MaxMove
<1>. DEFINE v == IF vs >= 0 THEN vs ELSE vt
            i == IF Integrating THEN move ELSE 0
<1>1. TypeOK /\ v \in -1..100  BY BatvReadRange DEF CounterInv
<1>2. /\ SeededUah(v) \in -1..Full /\ SeededNah(v) \in 0..(1000 * Full)
      /\ remain >= 0 => SeededUah(v) = remain
  BY <1>1, SeedRange
<1>3. Tracks(SeededUah(v), SeededNah(v)) /\ (ina228 \/ SeededNah(v) = 0)
  BY <1>1, SeedTracks
<1>4. /\ remain' = IntegratedUah(SeededUah(v), SeededNah(v), i)
      /\ nah' = IntegratedNah(SeededUah(v), SeededNah(v), i)
      /\ ina228' = ina228
  BY DEF SampleCharging, SampleFrame, config
<1>5. CASE Integrating
  <2>1. i = move  BY <1>5
  <2>2. Tracks(remain', nah')
    <3>. HIDE DEF v, i
    <3>. QED BY <1>2, <1>3, <1>4, <2>1, IntegratorTracks
  <2>3. remain >= 0 /\ remain # Full => remain' - remain \in (-MaxMove)..MaxMove
    <3>. HIDE DEF v, i
    <3>1. SUFFICES ASSUME remain >= 0, remain # Full
                   PROVE  remain' - remain \in (-MaxMove)..MaxMove
      OBVIOUS
    <3>2. remain \in 0..Full  BY <1>1, <3>1, FullAssumption DEF TypeOK
    <3>3. SeededUah(v) = remain  BY <1>2, <3>1
    <3>4. Tracks(remain, SeededNah(v))  BY <1>3, <3>3
    <3>5. IntegratedUah(remain, SeededNah(v), move) - remain \in (-MaxMove)..MaxMove
      BY <1>2, <3>1, <3>2, <3>4, IntegratorStep
    <3>. QED BY <1>4, <2>1, <3>3, <3>5
  <2>. QED BY <1>4, <1>5, <2>2, <2>3 DEF Integrating
<1>6. CASE ~Integrating
  <2>1. i = 0  BY <1>6
  <2>2. remain' = SeededUah(v) /\ nah' = SeededNah(v)
    BY <1>4, <2>1 DEF IntegratedUah, IntegratedNah
  <2>3. remain >= 0 => remain' - remain = 0
    BY <1>1, <1>2, <2>2, FullAssumption DEF TypeOK
  <2>. HIDE DEF v
  <2>. QED BY <1>3, <1>4, <2>2, <2>3, MovesAssumption
<1>. QED BY <1>5, <1>6

LEMMA DischargingTracks ==
  ASSUME CounterInv, NEW vs \in BatvReads, NEW vt \in BatvReads,
         NEW move \in Moves, NEW proxy \in ProxyDrops, NEW drop \in RestDrops,
         NEW rested \in BOOLEAN, NEW done \in BOOLEAN, NEW charging \in BOOLEAN,
         NEW low_ok \in BOOLEAN,
         SampleDischarging(vs, vt, move, proxy, rested, drop, done, charging, low_ok)
  PROVE  /\ Tracks(remain', nah') /\ (ina228' \/ nah' = 0)
         /\ remain >= 0 /\ remain # Full => remain' - remain \in (-MaxMove)..MaxMove
<1>. DEFINE v == IF vs >= 0 THEN vs ELSE vt
            i == IF Integrating THEN move ELSE 0
            r1 == IF Integrating THEN IntegratedUah(SeededUah(v), SeededNah(v), i)
                  ELSE ProxyUah(SeededUah(v), proxy)
            n1 == IntegratedNah(SeededUah(v), SeededNah(v), i)
            p == OcvPct(vs)
<1>1. TypeOK /\ v \in -1..100 /\ p \in 0..100  BY BatvReadRange DEF CounterInv
<1>2. /\ SeededUah(v) \in -1..Full /\ SeededNah(v) \in 0..(1000 * Full)
      /\ remain >= 0 => SeededUah(v) = remain
  BY <1>1, SeedRange
<1>3. Tracks(SeededUah(v), SeededNah(v)) /\ (ina228 \/ SeededNah(v) = 0)
  BY <1>1, SeedTracks
<1>4. /\ remain' = IF r1 < 0 THEN PctToUah(p) ELSE r1
      /\ nah' = IF r1 < 0 /\ ina228 THEN 1000 * PctToUah(p) ELSE n1
      /\ ina228' = ina228
  BY DEF SampleDischarging, SampleFrame, config
<1>5. PctToUah(p) \in 0..Full  BY <1>1, PctToUahRange
<1>6. CASE Integrating
  <2>1. i = move  BY <1>6
  <2>2. Tracks(r1, n1)
    <3>1. Tracks(IntegratedUah(SeededUah(v), SeededNah(v), move),
                 IntegratedNah(SeededUah(v), SeededNah(v), move))
      <4>. HIDE DEF v
      <4>. QED BY <1>2, <1>3, IntegratorTracks
    <3>. QED BY <1>6, <2>1, <3>1
  <2>3. remain >= 0 /\ remain # Full =>
          r1 \in 0..Full /\ r1 - remain \in (-MaxMove)..MaxMove
    <3>1. SUFFICES ASSUME remain >= 0, remain # Full
                   PROVE  r1 \in 0..Full /\ r1 - remain \in (-MaxMove)..MaxMove
      OBVIOUS
    <3>2. remain \in 0..Full  BY <1>1, <3>1, FullAssumption DEF TypeOK
    <3>3. SeededUah(v) = remain  BY <1>2, <3>1
    <3>4. Tracks(remain, SeededNah(v))  BY <1>3, <3>3
    <3>5. IntegratedUah(remain, SeededNah(v), move) - remain \in (-MaxMove)..MaxMove
      <4>. HIDE DEF v
      <4>. QED BY <1>2, <3>1, <3>2, <3>4, IntegratorStep
    <3>6. IntegratedUah(remain, SeededNah(v), move) \in 0..Full
      <4>1. remain \in -1..Full /\ move \in Int  BY <3>2, FullAssumption, MovesAssumption
      <4>. HIDE DEF v
      <4>2. IntegratedUah(remain, SeededNah(v), move) \in -1..Full
        BY <1>2, <4>1, IntegratorRange
      <4>3. IntegratedUah(remain, SeededNah(v), move) >= 0
        BY <1>2, <3>1, <4>1, IntegratorRange, FullAssumption
      <4>. QED BY <4>2, <4>3, FullAssumption
    <3>7. r1 = IntegratedUah(remain, SeededNah(v), move)  BY <1>6, <2>1, <3>3
    <3>. QED BY <3>5, <3>6, <3>7
  <2>4. ina228  BY <1>6 DEF Integrating
  <2>. HIDE DEF r1, n1, p
  <2>5. Tracks(remain', nah')
    <3>1. CASE r1 < 0
      BY <1>4, <1>5, <2>4, <3>1, FullAssumption DEF Tracks
    <3>2. CASE ~(r1 < 0)
      BY <1>4, <2>2, <3>2
    <3>. QED BY <3>1, <3>2
  <2>6. remain >= 0 /\ remain # Full => remain' - remain \in (-MaxMove)..MaxMove
    <3>1. SUFFICES ASSUME remain >= 0, remain # Full
                   PROVE  remain' - remain \in (-MaxMove)..MaxMove
      OBVIOUS
    <3>2. r1 \in 0..Full /\ r1 - remain \in (-MaxMove)..MaxMove  BY <2>3, <3>1
    <3>3. remain' = r1  BY <1>4, <3>2, FullAssumption
    <3>. QED BY <3>2, <3>3
  <2>. QED BY <1>4, <2>4, <2>5, <2>6
<1>7. CASE ~Integrating
  <2>1. nah' = 0 \/ ina228  BY <1>3, <1>4, <1>7 DEF IntegratedNah
  <2>2. ~ina228  BY <1>7 DEF Integrating, CounterInv
  <2>3. nah' = 0  BY <2>1, <2>2
  <2>4. remain >= 0 => remain' - remain \in (-MaxMove)..MaxMove
    <3>1. SUFFICES ASSUME remain >= 0
                   PROVE  remain' - remain \in (-MaxMove)..MaxMove
      OBVIOUS
    <3>2. remain \in 0..Full  BY <1>1, <3>1, FullAssumption DEF TypeOK
    <3>3. r1 = MaxOf(0, remain - proxy)
      BY <1>2, <1>7, <3>1, <3>2, FullAssumption DEF ProxyUah
    <3>4. MaxMove \in Nat /\ proxy \in 0..MaxMove  BY DropsAssumption, MovesAssumption
    <3>. HIDE DEF r1
    <3>. QED BY <1>4, <3>2, <3>3, <3>4, FullAssumption DEF MaxOf
  <2>. QED BY <1>4, <2>3, <2>4 DEF Tracks
<1>. QED BY <1>6, <1>7

LEMMA DoneTracks ==
  ASSUME CounterInv, NEW vs \in BatvReads, NEW vt \in BatvReads, SampleDone(vs, vt)
  PROVE  /\ Tracks(remain', nah') /\ (ina228' \/ nah' = 0)
         /\ remain' = Full /\ fg_mode' = "CHARGING_DONE"
<1>. DEFINE v == IF vs >= 0 THEN vs ELSE vt
<1>1. v \in -1..100  BY BatvReadRange DEF CounterInv
<1>2. ina228 \/ SeededNah(v) = 0  BY <1>1, SeedTracks
<1>3. /\ remain' = Full /\ nah' = SeededNah(v) /\ ina228' = ina228
      /\ fg_mode' = "CHARGING_DONE"
  BY DEF SampleDone, SampleFrame, config
<1>. HIDE DEF v
<1>. QED BY <1>2, <1>3 DEF Tracks

LEMMA HoldTracks ==
  ASSUME CounterInv, NEW vs \in BatvReads, NEW vt \in BatvReads, SampleHold(vs, vt)
  PROVE  /\ Tracks(remain', nah') /\ (ina228' \/ nah' = 0)
         /\ remain >= 0 => remain' = remain
<1>. DEFINE v == IF vs >= 0 THEN vs ELSE vt
            r == SeededUah(v)
            p == OcvPct(vs)
<1>1. TypeOK /\ v \in -1..100  BY BatvReadRange DEF CounterInv
<1>2. /\ r \in -1..Full /\ (remain >= 0 => r = remain)
  BY <1>1, SeedRange
<1>3. Tracks(r, SeededNah(v)) /\ (ina228 \/ SeededNah(v) = 0)
  BY <1>1, SeedTracks
<1>4. /\ remain' = IF r < 0 THEN PctToUah(p) ELSE r
      /\ nah' = SeededNah(v) /\ ina228' = ina228
  BY DEF SampleHold, SampleFrame, config
<1>5. r < 0 => nah' = 0
  <2>1. SUFFICES ASSUME r < 0 PROVE nah' = 0
    OBVIOUS
  <2>2. ~Seeds(v)
    <3>1. v >= 0 => PctToUah(v) \in 0..Full  BY <1>1, PctToUahRange
    <3>. QED BY <1>1, <2>1, <3>1, FullAssumption DEF Seeds, SeededUah
  <2>3. remain < 0 /\ nah' = nah
    BY <1>4, <2>1, <2>2 DEF SeededUah, SeededNah
  <2>. QED BY <1>1, <2>3, FullAssumption DEF CounterInv, Tracks, TypeOK
<1>. HIDE DEF v, r, p
<1>6. r \in Int  BY <1>2, FullAssumption
<1>7. CASE r < 0
  BY <1>1, <1>2, <1>4, <1>5, <1>6, <1>7 DEF Tracks
<1>8. CASE ~(r < 0)
  BY <1>2, <1>3, <1>4, <1>8
<1>. QED BY <1>7, <1>8

\* What a step may do to the counter: nothing, a bounded move, the jump to
\* full at the end of a charge, or whatever a write or a full counter allows.
CounterStep ==
  remain >= 0 /\ remain # Full /\ NotWritten =>
     \/ fg_mode' = "CHARGING_DONE" /\ remain' = Full
     \/ remain' - remain \in (-MaxMove)..MaxMove

LEMMA SampleCounter ==
  ASSUME CounterInv, Sample
  PROVE  Tracks(remain', nah') /\ (ina228' \/ nah' = 0) /\ CounterStep
<1>. DEFINE Goal == Tracks(remain', nah') /\ (ina228' \/ nah' = 0) /\ CounterStep
<1>1. PICK vs \in BatvReads, vt \in BatvReads :
        \/ SampleDone(vs, vt)
        \/ \E move \in Moves : SampleCharging(vs, vt, move)
        \/ SampleHold(vs, vt)
        \/ \E move \in Moves, proxy \in ProxyDrops, drop \in RestDrops,
              rested, done, low_ok \in BOOLEAN,
              charging \in SecondRead :
             SampleDischarging(vs, vt, move, proxy, rested, drop, done,
                               charging, low_ok)
  BY DEF Sample
<1>2. CASE SampleDone(vs, vt)
  BY <1>2, DoneTracks DEF CounterStep
<1>3. ASSUME NEW move \in Moves, SampleCharging(vs, vt, move) PROVE Goal
  BY <1>3, ChargingTracks DEF CounterStep
<1>4. CASE SampleHold(vs, vt)
  <2>1. remain >= 0 => remain' - remain \in (-MaxMove)..MaxMove
    BY <1>4, HoldTracks, MovesAssumption, FullAssumption DEF CounterInv, TypeOK
  <2>. QED BY <1>4, <2>1, HoldTracks DEF CounterStep
<1>5. ASSUME NEW move \in Moves, NEW proxy \in ProxyDrops, NEW drop \in RestDrops,
             NEW rested \in BOOLEAN, NEW done \in BOOLEAN, NEW low_ok \in BOOLEAN,
             NEW charging \in SecondRead,
             SampleDischarging(vs, vt, move, proxy, rested, drop, done,
                               charging, low_ok)
      PROVE  Goal
  <2>1. charging \in BOOLEAN  BY DEF SecondRead
  <2>. QED BY <1>5, <2>1, DischargingTracks DEF CounterStep
<1>. QED BY <1>1, <1>2, <1>3, <1>4, <1>5

LEMMA SampleFramed == ASSUME Sample PROVE SampleFrame
  BY DEF Sample, SampleDone, SampleCharging, SampleHold, SampleDischarging

LEMMA CounterNext ==
  ASSUME CounterInv, [Next]_vars, ~ina228_off'
  PROVE  CounterInv' /\ [CounterStep]_vars
<1>. DEFINE Goal == /\ Tracks(remain', nah') /\ (ina228' \/ nah' = 0)
                    /\ ina228_enabled' /\ CounterStep
<1>1. TypeOK'  BY TypeStep DEF CounterInv
<1>2. Full \in Nat \ {0} /\ MaxMove \in Nat /\ remain \in Int
  BY FullAssumption, MovesAssumption DEF CounterInv, TypeOK
<1>3. CASE Sample
  <2>1. SampleFrame
    BY <1>3, SampleFramed
  <2>2. ina228_enabled' = ina228_enabled
    BY <2>1 DEF SampleFrame, config
  <2>3. ina228_enabled'
    BY <2>2 DEF CounterInv
  <2>. QED BY <1>3, <2>3, SampleCounter, <1>1 DEF CounterInv
<1>4. CASE CalibrateSeed
  <2>1. PICK u \in BatvReads : u >= 0 /\ remain' = PctToUah(u)
           /\ nah' = IF ina228 THEN 1000 * PctToUah(u) ELSE nah
    BY <1>4 DEF CalibrateSeed
  <2>2. PctToUah(u) \in 0..Full
    BY <2>1, BatvReadRange, PctToUahRange DEF CounterInv
  <2>3. ina228' = ina228 /\ ina228_enabled' = ina228_enabled /\ remain < 0
    BY <1>4 DEF CalibrateSeed, config
  <2>4. Goal
    BY <1>2, <2>1, <2>2, <2>3 DEF CounterInv, Tracks, CounterStep
  <2>. QED BY <1>1, <2>4 DEF CounterInv
<1>5. ASSUME NEW u \in Stores, StoreCoulomb(u) PROVE CounterInv' /\ CounterStep
  <2>1. remain' \in -1..Full  BY <1>1 DEF TypeOK
  <2>2. /\ nah' = IF ina228 THEN 1000 * remain' ELSE nah
        /\ ina228' = ina228 /\ ina228_enabled' = ina228_enabled
        /\ seed_gen' = ~seed_gen
    BY <1>5 DEF StoreCoulomb, config
  <2>3. ~NotWritten
    BY <2>2 DEF NotWritten, CounterInv, TypeOK
  <2>4. remain' >= 0
    BY <1>2, <1>5 DEF StoreCoulomb, StoredUah, MinOf, MaxOf
  <2>5. ina228 \/ nah' = 0
    BY <2>2 DEF CounterInv
  <2>7. nah' = 0 \/ nah' = 1000 * remain'
    BY <2>2, <2>5
  <2>8. Tracks(remain', nah')
    BY <2>1, <2>7 DEF Tracks
  <2>6. ina228_enabled'
    BY <2>2 DEF CounterInv
  <2>. QED BY <1>1, <2>2, <2>3, <2>5, <2>6, <2>8 DEF CounterInv, CounterStep
<1>6. CASE Ina228Probe
  BY <1>1, <1>2, <1>6 DEF Ina228Probe, CounterInv, Tracks, CounterStep
<1>7. CASE SetIna228Enabled
  BY <1>7 DEF SetIna228Enabled
<1>8. ASSUME UNCHANGED <<counter, config>> PROVE CounterInv' /\ CounterStep
  BY <1>1, <1>2, <1>8 DEF counter, config, CounterInv, Tracks, CounterStep
<1>9. CASE ResetSoc \/ CacheChipState \/ CellMoves \/ UNCHANGED vars
  <2>1. UNCHANGED <<counter, config>>
    BY <1>9 DEF ResetSoc, CacheChipState, CellMoves, vars
  <2>. QED BY <1>8, <2>1
<1>. QED BY <1>3, <1>4, <1>5, <1>6, <1>7, <1>9 DEF Next

LEMMA OffStays == ASSUME TypeOK, [Next]_vars PROVE ina228_off => ina228_off'
<1>1. CASE Sample
  BY <1>1, SampleFramed DEF SampleFrame, config
<1>2. CASE ~Sample
  BY <1>2 DEF Next, CalibrateSeed, StoreCoulomb, ResetSoc, Ina228Probe,
              SetIna228Enabled, CacheChipState, CellMoves, config, vars
<1>. QED BY <1>1, <1>2

\* CounterInv holds until ina228_enabled is first 0.
OnInv == TypeOK /\ (ina228_off \/ CounterInv)

LEMMA OnInvCorrect == Spec => []OnInv
<1>1. Init => OnInv
  <2>. SUFFICES ASSUME Init PROVE OnInv
    OBVIOUS
  <2>1. TypeOK  BY TypeInit
  <2>2. ina228_off \/ ina228_enabled  BY DEF Init
  <2>. QED BY <2>1, <2>2 DEF Init, OnInv, CounterInv, Tracks
<1>2. OnInv /\ [Next]_vars => OnInv'
  <2>. SUFFICES ASSUME OnInv, [Next]_vars PROVE OnInv'
    OBVIOUS
  <2>1. TypeOK'  BY TypeStep DEF OnInv
  <2>2. CASE ina228_off'
    BY <2>1, <2>2 DEF OnInv
  <2>3. CASE ~ina228_off'
    BY <2>1, <2>3, OffStays, CounterNext DEF OnInv
  <2>. QED BY <2>2, <2>3
<1>. QED BY <1>1, <1>2, PTL DEF Spec

\* The INA228 accumulator never loses step with fg_disch_remain_uah, but for
\* the full counter that a terminated charge leaves and for a counter that
\* the proxy has drained.
THEOREM AccumulatorCorrect == Spec => []AccumulatorTracks
<1>1. OnInv => AccumulatorTracks
  BY DEF OnInv, CounterInv, Tracks, AccumulatorTracks
<1>. QED BY <1>1, OnInvCorrect, PTL

\* No interleaving of samples, boot calibration, INA228 probe and register
\* updates moves a tracked counter by more than one sample's charge.
THEOREM CounterIsContinuous == Spec => CounterContinuous
<1>1. OnInv /\ [Next]_vars => [~ina228_off' => CounterStep]_vars
  <2>. SUFFICES ASSUME OnInv, [Next]_vars, ~ina228_off' PROVE [CounterStep]_vars
    OBVIOUS
  <2>. QED BY OffStays, CounterNext DEF OnInv
<1>2. (~ina228_off' => CounterStep) =>
        (remain >= 0 /\ remain # Full /\ NotWritten /\ ~ina228_off' =>
           \/ fg_mode' = "CHARGING_DONE" /\ remain' = Full
           \/ remain' - remain \in (-MaxMove)..MaxMove)
  BY DEF CounterStep
<1>. QED BY <1>1, <1>2, OnInvCorrect, PTL DEF Spec, CounterContinuous

-----------------------------------------------------------------------------
(* Refinement: FuelGauge implements SocView. *)

\* What every branch of a sample shows: a SOC in range, made valid, with a
\* power state in which Charging needs the adapter when VBUS is steady.
LEMMA SampleShows ==
  ASSUME TypeOK, TypeOK', Sample
  PROVE  View!PublishSample
<1>1. capacity_valid'
  BY DEF Sample, SampleDone, SampleCharging, SampleHold, SampleDischarging, Publish
<1>2. VbusSteady /\ last_charging' => last_ext_pwr'
  <2>1. PICK vs \in BatvReads, vt \in BatvReads :
          \/ SampleDone(vs, vt)
          \/ \E move \in Moves : SampleCharging(vs, vt, move)
          \/ SampleHold(vs, vt)
          \/ \E move \in Moves, proxy \in ProxyDrops, drop \in RestDrops,
                rested, done, low_ok \in BOOLEAN,
                charging \in SecondRead :
               SampleDischarging(vs, vt, move, proxy, rested, drop, done,
                                 charging, low_ok)
    BY DEF Sample
  <2>2. VbusSteady => \A charging \in SecondRead : ~charging
    BY DEF SecondRead
  <2>3. CASE SampleDone(vs, vt)
    BY <2>3 DEF SampleDone
  <2>4. CASE \E move \in Moves : SampleCharging(vs, vt, move)
    BY <2>4 DEF SampleCharging
  <2>5. CASE SampleHold(vs, vt)
    BY <2>5 DEF SampleHold
  <2>6. CASE \E move \in Moves, proxy \in ProxyDrops, drop \in RestDrops,
                rested, done, low_ok \in BOOLEAN,
                charging \in SecondRead :
               SampleDischarging(vs, vt, move, proxy, rested, drop, done,
                                 charging, low_ok)
    <3>1. PICK move \in Moves, proxy \in ProxyDrops, drop \in RestDrops,
               rested \in BOOLEAN, done \in BOOLEAN, low_ok \in BOOLEAN,
               charging \in SecondRead :
            SampleDischarging(vs, vt, move, proxy, rested, drop, done,
                              charging, low_ok)
      BY <2>6
    <3>2. last_charging' = charging
      BY <3>1 DEF SampleDischarging
    <3>. QED BY <2>2, <3>2
  <2>. QED BY <2>1, <2>3, <2>4, <2>5, <2>6
<1>3. capacity_cache' \in 0..100 /\ capacity_valid' \in BOOLEAN
  BY DEF TypeOK
<1>4. last_ext_pwr' \in BOOLEAN /\ last_charging' \in BOOLEAN
  BY DEF TypeOK
<1>5. capacity_valid' = TRUE
  BY <1>1, <1>3
<1>. QED BY <1>2, <1>3, <1>4, <1>5 DEF View!PublishSample

\* Every critical section is a step of SocView or leaves its view alone.
LEMMA ViewStep ==
  ASSUME TypeOK, TypeOK', [Next]_vars
  PROVE  [View!ViewNext]_(View!view)
<1>1. CASE Sample
  BY <1>1, SampleShows DEF View!ViewNext
<1>2. ASSUME NEW u \in Stores, StoreCoulomb(u) PROVE View!PublishWrite
  <2>1. capacity_cache' \in 0..100  BY DEF TypeOK
  <2>2. capacity_valid' = TRUE  BY <1>2 DEF StoreCoulomb
  <2>3. UNCHANGED <<last_ext_pwr, last_charging>>
    BY <1>2 DEF StoreCoulomb, power
  <2>. QED BY <2>1, <2>2, <2>3 DEF View!PublishWrite
<1>3. CASE ResetSoc
  BY <1>3 DEF ResetSoc, power, View!Withdraw, View!ViewNext
<1>4. CASE \/ CalibrateSeed \/ Ina228Probe \/ SetIna228Enabled
           \/ CacheChipState \/ CellMoves \/ UNCHANGED vars
  <2>1. UNCHANGED <<capacity_cache, capacity_valid, last_ext_pwr, last_charging>>
    BY <1>4 DEF CalibrateSeed, Ina228Probe, SetIna228Enabled, CacheChipState,
                CellMoves, vars, published, power
  <2>. QED BY <2>1 DEF View!view
<1>. QED BY <1>1, <1>2, <1>3, <1>4 DEF Next, View!ViewNext

\* The gauge implements the view it shows outside bq->lock: SOC, validity and
\* power state change together and only as SocView allows.
THEOREM GaugeImplementsView == Spec => ImplementsView
<1>1. Init => View!ViewInit
  BY DEF Init, View!ViewInit
<1>2. TypeOK /\ TypeOK' /\ [Next]_vars => [View!ViewNext]_(View!view)
  BY ViewStep
<1>. QED BY <1>1, <1>2, TypeCorrect, PTL DEF Spec, ImplementsView, View!ViewSpec

-----------------------------------------------------------------------------
(* The userspace seed and the charge session. *)

\* A sample never unseeds the counter: each branch integrates, sets or seeds.
LEMMA SampleKeepsSeed ==
  ASSUME TypeOK, Sample, remain >= 0
  PROVE  remain' >= 0
<1>1. PICK vs \in BatvReads, vt \in BatvReads :
        \/ SampleDone(vs, vt)
        \/ \E move \in Moves : SampleCharging(vs, vt, move)
        \/ SampleHold(vs, vt)
        \/ \E move \in Moves, proxy \in ProxyDrops, drop \in RestDrops,
              rested, done, low_ok \in BOOLEAN,
              charging \in SecondRead :
             SampleDischarging(vs, vt, move, proxy, rested, drop, done,
                               charging, low_ok)
  BY DEF Sample
<1>. DEFINE v == IF vs >= 0 THEN vs ELSE vt
            r == SeededUah(v)
            n == SeededNah(v)
<1>2. v \in -1..100  BY BatvReadRange
<1>3. r = remain /\ n = nah  BY <1>2, SeedRange
<1>4. remain \in -1..Full /\ nah \in 0..(1000 * Full) /\ remain \in Int
  BY FullAssumption DEF TypeOK
<1>5. ASSUME NEW m \in Int PROVE IntegratedUah(remain, nah, m) >= 0
  BY <1>4, IntegratorRange, FullAssumption
<1>6. CASE SampleDone(vs, vt)
  BY <1>6, FullAssumption DEF SampleDone
<1>7. ASSUME NEW move \in Moves, SampleCharging(vs, vt, move) PROVE remain' >= 0
  <2>1. remain' = IntegratedUah(r, n, IF Integrating THEN move ELSE 0)
    BY <1>7 DEF SampleCharging
  <2>2. move \in Int  BY MovesAssumption
  <2>. QED BY <1>3, <1>5, <2>1, <2>2
<1>8. CASE SampleHold(vs, vt)
  <2>1. remain' = IF r < 0 THEN PctToUah(OcvPct(vs)) ELSE r
    BY <1>8 DEF SampleHold
  <2>. QED BY <1>3, <1>4, <2>1
<1>9. ASSUME NEW move \in Moves, NEW proxy \in ProxyDrops, NEW drop \in RestDrops,
             NEW rested \in BOOLEAN, NEW done \in BOOLEAN, NEW low_ok \in BOOLEAN,
             NEW charging \in SecondRead,
             SampleDischarging(vs, vt, move, proxy, rested, drop, done,
                               charging, low_ok)
      PROVE  remain' >= 0
  <2>. DEFINE i == IF Integrating THEN move ELSE 0
              r1 == IF Integrating THEN IntegratedUah(r, n, i) ELSE ProxyUah(r, proxy)
  <2>1. remain' = IF r1 < 0 THEN PctToUah(OcvPct(vs)) ELSE r1
    BY <1>9 DEF SampleDischarging
  <2>2. i \in Int  BY MovesAssumption
  <2>3. IntegratedUah(r, n, i) >= 0 /\ ProxyUah(r, proxy) >= 0
    <3>. HIDE DEF i
    <3>. QED BY <1>3, <1>4, <1>5, <2>2, ProxyRange
  <2>4. r1 \in Int
    <3>. HIDE DEF i
    <3>. QED BY <1>3, <1>4, <2>2, IntegratorRange, ProxyRange, FullAssumption
  <2>5. r1 >= 0  BY <2>3
  <2>. HIDE DEF r1
  <2>. QED BY <2>1, <2>4, <2>5
<1>. QED BY <1>1, <1>6, <1>7, <1>8, <1>9

LEMMA UserSeedStep ==
  ASSUME TypeOK, TypeOK', UserSeedHeld, [Next]_vars
  PROVE  UserSeedHeld'
<1>1. CASE Sample
  <2>1. fg_user_seeded' = fg_user_seeded
    BY <1>1, SampleFramed DEF SampleFrame, seeding
  <2>. QED BY <1>1, <2>1, SampleKeepsSeed DEF UserSeedHeld
<1>2. CASE CalibrateSeed
  BY <1>2 DEF CalibrateSeed, seeding, UserSeedHeld
<1>3. ASSUME NEW u \in Stores, StoreCoulomb(u) PROVE UserSeedHeld'
  <2>1. remain' \in -1..Full  BY DEF TypeOK
  <2>2. remain' >= 0
    BY <2>1, <1>3, FullAssumption DEF StoreCoulomb, StoredUah, MinOf, MaxOf
  <2>. QED BY <2>2 DEF UserSeedHeld
<1>4. CASE \/ ResetSoc \/ Ina228Probe \/ SetIna228Enabled
           \/ CacheChipState \/ CellMoves \/ UNCHANGED vars
  <2>1. remain' = remain /\ fg_user_seeded' = fg_user_seeded
    BY <1>4 DEF ResetSoc, Ina228Probe, SetIna228Enabled, CacheChipState,
                CellMoves, vars, counter, seeding
  <2>. QED BY <2>1 DEF UserSeedHeld
<1>. QED BY <1>1, <1>2, <1>3, <1>4 DEF Next

\* A counter that userspace has seeded is never again "never seeded", so no
\* voltage reseeds it, whatever samples, calibration and probe do afterwards.
THEOREM UserSeedIsHeld == Spec => []UserSeedHeld
<1>1. Init => UserSeedHeld
  BY DEF Init, UserSeedHeld
<1>2. TypeOK /\ TypeOK' /\ UserSeedHeld /\ [Next]_vars => UserSeedHeld'
  BY UserSeedStep
<1>. QED BY <1>1, <1>2, TypeCorrect, PTL DEF Spec

-----------------------------------------------------------------------------
(* The SOC shown and the counter.  A voltage that could not be read can leave  *)
(* a SOC shown for a counter that is seeded later and lower, so this one holds *)
(* as long as BATV can be read.                                                *)

\* A seed is rounded down to uAh, and back it may be RoundingPct too low.
LEMMA RoundTrip ==
  ASSUME NEW p \in 0..100
  PROVE  RoundingPct \in Nat /\ p <= UahToPct(PctToUah(p)) + RoundingPct
<1>. DEFINE q == PctToUah(p)
            u == (q * 100) \div Full
            k == (99 + Full) \div Full
<1>1. Full \in Nat /\ Full > 0 /\ p \in Int
  BY FullAssumption
<1>2. q \in 0..Full
  BY PctToUahRange
<1>3. p * Full <= 100 * q + 99
  BY <1>1 DEF PctToUah
<1>4. u \in Int /\ k \in Int /\ q \in Int
  BY <1>1, <1>2
<1>5. 100 * q < Full * (u + 1)
  <2>. HIDE DEF q
  <2>1. q * 100 \in Int
    BY <1>4
  <2>2. \A x \in Int : x < Full * (x \div Full + 1)
    BY <1>1
  <2>. QED BY <1>4, <2>1, <2>2
<1>6. 99 < Full * k
  <2>1. \A x \in Int : x < Full * (x \div Full + 1)
    BY <1>1
  <2>2. 99 + Full < Full * (k + 1)
    BY <1>1, <2>1
  <2>3. Full * (k + 1) = Full * k + Full
    <3>. HIDE DEF k
    <3>. QED BY <1>1, <1>4
  <2>4. Full * k \in Int
    <3>. HIDE DEF k
    <3>. QED BY <1>1, <1>4
  <2>. HIDE DEF k
  <2>. QED BY <1>1, <2>2, <2>3, <2>4
<1>7. p <= u + k
  <2>. HIDE DEF q, u, k
  <2>1. Full * (u + 1) + Full * k = Full * (u + 1 + k)
    BY <1>1, <1>4
  <2>2. Full * p < Full * (u + 1 + k)
    BY <1>1, <1>3, <1>4, <1>5, <1>6, <2>1
  <2>3. p < u + 1 + k
    BY <1>1, <1>4, <2>2
  <2>. QED BY <1>1, <1>4, <2>3
<1>8. k \in Nat
  <2>. HIDE DEF k
  <2>1. CASE k < 0
    <3>1. Full * k <= 0
      BY <1>1, <1>4, <2>1
    <3>. QED BY <1>6, <3>1, <1>1, <1>4
  <2>. QED BY <1>4, <2>1
<1>9. p <= UahToPct(q) + k
  <2>. HIDE DEF k
  <2>1. UahToPct(q) = IF u < 0 THEN 0 ELSE IF u > 100 THEN 100 ELSE u
    BY DEF UahToPct
  <2>. HIDE DEF u, q
  <2>. QED BY <1>4, <1>7, <1>8, <2>1
<1>. QED BY <1>8, <1>9 DEF RoundingPct

LEMMA PublishBound ==
  ASSUME NEW soc \in Int, NEW b \in Nat, soc <= b, Publish(soc)
  PROVE  capacity_cache' <= b
BY DEF Publish

OverInv ==
  /\ TypeOK /\ UserSeedHeld
  /\ capacity_valid => remain >= 0
  /\ NeverOverstated

\* Each branch of a sample shows what its counter allows.
LEMMA SampleNotOver ==
  ASSUME ~BatvFails, OverInv, TypeOK', Sample
  PROVE  remain' >= 0 /\ capacity_cache' <= UahToPct(remain') + RoundingPct
<1>1. \A x \in BatvReads : x = cell
  BY DEF BatvReads
<1>2. PICK vs \in BatvReads, vt \in BatvReads :
        \/ SampleDone(vs, vt)
        \/ \E move \in Moves : SampleCharging(vs, vt, move)
        \/ SampleHold(vs, vt)
        \/ \E move \in Moves, proxy \in ProxyDrops, drop \in RestDrops,
              rested, done, low_ok \in BOOLEAN,
              charging \in SecondRead :
             SampleDischarging(vs, vt, move, proxy, rested, drop, done,
                               charging, low_ok)
  BY DEF Sample
<1>3. vs = cell /\ cell \in 0..100
  BY <1>1, <1>2, OcvAssumption DEF OverInv, TypeOK
<1>. DEFINE r == SeededUah(cell)
            n == SeededNah(cell)
<1>4. (IF vs >= 0 THEN vs ELSE vt) = cell /\ OcvPct(vs) = cell
  BY <1>3 DEF OcvPct
<1>5. r \in 0..Full /\ n \in 0..(1000 * Full)
  <2>1. r \in -1..Full /\ n \in 0..(1000 * Full)
    BY <1>3, SeedRange DEF OverInv
  <2>2. r >= 0
    <3>1. CASE fg_user_seeded
      <4>1. remain >= 0 /\ remain \in Int
        BY <3>1, FullAssumption DEF OverInv, UserSeedHeld, TypeOK
      <4>. QED BY <4>1, <3>1 DEF SeededUah, Seeds
    <3>2. CASE ~fg_user_seeded
      BY <1>3, <3>2, SeedRange DEF OverInv
    <3>. QED BY <3>1, <3>2
  <2>. HIDE DEF r, n
  <2>. QED BY <2>1, <2>2, FullAssumption
<1>6. RoundingPct \in Nat /\ \A x \in 0..100 : x <= UahToPct(PctToUah(x)) + RoundingPct
  BY RoundTrip
<1>7. remain' \in Int /\ UahToPct(remain') \in 0..100
  <2>1. remain' \in Int
    BY FullAssumption DEF TypeOK
  <2>. QED BY <2>1, UahToPctRange
<1>8. CASE SampleDone(vs, vt)
  <2>1. remain' = Full /\ Publish(100)
    BY <1>8 DEF SampleDone
  <2>2. UahToPct(Full) = 100
    <3>1. (Full * 100) \div Full = 100
      BY FullAssumption
    <3>. QED BY <3>1 DEF UahToPct
  <2>3. capacity_cache' <= 100
    BY <2>1, PublishBound
  <2>. QED BY <1>6, <2>1, <2>2, <2>3, FullAssumption DEF TypeOK
<1>9. ASSUME NEW move \in Moves, SampleCharging(vs, vt, move)
      PROVE  remain' >= 0 /\ capacity_cache' <= UahToPct(remain') + RoundingPct
  <2>. DEFINE i == IF Integrating THEN move ELSE 0
  <2>1. remain' = IntegratedUah(r, n, i)
    BY <1>4, <1>9 DEF SampleCharging
  <2>2. i \in Int
    BY MovesAssumption
  <2>3. remain' >= 0
    <3>. HIDE DEF r, n, i
    <3>. QED BY <1>5, <2>1, <2>2, IntegratorRange, FullAssumption
  <2>4. Publish(UahToPct(remain'))
    BY <1>9, <2>3 DEF SampleCharging
  <2>5. capacity_cache' <= UahToPct(remain')
    BY <1>7, <2>4, PublishBound
  <2>6. capacity_cache' \in Int
    BY DEF TypeOK
  <2>. QED BY <1>6, <1>7, <2>3, <2>5, <2>6
<1>10. CASE SampleHold(vs, vt)
  <2>1. remain' = r
    <3>1. remain' = IF SeededUah(cell) < 0 THEN PctToUah(cell) ELSE SeededUah(cell)
      BY <1>4, <1>10 DEF SampleHold
    <3>. HIDE DEF r
    <3>2. r = SeededUah(cell)
      BY DEF r
    <3>. QED BY <1>5, <3>1, <3>2
  <2>2. Publish(IF SeededValid(cell) THEN SeededCache(cell) ELSE UahToPct(r))
    <3>1. Publish(IF SeededUah(cell) < 0 THEN cell
                  ELSE IF SeededValid(cell) THEN SeededCache(cell) ELSE UahToPct(SeededUah(cell)))
      BY <1>4, <1>10 DEF SampleHold
    <3>2. ~(SeededUah(cell) < 0)
      BY <1>5
    <3>. QED BY <3>1, <3>2
  <2>3. CASE Seeds(cell)
    <3>1. ~capacity_valid /\ r = PctToUah(cell) /\ SeededCache(cell) = cell
          /\ SeededValid(cell)
      BY <2>3, FullAssumption DEF Seeds, SeededUah, SeededCache, SeededValid, OverInv, TypeOK
    <3>2. Publish(cell)
      BY <2>2, <3>1
    <3>3. capacity_cache' <= cell
      BY <1>3, <3>2, PublishBound
    <3>4. cell <= UahToPct(remain') + RoundingPct
      BY <1>3, <1>6, <2>1, <3>1
    <3>5. capacity_cache' \in Int /\ remain' >= 0
      BY <1>5, <2>1 DEF TypeOK
    <3>. QED BY <1>3, <1>6, <1>7, <3>3, <3>4, <3>5
  <2>4. CASE ~Seeds(cell)
    <3>1. r = remain /\ SeededCache(cell) = capacity_cache
          /\ SeededValid(cell) = capacity_valid
      BY <2>4 DEF SeededUah, SeededCache, SeededValid, OverInv, TypeOK
    <3>2. remain >= 0
      BY <1>5, <3>1
    <3>3. CASE capacity_valid
      <4>1. Publish(capacity_cache)
        BY <2>2, <3>1, <3>3
      <4>2. capacity_cache \in 0..100 /\ capacity_cache' <= capacity_cache
        <5>1. capacity_cache \in 0..100 /\ capacity_cache \in Int /\ capacity_cache \in Nat
          BY DEF OverInv, TypeOK
        <5>2. capacity_cache <= capacity_cache
          BY <5>1
        <5>. QED BY <4>1, <5>1, <5>2, PublishBound
      <4>3. capacity_cache <= UahToPct(remain') + RoundingPct
        BY <2>1, <3>1, <3>2, <3>3 DEF OverInv, NeverOverstated
      <4>4. capacity_cache' \in Int /\ remain' >= 0
        BY <1>5, <2>1 DEF TypeOK
      <4>. QED BY <1>6, <1>7, <4>2, <4>3, <4>4
    <3>4. CASE ~capacity_valid
      <4>1. Publish(UahToPct(remain'))
        BY <2>1, <2>2, <3>1, <3>4
      <4>2. capacity_cache' <= UahToPct(remain')
        BY <1>7, <4>1, PublishBound
      <4>3. capacity_cache' \in Int /\ remain' >= 0
        BY <1>5, <2>1 DEF TypeOK
      <4>. QED BY <1>6, <1>7, <4>2, <4>3
    <3>. QED BY <3>3, <3>4
  <2>. QED BY <2>3, <2>4
<1>11. ASSUME NEW move \in Moves, NEW proxy \in ProxyDrops, NEW drop \in RestDrops,
              NEW rested \in BOOLEAN, NEW done \in BOOLEAN, NEW low_ok \in BOOLEAN,
              NEW charging \in SecondRead,
              SampleDischarging(vs, vt, move, proxy, rested, drop, done,
                                charging, low_ok)
       PROVE  remain' >= 0 /\ capacity_cache' <= UahToPct(remain') + RoundingPct
  <2>. DEFINE i == IF Integrating THEN move ELSE 0
              r1 == IF Integrating THEN IntegratedUah(r, n, i) ELSE ProxyUah(r, proxy)
              soc_in == IF r1 < 0 THEN cell ELSE SeededCache(cell)
              soc == UahToPct(remain')
              settled == IF rested /\ fg_mode # "DISCHARGING_RESTING"
                         THEN RestedSoc(soc_in, soc, cell, drop) ELSE soc
              shown == IF LowVPersist > 0 /\ low_v_count' >= LowVPersist /\ low_ok
                          /\ vs >= 0
                       THEN MinOf(1, settled) ELSE settled
  <2>1. i \in Int /\ drop \in Int
    BY MovesAssumption, DropsAssumption
  <2>2. r1 \in 0..Full
    <3>1. IntegratedUah(r, n, i) \in 0..Full
      <4>. HIDE DEF r, n, i
      <4>1. IntegratedUah(r, n, i) \in -1..Full /\ IntegratedUah(r, n, i) >= 0
        BY <1>5, <2>1, IntegratorRange, FullAssumption
      <4>. QED BY <4>1, FullAssumption
    <3>2. ProxyUah(r, proxy) \in 0..Full
      <4>. HIDE DEF r
      <4>1. ProxyUah(r, proxy) \in -1..Full /\ ProxyUah(r, proxy) >= 0
        BY <1>5, ProxyRange, FullAssumption
      <4>. QED BY <4>1, FullAssumption
    <3>. QED BY <3>1, <3>2
  <2>3. remain' = IF r1 < 0 THEN PctToUah(cell) ELSE r1
    BY <1>4, <1>11 DEF SampleDischarging
  <2>4. remain' >= 0
    <3>. HIDE DEF r1
    <3>. QED BY <2>2, <2>3, FullAssumption
  <2>5. SeededCache(cell) \in 0..100
    BY <1>3, SeedRange DEF OverInv
  <2>6. soc_in \in 0..100
    <3>. HIDE DEF r1
    <3>. QED BY <1>3, <2>5
  <2>7. RestedSoc(soc_in, soc, cell, drop) \in Int /\ RestedSoc(soc_in, soc, cell, drop) <= soc
    <3>. HIDE DEF soc_in, soc
    <3>1. soc \in Int
      BY <1>7 DEF soc
    <3>. QED BY <1>3, <2>1, <2>6, <3>1 DEF RestedSoc, MinOf, MaxOf
  <2>8. settled \in Int /\ settled <= soc /\ soc \in 0..100
    <3>1. soc \in 0..100
      BY <1>7
    <3>. HIDE DEF soc_in, soc
    <3>. QED BY <2>7, <3>1
  <2>9. shown \in Int /\ shown <= soc
    <3>. HIDE DEF settled, soc
    <3>. QED BY <2>8 DEF MinOf
  <2>10. Publish(shown)
    BY <1>4, <1>11 DEF SampleDischarging
  <2>11. capacity_cache' <= soc
    <3>. HIDE DEF shown, soc
    <3>. QED BY <2>8, <2>9, <2>10, PublishBound
  <2>12. capacity_cache' \in Int
    BY DEF TypeOK
  <2>. QED BY <1>6, <1>7, <2>4, <2>11, <2>12
<1>. QED BY <1>2, <1>8, <1>9, <1>10, <1>11

LEMMA OverStep ==
  ASSUME ~BatvFails, OverInv, [Next]_vars PROVE OverInv'
<1>1. TypeOK' /\ UserSeedHeld'
  BY TypeStep, UserSeedStep DEF OverInv
<1>2. CASE Sample
  BY <1>1, <1>2, SampleNotOver DEF OverInv, NeverOverstated
<1>3. CASE CalibrateSeed
  <2>1. ~capacity_valid' 
    <3>1. remain < 0 /\ remain \in Int /\ capacity_valid' = capacity_valid
      BY <1>3, FullAssumption DEF CalibrateSeed, published, OverInv, TypeOK
    <3>. QED BY <3>1 DEF OverInv
  <2>. QED BY <1>1, <2>1 DEF OverInv, NeverOverstated
<1>4. ASSUME NEW u \in Stores, StoreCoulomb(u) PROVE OverInv'
  <2>1. remain' \in 0..Full
    <3>1. remain' \in -1..Full
      BY <1>1 DEF TypeOK
    <3>2. remain' = StoredUah(u)
      BY <1>4 DEF StoreCoulomb
    <3>3. u \in Int
      <4>1. \A p \in OcvPcts : PctToUah(p) \in 0..Full
        BY PctToUahRange, OcvAssumption
      <4>. QED BY <4>1, FullAssumption DEF Stores
    <3>. QED BY <3>1, <3>2, <3>3, FullAssumption DEF StoredUah, MinOf, MaxOf
  <2>2. capacity_cache' = UahToPct(remain') /\ UahToPct(remain') \in 0..100
    <3>1. remain' \in Int
      BY <2>1, FullAssumption
    <3>. QED BY <1>4, <3>1, UahToPctRange DEF StoreCoulomb
  <2>3. RoundingPct \in Nat
    BY RoundTrip
  <2>. QED BY <1>1, <2>1, <2>2, <2>3, FullAssumption DEF OverInv, NeverOverstated
<1>5. CASE ResetSoc
  <2>1. ~capacity_valid'
    BY <1>5 DEF ResetSoc
  <2>. QED BY <1>1, <2>1 DEF OverInv, NeverOverstated
<1>6. CASE \/ Ina228Probe \/ SetIna228Enabled \/ CacheChipState \/ CellMoves
           \/ UNCHANGED vars
  <2>1. UNCHANGED <<capacity_cache, capacity_valid, remain>>
    BY <1>6 DEF Ina228Probe, SetIna228Enabled, CacheChipState, CellMoves, vars,
                published, counter
  <2>. QED BY <1>1, <2>1 DEF OverInv, NeverOverstated
<1>. QED BY <1>2, <1>3, <1>4, <1>5, <1>6 DEF Next

\* The SOC shown is never above the counter by more than a seed's rounding,
\* as long as the BATV register can be read.
THEOREM SocIsBacked ==
  ASSUME ~BatvFails PROVE Spec => []NeverOverstated
<1>1. Init => OverInv
  BY TypeInit DEF Init, OverInv, UserSeedHeld, NeverOverstated
<1>2. OverInv /\ [Next]_vars => OverInv'
  BY OverStep
<1>3. OverInv => NeverOverstated
  BY DEF OverInv
<1>. QED BY <1>1, <1>2, <1>3, PTL DEF Spec

-----------------------------------------------------------------------------
(* The SOC shown does not collapse.  A sample shows what its counter gives, *)
(* what the curve gives, or the last SOC less a rest correction; and only   *)
(* the low-voltage guard goes below that.                                   *)

\* m uAh cost no more than PctOf(m) percent, wherever on the scale they go.
LEMMA PctMoves ==
  ASSUME NEW a \in 0..Full, NEW b \in 0..Full, NEW m \in Nat, b >= a - m
  PROVE  PctOf(m) \in Nat /\ UahToPct(b) >= UahToPct(a) - PctOf(m)
<1>. DEFINE u == (a * 100) \div Full
            w == (b * 100) \div Full
            k == (100 * m + Full - 1) \div Full
<1>1. Full \in Nat /\ Full > 0 /\ a \in Int /\ b \in Int
  BY FullAssumption
<1>2. \A x \in Int : /\ x \div Full \in Int
                     /\ Full * (x \div Full) <= x /\ x < Full * (x \div Full + 1)
  BY <1>1
<1>3. a * 100 \in Int /\ b * 100 \in Int /\ 100 * m + Full - 1 \in Int
  BY <1>1
<1>4. u \in Int /\ w \in Int /\ k \in Int
  BY <1>2, <1>3
<1>5. Full * u <= 100 * a /\ 100 * b < Full * (w + 1)
      /\ 100 * m + Full - 1 < Full * (k + 1)
  BY <1>1, <1>2, <1>3
<1>6. UahToPct(a) = IF u < 0 THEN 0 ELSE IF u > 100 THEN 100 ELSE u
  BY DEF UahToPct
<1>7. UahToPct(b) = IF w < 0 THEN 0 ELSE IF w > 100 THEN 100 ELSE w
  BY DEF UahToPct
<1>8. PctOf(m) = k
  BY DEF PctOf
<1>. HIDE DEF u, w, k
<1>9. Full * (k + 1) = Full * k + Full /\ Full * k \in Int /\ Full * u \in Int
      /\ Full * (w + 1) \in Int /\ Full * (w + 1) + Full * k = Full * (w + 1 + k)
  BY <1>1, <1>4
<1>10. 100 * m <= Full * k
  BY <1>1, <1>3, <1>5, <1>9
<1>11. k >= 0
  <2>1. CASE k < 0
    <3>1. k <= -1
      BY <1>4, <2>1
    <3>2. Full * k <= -Full
      BY <1>1, <1>4, <3>1
    <3>. QED BY <1>1, <1>9, <1>10, <3>2
  <2>. QED BY <1>4, <2>1
<1>12. u <= w + k
  <2>1. Full * u < Full * (w + 1 + k)
    BY <1>1, <1>5, <1>9, <1>10
  <2>2. u < w + 1 + k
    BY <1>1, <1>4, <2>1
  <2>. QED BY <1>4, <2>2
<1>. QED BY <1>4, <1>6, <1>7, <1>8, <1>11, <1>12

LEMMA PctMonotone ==
  ASSUME NEW a \in 0..Full, NEW b \in 0..Full, b >= a
  PROVE  UahToPct(b) >= UahToPct(a)
<1>1. Full \in Nat /\ Full > 0 /\ a \in Int /\ b \in Int
  BY FullAssumption
<1>2. (100 * 0 + Full - 1) \div Full = 0
  BY <1>1
<1>3. PctOf(0) = 0
  BY <1>2 DEF PctOf
<1>4. UahToPct(b) >= UahToPct(a) - PctOf(0)
  BY <1>1, PctMoves
<1>5. UahToPct(a) \in Int /\ UahToPct(b) \in Int
  BY <1>1, UahToPctRange
<1>. QED BY <1>3, <1>4, <1>5

\* A voltage that can be read is the cell's, and seeds a counter that was never seeded.
LEMMA SampleReads ==
  ASSUME ~BatvFails, OverInv, Sample
  PROVE  /\ cell \in 0..100 /\ OcvPct(cell) = cell
         /\ SeededUah(cell) \in 0..Full /\ SeededNah(cell) \in 0..(1000 * Full)
         /\ remain < 0 => Seeds(cell)
         /\ \/ SampleDone(cell, cell)
            \/ \E move \in Moves : SampleCharging(cell, cell, move)
            \/ SampleHold(cell, cell)
            \/ \E move \in Moves, proxy \in ProxyDrops, drop \in RestDrops,
                  rested, done, low_ok \in BOOLEAN, charging \in SecondRead :
                 SampleDischarging(cell, cell, move, proxy, rested, drop, done,
                                   charging, low_ok)
<1>1. \A x \in BatvReads : x = cell
  BY DEF BatvReads
<1>2. cell \in 0..100
  BY OcvAssumption DEF OverInv, TypeOK
<1>3. OcvPct(cell) = cell
  BY <1>2 DEF OcvPct
<1>4. remain \in Int /\ (remain < 0 => Seeds(cell))
  BY <1>2, FullAssumption DEF OverInv, TypeOK, UserSeedHeld, Seeds
<1>5. SeededUah(cell) \in -1..Full /\ SeededNah(cell) \in 0..(1000 * Full)
  BY <1>2, SeedRange DEF OverInv
<1>6. SeededUah(cell) >= 0
  <2>1. CASE Seeds(cell)
    BY <1>2, <2>1, SeedRange DEF Seeds, OverInv
  <2>2. CASE ~Seeds(cell)
    <3>1. SeededUah(cell) = remain
      BY <2>2 DEF SeededUah
    <3>. QED BY <1>4, <2>2, <3>1
  <2>. QED BY <2>1, <2>2
<1>7. SeededUah(cell) \in 0..Full
  BY <1>5, <1>6, FullAssumption
<1>. QED BY <1>1, <1>2, <1>3, <1>4, <1>5, <1>7 DEF Sample

\* What a sample shows before the low-voltage guard: the end of a charge, the counter, or
\* the last SOC less a rest correction, and for a first SOC no less than the curve.
ShownFrom(c) ==
  \/ c = 100
  \/ c >= UahToPct(remain')
  \/ /\ c >= SeededCache(cell) - MaxRestDrop
     /\ Seeds(cell) /\ ~capacity_valid => c >= cell

Guarded == LowVPersist > 0 /\ low_v_count' >= LowVPersist

LEMMA SampleShown ==
  ASSUME ~BatvFails, OverInv, TypeOK', Sample
  PROVE  \E c \in 0..100 : /\ ShownFrom(c)
                           /\ \/ capacity_cache' = c
                              \/ Guarded /\ capacity_cache' = MinOf(1, c)
<1>. DEFINE r == SeededUah(cell)
            n == SeededNah(cell)
            Goal == \E c \in 0..100 : /\ ShownFrom(c)
                                      /\ \/ capacity_cache' = c
                                         \/ Guarded /\ capacity_cache' = MinOf(1, c)
<1>1. cell \in 0..100 /\ OcvPct(cell) = cell /\ r \in 0..Full /\ n \in 0..(1000 * Full)
  BY SampleReads
<1>2. UahToPct(remain') \in 0..100
  <2>1. remain' \in Int
    BY FullAssumption DEF TypeOK
  <2>. QED BY <2>1, UahToPctRange
<1>3. SeededCache(cell) \in 0..100 /\ MaxRestDrop \in Nat
  BY <1>1, SeedRange, DropsAssumption DEF OverInv
<1>4. ASSUME NEW c \in 0..100, Publish(c) PROVE capacity_cache' = c
  BY <1>4 DEF Publish
<1>. HIDE DEF r, n
<1>5. CASE SampleDone(cell, cell)
  <2>1. Publish(100)
    BY <1>5 DEF SampleDone
  <2>. QED BY <1>4, <2>1 DEF ShownFrom
<1>6. ASSUME NEW move \in Moves, SampleCharging(cell, cell, move) PROVE Goal
  <2>. DEFINE i == IF Integrating THEN move ELSE 0
  <2>1. remain' = IntegratedUah(r, n, i)
    BY <1>1, <1>6 DEF SampleCharging, r, n
  <2>2. i \in Int
    BY MovesAssumption
  <2>3. remain' >= 0
    <3>. HIDE DEF i
    <3>. QED BY <1>1, <2>1, <2>2, IntegratorRange, FullAssumption
  <2>4. Publish(UahToPct(remain'))
    BY <1>6, <2>3 DEF SampleCharging
  <2>5. ShownFrom(UahToPct(remain'))
    BY <1>2 DEF ShownFrom
  <2>. QED BY <1>2, <1>4, <2>4, <2>5
<1>7. CASE SampleHold(cell, cell)
  <2>1. remain' = r
    <3>1. remain' = IF r < 0 THEN PctToUah(cell) ELSE r
      BY <1>1, <1>7 DEF SampleHold, r
    <3>. QED BY <1>1, <3>1, FullAssumption
  <2>2. Publish(IF SeededValid(cell) THEN SeededCache(cell) ELSE UahToPct(r))
    <3>1. Publish(IF r < 0 THEN cell
                  ELSE IF SeededValid(cell) THEN SeededCache(cell) ELSE UahToPct(r))
      BY <1>1, <1>7 DEF SampleHold, r
    <3>2. ~(r < 0)
      BY <1>1, FullAssumption
    <3>. QED BY <3>1, <3>2
  <2>3. ShownFrom(SeededCache(cell))
    <3>1. Seeds(cell) /\ ~capacity_valid => SeededCache(cell) = cell
      BY DEF SeededCache
    <3>. QED BY <1>1, <1>3, <3>1 DEF ShownFrom
  <2>4. CASE SeededValid(cell)
    BY <1>3, <1>4, <2>2, <2>3, <2>4
  <2>5. CASE ~SeededValid(cell)
    <3>1. ShownFrom(UahToPct(remain'))
      BY <1>2 DEF ShownFrom
    <3>. QED BY <1>2, <1>4, <2>1, <2>2, <2>5, <3>1
  <2>. QED BY <2>4, <2>5
<1>8. ASSUME NEW move \in Moves, NEW proxy \in ProxyDrops, NEW drop \in RestDrops,
             NEW rested \in BOOLEAN, NEW done \in BOOLEAN, NEW low_ok \in BOOLEAN,
             NEW charging \in SecondRead,
             SampleDischarging(cell, cell, move, proxy, rested, drop, done, charging, low_ok)
      PROVE  Goal
  <2>. DEFINE i == IF Integrating THEN move ELSE 0
              r1 == IF Integrating THEN IntegratedUah(r, n, i) ELSE ProxyUah(r, proxy)
              soc_in == IF r1 < 0 THEN cell ELSE SeededCache(cell)
              soc == UahToPct(remain')
              settled == IF rested /\ fg_mode # "DISCHARGING_RESTING"
                         THEN RestedSoc(soc_in, soc, cell, drop) ELSE soc
              shown == IF LowVPersist > 0 /\ low_v_count' >= LowVPersist /\ low_ok
                          /\ cell >= 0
                       THEN MinOf(1, settled) ELSE settled
  <2>1. i \in Int /\ drop \in 0..MaxRestDrop
    BY MovesAssumption, DropsAssumption
  <2>2. r1 >= 0 /\ r1 \in Int
    <3>1. IntegratedUah(r, n, i) >= 0 /\ IntegratedUah(r, n, i) \in Int
      <4>1. r \in 0..Full /\ n \in 0..(1000 * Full) /\ i \in Int
        BY <1>1, <2>1
      <4>. HIDE DEF i
      <4>2. IntegratedUah(r, n, i) \in -1..Full /\ IntegratedUah(r, n, i) >= 0
        BY <4>1, IntegratorRange, FullAssumption
      <4>. QED BY <4>2, FullAssumption
    <3>2. ProxyUah(r, proxy) >= 0 /\ ProxyUah(r, proxy) \in Int
      BY <1>1, ProxyRange, FullAssumption
    <3>. QED BY <3>1, <3>2
  <2>3. Publish(shown)
    BY <1>1, <1>8 DEF SampleDischarging, r, n
  <2>4. soc_in = SeededCache(cell)
    <3>. HIDE DEF r1
    <3>. QED BY <2>2
  <2>5. soc \in 0..100
    BY <1>2
  <2>. HIDE DEF soc_in, r1, i
  <2>. DEFINE q == RestedSoc(soc_in, soc, cell, drop)
  <2>6. /\ q \in 0..100
        /\ q >= soc \/ (q >= SeededCache(cell) - MaxRestDrop /\ q >= cell)
    <3>1. soc_in \in 0..100 /\ drop \in Nat /\ drop <= MaxRestDrop
      BY <1>3, <2>1, <2>4
    <3>2. q = MinOf(soc, MaxOf(cell, soc_in - drop))
      BY DEF RestedSoc
    <3>. HIDE DEF soc, q
    <3>. DEFINE x == MaxOf(cell, soc_in - drop)
    <3>3. x \in 0..100 /\ x >= cell /\ x >= SeededCache(cell) - MaxRestDrop
      BY <1>1, <1>3, <2>4, <3>1 DEF MaxOf
    <3>. HIDE DEF x
    <3>. QED BY <2>5, <3>2, <3>3 DEF MinOf, x
  <2>7. settled \in 0..100 /\ ShownFrom(settled)
    BY <2>5, <2>6 DEF ShownFrom
  <2>. HIDE DEF settled
  <2>8. MinOf(1, settled) \in 0..100
    BY <2>7 DEF MinOf
  <2>9. \/ capacity_cache' = settled
        \/ Guarded /\ capacity_cache' = MinOf(1, settled)
    BY <1>4, <2>3, <2>7, <2>8 DEF Guarded
  <2>. QED BY <2>7, <2>9
<1>. QED BY <1>5, <1>6, <1>7, <1>8, SampleReads

\* From a seed the first sample moves the counter by no more than its charge.
LEMMA SeedMoves ==
  ASSUME NEW uah \in 0..Full, NEW m \in Moves
  PROVE  IntegratedUah(uah, 1000 * uah, m) >= uah - MaxMove
<1>1. /\ Full \in Nat /\ MaxMove \in Nat /\ m \in Int /\ uah \in Int
      /\ m <= 1000 * MaxMove
  BY FullAssumption, MovesAssumption
<1>2. CASE m = 0
  BY <1>1, <1>2 DEF IntegratedUah
<1>3. CASE m # 0
  <2>. DEFINE moved == MovedNah(uah, 1000 * uah, m)
  <2>1. BaseNah(uah, 1000 * uah) = 1000 * uah
    BY <1>1 DEF BaseNah
  <2>2. moved = MaxOf(0, MinOf(1000 * Full, 1000 * uah - m))
    BY <2>1 DEF MovedNah
  <2>3. IntegratedUah(uah, 1000 * uah, m) = (moved + 500) \div 1000
    BY <1>1, <1>3 DEF IntegratedUah
  <2>. HIDE DEF moved
  <2>4. moved \in Int /\ 1000 * (uah - MaxMove) <= moved
    BY <1>1, <2>2 DEF MinOf, MaxOf
  <2>5. (moved + 500) \div 1000 >= uah - MaxMove
    BY <1>1, <2>4
  <2>. QED BY <2>3, <2>5
<1>. QED BY <1>2, <1>3

LEMMA FirstCounter ==
  ASSUME ~BatvFails, OverInv, TypeOK', Sample, remain < 0
  PROVE  remain' >= MaxOf(0, PctToUah(cell) - MaxMove)
<1>. DEFINE r == SeededUah(cell)
            n == SeededNah(cell)
<1>1. cell \in 0..100 /\ OcvPct(cell) = cell /\ Seeds(cell) /\ n \in 0..(1000 * Full)
  BY SampleReads
<1>2. r = PctToUah(cell) /\ (ina228 => n = 1000 * r)
  BY <1>1 DEF SeededUah, SeededNah
<1>3. r \in 0..Full
  BY <1>1, <1>2, PctToUahRange
<1>4. MaxMove \in Nat /\ Full \in Nat /\ r \in Int
  BY <1>3, MovesAssumption, FullAssumption
<1>. HIDE DEF r, n
<1>5. remain' >= 0
  BY SampleNotOver
<1>6. ASSUME NEW m \in Moves, NEW i, i = IF Integrating THEN m ELSE 0
      PROVE  IntegratedUah(r, n, i) >= r - MaxMove
  <2>1. CASE Integrating
    BY <1>2, <1>3, <1>6, <2>1, SeedMoves DEF Integrating
  <2>2. CASE ~Integrating
    <3>1. IntegratedUah(r, n, i) = r
      BY <1>6, <2>2 DEF IntegratedUah
    <3>. QED BY <1>4, <3>1
  <2>. QED BY <2>1, <2>2
<1>7. ASSUME NEW d \in ProxyDrops PROVE ProxyUah(r, d) >= r - MaxMove
  <2>1. d \in 0..MaxMove
    BY DropsAssumption
  <2>. QED BY <1>3, <1>4, <2>1 DEF ProxyUah, MaxOf
<1>8. remain' >= r - MaxMove
  <2>1. CASE SampleDone(cell, cell)
    <3>1. remain' = Full
      BY <2>1 DEF SampleDone
    <3>. QED BY <1>3, <1>4, <3>1
  <2>2. ASSUME NEW move \in Moves, SampleCharging(cell, cell, move)
        PROVE  remain' >= r - MaxMove
    <3>1. remain' = IntegratedUah(r, n, IF Integrating THEN move ELSE 0)
      BY <1>1, <2>2 DEF SampleCharging, r, n
    <3>. QED BY <1>6, <3>1
  <2>3. CASE SampleHold(cell, cell)
    <3>1. remain' = IF r < 0 THEN PctToUah(cell) ELSE r
      BY <1>1, <2>3 DEF SampleHold, r
    <3>. QED BY <1>3, <1>4, <3>1
  <2>4. ASSUME NEW move \in Moves, NEW proxy \in ProxyDrops, NEW drop \in RestDrops,
               NEW rested \in BOOLEAN, NEW done \in BOOLEAN, NEW low_ok \in BOOLEAN,
               NEW charging \in SecondRead,
               SampleDischarging(cell, cell, move, proxy, rested, drop, done, charging, low_ok)
        PROVE  remain' >= r - MaxMove
    <3>. DEFINE i == IF Integrating THEN move ELSE 0
                r1 == IF Integrating THEN IntegratedUah(r, n, i) ELSE ProxyUah(r, proxy)
    <3>1. remain' = IF r1 < 0 THEN PctToUah(cell) ELSE r1
      BY <1>1, <2>4 DEF SampleDischarging, r, n
    <3>2. r1 >= r - MaxMove
      BY <1>6, <1>7
    <3>. HIDE DEF r1
    <3>. QED BY <1>2, <1>3, <1>4, <3>1, <3>2
  <2>. QED BY <2>1, <2>2, <2>3, <2>4, SampleReads
<1>9. remain' \in Int
  BY FullAssumption DEF TypeOK
<1>. QED BY <1>2, <1>4, <1>5, <1>8, <1>9 DEF MaxOf

\* Steps other than a sample publish nothing lower, unless userspace writes or resets.
LEMMA QuietSteps ==
  ASSUME OverInv, [Next]_vars, ~Sample, NotWritten, capacity_valid'
  PROVE  capacity_valid /\ capacity_cache' = capacity_cache
<1>1. ASSUME NEW u \in Stores, StoreCoulomb(u) PROVE FALSE
  <2>1. seed_gen' = ~seed_gen /\ seed_gen \in BOOLEAN
    BY <1>1 DEF StoreCoulomb, OverInv, TypeOK
  <2>2. ~NotWritten
    <3>1. CASE seed_gen = TRUE
      BY <2>1, <3>1 DEF NotWritten
    <3>2. CASE seed_gen = FALSE
      BY <2>1, <3>2 DEF NotWritten
    <3>. QED BY <2>1, <3>1, <3>2
  <2>. QED BY <2>2
<1>2. ~ResetSoc
  BY DEF ResetSoc
<1>3. CASE CalibrateSeed
  BY <1>3 DEF CalibrateSeed, published
<1>4. CASE Ina228Probe \/ SetIna228Enabled \/ CacheChipState \/ CellMoves \/ UNCHANGED vars
  BY <1>4 DEF Ina228Probe, SetIna228Enabled, CacheChipState, CellMoves, vars, published
<1>. QED BY <1>1, <1>2, <1>3, <1>4 DEF Next

\* The charge that the next step starts from: the counter, or what a terminated charge
\* has left in the accumulator under a full one.
BackedUah == IF StaleAccumulator THEN (nah + 500) \div 1000 ELSE remain

LEMMA BackedRange ==
  ASSUME TypeOK, remain >= 0
  PROVE  /\ remain \in 0..Full /\ BackedUah \in 0..Full /\ BackedUah <= remain
         /\ StaleAccumulator => 1000 * BackedUah <= nah + 500
<1>1. Full \in Nat /\ remain \in 0..Full /\ nah \in 0..(1000 * Full)
  BY FullAssumption DEF TypeOK
<1>. DEFINE q == (nah + 500) \div 1000
<1>2. q \in Nat /\ 1000 * q <= nah + 500
  BY <1>1
<1>. HIDE DEF q
<1>3. StaleAccumulator => remain = Full /\ nah < 1000 * Full - 500
  BY DEF StaleAccumulator
<1>4. StaleAccumulator => q <= Full
  BY <1>1, <1>2, <1>3
<1>5. BackedUah = IF StaleAccumulator THEN q ELSE remain
  BY DEF BackedUah, q
<1>. QED BY <1>1, <1>2, <1>3, <1>4, <1>5

\* One INA228 step takes no more than its charge from what it starts from.
LEMMA IntegratorFloor ==
  ASSUME TypeOK, Tracks(remain, nah), remain >= 0, NEW m \in Moves
  PROVE  IntegratedUah(remain, nah, m) >= BackedUah - MaxMove
<1>1. /\ Full \in Nat /\ MaxMove \in Nat /\ m \in Int /\ m <= 1000 * MaxMove
      /\ remain \in 0..Full /\ nah \in 0..(1000 * Full)
  BY FullAssumption, MovesAssumption DEF TypeOK
<1>2. BackedUah \in 0..Full /\ BackedUah <= remain
  BY BackedRange
<1>3. CASE m = 0
  BY <1>1, <1>2, <1>3 DEF IntegratedUah
<1>4. CASE m # 0
  <2>. DEFINE base == BaseNah(remain, nah)
              moved == MovedNah(remain, nah, m)
  <2>1. base \in Int /\ base >= 1000 * BackedUah - 500
    <3>1. CASE remain = 0
      BY <1>1, <1>2, <3>1 DEF BaseNah
    <3>2. CASE remain # 0 /\ nah = 0
      <4>1. base = 1000 * remain
        BY <3>2 DEF BaseNah
      <4>. QED BY <1>1, <1>2, <4>1
    <3>3. CASE remain # 0 /\ nah # 0
      <4>1. base = nah
        BY <3>3 DEF BaseNah
      <4>2. CASE StaleAccumulator
        <5>1. 1000 * BackedUah <= nah + 500
          BY <4>2, BackedRange
        <5>. QED BY <1>1, <1>2, <4>1, <5>1
      <4>3. CASE ~StaleAccumulator
        <5>1. BackedUah = remain
          BY <4>3 DEF BackedUah
        <5>2. nah >= 1000 * remain - 500
          BY <1>1, <3>3, <4>3 DEF StaleAccumulator, Tracks
        <5>. QED BY <1>1, <4>1, <5>1, <5>2
      <4>. QED BY <4>2, <4>3
    <3>. QED BY <3>1, <3>2, <3>3
  <2>2. moved = MaxOf(0, MinOf(1000 * Full, base - m))
    BY DEF MovedNah
  <2>3. IntegratedUah(remain, nah, m) = (moved + 500) \div 1000
    BY <1>1, <1>4 DEF IntegratedUah
  <2>. HIDE DEF base, moved
  <2>4. moved \in Int /\ 1000 * (BackedUah - MaxMove) - 500 <= moved
    BY <1>1, <1>2, <2>1, <2>2 DEF MinOf, MaxOf
  <2>5. (moved + 500) \div 1000 >= BackedUah - MaxMove
    BY <1>1, <1>2, <2>4
  <2>. QED BY <2>3, <2>5
<1>. QED BY <1>3, <1>4

LEMMA SampleFalls ==
  ASSUME ~BatvFails, OverInv, TypeOK', Tracks(remain, nah), Sample, remain >= 0
  PROVE  remain' >= BackedUah - MaxMove
<1>1. /\ cell \in 0..100 /\ OcvPct(cell) = cell
      /\ remain \in 0..Full /\ BackedUah \in 0..Full /\ BackedUah <= remain
      /\ MaxMove \in Nat /\ Full \in Nat
  BY SampleReads, BackedRange, MovesAssumption, FullAssumption DEF OverInv
<1>2. SeededUah(cell) = remain /\ SeededNah(cell) = nah
  BY <1>1 DEF SeededUah, SeededNah, Seeds
<1>3. ASSUME NEW m \in Moves
      PROVE  IntegratedUah(remain, nah, IF Integrating THEN m ELSE 0) >= BackedUah - MaxMove
  <2>1. CASE Integrating
    BY <2>1, IntegratorFloor DEF OverInv
  <2>2. CASE ~Integrating
    <3>1. IntegratedUah(remain, nah, IF Integrating THEN m ELSE 0) = remain
      BY <2>2 DEF IntegratedUah
    <3>. QED BY <1>1, <3>1
  <2>. QED BY <2>1, <2>2
<1>4. ASSUME NEW d \in ProxyDrops PROVE ProxyUah(remain, d) >= BackedUah - MaxMove
  <2>1. d \in 0..MaxMove
    BY DropsAssumption
  <2>. QED BY <1>1, <2>1 DEF ProxyUah, MaxOf
<1>5. CASE SampleDone(cell, cell)
  <2>1. remain' = Full
    BY <1>5 DEF SampleDone
  <2>. QED BY <1>1, <2>1
<1>6. ASSUME NEW move \in Moves, SampleCharging(cell, cell, move)
      PROVE  remain' >= BackedUah - MaxMove
  <2>1. remain' = IntegratedUah(remain, nah, IF Integrating THEN move ELSE 0)
    BY <1>1, <1>2, <1>6 DEF SampleCharging
  <2>. QED BY <1>3, <2>1
<1>7. CASE SampleHold(cell, cell)
  <2>1. remain' = IF remain < 0 THEN PctToUah(cell) ELSE remain
    BY <1>1, <1>2, <1>7 DEF SampleHold
  <2>. QED BY <1>1, <2>1
<1>8. ASSUME NEW move \in Moves, NEW proxy \in ProxyDrops, NEW drop \in RestDrops,
             NEW rested \in BOOLEAN, NEW done \in BOOLEAN, NEW low_ok \in BOOLEAN,
             NEW charging \in SecondRead,
             SampleDischarging(cell, cell, move, proxy, rested, drop, done, charging, low_ok)
      PROVE  remain' >= BackedUah - MaxMove
  <2>. DEFINE i == IF Integrating THEN move ELSE 0
              r1 == IF Integrating THEN IntegratedUah(remain, nah, i) ELSE ProxyUah(remain, proxy)
  <2>1. remain' = IF r1 < 0 THEN PctToUah(cell) ELSE r1
    BY <1>1, <1>2, <1>8 DEF SampleDischarging
  <2>2. r1 >= BackedUah - MaxMove
    BY <1>3, <1>4
  <2>3. r1 >= 0
    <3>1. move \in Int /\ nah \in 0..(1000 * Full)
      BY MovesAssumption DEF OverInv, TypeOK
    <3>2. i \in Int
      BY <3>1
    <3>. HIDE DEF i
    <3>3. IntegratedUah(remain, nah, i) >= 0
      BY <1>1, <3>1, <3>2, IntegratorRange
    <3>4. ProxyUah(remain, proxy) >= 0
      BY <1>1, ProxyRange
    <3>. QED BY <3>3, <3>4
  <2>4. r1 \in Int
    <3>1. move \in Int /\ nah \in 0..(1000 * Full)
      BY MovesAssumption DEF OverInv, TypeOK
    <3>2. i \in Int
      BY <3>1
    <3>. HIDE DEF i
    <3>3. IntegratedUah(remain, nah, i) \in Int
      BY <1>1, <3>1, <3>2, IntegratorRange
    <3>4. ProxyUah(remain, proxy) \in Int
      BY <1>1, ProxyRange
    <3>. QED BY <3>3, <3>4
  <2>. HIDE DEF r1
  <2>. QED BY <2>1, <2>2, <2>3, <2>4
<1>. QED BY <1>5, <1>6, <1>7, <1>8, SampleReads

LEMMA NoCollapseStep ==
  ASSUME ~BatvFails, OnInv, OnInv', OverInv, OverInv', [Next]_vars,
         capacity_valid, capacity_valid', remain >= 0, NotWritten, ~ina228_off'
  PROVE  \/ capacity_cache' >= capacity_cache - RoundingPct - SampleCost
         \/ Guarded
         \/ /\ StaleAccumulator
            /\ capacity_cache' >= UahToPct((nah + 500) \div 1000) - SampleCost
<1>. DEFINE b == SampleCost
<1>1. /\ MaxMove \in Nat /\ MaxRestDrop \in Nat /\ RoundingPct \in Nat
      /\ capacity_cache \in 0..100 /\ capacity_cache' \in 0..100
      /\ remain \in 0..Full /\ remain' \in 0..Full /\ BackedUah \in 0..Full
  <2>1. RoundingPct \in Nat
    BY RoundTrip
  <2>2. remain' >= 0 /\ remain' \in -1..Full /\ remain \in -1..Full
    BY DEF OverInv, TypeOK
  <2>3. capacity_cache \in 0..100 /\ capacity_cache' \in 0..100
    BY DEF OverInv, TypeOK
  <2>4. BackedUah \in 0..Full
    BY BackedRange DEF OverInv
  <2>. QED BY <2>1, <2>2, <2>3, <2>4, MovesAssumption, DropsAssumption, FullAssumption
<1>2. PctOf(MaxMove) \in Nat
  BY <1>1, PctMoves, FullAssumption
<1>3. b \in Nat /\ b >= PctOf(MaxMove) /\ b >= MaxRestDrop
  BY <1>1, <1>2 DEF MaxOf, SampleCost
<1>. HIDE DEF b
<1>4. CASE ~Sample
  <2>1. capacity_cache' = capacity_cache
    BY <1>4, QuietSteps
  <2>2. capacity_cache' >= capacity_cache - RoundingPct - b
    BY <1>1, <1>3, <2>1
  <2>. QED BY <2>2 DEF b
<1>5. CASE Sample
  <2>1. PICK c \in 0..100 : /\ ShownFrom(c)
                            /\ \/ capacity_cache' = c
                               \/ Guarded /\ capacity_cache' = MinOf(1, c)
    BY <1>5, SampleShown DEF OverInv
  <2>2. SeededCache(cell) = capacity_cache
    BY DEF SeededCache
  <2>3. UahToPct(BackedUah) \in 0..100 /\ UahToPct(remain') \in 0..100
    BY <1>1, UahToPctRange
  <2>4. UahToPct(remain') >= UahToPct(BackedUah) - b
    <3>1. ~ina228_off
      BY OffStays DEF OverInv
    <3>2. Tracks(remain, nah)
      BY <3>1 DEF OnInv, CounterInv
    <3>3. remain' >= BackedUah - MaxMove
      BY <1>5, <3>2, SampleFalls DEF OverInv
    <3>4. UahToPct(remain') >= UahToPct(BackedUah) - PctOf(MaxMove)
      BY <1>1, <3>3, PctMoves
    <3>. QED BY <1>2, <1>3, <2>3, <3>4
  <2>5. \/ c >= capacity_cache - RoundingPct - b
        \/ StaleAccumulator /\ c >= UahToPct(BackedUah) - b
    <3>1. CASE c >= UahToPct(remain')
      <4>1. c >= UahToPct(BackedUah) - b
        BY <1>3, <2>3, <2>4, <3>1
      <4>2. ~StaleAccumulator => capacity_cache <= UahToPct(BackedUah) + RoundingPct
        BY DEF OverInv, NeverOverstated, BackedUah
      <4>. QED BY <1>1, <1>3, <2>3, <4>1, <4>2
    <3>2. CASE c = 100 \/ c >= SeededCache(cell) - MaxRestDrop
      BY <1>1, <1>3, <2>2, <3>2
    <3>. QED BY <2>1, <3>1, <3>2 DEF ShownFrom
  <2>6. StaleAccumulator => BackedUah = (nah + 500) \div 1000
    BY DEF BackedUah
  <2>. QED BY <2>1, <2>5, <2>6 DEF b
<1>. QED BY <1>4, <1>5

LEMMA FirstSocStep ==
  ASSUME ~BatvFails, OverInv, OverInv', [Next]_vars,
         remain < 0, NotWritten, capacity_valid', capacity_cache' = 0
  PROVE  UahToPct(MaxOf(0, PctToUah(cell) - MaxMove)) = 0
<1>. DEFINE q == PctToUah(cell)
            low == MaxOf(0, q - MaxMove)
<1>1. ~capacity_valid
  BY FullAssumption DEF OverInv, TypeOK
<1>2. Sample
  BY <1>1, QuietSteps
<1>3. cell \in 0..100 /\ Seeds(cell)
  BY <1>2, SampleReads
<1>4. q \in 0..Full /\ MaxMove \in Nat /\ Full \in Nat
  BY <1>3, PctToUahRange, MovesAssumption, FullAssumption
<1>. HIDE DEF q
<1>5. low \in 0..Full
  BY <1>4 DEF MaxOf
<1>6. UahToPct(low) \in 0..100
  BY <1>5, UahToPctRange, FullAssumption
<1>7. PICK c \in 0..100 : /\ ShownFrom(c)
                          /\ \/ capacity_cache' = c
                             \/ Guarded /\ capacity_cache' = MinOf(1, c)
  BY <1>2, SampleShown DEF OverInv
<1>8. c = 0
  BY <1>7 DEF MinOf
<1>9. CASE c >= UahToPct(remain')
  <2>1. remain' \in 0..Full /\ remain' >= low
    <3>1. remain' >= MaxOf(0, PctToUah(cell) - MaxMove)
      BY <1>2, FirstCounter DEF OverInv
    <3>2. remain' \in -1..Full
      BY DEF OverInv, TypeOK
    <3>3. remain' >= low
      BY <3>1 DEF q
    <3>. QED BY <1>4, <1>5, <3>2, <3>3
  <2>2. UahToPct(remain') >= UahToPct(low) /\ UahToPct(remain') \in 0..100
    BY <1>4, <1>5, <2>1, PctMonotone, UahToPctRange
  <2>3. UahToPct(low) = 0
    BY <1>6, <1>8, <1>9, <2>2
  <2>. QED BY <2>3 DEF q
<1>10. CASE c >= cell
  <2>1. cell = 0
    BY <1>3, <1>8, <1>10
  <2>2. q = 0
    <3>1. PctToUah(0) = 0
      BY FullAssumption DEF PctToUah
    <3>. QED BY <2>1, <3>1 DEF q
  <2>3. low = 0
    BY <1>4, <2>2 DEF MaxOf
  <2>4. UahToPct(0) = 0
    BY FullAssumption DEF UahToPct
  <2>. QED BY <2>3, <2>4 DEF q
<1>. QED BY <1>1, <1>3, <1>7, <1>8, <1>9, <1>10 DEF ShownFrom

\* From one SOC shown to the next the SOC falls by no more than one sample's charge or one
\* rest correction, unless the low-voltage guard has counted to its threshold; with one
\* exception, a full counter over a stale accumulator, from which it falls no lower than
\* the accumulator less that much.  The first SOC after probe is 0 only where BATV shows a
\* cell whose curve and one sample leave nothing.  It takes a BATV register that can be
\* read, and says nothing of a first reading that is wrong.
THEOREM SocDoesNotCollapse ==
  ASSUME ~BatvFails PROVE Spec => NoSuddenEmpty
<1>1. Init => OverInv
  BY TypeInit DEF Init, OverInv, UserSeedHeld, NeverOverstated
<1>2. OverInv /\ [Next]_vars => OverInv'
  BY OverStep
<1>3. OnInv /\ OnInv' /\ OverInv /\ OverInv' /\ [Next]_vars =>
        [ capacity_valid /\ capacity_valid' /\ remain >= 0 /\ NotWritten /\ ~ina228_off'
          => \/ capacity_cache' >= capacity_cache - RoundingPct - SampleCost
             \/ LowVPersist > 0 /\ low_v_count' >= LowVPersist
             \/ /\ StaleAccumulator
                /\ capacity_cache' >= UahToPct((nah + 500) \div 1000) - SampleCost ]_vars
  BY NoCollapseStep DEF Guarded
<1>4. OverInv /\ OverInv' /\ [Next]_vars =>
        [ remain < 0 /\ NotWritten /\ capacity_valid' /\ capacity_cache' = 0 =>
            UahToPct(MaxOf(0, PctToUah(cell) - MaxMove)) = 0 ]_vars
  BY FirstSocStep
<1>. QED BY <1>1, <1>2, <1>3, <1>4, OnInvCorrect, PTL
         DEF Spec, NoSuddenEmpty, NoSocCollapse, FirstSocNotEmpty
=============================================================================
