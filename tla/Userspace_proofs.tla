-------------------------- MODULE Userspace_proofs --------------------------
(***************************************************************************)
(* Theorems about three programs of user space, which share nothing.       *)
(*                                                                         *)
(* SocPersist: for every set of levels, every threshold and any number of  *)
(* savers, over forced saves, kills, power cuts and reloads of the driver, *)
(* a boot does not start from an empty-looking SOC, and a SOC that was     *)
(* saved under guard is believed when the boot measures what the save did. *)
(* The second needs the history: what the file holds, and what each saver  *)
(* is about to write into it, was not stale when its voltage was read.     *)
(*                                                                         *)
(* Buttons: for every length of the presses, the debounce and the taps,    *)
(* for every number of failed reads and whenever the process dies:         *)
(* KEY_POWER is down only while a gesture says so, unless a write to uinput*)
(* was lost; and each press is answered once but for the one seen down     *)
(* before the limit and confirmed up after it.                             *)
(*                                                                         *)
(* Autorotation: for every set of orientations and length of the buffer,   *)
(* however lock commands, rotations, restarts and a desktop that goes away *)
(* meet, the loop's memory is what the screen shows, with the causes that  *)
(* part them named.                                                        *)
(***************************************************************************)
EXTENDS SocPersist, Buttons, Autorotation, TLAPS

\* c was not stale under the conditions of the last save.
Fits(c) == ~SaverStale(c, origin[1], origin[2])

PersistInv ==
  /\ TypeOK
  /\ power = "off" => l_pc = "done"
  /\ \A s \in Savers : s_open[s] => s_pc[s] = "write"
  /\ origin # Unknown =>
       /\ file \in Levels => Fits(file)
       /\ \A s \in Savers : s_open[s] => Fits(s_soc[s])

LEMMA UnknownIsOrigin == Unknown \in Origins /\ \A v \in Levels, c \in BOOLEAN : <<v, c>> \in Origins
BY DEF Unknown, Origins

LEMMA InitPersist == ASSUME Init PROVE PersistInv
BY UnknownIsOrigin DEF Init, PersistInv, TypeOK

-----------------------------------------------------------------------------
(* battery-soc-persist.py *)

LEMMA SaveBeginOk == ASSUME PersistInv, NEW s \in Savers, SaveBegin(s) PROVE PersistInv'
<1>1. soc \in Levels
  BY DEF SaveBegin, PersistInv, TypeOK
<1>2. PICK forced \in BOOLEAN : s_forced' = [s_forced EXCEPT ![s] = forced]
  BY DEF SaveBegin
<1>3. TypeOK'
  BY <1>1, <1>2 DEF SaveBegin, PersistInv, TypeOK, gauge, disk, loader
<1>4. ~s_open[s]
  BY DEF SaveBegin, PersistInv
<1> QED BY <1>3, <1>4 DEF SaveBegin, PersistInv, TypeOK, Fits, disk, loader

LEMMA SaveRefusedOk == ASSUME PersistInv, NEW s \in Savers, SaveRefused(s) PROVE PersistInv'
<1>1. TypeOK'
  BY DEF SaveRefused, PersistInv, TypeOK, gauge, disk, loader
<1>2. ~s_open[s]
  BY DEF SaveRefused, PersistInv
<1> QED BY <1>1, <1>2 DEF SaveRefused, PersistInv, TypeOK, Fits, disk, loader

\* A save that is let through has a SOC that is not stale, and it is the only one
\* with the file open or the conditions are forgotten.
LEMMA SaveOpenOk == ASSUME PersistInv, NEW s \in Savers, SaveOpen(s) PROVE PersistInv'
<1>1. /\ s_open' = [s_open EXCEPT ![s] = TRUE] /\ s_pc' = [s_pc EXCEPT ![s] = "write"]
      /\ file' = Empty /\ UNCHANGED <<power, gauge, s_soc, loader>>
      /\ unsynced' = TRUE /\ s_forced' = [s_forced EXCEPT ![s] = FALSE]
      /\ origin' = IF s_forced[s] \/ \E t \in Savers : s_open[t]
                   THEN Unknown ELSE <<ocv, charging>>
  BY DEF SaveOpen
<1>2. origin' \in Origins
  BY <1>1, UnknownIsOrigin DEF PersistInv, TypeOK
<1>3. TypeOK'
  BY <1>1, <1>2 DEF PersistInv, TypeOK, gauge, loader
<1>4. file' \notin Levels
  BY <1>1, LevelsAssumption DEF Empty
<1>5. ASSUME origin' # Unknown, NEW t \in Savers, s_open'[t] PROVE Fits(s_soc[t])'
  <2>1. ~s_forced[s] /\ origin' = <<ocv, charging>> /\ \A u \in Savers : ~s_open[u]
    BY <1>1, <1>5
  <2>2. t = s
    BY <1>1, <1>5, <2>1 DEF PersistInv, TypeOK
  <2>3. ~SaverStale(s_soc[s], ocv, charging)
    BY <2>1 DEF SaveOpen, Allowed
  <2>4. origin'[1] = ocv /\ origin'[2] = charging /\ s_soc' = s_soc
    BY <1>1, <2>1
  <2> QED BY <2>2, <2>3, <2>4 DEF Fits
<1>6. \A t \in Savers : s_open'[t] => s_pc'[t] = "write"
  BY <1>1 DEF PersistInv, TypeOK
<1> QED BY <1>1, <1>3, <1>4, <1>5, <1>6 DEF PersistInv, loader

LEMMA SaveWriteOk == ASSUME PersistInv, NEW s \in Savers, SaveWrite(s) PROVE PersistInv'
<1>1. /\ s_open' = [s_open EXCEPT ![s] = FALSE] /\ s_pc' = [s_pc EXCEPT ![s] = "idle"]
      /\ s_soc' = [s_soc EXCEPT ![s] = None]
      /\ file' = IF s_open[s] THEN s_soc[s] ELSE file
      /\ unsynced' = (unsynced \/ s_open[s])
      /\ UNCHANGED <<power, gauge, origin, s_forced, loader>>
  BY DEF SaveWrite
<1>2. unsynced' \in BOOLEAN
  BY <1>1 DEF PersistInv, TypeOK
<1>3. file' \in Levels \cup {Absent, Empty}
  BY <1>1 DEF PersistInv, TypeOK, None, Absent
<1>4. TypeOK'
  BY <1>1, <1>2, <1>3 DEF PersistInv, TypeOK, gauge, loader
<1>5. ASSUME origin' # Unknown, file' \in Levels PROVE Fits(file)'
  <2>1. Fits(file')
    BY <1>1, <1>5 DEF PersistInv
  <2> QED BY <1>1, <2>1 DEF Fits
<1>6. ASSUME NEW t \in Savers, s_open'[t]
      PROVE  t # s /\ s_open[t] /\ s_pc'[t] = s_pc[t] /\ s_soc'[t] = s_soc[t]
  BY <1>1, <1>6 DEF PersistInv, TypeOK
<1> QED BY <1>1, <1>4, <1>5, <1>6 DEF PersistInv, Fits, loader

-----------------------------------------------------------------------------
(* pibrick-battery-load-soc.sh and the machine *)

\* What the loader does leaves the savers and, but for a discard, the file alone.
LEMMA LoadOk == ASSUME PersistInv, Load PROVE PersistInv'
<1>1. CASE LoaderGivesUp \/ LoaderMeasures \/ LoaderTrusts \/ LoaderUsesOcv \/ LoaderHasNothing
  <2>1. /\ UNCHANGED <<power, gauge, disk, saver>> /\ l_pc # "done"
        /\ l_pc' \in {"read", "discard", "seed", "done"}
    BY <1>1 DEF LoaderGivesUp, LoaderMeasures, LoaderTrusts, LoaderUsesOcv, LoaderHasNothing,
       Chosen
  <2>2. /\ l_implied' \in Levels \cup {None} /\ l_chg' \in BOOLEAN
        /\ l_seed' \in Levels \cup {None}
    BY <1>1 DEF LoaderGivesUp, LoaderMeasures, LoaderTrusts, LoaderUsesOcv, LoaderHasNothing,
       Chosen, PersistInv, TypeOK, gauge
  <2>3. TypeOK'
    BY <2>1, <2>2 DEF PersistInv, TypeOK, gauge, disk, saver
  <2> QED BY <2>1, <2>3 DEF PersistInv, Fits, disk, saver
<1>2. CASE LoaderDiscards
  <2>1. TypeOK'
    BY <1>2, UnknownIsOrigin DEF LoaderDiscards, PersistInv, TypeOK, gauge
  <2>2. origin' = Unknown /\ (\A s \in Savers : ~s_open'[s]) /\ power' = power
        /\ l_pc = "discard"
    BY <1>2 DEF LoaderDiscards
  <2> QED BY <2>1, <2>2 DEF PersistInv
<1>3. CASE LoaderSeeds
  <2>1. TypeOK'
    BY <1>3 DEF LoaderSeeds, PersistInv, TypeOK, disk, saver
  <2> QED BY <1>3, <2>1 DEF LoaderSeeds, PersistInv, Fits, disk, saver
<1> QED BY <1>1, <1>2, <1>3 DEF Load

LEMMA DriverOk ==
  ASSUME PersistInv, DriverLoads \/ DriverUnloads \/ Gauge \/ Cell PROVE PersistInv'
<1>1. UNCHANGED <<power, disk, saver, loader>>
  BY DEF DriverLoads, DriverUnloads, Gauge, Cell
<1>2. driver' \in BOOLEAN /\ soc' \in Levels \cup {None} /\ ocv' \in Levels /\ charging' \in BOOLEAN
  BY DEF DriverLoads, DriverUnloads, Gauge, Cell, PersistInv, TypeOK
<1>3. TypeOK'
  BY <1>1, <1>2 DEF PersistInv, TypeOK, disk, saver, loader
<1> QED BY <1>1, <1>3 DEF PersistInv, Fits, disk, saver, loader

LEMMA MachineOk ==
  ASSUME PersistInv, Shutdown \/ PowerCut \/ Flush \/ Boot PROVE PersistInv'
<1>1. CASE Shutdown \/ PowerCut
  <2>1. /\ NothingRuns /\ origin' = origin /\ (file' = file \/ file' = Empty)
        /\ unsynced' = FALSE
    BY <1>1 DEF Shutdown, PowerCut
  <2>2. TypeOK'
    BY <2>1 DEF NothingRuns, PersistInv, TypeOK
  <2>3. \A s \in Savers : ~s_open'[s]
    BY <2>1 DEF NothingRuns
  <2>4. Empty \notin Levels
    BY LevelsAssumption DEF Empty
  <2> QED BY <2>1, <2>2, <2>3, <2>4 DEF NothingRuns, PersistInv, Fits
<1>2. CASE Flush
  BY <1>2 DEF Flush, PersistInv, TypeOK, Fits, gauge, saver, loader
<1>3. CASE Boot
  BY <1>3 DEF Boot, PersistInv, TypeOK, Fits, gauge, disk, saver
<1> QED BY <1>1, <1>2, <1>3

LEMMA StepPersist == ASSUME PersistInv, [Next]_vars PROVE PersistInv'
<1>1. CASE UNCHANGED vars
  BY <1>1 DEF vars, gauge, disk, saver, loader, PersistInv, TypeOK, Fits
<1> QED BY <1>1, SaveBeginOk, SaveRefusedOk, SaveOpenOk, SaveWriteOk, LoadOk, DriverOk,
           MachineOk DEF Next, Save

LEMMA PersistHolds == Spec => []PersistInv
BY InitPersist, StepPersist, PTL DEF Spec

-----------------------------------------------------------------------------

\* The choice is made by the loader, between its three branches.
LEMMA ChoiceIsLoaders ==
  ASSUME PersistInv, [Next]_vars, Chooses
  PROVE  LoaderTrusts \/ LoaderUsesOcv \/ LoaderHasNothing
<1>1. l_pc = "read" /\ l_pc' # l_pc /\ power = "on" /\ power' = "on"
  BY DEF Chooses, PersistInv, TypeOK
<1>2. ~(\E s \in Savers : Save(s))
  BY <1>1 DEF Save, SaveBegin, SaveRefused, SaveOpen, SaveWrite, loader
<1>3. ~(DriverLoads \/ DriverUnloads \/ Gauge \/ Cell \/ Flush \/ UNCHANGED vars)
  BY <1>1 DEF DriverLoads, DriverUnloads, Gauge, Cell, Flush, loader, vars
<1>4. ~(Shutdown \/ PowerCut \/ Boot)
  BY <1>1 DEF Shutdown, PowerCut, Boot, NothingRuns
<1>5. ~(LoaderGivesUp \/ LoaderMeasures \/ LoaderDiscards \/ LoaderSeeds)
  BY <1>1 DEF LoaderGivesUp, LoaderMeasures, LoaderDiscards, LoaderSeeds
<1> QED BY <1>2, <1>3, <1>4, <1>5 DEF Next, Load

\* No boot starts from an empty-looking SOC on a cell whose voltage says otherwise,
\* for any thresholds and any number of savers.
THEOREM BootIsNotEmpty == Spec => NoEmptyBoot
<1> DEFINE Full == l_implied # None /\ l_seed' < StaleLow => l_implied - l_seed' < StaleDelta
<1>1. ASSUME PersistInv, [Next]_vars, Chooses PROVE Full
  <2>1. CASE LoaderTrusts
    <3>1. l_seed' = file /\ ~LoaderStale(file, l_implied, l_chg)
      BY <2>1 DEF LoaderTrusts, Chosen
    <3>2. file \in Int /\ l_implied \in Int
      BY <1>1, <2>1, LevelsAssumption DEF LoaderTrusts, PersistInv, TypeOK, None
    <3> QED BY <3>1, <3>2, StaleAssumption DEF LoaderStale
  <2>2. CASE LoaderUsesOcv
    <3>1. l_seed' = l_implied /\ l_implied \in Int
      BY <1>1, <2>2, LevelsAssumption DEF LoaderUsesOcv, Chosen, PersistInv, TypeOK, None
    <3> QED BY <3>1, StaleAssumption
  <2>3. CASE LoaderHasNothing
    BY <2>3 DEF LoaderHasNothing
  <2> QED BY <1>1, <2>1, <2>2, <2>3, ChoiceIsLoaders
<1>2. PersistInv /\ [Next]_vars =>
        [Chooses /\ l_implied # None /\ l_seed' < StaleLow
           => l_implied - l_seed' < StaleDelta]_vars
  BY <1>1
<1> QED BY <1>2, PersistHolds, PTL DEF Spec, NoEmptyBoot

\* What a guarded save let through, the next boot believes when it measures the same:
\* the stale rule of the saver and that of the loader agree, whatever other savers,
\* power cuts and reloads come between.
THEOREM RebootBelievesSave == Spec => RebootKeepsSoc
<1>1. ASSUME PersistInv, [Next]_vars, Chooses, file \in Levels, origin # Unknown,
             origin = <<l_implied, l_chg>>
      PROVE  l_pc' = "seed" /\ l_seed' = file
  <2>1. ~LoaderStale(file, l_implied, l_chg)
    <3>1. Fits(file)
      BY <1>1 DEF PersistInv
    <3>2. ~SaverStale(file, l_implied, l_chg)
      BY <1>1, <3>1 DEF Fits
    <3> QED BY <3>2 DEF SaverStale, LoaderStale
  <2>2. LoaderTrusts
    <3>1. ~LoaderUsesOcv
      BY <1>1, <2>1 DEF LoaderUsesOcv
    <3>2. ~LoaderHasNothing
      BY <1>1 DEF LoaderHasNothing
    <3> QED BY <1>1, <3>1, <3>2, ChoiceIsLoaders
  <2> QED BY <2>2 DEF LoaderTrusts, Chosen
<1>2. PersistInv /\ [Next]_vars =>
        [Chooses /\ file \in Levels /\ origin # Unknown /\ origin = <<l_implied, l_chg>>
           => l_pc' = "seed" /\ l_seed' = file]_vars
  BY <1>1
<1> QED BY <1>2, PersistHolds, PTL DEF Spec, RebootKeepsSoc

-----------------------------------------------------------------------------
(* Buttons *)

Starting == {"unload", "lines", "uinput"}

\* power_key_held belongs to a long press of the power button.
HeldFits ==
  /\ held /\ pc \in Running => pc \in {"hold", "bounce"} /\ isPower /\ longDone
  /\ pc \in Starting => ~held

\* While no write is lost, the desktop sees what power_key_held and the tap say.
KeyFits ==
  lost = 0 =>
    /\ key = 1 => pc = "tap" \/ (held /\ pc \in {"hold", "bounce"})
    /\ held /\ pc \in Running => key = 1

KeyInv ==
  /\ pc \in Starting \union {"dead"} \union Running
  /\ key \in {0, 1} /\ lost \in Nat
  /\ HeldFits /\ KeyFits

\* What uk_send_key leaves, whether the event arrives or not.
LEMMA SendFits ==
  ASSUME lost \in Nat, NEW v \in {0, 1}, key \in {0, 1}, Send(v)
  PROVE  /\ key' \in {0, 1} /\ lost' \in Nat
         /\ lost' = 0 => lost = 0 /\ key' = v
<1>1. lost + 1 \in Nat /\ lost + 1 # 0
  OBVIOUS
<1> QED BY <1>1 DEF Send

LEMMA InitKey == ASSUME BInit PROVE KeyInv
BY DEF BInit, KeyInv, HeldFits, KeyFits, Starting, Running, Gesture

LEMMA StartUpKey == ASSUME KeyInv, Unload \/ Lines \/ Uinput PROVE KeyInv'
<1>1. /\ UNCHANGED <<key, held, lost>> /\ pc \in Starting
      /\ pc' \in {"lines", "uinput", "poll", "dead"}
  BY DEF Unload, Lines, Uinput, Starting
<1> QED BY <1>1 DEF KeyInv, HeldFits, KeyFits, Starting, Running, Gesture

LEMMA DeathKey == ASSUME KeyInv, Die \/ Restart PROVE KeyInv'
<1>1. CASE Die
  BY <1>1 DEF Die, KeyInv, HeldFits, KeyFits, Starting, Running, Gesture
<1>2. CASE Restart
  BY <1>2 DEF Restart, KeyInv, HeldFits, KeyFits, Starting, Running, Gesture
<1> QED BY <1>1, <1>2

LEMMA OutsideKey == ASSUME KeyInv, Move \/ Pass \/ UNCHANGED bvars PROVE KeyInv'
<1>1. UNCHANGED <<pc, isPower, longDone, key, held, lost>>
  BY DEF Move, Pass, bvars, gesture
<1> QED BY <1>1 DEF KeyInv, HeldFits, KeyFits

\* The polls outside of a press change neither the key nor its flag.
LEMMA PollingKey ==
  ASSUME KeyInv, Poll \/ SettleDown \/ Identify \/ ScriptEnds \/ Stable \/ StillUp
  PROVE  KeyInv'
<1>1. /\ UNCHANGED <<key, held, lost>>
      /\ pc \in {"poll", "settle", "identify", "script", "stable", "stable2"}
      /\ pc' \in {"poll", "settle", "identify", "hold", "stable", "stable2"}
  BY DEF Poll, SettleDown, Identify, ScriptEnds, Stable, StillUp, Awake
<1>2. ~held
  BY <1>1 DEF KeyInv, HeldFits, Running, Gesture
<1>3. lost = 0 => key # 1
  BY <1>1, <1>2 DEF KeyInv, KeyFits
<1> QED BY <1>1, <1>2, <1>3 DEF KeyInv, HeldFits, KeyFits, Starting, Running, Gesture

LEMMA LongPressKey ==
  ASSUME KeyInv, pc = "hold", pc' = pc, isPower' = isPower, LongPress
  PROVE  KeyInv'
<1>1. CASE ~longDone /\ since >= Long /\ isPower
  <2>1. Send(1) /\ held' = TRUE /\ longDone' = TRUE
    BY <1>1 DEF LongPress
  <2>2. key' \in {0, 1} /\ lost' \in Nat /\ (lost' = 0 => key' = 1)
    BY <2>1, SendFits DEF KeyInv
  <2> QED BY <1>1, <2>1, <2>2 DEF KeyInv, HeldFits, KeyFits, Starting, Running, Gesture
<1>2. CASE ~longDone /\ since >= Long /\ ~isPower
  <2>1. longDone' = TRUE /\ UNCHANGED <<key, held, lost>>
    BY <1>2 DEF LongPress
  <2> QED BY <1>2, <2>1 DEF KeyInv, HeldFits, KeyFits, Starting, Running, Gesture
<1>3. CASE ~(~longDone /\ since >= Long)
  <2>1. UNCHANGED <<longDone, key, held, lost>>
    BY <1>3 DEF LongPress
  <2> QED BY <2>1 DEF KeyInv, HeldFits, KeyFits, Starting, Running, Gesture
<1> QED BY <1>1, <1>2, <1>3

LEMMA HoldKey == ASSUME KeyInv, Hold PROVE KeyInv'
<1>1. pc = "hold" /\ isPower' = isPower
  BY DEF Hold, Awake
<1>2. \/ LongPress /\ pc' = pc
      \/ pc' = "bounce" /\ UNCHANGED <<longDone, key, held, lost>>
  BY DEF Hold
<1>3. CASE pc' = "bounce" /\ UNCHANGED <<longDone, key, held, lost>>
  BY <1>1, <1>3 DEF KeyInv, HeldFits, KeyFits, Starting, Running, Gesture
<1> QED BY <1>1, <1>2, <1>3, LongPressKey

\* The release: the key goes up after a long press, and a tap starts with a key
\* that is up.
LEMMA AnswerKey ==
  ASSUME KeyInv, pc = "bounce", isPower' = isPower, longDone' = longDone, Answer
  PROVE  KeyInv'
<1>1. CASE longDone /\ isPower /\ held
  <2>1. Send(0) /\ held' = FALSE /\ pc' = "stable"
    BY <1>1 DEF Answer
  <2>2. key' \in {0, 1} /\ lost' \in Nat /\ (lost' = 0 => key' = 0)
    BY <2>1, SendFits DEF KeyInv
  <2> QED BY <2>1, <2>2 DEF KeyInv, HeldFits, KeyFits, Starting, Running, Gesture
<1>2. CASE ~held
  <2>1. lost = 0 => key = 0
    BY <1>2 DEF KeyInv, KeyFits
  <2>2. \/ pc' \in {"stable", "script"} /\ UNCHANGED <<key, held, lost>>
        \/ pc' = "tap" /\ Send(1) /\ UNCHANGED held
    BY <1>2 DEF Answer
  <2>3. CASE pc' \in {"stable", "script"} /\ UNCHANGED <<key, held, lost>>
    BY <1>2, <2>1, <2>3 DEF KeyInv, HeldFits, KeyFits, Starting, Running, Gesture
  <2>4. CASE pc' = "tap" /\ Send(1) /\ UNCHANGED held
    <3>1. key' \in {0, 1} /\ lost' \in Nat
      BY <2>4, SendFits DEF KeyInv
    <3> QED BY <1>2, <2>4, <3>1 DEF KeyInv, HeldFits, KeyFits, Starting, Running, Gesture
  <2> QED BY <2>2, <2>3, <2>4
<1> QED BY <1>1, <1>2 DEF KeyInv, HeldFits, Running, Gesture

LEMMA BounceKey == ASSUME KeyInv, Bounce PROVE KeyInv'
<1>1. pc = "bounce" /\ isPower' = isPower /\ longDone' = longDone
  BY DEF Bounce, Awake, gesture
<1>2. Answer \/ (pc' = "hold" /\ UNCHANGED <<key, held, lost>>)
  BY DEF Bounce
<1>3. CASE pc' = "hold" /\ UNCHANGED <<key, held, lost>>
  BY <1>1, <1>3 DEF KeyInv, HeldFits, KeyFits, Starting, Running, Gesture
<1> QED BY <1>1, <1>2, <1>3, AnswerKey

LEMMA TapUpKey == ASSUME KeyInv, TapUp PROVE KeyInv'
<1>1. Send(0) /\ pc = "tap" /\ pc' = "stable" /\ UNCHANGED held
  BY DEF TapUp, Awake
<1>2. key' \in {0, 1} /\ lost' \in Nat /\ (lost' = 0 => key' = 0)
  BY <1>1, SendFits DEF KeyInv
<1> QED BY <1>1, <1>2 DEF KeyInv, HeldFits, KeyFits, Starting, Running, Gesture

\* While every write goes through, KEY_POWER is down only during a tap or during a
\* long press that is still held, and power_key_held says so, for every timing of the
\* button and of the daemon, over its deaths and restarts.
THEOREM KeyFollowsGesture == BSpec => []KeyMatchesGesture
<1>1. KeyInv /\ [BNext]_bvars => KeyInv'
  BY StartUpKey, DeathKey, OutsideKey, PollingKey, HoldKey, BounceKey, TapUpKey
     DEF BNext, Thread
<1>2. KeyInv => KeyMatchesGesture
  BY DEF KeyInv, HeldFits, KeyFits, KeyMatchesGesture, Running, Gesture
<1> QED BY <1>1, <1>2, InitKey, PTL DEF BSpec

------------------------------------------------------------------------------
(* The clocks.                                                              *)

\* A press that is not yet long was last seen down before the limit.
ClockInv ==
  /\ since \in 0 .. Long /\ seen \in Nat
  /\ pc \in Gesture /\ ~longDone => seen < Long

LEMMA LongIsNat == Long \in Nat /\ Long > 0
BY TimesAssumption

LEMMA StepClock == ASSUME ClockInv, [BNext]_bvars PROVE ClockInv'
<1>1. CASE Unload \/ Lines \/ Uinput \/ Die \/ Move \/ UNCHANGED bvars
  <2>1. UNCHANGED <<since, seen, longDone>> /\ (pc' \in Gesture => pc' = pc)
    BY <1>1 DEF Unload, Lines, Uinput, Die, Move, bvars, gesture, Gesture
  <2> QED BY <2>1 DEF ClockInv
<1>2. CASE Restart
  BY <1>2, LongIsNat DEF Restart, ClockInv, Gesture
<1>3. CASE Pass
  <2>1. UNCHANGED <<pc, seen, longDone>> /\ since' = IF since < Long THEN since + 1 ELSE since
    BY <1>3 DEF Pass
  <2> QED BY <2>1, LongIsNat DEF ClockInv
<1>4. CASE Poll
  <2>1. PICK down \in BOOLEAN :
          IF down THEN since' = 0 /\ seen' = 0
          ELSE pc' = pc /\ UNCHANGED <<since, seen>>
    BY <1>4 DEF Poll
  <2>2. pc = "poll"
    BY <1>4 DEF Poll, Awake
  <2> QED BY <2>1, <2>2, LongIsNat DEF ClockInv, Gesture
<1>5. CASE SettleDown \/ Identify \/ Bounce
  <2>1. UNCHANGED <<since, seen, longDone>> /\ pc \in Gesture
    BY <1>5 DEF SettleDown, Identify, Bounce, Awake, gesture, Gesture
  <2> QED BY <2>1 DEF ClockInv
<1>6. CASE TapUp \/ ScriptEnds \/ Stable \/ StillUp
  <2>1. UNCHANGED <<since, seen, longDone>> /\ pc' \notin Gesture
    BY <1>6 DEF TapUp, ScriptEnds, Stable, StillUp, Awake, gesture, Gesture
  <2> QED BY <2>1 DEF ClockInv
<1>7. CASE Hold
  <2>1. since' = since /\ pc \in Gesture
    BY <1>7 DEF Hold, Awake, Gesture
  <2>2. \/ LongPress /\ seen' = since
        \/ UNCHANGED <<seen, longDone>>
    BY <1>7 DEF Hold
  <2>3. CASE LongPress /\ seen' = since
    <3>1. ~longDone' => ~longDone /\ ~(since >= Long)
      BY <2>3 DEF LongPress
    <3> QED BY <2>1, <2>3, <3>1, LongIsNat DEF ClockInv
  <2>4. CASE UNCHANGED <<seen, longDone>>
    BY <2>1, <2>4 DEF ClockInv
  <2> QED BY <2>2, <2>3, <2>4
<1> QED BY <1>1, <1>2, <1>3, <1>4, <1>5, <1>6, <1>7 DEF BNext, Thread

\* A long press is not answered a second time at its release, and the only press
\* left without an answer is one last seen down before the limit and confirmed
\* released after it, for every setting of the times.
THEOREM PressIsAnswered == BSpec => PressAnswered
<1>1. BInit => ClockInv
  BY LongIsNat DEF BInit, ClockInv, Gesture
<1>2. ClockInv /\ [BNext]_bvars => ClockInv'
  BY StepClock
<1>3. ASSUME ClockInv, [BNext]_bvars, pc = "bounce"
      PROVE  /\ pc' \in {"tap", "script"} => ~longDone
             /\ (pc' = "stable" /\ ~longDone) => (since >= Long /\ seen < Long)
  <2>1. CASE pc' \in {"tap", "script", "stable"}
    <3>1. Bounce
      BY <1>3, <2>1 DEF BNext, Thread, Unload, Lines, Uinput, Die, Restart, Move, Pass, Poll,
         SettleDown, Identify, Hold, TapUp, ScriptEnds, Stable, StillUp, Awake, bvars
    <3>2. Answer
      BY <2>1, <3>1 DEF Bounce
    <3>3. pc \in Gesture
      BY <1>3 DEF Gesture
    <3> QED BY <1>3, <2>1, <3>2, <3>3 DEF Answer, ClockInv
  <2> QED BY <2>1
<1>4. ClockInv /\ [BNext]_bvars =>
        [pc = "bounce" =>
           /\ pc' \in {"tap", "script"} => ~longDone
           /\ (pc' = "stable" /\ ~longDone) => (since >= Long /\ seen < Long)]_bvars
  BY <1>3
<1> QED BY <1>1, <1>2, <1>4, PTL DEF BSpec, PressAnswered

-----------------------------------------------------------------------------
(* Autorotation *)

RotationTypeOK ==
  /\ tilt \in Orientations \cup {""} /\ screen \in Orientations
  /\ lock_file \in Orientations \cup {"", "none"}
  /\ user \in {"idle", "dbus", "script", "plasmoid", "again", "apply"}
  /\ svc \in {"poll", "locked", "turn", "apply", "dead"}
  /\ target \in Orientations \cup {""} /\ pending \in Orientations \cup {""}
  /\ svc = "apply" => pending # ""

\* Where a lock command is, and what the file holds there.
Commanded ==
  /\ user # "idle" => ask \in Orientations
  /\ user \in {"dbus", "script", "plasmoid"} => lock_file = ""
  /\ user \in {"again", "apply"} => lock_file = ask

\* A lock that the loop has read is remembered or about to be applied.
ReadInTime ==
  /\ lock_file = "" \/ (svc = "apply" /\ lock_file # "none") => ~read
  /\ user = "apply" /\ read /\ svc # "dead" =>
       IF svc = "turn" THEN target = ask ELSE current = ask

\* The screen differs from what is remembered only before the loop puts it right or
\* ends, or under a lock it will read.
Remembered ==
  screen # current /\ current # "" /\ ~strayed =>
    svc \in {"turn", "dead"} \/ (user = "idle" /\ Unread /\ screen = lock_file)

RotationInv == RotationTypeOK /\ Commanded /\ ReadInTime /\ Remembered

LEMMA RotationInit == RInit => RotationInv
BY RotationAssumption DEF RInit, Fresh, RotationInv, RotationTypeOK, Commanded, ReadInTime,
   Remembered, Orientations

LEMMA RotationTypes ==
  ASSUME RotationTypeOK, Commanded, [RNext]_rvars PROVE RotationTypeOK'
<1>. USE DEF RotationTypeOK
<1>1. CASE Tilt
  BY <1>1, RotationAssumption DEF Tilt, local
<1>2. CASE Session
  BY <1>2 DEF Session, desktop, local
<1>3. CASE CoolsDown
  BY <1>3 DEF CoolsDown, desktop, local
<1>4. CASE PowerOff
  BY <1>4 DEF PowerOff, desktop, local
<1>5. CASE Lock
  BY <1>5 DEF Lock, LockTo, desktop, local
<1>6. CASE LockCurrent
  BY <1>6 DEF LockCurrent, LockTo, Reported, Orientations, desktop, local
<1>7. CASE Unlock
  BY <1>7 DEF Unlock, desktop, local
<1>8. CASE LockWrite
  BY <1>8 DEF Commanded, LockWrite, desktop, local
<1>9. CASE LockAgain
  BY <1>9 DEF LockAgain, desktop, local
<1>10. CASE LockApply
  BY <1>10 DEF Commanded, LockApply, desktop, local
<1>11. CASE FindsLock
  BY <1>11 DEF FindsLock, desktop, local
<1>12. CASE ReadsLock
  BY <1>12 DEF ReadsLock, desktop, local
<1>13. CASE TurnsLocked
  BY <1>13 DEF TurnsLocked, desktop, local
<1>14. CASE Sample
  BY <1>14 DEF Sample, Forgets, desktop
<1>15. CASE Decide
  BY <1>15 DEF Decide, Forgets, desktop
<1>16. CASE Turns
  BY <1>16 DEF Turns, Forgets, desktop
<1>17. CASE Restarts
  BY <1>17 DEF Restarts, desktop, local
<1>18. CASE UNCHANGED rvars
  BY <1>18 DEF rvars, local
<1> QED BY <1>1, <1>2, <1>3, <1>4, <1>5, <1>6, <1>7, <1>8, <1>9, <1>10, <1>11, <1>12,
           <1>13, <1>14, <1>15, <1>16, <1>17, <1>18
           DEF RNext, Locking, Looping

LEMMA CommandsKeep ==
  ASSUME RotationTypeOK, Commanded, [RNext]_rvars PROVE Commanded'
<1>. USE DEF RotationTypeOK, Commanded, Orientations
<1>1. CASE Tilt
  BY <1>1, RotationAssumption DEF Tilt, local
<1>2. CASE Session
  BY <1>2 DEF Session, desktop, local
<1>3. CASE CoolsDown
  BY <1>3 DEF CoolsDown, desktop, local
<1>4. CASE PowerOff
  BY <1>4 DEF PowerOff, desktop, local
<1>5. CASE Lock
  BY <1>5, RotationAssumption DEF Lock, LockTo, desktop, local
<1>6. CASE LockCurrent
  BY <1>6 DEF LockCurrent, LockTo, Reported, desktop, local
<1>7. CASE Unlock
  BY <1>7 DEF Unlock, desktop, local
<1>8. CASE LockWrite
  BY <1>8 DEF LockWrite, desktop, local
<1>9. CASE LockAgain
  BY <1>9 DEF LockAgain, desktop, local
<1>10. CASE LockApply
  BY <1>10 DEF LockApply, desktop, local
<1>11. CASE FindsLock
  BY <1>11 DEF FindsLock, desktop, local
<1>12. CASE ReadsLock
  BY <1>12 DEF ReadsLock, desktop, local
<1>13. CASE TurnsLocked
  BY <1>13 DEF TurnsLocked, desktop, local
<1>14. CASE Sample
  BY <1>14 DEF Sample, Forgets, desktop
<1>15. CASE Decide
  BY <1>15 DEF Decide, Forgets, desktop
<1>16. CASE Turns
  BY <1>16 DEF Turns, Forgets, desktop
<1>17. CASE Restarts
  BY <1>17 DEF Restarts, desktop, local
<1>18. CASE UNCHANGED rvars
  BY <1>18 DEF rvars, local
<1> QED BY <1>1, <1>2, <1>3, <1>4, <1>5, <1>6, <1>7, <1>8, <1>9, <1>10, <1>11, <1>12,
           <1>13, <1>14, <1>15, <1>16, <1>17, <1>18
           DEF RNext, Locking, Looping

LEMMA ReadsKeep ==
  ASSUME RotationTypeOK, Commanded, ReadInTime, [RNext]_rvars PROVE ReadInTime'
<1>. USE DEF Commanded, ReadInTime, Locked, Orientations, RotationTypeOK
<1>1. CASE Tilt
  BY <1>1, RotationAssumption DEF Tilt, local
<1>2. CASE Session
  BY <1>2 DEF Session, desktop, local
<1>3. CASE CoolsDown
  BY <1>3 DEF CoolsDown, desktop, local
<1>4. CASE PowerOff
  BY <1>4 DEF PowerOff, desktop, local
<1>5. CASE Lock
  BY <1>5, RotationAssumption DEF Lock, LockTo, desktop, local
<1>6. CASE LockCurrent
  BY <1>6 DEF LockCurrent, LockTo, Reported, desktop, local
<1>7. CASE Unlock
  BY <1>7 DEF Unlock, desktop, local
<1>8. CASE LockWrite
  BY <1>8 DEF LockWrite, desktop, local
<1>9. CASE LockAgain
  BY <1>9 DEF LockAgain, desktop, local
<1>10. CASE LockApply
  BY <1>10 DEF LockApply, desktop, local
<1>11. CASE FindsLock
  BY <1>11 DEF FindsLock, desktop, local
<1>12. CASE ReadsLock
  BY <1>12 DEF ReadsLock, desktop, local
<1>13. CASE TurnsLocked
  BY <1>13 DEF TurnsLocked, desktop, local
<1>14. CASE Sample
  BY <1>14 DEF Sample, Forgets, desktop
<1>15. CASE Decide
  BY <1>15 DEF Decide, Forgets, desktop
<1>16. CASE Turns
  BY <1>16 DEF Turns, Forgets, desktop
<1>17. CASE Restarts
  BY <1>17 DEF Restarts, desktop, local
<1>18. CASE UNCHANGED rvars
  BY <1>18 DEF rvars, local
<1> QED BY <1>1, <1>2, <1>3, <1>4, <1>5, <1>6, <1>7, <1>8, <1>9, <1>10, <1>11, <1>12,
           <1>13, <1>14, <1>15, <1>16, <1>17, <1>18
           DEF RNext, Locking, Looping

LEMMA MemoryKeeps ==
  ASSUME RotationInv, [RNext]_rvars PROVE Remembered'
<1>. USE DEF RotationInv, RotationTypeOK, Commanded, ReadInTime, Remembered, Unread,
           Locked, Orientations, Astray
<1>1. CASE Tilt
  BY <1>1, RotationAssumption DEF Tilt, local
<1>2. CASE Session
  BY <1>2 DEF Session, desktop, local
<1>3. CASE CoolsDown
  BY <1>3 DEF CoolsDown, desktop, local
<1>4. CASE PowerOff
  BY <1>4 DEF PowerOff, desktop, local
<1>5. CASE Lock
  BY <1>5, RotationAssumption DEF Lock, LockTo, desktop, local
<1>6. CASE LockCurrent
  BY <1>6 DEF LockCurrent, LockTo, Reported, desktop, local
<1>7. CASE Unlock
  BY <1>7 DEF Unlock, desktop, local
<1>8. CASE LockWrite
  BY <1>8 DEF LockWrite, desktop, local
<1>9. CASE LockAgain
  BY <1>9 DEF LockAgain, desktop, local
<1>10. CASE LockApply
  BY <1>10 DEF LockApply, desktop, local
<1>11. CASE FindsLock
  BY <1>11 DEF FindsLock, desktop, local
<1>12. CASE ReadsLock
  <2>1. CASE svc' = "turn"
    BY <2>1
  <2>2. CASE svc' # "turn"
    <3>1. /\ UNCHANGED <<screen, lock_file, user, current, strayed>> /\ svc = "locked"
          /\ (IF lock_file = "none" THEN "" ELSE lock_file) = current
      BY <1>12, <2>2 DEF ReadsLock, desktop
    <3>2. current # "" => lock_file = current
      BY <3>1
    <3> QED BY <3>1, <3>2
  <2> QED BY <2>1, <2>2
<1>13. CASE TurnsLocked
  BY <1>13 DEF TurnsLocked, desktop, local
<1>14. CASE Sample
  BY <1>14 DEF Sample, Forgets, desktop
<1>15. CASE Decide
  BY <1>15 DEF Decide, Forgets, desktop
<1>16. CASE Turns
  BY <1>16 DEF Turns, Forgets, desktop
<1>17. CASE Restarts
  BY <1>17 DEF Restarts, desktop, local
<1>18. CASE UNCHANGED rvars
  BY <1>18 DEF rvars, local
<1> QED BY <1>1, <1>2, <1>3, <1>4, <1>5, <1>6, <1>7, <1>8, <1>9, <1>10, <1>11, <1>12,
           <1>13, <1>14, <1>15, <1>16, <1>17, <1>18
           DEF RNext, Locking, Looping

LEMMA RotationStep == RotationInv /\ [RNext]_rvars => RotationInv'
BY RotationTypes, CommandsKeep, ReadsKeep, MemoryKeeps DEF RotationInv

\* The loop, which never asks the desktop, remembers what the screen shows: whatever lock
\* commands, rotations and restarts come in between, while it polls and no command is
\* under way they differ only under a lock it has not read, or if it strayed.
THEOREM LoopRemembersScreen == RSpec => []RemembersScreen
<1>1. RotationInv => RemembersScreen
  BY DEF RotationInv, Remembered, RemembersScreen
<1> QED BY <1>1, RotationInit, RotationStep, PTL DEF RSpec
=============================================================================
