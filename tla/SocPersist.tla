------------------------------ MODULE SocPersist ------------------------------
(***************************************************************************)
(* How the state of charge outlives a reboot: battery-soc-persist.py saves *)
(* the driver's SOC to /var/lib/bq25890_battery/soc_persist (from cron, at *)
(* shutdown and after battery_set.py), and pibrick-battery-load-soc.sh     *)
(* seeds the driver from that file, or from the OCV table, once per boot.  *)
(*                                                                         *)
(* The driver is reduced to what these programs see of it: the SOC it      *)
(* publishes, what its OCV table says of the cell (ocv_soc_pct) and its    *)
(* charging status, all of which move freely.  The values they read one    *)
(* after the other (voltage, OCV, status) are read in one step.            *)
(***************************************************************************)
EXTENDS Integers

CONSTANTS
  Levels,        \* percentages a SOC or the OCV table may show
  Savers,        \* instances of battery-soc-persist.py
  StaleDelta,    \* STALE_DELTA of the loader, STALE_DELTA_PCT of the saver
  StaleLow       \* STALE_LOW, STALE_LOW_PCT

ASSUME LevelsAssumption == Levels \subseteq 0..100 /\ 0 \in Levels
ASSUME StaleAssumption == StaleDelta \in Nat \ {0} /\ StaleLow \in Nat

VARIABLES
  power,         \* "off", "on"
  driver,        \* the module is loaded and its sysfs files exist
  soc,           \* the SOC the driver publishes, None before a sample
  ocv, charging, \* the OCV table's answer, and status = Charging
  file,          \* soc_persist: Absent, Empty, or the SOC in it
  origin,        \* history: what the voltage and status were at that save
  unsynced,      \* the last save may not have reached the disk
  s_pc, s_soc,   \* each saver: its step, the capacity it has read,
  s_forced,      \* its --force option,
  s_open,        \* and whether the file it has open is still soc_persist
  l_pc,          \* the boot loader
  l_implied, l_chg,  \* what it has measured: OCV (None if unreadable), status
  l_seed         \* the SOC it has chosen

gauge  == <<driver, soc, ocv, charging>>
disk   == <<file, origin, unsynced>>
saver  == <<s_pc, s_soc, s_forced, s_open>>
loader == <<l_pc, l_implied, l_chg, l_seed>>
vars == <<power, gauge, disk, saver, loader>>

None   == -1
Absent == -1
Empty  == -2

\* The conditions of a save that its guards let through; Unknown for a
\* forced save and for two savers with the file open at once.
Unknown == <<None, FALSE>>
Origins == {Unknown} \cup (Levels \X BOOLEAN)

-----------------------------------------------------------------------------
(* battery-soc-persist.py *)

\* soc_is_stale
SaverStale(cap, implied, chg) ==
  /\ implied # None
  /\ implied - cap >= StaleDelta
  /\ cap < StaleLow \/ ~chg

\* persist_allowed; `low' says that voltage_now was below 3.30 V.
Allowed(cap, low) ==
  /\ cap # 0
  /\ ~(low /\ cap < 10)
  /\ ~SaverStale(cap, ocv, charging)

\* Below 3.30 V every OCV table is at its foot.
LowReads == IF ocv = 0 THEN BOOLEAN ELSE {FALSE}

\* The capacity is read first.  An unreadable one ends the run.
SaveBegin(s) ==
  /\ power = "on" /\ s_pc[s] = "idle"
  /\ soc # None
  /\ s_soc' = [s_soc EXCEPT ![s] = soc]
  /\ \E forced \in BOOLEAN : s_forced' = [s_forced EXCEPT ![s] = forced]
  /\ s_pc' = [s_pc EXCEPT ![s] = "check"]
  /\ UNCHANGED <<power, gauge, disk, s_open, loader>>

SaveRefused(s) ==
  /\ s_pc[s] = "check" /\ ~s_forced[s]
  /\ \E low \in LowReads : ~Allowed(s_soc[s], low)
  /\ s_pc' = [s_pc EXCEPT ![s] = "idle"]
  /\ s_soc' = [s_soc EXCEPT ![s] = None]
  /\ UNCHANGED <<power, gauge, disk, s_forced, s_open, loader>>

\* open(..., "w") empties the file before anything is written to it.
SaveOpen(s) ==
  /\ s_pc[s] = "check"
  /\ s_forced[s] \/ \E low \in LowReads : Allowed(s_soc[s], low)
  /\ s_open' = [s_open EXCEPT ![s] = TRUE]
  /\ s_pc' = [s_pc EXCEPT ![s] = "write"]
  /\ s_forced' = [s_forced EXCEPT ![s] = FALSE]
  /\ file' = Empty /\ unsynced' = TRUE
  /\ origin' = IF s_forced[s] \/ \E t \in Savers : s_open[t]
               THEN Unknown ELSE <<ocv, charging>>
  /\ UNCHANGED <<power, gauge, s_soc, loader>>

\* The line is written when the file is closed; into a file that the loader
\* has removed meanwhile it is lost.
SaveWrite(s) ==
  /\ s_pc[s] = "write"
  /\ file' = IF s_open[s] THEN s_soc[s] ELSE file
  /\ unsynced' = (unsynced \/ s_open[s])
  /\ s_pc' = [s_pc EXCEPT ![s] = "idle"]
  /\ s_soc' = [s_soc EXCEPT ![s] = None]
  /\ s_open' = [s_open EXCEPT ![s] = FALSE]
  /\ UNCHANGED <<power, gauge, origin, s_forced, loader>>

Save(s) == SaveBegin(s) \/ SaveRefused(s) \/ SaveOpen(s) \/ SaveWrite(s)

-----------------------------------------------------------------------------
(* pibrick-battery-load-soc.sh *)

\* Mutants: a mid-pack SOC is not trusted while charging; an empty-looking
\* one is.
LoaderStaleCharging(p, implied, chg) ==
  implied # None /\ implied - p >= StaleDelta
LoaderStaleTrusting(p, implied, chg) ==
  implied # None /\ implied - p >= StaleDelta /\ ~chg

\* persist_is_stale
LoaderStale(p, implied, chg) ==
  /\ implied # None
  /\ implied - p >= StaleDelta
  /\ p < StaleLow \/ ~chg

\* Mutant: the wait has no end.
LoaderGivesUpNever == FALSE /\ UNCHANGED vars

\* coulomb_uah has not appeared within 15 s.
LoaderGivesUp ==
  /\ l_pc = "wait" /\ ~driver
  /\ l_pc' = "done"
  /\ UNCHANGED <<power, gauge, disk, saver, l_implied, l_chg, l_seed>>

\* coulomb_uah is there: read what the voltage implies, and the status.
LoaderMeasures ==
  /\ l_pc = "wait" /\ driver
  /\ l_implied' \in {ocv, None} /\ l_chg' = charging
  /\ l_pc' = "read"
  /\ UNCHANGED <<power, gauge, disk, saver, l_seed>>

\* The loader is through with what it measured once it has chosen.
Chosen(pc, seed) ==
  /\ l_pc' = pc /\ l_seed' = seed
  /\ l_implied' = None /\ l_chg' = FALSE
  /\ UNCHANGED <<power, gauge, saver>>

\* The file holds a SOC in range that is not stale.
LoaderTrusts ==
  /\ l_pc = "read" /\ file \in Levels
  /\ ~LoaderStale(file, l_implied, l_chg)
  /\ Chosen("seed", file)
  /\ UNCHANGED disk

\* The file is missing, empty, or holds a stale SOC: the OCV table's answer.
LoaderUsesOcv ==
  /\ l_pc = "read" /\ l_implied # None
  /\ file \in Levels => LoaderStale(file, l_implied, l_chg)
  /\ Chosen(IF file \in Levels THEN "discard" ELSE "seed", l_implied)
  /\ UNCHANGED disk

\* "no persist and no voltage": nothing is seeded.
LoaderHasNothing ==
  /\ l_pc = "read" /\ l_implied = None /\ file \notin Levels
  /\ Chosen("done", None)
  /\ UNCHANGED disk

\* A stale file is removed, whoever has written to it since it was read.
LoaderDiscards ==
  /\ l_pc = "discard"
  /\ file' = Absent /\ unsynced' = TRUE /\ origin' = Unknown
  /\ s_open' = [s \in Savers |-> FALSE]
  /\ l_pc' = "seed"
  /\ UNCHANGED <<power, gauge, s_pc, s_soc, s_forced, l_implied, l_chg, l_seed>>

\* The write of coulomb_uah, which fails when the driver has gone.
LoaderSeeds ==
  /\ l_pc = "seed"
  /\ soc' = IF driver THEN l_seed ELSE soc
  /\ l_pc' = "done" /\ l_seed' = None
  /\ UNCHANGED <<power, driver, ocv, charging, disk, saver, l_implied, l_chg>>

Load ==
  \/ LoaderGivesUp \/ LoaderMeasures
  \/ LoaderTrusts \/ LoaderUsesOcv \/ LoaderHasNothing
  \/ LoaderDiscards \/ LoaderSeeds

-----------------------------------------------------------------------------
(* The driver, the cell and the machine *)

\* udev loads the module at some time of the boot; battery_set.py --persist
\* unloads it and loads it again, which forgets the SOC.
DriverLoads ==
  /\ power = "on" /\ ~driver
  /\ driver' = TRUE
  /\ UNCHANGED <<power, soc, ocv, charging, disk, saver, loader>>

DriverUnloads ==
  /\ driver
  /\ driver' = FALSE /\ soc' = None
  /\ UNCHANGED <<power, ocv, charging, disk, saver, loader>>

\* FuelGauge in one step: the first SOC comes from the OCV table, and later
\* ones go where charge and writes of coulomb_uah take them.
Gauge ==
  /\ driver
  /\ soc' \in IF soc = None THEN {ocv} ELSE Levels
  /\ UNCHANGED <<power, driver, ocv, charging, disk, saver, loader>>

\* The voltage and the charger move, and so they do while the power is off.
Cell ==
  /\ ocv' \in Levels /\ charging' \in BOOLEAN
  /\ UNCHANGED <<power, driver, soc, disk, saver, loader>>

NothingRuns ==
  /\ power' = "off" /\ driver' = FALSE /\ soc' = None
  /\ s_pc' = [s \in Savers |-> "idle"]
  /\ s_soc' = [s \in Savers |-> None]
  /\ s_forced' = [s \in Savers |-> FALSE]
  /\ s_open' = [s \in Savers |-> FALSE]
  /\ l_pc' = "done" /\ l_implied' = None /\ l_chg' = FALSE /\ l_seed' = None
  /\ UNCHANGED <<ocv, charging>>

\* systemd kills what still runs and syncs the disk.
Shutdown ==
  /\ power = "on"
  /\ NothingRuns
  /\ unsynced' = FALSE
  /\ UNCHANGED <<file, origin>>

\* A save that has not reached the disk leaves an empty file.
PowerCut ==
  /\ power = "on"
  /\ NothingRuns
  /\ unsynced' = FALSE
  /\ file' \in IF unsynced THEN {file, Empty} ELSE {file}
  /\ UNCHANGED origin

Flush ==
  /\ unsynced
  /\ unsynced' = FALSE
  /\ UNCHANGED <<power, gauge, file, origin, saver, loader>>

Boot ==
  /\ power = "off"
  /\ power' = "on" /\ l_pc' = "wait"
  /\ UNCHANGED <<gauge, disk, saver, l_implied, l_chg, l_seed>>

Init ==
  /\ power = "off" /\ driver = FALSE /\ soc = None
  /\ ocv \in Levels /\ charging \in BOOLEAN
  /\ file = Absent /\ origin = Unknown /\ unsynced = FALSE
  /\ s_pc = [s \in Savers |-> "idle"]
  /\ s_soc = [s \in Savers |-> None]
  /\ s_forced = [s \in Savers |-> FALSE]
  /\ s_open = [s \in Savers |-> FALSE]
  /\ l_pc = "done" /\ l_implied = None /\ l_chg = FALSE /\ l_seed = None

Next ==
  \/ \E s \in Savers : Save(s)
  \/ Load
  \/ DriverLoads \/ DriverUnloads \/ Gauge \/ Cell
  \/ Shutdown \/ PowerCut \/ Flush \/ Boot

\* The shell runs the loader's commands, each of its waits is bounded.
Spec == Init /\ [][Next]_vars /\ WF_vars(Load)

-----------------------------------------------------------------------------
(* Properties. *)

TypeOK ==
  /\ power \in {"off", "on"} /\ driver \in BOOLEAN
  /\ soc \in Levels \cup {None} /\ ocv \in Levels /\ charging \in BOOLEAN
  /\ file \in Levels \cup {Absent, Empty}
  /\ origin \in Origins /\ unsynced \in BOOLEAN
  /\ s_pc \in [Savers -> {"idle", "check", "write"}]
  /\ s_soc \in [Savers -> Levels \cup {None}]
  /\ s_forced \in [Savers -> BOOLEAN] /\ s_open \in [Savers -> BOOLEAN]
  /\ l_pc \in {"wait", "read", "discard", "seed", "done"}
  /\ l_implied \in Levels \cup {None} /\ l_chg \in BOOLEAN
  /\ l_seed \in Levels \cup {None}

\* The loader makes its choice.
Chooses == l_pc = "read" /\ l_pc' # "read" /\ power' = "on"

\* What a guarded save let through, the next boot believes when the voltage
\* and the charger say the same then: the two copies of the stale rule, in
\* Python and in shell, agree ("Same stale rule as
\* pibrick-battery-load-soc.sh", battery-soc-persist.py:33), whatever other
\* savers, power cuts and reloads come between.
RebootKeepsSoc ==
  [][ Chooses /\ file \in Levels /\ origin # Unknown
      /\ origin = <<l_implied, l_chg>>
      => l_pc' = "seed" /\ l_seed' = file ]_vars

\* No boot starts from an empty-looking SOC on a cell whose voltage says
\* otherwise, not after a forced save, a killed saver or a power cut either:
\* userspace would power off at once, and again at every boot.
NoEmptyBoot ==
  [][ Chooses /\ l_implied # None /\ l_seed' < StaleLow
      => l_implied - l_seed' < StaleDelta ]_vars

\* The loader, which display-manager.service waits for, always ends.
LoaderEnds == power = "on" ~> l_pc = "done"

=============================================================================
