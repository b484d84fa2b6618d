------------------------------ MODULE FocalTouch ------------------------------
(***************************************************************************)
(* The FocalTech driver, built instead of the Hynitron one for PANEL=548:  *)
(* probe with its error labels, the suspend and resume that the frame      *)
(* buffer's notifier and a debugfs file call, the interrupt and its work,  *)
(* the firmware upgrade started from sysfs or from /proc, and remove.      *)
(*                                                                         *)
(* Suspend and the upgrade exist twice.  FTS_GESTRUE, as the source has    *)
(* it, keeps the chip on to watch for gestures; without it the chip is     *)
(* powered down.  And every family of chips has its own upgrade.           *)
(***************************************************************************)
EXTENDS Naturals, FiniteSets

CONSTANTS
  MaxFaults,    \* bounds the failing regulator, pin and transfer
  MaxUpgrades   \* bounds the upgrades

ASSUME FocalAssumption == MaxFaults \in Nat /\ MaxUpgrades \in Nat

VARIABLES
  build,     \* FTS_GESTRUE and the family of the chip
  drv,       \* "absent", "bound" or "leaving", once remove has destroyed the workqueue
  held,      \* what probe has taken and nobody has given back
  ts,        \* power, interrupt and the flags of ft5x06_ts_data
  panel,     \* the chip: "off", "run", "gesture" or "boot"
  flash,     \* its firmware: "whole", "erased", "part" or, of an invalid file, "bad"
  task,      \* where the notifier and the debugfs writer are in suspend and resume
  up,        \* where the two upgrades are
  file,      \* what each of them writes: "whole" or "bad"
  last,      \* what the last upgrade returned
  missed,    \* history: what the last success went without, of "sum" and "reset"
  odd,       \* history: a transition met another one or the work, or left a supply on
  mixed,     \* history: two upgrades overlapped
  faults, upgrades

fvars == <<build, drv, held, ts, panel, flash, task, up, file, last, missed,
           odd, mixed, faults, upgrades>>

Families  == {"6x36", "6x06", "5x36", "5x06", "5x46"}
Rungs     == <<"input", "regs", "supplies", "pins", "id", "wq", "irq", "files", "info">>
Resources == {"input", "regs", "pins", "wq", "irq", "files"}
Callers   == {"fb", "debugfs"}
Starters  == {"sysfs", "proc"}

MaxOn == 3   \* bounds the times the supplies are enabled

Off == [vdd |-> 0, vcc |-> 0, depth |-> 0, suspended |-> FALSE, queued |-> FALSE, down |-> FALSE]

FInit ==
  /\ build \in [gestures : BOOLEAN, family : Families]
  /\ drv = "absent" /\ held = {} /\ ts = Off /\ panel = "off" /\ flash = "whole"
  /\ task = [c \in Callers |-> "idle"] /\ up = [u \in Starters |-> "idle"]
  /\ file = [u \in Starters |-> "whole"] /\ last = "none" /\ missed = {}
  /\ odd = FALSE /\ mixed = FALSE /\ faults = 0 /\ upgrades = 0

Fault(f) == (f => faults < MaxFaults) /\ faults' = faults + (IF f THEN 1 ELSE 0)

\* data->input_dev->mutex: the debugfs writer and the sysfs upgrade exclude each other.
Locked == task["debugfs"] # "idle" \/ up["sysfs"] # "idle"
Idle   == \A c \in Callers : task[c] = "idle"

------------------------------------------------------------------------------
(* Power and pins                                                           *)

\* ft5x06_power_on(true), which undoes vdd when vcc_i2c fails.
PowerOn(t) == [t EXCEPT !.vdd = @ + 1, !.vcc = @ + 1]

Failures == {"none", "vdd", "vcc", "both"}
\* ft5x06_power_on(false), and whether it returned an error.  vdd comes back when
\* vcc_i2c cannot be disabled, and its return value replaces the error.
PowerOff(t, f) ==
  IF f = "vdd" \/ t.vdd = 0 THEN t
  ELSE IF f = "both" THEN [t EXCEPT !.vdd = @ - 1]
  ELSE IF f = "vcc" \/ t.vcc = 0 THEN t
  ELSE [t EXCEPT !.vdd = @ - 1, !.vcc = @ - 1]
OffFailed(t, f) == f \in {"vdd", "both"} \/ t.vdd = 0

\* The chip after a reset, and after its supply came or went.
Restarted(t)  == IF t.vdd = 0 THEN "off" ELSE IF flash = "whole" THEN "run" ELSE "boot"
Powered(t, p) == IF t.vdd = 0 \/ p = "off" THEN Restarted(t) ELSE p

\* ft5x06_gpio_configure: a request of pins that somebody holds fails, and gives back
\* what it had taken; freeing them cannot fail.
PinsFail(fails) == fails \/ "pins" \in held
PinsFreed       == held \ {"pins"}

------------------------------------------------------------------------------
(* Probe                                                                    *)

Before(r) == {Rungs[i] : i \in 1..(r - 1)} \cap Resources

\* What the labels give back when rung r fails: they skip the pins when the workqueue
\* could not be created, and never destroy it once it was.
Labels(r) == Before(r) \ ({"wq"} \cup IF Rungs[r] = "wq" THEN {"pins"} ELSE {})

\* The pins are requested again; a request of pins that were never freed fails.
ProbeFails(r, f) ==
  /\ drv = "absent"
  /\ "pins" \in held => r <= 4
  /\ Fault(~("pins" \in held /\ r = 4))
  /\ held' = held \cup (Before(r) \ Labels(r))
  /\ ts' = IF r <= 3 THEN Off ELSE PowerOff(PowerOn(Off), f)
  /\ panel' = Powered(ts', "off")
  /\ odd' = (f # "none")
  /\ UNCHANGED <<build, file, drv, flash, task, up, last, missed, mixed, upgrades>>

Probe ==
  /\ drv = "absent" /\ "pins" \notin held
  /\ drv' = "bound" /\ held' = Resources
  /\ ts' = PowerOn(Off)
  /\ panel' = Restarted(ts')
  /\ odd' = FALSE
  /\ UNCHANGED <<build, file, flash, task, up, last, missed, mixed, faults, upgrades>>

------------------------------------------------------------------------------
(* Touches                                                                  *)

\* The handler queues its work; between destroy_workqueue and free_irq there is no
\* workqueue left, and what queue_work does then is not modelled.
FInterrupt ==
  /\ {"irq", "wq"} \subseteq held /\ ts.depth = 0 /\ panel \in {"run", "gesture"}
  /\ ts' = [ts EXCEPT !.queued = TRUE]
  /\ UNCHANGED <<build, file, drv, held, panel, flash, task, up, last, missed, odd, mixed, faults, upgrades>>

\* fts_touch_irq_work: the fingers, unless the chip cannot be read.
Work(f) ==
  /\ ts.queued /\ panel # "gesture"
  /\ ts' = [ts EXCEPT !.queued = FALSE, !.down = IF panel = "run" THEN f ELSE @]
  /\ odd' = (odd \/ (~Idle /\ ts'.down))
  /\ UNCHANGED <<build, file, drv, held, panel, flash, task, up, last, missed, mixed, faults, upgrades>>

\* A gesture: its key goes down and up at once, and no finger is looked at.
WorkGesture ==
  /\ ts.queued /\ panel = "gesture"
  /\ ts' = [ts EXCEPT !.queued = FALSE]
  /\ UNCHANGED <<build, file, drv, held, panel, flash, task, up, last, missed, odd, mixed, faults, upgrades>>

------------------------------------------------------------------------------
(* Suspend and resume                                                       *)

Called(c) == "files" \in held /\ task[c] = "idle" /\ (c = "debugfs" => ~Locked)

\* disable_irq, and every finger up.
Released(t) == [t EXCEPT !.depth = @ + 1, !.down = FALSE]

\* With gestures the chip is told to watch for them, and that is all.  Without, a
\* sysfs upgrade keeps the chip on; an upgrade from /proc does not.
FSuspend(c) ==
  /\ Called(c)
  /\ \/ /\ build.gestures
        /\ panel' = IF panel = "run" THEN "gesture" ELSE panel
        /\ ts' = [ts EXCEPT !.suspended = TRUE]
        /\ UNCHANGED <<task, odd>>
     \/ /\ ~build.gestures /\ up["sysfs"] = "idle" /\ ~ts.suspended
        /\ ts' = Released(ts)
        /\ task' = [task EXCEPT ![c] = "suspending"]
        /\ odd' = (odd \/ ~Idle) /\ UNCHANGED panel
  /\ UNCHANGED <<build, file, drv, held, flash, up, last, missed, mixed, faults, upgrades>>

\* The second half: power, then the pins.  When the power fails the chip is reset and
\* the interrupt comes back.  gpio_free of the pins cannot fail.
SuspendEnd(c, f) ==
  /\ task[c] = "suspending" /\ task' = [task EXCEPT ![c] = "idle"]
  /\ Fault(f # "none")
  /\ LET t == PowerOff(ts, f)
     IN IF OffFailed(ts, f)
        THEN /\ ts' = [t EXCEPT !.depth = IF @ > 0 THEN @ - 1 ELSE 0]
             /\ panel' = Restarted(t) /\ UNCHANGED held
        ELSE /\ ts' = [t EXCEPT !.suspended = TRUE]
             /\ panel' = Powered(t, panel) /\ held' = PinsFreed
  /\ odd' = (odd \/ f \in {"vcc", "both"})
  /\ UNCHANGED <<build, file, drv, flash, up, last, missed, mixed, upgrades>>

FResume(c, fails) ==
  /\ Called(c) /\ ts.suspended /\ ts.vdd < MaxOn /\ ts.vcc < MaxOn
  /\ Fault(fails)
  /\ ts' = IF fails THEN ts ELSE PowerOn(ts)
  /\ task' = [task EXCEPT ![c] = IF fails THEN "idle" ELSE "resuming"]
  /\ panel' = Powered(ts', panel)
  /\ odd' = (odd \/ ~Idle)
  /\ UNCHANGED <<build, file, drv, held, flash, up, last, missed, mixed, upgrades>>

\* Mutant: a resume that does not get its pins leaves the power on.
WithoutPinsLit(t, f) == t
\* err_gpio_configuration: the power goes again, and the device stays suspended.
WithoutPins(t, f) == PowerOff(t, f)

\* The second half: the pins, which fail when somebody holds them, as a suspend for
\* gestures does; a reset; and the interrupt.
ResumeEnd(c, fails, f) ==
  /\ task[c] = "resuming" /\ task' = [task EXCEPT ![c] = "idle"]
  /\ Fault((fails /\ "pins" \notin held) \/ f # "none")
  /\ IF PinsFail(fails)
     THEN /\ ts' = WithoutPins(ts, f)
          /\ panel' = Powered(ts', panel) /\ UNCHANGED held
     ELSE /\ f = "none"
          /\ ts' = [ts EXCEPT !.suspended = FALSE, !.depth = IF @ > 0 THEN @ - 1 ELSE 0]
          /\ panel' = Restarted(ts)
          /\ held' = held \cup {"pins"}
  /\ odd' = (odd \/ f # "none")
  /\ UNCHANGED <<build, file, drv, flash, up, last, missed, mixed, upgrades>>

------------------------------------------------------------------------------
(* The firmware upgrade                                                     *)

Begin(u, f) ==
  /\ upgrades < MaxUpgrades /\ upgrades' = upgrades + 1
  /\ up' = [up EXCEPT ![u] = "enter"] /\ file' = [file EXCEPT ![u] = f]
  /\ mixed' = (mixed \/ \E o \in Starters \ {u} : up[o] # "idle")
  /\ UNCHANGED <<build, drv, held, panel, flash, task, last, missed, odd, faults>>

\* What the function of each family does that the steps below do not share: whether
\* it checks the file itself, and whether it gives up on a chip that never answers
\* with its upgrade id.  The 6x06's does not: its loop ends at the bound, and
\* "i > FT_UPGRADE_LOOP" lets it go on.
Upgrade6x36 == [checks |-> TRUE,  givesUp |-> TRUE]
Upgrade6x06 == [checks |-> FALSE, givesUp |-> FALSE]
Upgrade5x36 == [checks |-> FALSE, givesUp |-> TRUE]
Upgrade5x06 == [checks |-> FALSE, givesUp |-> TRUE]
Upgrade5x46 == [checks |-> FALSE, givesUp |-> TRUE]
Family ==
  CASE build.family = "6x36" -> Upgrade6x36 [] build.family = "6x06" -> Upgrade6x06
    [] build.family = "5x36" -> Upgrade5x36 [] build.family = "5x06" -> Upgrade5x06
    [] OTHER -> Upgrade5x46

\* ft5x06_fw_upgrade: sysfs refuses a suspended device.  The format it checks is that
\* of the array in the driver, not of the file.
StartSysfs(f) ==
  /\ drv = "bound" /\ ~Locked /\ ~ts.suspended
  /\ Begin("sysfs", f) /\ UNCHANGED ts

\* fts_debug_write disables the interrupt, and looks at nothing.
StartProc(f) ==
  /\ drv = "bound" /\ up["proc"] = "idle"
  /\ Begin("proc", f) /\ ts' = [ts EXCEPT !.depth = @ + 1]

\* The upgrade returns r; only /proc tells its caller.
Return(u, r) ==
  /\ up' = [up EXCEPT ![u] = "idle"] /\ last' = r
  /\ ts' = [ts EXCEPT !.depth = IF u = "proc" /\ @ > 0 THEN @ - 1 ELSE @]
Step(u, where) == up' = [up EXCEPT ![u] = where] /\ UNCHANGED <<last, ts>>

\* The chip is reset into its boot loader until it answers there, 30 times at most.
Enter(u, hears) ==
  /\ up[u] = "enter"
  /\ LET refused == Family.checks /\ file[u] = "bad"
         in == ~refused /\ hears /\ panel # "off"
     IN /\ Fault(~hears /\ ~refused /\ panel # "off")
        /\ panel' = IF in THEN "boot" ELSE panel
        /\ IF refused \/ (~in /\ Family.givesUp) THEN Return(u, "fail") ELSE Step(u, "erase")
  /\ UNCHANGED <<build, file, drv, held, flash, task, missed, odd, mixed, upgrades>>

\* The polls for the end of it give up in silence.
Erase(u, hears) ==
  /\ up[u] = "erase" /\ Step(u, "write")
  /\ Fault(~hears)
  /\ flash' = IF hears /\ panel = "boot" THEN "erased" ELSE flash
  /\ UNCHANGED <<build, file, drv, held, panel, task, missed, odd, mixed, upgrades>>

\* No packet's result is looked at.
Write(u, hears) ==
  /\ up[u] = "write" /\ Step(u, "check")
  /\ Fault(~hears)
  /\ flash' = IF panel # "boot" THEN flash
              ELSE IF hears /\ flash = "erased" THEN file[u] ELSE "part"
  /\ UNCHANGED <<build, file, drv, held, panel, task, missed, odd, mixed, upgrades>>

\* Mutant: the checksum is read and not compared.
AgreesAlways(u, reads, chance) == TRUE
\* One byte, the XOR of all that was sent, is compared.  The chip's is the file's when
\* it got the file; by chance it is too when packets that cancel out were lost, or when
\* the read failed and the byte left from an earlier read is compared instead.
Agrees(u, reads, chance) == chance \/ (reads /\ panel = "boot" /\ flash = file[u])

\* Only an upgrade that agrees resets the chip, and does not look whether it could; the
\* others leave it in its boot loader.
Check(u, reads, chance, resets) ==
  /\ up[u] = "check"
  /\ Fault(~reads \/ ~resets)
  /\ IF Agrees(u, reads, chance)
     THEN /\ Return(u, "ok")
          /\ panel' = IF resets /\ panel = "boot" THEN Restarted(ts) ELSE panel
          /\ missed' = {m \in {"sum", "reset"} : IF m = "sum" THEN chance ELSE ~resets}
     ELSE Return(u, "fail") /\ UNCHANGED <<panel, missed>>
  /\ UNCHANGED <<build, file, drv, held, flash, task, odd, mixed, upgrades>>

------------------------------------------------------------------------------
(* Remove                                                                   *)

\* cancel_work_sync and destroy_workqueue come first.
Leave ==
  /\ drv = "bound" /\ drv' = "leaving"
  /\ held' = held \ {"wq"} /\ ts' = [ts EXCEPT !.queued = FALSE]
  /\ UNCHANGED <<build, file, panel, flash, task, up, last, missed, odd, mixed, faults, upgrades>>

\* The rest, once nobody is in the files or the notifier: the interrupt, the pins, a
\* second time when suspended, the power and the supplies.
Removed(f) ==
  /\ drv = "leaving" /\ drv' = "absent"
  /\ Idle /\ \A u \in Starters : up[u] = "idle"
  /\ Fault(f # "none")
  /\ held' = {} /\ ts' = [PowerOff(ts, f) EXCEPT !.depth = 0, !.suspended = FALSE, !.down = FALSE]
  /\ panel' = Powered(ts', panel) /\ odd' = (odd \/ f # "none")
  /\ UNCHANGED <<build, file, flash, task, up, last, missed, mixed, upgrades>>

FNext ==
  \/ Probe \/ \E r \in DOMAIN Rungs, f \in Failures : ProbeFails(r, f)
  \/ FInterrupt \/ WorkGesture \/ Leave
  \/ \E b \in BOOLEAN :
       \/ Work(b)
       \/ \E c \in Callers : FResume(c, b) \/ \E f \in Failures : ResumeEnd(c, b, f)
       \/ \E u \in Starters : Enter(u, b) \/ Erase(u, b) \/ Write(u, b)
  \/ \E f \in {"whole", "bad"} : StartSysfs(f) \/ StartProc(f)
  \/ \E c \in Callers : FSuspend(c) \/ \E f \in Failures : SuspendEnd(c, f)
  \/ \E u \in Starters, reads, chance, resets \in BOOLEAN : Check(u, reads, chance, resets)
  \/ \E f \in Failures : Removed(f)

FSpec == FInit /\ [][FNext]_fvars

------------------------------------------------------------------------------
(* Properties                                                               *)

FTypeOK ==
  /\ build \in [gestures : BOOLEAN, family : Families]
  /\ drv \in {"absent", "bound", "leaving"} /\ held \subseteq Resources
  /\ ts \in [vdd : 0..MaxOn, vcc : 0..MaxOn, depth : Nat, suspended : BOOLEAN,
            queued : BOOLEAN, down : BOOLEAN]
  /\ panel \in {"off", "run", "gesture", "boot"} /\ flash \in {"whole", "erased", "part", "bad"}
  /\ task \in [Callers -> {"idle", "suspending", "resuming"}]
  /\ up \in [Starters -> {"idle", "enter", "erase", "write", "check"}]
  /\ file \in [Starters -> {"whole", "bad"}] /\ last \in {"none", "ok", "fail"}
  /\ missed \subseteq {"sum", "reset"}
  /\ odd \in BOOLEAN /\ mixed \in BOOLEAN /\ faults \in Nat /\ upgrades \in Nat

\* When no two transitions overlapped and no supply refused to go, a device between
\* transitions has its power, pins and interrupt exactly as suspended says, every
\* disable_irq has had its enable_irq, whichever halves failed on the way, and no
\* finger is left down on a chip that is off.
SuspendedIsWhole ==
  drv = "bound" /\ Idle /\ ~odd =>
    LET off == ts.suspended /\ ~build.gestures
    IN /\ ts.vdd = ts.vcc /\ ts.vdd = IF off THEN 0 ELSE 1
       /\ off <=> "pins" \notin held
       /\ ts.depth = (IF off THEN 1 ELSE 0) + (IF up["proc"] = "idle" THEN 0 ELSE 1)
       /\ off => ~ts.down

\* An upgrade that returned success has compared the chip's checksum with the file's,
\* however many packets were lost under it and whatever was suspended meanwhile: what
\* it was given is in the flash, on the 6x36 a whole firmware, unless the one byte agreed
\* by chance; and a whole firmware is running, over later suspends and resumes too,
\* unless the reset at the end was lost as well, which nothing looks at.  Of two upgrades
\* at once nothing is promised.
UpgradeIsJudged ==
  ~mixed /\ last = "ok" /\ (\A u \in Starters : up[u] = "idle") =>
    /\ "sum" \notin missed =>
         flash \in IF build.family = "6x36" THEN {"whole"} ELSE {"whole", "bad"}
    /\ missed = {} /\ flash = "whole" => panel # "boot"

\* A driver that could not bind, or has gone, holds nothing but the workqueue that
\* probe never destroys, or the pins it keeps when it could not create that, which is
\* why no later probe succeeds; the supplies are off.
NothingHeldWhenAbsent ==
  drv = "absent" =>
    /\ held \subseteq {"wq", "pins"}
    /\ (~odd => ts.vdd = 0 /\ ts.vcc = 0)

\* Power, pins and interrupt are balanced over probe, suspend, resume and remove.
ResourcesBalanced == SuspendedIsWhole /\ NothingHeldWhenAbsent
==============================================================================
