# A verification project for the piBrick driver and its user space

The repository holds the kernel drivers, daemons and scripts of the piBrick
PocketCM5 handheld: a battery charger and fuel-gauge driver, DSI panel and touch
drivers, a power-button daemon, an autorotation service and the installer. This
directory holds TLA+ models of its stateful parts, the TLC runs that check them,
and proofs of the main results for every value of the constants.

Contents: 1 inventory, 2 modules and how they correspond to the code, 3 runs,
4 fairness, 5 proofs, 6 what the code does otherwise than it says, 7 what is not
modelled, 8 plan.

## 1. Inventory

Line numbers without a file are of `src/battery/bq25890_battery.c`.

### Battery driver: fuel gauge

*State*, all in `struct bq25890_device` under `bq->lock`: the published SOC
(`capacity_cache`, `capacity_valid`); the coulomb counter `fg_disch_remain_uah`
(-1 = never seeded) and its finer copy `ina228->last_disch_remain_nah`; the mode
(`fg_mode`), the power state of the last sample (`last_ext_pwr`,
`last_charging`), the chip state (`bq->state`), the charge session
(`chg_remain_uah`), the low-voltage counter, `fg_user_seeded`; outside the lock
`notified_capacity/status` and `fast_poll_until`.

*Operations*: one sample (`bq25890_sample_and_update_fg`: read, seed, integrate,
choose a mode, publish), the boot calibration's seed, the sysfs stores
`coulomb_uah` and `reset_soc`, the INA228 probe, the module parameter
`ina228_enabled`.

*Interaction*: the sample is called by the refresh worker (every minute), the
calibration worker (once, 30 s after probe), the IRQ thread and every property
read whose data is older than a second. Uevents tell UPower to read again.

*Hard*: the order of first sample, calibration, probe of the INA228 and
userspace's seed is not fixed; the counter is kept twice; one sample mixes the
last SOC, the counter and the voltage; several paths publish and each has its own
way of announcing; some reads are outside the lock.

*Correct means*: a counter that has been seeded moves only by the charge that
flowed; the two copies agree; a userspace seed is not replaced by a voltage; the
SOC shown neither collapses nor overstates the counter; the worker never stops;
userspace sees what was published.

### Battery driver: charger control

*State*: the chip's EN_HIZ and CONV_RATE bits, `bq->state` (cached chip state),
`force_hiz`, the input current limits, the boost (OTG) bit, Pump Express, the
second charger. *Operations*: the IRQ thread, writes of the ONLINE, current and
voltage properties, suspend and resume, the USB notifier, the Pump Express work,
the regulator. *Hard*: the IRQ thread compares with a cache that every sample
refreshes; ONLINE, suspend, Pump Express and the regulator write registers without
the lock; a bus error loses an interrupt. *Correct means*: high impedance exactly
when userspace asked for it, periodic conversions exactly when there is an adapter
to measure, the limit that of the supply, the boost and the second charger what the
last event asked for.

### Battery driver: lifecycle

Probe and remove order works, power supplies, sysfs files, the INA228 client and
the IRQ. *Hard*: works and readers run while `bq25890_remove` releases the INA228
(2310, 4851) and are cancelled only by the devm action (4692). *Correct means*: no
step uses what has been released, and after remove nothing is scheduled.

### Battery user space: SOC persistence

`battery-soc-persist.py` (cron, shutdown, after `battery_set.py`) saves the SOC to
`soc_persist` unless it looks wrong; `pibrick-battery-load-soc.sh` seeds
`coulomb_uah` once per boot from the file or the OCV table. *Hard*: the file is
rewritten in place, savers and loader overlap, power is cut, the stale rule exists
in two languages. *Correct means*: the SOC survives a reboot, no boot starts from
an empty-looking SOC on a healthy cell, the loader ends.

### Battery user space: tuning and calibration

`battery_set.py`, the calibration logger and the auto-calibrator edit module
parameters and the OCV table. Batch programs; the calibrator's table must stay
monotonic.

### Button daemon (`src/button-service/pibrickbtn.c`)

One loop: wait for a press, tell a short from a long one, send KEY_POWER through
uinput, debounce the release. *Hard*: timers against GPIO reads that may fail.
*Correct means*: every press is answered once, the power key is down only while a
gesture says so, and a key that went down comes up.

### Panels and touch

Four DSI panel drivers (`panel-pibrick.*.c`: prepare, enable, disable, unprepare,
backlight, `display_enable` sysfs), the Hynitron touch core (`hyn_core.c`: IRQ
report, ESD and resume works, panel follower, suspend) with eight chip backends,
and the FocalTech driver (`ft5x06.c`). *Hard*: DRM callbacks, sysfs writes, IRQs
and works on the same device; touch follows the panel's power; updates rewrite the
controllers' flash over a bus that loses transfers. *Correct means*: balanced supplies and enables, a
picture that is what was set, touch that sleeps and wakes with the panel, a driver that knows the
chip's mode and address, an update that says success only for a whole image.

### Autorotation

A daemon polls the accelerometer (`mma8451q.c`), debounces, and applies the
orientation through the desktop; a lock file, D-Bus front end and plasmoid toggle
it. *Hard*: the loop remembers what it applied, over locks, rotations by the lock
script and a desktop that is down; the lock file is read twice and written in place;
`set -e` turns some failures into a restart. *Correct means*: the screen comes to
what the lock or the device says.

### Installer and tools

`install.sh`, `tools/`, `addon/`, desktop set-up: sequential programs of file and
package operations.

`PROJECT.json` lists every component with its status, and the hazards with the
line where each bites.

## 2. Modules

| Module | Models | Kind |
|---|---|---|
| `SocView` | what the gauge promises to anybody outside the lock | abstract specification |
| `FuelGauge` | the estimator's state and every critical section that writes it | detailed, refines `SocView` |
| `FuelGaugeThreads` | workers, IRQ thread, readers and sysfs writers over `SocView` | composition |
| `BatteryMath` | register tables, OCV curve, scale factors, filters | pure operators |
| `GaugeSensing` | one sample computed from register readings; limit properties | detailed, uses `BatteryMath` |
| `ChargerIrq` | EN_HIZ and CONV_RATE: IRQ thread, samples, ONLINE, suspend, resume | detailed |
| `ChargerPower` | input limit, Pump Express, USB boost, regulator, second charger | detailed |
| `DriverLifecycle` | probe, its failures, remove and devm, beside works and readers | detailed |
| `SocPersist` | savers, boot loader, `soc_persist`, power cuts | detailed |
| `Buttons` | the button daemon | detailed |
| `Autorotation` | the autorotation service and the writers of its lock file | detailed |
| `Panel` | the four DSI panel builds under DRM, sysfs, backlight, shutdown | detailed |
| `HynTouch` | the Hynitron driver's threads over the backend that is built | composition |
| `TouchChips` | the eight Hynitron backends at run time, one call after another | detailed |
| `TouchFirmware` | firmware judgement and update of the eight backends | detailed |
| `FocalTouch` | the whole FocalTech driver | detailed |
| `FuelGauge_proofs`, `HynTouch_proofs`, `Panel_proofs`, `TouchFirmware_proofs` | theorems about the module they are named after | proofs |
| `Battery_proofs` | ... about `DriverLifecycle`, `FuelGaugeThreads`, `GaugeSensing` | proofs |
| `Charger_proofs` | ... about `ChargerIrq`, `ChargerPower` | proofs |
| `TouchControllers_proofs` | ... about `TouchChips`, `FocalTouch` | proofs |
| `Userspace_proofs` | ... about `SocPersist`, `Buttons`, `Autorotation` | proofs |
| `MC...` | values for the constants, compositions for TLC | for TLC |

**`FuelGauge`**: one action is one critical section of `bq->lock`, so its
atomicity is the code's. `Sample` has one disjunct per branch of the mode
selection (2524-2690), each with what precedes and follows it (seeding,
integration, low-voltage counting, publication). `CalibrateSeed`, `StoreCoulomb`,
`ResetSoc`, `Ina228Probe` and `SetIna228Enabled` are the other writers;
`CacheChipState` is the IRQ thread's and resume's store of `bq->state`. A voltage
is the percentage the OCV table gives for it (`OcvPct`); a failed read is
`ReadError` and becomes, as in the code, 0 %; currents and times appear as the
charge they move (`Moves` in nAh, `ProxyDrops` in uAh). `seed_gen` and `ina228_off`
are history: that `coulomb_uah` was written, that `ina228_enabled` has been 0.

**`SocView`** has three steps: publish (a sample), write (`coulomb_uah`), withdraw
(`reset_soc`). `FuelGauge!View` is the instance with the variables of the same
names and `ImplementsView` the refinement. `FuelGaugeThreads` EXTENDS `SocView` and
may use three steps instead of the gauge's ten: what it shows holds of the gauge
because the gauge refines the view. There every thread is a program counter and a
step is what happens between two lock operations; UPower is external.

**`BatteryMath`, `GaugeSensing`** compute what `FuelGauge` takes as given: from an
ADC code, a current, a temperature and the gap since the last sample to the
smoothed and rest voltage, the filtered and calibrated current, the charge, the
drift correction, the SOC and the mode. `SetProperty` is a write of a current or
voltage limit. Products are reduced before they exceed TLC's 32 bits, without
changing the quotient.

**`ChargerIrq`**: `chip` is what the chip would answer now, `state` is `bq->state`.
The IRQ thread (3412-3471) is split where other threads or the cable can act
(`IrqRead`, `IrqRestore`, `IrqAdc`, `IrqSample`); a write of ONLINE is
`OnlineWrite`, `OnlineRemember`, `OnlineRefresh`, without the lock until the last.
External: a replug clears EN_HIZ and PG_STAT is independent of it. `raced`,
`bus_failed` and `hiz_used` are history.

**`ChargerPower`**: none of its handlers takes the lock, so each access of the chip
or of the second charger that another handler can tell apart is a step. The power
supply core delivers a burst of changes once; what the driver does with it depends on
`chip_version` and `pump_express`, chosen at the start (`ExternalPowerIgnored`,
`ExternalPowerUnread`, `ExternalPowerType`). The notifier stores every event
over `usb_event`, also those the work's switch does not know. `otg_by` and `asked` are
history: who decided last, and which of the two switching events came last, or that it
was overwritten unread.

**`DriverLifecycle`**: `ProbeOrder` and `RemoveOrder` are the code's order of calls;
any step of probe may fail, after which `devm` is unwound, last acquired first, one
of the entries being `bq25890_non_devm_cleanup`. Works, interrupt, notifier,
readers and the writers of the two device files run at any time what they were reached
through exists: removing the file `coulomb_uah` waits for its writers (`stores`), the
file `reset_soc` is not removed.

**`SocPersist`**: a saver is `SaveBegin`, `SaveRefused` or `SaveOpen` (guards, then
`open("w")`, which truncates) and `SaveWrite`; the loader's steps are its waits, its
choice (`LoaderTrusts`, `LoaderUsesOcv`, `LoaderHasNothing`) and its seed.
`SaverStale` and `LoaderStale` are translated separately from Python and shell. The
driver is reduced to a SOC and an OCV percentage that move freely.

**`Buttons`**: one action per state of the loop, time in polls of 5 ms, two clocks
(`since` the press, `seen` at the last poll that found it down). The fingers move at
any time, reads fail (and repeat the last answer), uinput writes are lost, the
process is killed and restarted.

**`Autorotation`**: `FindsLock` and `ReadsLock` are the two looks at the lock file;
`Sample` a reading up to the first confirmation, `Decide` one `STABLE_DELAY_MS`
later, `TurnsLocked` and `Turns` the rotation in the two contexts, which differ: as
a plain command under `set -e` a failure ends the script, as a condition
`apply_rotation` returns 0 whatever `rotate_kde` said. The lock is written by the
D-Bus service (which then runs the script, which writes it again), by the script and
by the plasmoid's last resort. The sensor's numbers are the orientation
`detect_orientation` makes of them. `read` and `strayed` are history.

**`Panel`**: `variant` chooses one of the four builds; what they have in common is
written once and the differences are `CASE`s. The panel is what its DCS commands
made of it (`hw`), reduced to supply, reset, sleep, display-on, brightness and the
profile's registers. `Drm...` actions follow the DRM core's order of calls;
`User...` are the sysfs writes, split at their DCS sequences.

**`HynTouch`**: five threads and the interrupt; a step is what a thread does up to
the next place where another one matters, and `hyn_irq_set` is itself three steps
(`call`). `meddled`, `crossed` and `asked` record what the user's tool did.
**`TouchChips`** has the same calls for all eight backends one after the other: each
backend's function is an operator on a state of driver and chip, so that they can be
compared and proved about; of its transfers the ping that looks for the chip and the
command may be lost apart (`bus`). **`TouchFirmware`** is the inside of the update: bus and
flash answer as they like, a packet may be stored, garbled or lost whatever the
transfer said. The cst3240's unbounded checksum loop is a phase of its own, in probe
("probing") and in the update ("reading"), that only a successful read leaves. **`FocalTouch`** has probe as a ladder of resources (`Rungs`, one
failure per rung with the labels behind it), suspend and resume in two steps each,
the interrupt and its work, the upgrades of five chip families from two starters, whose one-byte checksum may agree
by chance and whose final reset may be lost (`missed` records both).

## 3. Runs

| Run | Asks | Distinct states |
|---|---|---|
| `gauge` | the estimator, all critical sections in every order | 266,640 |
| `threads` | all threads over the published view | 151,072 |
| `sensing` | a sample from register codes to the SOC, on a 2 Ah cell | 1,931,395 |
| `charger` | IRQ thread beside samples, ONLINE, suspend, bus errors | 83,808 |
| `power` | Pump Express, supplier, USB events and regulator in any overlap | 741,128 |
| `lifecycle` | probe, failures, remove, unwinding beside everything that runs | 188,475 |
| `persist` | savers, loader, reloads, shutdowns, power cuts | 1,202,862 |
| `panel` | four builds under DRM, sysfs, backlight, shutdown | 246,394 |
| `touch` | the Hynitron driver's threads at every register access | 1,471,200 |
| `controllers` | eight Hynitron backends; the FocalTech driver | 2,325,335 |
| `firmware` | updates of the eight backends, with power cuts | 201,498 |
| `daemons` | the button daemon; the autorotation service | 321,288 |

Every run is expected to pass. Deadlock is checked in all but `sensing`, which stops
after `MaxSamples`. No symmetry is used.

**`gauge`**. `AccumulatorTracks`: the nAh accumulator is the counter to within
rounding, whichever of probe, seed, write and sample came first.
`CounterContinuous`: a tracked counter moves by one sample's charge at most; no
voltage reseeds it. `NoSuddenEmpty`: the SOC shown falls by one sample's charge or
one rest correction at most unless the low-voltage guard has counted, and the first
SOC is not 0 when BATV shows a cell that is not empty. Two things it does not promise,
because the code does not keep them: the sample after a terminated charge may drop the
SOC to what the stale accumulator holds (2528, section 6), no lower than that and its
own cost; and a first reading that is itself wrong, pegged at the ADC's floor or
failed, publishes 0 % on a healthy cell. `NeverOverstated`: it is never above the
counter by more than rounding. `ImplementsView`: the refinement. *Bounds*:
`Full = 100` uAh makes one percent one uAh, so the roundings of counter and
percentage meet; a step of 34.4 uAh is no whole number of uAh and three of them
cross the whole range, so both clamps and the restart from 0 are reached; OCV
readings of 0 and 60 % give seeds that no number of steps makes equal to full;
`LowVPersist = 2` needs two low samples in a row. `VbusSteady = TRUE` and
`BatvFails = FALSE` are assumptions: with an adapter arriving between the two VBUSV
reads of a sample (1021) it may report Charging without one, and with failing BATV
reads the first SOC may be 0 (2624), so that hazard is met by the code and not
exercised by the run. `CounterContinuous`, `NoSuddenEmpty` and
`AccumulatorTracks` are stated until `ina228_enabled` is first 0.

**`threads`**. `WorkerKeepsRunning`: no error path ends the periodic sampling.
`ReadsPublished`: until `reset_soc` is written the unlocked CAPACITY read returns
only published values. Two SOC values besides 0 suffice: values are only compared.

**`sensing`**. `FloorNeverSags`: an ADC stuck at its floor never lowers a smoothed
voltage above 3.15 V, on a plug change either, and is never taken for the rest
voltage. `SettingHonoured`: a limit that userspace writes is never exceeded, is
missed by less than a register step and stays within the device tree's. The named
assumptions `CurveAssumption` (the OCV curve is ordered) and `TableAssumption`
(value-to-index and index-to-value are inverse on every table) are evaluated over
the whole tables. *Bounds*: seven readings (floor, sag, middle, full; discharge,
charge, rest; below 0 C), gaps of 1, 30 and 400 s (below and above the drift,
reseed and rest limits), four samples.

**`charger`**. `HizAsAsked`: if no interrupt was overlapped, the chip is in high
impedance exactly when userspace asked. `AdcFollowsCable`: under the same
condition, with EN_HIZ unused, conversions run exactly with an adapter, also after
suspend. `StateConverges`: after lost interrupts and overlaps the cached state
becomes the chip's again. Finite without bounds.

**`power`**. `SecondaryComesBack`: Pump Express and the regulator both switch the
second charger off; when neither holds it any more it is on. `LimitFollowsSupply`:
on a BQ25892, after a burst of supplier changes the limit is the last supply's; the
driver of the other chips, among them this device's BQ25895, never looks at the
supplier (3344). `BoostFollowsUsb`: the boost ends up as the last ID or NONE asked,
unless one of the events that the work ignores was stored over it before the work
had read it, which does lose it (section 6). All three except a failed access.
*Bounds*: two USB types, one that Pump Express acts on; ID, NONE and one event that is
ignored (VBUS, CHARGER and ENUMERATED are alike to the work); a chip that follows its
supplier and one that does not; Pump Express configured or not; one try of its loop
(the tries are alike).

**`lifecycle`**. `QuietWhenUnbound`: once the driver is unbound, whichever step
failed, nothing of it can run but the store of `reset_soc`, whose file nobody removes;
every other work, thread, reader, file and writer is gone. `SuppliesOutliveEvents`: nobody announces a change
of a supply that is not there. `UnbindEnds`: remove and a failed probe come to an
end although the periodic work queues itself.

**`persist`**. `RebootKeepsSoc`: a guarded save is believed when voltage and charger
say the same at boot, i.e. the two stale rules agree. `NoEmptyBoot`: no boot chooses
an empty-looking SOC against the voltage, not even after `--force` or a power cut.
`LoaderEnds`. Levels 0, 15 and 30 lie on both limits; two savers are cron and the
shutdown service.

**`panel`**. `SuppliesFollowDrm`: the regulators are on exactly when DRM holds the
panel for prepared. `ShowsWhatIsSet`: a panel that is up can be seen at the
brightness and in the profile that sysfs reports, with the exceptions stated there.
`DarkAfterShutdown`. *Bounds*: the profile of the initial sequence and two that
write different registers; three brightnesses.

**`touch`**. `IrqBalanced`: `hyn_irq_set`'s flag and the kernel's depth agree unless
two calls crossed. `CallbacksSerialised`: panel callbacks and the resume work do not
switch the interrupt side by side, as a comment promises, unless the tool queued the
work. `QuietWhileGone`, `TouchReturns`: touch sleeps while the panel is gone and
comes back with it. *Bounds*: one finger (slots are independent), two operations of
the user, which is what it takes for the tool to meet the mode file.

**`controllers`**: `build.sh` builds one of the two drivers; `fts` chooses, the other
stands still. `ClaimsExclude`: keys and coordinates are never claimed together and a
finger that is down stays claimed. `DriverKnowsChip`: work_mode and the I2C address
say what the chip does, with the exceptions each backend needs (the cst92xx's sleep,
factory test and charge commands among them). `ResourcesBalanced`:
FocalTech's supplies, pins and interrupt are held as `suspended` says, and an absent
driver holds nothing but the leftovers named there. `UpgradeIsJudged`: an upgrade that
returned success has left what it was given unless the one-byte checksum agreed by
chance, and a whole firmware runs unless the reset at the end was lost, which the code
does not look at. *Bounds*: one fault and two upgrades, so
that a fault meets each half of each transition and two upgrades overlap.

**`firmware`**. `SuccessIsStored`: what success means, per backend. `ProbeJudges`: the
next probe finds a damaged flash. `UpdateEnds`: every update ends with touch usable,
provided that the bus lets the cst3240 out of its unbounded checksum loop.
*Bounds*: three packets (first, middle, last), one power cut.

**`daemons`**: `rotation` chooses the daemon, the other stands still; they share
nothing. `KeyMatchesGesture`, `PressAnswered`, `GestureEnds`: the power key is down
only while a gesture says so, each press is answered once, letting go ends it.
`ScreenFollows`: once the desktop answers and nobody touches lock or device, the
screen comes to what the lock or the device says, with two exceptions stated there.
*Bounds*: a long press is 9 polls instead of 400, the least that leaves settle time,
debounce and releases on both sides of the limit; one lost write and one failed read.
Two orientations, one of which `get_current_orientation` reports as a third; a buffer
of two samples instead of five, which can agree or not. Three orientations with a
buffer of three were checked once (1,464,072 states) with the same result.

Every property has a mutant in `PROJECT.json`: a plausible wrong version of one
definition under which TLC refutes the property in the same run. The mutated
definitions stand in the modules before the right ones, marked "Mutant".

## 4. Fairness

`FuelGauge`, `GaugeSensing`, `Panel`, `TouchChips` and `FocalTouch` state safety
only. For the others:

- `FuelGaugeThreads`: weak fairness of the worker's steps (a scheduled delayed work
  runs), strong fairness of its successful sample (the bus does not fail every one
  for ever), weak fairness of the notify steps and of a read that has begun.
- `ChargerIrq`: weak fairness of the IRQ thread, strong fairness of the worker's
  sample (enabled only while the IRQ thread does not hold the lock).
- `ChargerPower`: weak fairness of works that are queued, of the power supply core's
  delivery and of regulator calls that have begun. Nobody has to plug or to call.
- `DriverLifecycle`: a thread or store that has begun ends, an unbinding that has begun
  goes on.
- `SocPersist`: weak fairness of the loader, whose waits the script bounds.
- `HynTouch`: each thread's call of `hyn_irq_set`, probe, the panel's way down, the
  work, the interrupt thread and an operation of the tool go on once begun.
- `TouchFirmware`: probe when the machine is up; an update that has begun, whose loops
  count their tries. None for the cst3240's loop that does not (`Stuck3240`): that it is
  left is `UpdateEnds`' own hypothesis.
- `Buttons`: the process is scheduled, time goes on, scripts end, systemd restarts.
- `Autorotation`: the loop, a lock command that has begun, the cooldown, systemd.

Nothing obliges a cable, a user, a finger, a session or DRM to act, and where a
liveness property needs them to be still, it says so itself.

## 5. Proofs

Thirty-four theorems are listed in `PROJECT.json`; they hold for every value of the
constants that the modules' named assumptions allow. Every invariant and every action
property that a run checks is the statement of one of them; what is left to TLC
alone is liveness.

| Module | Theorem | Property |
|---|---|---|
| `FuelGauge_proofs` | `TypeCorrect` | `TypeOK` |
| | `AccumulatorCorrect` | `AccumulatorTracks` |
| | `CounterIsContinuous` | `CounterContinuous` |
| | `UserSeedIsHeld` | `UserSeedHeld` (proved only) |
| | `SocIsBacked` | `NeverOverstated`, when BATV reads do not fail |
| | `SocDoesNotCollapse` | `NoSuddenEmpty`, when BATV reads do not fail |
| | `GaugeImplementsView` | `ImplementsView` |
| `Battery_proofs` | `UnboundIsQuiet`, `SuppliesStay` | `QuietWhenUnbound`, `SuppliesOutliveEvents` |
| | `ReadsArePublished` | `ReadsPublished` |
| | `FloorIsNoCollapse`, `SettingsAreHonoured` | `FloorNeverSags`, `SettingHonoured` |
| `Charger_proofs` | `HizStaysAsAsked`, `AdcTracksCable` | `HizAsAsked`, `AdcFollowsCable` |
| | `SecondaryIsBack` | `SecondaryComesBack` |
| | `BoostSettles`, `LimitSettles` | (proved only: what `BoostFollowsUsb` and `LimitFollowsSupply` need of safety) |
| `Userspace_proofs` | `BootIsNotEmpty`, `RebootBelievesSave` | `NoEmptyBoot`, `RebootKeepsSoc` |
| | `KeyFollowsGesture`, `PressIsAnswered` | `KeyMatchesGesture`, `PressAnswered` |
| | `LoopRemembersScreen` | `RemembersScreen` (proved only: what `ScreenFollows` needs of safety) |
| `Panel_proofs` | `SuppliesMatchDrm`, `StaysDark` | `SuppliesFollowDrm`, `DarkAfterShutdown` |
| | `PanelShowsWhatIsSet` | `ShowsWhatIsSet` |
| `HynTouch_proofs` | `CountFollowsFlag` | `IrqBalanced` |
| | `CallbacksDoNotOverlap` | `CallbacksSerialised` |
| | `TouchIsQuiet` | `QuietWhileGone` |
| `TouchFirmware_proofs` | `SuccessMeansStored`, `ProbeJudgesRight` | `SuccessIsStored`, `ProbeJudges` |
| `TouchControllers_proofs` | `ReportsExclude`, `ChipKnown` | `ClaimsExclude`, `DriverKnowsChip` |
| | `ResourcesStayBalanced`, `UpgradesAreJudged` | `ResourcesBalanced`, `UpgradeIsJudged` |

The proof modules of two or three components extend all of them, which is why those
components name their initial predicate, next-state relation and variables apart
(`LInit`, `GInit`, `PInit`, `BInit`, `FInit` and so on).

*What the proofs assume.* Each module's `ASSUME`s, evaluated by TLC in its run: for the
gauge `FullAssumption` (a positive capacity), the shape of the OCV table and that moves
and drops are sets of integers; for `GaugeSensing` the ranges of capacity, readings, gaps
and device tree limits that keep the arithmetic within the code's integers, and that what
userspace writes is an integer; for `ChargerPower` that ID and NONE are among
the USB events and that the constant which stands for "nobody runs" is no type and no
event. Two theorems have a hypothesis besides, `~BatvFails`, and
both are false without it, as TLC shows: see the gauge below.

*Arguments.*
- **Gauge.** `AccumulatorTracks` does not say why the accumulator is loaded before it
  is used. `CounterInv` adds that it is 0 until an INA228 is present and then tracks
  the counter, is 0, or the counter is full; from it one step of either integrator
  moves the counter by at most `MaxMove`. All is proved for
  `OnInv == TypeOK /\ (ina228_off \/ CounterInv)`. `OverInv` adds to
  `NeverOverstated` that a SOC is published only with a counter behind it, and needs
  `~BatvFails`: otherwise a charging sample may publish 50 % for a counter that is
  seeded lower afterwards, and a sample whose read failed is an empty cell to the
  curve. `SocDoesNotCollapse` rests on the lemma that `m` uAh never cost more than
  `PctOf(m)` percent wherever on the scale they go (`PctMoves`), and on `ShownFrom`: what
  a sample shows comes from its counter, from the curve or from the last SOC less one
  rest correction, and only the low-voltage guard goes below; after a terminated charge
  the lemma is applied to what backs the counter then, the stale accumulator
  (`BackedUah`). The refinement shows that
  each branch of the sample is SocView's publish, and that seeds, probe and parameter
  steps stutter.
- **Readers.** `Fetchable`: a reader that is about to fetch without the lock has seen a
  valid value, and only `reset_soc` takes validity away.
- **Sensing.** The filters are bounded by what they approach (`Approach` moves towards its
  target and not past it), so no arm of the smoothing lowers the voltage on a floor
  reading, and no later part of the sample touches it. For the limits, the register of a
  value is the one below it, by the rule of integer division; `Written` says that the
  register still holds what was written last.
- **Lifecycle.** `Prefix`: the managed resources are at all times a prefix of one list,
  so that how many are held says which. `Outlived` gives for each thread the number
  below which it cannot be running, `Cleaning` says what the cleanup has
  already waited for, `Owned` whose the INA228's client is, `FilesInv` that the file
  `coulomb_uah` and its writers go before the entries behind the cleanup do. The step of probe that gets
  ahead of this, the notifier, is covered because it is the last one taken and the first
  one dropped.
- **Charger.** Between interrupts `bq->state` is right about the cable; while one is
  handled the difference between it and the state just read is what has happened.
  `HizInv` and `AdcInv` follow the interrupt from edge to end, as long as none was
  overlapped or lost (`Orderly`). `SecondaryComesBack` is inductive as it stands.
  `BoostInv` and `LimitInv` say that a handler under way has read the last event or
  is queued again, which is why an ID or NONE is lost only when it is overwritten
  unread; that it is eventually handled remains a matter of fairness. `BoostSettles`
  holds for any set of events the work ignores. `LimitSettles` proves `LimitSettled` for
  the BQ25892 and `LimitUnled` for every other chip, whose limit no supplier ever sets.
- **Persistence.** `PersistInv` says of the file, and of what each saver is about to
  write, that it was not stale when its voltage was read (`Fits`).
- **Panel.** A DCS command moves neither the supplies nor the reset line (`Keeps`), so
  what the user does beside DRM cannot disturb them; `PanelInv` ties the 9203's own
  `powered` to DRM's `prepared`. `ShowInv` adds when the panel listens at all
  (`Hears`), that a profile still to be written is the one chosen (`Profiled`), and that
  without a switch by the user DRM's enable is not skipped (`Lighted`).
- **Buttons.** `KeyInv` says in which states `power_key_held` and the key may be set;
  `ClockInv` that `seen` is not ahead of `since` and what `longDone` says of them.
- **Autorotation.** `RotationInv`: a lock that the loop has read while the command that
  wrote it is still to turn the screen is remembered or about to be applied
  (`ReadInTime`), so that the command cannot turn the screen away from what is
  remembered; and where the two differ the loop is about to put it right or to
  end, or will read the lock that did it (`Remembered`).
- **Hynitron.** `IInv` describes one call of `hyn_irq_set` at each of its places
  (`Fits`): as long as none crossed, at most one is under way, and flag, depth and
  interrupt thread are what its place says (`Balance`). `Serial` follows the
  resume work from its cancelling to the end of the callback, `Alike` and `Gone` what a
  suspend that found itself alone leaves behind. Each layer of a backend's function keeps
  claims, invents no address and no mode (`Sound`, `Follows`, `Honest`), so `Inv` is
  preserved by any composition. For the update, success comes only out of the comparison
  of the checksum (`EndIsHonest`).
- **FocalTech.** `ResourceInv` says what is held inside a transition as well, where one
  half has run: `GestureBalance` and `PowerBalance` for the two builds. `UpgradeInv`
  ties an upgrade's last success to what it went without (`missed`), over the transitions
  that come after it.

*Only model-checked*: everything under fairness, which is out of the prover's reach, that
is `WorkerKeepsRunning`, `StateConverges`, `LoaderEnds`, `LimitFollowsSupply`,
`BoostFollowsUsb`, `UnbindEnds`, `TouchReturns`, `UpdateEnds`, `GestureEnds` and
`ScreenFollows`.
There is no RECURSIVE operator, and no claim about a recursive definition's value
for every input.

## 6. What the code does otherwise than it says

Met while the models were written. The models follow the code in each of these, and
where a property needs an exception for one, it names it.

### Fuel gauge

The first eight were each found by TLC as a counterexample to the quoted sentence,
with a property of its own that is not kept among the runs.

- `charge_full` (2528): CHARGING_DONE sets the counter to full and leaves the
  accumulator at its old value; the integrator re-seeds only when one of them is 0, so
  the first INA228 step on battery drops the full charge. Line 1992: "Re-seed the nah
  accumulator whenever the coulomb counter was reset (e.g. at boot, after full charge,
  or after a user seed)." `CounterContinuous`, `AccumulatorTracks` and `NoSuddenEmpty`
  except this step; the last bounds the drop by the stale accumulator.
- Rest correction (2664): it lowers the SOC for the one sample that enters RESTING and
  never the counter, so the next sample publishes the higher SOC again. Line 267: "SOC
  follows downward only"; 170: "post-charge relax: SOC may only fall".
  `batv_unplug_until`, documented there, is written and never read.
- `reset_soc` (4025): clears the published value only; the counter and
  `fg_user_seeded` stay, so the next sample publishes the old value. Line 4022:
  "forces re-calibration"; 4032: "will recalibrate on next sample".
- Uevents (2737): `notified_*` are written by the worker only, so a value the IRQ
  thread or the calibration announced and the next sample takes back is never
  announced again. Line 2720: "Emit a uevent only when the user-visible state
  (capacity or status) actually changes".
- Fast polling (2774): the worker compares the fields with copies taken under the same
  lock; the comparison is never true. Line 2768: "Detect charger plug/unplug by
  comparing ext_pwr".
- EN_HIZ after a replug (3429): it is restored only if `bq->state` still says the
  adapter was away, and a sample between plug and interrupt makes the arrival
  invisible. Line 3426: "the bit must be reset manually here".
- ADC on battery (3437): writing ONLINE = 0 and unplugging leaves CONV_RATE set. Line
  3591: "Configure ADC for continuous conversions when charging"; 4889 wants it off
  since it "consumes slightly more power".
- Persistence (`pibrick-battery-load-soc.sh:147`): a saved SOC far above the voltage is
  trusted on battery too. Line 15: "or a large OCV gap while not charging".

Others:

- TIME_TO_EMPTY (2971) multiplies by 1e6 where TIME_TO_FULL uses 3600: too large by a
  factor of 278.
- A negative limit that userspace writes wraps to a large `u32` and selects the largest
  register value, above the device tree's limit (3289).
- A die temperature below 0 C is a negative int and taken for an error, which stops the
  temperature filter (1814); `bq25890_tspct_tbl` has
  -10 between -90 and -120.
- Five floor readings in a row bring the SOC to 1 % although the smoothed voltage is
  held (959-963: "Treat that as a bad
  sample, not a real collapse"). A first sample at the floor seeds and publishes 0 %, and
  so does one whose BATV read failed (2624), though the seeding is there not to "publish
  0 % even when the cell sits at 4.1 V" (2408).
- The drift correction acts away from the OCV while charging (1953-1957; the comment at
  2043 says towards it), and the sum behind it
  is not clamped with the factor.
- The current filter's dead zone updates `last_filtered`, POWER_NOW changes sign with
  the status rather than the current, `raw_to_current` rounds the two signs differently,
  and the OCV curve jumps from 0 to 4 %.

### Charger power and lifecycle

- The error path of Pump Express (4369) leaves the second charger off until the next
  event, and its end may switch it on again while boosting, against "put the secondary
  charger in Hi-Z" (4414).
- The driver of every chip but the BQ25892 returns at once from
  `bq25890_charger_external_power_changed` (3344): on this device's BQ25895 neither the
  limit nor Pump Express follows a supplier, whatever the device tree says of them.
- `usb_event` holds one event and the notifier stores every one (4400), while the work's
  switch knows ID and NONE (4379-4391): VBUS, CHARGER or ENUMERATED stored over a NONE
  that the work has not read leaves the boost on, over an ID leaves it off.
- The sysfs file `reset_soc` is never removed (4696 removes `coulomb_uah` alone), so that
  after unbinding its store (4010) runs on driver data that is gone; the INA228's dummy client stays if
  requesting the interrupt fails after it was made; the reference to the second charger
  is never put, and `bq->ac` may hold an ERR_PTR after a failed registration.
- `bq->ina228` is cleared without the lock while a sample may use it (2310), and works
  are cancelled after the supplies are unregistered (4692). `DriverLifecycle` has both
  orders; `SuppliesOutliveEvents` and `QuietWhenUnbound` say what holds nevertheless.

### Panels

- The 9203 stays black after DRM's enable if userspace wrote `display_enable` = 1
  while it was unprepared; the 548 does not apply the profile again after a resume; the
  548 and the 5 inch leave `pibrick_display_enable` behind on removal.
- The 548's profile "natural" is not what the initial sequence sets, although line 219
  calls it "NATURAL: Exact Initial Values from Original Sequence".

### Hynitron touch

- Two overlapping calls of `hyn_irq_set` may count the same disabling twice (`crossed`).
- The tool's "rst" beside a suspend leaves touch dead until the next suspend; its
  RESET_IC and update leave a finger that was down stuck; a glove or charge switch
  writes back a stale `work_mode`. `TouchReturns` excuses them (`meddled`).
- The remove path destroys the work queue before it frees the interrupt.
- `HYN_POWER_ON_UPDATA` is 0: probe never updates, and `need_updata_fw` is only logged.
  Only `cst66xx` is in the Makefile and in `hyn_of_match_table`; `readme.txt` says how
  the other backends are added, and `TouchChips` and `TouchFirmware` take each in turn.
- Suspend, or any mode set over ENTER_BOOT, leaves a two-address chip at an address the
  driver does not use (`overBoot`; `cst66xx.c:291-299`).
- 3xx, 7xx and 8xxT clear `report_need` on every frame; 36xxes's NOMAL does not enable
  the interrupt; 92xx's CHARGE switches `work_mode` although a comment says it does not,
  its DEEPSLEEP leaves the interrupt on, and for DEEPSLEEP and FAC_TEST it drops the
  command's result and returns the ping's (563-566, 577-579); 8xxT's NOMAL, LP and FAC
  return 0 whatever happened. 3xx and 92xx leave the information mode on after reading it.
- The prox and ESD handlers are never called in this build (`esdcheck_switch` is empty).

Of the update, `SuccessIsStored` states what success does mean for each backend:

- 66xx: also if the last try's erase failed. 36xxes: also after three mismatches or for
  a short image. 3xx: 0 for a file that cannot be read, and a stale checksum. 226se: if
  a stale checksum happens to be equal. 8xxT: total failure is success and a success at
  the fifth try is failure. 92xx: every failure is success. 3240: `read_checksum`'s
  second loop (354-363) never counts down, so it does not end while the read of A008
  fails: an update stays in it, and so does probe (65).
- The retry loops of the 66xx's and 36xxes's tpinfo collect errors with `ret |=`, so one
  failure spoils all later tries; `hyn_dump_fw` drops what does not fit without
  saying so; an update entered in ENTER_BOOT fails on two-address chips.

### FocalTech touch (`src/fts/ft5x06.c`)

- The file does not compile as it stands (undeclared `rc`, `client`, `CTPM_FW` and
  others); the model reads it as if they were declared as their uses need.
- With FTS_GESTRUE (239) suspend leaves power and pins on, so each resume fails at
  `gpio_request` and the device stays suspended (1222-1250, 1377-1426); fingers are not
  released in that build, and a work queued before suspend may report a finger after
  their release (1268 and 970).
- A failure to disable `vcc_i2c` is hidden by the re-enabling's result (1080-1098), and
  the next resume leaks an enable.
- The result of an upgrade's last write, the reset 0x07, is ignored (1717-1721, 1868,
  2084, 2226, 2470): a lost one is success with the chip in its boot loader. So is that of
  the checksum's read (1706): a failed one compares the byte of an earlier read. The
  checksum is the XOR of all bytes in 8 bits, which a lost packet of 128 equal bytes does
  not change.
- The 6x06's loop bound reads `i > FT_UPGRADE_LOOP` (1778); an ECC mismatch leaves the
  chip in its boot loader; `update_fw_store` ignores the result; errors of length or
  format return without `release_firmware`; the format check looks at an array that is
  compiled in, not at the file; the /proc upgrade takes no lock.
- A failed probe frees devm memory, never destroys the work queue after later errors,
  leaks its pins when creating the queue fails, so that no later probe can bind, and
  returns success for a foreign id. Remove frees the pins twice when suspended.

### Daemons

- Buttons: a release in the last 30 ms before the 2000 ms limit gives no answer
  (`pibrickbtn.c:499`); the script of a short user press blocks the polling; both
  buttons together look like the user button; a lost uinput write goes unnoticed.
- Autorotation: the guard on `last_rotated_to` (1200-1208, "skip — the screen is already
  there") skips for ever, not for the cooldown: after a lock that turned the screen is
  lifted it stays wrong until another orientation comes. This `continue` has no sleep.
- `rotate_kde` (648): "we propagate the failure so the main loop retries"; but
  `apply_rotation` returns 0 (928), and as a condition it runs without `set -e`, so an
  unlocked rotation that failed counts as done (`strayed`). While locked, a failed
  rotation, or a file emptied between the two looks at it, ends the service until
  systemd restarts it.
- `get_current_orientation`'s map contradicts the flags of `rotate_kde`, so
  `lock-current`, which is to lock without rotating, turns a left or inverted screen to
  normal and a right one to left.
- `ENABLED_FILE`, written by SetEnabled and the control script, is read by no daemon.
  `rotate_gnome` and the X11 path report success though nothing turned. On KDE
  `autorotation-lock.sh` exits before it writes the lock if KWin's file cannot be read.

## 7. Not modelled

- *Tuning and calibration tools, installer, build files, desktop front ends*: batch
  programs of file edits without concurrent state; the calibrator's numeric fit would be
  a transliteration. The plasmoid appears as one of the lock's writers only.
- *Accelerometer driver* (`mma8451q.c`): register set-up and IIO getters; the
  autorotation model takes what it returns as any reading.
- *Register formatting and getters* of the battery driver, TIME_TO_* among them; the
  device tree's parsing except for the limits that clip a setting.
- *Hynitron*: remove, the factory test's analysis, device tree parsing and the bytes of
  a transfer; the firmware images are an image of three packets.
- *FocalTech*: factory test nodes and raw register files, which change no state of the
  driver.
- *Autorotation*: the search for the sensor at start-up, the variance filter (off by
  default), desktops other than KDE where their failures differ, KWin's own
  autorotation, two lock commands at once.
- *Time* is counted only where the code compares it with a limit: in polls for the
  buttons, in gaps between samples for the gauge; elsewhere a timeout may come at any
  time.

## 8. Plan

1. The accelerometer's register sequence against the autorotation service's readings.
2. Removal of the Hynitron driver beside its interrupt and works.
3. Safety that the liveness of `DriverLifecycle` and `HynTouch` rests on, as
   `BoostSettles`, `LimitSettles` and `LoopRemembersScreen` are for others: that
   an unbinding always has a next step, that touch which sleeps beside a live panel has
   a resume to come.
