--------------------------- MODULE FuelGaugeThreads ---------------------------
(***************************************************************************)
(* The threads that use the fuel gauge of battery/bq25890_battery.c and    *)
(* what they do between critical sections of bq->lock: the periodic        *)
(* refresh worker, the one-shot boot calibration worker, the IRQ thread, a *)
(* reader of POWER_SUPPLY_PROP_CAPACITY, and userspace's two sysfs writes. *)
(* The gauge itself is SocView, which FuelGauge is shown to implement.     *)
(*                                                                         *)
(* UPower is external: it reads the capacity once after each uevent, and   *)
(* may read it at any other time.                                          *)
(***************************************************************************)
EXTENDS SocView

CONSTANT FastPoll \* fast_poll_ms > 0

ASSUME FastPollAssumption == FastPoll \in BOOLEAN

VARIABLES
  w_pc,          \* capacity_refresh_work
  w_ext, w_chg,  \* its copies of last_ext_pwr and last_charging
  fast_poll,     \* jiffies before fast_poll_until
  c_pc,          \* capacity_calibrate_work
  i_pc,          \* bq25890_irq_handler_thread
  r_pc,          \* the CAPACITY reader
  shown,         \* the capacity UPower holds, -1 before its first read
  notified,      \* notified_capacity and notified_status
  uevent,        \* a uevent UPower has not acted on yet
  was_reset      \* history bit: reset_soc has been written

worker == <<w_pc, w_ext, w_chg, fast_poll>>
readers == <<r_pc, shown>>
tvars == <<view, worker, c_pc, i_pc, readers, notified, uevent, was_reset>>

\* bq25890_get_status, with the FULL / NOT_CHARGING distinction left out.
Status(ext, chg) ==
  IF chg THEN "CHARGING" ELSE IF ext THEN "NOT_CHARGING" ELSE "DISCHARGING"

-----------------------------------------------------------------------------
(* bq25890_capacity_refresh_work *)

\* The timer fires and the worker samples.
WorkerSample ==
  /\ w_pc = "armed" /\ PublishSample
  /\ w_pc' = "sampled"
  /\ UNCHANGED <<w_ext, w_chg, fast_poll, c_pc, i_pc, readers, notified, uevent, was_reset>>

\* Mutant: an I2C error returns without rescheduling, as it does in the
\* calibration worker.
WorkerSampleFailsAndStops ==
  /\ w_pc = "armed"
  /\ w_pc' = "done"
  /\ UNCHANGED <<view, w_ext, w_chg, fast_poll, c_pc, i_pc, readers, notified,
                 uevent, was_reset>>

\* The sample fails with an I2C error: straight to the reschedule label.
WorkerSampleFails ==
  /\ w_pc = "armed"
  /\ w_pc' = "reschedule"
  /\ UNCHANGED <<view, w_ext, w_chg, fast_poll, c_pc, i_pc, readers, notified,
                 uevent, was_reset>>

\* The charger-toggle test of the worker: the copies it has just taken under
\* the lock against the fields it took them from, under the same lock.
Toggled(ext, chg) == last_ext_pwr # ext \/ last_charging # chg

\* The worker takes the lock again and copies the power state.
WorkerSnapshot ==
  /\ w_pc = "sampled"
  /\ w_ext' = last_ext_pwr /\ w_chg' = last_charging
  /\ fast_poll' = \/ fast_poll
                  \/ capacity_valid /\ FastPoll /\ Toggled(w_ext', w_chg')
  /\ uevent' = (uevent \/ (capacity_valid /\ Toggled(w_ext', w_chg')))
  /\ w_pc' = "snapshot"
  /\ UNCHANGED <<view, c_pc, i_pc, readers, notified, was_reset>>

PublishedCapacity == IF capacity_valid THEN capacity_cache ELSE -1

\* bq25890_notify_if_changed, under the lock: the capacity of now with the
\* status of the snapshot.
WorkerCompare ==
  LET seen == <<PublishedCapacity, Status(w_ext, w_chg)>> IN
  /\ w_pc = "snapshot"
  /\ notified' = seen
  /\ w_pc' = IF seen = notified THEN "reschedule" ELSE "notify"
  /\ UNCHANGED <<view, w_ext, w_chg, fast_poll, c_pc, i_pc, readers, uevent, was_reset>>

\* power_supply_changed, after the lock is dropped.
WorkerNotify ==
  /\ w_pc = "notify"
  /\ uevent' = TRUE
  /\ w_pc' = "reschedule"
  /\ UNCHANGED <<view, w_ext, w_chg, fast_poll, c_pc, i_pc, readers, notified, was_reset>>

\* schedule_delayed_work, at the fast or the normal interval; the fast-poll
\* window may have run out meanwhile.
WorkerReschedule ==
  /\ w_pc = "reschedule"
  /\ w_pc' = "armed"
  /\ fast_poll' \in {fast_poll, FALSE}
  /\ UNCHANGED <<view, w_ext, w_chg, c_pc, i_pc, readers, notified, uevent, was_reset>>

Worker ==
  \/ WorkerSample \/ WorkerSampleFails \/ WorkerSnapshot
  \/ WorkerCompare \/ WorkerNotify \/ WorkerReschedule

-----------------------------------------------------------------------------
(* The boot calibration worker, the IRQ thread and the sysfs writers *)

\* bq25890_capacity_calibrate_work, 30 s after probe, once.  Its seeding
\* section leaves the published view alone (FuelGauge's CalibrateSeed).
CalibrateSample ==
  /\ c_pc = "armed"
  /\ \/ PublishSample /\ c_pc' = "notify"
     \/ UNCHANGED view /\ c_pc' = "done"
  /\ UNCHANGED <<worker, i_pc, readers, notified, uevent, was_reset>>

CalibrateNotify ==
  /\ c_pc = "notify"
  /\ uevent' = TRUE
  /\ c_pc' = "done"
  /\ UNCHANGED <<view, worker, i_pc, readers, notified, was_reset>>

\* The IRQ thread drops the lock it holds around its sample and emits a
\* uevent afterwards, whatever the sample returned.
IrqSample ==
  /\ i_pc = "idle"
  /\ PublishSample \/ UNCHANGED view
  /\ i_pc' = "notify"
  /\ UNCHANGED <<worker, c_pc, readers, notified, uevent, was_reset>>

IrqNotify ==
  /\ i_pc = "notify"
  /\ uevent' = TRUE
  /\ i_pc' = "idle"
  /\ UNCHANGED <<view, worker, c_pc, readers, notified, was_reset>>

StoreCoulomb ==
  /\ PublishWrite
  /\ UNCHANGED <<worker, c_pc, i_pc, readers, notified, uevent, was_reset>>

ResetSoc ==
  /\ Withdraw
  /\ was_reset' = TRUE
  /\ UNCHANGED <<worker, c_pc, i_pc, readers, notified, uevent>>

-----------------------------------------------------------------------------
(* A read of POWER_SUPPLY_PROP_CAPACITY *)

\* bq25890_update_state: a fresh sample when the last is older than 1 s or
\* the SOC is invalid, if the bus allows it; nothing otherwise.
ReadBegin ==
  /\ r_pc = "idle"
  /\ PublishSample \/ UNCHANGED view
  /\ r_pc' = "check"
  /\ uevent' = FALSE
  /\ UNCHANGED <<worker, c_pc, i_pc, shown, notified, was_reset>>

\* Mutant: capacity_valid is not tested.
ReadCheckBlind ==
  /\ r_pc = "check"
  /\ r_pc' = "fetch"
  /\ UNCHANGED <<view, worker, c_pc, i_pc, shown, notified, uevent, was_reset>>

\* First half of bq25890_capacity_cached, without the lock.
ReadCheck ==
  /\ r_pc = "check"
  /\ r_pc' = IF capacity_valid THEN "fetch" ELSE "resample"
  /\ UNCHANGED <<view, worker, c_pc, i_pc, shown, notified, uevent, was_reset>>

\* -ENODATA: sample.  An error of that sample is returned to the reader,
\* which keeps what it had.
ReadResample ==
  /\ r_pc = "resample"
  /\ \/ PublishSample /\ r_pc' = "fetch"
     \/ UNCHANGED view /\ r_pc' = "idle"
  /\ UNCHANGED <<worker, c_pc, i_pc, shown, notified, uevent, was_reset>>

\* Second half of bq25890_capacity_cached, and the return statement of
\* bq25890_sample_and_update_fg: capacity_cache is read without the lock.
ReadFetch ==
  /\ r_pc = "fetch"
  /\ shown' = capacity_cache
  /\ r_pc' = "idle"
  /\ UNCHANGED <<view, worker, c_pc, i_pc, notified, uevent, was_reset>>

Reader == ReadBegin \/ ReadCheck \/ ReadResample \/ ReadFetch

-----------------------------------------------------------------------------
Init ==
  /\ ViewInit
  /\ w_pc = "armed" /\ w_ext = FALSE /\ w_chg = FALSE /\ fast_poll = FALSE
  /\ c_pc = "armed" /\ i_pc = "idle" /\ r_pc = "idle"
  /\ shown = -1
  /\ notified = <<-1, "none">>
  /\ uevent = FALSE /\ was_reset = FALSE

Next ==
  \/ Worker
  \/ CalibrateSample \/ CalibrateNotify
  \/ IrqSample \/ IrqNotify
  \/ StoreCoulomb \/ ResetSoc
  \/ Reader

\* The work queue runs the worker's steps; the I2C bus does not fail every
\* sample of the worker for ever; UPower acts on a uevent and finishes a read.
Fairness ==
  /\ WF_tvars(Worker) /\ SF_tvars(WorkerSample)
  /\ WF_tvars(IrqNotify) /\ WF_tvars(CalibrateNotify)
  /\ WF_tvars(uevent /\ ReadBegin)
  /\ WF_tvars(ReadCheck) /\ WF_tvars(ReadResample) /\ WF_tvars(ReadFetch)

Spec == Init /\ [][Next]_tvars /\ Fairness

-----------------------------------------------------------------------------
(* Properties. *)

\* A capacity read returns a SOC the estimator published, never the 0 that
\* stands in capacity_cache before the first sample: userspace powers off at
\* 0.  The validity test and the read are not under the lock, so this ends
\* with the first reset_soc write, which may come between the two.
ReadsPublished ==
  [][ shown' # shown /\ ~was_reset => capacity_valid ]_tvars

\* The refresh worker re-arms itself whatever happens: an I2C error never
\* ends the periodic sampling.
WorkerKeepsRunning == []<>(w_pc = "armed")

=============================================================================
