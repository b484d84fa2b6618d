---------------------------- MODULE DriverLifecycle ----------------------------
(***************************************************************************)
(* Binding and unbinding of battery/bq25890_battery.c: the steps of        *)
(* bq25890_probe, each of which may fail, the managed (devm) resources     *)
(* they acquire, the threads they let loose - the works, the interrupt     *)
(* thread, the USB notifier, readers of the supplies, writers of the two   *)
(* device files - bq25890_remove, and the                                  *)
(* release of the managed resources, last acquired first, one of which is  *)
(* bq25890_non_devm_cleanup.  The driver core, devm, the workqueue and the *)
(* I2C core are external: cancelling a work waits for it and keeps it from *)
(* being queued, freeing an interrupt waits for its thread, unregistering  *)
(* a supply waits for its readers, removing a file for its writers.        *)
(***************************************************************************)
EXTENDS Naturals, Sequences, FiniteSets

CONSTANT HasPhy   \* a USB phy was found: the notifier is used

ASSUME LifecycleAssumption == HasPhy \in BOOLEAN

VARIABLES
  stage,    \* unbound, probe, bound, remove or unwind
  step,     \* the position in ProbeOrder or RemoveOrder
  devm,     \* the managed resources, in the order they were acquired
  files,    \* device files created by device_create_file
  idr,      \* an id is allocated in bq25890_id
  client,   \* an I2C device is registered at the INA228's address
  ina228,   \* bq->ina228 is set
  notifier, \* usb_nb is registered
  queued,   \* the works that are queued
  doing,    \* what the function of each work is doing
  irq,      \* the interrupt thread, likewise
  reader,   \* a reader of a supply's properties, likewise
  stores,   \* the device files whose store function is running
  cleanup,  \* works bq25890_non_devm_cleanup has yet to cancel
  lost      \* history: a probe has failed after it found the INA228

lvars == <<stage, step, devm, files, idr, client, ina228, notifier, queued,
          doing, irq, reader, stores, cleanup, lost>>

Files == {"coulomb_uah", "reset_soc"}
Works == {"refresh", "calibrate", "pump", "usb"}
Held == {devm[i] : i \in 1..Len(devm)}

LInit ==
  /\ stage = "unbound" /\ step = 0 /\ devm = <<>> /\ files = {}
  /\ idr = FALSE /\ client = FALSE /\ ina228 = FALSE /\ notifier = FALSE
  /\ queued = {} /\ doing = [w \in Works |-> "off"] /\ irq = "off" /\ reader = "off"
  /\ stores = {} /\ cleanup = <<>> /\ lost = FALSE

Quietly == UNCHANGED <<queued, doing, irq, reader, stores, cleanup>>

-----------------------------------------------------------------------------
(* bq25890_probe *)

\* Mutant: the interrupt is requested as soon as its number is known.
ProbeOrderIrqFirst ==
  <<"regmap", "version", "fw", "hw", "irq", "cleanup", "vbus", "vsys", "id",
    "charger", "ac", "coulomb_uah", "reset_soc", "ina228", "works", "usb">>

\* Mutant: the cleanup is registered behind the supplies, so it runs first.
ProbeOrderCleanupLate ==
  <<"regmap", "version", "fw", "hw", "vbus", "vsys", "id", "charger", "ac",
    "cleanup", "coulomb_uah", "reset_soc", "ina228", "works", "irq", "usb">>

ProbeOrder ==
  <<"regmap", "version", "fw", "hw", "cleanup", "vbus", "vsys", "id",
    "charger", "ac", "coulomb_uah", "reset_soc", "ina228", "works", "irq", "usb">>

Managed == {"regmap", "cleanup", "vbus", "vsys", "charger", "ac", "irq"}

ProbeBegin ==
  /\ stage = "unbound"
  /\ stage' = "probe" /\ step' = 1
  /\ ina228' = FALSE
  /\ UNCHANGED <<devm, files, idr, client, notifier, lost>> /\ Quietly

At(s) == stage = "probe" /\ ProbeOrder[step] = s

Advance ==
  IF step = Len(ProbeOrder)
    THEN stage' = "bound" /\ step' = 0
    ELSE step' = step + 1 /\ UNCHANGED stage

\* A probe that fails leaves what it has to devm; remove is not called.
ProbeFails ==
  /\ stage = "probe"
  /\ ProbeOrder[step] \in
       {"regmap", "version", "fw", "hw", "cleanup", "vbus", "vsys", "id",
        "charger", "ac", "coulomb_uah", "irq"}
  /\ stage' = "unwind" /\ step' = 0
  /\ lost' = (lost \/ ina228)
  /\ UNCHANGED <<devm, files, idr, client, ina228, notifier>> /\ Quietly

\* The next three only talk to the chip and fill bq; each may fail (a
\* secondary charger that is not there yet defers the probe).
ChipStep(s) ==
  /\ At(s)
  /\ Advance
  /\ UNCHANGED <<devm, files, idr, client, ina228, notifier, lost>> /\ Quietly

GetChipVersion == ChipStep("version")
FwProbe == ChipStep("fw")
HwInit == ChipStep("hw")

ProbeManaged ==
  /\ stage = "probe" /\ ProbeOrder[step] \in Managed
  /\ devm' = Append(devm, ProbeOrder[step])
  /\ Advance
  /\ UNCHANGED <<files, idr, client, ina228, notifier, lost>> /\ Quietly

ProbeId ==
  /\ At("id")
  /\ idr' = TRUE
  /\ Advance
  /\ UNCHANGED <<devm, files, client, ina228, notifier, lost>> /\ Quietly

\* reset_soc, unlike coulomb_uah, may fail to be created: for one, because it
\* is still there from the last time.
ProbeFile ==
  /\ At("coulomb_uah") \/ At("reset_soc")
  /\ \/ files' = files \cup {ProbeOrder[step]}
     \/ At("reset_soc") /\ UNCHANGED files
  /\ Advance
  /\ UNCHANGED <<devm, idr, client, ina228, notifier, lost>> /\ Quietly

\* bq25890_ina228_probe: its structure is managed, its I2C client is not, and
\* is given back when the chip does not answer as an INA228.
ProbeIna ==
  /\ At("ina228")
  /\ devm' = Append(devm, "ina228")
  /\ \/ ~client /\ client' = TRUE /\ ina228' = TRUE
     \/ UNCHANGED <<client, ina228>>
  /\ Advance
  /\ UNCHANGED <<files, idr, notifier, lost>> /\ Quietly

ProbeWorks ==
  /\ At("works")
  /\ queued' = queued \cup {"calibrate", "refresh"}
  /\ Advance
  /\ UNCHANGED <<devm, files, idr, client, ina228, notifier, doing, irq, reader,
                 stores, cleanup, lost>>

ProbeUsb ==
  /\ At("usb")
  /\ notifier' = HasPhy
  /\ Advance
  /\ UNCHANGED <<devm, files, idr, client, ina228, lost>> /\ Quietly

Probe ==
  \/ ProbeBegin \/ ProbeFails \/ GetChipVersion \/ FwProbe \/ HwInit
  \/ ProbeManaged \/ ProbeId
  \/ ProbeFile \/ ProbeIna \/ ProbeWorks \/ ProbeUsb

-----------------------------------------------------------------------------
(* The threads a bound driver has *)

Resources == UNCHANGED <<stage, step, devm, files, idr, client, ina228, notifier,
                         cleanup, lost>>

\* A reported cable event is queued; the notifier chain is external.
UsbEvent ==
  /\ notifier
  /\ queued' = queued \cup {"usb"}
  /\ Resources /\ UNCHANGED <<doing, irq, reader, stores>>

\* bq25890_charger_external_power_changed, called by the supply's core; that the
\* chip is a BQ25892 and the supply a dedicated port is left open here.
SupplierChange ==
  /\ "charger" \in Held
  /\ queued' = queued \cup {"pump"}
  /\ Resources /\ UNCHANGED <<doing, irq, reader, stores>>

WorkBegins(w) ==
  /\ w \in queued /\ doing[w] = "off"
  /\ queued' = queued \ {w}
  /\ doing' = [doing EXCEPT ![w] = "sampling"]
  /\ Resources /\ UNCHANGED <<irq, reader, stores>>

WorkNotifies(w) ==
  /\ doing[w] = "sampling"
  /\ doing' = [doing EXCEPT ![w] = "notifying"]
  /\ Resources /\ UNCHANGED <<queued, irq, reader, stores>>

Cancelling(w) == cleanup # <<>> /\ Head(cleanup) = w

\* A function ends with or without having notified; refresh queues itself
\* again, which a work that is being cancelled cannot.
WorkEnds(w) ==
  /\ doing[w] # "off"
  /\ doing' = [doing EXCEPT ![w] = "off"]
  /\ queued' = IF w = "refresh" /\ ~Cancelling(w) THEN queued \cup {w}
               ELSE queued
  /\ Resources /\ UNCHANGED <<irq, reader, stores>>

\* What is being given back is not entered any more.
Leaving(r) == stage = "unwind" /\ devm[Len(devm)] \in r

IrqSamples ==
  /\ "irq" \in Held /\ ~Leaving({"irq"}) /\ irq = "off"
  /\ irq' = "sampling"
  /\ Resources /\ UNCHANGED <<queued, doing, reader, stores>>

IrqNotifies ==
  /\ irq = "sampling"
  /\ irq' = "notifying"
  /\ Resources /\ UNCHANGED <<queued, doing, reader, stores>>

IrqEnds ==
  /\ irq # "off"
  /\ irq' = "off"
  /\ Resources /\ UNCHANGED <<queued, doing, reader, stores>>

\* A property is read; the sample it may take is bq25890_update_state's.
ReadSamples ==
  /\ Held \cap {"charger", "ac"} # {} /\ ~Leaving({"charger", "ac"})
  /\ reader = "off"
  /\ reader' = "sampling"
  /\ Resources /\ UNCHANGED <<queued, doing, irq, stores>>

ReadEnds ==
  /\ reader = "sampling"
  /\ reader' = "off"
  /\ Resources /\ UNCHANGED <<queued, doing, irq, stores>>

\* bq25890_fg_store_coulomb_uah and bq25890_fg_reset_soc_store: a file that is
\* there can be written, whether or not the driver is.
StoreBegins(f) ==
  /\ f \in files \ stores
  /\ f = "coulomb_uah" => ~Leaving({"cleanup"})
  /\ stores' = stores \cup {f}
  /\ Resources /\ UNCHANGED <<queued, doing, irq, reader>>

StoreEnds(f) ==
  /\ f \in stores
  /\ stores' = stores \ {f}
  /\ Resources /\ UNCHANGED <<queued, doing, irq, reader>>

Ends ==
  \/ IrqEnds \/ ReadEnds
  \/ \E w \in Works : WorkEnds(w)
  \/ \E f \in Files : StoreEnds(f)

Run ==
  \/ UsbEvent \/ SupplierChange \/ IrqSamples \/ IrqNotifies \/ ReadSamples
  \/ \E w \in Works : WorkBegins(w) \/ WorkNotifies(w)
  \/ \E f \in Files : StoreBegins(f)
  \/ Ends

-----------------------------------------------------------------------------
(* bq25890_remove *)

Threads == UNCHANGED <<queued, doing, irq, reader, stores>>

RemoveBegin ==
  /\ stage = "bound"
  /\ stage' = "remove" /\ step' = 1
  /\ UNCHANGED <<devm, files, idr, client, ina228, notifier, cleanup, lost>>
  /\ Threads

RemoveOrder == <<"notifier", "cancel_usb", "client", "ina", "reset">>

Removes(s) == stage = "remove" /\ RemoveOrder[step] = s

RemoveNext ==
  IF step = Len(RemoveOrder)
    THEN stage' = "unwind" /\ step' = 0
    ELSE step' = step + 1 /\ UNCHANGED stage

RemoveNotifier ==
  /\ Removes("notifier")
  /\ notifier' = FALSE
  /\ RemoveNext
  /\ UNCHANGED <<devm, files, idr, client, ina228, cleanup, lost>> /\ Threads

\* cancel_work_sync: only with a phy, the work is not initialised without.
RemoveCancelUsb ==
  /\ Removes("cancel_usb")
  /\ doing["usb"] = "off"
  /\ queued' = queued \ {"usb"}
  /\ RemoveNext
  /\ UNCHANGED <<devm, files, idr, client, ina228, notifier, doing, irq, reader,
                 stores, cleanup, lost>>

\* Mutant: there is nothing to release and the removal stays at that.
RemoveClientPresent ==
  /\ Removes("client") /\ ina228
  /\ client' = FALSE
  /\ RemoveNext
  /\ UNCHANGED <<devm, files, idr, ina228, notifier, cleanup, lost>> /\ Threads

\* bq25890_ina228_release: the client goes, then the pointer to it.
RemoveClient ==
  /\ Removes("client")
  /\ client' = (client /\ ~ina228)
  /\ RemoveNext
  /\ UNCHANGED <<devm, files, idr, ina228, notifier, cleanup, lost>> /\ Threads

RemoveIna ==
  /\ Removes("ina")
  /\ ina228' = FALSE
  /\ RemoveNext
  /\ UNCHANGED <<devm, files, idr, client, notifier, cleanup, lost>> /\ Threads

\* bq25890_chip_reset changes the chip only, and its result is not looked at.
RemoveReset ==
  /\ Removes("reset")
  /\ RemoveNext
  /\ UNCHANGED <<devm, files, idr, client, ina228, notifier, cleanup, lost>>
  /\ Threads

Remove ==
  \/ RemoveBegin \/ RemoveNotifier \/ RemoveCancelUsb \/ RemoveClient
  \/ RemoveIna \/ RemoveReset

-----------------------------------------------------------------------------
(* devm gives back what a failed probe or a remove has left *)

Last == devm[Len(devm)]
Pop == devm' = SubSeq(devm, 1, Len(devm) - 1)

Cancelled == <<"pump", "calibrate", "refresh">>

\* An interrupt, a supply or plain memory is given back when nobody is inside
\* a call that the core waits for.
Unwind ==
  /\ stage = "unwind" /\ devm # <<>> /\ Last # "cleanup"
  /\ Last = "irq" => irq = "off"
  /\ Last \in {"charger", "ac"} => reader = "off"
  /\ Pop
  /\ UNCHANGED <<stage, step, files, idr, client, ina228, notifier, cleanup, lost>>
  /\ Threads

\* bq25890_non_devm_cleanup removes coulomb_uah, but not reset_soc, and starts
\* to cancel.
CleanupBegin ==
  /\ stage = "unwind" /\ devm # <<>> /\ Last = "cleanup" /\ cleanup = <<>>
  /\ "coulomb_uah" \notin stores
  /\ files' = files \ {"coulomb_uah"}
  /\ cleanup' = Cancelled
  /\ UNCHANGED <<stage, step, devm, idr, client, ina228, notifier, lost>>
  /\ Threads

\* The work is waited for, and when it was the last the id is given back.
CleanupCancel ==
  /\ stage = "unwind" /\ cleanup # <<>>
  /\ doing[Head(cleanup)] = "off"
  /\ queued' = queued \ {Head(cleanup)}
  /\ cleanup' = Tail(cleanup)
  /\ IF Len(cleanup) = 1 THEN idr' = FALSE /\ Pop ELSE UNCHANGED <<idr, devm>>
  /\ UNCHANGED <<stage, step, files, client, ina228, notifier, doing, irq, reader,
                 stores, lost>>

UnwindDone ==
  /\ stage = "unwind" /\ devm = <<>>
  /\ stage' = "unbound"
  /\ UNCHANGED <<step, devm, files, idr, client, ina228, notifier, lost>>
  /\ Quietly

Unbinding == Remove \/ Unwind \/ CleanupBegin \/ CleanupCancel \/ UnwindDone

LNext == Probe \/ Run \/ Unbinding

\* A thread that has begun ends, and an unbinding that has begun goes on.
LSpec ==
  /\ LInit /\ [][LNext]_lvars
  /\ WF_lvars(stage # "bound" /\ Unbinding)
  /\ WF_lvars(IrqEnds) /\ WF_lvars(ReadEnds)
  /\ \A w \in Works : WF_lvars(WorkEnds(w))
  /\ \A f \in Files : WF_lvars(StoreEnds(f))

-----------------------------------------------------------------------------
(* Properties *)

\* Once the driver is unbound, whichever step of probe failed and whatever
\* its threads did meanwhile, one thing of it is left that can run: the store
\* of reset_soc, whose file nobody removes (made at :4794; :4696 removes only
\* coulomb_uah), and which then finds no driver data.  No work is queued or
\* running, no interrupt thread, notifier, reader or other store is left, and
\* the id is given back.  The INA228's client stays registered only after a
\* probe that failed behind bq25890_ina228_probe.
QuietWhenUnbound ==
  stage = "unbound" =>
    /\ queued = {} /\ \A w \in Works : doing[w] = "off"
    /\ irq = "off" /\ reader = "off" /\ ~notifier
    /\ ~idr /\ files \cup stores \subseteq {"reset_soc"}
    /\ client => lost

\* The interrupt thread and the USB work notify through both supplies, so
\* neither may be inside bq25890_power_supply_changed with one of them not
\* yet registered or already given back.
SuppliesOutliveEvents ==
  irq = "notifying" \/ doing["usb"] = "notifying" =>
    {"charger", "ac"} \subseteq Held

\* The driver can be unbound: a remove, and a probe that has failed, come to
\* an end although the periodic work queues itself and readers keep coming.
UnbindEnds == stage \in {"remove", "unwind"} ~> stage = "unbound"
=============================================================================
