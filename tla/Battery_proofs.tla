----------------------------- MODULE Battery_proofs -----------------------------
(***************************************************************************)
(* Theorems about the battery driver around its gauge.                     *)
(*                                                                         *)
(* DriverLifecycle: whichever step of probe fails and whatever the threads *)
(* do meanwhile, an unbound driver is quiet but for one file that it does  *)
(* not remove, and what notifies through the supplies ends before they do. *)
(* The managed resources are at all times a prefix of one list, so that    *)
(* how many are held says which, and each thread has the number below      *)
(* which it cannot be running.                                             *)
(*                                                                         *)
(* FuelGaugeThreads: until the first reset_soc a reader never returns a    *)
(* SOC the estimator did not publish.                                      *)
(*                                                                         *)
(* GaugeSensing: a reading at the ADC's floor is not taken for a collapse, *)
(* for every reading, gap and setting; a value that userspace writes is    *)
(* rounded to the register below it and capped, for every value.           *)
(***************************************************************************)
EXTENDS DriverLifecycle, FuelGaugeThreads, GaugeSensing, SequenceTheorems,
        TLAPS

\* The managed resources of a bound driver, in the order probe acquires them, and how
\* many of them are held at each step of ProbeOrder.
Taken == <<"regmap", "cleanup", "vbus", "vsys", "charger", "ac", "ina228", "irq">>
HeldAt == <<0, 1, 1, 1, 1, 2, 3, 4, 4, 5, 6, 6, 6, 7, 7, 8>>

Resource == {"regmap", "cleanup", "vbus", "vsys", "charger", "ac", "ina228", "irq"}
ThreadStates == {"off", "sampling", "notifying"}
ToCancel == {<<>>, <<"refresh">>, <<"calibrate", "refresh">>, <<"pump", "calibrate", "refresh">>}

LTypeOK ==
  /\ stage \in {"unbound", "probe", "bound", "remove", "unwind"} /\ step \in 0..16
  /\ devm \in Seq(Resource) /\ Len(devm) \in 0..8
  /\ queued \subseteq Works /\ doing \in [Works -> ThreadStates]
  /\ irq \in ThreadStates /\ reader \in {"off", "sampling"}
  /\ cleanup \in ToCancel

\* What is held is what was taken first, and how much that is follows from the stage.
Prefix ==
  /\ \A i \in 1..Len(devm) : devm[i] = Taken[i]
  /\ stage = "unbound" => Len(devm) = 0
  /\ stage = "probe" => step \in 1..16 /\ Len(devm) = HeldAt[step]
  /\ stage \in {"bound", "remove"} => Len(devm) = 8
  /\ stage = "remove" => step \in 1..5

Idle(w) == w \notin queued /\ doing[w] = "off"

\* What each thread needs; below the cleanup nothing is left.
Outlived ==
  /\ irq # "off" => Len(devm) = 8
  /\ reader # "off" => Len(devm) >= 5
  /\ Len(devm) < 2 => (\A w \in Works : Idle(w)) /\ ~idr /\ "coulomb_uah" \notin files
  /\ notifier => stage = "bound" \/ (stage = "remove" /\ step = 1)
  /\ ~Idle("usb") => stage = "bound" \/ (stage = "remove" /\ step <= 2)

\* The works that bq25890_non_devm_cleanup has waited for stay idle.
Cleaning ==
  cleanup # <<>> =>
    /\ stage = "unwind" /\ Len(devm) = 2 /\ "coulomb_uah" \notin files
    /\ \A w \in Works : (\A i \in 1..Len(cleanup) : cleanup[i] # w) => Idle(w)

\* A client that no failed probe has lost belongs to this binding.
Owned ==
  client /\ ~lost =>
    ina228 /\ (stage \in {"probe", "bound"} \/ (stage = "remove" /\ step <= 3))

LInv == LTypeOK /\ Prefix /\ Outlived /\ Cleaning /\ Owned

-----------------------------------------------------------------------------
(* Order and number of what probe acquires. *)

LEMMA OrderOfProbe ==
  ASSUME NEW k \in 1..16
  PROVE  /\ Len(ProbeOrder) = 16 /\ HeldAt[k] \in 0..8
         /\ k = 16 => HeldAt[k] = 8 /\ ProbeOrder[k] = "usb"
         /\ ProbeOrder[k] \in Managed \cup {"ina228"} =>
              /\ k < 16 /\ HeldAt[k] < 8 /\ Taken[HeldAt[k] + 1] = ProbeOrder[k]
              /\ HeldAt[k + 1] = HeldAt[k] + 1
         /\ ProbeOrder[k] \notin Managed \cup {"ina228"} /\ k < 16 => HeldAt[k + 1] = HeldAt[k]
<1>1. k \in {1, 2, 3, 4, 5, 6, 7, 8, 9, 10, 11, 12, 13, 14, 15, 16}
  OBVIOUS
<1> QED BY <1>1 DEF ProbeOrder, HeldAt, Taken, Managed

LEMMA PlacesOfProbe ==
  ASSUME NEW k \in 1..16
  PROVE  /\ ProbeOrder[k] = "id" => HeldAt[k] = 4
         /\ ProbeOrder[k] \in {"coulomb_uah", "reset_soc", "ina228"} => HeldAt[k] = 6
         /\ ProbeOrder[k] = "works" => HeldAt[k] = 7
         /\ ProbeOrder[k] = "usb" => k = 16
<1>1. k \in {1, 2, 3, 4, 5, 6, 7, 8, 9, 10, 11, 12, 13, 14, 15, 16}
  OBVIOUS
<1> QED BY <1>1 DEF ProbeOrder, HeldAt

\* Which resources are held is a matter of how many.
LEMMA HeldIs ==
  ASSUME LTypeOK, Prefix
  PROVE  /\ "charger" \in Held <=> Len(devm) >= 5
         /\ "ac" \in Held <=> Len(devm) >= 6
         /\ "irq" \in Held <=> Len(devm) = 8
         /\ devm # <<>> => Len(devm) \in 1..8 /\ Last = Taken[Len(devm)]
<1>1. Len(devm) \in 0..8
  BY DEF LTypeOK
<1>2. \A i \in 1..Len(devm) : devm[i] = Taken[i] /\ i \in {1, 2, 3, 4, 5, 6, 7, 8}
  BY <1>1 DEF Prefix
<1>3. \A i \in 1..Len(devm) : /\ devm[i] = "charger" <=> i = 5
                              /\ devm[i] = "ac" <=> i = 6
                              /\ devm[i] = "irq" <=> i = 8
  BY <1>2 DEF Taken
<1>4. \A r : r \in Held <=> \E i \in 1..Len(devm) : devm[i] = r
  BY DEF Held
<1>5. "charger" \in Held <=> Len(devm) >= 5
  BY <1>1, <1>3, <1>4
<1>6. "ac" \in Held <=> Len(devm) >= 6
  BY <1>1, <1>3, <1>4
<1>7. "irq" \in Held <=> Len(devm) = 8
  <2>1. "irq" \in Held => 8 \in 1..Len(devm)
    BY <1>3, <1>4
  <2>2. 8 \in 1..Len(devm) => "irq" \in Held
    BY <1>3, <1>4
  <2>3. \A k \in 0..8 : 8 \in 1..k <=> k = 8
    OBVIOUS
  <2> QED BY <1>1, <2>1, <2>2, <2>3
<1>8. devm # <<>> => Len(devm) \in 1..8 /\ Last = Taken[Len(devm)]
  BY <1>1, <1>2 DEF LTypeOK, Last
<1> QED BY <1>5, <1>6, <1>7, <1>8

-----------------------------------------------------------------------------
(* Probe *)

LEMMA ProbeKeeps ==
  ASSUME LInv, Probe PROVE LInv'
<1> DEFINE s == ProbeOrder[step]
           More == devm' = Append(devm, s) /\ s \in Managed \cup {"ina228"}
           Same == devm' = devm /\ s \notin Managed \cup {"ina228"}
<1>1. CASE ProbeBegin
  <2>1. HeldAt[1] = 0
    BY DEF HeldAt
  <2>2. LTypeOK'
    BY <1>1 DEF LInv, LTypeOK, ProbeBegin, Quietly
  <2>3. Prefix' /\ Owned'
    BY <1>1, <2>1 DEF LInv, Prefix, Owned, ProbeBegin
  <2>4. Outlived' /\ Cleaning'
    BY <1>1 DEF LInv, Outlived, Cleaning, Idle, ProbeBegin, Quietly
  <2> QED BY <2>2, <2>3, <2>4 DEF LInv
<1>2. CASE ProbeFails
  <2>1. LTypeOK' /\ Prefix'
    BY <1>2 DEF LInv, LTypeOK, Prefix, ProbeFails, Quietly
  <2>3. Owned'
    BY <1>2 DEF LInv, Owned, ProbeFails
  <2>2. Outlived' /\ Cleaning'
    BY <1>2 DEF LInv, Outlived, Cleaning, Idle, ProbeFails, Quietly
  <2> QED BY <2>1, <2>2, <2>3 DEF LInv
\* The other steps advance, and take one more resource or none.
<1>3. ASSUME stage = "probe", Advance, More \/ Same, UNCHANGED cleanup
      PROVE  /\ Prefix' /\ stage' \in {"probe", "bound"} /\ step' \in 0..16 /\ Cleaning'
             /\ devm' \in Seq(Resource) /\ Len(devm') \in Len(devm)..8
  <2>1. step \in 1..16 /\ Len(devm) = HeldAt[step] /\ Len(devm) \in 0..8
    BY <1>3, OrderOfProbe DEF LInv, Prefix
  <2>2. devm \in Seq(Resource) /\ \A i \in 1..Len(devm) : devm[i] = Taken[i]
    BY DEF LInv, LTypeOK, Prefix
  <2>3. Len(ProbeOrder) = 16 /\ (step = 16 => Same)
    BY <1>3, <2>1, OrderOfProbe
  <2>6. Cleaning'
    BY <1>3 DEF LInv, Cleaning
  <2>4. CASE More
    <3>1. /\ Taken[Len(devm) + 1] = s /\ step < 16 /\ HeldAt[step + 1] = Len(devm) + 1
          /\ Len(devm) < 8 /\ s \in Resource
      BY <2>1, <2>4, OrderOfProbe DEF Managed, Resource
    <3>2. /\ devm' \in Seq(Resource) /\ Len(devm') = Len(devm) + 1
          /\ \A i \in 1..Len(devm') : devm'[i] = Taken[i]
      BY <2>1, <2>2, <2>4, <3>1
    <3>3. stage' = "probe" /\ step' = step + 1 /\ step' \in 1..16 /\ Len(devm') = HeldAt[step']
      BY <1>3, <2>1, <2>3, <3>1, <3>2 DEF Advance
    <3> QED BY <2>1, <3>1, <3>2, <3>3, <2>6 DEF Prefix
  <2>5. CASE Same
    <3>1. step = 16 => Len(devm) = 8
      BY <2>1, OrderOfProbe
    <3>2. step # 16 => HeldAt[step + 1] = Len(devm)
      BY <2>1, <2>5, OrderOfProbe
    <3>3. CASE step = 16
      <4>1. stage' = "bound" /\ step' = 0
        <5>1. step = Len(ProbeOrder)
          BY <2>3, <3>3
        <5> QED BY <1>3, <5>1 DEF Advance
      <4>2. Prefix'
        BY <2>2, <2>5, <3>1, <3>3, <4>1 DEF Prefix
      <4>3. devm' \in Seq(Resource) /\ Len(devm') = 8 /\ Len(devm) = 8
        BY <2>2, <2>5, <3>1, <3>3
      <4> QED BY <2>6, <4>1, <4>2, <4>3
    <3>4. CASE step # 16
      <4>1. stage' = "probe" /\ step' = step + 1 /\ step' \in 1..16
        BY <1>3, <2>1, <2>3, <3>4 DEF Advance
      <4> QED BY <2>1, <2>2, <2>5, <2>6, <3>2, <3>4, <4>1 DEF Prefix
    <3> QED BY <3>3, <3>4
  <2> QED BY <1>3, <2>4, <2>5
<1>4. ASSUME stage = "probe" PROVE step \in 1..16 /\ Len(devm) = HeldAt[step]
  BY <1>4 DEF LInv, Prefix
<1>5. CASE GetChipVersion \/ FwProbe \/ HwInit
  <2>1. stage = "probe" /\ Same /\ Advance /\ UNCHANGED cleanup
    BY <1>5 DEF GetChipVersion, FwProbe, HwInit, ChipStep, At, Managed, Quietly
  <2>2. UNCHANGED <<devm, files, idr, client, ina228, notifier, lost>> /\ Quietly
    BY <1>5 DEF GetChipVersion, FwProbe, HwInit, ChipStep
  <2> QED BY <1>3, <2>1, <2>2 DEF LInv, LTypeOK, Outlived, Owned, Idle, Quietly
<1>6. CASE ProbeManaged
  <2>1. stage = "probe" /\ More /\ Advance /\ UNCHANGED cleanup
    BY <1>6 DEF ProbeManaged, Quietly
  <2>2. Prefix' /\ Cleaning' /\ Len(devm') \in Len(devm)..8 /\ stage' \in {"probe", "bound"}
    BY <1>3, <2>1
  <2>3. LTypeOK' /\ Owned'
    BY <1>3, <1>6, <2>1 DEF LInv, LTypeOK, Owned, ProbeManaged, Quietly
  <2>4. Outlived'
    BY <1>6, <2>1, <2>2 DEF LInv, LTypeOK, Outlived, Idle, ProbeManaged, Quietly
  <2> QED BY <2>2, <2>3, <2>4 DEF LInv
<1>7. CASE ProbeId
  <2>1. stage = "probe" /\ Same /\ Advance /\ UNCHANGED cleanup /\ Len(devm) = 4
    BY <1>4, <1>7, PlacesOfProbe DEF ProbeId, At, Managed, Quietly
  <2> QED BY <1>3, <1>7, <2>1 DEF LInv, LTypeOK, Outlived, Owned, Idle, ProbeId, Quietly
<1>8. CASE ProbeFile
  <2>1. stage = "probe" /\ Same /\ Advance /\ UNCHANGED cleanup /\ Len(devm) = 6
    BY <1>4, <1>8, PlacesOfProbe DEF ProbeFile, At, Managed, Quietly
  <2> QED BY <1>3, <1>8, <2>1 DEF LInv, LTypeOK, Outlived, Owned, Idle, ProbeFile, Quietly
<1>9. CASE ProbeIna
  <2>1. stage = "probe" /\ More /\ Advance /\ UNCHANGED cleanup /\ Len(devm) = 6
    BY <1>4, <1>9, PlacesOfProbe DEF ProbeIna, At, Quietly
  <2>2. Prefix' /\ Cleaning' /\ Len(devm') \in Len(devm)..8 /\ stage' \in {"probe", "bound"}
    BY <1>3, <2>1
  <2>3. LTypeOK'
    BY <1>3, <1>9, <2>1, <2>2 DEF LInv, LTypeOK, ProbeIna, Quietly
  <2>5. Owned'
    <3>1. /\ UNCHANGED lost
          /\ (~client /\ client' = TRUE /\ ina228' = TRUE) \/ UNCHANGED <<client, ina228>>
      BY <1>9 DEF ProbeIna
    <3>2. client /\ ~lost => ina228
      BY DEF LInv, Owned
    <3>3. CASE ina228' = TRUE
      BY <2>2, <3>3 DEF Owned
    <3>4. CASE UNCHANGED <<lost, client, ina228>>
      BY <2>2, <3>2, <3>4 DEF Owned
    <3> QED BY <3>1, <3>3, <3>4
  <2>4. Outlived'
    BY <1>9, <2>1, <2>2 DEF LInv, LTypeOK, Outlived, Idle, ProbeIna, Quietly
  <2> QED BY <2>2, <2>3, <2>4, <2>5 DEF LInv
<1>10. CASE ProbeWorks
  <2>1. stage = "probe" /\ Same /\ Advance /\ UNCHANGED cleanup /\ Len(devm) = 7
    BY <1>4, <1>10, PlacesOfProbe DEF ProbeWorks, At, Managed
  <2> QED
    BY <1>3, <1>10, <2>1 DEF LInv, LTypeOK, Outlived, Owned, Idle, ProbeWorks, Works
<1>11. CASE ProbeUsb
  <2>1. stage = "probe" /\ Same /\ Advance /\ UNCHANGED cleanup
    BY <1>11 DEF ProbeUsb, At, Managed, Quietly
  <2>2. stage' = "bound"
    <3>1. step = 16
      BY <1>4, <1>11, <2>1, PlacesOfProbe DEF ProbeUsb, At
    <3> QED BY <2>1, <3>1, OrderOfProbe DEF Advance
  <2> QED
    BY <1>3, <1>11, <2>1, <2>2, LifecycleAssumption
       DEF LInv, LTypeOK, Outlived, Owned, Idle, ProbeUsb, Quietly
<1> QED BY <1>1, <1>2, <1>5, <1>6, <1>7, <1>8, <1>9, <1>10, <1>11 DEF Probe

-----------------------------------------------------------------------------
(* The threads *)

\* A step of a work begins or ends it where it is not idle, and lets go of nothing.
LEMMA WorksKeep ==
  ASSUME LInv, Resources, UNCHANGED <<irq, reader>>, queued' \subseteq Works,
         doing' \in [Works -> ThreadStates],
         \A w \in Works : ~Idle(w)' =>
           \/ ~Idle(w)
           \/ w = "pump" /\ Len(devm) >= 5
           \/ w = "usb" /\ notifier
  PROVE  LInv'
<1>1. LTypeOK' /\ Prefix' /\ Owned'
  BY DEF LInv, LTypeOK, Prefix, Owned, Resources
<1>2. Len(devm) \in 0..8 /\ cleanup \in ToCancel
  BY DEF LInv, LTypeOK
<1>3. notifier => Len(devm) = 8 /\ cleanup = <<>>
  BY DEF LInv, Outlived, Prefix, Cleaning
<1>4. Outlived'
  <2>1. Len(devm) < 2 => \A w \in Works : Idle(w)'
    BY <1>2, <1>3 DEF LInv, Outlived
  <2>2. ~Idle("usb")' => ~Idle("usb") \/ notifier
    BY DEF Works
  <2>3. ~Idle("usb")' => stage' = "bound" \/ (stage' = "remove" /\ step' <= 2)
    BY <2>2 DEF LInv, Outlived, Resources
  <2> QED BY <2>1, <2>3 DEF LInv, Outlived, Resources
<1>5. Cleaning'
  <2> SUFFICES ASSUME cleanup # <<>> PROVE Cleaning'
    BY DEF Cleaning, Resources
  <2>1. Len(devm) = 2 /\ ~notifier
    BY <1>3 DEF LInv, Cleaning
  <2>2. \A w \in Works : Idle(w) => Idle(w)'
    BY <2>1
  <2> QED BY <2>2 DEF LInv, Cleaning, Resources
<1> QED BY <1>1, <1>4, <1>5 DEF LInv

LEMMA RunKeeps ==
  ASSUME LInv, Run PROVE LInv'
<1>0. LTypeOK /\ Prefix
  BY DEF LInv
<1>1. CASE UsbEvent
  <2>1. queued' \subseteq Works /\ UNCHANGED doing
    BY <1>0, <1>1 DEF UsbEvent, LTypeOK, Works
  <2> QED BY <1>0, <1>1, <2>1, WorksKeep DEF UsbEvent, LTypeOK, Idle
<1>2. CASE SupplierChange
  <2>1. queued' \subseteq Works /\ UNCHANGED doing /\ Len(devm) >= 5
    BY <1>0, <1>2, HeldIs DEF SupplierChange, LTypeOK, Works
  <2> QED BY <1>0, <1>2, <2>1, WorksKeep DEF SupplierChange, LTypeOK, Idle
<1>3. ASSUME NEW w \in Works, WorkBegins(w) PROVE LInv'
  BY <1>0, <1>3, WorksKeep DEF WorkBegins, LTypeOK, Idle, ThreadStates
<1>4. ASSUME NEW w \in Works, WorkNotifies(w) PROVE LInv'
  BY <1>0, <1>4, WorksKeep DEF WorkNotifies, LTypeOK, Idle, ThreadStates
<1>5. ASSUME NEW w \in Works, WorkEnds(w) PROVE LInv'
  <2>1. queued' \in {queued, queued \cup {w}} /\ ~Idle(w)
    BY <1>5 DEF WorkEnds, Idle
  <2> QED BY <1>0, <1>5, <2>1, WorksKeep DEF WorkEnds, LTypeOK, Idle, ThreadStates
\* The interrupt thread and a reader find what they need, and no one that has begun is
\* stopped.
<1>6. ASSUME Resources, UNCHANGED <<queued, doing>>, irq' \in ThreadStates,
             reader' \in {"off", "sampling"},
             irq' # "off" => irq # "off" \/ Len(devm) = 8,
             reader' # "off" => reader # "off" \/ Len(devm) >= 5
      PROVE  LInv'
  <2>1. LTypeOK' /\ Prefix' /\ Owned'
    BY <1>6 DEF LInv, LTypeOK, Prefix, Owned, Resources
  <2>2. Cleaning'
    BY <1>6 DEF LInv, Cleaning, Resources, Idle
  <2>3. Outlived'
    BY <1>6 DEF LInv, Outlived, Resources, Idle
  <2> QED BY <2>1, <2>2, <2>3 DEF LInv
<1>7. CASE IrqSamples
  BY <1>0, <1>6, <1>7, HeldIs DEF IrqSamples, LTypeOK, ThreadStates
<1>8. CASE IrqNotifies
  BY <1>0, <1>6, <1>8 DEF IrqNotifies, LTypeOK, ThreadStates
<1>9. CASE IrqEnds
  BY <1>0, <1>6, <1>9 DEF IrqEnds, LTypeOK, ThreadStates
<1>10. CASE ReadSamples
  <2>1. "charger" \in Held \/ "ac" \in Held
    BY <1>10 DEF ReadSamples
  <2>2. Len(devm) >= 5
    BY <1>0, <2>1, HeldIs DEF LTypeOK
  <2> QED BY <1>0, <1>6, <1>10, <2>2 DEF ReadSamples, LTypeOK
<1>11. CASE ReadEnds
  BY <1>0, <1>6, <1>11 DEF ReadEnds, LTypeOK
<1>12. ASSUME NEW f \in Files, StoreBegins(f) \/ StoreEnds(f) PROVE LInv'
  BY <1>0, <1>6, <1>12 DEF StoreBegins, StoreEnds, LTypeOK
<1> QED
  BY <1>1, <1>2, <1>3, <1>4, <1>5, <1>7, <1>8, <1>9, <1>10, <1>11, <1>12 DEF Run, Ends

-----------------------------------------------------------------------------
(* Remove *)

LEMMA RemoveKeeps ==
  ASSUME LInv, Remove PROVE LInv'
<1>1. stage \in {"bound", "remove"} /\ Len(devm) = 8 /\ UNCHANGED devm
  BY DEF Remove, RemoveBegin, RemoveNotifier, RemoveCancelUsb, RemoveClient, RemoveIna,
         RemoveReset, Removes, Threads, LInv, Prefix
<1>2. /\ UNCHANGED <<files, idr, cleanup, lost, irq, reader, doing>> /\ cleanup = <<>>
      /\ queued' \subseteq queued
  BY <1>1 DEF Remove, RemoveBegin, RemoveNotifier, RemoveCancelUsb, RemoveClient, RemoveIna,
         RemoveReset, Threads, LInv, Cleaning
<1>3. Cleaning'
  BY <1>2 DEF Cleaning
<1>4. stage = "remove" => step \in {1, 2, 3, 4, 5}
  BY DEF LInv, Prefix
<1>5. Len(RemoveOrder) = 5 /\ RemoveOrder[1] = "notifier" /\ RemoveOrder[2] = "cancel_usb"
      /\ RemoveOrder[3] = "client" /\ RemoveOrder[4] = "ina" /\ RemoveOrder[5] = "reset"
  BY DEF RemoveOrder
\* Where a step of the removal leads.
<1>6. \/ RemoveBegin /\ stage' = "remove" /\ step' = 1
      \/ RemoveNotifier /\ stage = "remove" /\ step = 1 /\ stage' = "remove" /\ step' = 2
      \/ RemoveCancelUsb /\ stage = "remove" /\ step = 2 /\ stage' = "remove" /\ step' = 3
      \/ RemoveClient /\ stage = "remove" /\ step = 3 /\ stage' = "remove" /\ step' = 4
      \/ RemoveIna /\ stage = "remove" /\ step = 4 /\ stage' = "remove" /\ step' = 5
      \/ RemoveReset /\ stage = "remove" /\ step = 5 /\ stage' = "unwind" /\ step' = 0
  BY <1>4, <1>5 DEF Remove, RemoveBegin, RemoveNotifier, RemoveCancelUsb, RemoveClient,
                    RemoveIna, RemoveReset, Removes, RemoveNext
<1>7. LTypeOK' /\ Prefix'
  <2>1. /\ stage' \in {"remove", "unwind"} /\ step' \in 0..16
        /\ stage' = "remove" => step' \in 1..5
    BY <1>6
  <2>2. LTypeOK'
    BY <1>1, <1>2, <2>1 DEF LInv, LTypeOK
  <2>3. Prefix'
    BY <1>1, <2>1 DEF LInv, Prefix
  <2> QED BY <2>2, <2>3
<1>8. \A w \in Works : Idle(w) => Idle(w)'
  BY <1>2 DEF Idle
\* The notifier is gone before the USB work is waited for, and the client with the INA228.
<1>9. /\ notifier' => stage' = "remove" /\ step' = 1
      /\ ~Idle("usb")' => stage' = "remove" /\ step' <= 2
      /\ client' /\ ~lost' => ina228' /\ stage' = "remove" /\ step' <= 3
  <2>0. /\ notifier => stage = "bound" \/ step = 1
        /\ Idle("usb") \/ stage = "bound" \/ step <= 2
        /\ client /\ ~lost => ina228 /\ (stage = "bound" \/ step <= 3)
        /\ Idle("usb") => Idle("usb")'
    BY <1>1, <1>8 DEF LInv, Outlived, Owned, Works
  <2>1. CASE RemoveBegin /\ stage' = "remove" /\ step' = 1
    BY <1>2, <2>0, <2>1 DEF RemoveBegin
  <2>2. CASE RemoveNotifier /\ stage = "remove" /\ step = 1 /\ stage' = "remove" /\ step' = 2
    BY <1>2, <2>0, <2>2 DEF RemoveNotifier
  <2>3. CASE RemoveCancelUsb /\ stage = "remove" /\ step = 2 /\ stage' = "remove" /\ step' = 3
    <3>1. Idle("usb")' /\ UNCHANGED <<notifier, client, ina228>>
      BY <2>3 DEF RemoveCancelUsb, Idle
    <3> QED BY <1>2, <2>0, <2>3, <3>1
  <2>4. CASE RemoveClient /\ stage = "remove" /\ step = 3 /\ stage' = "remove" /\ step' = 4
    <3>1. ~client' \/ lost
      BY <2>0, <2>4 DEF RemoveClient
    <3>2. ~notifier' /\ Idle("usb")'
      BY <2>0, <2>4 DEF RemoveClient
    <3> QED BY <1>2, <3>1, <3>2
  <2>5. CASE RemoveIna /\ stage = "remove" /\ step = 4 /\ stage' = "remove" /\ step' = 5
    <3>1. ~client' \/ lost
      BY <2>0, <2>5 DEF RemoveIna
    <3>2. ~notifier' /\ Idle("usb")'
      BY <2>0, <2>5 DEF RemoveIna
    <3> QED BY <1>2, <3>1, <3>2
  <2>6. CASE RemoveReset /\ stage = "remove" /\ step = 5 /\ stage' = "unwind" /\ step' = 0
    <3>1. ~client' \/ lost
      BY <2>0, <2>6 DEF RemoveReset
    <3>2. ~notifier' /\ Idle("usb")'
      BY <2>0, <2>6 DEF RemoveReset
    <3> QED BY <1>2, <3>1, <3>2
  <2> QED BY <1>6, <2>1, <2>2, <2>3, <2>4, <2>5, <2>6
<1>10. Outlived' /\ Owned'
  BY <1>1, <1>2, <1>9 DEF LInv, Outlived, Owned
<1> QED BY <1>3, <1>7, <1>10 DEF LInv

-----------------------------------------------------------------------------
(* Unwinding *)

LEMMA Popped ==
  ASSUME LTypeOK, Prefix, devm # <<>>, Pop
  PROVE  /\ devm' \in Seq(Resource) /\ Len(devm) \in 1..8 /\ Len(devm') = Len(devm) - 1
         /\ \A i \in 1..Len(devm') : devm'[i] = Taken[i]
<1>1. devm \in Seq(Resource) /\ Len(devm) \in 1..8
  BY HeldIs DEF LTypeOK
<1>2. /\ devm' \in Seq(Resource) /\ Len(devm') = Len(devm) - 1
      /\ \A i \in 1..Len(devm') : devm'[i] = devm[i]
  <2> DEFINE k == Len(devm) - 1
  <2>1. k \in 0..7 /\ \A i \in 1..k : devm[i] \in Resource
    BY <1>1
  <2>2. devm' = SubSeq(devm, 1, k)
    BY DEF Pop
  <2> HIDE DEF k
  <2>3. /\ SubSeq(devm, 1, k) \in Seq(Resource) /\ Len(SubSeq(devm, 1, k)) = k
        /\ \A i \in 1..k : SubSeq(devm, 1, k)[i] = devm[i]
    <3>1. /\ SubSeq(devm, 1, k) \in Seq(Resource)
          /\ Len(SubSeq(devm, 1, k)) = IF 1 <= k THEN k - 1 + 1 ELSE 0
          /\ \A i \in 1..k - 1 + 1 : SubSeq(devm, 1, k)[i] = devm[1 + i - 1]
      BY <2>1, SubSeqProperties
    <3> QED BY <2>1, <3>1
  <2> QED BY <2>2, <2>3 DEF k
<1>3. \A i \in 1..Len(devm') : i \in 1..Len(devm) /\ devm'[i] = Taken[i]
  BY <1>1, <1>2 DEF Prefix
<1> QED BY <1>1, <1>2, <1>3

\* What is given back next is a matter of how much is left.
LEMMA LastIs ==
  ASSUME LTypeOK, Prefix, devm # <<>>
  PROVE  /\ Len(devm) \in 1..8
         /\ Len(devm) = 2 <=> Last = "cleanup"
         /\ Len(devm) = 8 => Last = "irq"
         /\ Len(devm) \in {5, 6} => Last \in {"charger", "ac"}
<1>1. Len(devm) \in {1, 2, 3, 4, 5, 6, 7, 8} /\ Last = Taken[Len(devm)]
  BY HeldIs
<1>2. /\ Taken[1] = "regmap" /\ Taken[2] = "cleanup" /\ Taken[3] = "vbus"
      /\ Taken[4] = "vsys" /\ Taken[5] = "charger" /\ Taken[6] = "ac"
      /\ Taken[7] = "ina228" /\ Taken[8] = "irq"
  BY DEF Taken
<1> DEFINE k == Len(devm)
<1>3. \A l : k \in {1, 2, 3, 4, 5, 6, 7, 8} /\ l = Taken[k] =>
        /\ k \in 1..8 /\ (k = 2 <=> l = "cleanup") /\ (k = 8 => l = "irq")
        /\ k \in {5, 6} => l \in {"charger", "ac"}
  <2> HIDE DEF k
  <2> QED BY <1>2
<1> QED BY <1>1, <1>3

LEMMA UnwindingKeeps ==
  ASSUME LInv, Unwind \/ CleanupBegin \/ CleanupCancel \/ UnwindDone PROVE LInv'
<1>0. LTypeOK /\ Prefix /\ stage = "unwind" /\ Len(devm) \in 0..8
  BY DEF LInv, LTypeOK, Unwind, CleanupBegin, CleanupCancel, UnwindDone
<1>2. CASE Unwind
  <2>1. /\ devm' \in Seq(Resource) /\ Len(devm) \in 1..8 /\ Len(devm') = Len(devm) - 1
        /\ \A i \in 1..Len(devm') : devm'[i] = Taken[i]
    BY <1>0, <1>2, Popped DEF Unwind
  <2>2. /\ Len(devm) # 2 /\ (Len(devm) = 8 => irq = "off")
        /\ Len(devm) \in {5, 6} => reader = "off"
    BY <1>0, <1>2, LastIs DEF Unwind
  <2>3. LTypeOK' /\ Prefix' /\ Owned'
    <3>1. LTypeOK'
      BY <1>0, <1>2, <2>1 DEF LTypeOK, Unwind, Threads
    <3>2. Prefix'
      BY <1>0, <1>2, <2>1 DEF Prefix, Unwind
    <3>3. Owned'
      BY <1>2 DEF LInv, Owned, Unwind
    <3> QED BY <3>1, <3>2, <3>3
  <2>4. Cleaning'
    BY <1>2, <2>2 DEF LInv, Cleaning, Unwind
  <2>5. Outlived'
    BY <1>0, <1>2, <2>1, <2>2 DEF LInv, Outlived, Unwind, Threads, Idle
  <2> QED BY <2>3, <2>4, <2>5 DEF LInv
<1>3. CASE CleanupBegin
  <2>1. Len(devm) = 2
    BY <1>0, <1>3, LastIs DEF CleanupBegin
  <2>2. LTypeOK' /\ Prefix' /\ Owned'
    BY <1>0, <1>3 DEF LInv, LTypeOK, Prefix, Owned, CleanupBegin, Threads, Cancelled, ToCancel
  <2>3. Outlived'
    BY <1>0, <1>3, <2>1 DEF LInv, Outlived, CleanupBegin, Threads, Idle
  <2>4. Cleaning'
    <3>1. Idle("usb")'
      BY <1>0, <1>3 DEF LInv, Outlived, CleanupBegin, Threads, Idle
    <3>2. \A w \in Works : (\A i \in 1..Len(Cancelled) : Cancelled[i] # w) => w = "usb"
      BY DEF Works, Cancelled
    <3> QED BY <1>0, <1>3, <2>1, <3>1, <3>2 DEF Cleaning, CleanupBegin
  <2> QED BY <2>2, <2>3, <2>4 DEF LInv
<1>4. CASE CleanupCancel
  <2>1. Len(devm) = 2 /\ "coulomb_uah" \notin files
    BY <1>4 DEF LInv, Cleaning, CleanupCancel
  <2>2. \A w \in Works : (\A i \in 1..Len(cleanup) : cleanup[i] # w) => Idle(w)
    BY <1>4 DEF LInv, Cleaning, CleanupCancel
  <2>3. /\ queued' = queued \ {Head(cleanup)} /\ UNCHANGED doing
        /\ doing[Head(cleanup)] = "off"
    BY <1>4 DEF CleanupCancel
  <2>4. \A w \in Works : Idle(w) => Idle(w)'
    BY <2>3 DEF Idle
  <2>5. \A w \in Works : w = Head(cleanup) => Idle(w)'
    BY <2>3 DEF Idle
  <2>6. \/ cleanup = <<"refresh">> /\ cleanup' = <<>>
        \/ cleanup = <<"calibrate", "refresh">> /\ cleanup' = <<"refresh">>
        \/ cleanup = <<"pump", "calibrate", "refresh">> /\ cleanup' = <<"calibrate", "refresh">>
    <3>1. cleanup \in {<<"refresh">>, <<"calibrate", "refresh">>, <<"pump", "calibrate", "refresh">>}
      BY <1>0, <1>4 DEF CleanupCancel, LTypeOK, ToCancel
    <3>2. cleanup' = Tail(cleanup)
      BY <1>4 DEF CleanupCancel
    <3>3. /\ Tail(<<"refresh">>) = <<>> /\ Tail(<<"calibrate", "refresh">>) = <<"refresh">>
          /\ Tail(<<"pump", "calibrate", "refresh">>) = <<"calibrate", "refresh">>
      OBVIOUS
    <3> QED BY <3>1, <3>2, <3>3
  <2>7. \A w \in Works : (\A i \in 1..Len(cleanup') : cleanup'[i] # w) => Idle(w)'
    <3>1. CASE cleanup = <<"refresh">> /\ cleanup' = <<>>
      BY <2>2, <2>4, <2>5, <3>1
    <3>2. CASE cleanup = <<"calibrate", "refresh">> /\ cleanup' = <<"refresh">>
      BY <2>2, <2>4, <2>5, <3>2
    <3>3. CASE /\ cleanup = <<"pump", "calibrate", "refresh">>
               /\ cleanup' = <<"calibrate", "refresh">>
      BY <2>2, <2>4, <2>5, <3>3
    <3> QED BY <2>6, <3>1, <3>2, <3>3
  <2>8. CASE Len(cleanup) = 1
    <3>1. cleanup' = <<>> /\ idr' = FALSE /\ Pop /\ Len(devm') = 1
      BY <1>0, <1>4, <2>1, <2>6, <2>8, Popped DEF CleanupCancel
    <3>2. \A w \in Works : Idle(w)'
      BY <2>7, <3>1
    <3>3. devm' \in Seq(Resource) /\ \A i \in 1..Len(devm') : devm'[i] = Taken[i]
      <4>1. devm # <<>>
        BY <2>1
      <4> QED BY <1>0, <3>1, <4>1, Popped
    <3>4. LTypeOK' /\ Prefix' /\ Owned'
      BY <1>0, <1>4, <3>1, <3>3
         DEF LInv, LTypeOK, Prefix, Owned, CleanupCancel, ToCancel
    <3>5. Outlived'
      BY <1>0, <1>4, <2>1, <3>1, <3>2 DEF LInv, Outlived, CleanupCancel, Works
    <3> QED BY <3>1, <3>4, <3>5 DEF LInv, Cleaning
  <2>9. CASE Len(cleanup) # 1
    <3>1. UNCHANGED <<idr, devm>> /\ cleanup' # <<>> /\ cleanup' \in ToCancel
      BY <1>4, <2>6, <2>9 DEF CleanupCancel, ToCancel
    <3>2. LTypeOK' /\ Prefix' /\ Owned'
      BY <1>0, <1>4, <3>1 DEF LInv, LTypeOK, Prefix, Owned, CleanupCancel
    <3>3. Outlived'
      BY <1>0, <1>4, <2>1, <2>4, <3>1 DEF LInv, Outlived, CleanupCancel, Works
    <3>4. Cleaning'
      BY <1>0, <1>4, <2>1, <2>7, <3>1 DEF Cleaning, CleanupCancel
    <3> QED BY <3>2, <3>3, <3>4 DEF LInv
  <2> QED BY <2>8, <2>9
<1>5. CASE UnwindDone
  <2>1. Len(devm) = 0 /\ cleanup = <<>>
    BY <1>5 DEF LInv, Cleaning, UnwindDone
  <2>2. LTypeOK' /\ Prefix' /\ Owned'
    BY <1>0, <1>5, <2>1 DEF LInv, LTypeOK, Prefix, Owned, UnwindDone, Quietly
  <2>3. Outlived' /\ Cleaning'
    BY <1>0, <1>5, <2>1 DEF LInv, Outlived, Cleaning, UnwindDone, Quietly, Idle
  <2> QED BY <2>2, <2>3 DEF LInv
<1> QED BY <1>2, <1>3, <1>4, <1>5

-----------------------------------------------------------------------------
(* The invariant and what it says. *)

LEMMA LInitial == LInit => LInv
<1> SUFFICES ASSUME LInit PROVE LInv
  OBVIOUS
<1>1. LTypeOK /\ Prefix
  BY DEF LInit, LTypeOK, Prefix, Works, ThreadStates, ToCancel
<1>2. Outlived /\ Cleaning /\ Owned
  BY DEF LInit, Outlived, Cleaning, Owned, Idle, Works
<1> QED BY <1>1, <1>2 DEF LInv

LEMMA LStutter == ASSUME LInv, UNCHANGED lvars PROVE LInv'
<1>1. LTypeOK' /\ Prefix' /\ Owned'
  BY DEF LInv, LTypeOK, Prefix, Owned, lvars
<1>2. Outlived' /\ Cleaning'
  BY DEF LInv, Outlived, Cleaning, Idle, lvars
<1> QED BY <1>1, <1>2 DEF LInv

LEMMA LInductive == LSpec => []LInv
<1>1. LInv /\ [LNext]_lvars => LInv'
  BY ProbeKeeps, RunKeeps, RemoveKeeps, UnwindingKeeps, LStutter DEF LNext, Unbinding
<1> QED BY <1>1, LInitial, PTL DEF LSpec

\* From the cleanup on coulomb_uah is gone and nobody writes it; reset_soc stays.
FilesInv ==
  /\ files \subseteq Files /\ stores \subseteq Files
  /\ Len(devm) < 2 \/ cleanup # <<>> => "coulomb_uah" \notin files \cup stores

LEMMA FilesKeep ==
  ASSUME LInv, FilesInv, [LNext]_lvars PROVE FilesInv'
<1>1. Len(devm) \in Nat /\ LTypeOK /\ Prefix
  BY DEF LInv, LTypeOK
<1>2. stage = "probe" => cleanup = <<>> /\ step \in 1..16 /\ Len(devm) = HeldAt[step]
  BY DEF LInv, Cleaning, Prefix
<1>3. CASE Probe
  <2>1. CASE ProbeFile
    <3>1. Len(devm) = 6
      BY <1>2, <2>1, PlacesOfProbe DEF ProbeFile, At
    <3>2. files' \subseteq Files /\ UNCHANGED <<stores, cleanup, devm>> /\ cleanup = <<>>
      BY <1>2, <2>1 DEF ProbeFile, FilesInv, Files, At, Quietly
    <3> QED BY <3>1, <3>2 DEF FilesInv
  <2>2. CASE ~ProbeFile
    <3>1. UNCHANGED <<files, stores, cleanup>>
      BY <1>3, <2>2 DEF Probe, ProbeBegin, ProbeFails, GetChipVersion, FwProbe, HwInit,
         ChipStep, ProbeManaged, ProbeId, ProbeIna, ProbeWorks, ProbeUsb, Quietly
    <3>2. \/ devm' = devm
          \/ devm' = Append(devm, ProbeOrder[step]) \/ devm' = Append(devm, "ina228")
      BY <1>3, <2>2 DEF Probe, ProbeBegin, ProbeFails, GetChipVersion, FwProbe, HwInit,
         ChipStep, ProbeManaged, ProbeId, ProbeIna, ProbeWorks, ProbeUsb
    <3>3. \A x : Len(Append(devm, x)) = Len(devm) + 1
      BY <1>1 DEF LTypeOK
    <3> QED BY <1>1, <3>1, <3>2, <3>3 DEF FilesInv
  <2> QED BY <2>1, <2>2
<1>4. CASE Run
  <2>1. UNCHANGED <<files, devm, cleanup>>
    BY <1>4 DEF Run, Ends, UsbEvent, SupplierChange, IrqSamples, IrqNotifies, IrqEnds,
       ReadSamples, ReadEnds, WorkBegins, WorkNotifies, WorkEnds, StoreBegins, StoreEnds,
       Resources
  <2>2. \/ stores' \subseteq stores
        \/ \E f \in files : stores' = stores \cup {f}
    BY <1>4 DEF Run, Ends, UsbEvent, SupplierChange, IrqSamples, IrqNotifies, IrqEnds,
       ReadSamples, ReadEnds, WorkBegins, WorkNotifies, WorkEnds, StoreBegins, StoreEnds
  <2> QED BY <2>1, <2>2 DEF FilesInv
<1>5. CASE Remove
  <2>1. UNCHANGED <<files, stores, devm, cleanup>>
    BY <1>5 DEF Remove, RemoveBegin, RemoveNotifier, RemoveCancelUsb, RemoveClient, RemoveIna,
       RemoveReset, Threads
  <2> QED BY <2>1 DEF FilesInv
<1>6. CASE Unwind
  <2>1. Len(devm) # 2 /\ Len(devm') = Len(devm) - 1
    BY <1>1, <1>6, LastIs, Popped DEF Unwind
  <2> QED BY <1>1, <1>6, <2>1 DEF FilesInv, Unwind, Threads
<1>7. CASE CleanupBegin
  BY <1>7 DEF FilesInv, CleanupBegin, Threads
<1>8. CASE CleanupCancel
  BY <1>8 DEF FilesInv, CleanupCancel
<1>9. CASE UnwindDone \/ UNCHANGED lvars
  BY <1>9 DEF FilesInv, UnwindDone, Quietly, lvars
<1> QED BY <1>3, <1>4, <1>5, <1>6, <1>7, <1>8, <1>9 DEF LNext, Unbinding

LEMMA FilesSpec == LSpec => []FilesInv
<1>1. LInit => FilesInv
  BY DEF LInit, FilesInv, Files
<1>2. LInv /\ FilesInv /\ [LNext]_lvars => FilesInv'
  BY FilesKeep
<1> QED BY <1>1, <1>2, LInductive, PTL DEF LSpec

\* Whichever step of probe failed and whatever the threads did meanwhile, of an unbound
\* driver nothing can run but a store of reset_soc, whose file alone is left: no work,
\* interrupt thread, notifier, reader or other store.  Its id is given back, and the
\* INA228's client stays only after a probe that failed behind bq25890_ina228_probe.
THEOREM UnboundIsQuiet == LSpec => []QuietWhenUnbound
<1>1. ASSUME LInv, FilesInv, stage = "unbound" PROVE QuietWhenUnbound
  <2>1. Len(devm) = 0 /\ LTypeOK /\ Outlived /\ Owned
    BY <1>1 DEF LInv, Prefix
  <2>2. (\A w \in Works : Idle(w)) /\ ~idr /\ files \cup stores \subseteq {"reset_soc"}
    BY <1>1, <2>1 DEF Outlived, FilesInv, Files
  <2>3. irq = "off" /\ reader = "off" /\ ~notifier
    BY <1>1, <2>1 DEF Outlived
  <2>4. client => lost
    BY <1>1, <2>1 DEF Owned
  <2>5. queued = {} /\ \A w \in Works : doing[w] = "off"
    BY <2>1, <2>2 DEF LTypeOK, Idle
  <2> QED BY <2>2, <2>3, <2>4, <2>5 DEF QuietWhenUnbound
<1>2. LInv /\ FilesInv => QuietWhenUnbound
  BY <1>1 DEF QuietWhenUnbound
<1> QED BY <1>2, LInductive, FilesSpec, PTL

\* The interrupt thread and the USB work never notify through a supply that is not yet
\* registered or already given back.
THEOREM SuppliesStay == LSpec => []SuppliesOutliveEvents
<1>1. ASSUME LInv, irq = "notifying" \/ doing["usb"] = "notifying"
      PROVE  {"charger", "ac"} \subseteq Held
  <2>1. Len(devm) = 8
    BY <1>1 DEF LInv, Outlived, Prefix, Idle
  <2> QED BY <1>1, <2>1, HeldIs DEF LInv
<1>2. LInv => SuppliesOutliveEvents
  BY <1>1 DEF SuppliesOutliveEvents
<1> QED BY <1>2, LInductive, PTL

-----------------------------------------------------------------------------
(* FuelGaugeThreads: what a read finds. *)

\* Between a reader's test of capacity_valid and its read of capacity_cache the SOC
\* stays valid unless reset_soc is written: samples and coulomb_uah only publish.
Fetchable == r_pc = "fetch" /\ ~was_reset => capacity_valid

LEMMA FetchableSpec == Spec => []Fetchable
<1>1. Init => Fetchable
  BY DEF Init, Fetchable
<1>2. ASSUME Fetchable, [Next]_tvars PROVE Fetchable'
  <2> USE DEF Fetchable, PublishSample, view, readers
  <2>1. CASE Worker
    BY <1>2, <2>1 DEF Worker, WorkerSample, WorkerSampleFails, WorkerSnapshot, WorkerCompare,
                WorkerNotify, WorkerReschedule
  <2>2. CASE CalibrateSample \/ CalibrateNotify
    BY <1>2, <2>2 DEF CalibrateSample, CalibrateNotify
  <2>3. CASE IrqSample \/ IrqNotify
    BY <1>2, <2>3 DEF IrqSample, IrqNotify
  <2>4. CASE StoreCoulomb
    BY <1>2, <2>4 DEF StoreCoulomb, PublishWrite
  <2>5. CASE ResetSoc
    BY <1>2, <2>5 DEF ResetSoc
  <2>6. CASE Reader
    BY <1>2, <2>6 DEF Reader, ReadBegin, ReadCheck, ReadResample, ReadFetch
  <2>7. CASE UNCHANGED tvars
    BY <1>2, <2>7 DEF tvars
  <2> QED BY <1>2, <2>1, <2>2, <2>3, <2>4, <2>5, <2>6, <2>7 DEF Next
<1> QED BY <1>1, <1>2, PTL DEF Spec

\* Until the first reset_soc a capacity read returns a SOC that the estimator published,
\* never the 0 that stands in capacity_cache before: userspace powers off at 0.
THEOREM ReadsArePublished == Spec => ReadsPublished
<1>1. ASSUME Fetchable, [Next]_tvars, shown' # shown, ~was_reset PROVE capacity_valid
  <2>1. ReadFetch
    BY <1>1 DEF tvars, readers, Next, Worker, WorkerSample, WorkerSampleFails,
                WorkerSnapshot, WorkerCompare, WorkerNotify, WorkerReschedule,
                CalibrateSample, CalibrateNotify, IrqSample, IrqNotify, StoreCoulomb,
                ResetSoc, Reader, ReadBegin, ReadCheck, ReadResample
  <2> QED BY <1>1, <2>1 DEF ReadFetch, Fetchable
<1>2. Fetchable /\ [Next]_tvars => [shown' # shown /\ ~was_reset => capacity_valid]_tvars
  BY <1>1
<1> QED BY <1>2, FetchableSpec, PTL DEF Spec, ReadsPublished

-----------------------------------------------------------------------------
(* GaugeSensing: readings at the ADC's floor. *)

\* The fields of a voltage tracker; a sample changes values only.
Parts == {"smoothed", "since", "glitch", "ocv"}
Shaped(v) == v = [k \in Parts |-> v[k]]

LEMMA Changed ==
  ASSUME NEW v, Shaped(v), NEW x
  PROVE  /\ Shaped([v EXCEPT !.smoothed = x]) /\ Shaped([v EXCEPT !.since = x])
         /\ Shaped([v EXCEPT !.glitch = x]) /\ [v EXCEPT !.glitch = x].glitch = x
         /\ [v EXCEPT !.glitch = x].smoothed = v.smoothed
         /\ [v EXCEPT !.since = x].smoothed = v.smoothed
         /\ Shaped([v EXCEPT !.ocv = x]) /\ [v EXCEPT !.ocv = x].smoothed = v.smoothed
<1> DEFINE U(k) == [v EXCEPT ![k] = x]
<1>1. ASSUME NEW k \in Parts
      PROVE  U(k) = [j \in Parts |-> IF j = k THEN x ELSE v[j]]
  BY <1>1, SMT DEF Shaped
<1>2. ASSUME NEW k \in Parts PROVE Shaped(U(k))
  BY <1>1, <1>2, SMT DEF Shaped
<1>3. "smoothed" \in Parts /\ "since" \in Parts /\ "glitch" \in Parts /\ "ocv" \in Parts
  BY SMT DEF Parts
<1>4. /\ U("ocv").smoothed = v.smoothed /\ U("since").smoothed = v.smoothed
      /\ U("glitch").smoothed = v.smoothed /\ U("glitch").glitch = x
  BY <1>1, <1>3, SMT DEF Shaped
<1> QED BY <1>2, <1>3, <1>4, SMT

LEMMA AgedShaped ==
  ASSUME NEW v, Shaped(v), NEW gap
  PROVE  Shaped(Aged(v, gap)) /\ Aged(v, gap).smoothed = v.smoothed
<1> DEFINE a == AtMost(v.since + gap, TauOcv)
           b == AtLeast(v.glitch - gap, 0)
           w == [v EXCEPT !.since = a]
<1> HIDE DEF a
<1>1. Shaped(w) /\ w.smoothed = v.smoothed
  BY Changed
<1>2. Aged(v, gap) = [w EXCEPT !.glitch = b]
  BY DEF Aged, a
<1> HIDE DEF w, b
<1>3. Shaped([w EXCEPT !.glitch = b]) /\ [w EXCEPT !.glitch = b].smoothed = w.smoothed
  BY <1>1, Changed
<1> QED BY <1>1, <1>2, <1>3

LEMMA SmoothShaped ==
  ASSUME NEW v, Shaped(v), NEW raw, NEW reseed
  PROVE  Shaped(Smooth(v, raw, reseed))
<1> DEFINE near == Approach(v.smoothed, raw, AtMost(v.since, TauV), TauV)
           W == {v, Loaded(v), Loaded(Loaded(v))}
<1>1. \E w \in W : Smooth(v, raw, reseed) \in {w, Moved(w, raw), Moved(w, near)}
  BY SMT DEF Smooth, SmoothArms
<1> HIDE DEF near
<1>2. ASSUME NEW w, Shaped(w) PROVE Shaped(Loaded(w))
  BY <1>2, Changed DEF Loaded
<1>3. ASSUME NEW w, Shaped(w), NEW x PROVE Shaped(Moved(w, x))
  <2> DEFINE m == [w EXCEPT !.smoothed = x]
  <2>1. Shaped(m)
    BY <1>3, Changed
  <2>2. Moved(w, x) = [m EXCEPT !.since = 0]
    BY DEF Moved
  <2> HIDE DEF m
  <2> QED BY <2>1, <2>2, Changed
<1>4. \A w \in W : Shaped(w)
  BY <1>2
<1> HIDE DEF W
<1> QED BY <1>1, <1>3, <1>4

\* A reading at the floor starts the wait for a load's end and nothing else, while the
\* smoothed voltage is above 3.15 V, on a change of the plug as well.
LEMMA FloorHeld ==
  ASSUME NEW v, NEW raw, NEW reseed, Floor(raw), v.smoothed > RestMin
  PROVE  Smooth(v, raw, reseed) = Loaded(v)
BY SMT DEF Smooth, SmoothArms

\* What a sample makes of the voltage and the mode, whichever path it takes.
LEMMA SampleVolt ==
  ASSUME NEW r, NEW gap, Sample(r, gap)
  PROVE  LET v == Smooth(Aged(volt, gap), BatvUv(r.code), ext # r.ext) IN
         /\ volt' \in {v, WithOcv(v)}
         /\ mode' = "RESTING" => quiet' > RestSec
         /\ quiet' = IF v.glitch > 0 THEN 0 ELSE AtMost(quiet + gap, RestSec + 1)
<1> DEFINE v == Smooth(Aged(volt, gap), BatvUv(r.code), ext # r.ext)
           i == Refresh(ina, r)
           c == Seeded([counter EXCEPT !.age = AtMost(@ + gap, 60)], v)
           d == [drift EXCEPT !.age = AtMost(@ + gap, DriftAgeMax)]
           s == SeededSoc(counter, v)
           g == [chg EXCEPT !.age = AtMost(@ + gap, 60)]
<1>1. \/ Terminal(v, c) \/ Charge(r, v, i, c, d, g) \/ Hold(v, c, d, s, g)
      \/ Discharge(v, i, c, d, s, gap)
  BY SMT DEF Sample
<1>2. quiet' = IF v.glitch > 0 THEN 0 ELSE AtMost(quiet + gap, RestSec + 1)
  BY SMT DEF Sample
<1> HIDE DEF v, i, c, d, s, g
<1>3. CASE Terminal(v, c)
  BY <1>2, <1>3, SMT DEF Terminal, v
<1>4. CASE Charge(r, v, i, c, d, g)
  <2>1. volt' = WithOcv(v) /\ mode' = "CHARGING"
    BY <1>4 DEF Charge
  <2> QED BY <1>2, <2>1, SMT DEF v
<1>5. CASE Hold(v, c, d, s, g)
  <2>1. volt' = WithOcv(v) /\ mode' = "CHARGING"
    BY <1>5 DEF Hold
  <2> QED BY <1>2, <2>1, SMT DEF v
<1>6. CASE Discharge(v, i, c, d, s, gap)
  <2>1. volt' = WithOcv(v) /\ mode' = IF quiet' > RestSec THEN "RESTING" ELSE "ACTIVE"
    BY <1>6 DEF Discharge
  <2> QED BY <1>2, <2>1, SMT DEF v
<1> QED BY <1>1, <1>3, <1>4, <1>5, <1>6

LEMMA VoltShaped == GSpec => []Shaped(volt)
<1>1. GInit => Shaped(volt)
  BY SMT DEF GInit, Shaped, Parts
<1>2. ASSUME Shaped(volt), [GNext]_gvars PROVE Shaped(volt)'
  <2>1. ASSUME NEW r \in Samples, NEW gap \in Gaps, Sample(r, gap) PROVE Shaped(volt')
    <3> DEFINE v == Smooth(Aged(volt, gap), BatvUv(r.code), ext # r.ext)
    <3>1. Shaped(v)
      BY <1>2, AgedShaped, SmoothShaped
    <3>2. volt' \in {v, WithOcv(v)}
      BY <2>1, SampleVolt
    <3> HIDE DEF v
    <3>3. Shaped(WithOcv(v))
      BY <3>1, Changed DEF WithOcv
    <3> QED BY <3>1, <3>2, <3>3
  <2>2. ASSUME NEW a \in Asked, SetProperty(a[1], a[2]) PROVE Shaped(volt')
    BY <1>2, <2>2 DEF SetProperty
  <2>3. CASE UNCHANGED gvars
    BY <1>2, <2>3 DEF gvars
  <2> QED BY <1>2, <2>1, <2>2, <2>3 DEF GNext, Shaped
<1> QED BY <1>1, <1>2, PTL DEF GSpec

\* A reading stuck at the ADC's floor never lowers a smoothed voltage above 3.15 V, and the
\* gauge does not begin to rest on it, on any path of bq25890_sample_and_update_fg.
THEOREM FloorIsNoCollapse == GSpec => FloorNeverSags
<1>1. ASSUME Shaped(volt), [GNext]_gvars, n' # n, Floor(BatvUv(input'.r.code)),
             volt.smoothed > RestMin
      PROVE  volt'.smoothed = volt.smoothed /\ mode' # "RESTING"
  <2>1. PICK r \in Samples, gap \in Gaps : Sample(r, gap)
    BY <1>1, SMT DEF GNext, SetProperty, gvars
  <2> DEFINE a == Aged(volt, gap)
             v == Smooth(a, BatvUv(r.code), ext # r.ext)
  <2>2. input' = [r |-> r, gap |-> gap]
    BY <2>1, SMT DEF Sample
  <2>3. Shaped(a) /\ a.smoothed = volt.smoothed
    BY <1>1, AgedShaped
  <2>4. volt' \in {v, WithOcv(v)}
    BY <2>1, SampleVolt
  <2>5. /\ mode' = "RESTING" => quiet' > RestSec
        /\ quiet' = IF v.glitch > 0 THEN 0 ELSE AtMost(quiet + gap, RestSec + 1)
    BY <2>1, SampleVolt
  <2> HIDE DEF a
  <2>6. v = Loaded(a)
    <3>1. Floor(BatvUv(r.code))
      BY <1>1, <2>2, SMT
    <3> QED BY <1>1, <2>3, <3>1, FloorHeld
  <2> HIDE DEF v
  <2>7. Shaped(v) /\ v.smoothed = volt.smoothed /\ v.glitch = GlitchSec
    BY <2>3, <2>6, Changed DEF Loaded
  <2>8. volt'.smoothed = volt.smoothed
    <3>1. WithOcv(v).smoothed = v.smoothed
      BY <2>7, Changed DEF WithOcv
    <3> QED BY <2>4, <2>7, <3>1
  <2>9. mode' # "RESTING"
    BY <2>5, <2>7, SMT DEF RestSec, GlitchSec
  <2> QED BY <2>8, <2>9
<1>2. Shaped(volt) /\ [GNext]_gvars =>
        [n' # n /\ Floor(BatvUv(input'.r.code)) /\ volt.smoothed > RestMin =>
           volt'.smoothed = volt.smoothed /\ mode' # "RESTING"]_gvars
  BY <1>1
<1> QED BY <1>2, VoltShaped, PTL DEF GSpec, FloorNeverSags

-----------------------------------------------------------------------------
(* GaugeSensing: the settings userspace asks for. *)

\* A value from the bottom of a range to its top, rounded down to a step and back.
LEMMA RoundsIchg ==
  ASSUME NEW c \in Int, 0 <= c, c <= 5056000
  PROVE  /\ AtMost(c \div 64000, 79) = c \div 64000 /\ c \div 64000 \in Int
         /\ 64000 * (c \div 64000) <= c /\ c < 64000 * (c \div 64000) + 64000
BY SMT DEF AtMost

LEMMA RoundsVreg ==
  ASSUME NEW c \in Int, 3840000 <= c, c <= 4608000
  PROVE  LET k == (c - 3840000) \div 16000 IN
         /\ AtMost(k, 48) = k /\ k \in Int
         /\ 3840000 + 16000 * k <= c /\ c < 3840000 + 16000 * k + 16000
BY SMT DEF AtMost

LEMMA Tables ==
  /\ RangeTable["ICHG"] = [min |-> 0, max |-> 5056000, step |-> 64000]
  /\ RangeTable["VREG"] = [min |-> 3840000, max |-> 4608000, step |-> 16000]
  /\ RangeTable["IINLIM"] = [min |-> 100000, max |-> 3250000, step |-> 50000]
BY SMT DEF RangeTable

\* What a property write leaves in its register, for a value from the bottom of the range.
LEMMA IchgWritten ==
  ASSUME NEW value \in Int, value >= 0
  PROVE  LET want == AtMost(value, DtMax["ICHG"])
             have == FindVal(FindIdx(Capped("ICHG", value), "ICHG"), "ICHG")
         IN  have <= want /\ want < have + 64000
<1> DEFINE c == AtMost(value, 64000 * IchgMax)
<1>0. IchgMax \in Int /\ 0 <= IchgMax /\ IchgMax <= 79
  BY SettingAssumption, SMT
<1>1. c \in Int /\ 0 <= c /\ c <= 5056000
  BY <1>0, SMT DEF AtMost
<1>2. DtMax["ICHG"] = 64000 * IchgMax /\ Capped("ICHG", value) = c
  BY <1>0, Tables, SMT DEF DtMax, Capped, FindVal
<1>3. c = AtMost(value, 64000 * IchgMax)
  OBVIOUS
<1> HIDE DEF c
<1>4. FindIdx(c, "ICHG") = AtMost(c \div 64000, 79)
  BY <1>1, Tables, SMT DEF FindIdx, FindIdxUnsigned, TopIdx
<1>5. FindVal(FindIdx(c, "ICHG"), "ICHG") = 64000 * (c \div 64000)
  BY <1>1, <1>4, RoundsIchg, Tables, SMT DEF FindVal
<1> QED BY <1>1, <1>2, <1>3, <1>5, RoundsIchg, SMT

LEMMA VregWritten ==
  ASSUME NEW value \in Int, value >= 3840000
  PROVE  LET want == AtMost(value, DtMax["VREG"])
             have == FindVal(FindIdx(Capped("VREG", value), "VREG"), "VREG")
         IN  have <= want /\ want < have + 16000
<1> DEFINE c == AtMost(value, 3840000 + 16000 * VregMax)
<1>0. VregMax \in Int /\ 0 <= VregMax /\ VregMax <= 48
  BY SettingAssumption, SMT
<1>1. c \in Int /\ 3840000 <= c /\ c <= 4608000
  BY <1>0, SMT DEF AtMost
<1>2. DtMax["VREG"] = 3840000 + 16000 * VregMax /\ Capped("VREG", value) = c
  BY <1>0, Tables, SMT DEF DtMax, Capped, FindVal
<1>3. c = AtMost(value, 3840000 + 16000 * VregMax)
  OBVIOUS
<1> HIDE DEF c
<1>4. FindIdx(c, "VREG") = AtMost((c - 3840000) \div 16000, 48)
  BY <1>1, Tables, SMT DEF FindIdx, FindIdxUnsigned, TopIdx
<1>5. FindVal(FindIdx(c, "VREG"), "VREG") = 3840000 + 16000 * ((c - 3840000) \div 16000)
  BY <1>1, <1>4, RoundsVreg, Tables, SMT DEF FindVal
<1> QED BY <1>1, <1>2, <1>3, <1>5, RoundsVreg, SMT

LEMMA IinlimWritten ==
  ASSUME NEW value \in Int, value >= 100000
  PROVE  LET want == AtMost(value, DtMax["IINLIM"])
             have == FindVal(FindIdx(Capped("IINLIM", value), "IINLIM"), "IINLIM")
         IN  have <= want /\ want < have + 50000
<1>1. DtMax["IINLIM"] = 3250000 /\ Capped("IINLIM", value) = value
  BY Tables, SMT DEF DtMax, Capped
<1>2. FindIdx(value, "IINLIM") = AtMost((value - 100000) \div 50000, 63)
  BY <1>1, Tables, SMT DEF FindIdx, FindIdxUnsigned, TopIdx
<1> QED BY <1>1, <1>2, Tables, SMT DEF FindVal, AtMost

\* What a write leaves in its register, for the three properties that can be written.
Settable == {"ICHG", "VREG", "IINLIM"}
Written ==
  /\ DOMAIN regs = Settable
  /\ asked # <<>> => /\ asked[1] \in Settable /\ asked[2] \in Int
                     /\ regs[asked[1]] = FindIdx(Capped(asked[1], asked[2]), asked[1])

LEMMA WrittenSpec == GSpec => []Written
<1>1. GInit => Written
  BY SMT DEF GInit, Written, Settable
<1>2. ASSUME Written, [GNext]_gvars PROVE Written'
  <2>1. ASSUME NEW r \in Samples, NEW gap \in Gaps, Sample(r, gap) PROVE Written'
    BY <1>2, <2>1, SMT DEF Sample, Written
  <2>2. ASSUME NEW a \in Asked, SetProperty(a[1], a[2]) PROVE Written'
    <3>1. a[1] \in Settable /\ a[2] \in Int
      BY SettingAssumption, SMT DEF Settable
    <3> QED BY <1>2, <2>2, <3>1, SMT DEF SetProperty, Written
  <2>3. CASE UNCHANGED gvars
    BY <1>2, <2>3, SMT DEF gvars, Written
  <2> QED BY <1>2, <2>1, <2>2, <2>3 DEF GNext
<1> QED BY <1>1, <1>2, PTL DEF GSpec

\* A current or voltage that userspace asks for is never exceeded, is missed by less than
\* one step and stays within the device tree's maximum, for every value and every maximum
\* the registers can hold.
THEOREM SettingsAreHonoured == GSpec => []SettingHonoured
<1>1. ASSUME Written PROVE SettingHonoured
  <2> SUFFICES ASSUME NEW p \in DOMAIN regs, asked # <<>>, asked[1] = p,
                      asked[2] >= RangeTable[p].min
               PROVE  LET want == AtMost(asked[2], DtMax[p])
                          have == FindVal(regs[p], p)
                      IN  have <= want /\ want < have + RangeTable[p].step
    BY DEF SettingHonoured
  <2>1. p \in Settable /\ asked[2] \in Int /\ regs[p] = FindIdx(Capped(p, asked[2]), p)
    BY <1>1 DEF Written
  <2>2. CASE p = "ICHG"
    BY <2>1, <2>2, IchgWritten, Tables, SMT
  <2>3. CASE p = "VREG"
    BY <2>1, <2>3, VregWritten, Tables, SMT
  <2>4. CASE p = "IINLIM"
    BY <2>1, <2>4, IinlimWritten, Tables, SMT
  <2> QED BY <2>1, <2>2, <2>3, <2>4 DEF Settable
<1> QED BY <1>1, WrittenSpec, PTL
=================================================================================
