--------------------------- MODULE Charger_proofs ---------------------------
(***************************************************************************)
(* Theorems about charger control.                                         *)
(*                                                                         *)
(* ChargerIrq: over any number of replugs, writes of ONLINE and suspends   *)
(* that do not overlap an interrupt, EN_HIZ is what userspace asked for and*)
(* the ADC converts with an adapter only.  Between interrupts bq->state is *)
(* right about the cable, though not about EN_HIZ; while one is handled,   *)
(* the difference between it and new_state is what has happened.  So the   *)
(* invariants follow the interrupt from the edge to the end.               *)
(*                                                                         *)
(* ChargerPower: in any overlap of Pump Express, USB events, supplier      *)
(* changes and the regulator, and for any number of tries and port types,  *)
(* what is left when nothing is under way is what the last event asked for.*)
(* The two liveness properties of the module rest on the same invariants:  *)
(* what a handler has read is the latest, or it is queued again.  The USB  *)
(* events have an exception, which is in the code: one that the work does  *)
(* not know may be stored over one that it does.                           *)
(***************************************************************************)
EXTENDS ChargerIrq, ChargerPower, TLAPS

\* As long as nothing overlapped an interrupt and none was lost.
Orderly == ~raced /\ ~bus_failed

\* EN_HIZ is what userspace asked for, if there is an adapter.
AsAsked == chip.online => (chip.hiz <=> force_hiz)

\* The same of an adapter that may have just arrived, which cleared EN_HIZ.
AsAskedOrFresh == chip.online => (chip.hiz <=> (force_hiz /\ state.online))

HizInv ==
  /\ TypeOK
  /\ Orderly =>
       /\ ~Busy => /\ state.online = chip.online
                   /\ u_pc # "remember" => AsAsked
                   /\ u_pc = "remember" => (chip.hiz <=> u_hiz)
       /\ Busy => u_pc # "remember"
       /\ intr => i_pc = "idle" /\ AsAskedOrFresh
       /\ i_pc = "restore" => AsAskedOrFresh
       /\ i_pc \in {"adc", "sample"} => AsAsked
       /\ i_pc # "idle" => new_state = chip
       /\ i_pc = "sample" => state = chip

LEMMA InitHiz == ASSUME Init PROVE HizInv
<1>1. chip \in ChipStates /\ chip.online \in BOOLEAN /\ ~chip.hiz
  BY DEF Init, ChipStates
<1>2. AdcWanted(chip) \in BOOLEAN
  BY DEF AdcWanted
<1>3. TypeOK
  BY <1>1, <1>2 DEF Init, TypeOK
<1>4. AsAsked
  BY <1>1 DEF Init, AsAsked
<1> QED BY <1>1, <1>3, <1>4 DEF Init, HizInv, Busy

LEMMA CableHiz == ASSUME HizInv, Cable PROVE HizInv'
<1>0. chip' \in ChipStates
  <2>1. CASE Plug
    <3>1. \A c \in BOOLEAN : [online |-> TRUE, hiz |-> FALSE, chrg |-> c] \in ChipStates
      BY DEF ChipStates
    <3> QED BY <2>1, <3>1, Zenon DEF Plug
  <2>2. CASE Unplug
    <3>1. PICK c \in BOOLEAN : chip' = [chip EXCEPT !.online = FALSE, !.chrg = c]
      BY <2>2 DEF Unplug
    <3> QED BY <3>1 DEF HizInv, TypeOK, ChipStates
  <2>3. CASE ChargeStatus
    <3>1. chip' = [chip EXCEPT !.chrg = ~chip.chrg]
      BY <2>3 DEF ChargeStatus
    <3>2. (~chip.chrg) \in BOOLEAN
      OBVIOUS
    <3> QED BY <3>1, <3>2 DEF HizInv, TypeOK, ChipStates
  <2> QED BY <2>1, <2>2, <2>3 DEF Cable
<1>1. /\ intr' = TRUE
      /\ UNCHANGED <<conv_rate, state, force_hiz, i_pc, new_state, u_pc, u_hiz, pm, bus_failed, hiz_used>>
      /\ raced' = (raced \/ Busy \/ u_pc = "remember")
  BY DEF Cable, Plug, Unplug, ChargeStatus, CableOverlaps, irq, user
<1>2. TypeOK'
  <2>1. raced' \in BOOLEAN
    BY <1>1 DEF HizInv, TypeOK, Busy
  <2> QED BY <1>0, <1>1, <2>1 DEF HizInv, TypeOK
<1>3. ASSUME Orderly' PROVE i_pc = "idle" /\ AsAskedOrFresh' /\ u_pc # "remember"
  <2>1. Orderly /\ ~Busy /\ u_pc # "remember" /\ i_pc = "idle"
    BY <1>1, <1>3 DEF Orderly, Busy
  <2>2. state.online = chip.online /\ AsAsked
    BY <2>1 DEF HizInv
  <2>3. CASE Plug
    BY <1>1, <2>1, <2>2, <2>3 DEF Plug, AsAskedOrFresh, HizInv, TypeOK, ChipStates
  <2>4. CASE Unplug
    BY <1>1, <2>1, <2>2, <2>4 DEF Unplug, AsAskedOrFresh, HizInv, TypeOK, ChipStates
  <2>5. CASE ChargeStatus
    BY <1>1, <2>1, <2>2, <2>5 DEF ChargeStatus, AsAsked, AsAskedOrFresh, HizInv, TypeOK, ChipStates
  <2> QED BY <2>1, <2>3, <2>4, <2>5 DEF Cable
<1> QED BY <1>1, <1>2, <1>3 DEF HizInv, Busy

LEMMA IrqHiz == ASSUME HizInv, Irq \/ IrqError PROVE HizInv'
<1>1. CASE IrqRead
  <2>1. TypeOK'
    BY <1>1 DEF IrqRead, HizInv, TypeOK, history, user, Lost
  <2>2. CASE Orderly'
    <3>1. /\ Orderly /\ i_pc = "idle" /\ intr /\ intr' = FALSE /\ new_state' = chip
          /\ i_pc' = IF chip = state THEN "idle" ELSE "restore"
          /\ UNCHANGED <<chip, state, force_hiz, u_pc, u_hiz>>
      BY <1>1, <2>2 DEF IrqRead, Orderly, history, user, Lost
    <3> QED BY <2>1, <3>1 DEF HizInv, Busy, AsAsked, AsAskedOrFresh, TypeOK, ChipStates
  <2> QED BY <2>1, <2>2 DEF HizInv
<1>2. CASE IrqRestore
  <2>0. chip' \in ChipStates /\ new_state' \in ChipStates
    <3>1. CASE Arrived(new_state, state) /\ force_hiz
      BY <1>2, <3>1 DEF IrqRestore, HizInv, TypeOK, ChipStates
    <3>2. CASE ~(Arrived(new_state, state) /\ force_hiz)
      BY <1>2, <3>2 DEF IrqRestore, HizInv, TypeOK
    <3> QED BY <3>1, <3>2
  <2>1. TypeOK'
    BY <1>2, <2>0 DEF IrqRestore, HizInv, TypeOK, history, user
  <2>2. /\ Orderly' = Orderly /\ i_pc = "restore" /\ i_pc' = "adc" /\ UNCHANGED <<intr, state, force_hiz, u_pc, u_hiz>>
    BY <1>2 DEF IrqRestore, Orderly, history, user
  <2>3. CASE ~(Arrived(new_state, state) /\ force_hiz)
    <3>1. UNCHANGED <<chip, new_state>>
      BY <1>2, <2>3 DEF IrqRestore
    <3> QED BY <2>1, <2>2, <2>3, <3>1 DEF HizInv, Busy, AsAsked, AsAskedOrFresh, Arrived, TypeOK, ChipStates
  <2>4. CASE Arrived(new_state, state) /\ force_hiz
    <3>1. chip' = [chip EXCEPT !.hiz = TRUE] /\ new_state' = [new_state EXCEPT !.hiz = TRUE]
      BY <1>2, <2>4 DEF IrqRestore
    <3>2. chip'.online = chip.online /\ chip'.hiz = TRUE
      BY <3>1 DEF HizInv, TypeOK, ChipStates
    <3> QED BY <2>1, <2>2, <2>4, <3>1, <3>2 DEF HizInv, Busy, AsAsked, AsAskedOrFresh, TypeOK
  <2> QED BY <2>3, <2>4
<1>3. CASE IrqAdc
  <2>1. conv_rate' \in BOOLEAN
    BY <1>3 DEF IrqAdc, AdcRate, AdcWanted, HizInv, TypeOK, ChipStates
  <2>2. TypeOK'
    BY <1>3, <2>1 DEF IrqAdc, HizInv, TypeOK, history, user
  <2> QED BY <1>3, <2>2 DEF IrqAdc, HizInv, Busy, AsAsked, Orderly, history, user
<1>4. CASE IrqSample
  <2>1. TypeOK'
    BY <1>4 DEF IrqSample, SampledState, HizInv, TypeOK, history, user, hardware
  <2> QED BY <1>4, <2>1 DEF IrqSample, SampledState, HizInv, Busy, AsAsked, Orderly, history, user, hardware
<1>5. CASE IrqError
  <2>1. TypeOK' /\ ~Orderly'
    BY <1>5 DEF IrqError, HizInv, TypeOK, Lost, Orderly, user, hardware
  <2> QED BY <2>1 DEF HizInv
<1> QED BY <1>1, <1>2, <1>3, <1>4, <1>5 DEF Irq

\* A step of another thread: it overlaps an interrupt, or there is none.
LEMMA OthersHiz ==
  ASSUME HizInv, OtherSample \/ OnlineRefresh \/ Suspend \/ Resume
  PROVE  HizInv'
<1>1. /\ UNCHANGED <<chip, intr, force_hiz, i_pc, new_state, u_hiz, bus_failed, hiz_used>>
      /\ raced' = (raced \/ Busy)
      /\ state' = chip \/ state' = state
  BY DEF OtherSample, OnlineRefresh, Suspend, Resume, SampledState, Overlaps, hardware, irq, user
<1>2. /\ u_pc' \in {"idle", "remember", "refresh"}
      /\ u_pc' = "remember" <=> u_pc = "remember"
  BY DEF OtherSample, OnlineRefresh, Suspend, Resume, user, HizInv, TypeOK
<1>3. pm' \in {"awake", "suspending", "suspended", "resuming"}
  BY DEF OtherSample, OnlineRefresh, Suspend, Resume, HizInv, TypeOK
<1>4. conv_rate' \in BOOLEAN
  BY DEF OtherSample, OnlineRefresh, Suspend, Resume, hardware, HizInv, TypeOK
<1>5. TypeOK'
  <2>1. raced' \in BOOLEAN
    BY <1>1 DEF HizInv, TypeOK, Busy
  <2> QED BY <1>1, <1>2, <1>3, <1>4, <2>1 DEF HizInv, TypeOK
<1>6. ASSUME Orderly' PROVE Orderly /\ ~Busy /\ ~Busy'
  BY <1>1, <1>6 DEF Orderly, Busy
<1> QED BY <1>1, <1>2, <1>5, <1>6 DEF HizInv, AsAsked, Busy

LEMMA WriteHiz == ASSUME HizInv, OnlineWrite \/ OnlineRemember PROVE HizInv'
<1>1. /\ UNCHANGED <<state, intr, i_pc, new_state, bus_failed, conv_rate, pm>>
      /\ raced' = (raced \/ Busy)
  BY DEF OnlineWrite, OnlineRemember, Overlaps, hardware, irq
<1>2. raced' \in BOOLEAN
  BY <1>1 DEF HizInv, TypeOK, Busy
<1>3. ASSUME Orderly' PROVE Orderly /\ ~Busy /\ ~Busy' /\ state.online = chip.online
  BY <1>1, <1>3 DEF Orderly, Busy, HizInv
<1>4. CASE OnlineWrite
  <2>1. /\ u_hiz' \in BOOLEAN /\ chip' = [chip EXCEPT !.hiz = u_hiz']
        /\ u_pc' = "remember" /\ force_hiz' = force_hiz
    BY <1>4 DEF OnlineWrite
  <2>2. chip' \in ChipStates /\ chip'.hiz = u_hiz' /\ chip'.online = chip.online
    BY <2>1 DEF HizInv, TypeOK, ChipStates
  <2>3. hiz_used' \in BOOLEAN
    BY <1>4 DEF OnlineWrite, HizInv, TypeOK
  <2>4. TypeOK'
    BY <1>1, <1>2, <2>1, <2>2, <2>3 DEF HizInv, TypeOK
  <2> QED BY <1>1, <1>3, <2>1, <2>2, <2>4 DEF HizInv, Busy
<1>5. CASE OnlineRemember
  <2>1. /\ UNCHANGED <<chip, u_hiz, hiz_used>> /\ force_hiz' = u_hiz
        /\ u_pc = "remember" /\ u_pc' = "refresh"
    BY <1>5 DEF OnlineRemember, hardware
  <2>2. TypeOK'
    BY <1>1, <1>2, <2>1 DEF HizInv, TypeOK
  <2> QED BY <1>1, <1>3, <2>1, <2>2 DEF HizInv, Busy, AsAsked
<1> QED BY <1>4, <1>5

LEMMA IdleHiz == ASSUME HizInv, IrqsOff \/ IrqsOn \/ UNCHANGED vars PROVE HizInv'
<1>1. /\ UNCHANGED <<hardware, state, force_hiz, irq, user, history>>
      /\ pm' \in {"awake", "suspending", "suspended", "resuming"}
  BY DEF IrqsOff, IrqsOn, vars, HizInv, TypeOK
<1> QED BY <1>1 DEF HizInv, TypeOK, Orderly, Busy, AsAsked, AsAskedOrFresh, hardware, irq, user, history

LEMMA StepHiz == ASSUME HizInv, [Next]_vars PROVE HizInv'
BY CableHiz, IrqHiz, OthersHiz, WriteHiz, IdleHiz DEF Next

LEMMA HizHolds == Spec => []HizInv
BY InitHiz, StepHiz, PTL DEF Spec

\* Over any number of replugs, suspends and charge status changes, an adapter
\* feeds the chip exactly when userspace has not asked for high impedance, as
\* long as nothing overlapped an interrupt.
THEOREM HizStaysAsAsked == Spec => []HizAsAsked
<1>1. HizInv => HizAsAsked
  BY DEF HizInv, HizAsAsked, Quiet, Orderly, AsAsked, Busy
<1> QED BY <1>1, HizHolds, PTL

-----------------------------------------------------------------------------
(* CONV_RATE.  While EN_HIZ has never been asked for, it is nowhere set, and  *)
(* the IRQ thread wants conversions exactly with an adapter.                  *)

NoHiz == ~chip.hiz /\ ~state.hiz /\ ~new_state.hiz /\ ~force_hiz /\ ~u_hiz

\* Suspend switches the conversions off; an interrupt may switch them on again.
RateFits ==
  /\ conv_rate => state.online
  /\ pm = "awake" /\ state.online => conv_rate

AdcInv ==
  /\ HizInv
  /\ ~hiz_used => NoHiz
  /\ Orderly /\ ~hiz_used => RateFits

LEMMA InitAdc == ASSUME Init PROVE AdcInv
<1>1. HizInv
  BY InitHiz
<1>2. ~chip.hiz /\ (conv_rate <=> chip.online)
  BY DEF Init, AdcWanted
<1>3. NoHiz
  BY <1>2 DEF Init, NoHiz
<1>4. RateFits
  BY <1>2 DEF Init, RateFits
<1> QED BY <1>1, <1>3, <1>4 DEF AdcInv

LEMMA StepNoHiz == ASSUME AdcInv, [Next]_vars, ~hiz_used' PROVE ~hiz_used /\ NoHiz'
<1>1. CASE Cable
  <2>1. UNCHANGED <<state, force_hiz, new_state, u_hiz, hiz_used>>
    BY <1>1 DEF Cable, Plug, Unplug, ChargeStatus, CableOverlaps, irq, user
  <2>2. CASE Plug
    <3>1. ~chip'.hiz
      BY <2>2 DEF Plug
    <3> QED BY <2>1, <3>1 DEF AdcInv, NoHiz
  <2>3. CASE Unplug
    <3>1. chip'.hiz = chip.hiz
      BY <2>3 DEF Unplug, AdcInv, HizInv, TypeOK, ChipStates
    <3> QED BY <2>1, <3>1 DEF AdcInv, NoHiz
  <2>4. CASE ChargeStatus
    <3>1. chip'.hiz = chip.hiz
      BY <2>4 DEF ChargeStatus, AdcInv, HizInv, TypeOK, ChipStates
    <3> QED BY <2>1, <3>1 DEF AdcInv, NoHiz
  <2> QED BY <1>1, <2>2, <2>3, <2>4 DEF Cable
<1>2. CASE Irq \/ IrqError
  <2>1. ~hiz_used /\ UNCHANGED <<force_hiz, u_hiz>>
    BY <1>2 DEF Irq, IrqRead, IrqRestore, IrqAdc, IrqSample, IrqError, Lost, history, user
  <2>2. NoHiz
    BY <2>1 DEF AdcInv
  <2>3. ~(Arrived(new_state, state) /\ force_hiz)
    BY <2>2 DEF NoHiz
  <2>4. /\ chip' = chip
        /\ state' = state \/ state' = chip \/ state' = new_state
        /\ new_state' = new_state \/ new_state' = chip
    BY <1>2, <2>3 DEF Irq, IrqRead, IrqRestore, IrqAdc, IrqSample, IrqError, SampledState, hardware
  <2> QED BY <2>1, <2>2, <2>4 DEF NoHiz
<1>3. CASE OtherSample \/ OnlineRefresh \/ Suspend \/ Resume \/ OnlineRemember
  <2>1. /\ hiz_used' = hiz_used /\ UNCHANGED <<chip, new_state, u_hiz>>
        /\ state' = state \/ state' = chip
        /\ force_hiz' = force_hiz \/ force_hiz' = u_hiz
    BY <1>3 DEF OtherSample, OnlineRefresh, Suspend, Resume, OnlineRemember, SampledState, hardware, irq, user
  <2> QED BY <2>1 DEF AdcInv, NoHiz
<1>4. CASE OnlineWrite
  <2>1. /\ u_hiz' \in BOOLEAN /\ chip' = [chip EXCEPT !.hiz = u_hiz']
        /\ ~hiz_used /\ ~u_hiz' /\ UNCHANGED <<state, force_hiz, new_state>>
    BY <1>4 DEF OnlineWrite, irq
  <2>2. chip'.hiz = u_hiz'
    BY <2>1 DEF AdcInv, HizInv, TypeOK, ChipStates
  <2> QED BY <2>1, <2>2 DEF AdcInv, NoHiz
<1>5. CASE IrqsOff \/ IrqsOn \/ UNCHANGED vars
  BY <1>5 DEF IrqsOff, IrqsOn, vars, hardware, irq, user, history, AdcInv, NoHiz
<1> QED BY <1>1, <1>2, <1>3, <1>4, <1>5 DEF Next

\* The rate after an interrupt that wanted it changed, or did not.
LEMMA AdcRateFits ==
  ASSUME NEW w \in BOOLEAN, NEW o \in BOOLEAN, conv_rate \in BOOLEAN,
         AdcWanted(new_state) = w, AdcWanted(state) = o, AdcRate
  PROVE  (w # o => conv_rate' = w) /\ (w = o => conv_rate' = conv_rate)
BY DEF AdcRate

\* What has overlapped, or been lost, stays so.
LEMMA StaysOrderly == ASSUME [Next]_vars, Orderly' PROVE Orderly
<1>1. CASE Cable
  <2>1. CableOverlaps
    BY <1>1 DEF Cable, Plug, Unplug, ChargeStatus
  <2> QED BY <2>1, Zenon DEF Orderly, CableOverlaps
<1>2. CASE Irq \/ IrqError
  BY <1>2 DEF Orderly, Irq, IrqRead, IrqRestore, IrqAdc, IrqSample, IrqError, Lost, history
<1>3. CASE OtherSample \/ OnlineWrite \/ OnlineRemember \/ OnlineRefresh \/ Suspend \/ Resume
  <2>1. Overlaps
    BY <1>3 DEF OtherSample, OnlineWrite, OnlineRemember, OnlineRefresh, Suspend, Resume
  <2> QED BY <2>1, Zenon DEF Orderly, Overlaps
<1>4. CASE IrqsOff \/ IrqsOn \/ UNCHANGED vars
  BY <1>4 DEF Orderly, IrqsOff, IrqsOn, vars, history
<1> QED BY <1>1, <1>2, <1>3, <1>4 DEF Next

LEMMA StepAdc == ASSUME AdcInv, [Next]_vars PROVE AdcInv'
<1>1. HizInv /\ HizInv' /\ (~hiz_used' => ~hiz_used /\ NoHiz')
  BY StepHiz, StepNoHiz DEF AdcInv
<1>2. ASSUME Orderly', ~hiz_used' PROVE RateFits'
  <2>1. Orderly /\ ~hiz_used /\ NoHiz /\ RateFits
    BY <1>1, <1>2, StaysOrderly DEF AdcInv
  <2>2. ~Busy => state.online = chip.online
    BY <1>1, <2>1 DEF HizInv
  <2>3. CASE Cable \/ IrqRead \/ IrqRestore \/ IrqError \/ OnlineWrite \/ OnlineRemember \/ UNCHANGED vars
    <3>1. UNCHANGED <<conv_rate, state, pm>>
      BY <2>3 DEF Cable, Plug, Unplug, ChargeStatus, IrqRead, IrqRestore, IrqError, OnlineWrite,
         OnlineRemember, hardware, vars
    <3> QED BY <2>1, <3>1 DEF RateFits
  <2>4. CASE IrqAdc
    <3>1. state' = new_state /\ pm' = pm /\ AdcRate
      BY <2>4 DEF IrqAdc
    <3>2. /\ AdcWanted(new_state) = new_state.online /\ AdcWanted(state) = state.online
          /\ new_state.online \in BOOLEAN /\ state.online \in BOOLEAN /\ conv_rate \in BOOLEAN
      BY <1>1, <2>1 DEF AdcWanted, NoHiz, HizInv, TypeOK, ChipStates
    <3>3. /\ new_state.online # state.online => conv_rate' = new_state.online
          /\ new_state.online = state.online => conv_rate' = conv_rate
      BY <3>1, <3>2, AdcRateFits
    <3> QED BY <2>1, <3>1, <3>2, <3>3 DEF RateFits
  <2>5. CASE IrqSample
    <3>1. state = chip
      BY <1>1, <2>1, <2>5 DEF HizInv, IrqSample
    <3>2. UNCHANGED <<conv_rate, pm>> /\ (state' = chip \/ state' = state)
      BY <2>5 DEF IrqSample, SampledState, hardware
    <3> QED BY <2>1, <3>1, <3>2 DEF RateFits
  <2>6. CASE OtherSample \/ OnlineRefresh
    <3>1. /\ UNCHANGED <<conv_rate, pm>> /\ (state' = chip \/ state' = state)
          /\ ~Busy
      BY <1>2, <2>6 DEF OtherSample, OnlineRefresh, SampledState, hardware, Overlaps, Orderly
    <3> QED BY <2>1, <2>2, <3>1 DEF RateFits
  <2>7. CASE Suspend
    BY <2>7 DEF Suspend, RateFits
  <2>8. CASE Resume
    <3>1. /\ ~Busy /\ state' = chip /\ conv_rate' = (conv_rate \/ chip.online)
      BY <1>2, <2>8 DEF Resume, Overlaps, Orderly
    <3> QED BY <2>1, <2>2, <3>1 DEF RateFits
  <2>9. CASE IrqsOff \/ IrqsOn
    <3>1. UNCHANGED <<conv_rate, state>> /\ pm' # "awake"
      BY <2>9 DEF IrqsOff, IrqsOn, hardware
    <3> QED BY <2>1, <3>1 DEF RateFits
  <2> QED BY <2>3, <2>4, <2>5, <2>6, <2>7, <2>8, <2>9 DEF Next, Irq
<1> QED BY <1>1, <1>2 DEF AdcInv

\* Under the same condition, and while EN_HIZ has never been used, periodic
\* conversions run exactly with an adapter, after resume as after replugs.
THEOREM AdcTracksCable == Spec => []AdcFollowsCable
<1>1. AdcInv => AdcFollowsCable
  BY DEF AdcInv, HizInv, AdcFollowsCable, Quiet, Orderly, RateFits, Busy, TypeOK, ChipStates
<1> QED BY <1>1, InitAdc, StepAdc, PTL DEF Spec

-----------------------------------------------------------------------------
(* ChargerPower *)

\* While neither Pump Express nor the regulator holds the second charger off, and
\* no access has failed, it is on: no overlap of the two loses the last switch.
THEOREM SecondaryIsBack == PSpec => []SecondaryComesBack
<1>1. PInit => SecondaryComesBack
  BY DEF PInit, SecondaryComesBack
<1>2. SecondaryComesBack /\ [PNext]_pvars => SecondaryComesBack'
  <2> SUFFICES ASSUME SecondaryComesBack, [PNext]_pvars PROVE SecondaryComesBack'
    OBVIOUS
  <2>1. CASE SupplierChanges \/ ExternalPower \/ SetInputCurrentLimit
    BY <2>1 DEF SecondaryComesBack, SupplierChanges, ExternalPower, ExternalPowerRead,
       ExternalPowerIgnored, ExternalPowerUnread, ExternalPowerType, ExternalPowerWrite,
       SetInputCurrentLimit, pump
  <2>2. CASE Pump
    BY <2>2 DEF SecondaryComesBack, Pump, PumpStart, PumpEnable, PumpMeasure, PumpPulse,
       PumpRestore, PumpError, Restored
  <2>3. CASE UsbNotifier \/ UsbWork
    BY <2>3 DEF SecondaryComesBack, UsbNotifier, UsbWork, UsbWorkBegin, UsbWorkSet, Otg,
       OtgFails, pump
  <2>4. CASE VbusAlreadyOn \/ VbusIsolate \/ VbusUnboost \/ Vbus
    BY <2>4 DEF SecondaryComesBack, VbusAlreadyOn, VbusIsolate, VbusUnboost, Vbus, VbusBoost,
       VbusRelease, Otg, OtgFails, pump
  <2>5. CASE UNCHANGED pvars
    BY <2>5 DEF SecondaryComesBack, pvars, pump
  <2> QED BY <2>1, <2>2, <2>3, <2>4, <2>5 DEF PNext
<1> QED BY <1>1, <1>2, PTL DEF PSpec

\* The boost at rest: with the USB work neither queued nor running, nothing written
\* by the regulator since and no access failed, it is what the last ID or NONE asked,
\* unless an event the work ignores was stored over that one (asked is "lost" then).
BoostSettled ==
  ~u_queued /\ u_event = "idle" /\ otg_by = "usb" /\ ~failed /\ asked # "lost"
    => otg = (asked = "id")

\* The ID or NONE that is still to be acted on: the one stored, or else the one read.
Due ==
  IF u_queued /\ usb_event \in Switching THEN usb_event
  ELSE IF u_event \in Switching THEN u_event ELSE "nothing"

\* What is due is what was asked last; with nothing due the boost is as asked.
BoostInv ==
  /\ asked \in Switching \cup {"lost"}
  /\ asked # "lost" /\ Due # "nothing" => Due = asked
  /\ asked # "lost" /\ Due = "nothing" /\ otg_by = "usb" /\ ~failed => otg = (asked = "id")

\* However the five USB events, the work that handles two of them and the regulator
\* overlap, an ID or NONE that is not overwritten before the work has read it is not
\* lost: the boost comes to rest as the last one asked (:4373, :4394).
THEOREM BoostSettles == PSpec => []BoostSettled
<1>1. PInit => BoostInv
  BY DEF PInit, BoostInv, Due, Switching
<1>2. BoostInv /\ [PNext]_pvars => BoostInv'
  <2> SUFFICES ASSUME BoostInv, [PNext]_pvars PROVE BoostInv'
    OBVIOUS
  <2>1. CASE SupplierChanges \/ ExternalPower \/ SetInputCurrentLimit
    <3>1. UNCHANGED <<usb, boost>> /\ (failed' = failed \/ failed')
      BY <2>1 DEF SupplierChanges, ExternalPower, ExternalPowerRead, ExternalPowerIgnored,
         ExternalPowerUnread, ExternalPowerType, ExternalPowerWrite, SetInputCurrentLimit
    <3> QED BY <3>1 DEF BoostInv, Due, usb, boost
  <2>2. CASE Pump
    <3>1. UNCHANGED <<usb, boost>> /\ (failed' = failed \/ failed')
      BY <2>2 DEF Pump, PumpStart, PumpEnable, PumpMeasure, PumpPulse, PumpRestore, PumpError
    <3> QED BY <3>1 DEF BoostInv, Due, usb, boost
  <2>3. CASE UsbNotifier
    <3>1. PICK e \in UsbEvents : usb_event' = e /\ Asks(e)
      BY <2>3 DEF UsbNotifier
    <3>2. u_queued' /\ UNCHANGED <<u_event, boost, failed>>
      BY <2>3 DEF UsbNotifier
    <3>3. CASE e \in Switching
      BY <3>1, <3>2, <3>3 DEF BoostInv, Due, Asks, Switching
    <3>4. CASE e \notin Switching
      BY <3>1, <3>2, <3>4 DEF BoostInv, Due, Asks, boost
    <3> QED BY <3>3, <3>4
  <2>4. CASE UsbWorkBegin
    BY <2>4 DEF BoostInv, Due, Switching, UsbWorkBegin, boost
  <2>5. CASE UsbWorkSet
    BY <2>5 DEF BoostInv, Due, Switching, UsbWorkSet, Otg, OtgFails, boost
  <2>6. CASE VbusAlreadyOn \/ VbusIsolate \/ VbusUnboost \/ Vbus
    BY <2>6 DEF BoostInv, Due, VbusAlreadyOn, VbusIsolate, VbusUnboost, Vbus,
       VbusBoost, VbusRelease, Otg, OtgFails, usb, boost
  <2>7. CASE UNCHANGED pvars
    BY <2>7 DEF BoostInv, Due, pvars, usb, boost
  <2> QED BY <2>1, <2>2, <2>3, <2>4, <2>5, <2>6, <2>7 DEF PNext, UsbWork
<1>3. BoostInv => BoostSettled
  BY DEF BoostInv, BoostSettled, Due, Switching
<1> QED BY <1>1, <1>2, <1>3, PTL DEF PSpec

\* The input limit at rest, on the BQ25892: with no change left to deliver and none
\* being handled, it is that of the supplier's type, unless there has been no change,
\* userspace has written one, or a read of the type or a write has failed.
LimitSettled ==
  chip_version = "BQ25892" /\ ~e_pending /\ e_type = "idle" /\ ~failed
    => iinlim \in {usb_type, "user", "dt"}

\* On the other chips the supplier's changes are not looked at: the limit is the
\* one of the device tree or of userspace.
LimitUnled == chip_version # "BQ25892" => e_type = "idle" /\ iinlim \in {"dt", "user"}

\* A change that is being handled has been read as the last one, or is to be
\* delivered again.
LimitInv ==
  /\ usb_type \in UsbTypes
  /\ e_type # "idle" /\ ~e_pending => e_type = usb_type
  /\ LimitUnled
  /\ LimitSettled

\* However the core coalesces a burst of changes, and whatever the handlers overlap
\* with, the limit comes to rest at the last type's on the one chip that follows the
\* supplier; on every other, this device's BQ25895 too, it never does (:3338).
THEOREM LimitSettles == PSpec => [](LimitSettled /\ LimitUnled)
<1>1. PInit => LimitInv
  BY DEF PInit, LimitInv, LimitSettled, LimitUnled
<1>2. LimitInv /\ [PNext]_pvars => LimitInv'
  <2> SUFFICES ASSUME LimitInv, [PNext]_pvars PROVE LimitInv'
    OBVIOUS
  <2>1. CASE SupplierChanges
    BY <2>1 DEF LimitInv, LimitSettled, LimitUnled, SupplierChanges, config
  <2>2. CASE ExternalPowerRead
    BY <2>2, PowerAssumption DEF LimitInv, LimitSettled, LimitUnled, ExternalPowerRead,
       ExternalPowerIgnored, ExternalPowerUnread, ExternalPowerType, config
  <2>3. CASE ExternalPowerWrite
    BY <2>3 DEF LimitInv, LimitSettled, LimitUnled, ExternalPowerWrite, WrittenLimit, config
  <2>4. CASE SetInputCurrentLimit
    BY <2>4 DEF LimitInv, LimitSettled, LimitUnled, SetInputCurrentLimit, config
  <2>5. CASE Pump
    BY <2>5 DEF LimitInv, LimitSettled, LimitUnled, Pump, PumpStart, PumpEnable, PumpMeasure, PumpPulse,
       PumpRestore, PumpError, supply, config
  <2>6. CASE UsbNotifier \/ UsbWork
    BY <2>6 DEF LimitInv, LimitSettled, LimitUnled, UsbNotifier, UsbWork, UsbWorkBegin, UsbWorkSet, Otg,
       OtgFails, supply, config
  <2>7. CASE VbusAlreadyOn \/ VbusIsolate \/ VbusUnboost \/ Vbus
    BY <2>7 DEF LimitInv, LimitSettled, LimitUnled, VbusAlreadyOn, VbusIsolate, VbusUnboost, Vbus,
       VbusBoost, VbusRelease, Otg, OtgFails, supply, config
  <2>8. CASE UNCHANGED pvars
    BY <2>8 DEF LimitInv, LimitSettled, LimitUnled, pvars, supply, config
  <2> QED BY <2>1, <2>2, <2>3, <2>4, <2>5, <2>6, <2>7, <2>8 DEF PNext, ExternalPower
<1>3. LimitInv => LimitSettled /\ LimitUnled
  BY DEF LimitInv
<1> QED BY <1>1, <1>2, <1>3, PTL DEF PSpec
=============================================================================
