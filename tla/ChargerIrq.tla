------------------------------ MODULE ChargerIrq ------------------------------
(***************************************************************************)
(* Charger control of battery/bq25890_battery.c: what the IRQ thread does  *)
(* to the high-impedance bit (EN_HIZ) and the ADC rate (CONV_RATE) when    *)
(* the cable or the charge status changes, beside the steps that write the *)
(* same fields: a write of POWER_SUPPLY_PROP_ONLINE, the samples of other  *)
(* threads, suspend and resume.                                            *)
(*                                                                         *)
(* bq25890_state is reduced to the three fields the IRQ thread decides     *)
(* from: `online' (PG_STAT), `hiz' (EN_HIZ) and `chrg', which stands for   *)
(* vbus_gd and chrg_status together.  The IRQ thread holds bq->lock from   *)
(* IrqRead until it samples or is done; the field writes of the ONLINE     *)
(* property and of suspend take no lock.                                   *)
(***************************************************************************)
EXTENDS Naturals

CONSTANT BusFails  \* a field write of the IRQ thread may fail

ASSUME BusAssumption == BusFails \in BOOLEAN

VARIABLES
  chip,        \* the chip's own state: what get_chip_state would read now
  conv_rate,   \* the CONV_RATE bit: periodic ADC conversions
  intr,        \* a falling edge of INT the IRQ thread has not taken yet
  state,       \* bq->state
  force_hiz,   \* bq->force_hiz
  i_pc,        \* bq25890_irq_handler_thread
  new_state,   \* its local copy of the chip's state
  u_pc, u_hiz, \* a write of ONLINE and the EN_HIZ value it asks for
  pm,          \* "awake", "suspending", "suspended" (IRQs off), "resuming"
  raced,       \* history bit: something overlapped an unfinished interrupt
  bus_failed,  \* history bit: the IRQ thread lost an interrupt to an error
  hiz_used     \* history bit: userspace has asked for EN_HIZ

hardware == <<chip, conv_rate, intr>>
irq      == <<i_pc, new_state>>
user     == <<u_pc, u_hiz>>
history  == <<raced, bus_failed, hiz_used>>
vars == <<hardware, state, force_hiz, irq, user, pm, history>>

ChipStates == [online : BOOLEAN, hiz : BOOLEAN, chrg : BOOLEAN]

\* Is bq->lock free?  Only the IRQ thread keeps it over several steps here.
LockFree == i_pc \in {"idle", "sample"}

\* An interrupt has been raised and the IRQ thread is not through with it.
Busy == intr \/ i_pc # "idle"

\* A step of another thread, and an event of the cable, during an interrupt;
\* the cable may also move between the two halves of a write of ONLINE.
Overlaps == raced' = (raced \/ Busy) /\ UNCHANGED bus_failed
CableOverlaps ==
  /\ raced' = (raced \/ Busy \/ u_pc = "remember")
  /\ UNCHANGED <<bus_failed, hiz_used>>

\* Periodic conversions are wanted with an adapter that feeds the chip.
AdcWanted(s) == s.online /\ ~s.hiz

-----------------------------------------------------------------------------
(* The cable and the charger *)

\* Plugging in clears EN_HIZ: "the chip does not retain this bit on cable
\* replug".
Plug ==
  /\ ~chip.online
  /\ chip' \in {[online |-> TRUE, hiz |-> FALSE, chrg |-> c] : c \in BOOLEAN}
  /\ intr' = TRUE
  /\ CableOverlaps
  /\ UNCHANGED <<conv_rate, state, force_hiz, irq, user, pm>>

Unplug ==
  /\ chip.online
  /\ chip' \in {[chip EXCEPT !.online = FALSE, !.chrg = c] : c \in BOOLEAN}
  /\ intr' = TRUE
  /\ CableOverlaps
  /\ UNCHANGED <<conv_rate, state, force_hiz, irq, user, pm>>

\* The charge status changes: charging starts, terminates, or faults.
ChargeStatus ==
  /\ chip' = [chip EXCEPT !.chrg = ~@]
  /\ intr' = TRUE
  /\ CableOverlaps
  /\ UNCHANGED <<conv_rate, state, force_hiz, irq, user, pm>>

-----------------------------------------------------------------------------
(* bq25890_irq_handler_thread *)

Lost == bus_failed' = TRUE /\ UNCHANGED <<raced, hiz_used>>

\* The thread takes the lock and reads the chip; a state that is not new
\* ends the interrupt, and so does a read that fails.
IrqRead ==
  /\ i_pc = "idle" /\ intr /\ pm # "suspended"
  /\ intr' = FALSE
  /\ new_state' = chip
  /\ \/ /\ i_pc' = IF chip = state THEN "idle" ELSE "restore"
        /\ UNCHANGED history
     \/ /\ BusFails
        /\ i_pc' = "idle" /\ Lost
  /\ UNCHANGED <<chip, conv_rate, state, force_hiz, user, pm>>

\* Mutant: the bit is restored on every interrupt with the adapter present
\* but the one that reports its arrival.
ArrivedLate(s, old) == s.online /\ old.online

\* "Restore HiZ bit in case it was set by user": when the adapter arrives.
Arrived(s, old) == s.online /\ ~old.online

IrqRestore ==
  /\ i_pc = "restore"
  /\ IF Arrived(new_state, state) /\ force_hiz
     THEN /\ chip' = [chip EXCEPT !.hiz = TRUE]
          /\ new_state' = [new_state EXCEPT !.hiz = TRUE]
     ELSE UNCHANGED <<chip, new_state>>
  /\ i_pc' = "adc"
  /\ UNCHANGED <<conv_rate, intr, state, force_hiz, user, pm, history>>

\* A change of cable or charge status samples, and drops the lock for it.
Samples == new_state.chrg # state.chrg

\* Mutant: the rate is set when conversions start to be wanted, and never
\* cleared.
AdcRateOnlyRaised ==
  conv_rate' = (conv_rate \/ (AdcWanted(new_state) /\ ~AdcWanted(state)))

\* "Should period ADC sampling be enabled?": written when the answer changes.
AdcRate ==
  conv_rate' = IF AdcWanted(new_state) # AdcWanted(state)
               THEN AdcWanted(new_state) ELSE conv_rate

IrqAdc ==
  /\ i_pc = "adc"
  /\ AdcRate
  /\ state' = new_state
  /\ i_pc' = IF Samples THEN "sample" ELSE "idle"
  /\ UNCHANGED <<chip, intr, force_hiz, new_state, user, pm, history>>

\* A field write fails: the cached state stays as it was.
IrqError ==
  /\ BusFails
  /\ \/ i_pc = "restore" /\ Arrived(new_state, state) /\ force_hiz
     \/ i_pc = "adc" /\ AdcWanted(new_state) # AdcWanted(state)
  /\ i_pc' = "idle" /\ Lost
  /\ UNCHANGED <<hardware, state, force_hiz, new_state, user, pm>>

-----------------------------------------------------------------------------
(* bq25890_sample_and_update_fg, as far as it touches the chip state *)

\* Mutant: the sample keeps the state it finds.
SampledStateKept == state
SampledState == chip

\* The IRQ thread's own sample, after which it takes the lock back, notifies
\* and returns.
IrqSample ==
  /\ i_pc = "sample"
  /\ state' \in {SampledState, state}
  /\ i_pc' = "idle"
  /\ UNCHANGED <<hardware, force_hiz, new_state, user, pm, history>>

\* The sample of a worker or of a property reader.
OtherSample ==
  /\ LockFree /\ pm # "suspended"
  /\ state' = SampledState
  /\ Overlaps
  /\ UNCHANGED <<hardware, force_hiz, irq, user, pm, hiz_used>>

-----------------------------------------------------------------------------
(* bq25890_power_supply_set_property, POWER_SUPPLY_PROP_ONLINE *)

\* EN_HIZ is written first, without the lock.
OnlineWrite ==
  /\ u_pc = "idle" /\ pm = "awake"
  /\ u_hiz' \in BOOLEAN
  /\ chip' = [chip EXCEPT !.hiz = u_hiz']
  /\ u_pc' = "remember"
  /\ Overlaps
  /\ hiz_used' = (hiz_used \/ u_hiz')
  /\ UNCHANGED <<conv_rate, intr, state, force_hiz, irq, pm>>

\* force_hiz follows when the write has succeeded.
OnlineRemember ==
  /\ u_pc = "remember"
  /\ force_hiz' = u_hiz
  /\ u_pc' = "refresh"
  /\ Overlaps
  /\ UNCHANGED <<hardware, state, irq, u_hiz, pm, hiz_used>>

\* update_state samples when the last sample is older than a second.
OnlineRefresh ==
  /\ u_pc = "refresh" /\ LockFree
  /\ state' \in {SampledState, state}
  /\ u_pc' = "idle"
  /\ Overlaps
  /\ UNCHANGED <<hardware, force_hiz, irq, u_hiz, pm, hiz_used>>

-----------------------------------------------------------------------------
(* Suspend and resume *)

\* bq25890_suspend: user tasks are frozen, interrupts still arrive.
Suspend ==
  /\ pm = "awake" /\ u_pc = "idle"
  /\ conv_rate' = FALSE
  /\ pm' = "suspending"
  /\ Overlaps
  /\ UNCHANGED <<chip, intr, state, force_hiz, irq, user, hiz_used>>

\* The PM core waits for running IRQ threads and masks the line; on the way
\* back it unmasks the line before it calls bq25890_resume.
IrqsOff ==
  /\ pm = "suspending" /\ i_pc = "idle"
  /\ pm' = "suspended"
  /\ UNCHANGED <<hardware, state, force_hiz, irq, user, history>>

IrqsOn ==
  /\ pm = "suspended"
  /\ pm' = "resuming"
  /\ UNCHANGED <<hardware, state, force_hiz, irq, user, history>>

\* bq25890_resume: EN_HIZ is not looked at.
Resume ==
  /\ pm = "resuming" /\ LockFree
  /\ pm' = "awake"
  /\ state' = chip
  /\ conv_rate' = (conv_rate \/ chip.online)
  /\ Overlaps
  /\ UNCHANGED <<chip, intr, force_hiz, irq, user, hiz_used>>

-----------------------------------------------------------------------------
\* bq25890_hw_init: the state is read and CONV_RATE follows it.
Init ==
  /\ chip \in {s \in ChipStates : ~s.hiz}
  /\ state = chip
  /\ conv_rate = AdcWanted(chip)
  /\ intr = FALSE /\ force_hiz = FALSE
  /\ i_pc = "idle" /\ new_state = chip
  /\ u_pc = "idle" /\ u_hiz = FALSE
  /\ pm = "awake"
  /\ raced = FALSE /\ bus_failed = FALSE /\ hiz_used = FALSE

Cable == Plug \/ Unplug \/ ChargeStatus
Irq   == IrqRead \/ IrqRestore \/ IrqAdc \/ IrqSample

Next ==
  \/ Cable
  \/ Irq \/ IrqError
  \/ OtherSample
  \/ OnlineWrite \/ OnlineRemember \/ OnlineRefresh
  \/ Suspend \/ IrqsOff \/ IrqsOn \/ Resume

\* The kernel runs a woken IRQ thread; the periodic worker samples again.
Fairness ==
  /\ WF_vars(Irq)
  /\ SF_vars(OtherSample)

Spec == Init /\ [][Next]_vars /\ Fairness

-----------------------------------------------------------------------------
(* Properties. *)

TypeOK ==
  /\ chip \in ChipStates /\ state \in ChipStates /\ new_state \in ChipStates
  /\ conv_rate \in BOOLEAN /\ intr \in BOOLEAN /\ force_hiz \in BOOLEAN
  /\ i_pc \in {"idle", "restore", "adc", "sample"}
  /\ u_pc \in {"idle", "remember", "refresh"} /\ u_hiz \in BOOLEAN
  /\ pm \in {"awake", "suspending", "suspended", "resuming"}
  /\ raced \in BOOLEAN /\ bus_failed \in BOOLEAN /\ hiz_used \in BOOLEAN

\* Nothing is under way.
Quiet == ~Busy /\ u_pc = "idle" /\ pm = "awake" /\ ~bus_failed

\* As long as every interrupt has been handled before anything else touched
\* the charger, the chip is in high impedance exactly when userspace asked
\* for it, over any number of replugs, suspends and charge status changes.
HizAsAsked ==
  Quiet /\ ~raced /\ chip.online => (chip.hiz <=> force_hiz)

\* Under the same condition, and while EN_HIZ has never been used, periodic
\* conversions run exactly with an adapter, after resume as after replugs.
AdcFollowsCable ==
  Quiet /\ ~raced /\ ~hiz_used => (conv_rate <=> chip.online)

\* An interrupt that was lost to a bus error, or overtaken by a sample, does
\* not leave bq->state wrong for ever: when the cable is left alone and the
\* system does not sleep for good, the cached state becomes the chip's.
StateConverges ==
  <>[][UNCHANGED chip]_vars /\ []<>(pm = "awake") => <>[](state = chip)

=============================================================================
