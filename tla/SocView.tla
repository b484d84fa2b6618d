------------------------------- MODULE SocView -------------------------------
(***************************************************************************)
(* What the fuel gauge promises to everything outside bq->lock: the SOC it *)
(* publishes, whether it is valid, and the power state of the same sample. *)
(* FuelGauge implements it; FuelGaugeThreads is built on it.               *)
(***************************************************************************)
EXTENDS Integers

CONSTANTS
  Socs,          \* values the SOC can be published with
  VbusSteady     \* both VBUSV reads of a sample return the same side of 4 V

ASSUME SocsAssumption == Socs \subseteq 0..100 /\ Socs # {}
ASSUME VbusAssumption == VbusSteady \in BOOLEAN

VARIABLES capacity_cache, capacity_valid, last_ext_pwr, last_charging

view == <<capacity_cache, capacity_valid, last_ext_pwr, last_charging>>

ViewInit ==
  /\ capacity_cache = 0 /\ capacity_valid = FALSE
  /\ last_ext_pwr = FALSE /\ last_charging = FALSE

\* A successful bq25890_sample_and_update_fg: SOC and power state change
\* together, in one critical section.
PublishSample ==
  /\ capacity_cache' \in Socs /\ capacity_valid' = TRUE
  /\ last_ext_pwr' \in BOOLEAN /\ last_charging' \in BOOLEAN
  /\ (VbusSteady /\ last_charging') => last_ext_pwr'

\* A write of coulomb_uah publishes at once and leaves the power state.
PublishWrite ==
  /\ capacity_cache' \in Socs /\ capacity_valid' = TRUE
  /\ UNCHANGED <<last_ext_pwr, last_charging>>

\* A write of reset_soc withdraws the SOC; 0 is stored in its place.
Withdraw ==
  /\ capacity_cache' = 0 /\ capacity_valid' = FALSE
  /\ UNCHANGED <<last_ext_pwr, last_charging>>

ViewNext == PublishSample \/ PublishWrite \/ Withdraw

ViewSpec == ViewInit /\ [][ViewNext]_view
=============================================================================
