----------------------------- MODULE MCChargerIrq -----------------------------
(* ChargerIrq is finite as it stands: one chip, one IRQ thread, one writer  *)
(* of ONLINE, any number of replugs, samples and suspends.                  *)
EXTENDS ChargerIrq
=============================================================================
