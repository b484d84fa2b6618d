------------------------- MODULE MCFuelGaugeThreads -------------------------
(* FuelGaugeThreads with two SOC values besides the 0 of an invalid cache. *)
EXTENDS FuelGaugeThreads

MCSocs == {40, 80}
=============================================================================
