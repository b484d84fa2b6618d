----------------------------- MODULE MCFuelGauge -----------------------------
(* FuelGauge on a 100 uAh cell: one percent is one uAh, an empty and a    *)
(* 60 % OCV reading, an INA228 step that is no whole number of uAh.         *)
EXTENDS FuelGauge

MCOcvPcts == {0, 60}
MCMoves == {-34400, 0, 34400}
MCProxyDrops == {34}
MCRestDrops == {10}
=============================================================================
