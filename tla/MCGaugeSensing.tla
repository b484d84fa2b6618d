--------------------------- MODULE MCGaugeSensing ---------------------------
(* GaugeSensing on a 2 Ah cell: a floor reading, a sagging, a middle and a  *)
(* full voltage; discharge, charge and rest currents; a plug and an unplug. *)
EXTENDS GaugeSensing

Reading(code, ua, temp, ichgr, x, done) ==
  [code |-> code, ina |-> ua, temp |-> temp, ichgr |-> ichgr, ext |-> x, done |-> done]

MCSamples ==
  {Reading(0, 120000, 3200, 0, FALSE, FALSE), Reading(43, 40000, 3200, 0, FALSE, FALSE),
   Reading(64, 1000, 6400, 0, FALSE, FALSE), Reading(90, 3000, -10, 0, FALSE, FALSE),
   Reading(64, -80001, 3200, 20, TRUE, FALSE), Reading(94, -500, 4800, 1, TRUE, TRUE),
   Reading(1, -2000, 3200, 1, TRUE, FALSE)}
MCGaps == {1, 30, 400}
MCSeeds == {-1, 300000, 2000000}
MCAsked == {<<"ICHG", 2000000>>, <<"ICHG", 9000000>>, <<"VREG", 4200000>>, <<"IINLIM", 149999>>}
=============================================================================
