---------------------------- MODULE MCChargerPower ----------------------------
(* ChargerPower for TLC: one pulse sequence shows the loop going round and  *)
(* ending; a port that can raise its voltage and one that cannot.           *)
EXTENDS ChargerPower
=============================================================================
