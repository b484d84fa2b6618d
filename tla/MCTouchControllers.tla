---------------------------- MODULE MCTouchControllers ----------------------------
(* build.sh builds one of the two touch drivers: fts for PANEL=548, hyn_driver_release_qm *)
(* for the others.  Each has its controllers; the driver that is not built stands still.  *)
EXTENDS TouchChips, FocalTouch

VARIABLE fts   \* PANEL=548

allVars == <<vars, fvars, fts>>

MCInit ==
  /\ fts \in BOOLEAN
  /\ Init /\ (fts => chip = "cst66xx")
  /\ FInit /\ (~fts => build = [gestures |-> TRUE, family |-> "5x46"])

MCNext ==
  /\ UNCHANGED fts
  /\ \/ ~fts /\ Next /\ UNCHANGED fvars
     \/ fts /\ FNext /\ UNCHANGED vars

MCSpec == MCInit /\ [][MCNext]_allVars
===================================================================================
