------------------------------ MODULE MCDaemons ------------------------------
(* The two daemons of the user's session, which share nothing: one runs and   *)
(* the other stands still.  The button daemon has a limit of nine polls       *)
(* instead of 400, so that every release around it, the debounce and the      *)
(* settle time fit, one lost write and one failed read.                       *)
EXTENDS Buttons, Autorotation

VARIABLE rotation   \* the autorotation service is the one that runs

allVars == <<bvars, rvars, rotation>>

OfButtons(A) == ~rotation /\ A /\ UNCHANGED <<rvars, rotation>>
OfRotation(A) == rotation /\ A /\ UNCHANGED <<bvars, rotation>>

MCInit ==
  /\ rotation \in BOOLEAN
  /\ BInit /\ (rotation => owner = "none")
  /\ RInit /\ (~rotation => /\ tilt = "normal" /\ ~up /\ screen = "normal"
                            /\ lock_file = "none")

MCNext == OfButtons(BNext) \/ OfRotation(RNext)

\* The fairness of BSpec and of RSpec, each while its daemon is the one that runs.
MCSpec ==
  /\ MCInit /\ [][MCNext]_allVars
  /\ WF_allVars(OfButtons(Pass)) /\ WF_allVars(OfButtons(Thread))
  /\ WF_allVars(OfButtons(Unload)) /\ WF_allVars(OfButtons(Lines))
  /\ WF_allVars(OfButtons(Uinput)) /\ WF_allVars(OfButtons(Restart))
  /\ WF_allVars(OfRotation(Locking)) /\ WF_allVars(OfRotation(Looping))
  /\ WF_allVars(OfRotation(Decide)) /\ WF_allVars(OfRotation(CoolsDown))
  /\ WF_allVars(OfRotation(Restarts))
==============================================================================
