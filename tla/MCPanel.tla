-------------------------------- MODULE MCPanel --------------------------------
(* Panel for TLC: every build, the profile of the initial sequence and two    *)
(* that write different registers, and three brightnesses.                    *)
EXTENDS Panel
=============================================================================
