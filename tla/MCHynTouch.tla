------------------------------- MODULE MCHynTouch -------------------------------
(* HynTouch for TLC: one finger, keys, and two operations of the user.        *)
EXTENDS HynTouch
=============================================================================
