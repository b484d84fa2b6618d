--------------------------- MODULE MCDriverLifecycle ---------------------------
(* DriverLifecycle for TLC: with a phy, so that the notifier takes part.      *)
EXTENDS DriverLifecycle
=============================================================================
