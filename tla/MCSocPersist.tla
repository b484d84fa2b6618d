----------------------------- MODULE MCSocPersist -----------------------------
(* SocPersist with two savers (cron and the shutdown service) and SOCs on   *)
(* both sides of the two limits, 15 points apart and 15 percent.            *)
EXTENDS SocPersist

CONSTANTS cron, shutdown

MCLevels == {0, 15, 30}
MCSavers == {cron, shutdown}
=============================================================================
