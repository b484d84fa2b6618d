--------------------------- MODULE MCTouchFirmware ---------------------------
(* Images of three packets, one power cut, every backend.                      *)
EXTENDS TouchFirmware
==============================================================================
