------------------------------ MODULE TouchChips ------------------------------
(***************************************************************************)
(* The eight Hynitron backends at run time: what tp_set_workmode,          *)
(* tp_report, tp_get_dbg_data, tp_get_test_result and updata_tpinfo of     *)
(* each chip do to the driver's idea of the chip (work_mode, the address,  *)
(* report_need) and to the chip itself.  The calls come one after the      *)
(* other here; HynTouch interleaves them for the backend that is built,    *)
(* and TouchFirmware has the update's inside.                              *)
(*                                                                         *)
(* What a backend's function does is an operator from the state before it  *)
(* to the state after it.  bus is what of a call succeeds, the transfers   *)
(* that look whether the chip answers (ping) and those that tell it what   *)
(* to do (command): they reach the firmware only at its address and        *)
(* outside the boot loader.                                                *)
(***************************************************************************)
EXTENDS Naturals

\* The chips, those whose boot loader has an address of its own, and the modes the
\* tool can ask for (OTHER is any byte that names none).
Chips     == {"cst66xx", "cst3240", "cst36xxes", "cst3xx", "cst226se",
              "cst7xx", "cst8xxT", "cst92xx"}
BootApart == {"cst66xx", "cst36xxes", "cst7xx", "cst8xxT"}
Toggles   == {"GLOVE", "CHARGE"}
Modes     == {"NOMAL", "GESTURE", "LP", "DEEPSLEEP", "DIFF", "RAWDATA", "BASELINE",
              "CALIBRATE", "FAC_TEST", "ENTER_BOOT", "OTHER"} \cup Toggles

VARIABLES
  chip,      \* the backend in use
  st,        \* the driver's and the chip's state
  answer,    \* what the last read of the tool returned: "none", "data" or "fail"
  overBoot   \* history: a mode was set, or the chip suspended, over the boot mode

vars == <<chip, st, answer, overBoot>>

States ==
  [work : Modes,                                \* work_mode
   sure : BOOLEAN,                              \* the last tp_set_workmode returned 0, no reset since
   addr : {"main", "boot"},                     \* the I2C address in use
   irq  : BOOLEAN,                              \* irq_is_disable, 1 for enabled
   need : SUBSET {"pos", "key", "ges"},         \* report_need
   rep  : {"none", "up", "down"},               \* the fingers of rp_buf: rep_num 0, or whether one is down
   down : BOOLEAN,                              \* report_id_flg: the input device has a finger down
   dev  : {"normal", "gesture", "lp", "debug", "factory", "sleep", "boot", "info"}]

Init ==
  /\ chip \in Chips
  /\ st = [work |-> "NOMAL", sure |-> TRUE, addr |-> "main", irq |-> TRUE, need |-> {},
           rep |-> "none", down |-> FALSE, dev |-> "normal"]
  /\ answer = "none" /\ overBoot = FALSE

------------------------------------------------------------------------------
(* Commands, resets and the boot loader                                     *)

Hears(s) == s.dev # "boot" /\ (s.addr = "main" \/ chip \notin BootApart)

Transfers == {"ping", "command"}

\* The firmware gets the transfers t of a call.
Gets(s, t, bus) == t \in bus /\ Hears(s)

\* A command the chip takes when it gets it.
Tell(s, d, bus) == IF Gets(s, "command", bus) THEN [s EXCEPT !.dev = d] ELSE s

\* Mutant: the address stays the boot loader's.
RstBlind(s) == [s EXCEPT !.dev = "normal", !.sure = FALSE]

\* The reset pin; only the boot mode is left at its address.
Rst(s) ==
  [s EXCEPT !.dev = "normal", !.sure = FALSE,
            !.addr = IF s.work = "ENTER_BOOT" THEN "main" ELSE @]

\* enter_boot: the boot loader answers at its address after a reset.  That reset
\* goes back to the firmware's when the boot mode is entered a second time.
EnterBoot(s, bus) ==
  LET r == Rst([s EXCEPT !.addr = "boot"])
  IN IF "command" \in bus /\ (r.addr = "boot" \/ chip \notin BootApart)
     THEN [r EXCEPT !.dev = "boot"] ELSE r

\* work_mode is m, and the call returned whether the chip took the command.
Set(s, m, ok) == [s EXCEPT !.work = m, !.sure = ok]

IrqOn(s)  == [s EXCEPT !.irq = TRUE]
IrqOff(s) == [s EXCEPT !.irq = FALSE]

\* The mode the chip is in when the driver says m.
Doing(m) ==
  CASE m = "NOMAL" -> "normal"    [] m = "GESTURE" -> "gesture" [] m = "LP" -> "lp"
    [] m = "DEEPSLEEP" -> "sleep" [] m = "FAC_TEST" -> "factory"
    [] m = "ENTER_BOOT" -> "boot" [] OTHER -> "debug"

Command(s, m, bus) == Set(Tell(s, Doing(m), bus), m, Gets(s, "command", bus))
Boot(s, bus) ==
  LET b == EnterBoot(s, bus) IN Set(b, "ENTER_BOOT", b.dev = "boot")

\* The cases that most backends share.
Common(s, m, bus) ==
  CASE m = "NOMAL"      -> Command(IrqOn(s), m, bus)
    [] m = "DEEPSLEEP"  -> Command(IrqOff(s), m, bus)
    [] m = "ENTER_BOOT" -> Boot(s, bus)
    [] OTHER            -> Command(s, m, bus)

\* A mode the backend does not know: -2.
ToNormal(s) == Set(s, "NOMAL", FALSE)
Refused(s)  == [s EXCEPT !.sure = FALSE]

------------------------------------------------------------------------------
(* tp_set_workmode                                                          *)

\* Low power needs no command.
Mode3xx(s, m, bus) ==
  IF m \in {"BASELINE", "CALIBRATE", "OTHER"} \cup Toggles THEN ToNormal(s)
  ELSE IF m = "LP" THEN Set(s, m, TRUE) ELSE Common(s, m, bus)

\* As the cst3xx, but a factory test starts from a reset.
Mode3240(s, m, bus) ==
  IF m = "FAC_TEST" THEN Common(Rst(s), m, bus) ELSE Mode3xx(s, m, bus)

\* A soft reset before every mode, within Command.
Mode226se(s, m, bus) ==
  IF m \in {"LP", "BASELINE", "CALIBRATE", "OTHER"} \cup Toggles
  THEN ToNormal(s) ELSE Common(s, m, bus)

Mode66xx(s, m, bus) ==
  IF m = "OTHER" THEN ToNormal(s)
  ELSE IF m = "FAC_TEST" THEN Common(Rst(s), m, bus)
  ELSE IF m \in Toggles THEN s ELSE Common(s, m, bus)

\* The normal mode leaves the interrupt as it is.
Mode36xxes(s, m, bus) ==
  IF m = "OTHER" THEN Refused(s)
  ELSE IF m = "NOMAL" THEN Command(s, m, bus)
  ELSE Mode66xx(s, m, bus)

\* ret starts at -1, which the factory test and the boot mode never lift.
Mode7xx(s, m, bus) ==
  CASE m \in {"LP", "BASELINE", "CALIBRATE", "GLOVE", "OTHER"} -> Refused(s)
    [] m = "CHARGE"                    -> s
    [] m \in {"FAC_TEST", "ENTER_BOOT"} -> Refused(Common(s, m, bus))
    [] OTHER                           -> Common(s, m, bus)

\* A chip that does not answer is reset first.  The normal mode is a name without a
\* command, low power too, and the factory test returns 0 whatever the bus did.
Mode8xxT(s0, m, bus) ==
  LET s == IF Gets(s0, "ping", bus) THEN s0 ELSE Rst(s0)
  IN CASE m \in {"BASELINE", "CALIBRATE", "GLOVE", "OTHER"} -> Refused(s)
       [] m = "CHARGE"   -> s
       [] m = "NOMAL"    -> Set(IrqOn(s), m, TRUE)
       [] m = "LP"       -> Set(s, m, TRUE)
       [] m = "FAC_TEST" -> Set(Common(s, m, bus), m, TRUE)
       [] OTHER          -> Common(s, m, bus)

\* work_mode is set before anything else, so that the charge command switches it in
\* spite of its "not switch work mode"; sleep leaves the interrupt on.  What became of
\* the commands for sleep and for the factory test is dropped: the ping before them is
\* what is returned, and the boot loader answers it as well.
Mode92xx(s, m, bus) ==
  CASE m \in {"BASELINE", "CALIBRATE", "GLOVE", "OTHER"} -> ToNormal(s)
    [] m = "CHARGE"     -> Set(s, m, Gets(s, "command", bus))
    [] m \in {"DEEPSLEEP", "FAC_TEST"} -> Set(Tell(s, Doing(m), bus), m, "ping" \in bus)
    [] m = "ENTER_BOOT" -> Boot([s EXCEPT !.work = m], bus)
    [] OTHER            -> Common(s, m, bus)

SetMode(s, m, bus) ==
  CASE chip = "cst66xx"   -> Mode66xx(s, m, bus)
    [] chip = "cst3240"   -> Mode3240(s, m, bus)
    [] chip = "cst36xxes" -> Mode36xxes(s, m, bus)
    [] chip = "cst3xx"    -> Mode3xx(s, m, bus)
    [] chip = "cst226se"  -> Mode226se(s, m, bus)
    [] chip = "cst7xx"    -> Mode7xx(s, m, bus)
    [] chip = "cst8xxT"   -> Mode8xxT(s, m, bus)
    [] chip = "cst92xx"   -> Mode92xx(s, m, bus)

------------------------------------------------------------------------------
(* tp_report.  A frame f has keys, fingers and a gesture, or is bad: not read or *)
(* not adding up.  The proximity state is never enabled and is left out.     *)

Frames == [bad : BOOLEAN, key : BOOLEAN, ges : BOOLEAN, fingers : {"none", "up", "down"}]

\* Mutant: the claim of a free frame buffer does not ask whether it is free.
ClaimAlso(s, k) == [s EXCEPT !.need = @ \cup {k}]

\* report_need, when nothing else has it.
Claim(s, k) == IF s.need = {} THEN [s EXCEPT !.need = {k}] ELSE s

Gesture(s, f) == IF f.ges THEN [s EXCEPT !.need = @ \cup {"ges"}] ELSE s

\* Every frame starts from nothing; a key frame has no fingers.
Report3xx(s0, f) ==
  LET s == [s0 EXCEPT !.need = {}]
  IN CASE s.work = "NOMAL" /\ ~f.bad /\ f.key  -> Claim(s, "key")
       [] s.work = "NOMAL" /\ ~f.bad /\ ~f.key -> [Claim(s, "pos") EXCEPT !.rep = f.fingers]
       [] s.work = "GESTURE"                   -> Gesture(s, f)
       [] OTHER                                -> s

\* A key, then fingers, each if nothing is claimed; fingers that are all up count as none.
KeyThenFingers(s, f) ==
  LET k == IF f.key THEN Claim(s, "key") ELSE s
  IN IF f.fingers = "none" THEN k
     ELSE [Claim(k, "pos") EXCEPT !.rep = IF f.fingers = "up" THEN "none" ELSE "down"]

Report3240(s, f) ==
  CASE s.work = "NOMAL" /\ ~f.bad -> KeyThenFingers(s, f)
    [] s.work = "GESTURE"         -> Gesture(s, f)
    [] OTHER                      -> s

Report226se(s, f) == Report3240(s, f)

\* The frame says itself what it has, whatever the mode.
Report66xx(s, f) ==
  IF f.bad THEN s ELSE IF f.ges THEN Gesture(s, f) ELSE KeyThenFingers(s, f)

Report36xxes(s, f) == Report66xx(s, f)

\* The frame buffer is cleared before each frame, and a finger on a key's place is the key.
Report7xx(s0, f) ==
  LET s == [s0 EXCEPT !.need = {}, !.rep = "none"]
  IN IF f.bad THEN s
     ELSE IF s.work = "GESTURE" THEN Gesture(s, f)
     ELSE [s EXCEPT !.rep = f.fingers,
                    !.need = IF f.key THEN {"key"}
                             ELSE IF f.fingers # "none" THEN {"pos"} ELSE {}]

\* No fingers is a report too: it lifts them.
Report8xxT(s0, f) ==
  LET s == [s0 EXCEPT !.need = {}, !.rep = "none"]
  IN IF f.bad THEN s
     ELSE IF s.work = "GESTURE" THEN Gesture(s, f)
     ELSE [s EXCEPT !.rep = f.fingers, !.need = IF f.key THEN {"key"} ELSE {"pos"}]

\* A gesture may come with the fingers, and keeps them from being claimed.
Report92xx(s, f) ==
  IF f.bad THEN s
  ELSE LET g == Gesture(s, f)
           k == IF f.key THEN Claim(g, "key") ELSE g
       IN IF f.fingers = "none" THEN k ELSE [Claim(k, "pos") EXCEPT !.rep = f.fingers]

Report(s, f) ==
  CASE chip = "cst66xx"   -> Report66xx(s, f)
    [] chip = "cst3240"   -> Report3240(s, f)
    [] chip = "cst36xxes" -> Report36xxes(s, f)
    [] chip = "cst3xx"    -> Report3xx(s, f)
    [] chip = "cst226se"  -> Report226se(s, f)
    [] chip = "cst7xx"    -> Report7xx(s, f)
    [] chip = "cst8xxT"   -> Report8xxT(s, f)
    [] chip = "cst92xx"   -> Report92xx(s, f)

\* hyn_irq_report_work: the claimed fingers go to the input device, and the claim ends
\* when none is left down.
Deliver(s) ==
  IF "pos" \notin s.need THEN s
  ELSE IF s.rep = "down" THEN [s EXCEPT !.down = TRUE]
  ELSE [s EXCEPT !.down = FALSE, !.need = {}]

------------------------------------------------------------------------------
(* tp_get_dbg_data and tp_get_test_result: transfers, and what is returned of    *)
(* them.  reads is the set of those that succeeded.                            *)

Parts == 1 .. 3     \* mutual, receivers, transmitters; or open high, open low, short
Every(reads) == reads = Parts
DataIf(b) == IF b THEN "data" ELSE "fail"
Debugging(s) == s.work \in {"DIFF", "RAWDATA"}

Dbg3240(s, reads)  == DataIf(Debugging(s) /\ Every(reads))
Dbg226se(s, reads) == DataIf(Debugging(s) /\ Every(reads))     \* one transfer for all
Dbg92xx(s, reads)  == DataIf(Debugging(s) /\ Every(reads))
Dbg8xxT(s, reads)  == DataIf(Debugging(s) /\ Every(reads))
Dbg36xxes(s, reads) == DataIf(Every(reads))

Dbg66xx(s, reads) == DataIf(Every(reads))
Dbg7xx(s, reads) == "data"                                     \* len, read or not

Dbg(s, reads) ==
  CASE chip = "cst66xx"   -> Dbg66xx(s, reads)
    [] chip = "cst3240"   -> Dbg3240(s, reads)
    [] chip = "cst36xxes" -> Dbg36xxes(s, reads)
    [] chip = "cst3xx"    -> "none"
    [] chip = "cst226se"  -> Dbg226se(s, reads)
    [] chip = "cst7xx"    -> Dbg7xx(s, reads)
    [] chip = "cst8xxT"   -> Dbg8xxT(s, reads)
    [] chip = "cst92xx"   -> Dbg92xx(s, reads)

\* These two read a frame as well, which nobody delivers.
ReadsFrame == chip \in {"cst66xx", "cst36xxes"}

\* tp_resum
Resum(s, bus) == SetMode(Rst(s), "NOMAL", bus)

\* A test ends with the chip resumed (s), and returned ret.
Tested(s, ret) == [st |-> s, ret |-> ret]

Test3240(s, reads, bus)  == Tested(Resum(s, bus), DataIf(Every(reads)))
Test226se(s, reads, bus) == Tested(Resum(s, bus), DataIf(Every(reads)))
Test92xx(s, reads, bus)  == Tested(Resum(s, bus), DataIf(Every(reads)))

\* ret is FAC_GET_DATA_FAIL from the start and nothing lifts it.
Test66xx(s, reads, bus) == Tested(Resum(s, bus), "fail")

\* The fourth reading's failure returns the status before it, which may be 0; a chip
\* that does not take the command after the reset is left there.
Test36xxes(s, reads, bus) ==
  IF ~Every(reads) THEN Tested(Resum(s, bus), "fail")
  ELSE IF Gets(s, "command", bus) THEN Tested(Resum(s, bus), "data") ELSE Tested(Rst(s), "fail")

\* The chip stays in the test.
Test7xx(s, reads, bus)  == Tested(s, DataIf(Every(reads)))
Test8xxT(s, reads, bus) == Tested(s, DataIf(Every(reads)))

Test(s, reads, bus) ==
  CASE chip = "cst66xx"   -> Test66xx(s, reads, bus)
    [] chip = "cst3240"   -> Test3240(s, reads, bus)
    [] chip = "cst36xxes" -> Test36xxes(s, reads, bus)
    [] chip = "cst3xx"    -> Tested(s, "data")
    [] chip = "cst226se"  -> Test226se(s, reads, bus)
    [] chip = "cst7xx"    -> Test7xx(s, reads, bus)
    [] chip = "cst8xxT"   -> Test8xxT(s, reads, bus)
    [] chip = "cst92xx"   -> Test92xx(s, reads, bus)

------------------------------------------------------------------------------
(* updata_tpinfo, where a successful update ends                               *)

TpInfo66xx(s, bus)   == SetMode(s, "NOMAL", bus)
TpInfo36xxes(s, bus) == SetMode(s, "NOMAL", bus)
TpInfo3240(s, bus)   == SetMode(Tell(s, "info", bus), "NOMAL", bus)
TpInfo226se(s, bus)  == SetMode(Tell(s, "info", bus), "NOMAL", bus)

\* The mode with the information is left by the next reset only.
TpInfo3xx(s, bus) == Tell(s, "info", bus)

\* Asked eight times after a mode that does not exist; NOMAL only when it was told.
TpInfo92xx(s, bus) ==
  LET i == Tell(SetMode(s, "OTHER", bus), "info", bus)
  IN {i} \cup (IF "command" \in bus THEN {SetMode(i, "NOMAL", bus)} ELSE {})

TpInfo(s, bus) ==
  CASE chip = "cst66xx"   -> {TpInfo66xx(s, bus)}
    [] chip = "cst3240"   -> {TpInfo3240(s, bus)}
    [] chip = "cst36xxes" -> {TpInfo36xxes(s, bus)}
    [] chip = "cst3xx"    -> {TpInfo3xx(s, bus)}
    [] chip = "cst226se"  -> {TpInfo226se(s, bus)}
    [] chip \in {"cst7xx", "cst8xxT"} -> {s}
    [] chip = "cst92xx"   -> TpInfo92xx(s, bus)

------------------------------------------------------------------------------

Quiet == UNCHANGED <<chip, answer>>

\* SET_WORK_MODE of the tool, "mode" of hyn_dbg_store, hynswitchmode.
ToolMode(m, bus) ==
  /\ st' = SetMode(st, m, bus)
  /\ overBoot' = (overBoot \/ (st.work = "ENTER_BOOT" /\ st'.work # "ENTER_BOOT"
                               /\ st'.addr = "boot"))
  /\ Quiet

\* RESET_IC
ToolReset == st' = Rst(st) /\ UNCHANGED overBoot /\ Quiet

\* hyn_suspend with tp_supend, the panel's callback.
Suspend(bus) ==
  /\ st' = SetMode(IrqOff(st), "DEEPSLEEP", bus)
  /\ overBoot' = (overBoot \/ st.work = "ENTER_BOOT")
  /\ Quiet

\* hyn_resum_work: claimed fingers are lifted and the claim ends.
Resume(bus) ==
  /\ st' = [IrqOn(Resum(st, bus)) EXCEPT !.need = {},
                                         !.down = @ /\ "pos" \notin st.need]
  /\ UNCHANGED overBoot /\ Quiet

\* The interrupt thread, except where it only wakes the tool.
Interrupt(f) ==
  /\ st.irq /\ st.work \notin {"DIFF", "RAWDATA", "BASELINE", "CALIBRATE", "FAC_TEST"}
  /\ ~f.bad => st.dev \in {"normal", "gesture", "lp"} /\ st.addr = "main"
  /\ st' = IF f.bad THEN Report(st, f) ELSE Deliver(Report(st, f))
  /\ UNCHANGED overBoot /\ Quiet

\* hyn_proc_tool_read in a debug mode and in the factory test; known says that the
\* numbers of the sensor's lines have been read, without which no test ends.
ToolDebug(reads, f) ==
  /\ st.work \in {"DIFF", "RAWDATA", "BASELINE", "CALIBRATE"}
  /\ answer' = Dbg(st, reads)
  /\ st' = IF ReadsFrame /\ answer' = "data" THEN Report(st, f) ELSE st
  /\ UNCHANGED <<chip, overBoot>>

ToolTest(reads, bus, known) ==
  /\ st.work = "FAC_TEST"
  /\ LET t == IF known THEN Test(st, reads, bus) ELSE Tested(st, "fail")
     IN st' = t.st /\ answer' = t.ret
  /\ UNCHANGED <<chip, overBoot>>

\* UPDATA_END of tp_updata_fw, which returned ok.
Updated(ok, bus) ==
  /\ LET s == Rst([st EXCEPT !.addr = "main"])
     IN \E t \in IF ok THEN TpInfo(s, bus) ELSE {s} : st' = IrqOn(t)
  /\ overBoot' = FALSE
  /\ Quiet

Next ==
  \/ ToolReset
  \/ \E bus \in SUBSET Transfers :
       \/ \E m \in Modes : ToolMode(m, bus)
       \/ Suspend(bus) \/ Resume(bus)
       \/ \E reads \in SUBSET Parts, known \in BOOLEAN : ToolTest(reads, bus, known)
       \/ \E ok \in BOOLEAN : Updated(ok, bus)
  \/ \E f \in Frames : Interrupt(f) \/ \E reads \in SUBSET Parts : ToolDebug(reads, f)

Spec == Init /\ [][Next]_vars

------------------------------------------------------------------------------
(* Properties                                                                  *)

\* "Mutually exclusive reporting of coordinates and keys": report_need never asks for
\* both, in whatever order frames, debug reads and resumes come; and on the backends
\* that do not clear it themselves a finger that is down stays claimed, so that a
\* resume lifts it.  (On the cst3xx, cst7xx and cst8xxT a bad frame loses the claim.)
ClaimsExclude ==
  /\ ~({"pos", "key"} \subseteq st.need)
  /\ st.down /\ chip \notin {"cst3xx", "cst7xx", "cst8xxT"} => "pos" \in st.need

\* The driver talks to the boot loader's address only in the boot mode, and finds the
\* firmware again after it, unless a mode was set over it or the panel went while it
\* was set: then no reset goes back, and touch is gone until a firmware update.
AddressFollowsMode ==
  st.addr = "boot" /\ chip \in BootApart => st.work = "ENTER_BOOT" \/ overBoot

\* When the driver is told that a mode was set, the chip is in it, after any sequence
\* of modes, tests, updates and lost transfers.  Not for the modes a backend sets
\* without a command, nor for those of the cst92xx whose command's result is dropped
\* (sleep, factory test) or is not one of a mode (charge).
ModeIsReal ==
  st.sure =>
    \/ st.dev = Doing(st.work)
    \/ st.work = "LP" /\ chip \in {"cst3xx", "cst3240"}
    \/ chip = "cst8xxT" /\ st.work \in {"NOMAL", "LP", "FAC_TEST"}
    \/ chip = "cst92xx" /\ st.work \in {"CHARGE", "FAC_TEST", "DEEPSLEEP"}

\* What the driver says of the chip, its mode and its address, is so.
DriverKnowsChip == ModeIsReal /\ AddressFollowsMode
==============================================================================
