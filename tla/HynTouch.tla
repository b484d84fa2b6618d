-------------------------------- MODULE HynTouch --------------------------------
(***************************************************************************)
(* The Hynitron touch driver at run time: hyn_core.c with the CST66xx      *)
(* backend, as it is built for this machine (panel follower, no gestures,  *)
(* proximity or ESD work).  Five threads share the driver's state:         *)
(*                                                                         *)
(*   probe  the last part of hyn_ts_probe                                  *)
(*   panel  the panel's follower callbacks, which DRM serialises           *)
(*   work   work_resume on the driver's single-threaded workqueue          *)
(*   tool   a holder of mutex_fs: hyntpdbg in sysfs, or the tool's file    *)
(*   mode   a writer of hynswitchmode, which takes no lock                 *)
(*                                                                         *)
(* beside the interrupt thread, whose state is handler.  A step is what a  *)
(* thread does up to the next place where another one matters.  A call of  *)
(* hyn_irq_set is in steps of its own, kept in call: it tests the driver's *)
(* irq_is_disable, changes the kernel's count, and then sets the flag.     *)
(* The chip, which shares the panel's supply, and its I2C bus are external.*)
(***************************************************************************)
EXTENDS Naturals, FiniteSets

CONSTANTS
  Fingers,   \* the slots the chip reports
  MaxOps     \* bound: how many operations tool and mode begin

ASSUME TouchAssumption ==
  IsFiniteSet(Fingers) /\ MaxOps \in Nat

Threads == {"probe", "panel", "work", "tool", "mode"}
Modes == {"NOMAL", "DIFF", "DEEPSLEEP", "ENTER_BOOT"}

VARIABLES
  suspended,  \* state_is_sunpend
  enabled,    \* irq_is_disable, which is 1 for enabled
  depth,      \* the kernel's count of disable_irq
  call,       \* where each thread is in hyn_irq_set
  pc,         \* where each thread is
  panel,      \* the panel is prepared, as the follower is told
  pending,    \* work_resume is queued
  handler,    \* the interrupt thread
  waits,      \* the works its flush_workqueue waits for
  workMode,   \* work_mode
  saved,      \* the work_mode that a switch of the glove mode has read
  chip,       \* the chip's state
  rep, need,  \* rp_buf: the last frame, and report_need
  down,       \* report_id_flg, the fingers the input device has down
  ops,        \* how many operations tool and mode have begun
  crossed,    \* history: two calls of hyn_irq_set have overlapped
  asked,      \* history: the tool has queued work_resume
  meddled     \* history: tool or probe has run since the last hyn_suspend began

vars == <<suspended, enabled, depth, call, pc, panel, pending, handler, waits,
          workMode, saved, chip, rep, need, down, ops,
          crossed, asked, meddled>>

irq   == <<enabled, depth>>
frame == <<rep, need, down>>
hist  == <<asked, meddled>>

Free(t) == call[t] = "none"
Goto(t, l) == pc' = [pc EXCEPT ![t] = l]

-----------------------------------------------------------------------------
(* hyn_irq_set *)

\* Its first test, in the step that calls it.
IrqSet(t, v) ==
  /\ call' = [call EXCEPT ![t] = IF enabled = v THEN "none"
                                 ELSE IF v THEN "enable" ELSE "disable"]
  /\ crossed' = (crossed \/ \E u \in Threads \ {t} : call[u] # "none")

NoCall == UNCHANGED <<call, crossed>>

Untouched == UNCHANGED <<suspended, pc, panel, pending, waits, workMode, saved,
                         ops>> /\ UNCHANGED <<chip, frame, hist>>

\* Mutant: the flag is not set.
RememberedNever(v) == enabled

Remembered(v) == v

\* disable_irq holds back the next interrupt and waits for the running one.
IrqDisable(t) ==
  /\ call[t] = "disable"
  /\ depth' = depth + 1
  /\ call' = [call EXCEPT ![t] = "synchronize"]
  /\ UNCHANGED <<enabled, handler, crossed>> /\ Untouched

IrqDisabled(t) ==
  /\ call[t] = "synchronize" /\ handler = "idle"
  /\ enabled' = Remembered(FALSE)
  /\ call' = [call EXCEPT ![t] = "none"]
  /\ UNCHANGED <<depth, handler, crossed>> /\ Untouched

\* enable_irq of an enabled interrupt warns and does nothing.
IrqEnable(t) ==
  /\ call[t] = "enable"
  /\ depth' = IF depth = 0 THEN 0 ELSE depth - 1
  /\ call' = [call EXCEPT ![t] = "remember"]
  /\ UNCHANGED <<enabled, handler, crossed>> /\ Untouched

IrqEnabled(t) ==
  /\ call[t] = "remember"
  /\ enabled' = Remembered(TRUE)
  /\ call' = [call EXCEPT ![t] = "none"]
  /\ UNCHANGED <<depth, handler, crossed>> /\ Untouched

-----------------------------------------------------------------------------
(* What the threads make of the chip *)

Powered == chip # "off"

\* cst66xx_rst
Reset == chip' = IF Powered THEN "normal" ELSE "off"

\* The commands of cst66xx_set_workmode; a chip without supply takes none, and
\* the mode is remembered whether it did or not.
Switch(m) ==
  /\ workMode' = m
  /\ chip' = IF ~Powered \/ chip = "boot" THEN chip
             ELSE CASE m = "NOMAL" -> "normal" [] m = "DIFF" -> "debug"
                    [] m = "DEEPSLEEP" -> "sleep" [] OTHER -> "boot"

\* cst66xx_report: a frame of fingers or of keys claims report_need when it is
\* free.  One in which every finger goes up counts as empty, and one without
\* fingers or keys changes nothing.
Claim(k) == need' = IF need = {} THEN {k} ELSE need

Report ==
  /\ UNCHANGED <<chip, down>>
  /\ \/ /\ Claim("pos")
        /\ rep' \in {f \in [downs : SUBSET Fingers, ups : SUBSET Fingers] :
                       f.downs \cap f.ups = {} /\ (f.downs = {} => f.ups = {})}
     \/ Claim("key") /\ UNCHANGED rep
     \/ UNCHANGED <<need, rep>>

-----------------------------------------------------------------------------
(* probe: the interrupt has just been requested *)

ProbeQuiet ==
  /\ pc["probe"] = "requested" /\ Free("probe")
  /\ IrqSet("probe", FALSE)
  /\ Goto("probe", "follow")
  /\ UNCHANGED <<irq, chip, frame, hist, suspended, panel, pending, handler,
                 waits, workMode, saved, ops>>

ProbeFollow ==
  /\ pc["probe"] = "follow" /\ Free("probe")
  /\ Goto("probe", "files")
  /\ NoCall
  /\ UNCHANGED <<irq, chip, frame, hist, suspended, panel, pending, handler,
                 waits, workMode, saved, ops>>

ProbeListen ==
  /\ pc["probe"] = "files" /\ Free("probe")
  /\ IrqSet("probe", TRUE)
  /\ Goto("probe", "done")
  /\ meddled' = TRUE
  /\ UNCHANGED <<irq, chip, frame, asked, suspended, panel, pending, handler,
                 waits, workMode, saved, ops>>

Followed == pc["probe"] \in {"files", "done"}

-----------------------------------------------------------------------------
(* The panel's callbacks *)

\* queue_work, which does nothing while cancel_work_sync waits.
Queue == pending' = (pending \/ pc["panel"] # "cancel")

\* Mutant: a chip that sleeps is not resumed.
ResumesAwake == suspended /\ workMode # "DEEPSLEEP"

Resumes == suspended

\* hyn_panel_prepared, once the supply is there.
PanelPrepared ==
  /\ ~panel /\ pc["panel"] = "idle" /\ Followed
  /\ panel' = TRUE
  /\ chip' = "normal"
  /\ IF Resumes THEN Queue ELSE UNCHANGED pending
  /\ NoCall
  /\ UNCHANGED <<irq, frame, hist, suspended, pc, handler, waits, workMode,
                 saved, ops>>

\* hyn_panel_unpreparing: cancel_work_sync takes the work from the queue, and
\* waits for one that runs.
PanelUnpreparing ==
  /\ panel /\ pc["panel"] = "idle" /\ Followed
  /\ panel' = FALSE
  /\ pending' = FALSE /\ waits' = waits \ {"pending"}
  /\ Goto("panel", "cancel")
  /\ NoCall
  /\ UNCHANGED <<irq, chip, frame, hist, suspended, handler, workMode, saved,
                 ops>>

\* Mutant: cancel_work, which does not wait.
WorkDoneUnwaited == TRUE

WorkDone == pc["work"] = "idle"

PanelCancelled ==
  /\ pc["panel"] = "cancel" /\ WorkDone
  /\ Goto("panel", "cancelled")
  /\ NoCall
  /\ UNCHANGED <<irq, chip, frame, hist, suspended, panel, pending, handler,
                 waits, workMode, saved, ops>>

\* Mutant: hyn_suspend leaves the flag to its caller.
SuspendedNot == suspended

Suspended == TRUE

Alone == /\ pc["probe"] = "done" /\ \A t \in {"tool", "mode", "work"} : pc[t] = "idle"
         /\ ~pending
         /\ \A t \in {"probe", "tool"} : Free(t)

\* hyn_suspend begins, or there is nothing to suspend.
PanelSuspend ==
  /\ pc["panel"] = "cancelled"
  /\ suspended' = Suspended
  /\ IF suspended
       THEN Goto("panel", "leave") /\ NoCall /\ UNCHANGED meddled
       ELSE /\ Goto("panel", "suspend") /\ IrqSet("panel", FALSE)
            /\ meddled' = ~Alone
  /\ UNCHANGED <<irq, chip, frame, asked, panel, pending, handler, waits,
                 workMode, saved, ops>>

\* cst66xx_supend asks for the interrupt to be off once more.
PanelSleep ==
  /\ pc["panel"] = "suspend" /\ Free("panel")
  /\ IrqSet("panel", FALSE)
  /\ Goto("panel", "sleep")
  /\ UNCHANGED <<irq, chip, frame, hist, suspended, panel, pending, handler,
                 waits, workMode, saved, ops>>

PanelSlept ==
  /\ pc["panel"] = "sleep" /\ Free("panel")
  /\ Switch("DEEPSLEEP")
  /\ Goto("panel", "leave")
  /\ NoCall
  /\ UNCHANGED <<irq, frame, hist, suspended, panel, pending, handler, waits,
                 saved, ops>>

\* The panel's supply goes.
PanelGone ==
  /\ pc["panel"] = "leave"
  /\ chip' = "off"
  /\ Goto("panel", "idle")
  /\ NoCall
  /\ UNCHANGED <<irq, frame, hist, suspended, panel, pending, handler, waits,
                 workMode, saved, ops>>

-----------------------------------------------------------------------------
(* hyn_resum_work *)

WorkBegin ==
  /\ pending /\ pc["work"] = "idle"
  /\ pending' = FALSE
  /\ waits' = IF "pending" \in waits THEN {"running"} ELSE waits
  /\ suspended' = FALSE
  /\ Goto("work", "reset")
  /\ NoCall
  /\ UNCHANGED <<irq, chip, frame, hist, panel, handler, workMode, saved, ops>>

\* cst66xx_resum, and the call at the head of its set_workmode.
WorkReset ==
  /\ pc["work"] = "reset"
  /\ Reset
  /\ IrqSet("work", TRUE)
  /\ Goto("work", "mode")
  /\ UNCHANGED <<irq, frame, hist, suspended, panel, pending, handler, waits,
                 workMode, saved, ops>>

WorkMode ==
  /\ pc["work"] = "mode" /\ Free("work")
  /\ Switch("NOMAL")
  /\ Goto("work", "release")
  /\ NoCall
  /\ UNCHANGED <<irq, frame, hist, suspended, panel, pending, handler, waits,
                 saved, ops>>

\* The fingers that are down are lifted when report_need says that there are
\* any.
WorkRelease ==
  /\ pc["work"] = "release"
  /\ down' = IF "pos" \in need THEN {} ELSE down
  /\ need' = {}
  /\ IrqSet("work", TRUE)
  /\ Goto("work", "end")
  /\ UNCHANGED <<irq, chip, rep, hist, suspended, panel, pending, handler, waits,
                 workMode, saved, ops>>

WorkEnd ==
  /\ pc["work"] = "end" /\ Free("work")
  /\ Goto("work", "idle")
  /\ waits' = waits \ {"running"}
  /\ NoCall
  /\ UNCHANGED <<irq, chip, frame, hist, suspended, panel, pending, handler,
                 workMode, saved, ops>>

-----------------------------------------------------------------------------
(* The interrupt, which the chip raises whenever it likes *)

\* hyn_irq_handler: in a debug mode it only wakes the tool.
IrqFires ==
  /\ chip \in {"normal", "debug"} /\ depth = 0 /\ handler = "idle"
  /\ IF workMode # "DIFF"
       THEN /\ handler' = "flush"
            /\ waits' = (IF pending THEN {"pending"} ELSE {})
                        \cup (IF pc["work"] # "idle" THEN {"running"} ELSE {})
       ELSE UNCHANGED <<handler, waits>>
  /\ NoCall
  /\ UNCHANGED <<irq, chip, frame, hist, suspended, pc, panel, pending,
                 workMode, saved, ops>>

IrqFlushed ==
  /\ handler = "flush" /\ waits = {}
  /\ handler' = "read"
  /\ NoCall
  /\ UNCHANGED <<irq, chip, frame, hist, suspended, pc, panel, pending, waits,
                 workMode, saved, ops>>

\* tp_report, which may find no chip or an illegal frame.
IrqRead ==
  /\ handler = "read"
  /\ \/ /\ chip \in {"normal", "debug"} /\ Report
        /\ handler' = "report"
     \/ handler' = "idle" /\ UNCHANGED <<chip, frame>>
  /\ NoCall
  /\ UNCHANGED <<irq, hist, suspended, pc, panel, pending, waits, workMode,
                 saved, ops>>

\* hyn_irq_report_work under mutex_report.
IrqReport ==
  /\ handler = "report"
  /\ handler' = "idle"
  /\ IF "pos" \notin need THEN UNCHANGED <<need, down>>
     ELSE IF rep.downs = {} THEN need' = {} /\ down' = {}
     ELSE down' = (down \cup rep.downs) \ rep.ups /\ UNCHANGED need
  /\ NoCall
  /\ UNCHANGED <<irq, chip, hist, rep, suspended, pc, panel, pending, waits,
                 workMode, saved, ops>>

-----------------------------------------------------------------------------
(* The tool, under mutex_fs *)

ToolBegins ==
  /\ pc["tool"] = "idle" /\ Free("tool") /\ Followed /\ ops < MaxOps
  /\ ops' = ops + 1
  /\ meddled' = TRUE
  /\ UNCHANGED <<irq, suspended, panel, handler, waits, saved>>

\* "rst" in hyn_dbg_store: the test of state_is_sunpend, and what follows.
ToolRst ==
  /\ ToolBegins
  /\ Goto("tool", IF suspended THEN "queue" ELSE "reset")
  /\ NoCall
  /\ UNCHANGED <<chip, frame, asked, pending, workMode>>

ToolQueue ==
  /\ pc["tool"] = "queue"
  /\ Queue /\ asked' = TRUE
  /\ Goto("tool", "idle")
  /\ NoCall
  /\ UNCHANGED <<irq, chip, frame, suspended, panel, handler, waits, workMode,
                 saved, ops, meddled>>

ToolReset ==
  /\ pc["tool"] = "reset"
  /\ Reset
  /\ Goto("tool", "idle")
  /\ NoCall
  /\ UNCHANGED <<irq, frame, hist, suspended, panel, pending, handler, waits,
                 workMode, saved, ops>>

\* RESET_IC in hyn_proc_tool_write does not ask.
ToolResetIc ==
  /\ ToolBegins
  /\ Goto("tool", "reset")
  /\ NoCall
  /\ UNCHANGED <<chip, frame, asked, pending, workMode>>

\* SET_WORK_MODE, and "mode" in hyn_dbg_store.
ToolSetMode(m) ==
  /\ ToolBegins
  /\ Goto("tool", m)
  /\ CASE m = "NOMAL" -> IrqSet("tool", TRUE)
       [] m = "DEEPSLEEP" -> IrqSet("tool", FALSE)
       [] OTHER -> NoCall
  /\ UNCHANGED <<chip, frame, asked, pending, workMode>>

ToolModeSet ==
  /\ pc["tool"] \in Modes /\ Free("tool")
  /\ Switch(pc["tool"])
  /\ Goto("tool", "idle")
  /\ NoCall
  /\ UNCHANGED <<irq, frame, hist, suspended, panel, pending, handler, waits,
                 saved, ops>>

\* hyn_proc_tool_read in a debug mode: tp_get_dbg_data reads a frame as well.
ToolRead ==
  /\ ToolBegins
  /\ workMode = "DIFF" /\ chip = "debug"
  /\ Report
  /\ NoCall
  /\ UNCHANGED <<asked, pc, pending, workMode>>

\* An update of the firmware: the interrupt off, the flash written from the
\* boot mode, a reset, and the interrupt on.
ToolUpdate ==
  /\ ToolBegins
  /\ Goto("tool", "flash")
  /\ IrqSet("tool", FALSE)
  /\ UNCHANGED <<chip, frame, asked, pending, workMode>>

ToolFlash ==
  /\ pc["tool"] = "flash" /\ Free("tool")
  /\ chip' = IF Powered THEN "boot" ELSE "off"
  /\ Goto("tool", "flashed")
  /\ NoCall
  /\ UNCHANGED <<irq, frame, hist, suspended, panel,
                 pending, handler, waits, workMode, saved, ops>>

\* When it succeeds, cst66xx_updata_tpinfo sets the mode as well.
ToolFlashed ==
  /\ pc["tool"] = "flashed"
  /\ Reset
  /\ \/ Powered /\ Goto("tool", "NOMAL")
     \/ Goto("tool", "idle")
  /\ IrqSet("tool", TRUE)
  /\ UNCHANGED <<irq, frame, hist, suspended, panel, pending, handler, waits,
                 workMode, saved, ops>>

-----------------------------------------------------------------------------
(* hynswitchmode: the glove and charge modes keep the work mode they read *)

ModeStore ==
  /\ pc["mode"] = "idle" /\ Followed /\ ops < MaxOps
  /\ ops' = ops + 1
  /\ saved' = workMode
  /\ Goto("mode", "write")
  /\ meddled' = TRUE
  /\ NoCall
  /\ UNCHANGED <<irq, chip, frame, asked, suspended, panel, pending, handler,
                 waits, workMode>>

ModeStored ==
  /\ pc["mode"] = "write"
  /\ workMode' = saved /\ saved' = "NOMAL"
  /\ Goto("mode", "idle")
  /\ NoCall
  /\ UNCHANGED <<irq, chip, frame, hist, suspended, panel, pending, handler,
                 waits, ops>>

-----------------------------------------------------------------------------

Init ==
  /\ suspended = FALSE /\ enabled = TRUE /\ depth = 0
  /\ call = [t \in Threads |-> "none"]
  /\ pc = [t \in Threads |-> IF t = "probe" THEN "requested" ELSE "idle"]
  /\ panel = TRUE /\ pending = FALSE
  /\ handler = "idle" /\ waits = {}
  /\ workMode = "NOMAL" /\ saved = "NOMAL"
  /\ chip = "normal"
  /\ rep = [downs |-> {}, ups |-> {}] /\ need = {} /\ down = {}
  /\ ops = 0 /\ crossed = FALSE /\ asked = FALSE /\ meddled = FALSE

IrqCall == \E t \in Threads :
  IrqDisable(t) \/ IrqDisabled(t) \/ IrqEnable(t) \/ IrqEnabled(t)
Probe == ProbeQuiet \/ ProbeFollow \/ ProbeListen
PanelLeaves == PanelCancelled \/ PanelSuspend \/ PanelSleep \/ PanelSlept
               \/ PanelGone
Work == WorkBegin \/ WorkReset \/ WorkMode \/ WorkRelease \/ WorkEnd
Irq == IrqFires \/ IrqFlushed \/ IrqRead \/ IrqReport
ToolGoesOn == ToolQueue \/ ToolReset \/ ToolModeSet \/ ToolFlash \/ ToolFlashed
ToolStarts ==
  \/ ToolRst \/ ToolResetIc \/ ToolUpdate \/ ToolRead
  \/ \E m \in Modes \ {"ENTER_BOOT"} : ToolSetMode(m)

Next ==
  \/ IrqCall \/ Probe \/ PanelPrepared \/ PanelUnpreparing \/ PanelLeaves
  \/ Work \/ Irq \/ ToolStarts \/ ToolGoesOn \/ ModeStore \/ ModeStored

\* The kernel runs its threads and works; nothing makes a user, a finger or
\* DRM act.
Fairness ==
  /\ \A t \in Threads :
       WF_vars(IrqDisable(t) \/ IrqDisabled(t) \/ IrqEnable(t) \/ IrqEnabled(t))
  /\ WF_vars(Probe) /\ WF_vars(PanelLeaves) /\ WF_vars(Work)
  /\ WF_vars(IrqFlushed \/ IrqRead \/ IrqReport)
  /\ WF_vars(ToolGoesOn) /\ WF_vars(ModeStored)

Spec == Init /\ [][Next]_vars /\ Fairness

-----------------------------------------------------------------------------
(* Properties *)

\* As long as no two calls of hyn_irq_set have overlapped, its flag and the
\* kernel's count agree whenever no call is under way, so that no enable is
\* lost.  (Two overlapping calls can count twice, and the interrupt is then
\* off for good.)
IrqBalanced ==
  ~crossed /\ (\A t \in Threads : Free(t)) => depth = IF enabled THEN 0 ELSE 1

\* Panel callbacks and resume work on their own never call hyn_irq_set side by
\* side: "so there is no early/late duplicate-event race like the old blank
\* notifier had".  It takes a resume the tool has queued.
CallbacksSerialised ==
  ~Free("panel") /\ ~Free("work") => asked

\* Once the panel is gone, and unless the tool or the end of probe interferes,
\* the touch driver stays quiet: suspended, no interrupt, no resume.
QuietWhileGone ==
  ~panel /\ pc["panel"] = "idle" /\ ~meddled /\ ~crossed =>
    suspended /\ depth > 0 /\ handler = "idle" /\ ~pending /\ pc["work"] = "idle"

\* A driver that is suspended under a prepared panel comes back and takes
\* interrupts, unless the panel goes again or two calls cross.
TouchReturns ==
  panel /\ suspended ~> (~suspended /\ depth = 0) \/ ~panel \/ crossed
=============================================================================
