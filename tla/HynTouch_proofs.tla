---------------------------- MODULE HynTouch_proofs ----------------------------
(***************************************************************************)
(* Theorems about HynTouch, for any set of fingers and any number of the   *)
(* user's operations: as long as no two calls of hyn_irq_set overlap, the  *)
(* driver's flag and the kernel's count agree; panel callbacks and resume  *)
(* work do not overlap by themselves; and once the panel is gone the       *)
(* driver is suspended with its interrupt off.                             *)
(*                                                                         *)
(* The first is a matter of where the one call under way is (Balance), the *)
(* second of when work_resume can be queued (Serial), and the third of     *)
(* what the last hyn_suspend, which found itself alone, has left (Gone).   *)
(***************************************************************************)
EXTENDS HynTouch, TLAPS

Calls == {"none", "disable", "synchronize", "enable", "remember"}

Places == Modes \cup
  {"requested", "follow", "files", "done", "idle", "cancel", "cancelled", "suspend",
   "sleep", "leave", "reset", "mode", "release", "end", "queue", "flash", "flashed",
   "write"}

TypeOK ==
  /\ suspended \in BOOLEAN /\ enabled \in BOOLEAN /\ depth \in Nat
  /\ call \in [Threads -> Calls] /\ pc \in [Threads -> Places]
  /\ panel \in BOOLEAN /\ pending \in BOOLEAN
  /\ handler \in {"idle", "flush", "read", "report"}
  /\ crossed \in BOOLEAN /\ asked \in BOOLEAN /\ meddled \in BOOLEAN

\* Where a thread is while a call of its is under way.
Placed ==
  /\ Free("mode")
  /\ ~Free("panel") => pc["panel"] \in {"suspend", "sleep"}
  /\ ~Free("work") => pc["work"] \in {"mode", "end"}
  /\ ~Free("probe") => pc["probe"] \in {"follow", "done"}
  /\ ~Free("tool") => pc["tool"] # "flashed"

\* What flag, count and interrupt thread are while the one call that is under way
\* stands at c: the interrupt is held back from the count on, and its thread is
\* waited for before the flag says so.
Fits(c) ==
  /\ depth = IF c \in {"synchronize", "enable"} \/ (c = "none" /\ ~enabled) THEN 1 ELSE 0
  /\ c \in {"disable", "synchronize"} => enabled
  /\ c \in {"enable", "remember"} => ~enabled
  /\ c = "enable" \/ (c = "none" /\ ~enabled) => handler = "idle"

Balance ==
  ~crossed =>
    /\ \A t \in Threads : ~Free(t) => Fits(call[t]) /\ \A u \in Threads \ {t} : Free(u)
    /\ (\A t \in Threads : Free(t)) => Fits("none")

\* From the cancelling of work_resume to the end of the callback it is neither queued
\* nor running, unless the tool has queued it.
Serial ==
  /\ pc["panel"] = "cancel" => ~pending
  /\ pc["panel"] \in {"cancelled", "suspend", "sleep", "leave"} /\ ~asked =>
       ~pending /\ pc["work"] = "idle"

\* Nobody but the panel has done anything since hyn_suspend began, or since the start.
Alike ==
  ~meddled =>
    /\ pc["tool"] = "idle" /\ pc["mode"] = "idle" /\ Free("tool")
    /\ pc["panel"] \in {"cancelled", "suspend", "sleep", "leave"} =>
         ~pending /\ pc["work"] = "idle"
    /\ pc["probe"] # "done" =>
         /\ ~suspended /\ ~pending /\ pc["work"] = "idle"
         /\ pc["panel"] \in {"idle", "cancel", "cancelled"}
         /\ pc["panel"] = "idle" => panel
    /\ pc["probe"] = "done" => Free("probe")

\* What such a suspend leaves until work_resume begins.
Gone ==
  ~meddled =>
    /\ pc["panel"] \in {"suspend", "sleep", "leave"} => suspended
    /\ pc["panel"] = "idle" /\ ~panel => suspended /\ ~pending
    /\ suspended =>
         /\ pc["work"] = "idle"
         /\ call["panel"] \in {"none", "disable", "synchronize"}
         /\ ~crossed /\ Free("panel") => ~enabled

IInv == TypeOK /\ Placed /\ Balance /\ Serial /\ Alike /\ Gone

-----------------------------------------------------------------------------
(* The steps, by what they do to the calls of hyn_irq_set. *)

\* The steps of the threads that call nothing, except those of the interrupt.
Silent ==
  \/ ProbeFollow \/ PanelPrepared \/ PanelUnpreparing \/ PanelCancelled \/ PanelSlept
  \/ PanelGone \/ WorkBegin \/ WorkMode \/ WorkEnd
  \/ ToolRst \/ ToolResetIc \/ ToolRead \/ ToolQueue \/ ToolReset \/ ToolModeSet
  \/ ToolFlash \/ ModeStore \/ ModeStored

\* The steps that call hyn_irq_set, or may.
Calling ==
  \/ ProbeQuiet \/ ProbeListen \/ PanelSuspend \/ PanelSleep \/ WorkReset \/ WorkRelease
  \/ ToolUpdate \/ ToolFlashed \/ \E m \in Modes \ {"ENTER_BOOT"} : ToolSetMode(m)

LEMMA NextSplit == Next => IrqCall \/ Silent \/ Calling \/ Irq
BY DEF Next, Probe, PanelLeaves, Work, ToolStarts, ToolGoesOn, Silent, Calling

\* A step that calls has no call under way, and touches neither the flag nor the count
\* nor the interrupt thread.
LEMMA CallingCalls ==
  ASSUME TypeOK, Placed, Calling
  PROVE  /\ UNCHANGED <<enabled, depth, handler>>
         /\ NoCall \/ \E t \in Threads, v \in BOOLEAN : Free(t) /\ IrqSet(t, v)
<1> USE DEF Threads, Placed, TypeOK, Free, irq
<1>1. CASE ProbeQuiet
  BY <1>1 DEF ProbeQuiet
<1>2. CASE ProbeListen
  BY <1>2 DEF ProbeListen
<1>3. CASE PanelSuspend
  BY <1>3 DEF PanelSuspend
<1>4. CASE PanelSleep
  BY <1>4 DEF PanelSleep
<1>5. CASE WorkReset
  BY <1>5 DEF WorkReset
<1>6. CASE WorkRelease
  BY <1>6 DEF WorkRelease
<1>7. CASE ToolUpdate
  BY <1>7 DEF ToolUpdate, ToolBegins
<1>8. CASE ToolFlashed
  BY <1>8 DEF ToolFlashed
<1>9. ASSUME NEW m \in Modes, ToolSetMode(m)
      PROVE  /\ UNCHANGED <<enabled, depth, handler>>
             /\ NoCall \/ \E t \in Threads, v \in BOOLEAN : Free(t) /\ IrqSet(t, v)
  BY <1>9 DEF ToolSetMode, ToolBegins
<1> QED BY <1>1, <1>2, <1>3, <1>4, <1>5, <1>6, <1>7, <1>8, <1>9 DEF Calling

LEMMA SilentCallsNot ==
  ASSUME Silent PROVE NoCall /\ UNCHANGED <<enabled, depth, handler>>
BY DEF Silent, irq, ProbeFollow, PanelPrepared, PanelUnpreparing, PanelCancelled,
   PanelSlept,
       PanelGone, WorkBegin, WorkMode, WorkEnd, ToolRst, ToolResetIc, ToolRead, ToolQueue,
       ToolReset, ToolModeSet, ToolFlash, ModeStore, ModeStored, ToolBegins

-----------------------------------------------------------------------------
(* Balance *)

LEMMA BalanceKept ==
  ASSUME Balance, NoCall, UNCHANGED <<enabled, depth>>,
         handler' \in {"idle", handler} \/ handler # "idle" \/ depth = 0
  PROVE  Balance'
BY DEF Balance, Fits, NoCall, Free

LEMMA BalanceCalls ==
  ASSUME TypeOK, Balance, NEW t \in Threads, NEW v \in BOOLEAN, Free(t), IrqSet(t, v),
         UNCHANGED <<enabled, depth, handler>>
  PROVE  Balance'
<1> SUFFICES ASSUME ~crossed' PROVE Balance'
  BY DEF Balance
<1>1. ~crossed /\ \A u \in Threads \ {t} : Free(u)
  BY DEF IrqSet, Free
<1>2. Fits("none")
  BY <1>1 DEF Balance
<1>3. \A u \in Threads \ {t} : call'[u] = call[u]
  BY DEF IrqSet, TypeOK
<1>4. call'[t] = IF enabled = v THEN "none" ELSE IF v THEN "enable" ELSE "disable"
  BY DEF IrqSet, TypeOK
<1>5. Fits(call[t])' /\ (call'[t] = "none" => Fits("none")')
  BY <1>2, <1>4 DEF Fits, TypeOK
<1> QED BY <1>1, <1>3, <1>5 DEF Balance, Free

LEMMA BalanceCounts ==
  ASSUME TypeOK, Balance, IrqCall
  PROVE  Balance'
<1> SUFFICES ASSUME ~crossed', NEW t \in Threads,
                    IrqDisable(t) \/ IrqDisabled(t) \/ IrqEnable(t) \/ IrqEnabled(t)
             PROVE  Balance'
  BY DEF Balance, IrqCall
<1> USE DEF TypeOK, Free
<1>1. ~crossed /\ ~Free(t)
  BY DEF IrqDisable, IrqDisabled, IrqEnable, IrqEnabled
<1>2. Fits(call[t]) /\ \A u \in Threads \ {t} : Free(u)
  BY <1>1 DEF Balance
<1>3. \A u \in Threads \ {t} : Free(u)'
  BY <1>2 DEF IrqDisable, IrqDisabled, IrqEnable, IrqEnabled
<1>4. CASE IrqDisable(t)
  BY <1>2, <1>3, <1>4 DEF IrqDisable, Balance, Fits
<1>5. CASE IrqDisabled(t)
  BY <1>2, <1>3, <1>5 DEF IrqDisabled, Remembered, Balance, Fits
<1>6. CASE IrqEnable(t)
  BY <1>2, <1>3, <1>6 DEF IrqEnable, Balance, Fits
<1>7. CASE IrqEnabled(t)
  BY <1>2, <1>3, <1>7 DEF IrqEnabled, Remembered, Balance, Fits
<1> QED BY <1>4, <1>5, <1>6, <1>7

LEMMA BalanceStep ==
  ASSUME TypeOK, Placed, Balance, Next PROVE Balance'
<1>1. CASE IrqCall
  BY <1>1, BalanceCounts
<1>2. CASE Silent
  BY <1>2, SilentCallsNot, BalanceKept
<1>3. CASE Calling
  BY <1>3, CallingCalls, BalanceCalls, BalanceKept
<1>4. CASE Irq
  BY <1>4, BalanceKept DEF Irq, IrqFires, IrqFlushed, IrqRead, IrqReport, irq
<1> QED BY <1>1, <1>2, <1>3, <1>4, NextSplit

-----------------------------------------------------------------------------
(* The other conjuncts, action by action. *)

LEMMA IrqSetTyped ==
  ASSUME TypeOK, NEW t \in Threads, NEW v \in BOOLEAN, IrqSet(t, v)
  PROVE  call' \in [Threads -> Calls] /\ crossed' \in BOOLEAN
<1>1. crossed' \in BOOLEAN
  BY Zenon DEF IrqSet, TypeOK
<1> QED BY <1>1 DEF IrqSet, TypeOK, Calls

LEMMA TypeOKStep ==
  ASSUME IInv, Next PROVE TypeOK'
<1> USE DEF IInv, TypeOK, Calls, Places, Balance, Threads, Modes, Free, Goto, IrqSet,
            NoCall, irq, hist
<1>1. CASE ProbeFollow
  BY <1>1 DEF ProbeFollow
<1>2. CASE PanelPrepared
  BY <1>2 DEF PanelPrepared, Queue, Resumes
<1>3. CASE PanelUnpreparing
  BY <1>3 DEF PanelUnpreparing
<1>4. CASE PanelCancelled
  BY <1>4 DEF PanelCancelled, WorkDone
<1>5. CASE PanelSlept
  BY <1>5 DEF PanelSlept
<1>6. CASE PanelGone
  BY <1>6 DEF PanelGone
<1>7. CASE WorkBegin
  BY <1>7 DEF WorkBegin
<1>8. CASE WorkMode
  BY <1>8 DEF WorkMode
<1>9. CASE WorkEnd
  BY <1>9 DEF WorkEnd
<1>10. CASE ToolRst
  BY <1>10 DEF ToolRst, ToolBegins
<1>11. CASE ToolResetIc
  BY <1>11 DEF ToolResetIc, ToolBegins
<1>12. CASE ToolRead
  BY <1>12 DEF ToolRead, ToolBegins
<1>13. CASE ToolQueue
  BY <1>13 DEF ToolQueue, Queue
<1>14. CASE ToolReset
  BY <1>14 DEF ToolReset
<1>15. CASE ToolModeSet
  BY <1>15 DEF ToolModeSet
<1>16. CASE ToolFlash
  BY <1>16 DEF ToolFlash
<1>17. CASE ModeStore
  BY <1>17 DEF ModeStore
<1>18. CASE ModeStored
  BY <1>18 DEF ModeStored
<1>19. CASE ProbeQuiet
  BY <1>19 DEF ProbeQuiet
<1>20. CASE ProbeListen
  BY <1>20 DEF ProbeListen
<1>21. CASE PanelSuspend
  <2>1. meddled' \in BOOLEAN
    BY <1>21 DEF PanelSuspend, Alone
  <2>2. call' \in [Threads -> Calls] /\ crossed' \in BOOLEAN
    BY <1>21, IrqSetTyped DEF PanelSuspend
  <2> QED BY <1>21, <2>1, <2>2 DEF PanelSuspend, Suspended
<1>22. CASE PanelSleep
  BY <1>22 DEF PanelSleep
<1>23. CASE WorkReset
  BY <1>23 DEF WorkReset
<1>24. CASE WorkRelease
  BY <1>24 DEF WorkRelease
<1>25. CASE ToolUpdate
  BY <1>25 DEF ToolUpdate, ToolBegins
<1>26. CASE ToolFlashed
  BY <1>26 DEF ToolFlashed
<1>27. CASE \E m \in Modes \ {"ENTER_BOOT"} : ToolSetMode(m)
  <2> PICK m \in Modes \ {"ENTER_BOOT"} : ToolSetMode(m)
    BY <1>27
  <2>1. NoCall \/ IrqSet("tool", TRUE) \/ IrqSet("tool", FALSE)
    BY DEF ToolSetMode
  <2>2. call' \in [Threads -> Calls] /\ crossed' \in BOOLEAN
    BY <2>1, IrqSetTyped
  <2> QED BY <2>2 DEF ToolSetMode, ToolBegins
<1>28. CASE IrqCall
  <2> SUFFICES ASSUME NEW t \in Threads,
                      IrqDisable(t) \/ IrqDisabled(t) \/ IrqEnable(t) \/ IrqEnabled(t)
               PROVE  TypeOK'
    BY <1>28 DEF IrqCall
  <2>1. CASE IrqDisable(t)
    BY <2>1 DEF IrqDisable, Untouched
  <2>2. CASE IrqDisabled(t)
    BY <2>2 DEF IrqDisabled, Remembered, Untouched
  <2>3. CASE IrqEnable(t)
    BY <2>3 DEF IrqEnable, Untouched
  <2>4. CASE IrqEnabled(t)
    BY <2>4 DEF IrqEnabled, Remembered, Untouched
  <2> QED BY <2>1, <2>2, <2>3, <2>4
<1>29. CASE Irq
  BY <1>29 DEF Irq, IrqFires, IrqFlushed, IrqRead, IrqReport
<1> QED
  BY <1>1, <1>2, <1>3, <1>4, <1>5, <1>6, <1>7, <1>8, <1>9, <1>10, <1>11, <1>12, <1>13,
     <1>14, <1>15, <1>16, <1>17, <1>18, <1>19, <1>20, <1>21, <1>22, <1>23, <1>24, <1>25,
     <1>26, <1>27, <1>28, <1>29, NextSplit DEF Silent, Calling

\* A thread goes on only when its call has ended, or from a place where it has none.
LEMMA PlacedStep ==
  ASSUME IInv, Next PROVE Placed'
<1> USE DEF IInv, TypeOK, Placed, Threads, Modes, Free, Goto, IrqSet, NoCall, irq, hist
<1>1. CASE ProbeFollow
  BY <1>1 DEF ProbeFollow
<1>2. CASE PanelPrepared
  BY <1>2 DEF PanelPrepared, Queue, Resumes
<1>3. CASE PanelUnpreparing
  BY <1>3 DEF PanelUnpreparing
<1>4. CASE PanelCancelled
  BY <1>4 DEF PanelCancelled, WorkDone
<1>5. CASE PanelSlept
  BY <1>5 DEF PanelSlept
<1>6. CASE PanelGone
  BY <1>6 DEF PanelGone
<1>7. CASE WorkBegin
  BY <1>7 DEF WorkBegin
<1>8. CASE WorkMode
  BY <1>8 DEF WorkMode
<1>9. CASE WorkEnd
  BY <1>9 DEF WorkEnd
<1>10. CASE ToolRst
  BY <1>10 DEF ToolRst, ToolBegins
<1>11. CASE ToolResetIc
  BY <1>11 DEF ToolResetIc, ToolBegins
<1>12. CASE ToolRead
  BY <1>12 DEF ToolRead, ToolBegins
<1>13. CASE ToolQueue
  BY <1>13 DEF ToolQueue, Queue
<1>14. CASE ToolReset
  BY <1>14 DEF ToolReset
<1>15. CASE ToolModeSet
  BY <1>15 DEF ToolModeSet
<1>16. CASE ToolFlash
  BY <1>16 DEF ToolFlash
<1>17. CASE ModeStore
  BY <1>17 DEF ModeStore
<1>18. CASE ModeStored
  BY <1>18 DEF ModeStored
<1>19. CASE ProbeQuiet
  BY <1>19 DEF ProbeQuiet
<1>20. CASE ProbeListen
  BY <1>20 DEF ProbeListen
<1>21. CASE PanelSuspend
  BY <1>21 DEF PanelSuspend, Suspended
<1>22. CASE PanelSleep
  BY <1>22 DEF PanelSleep
<1>23. CASE WorkReset
  BY <1>23 DEF WorkReset
<1>24. CASE WorkRelease
  BY <1>24 DEF WorkRelease
<1>25. CASE ToolUpdate
  BY <1>25 DEF ToolUpdate, ToolBegins
<1>26. CASE ToolFlashed
  BY <1>26 DEF ToolFlashed
<1>27. CASE \E m \in Modes \ {"ENTER_BOOT"} : ToolSetMode(m)
  BY <1>27 DEF ToolSetMode, ToolBegins
<1>28. CASE IrqCall
  BY <1>28 DEF IrqCall, IrqDisable, IrqDisabled, IrqEnable, IrqEnabled, Untouched,
               Remembered
<1>29. CASE Irq
  BY <1>29 DEF Irq, IrqFires, IrqFlushed, IrqRead, IrqReport
<1> QED
  BY <1>1, <1>2, <1>3, <1>4, <1>5, <1>6, <1>7, <1>8, <1>9, <1>10, <1>11, <1>12, <1>13,
     <1>14, <1>15, <1>16, <1>17, <1>18, <1>19, <1>20, <1>21, <1>22, <1>23, <1>24, <1>25,
     <1>26, <1>27, <1>28, <1>29, NextSplit DEF Silent, Calling

\* Only PanelPrepared and the tool queue the work; the first is not possible while the
\* panel's callback runs, the second is remembered, and cancelling lets neither through.
LEMMA SerialStep ==
  ASSUME IInv, Next PROVE Serial'
<1> USE DEF IInv, TypeOK, Serial, Threads, Modes, Free, Goto, IrqSet, NoCall, irq, hist
<1>1. CASE ProbeFollow
  BY <1>1 DEF ProbeFollow
<1>2. CASE PanelPrepared
  BY <1>2 DEF PanelPrepared, Queue, Resumes
<1>3. CASE PanelUnpreparing
  BY <1>3 DEF PanelUnpreparing
<1>4. CASE PanelCancelled
  BY <1>4 DEF PanelCancelled, WorkDone
<1>5. CASE PanelSlept
  BY <1>5 DEF PanelSlept
<1>6. CASE PanelGone
  BY <1>6 DEF PanelGone
<1>7. CASE WorkBegin
  BY <1>7 DEF WorkBegin
<1>8. CASE WorkMode
  BY <1>8 DEF WorkMode
<1>9. CASE WorkEnd
  BY <1>9 DEF WorkEnd
<1>10. CASE ToolRst
  BY <1>10 DEF ToolRst, ToolBegins
<1>11. CASE ToolResetIc
  BY <1>11 DEF ToolResetIc, ToolBegins
<1>12. CASE ToolRead
  BY <1>12 DEF ToolRead, ToolBegins
<1>13. CASE ToolQueue
  BY <1>13 DEF ToolQueue, Queue
<1>14. CASE ToolReset
  BY <1>14 DEF ToolReset
<1>15. CASE ToolModeSet
  BY <1>15 DEF ToolModeSet
<1>16. CASE ToolFlash
  BY <1>16 DEF ToolFlash
<1>17. CASE ModeStore
  BY <1>17 DEF ModeStore
<1>18. CASE ModeStored
  BY <1>18 DEF ModeStored
<1>19. CASE ProbeQuiet
  BY <1>19 DEF ProbeQuiet
<1>20. CASE ProbeListen
  BY <1>20 DEF ProbeListen
<1>21. CASE PanelSuspend
  BY <1>21 DEF PanelSuspend, Suspended
<1>22. CASE PanelSleep
  BY <1>22 DEF PanelSleep
<1>23. CASE WorkReset
  BY <1>23 DEF WorkReset
<1>24. CASE WorkRelease
  BY <1>24 DEF WorkRelease
<1>25. CASE ToolUpdate
  BY <1>25 DEF ToolUpdate, ToolBegins
<1>26. CASE ToolFlashed
  BY <1>26 DEF ToolFlashed
<1>27. CASE \E m \in Modes \ {"ENTER_BOOT"} : ToolSetMode(m)
  BY <1>27 DEF ToolSetMode, ToolBegins
<1>28. CASE IrqCall
  BY <1>28 DEF IrqCall, IrqDisable, IrqDisabled, IrqEnable, IrqEnabled, Untouched,
               Remembered
<1>29. CASE Irq
  BY <1>29 DEF Irq, IrqFires, IrqFlushed, IrqRead, IrqReport
<1> QED
  BY <1>1, <1>2, <1>3, <1>4, <1>5, <1>6, <1>7, <1>8, <1>9, <1>10, <1>11, <1>12, <1>13,
     <1>14, <1>15, <1>16, <1>17, <1>18, <1>19, <1>20, <1>21, <1>22, <1>23, <1>24, <1>25,
     <1>26, <1>27, <1>28, <1>29, NextSplit DEF Silent, Calling

\* hyn_suspend found itself alone; every step of tool, mode or the end of probe that
\* ends this says so.
LEMMA AlikeStep ==
  ASSUME IInv, Next PROVE Alike'
<1> USE DEF IInv, TypeOK, Alike, Threads, Modes, Free, Goto, IrqSet, NoCall, irq, hist,
            Serial, Alone
<1>1. CASE ProbeFollow
  BY <1>1 DEF ProbeFollow
<1>2. CASE PanelPrepared
  BY <1>2 DEF PanelPrepared, Queue, Resumes
<1>3. CASE PanelUnpreparing
  BY <1>3 DEF PanelUnpreparing
<1>4. CASE PanelCancelled
  BY <1>4 DEF PanelCancelled, WorkDone
<1>5. CASE PanelSlept
  BY <1>5 DEF PanelSlept
<1>6. CASE PanelGone
  BY <1>6 DEF PanelGone
<1>7. CASE WorkBegin
  BY <1>7 DEF WorkBegin
<1>8. CASE WorkMode
  BY <1>8 DEF WorkMode
<1>9. CASE WorkEnd
  BY <1>9 DEF WorkEnd
<1>10. CASE ToolRst
  BY <1>10 DEF ToolRst, ToolBegins
<1>11. CASE ToolResetIc
  BY <1>11 DEF ToolResetIc, ToolBegins
<1>12. CASE ToolRead
  BY <1>12 DEF ToolRead, ToolBegins
<1>13. CASE ToolQueue
  BY <1>13 DEF ToolQueue, Queue
<1>14. CASE ToolReset
  BY <1>14 DEF ToolReset
<1>15. CASE ToolModeSet
  BY <1>15 DEF ToolModeSet
<1>16. CASE ToolFlash
  BY <1>16 DEF ToolFlash
<1>17. CASE ModeStore
  BY <1>17 DEF ModeStore
<1>18. CASE ModeStored
  BY <1>18 DEF ModeStored
<1>19. CASE ProbeQuiet
  BY <1>19 DEF ProbeQuiet
<1>20. CASE ProbeListen
  BY <1>20 DEF ProbeListen
<1>21. CASE PanelSuspend
  BY <1>21 DEF PanelSuspend, Suspended
<1>22. CASE PanelSleep
  BY <1>22 DEF PanelSleep
<1>23. CASE WorkReset
  BY <1>23 DEF WorkReset
<1>24. CASE WorkRelease
  BY <1>24 DEF WorkRelease
<1>25. CASE ToolUpdate
  BY <1>25 DEF ToolUpdate, ToolBegins
<1>26. CASE ToolFlashed
  BY <1>26 DEF ToolFlashed
<1>27. CASE \E m \in Modes \ {"ENTER_BOOT"} : ToolSetMode(m)
  BY <1>27 DEF ToolSetMode, ToolBegins
<1>28. CASE IrqCall
  BY <1>28 DEF IrqCall, IrqDisable, IrqDisabled, IrqEnable, IrqEnabled, Untouched,
               Remembered
<1>29. CASE Irq
  BY <1>29 DEF Irq, IrqFires, IrqFlushed, IrqRead, IrqReport
<1> QED
  BY <1>1, <1>2, <1>3, <1>4, <1>5, <1>6, <1>7, <1>8, <1>9, <1>10, <1>11, <1>12, <1>13,
     <1>14, <1>15, <1>16, <1>17, <1>18, <1>19, <1>20, <1>21, <1>22, <1>23, <1>24, <1>25,
     <1>26, <1>27, <1>28, <1>29, NextSplit DEF Silent, Calling

\* The suspend has asked for the interrupt to be off, and until work_resume begins no
\* step on this path asks for it to be on.
LEMMA GoneStep ==
  ASSUME IInv, Next PROVE Gone'
<1> USE DEF IInv, TypeOK, Gone, Threads, Modes, Free, Goto, IrqSet, NoCall, irq, hist,
            Alike, Serial, Placed, Balance, Fits, Alone, Remembered, Calls
<1>1. CASE ProbeFollow
  BY <1>1 DEF ProbeFollow
<1>2. CASE PanelPrepared
  BY <1>2 DEF PanelPrepared, Queue, Resumes
<1>3. CASE PanelUnpreparing
  BY <1>3 DEF PanelUnpreparing
<1>4. CASE PanelCancelled
  BY <1>4 DEF PanelCancelled, WorkDone
<1>5. CASE PanelSlept
  BY <1>5 DEF PanelSlept
<1>6. CASE PanelGone
  BY <1>6 DEF PanelGone
<1>7. CASE WorkBegin
  BY <1>7 DEF WorkBegin
<1>8. CASE WorkMode
  BY <1>8 DEF WorkMode
<1>9. CASE WorkEnd
  BY <1>9 DEF WorkEnd
<1>10. CASE ToolRst
  BY <1>10 DEF ToolRst, ToolBegins
<1>11. CASE ToolResetIc
  BY <1>11 DEF ToolResetIc, ToolBegins
<1>12. CASE ToolRead
  BY <1>12 DEF ToolRead, ToolBegins
<1>13. CASE ToolQueue
  BY <1>13 DEF ToolQueue, Queue
<1>14. CASE ToolReset
  BY <1>14 DEF ToolReset
<1>15. CASE ToolModeSet
  BY <1>15 DEF ToolModeSet
<1>16. CASE ToolFlash
  BY <1>16 DEF ToolFlash
<1>17. CASE ModeStore
  BY <1>17 DEF ModeStore
<1>18. CASE ModeStored
  BY <1>18 DEF ModeStored
<1>19. CASE ProbeQuiet
  BY <1>19 DEF ProbeQuiet
<1>20. CASE ProbeListen
  BY <1>20 DEF ProbeListen
<1>21. CASE PanelSuspend
  BY <1>21 DEF PanelSuspend, Suspended
<1>22. CASE PanelSleep
  BY <1>22 DEF PanelSleep
<1>23. CASE WorkReset
  BY <1>23 DEF WorkReset
<1>24. CASE WorkRelease
  BY <1>24 DEF WorkRelease
<1>25. CASE ToolUpdate
  BY <1>25 DEF ToolUpdate, ToolBegins
<1>26. CASE ToolFlashed
  BY <1>26 DEF ToolFlashed
<1>27. CASE \E m \in Modes \ {"ENTER_BOOT"} : ToolSetMode(m)
  BY <1>27 DEF ToolSetMode, ToolBegins
<1>28. CASE IrqCall
  BY <1>28 DEF IrqCall, IrqDisable, IrqDisabled, IrqEnable, IrqEnabled, Untouched,
               Remembered
<1>29. CASE Irq
  BY <1>29 DEF Irq, IrqFires, IrqFlushed, IrqRead, IrqReport
<1> QED
  BY <1>1, <1>2, <1>3, <1>4, <1>5, <1>6, <1>7, <1>8, <1>9, <1>10, <1>11, <1>12, <1>13,
     <1>14, <1>15, <1>16, <1>17, <1>18, <1>19, <1>20, <1>21, <1>22, <1>23, <1>24, <1>25,
     <1>26, <1>27, <1>28, <1>29, NextSplit DEF Silent, Calling

-----------------------------------------------------------------------------
(* The invariant and what it says. *)

LEMMA IInit == Init => IInv
<1> SUFFICES ASSUME Init PROVE IInv
  OBVIOUS
<1>1. \A t \in Threads : Free(t) /\ pc[t] = IF t = "probe" THEN "requested" ELSE "idle"
  BY DEF Init, Free
<1>2. TypeOK
  BY DEF Init, TypeOK, Calls, Places
<1>3. Placed /\ Serial /\ Alike /\ Gone
  BY <1>1 DEF Init, Placed, Serial, Alike, Gone, Threads, Free
<1>4. Balance
  BY <1>1 DEF Init, Balance, Fits
<1> QED BY <1>2, <1>3, <1>4 DEF IInv

LEMMA IStutter == ASSUME IInv, UNCHANGED vars PROVE IInv'
BY DEF vars, IInv, TypeOK, Placed, Balance, Fits, Serial, Alike, Gone, Free

LEMMA IStep == IInv /\ [Next]_vars => IInv'
<1>1. CASE Next
  <2>1. IInv => Balance'
    BY <1>1, BalanceStep DEF IInv
  <2> QED
    BY <1>1, <2>1, TypeOKStep, PlacedStep, SerialStep, AlikeStep, GoneStep DEF IInv
<1>2. CASE UNCHANGED vars
  BY <1>2, IStutter
<1> QED BY <1>1, <1>2

LEMMA Inductive == Spec => []IInv
BY IInit, IStep, PTL DEF Spec

\* As long as no two calls of hyn_irq_set have overlapped, no enable of the interrupt is
\* lost: when no call is under way the kernel's count is what the driver's flag says.
THEOREM CountFollowsFlag == Spec => []IrqBalanced
<1>1. IInv => IrqBalanced
  BY DEF IInv, Balance, Fits, IrqBalanced
<1> QED BY <1>1, Inductive, PTL

\* The follower's callbacks and work_resume do not call hyn_irq_set side by side, for
\* hyn_panel_unpreparing cancels the work before it suspends, unless the tool has queued
\* the work meanwhile.
THEOREM CallbacksDoNotOverlap == Spec => []CallbacksSerialised
<1>1. IInv => CallbacksSerialised
  BY DEF IInv, TypeOK, Placed, Serial, CallbacksSerialised
<1> QED BY <1>1, Inductive, PTL

\* Once the panel is gone, and unless the tool or the end of probe interferes, the driver
\* is suspended, its interrupt is off with no thread left behind, and no resume is to come.
THEOREM TouchIsQuiet == Spec => []QuietWhileGone
<1>1. ASSUME IInv, ~panel, pc["panel"] = "idle", ~meddled, ~crossed
      PROVE  suspended /\ depth > 0 /\ handler = "idle" /\ ~pending /\ pc["work"] = "idle"
  <2>1. suspended /\ ~pending /\ pc["work"] = "idle"
    BY <1>1 DEF IInv, TypeOK, Gone
  <2>2. \A t \in Threads : Free(t)
    BY <1>1, <2>1 DEF IInv, Placed, Alike, Threads, Free
  <2>3. ~enabled
    BY <1>1, <2>1, <2>2 DEF IInv, Gone, Threads
  <2>4. depth = 1 /\ handler = "idle"
    BY <1>1, <2>2, <2>3 DEF IInv, Balance, Fits
  <2> QED BY <2>1, <2>4
<1>2. IInv => QuietWhileGone
  BY <1>1 DEF QuietWhileGone
<1> QED BY <1>2, Inductive, PTL
=============================================================================
