------------------------------- MODULE Buttons -------------------------------
(***************************************************************************)
(* The button daemon, button-service/pibrickbtn.c: one thread that polls   *)
(* two GPIO lines, tells the power button from the user button by the line *)
(* only one of them moves, and turns a press into a short or a long        *)
(* gesture: a KEY_POWER tap or hold on its uinput device, or a script.     *)
(*                                                                         *)
(* Time is counted in polls of 5 ms (POLL_US).  Between any two polls the  *)
(* fingers may do anything, a read may fail, and the daemon may be kept    *)
(* from running longer than it asked to sleep.                             *)
(***************************************************************************)
EXTENDS Naturals

CONSTANTS
  Long,        \* LONG_PRESS_MS in polls (bound: the code's is 400)
  Settle,      \* SETTLE_MS in polls
  Debounce,    \* RELEASE_DEBOUNCE_MS in polls
  Tap,         \* POWER_KEY_TAP_US in polls (bound: the code's is 20)
  Retries,     \* GPIO_INIT_RETRIES
  MaxLost,     \* bound: uinput writes that are lost
  MaxFaults    \* bound: reads of a line that fail

ASSUME TimesAssumption ==
  /\ {Long, Settle, Debounce, Tap, Retries} \subseteq Nat \ {0} /\ {MaxLost, MaxFaults} \subseteq Nat
  /\ Settle + 3 < Long /\ Debounce < Long

VARIABLES
  finger,      \* the buttons really held
  owner,       \* who has the two lines: "gpio_keys", "none", "daemon"
  attempt,     \* gpio_init's attempt
  pc,          \* where the thread is
  wait,        \* polls it still sleeps
  since,       \* polls since press_start_ms, up to Long
  seen,        \* since, at the last poll that found the button down
  n, votes,    \* button_is_power's samples and votes
  isPower,     \* is_power
  longDone,    \* long_done
  last,        \* last_button_down, or "none" while not valid
  key,         \* KEY_POWER on the input device
  held,        \* power_key_held
  lost,        \* uinput writes lost so far
  faults       \* reads failed so far

gesture == <<since, seen, n, votes, isPower, longDone>>
bvars == <<finger, owner, attempt, pc, wait, since, seen, n, votes, isPower, longDone,
          last, key, held, lost, faults>>

Fingers == {"none", "user", "power", "both"}
Gesture == {"settle", "identify", "hold", "bounce"}
Running == Gesture \union {"poll", "tap", "script", "stable", "stable2"}

BInit ==
  /\ finger = "none" /\ owner \in {"gpio_keys", "none"}
  /\ attempt = 0 /\ pc = "unload" /\ wait = 0 /\ since = 0 /\ seen = 0
  /\ n = 0 /\ votes = 0 /\ isPower = FALSE /\ longDone = FALSE
  /\ last = "none" /\ key = 0 /\ held = FALSE /\ lost = 0 /\ faults = 0

------------------------------------------------------------------------------
(* Start-up.                                                                *)

\* modprobe -r gpio_keys, which may not work while something has it open.
Unloaded == owner' \in {owner, "none"}

Unload ==
  /\ pc = "unload" /\ Unloaded /\ attempt' = 0 /\ pc' = "lines"
  /\ UNCHANGED <<finger, wait, gesture, last, key, held, lost, faults>>

\* gpio_init_once: both chips and both lines, or nothing kept.  Every third failed
\* attempt unloads again.
Lines ==
  /\ pc = "lines"
  /\ \/ owner = "none" /\ owner' = "daemon" /\ pc' = "uinput" /\ UNCHANGED attempt
     \/ /\ attempt + 1 < Retries
        /\ attempt' = attempt + 1 /\ pc' = pc
        /\ IF (attempt + 1) % 3 = 0 THEN Unloaded ELSE UNCHANGED owner
     \/ attempt + 1 >= Retries /\ pc' = "dead" /\ UNCHANGED <<owner, attempt>>
  /\ UNCHANGED <<finger, wait, gesture, last, key, held, lost, faults>>

\* uk_init; on failure the lines are closed and main returns 1.
Uinput ==
  /\ pc = "uinput"
  /\ \/ pc' = "poll" /\ UNCHANGED owner
     \/ pc' = "dead" /\ owner' = "none"
  /\ UNCHANGED <<finger, attempt, wait, gesture, last, key, held, lost, faults>>

\* The process ends: killed, or after main returned 1.  The kernel closes its lines
\* and removes its input device, which releases the key; systemd starts it again.
Die ==
  /\ pc \in Running /\ pc' = "dead" /\ owner' = "none" /\ key' = 0
  /\ UNCHANGED <<finger, attempt, wait, gesture, last, held, lost, faults>>

Restart ==
  /\ pc = "dead" /\ pc' = "unload"
  /\ wait' = 0 /\ since' = 0 /\ seen' = 0 /\ n' = 0 /\ votes' = 0
  /\ isPower' = FALSE /\ longDone' = FALSE /\ last' = "none" /\ held' = FALSE
  /\ UNCHANGED <<finger, owner, attempt, key, lost, faults>>

------------------------------------------------------------------------------
(* The world outside.                                                       *)

Move == /\ finger' \in Fingers \ {finger}
        /\ UNCHANGED <<owner, attempt, pc, wait, gesture, last, key, held, lost, faults>>

Pass ==
  /\ pc \in Running
  /\ wait' = IF wait > 0 THEN wait - 1 ELSE 0
  /\ since' = IF since < Long THEN since + 1 ELSE since
  /\ wait' # wait \/ since' # since
  /\ UNCHANGED <<finger, owner, attempt, pc, seen, n, votes, isPower, longDone, last,
                 key, held, lost, faults>>

------------------------------------------------------------------------------
(* The thread.                                                              *)

\* button_is_down: any button moves a line; a failed read repeats the last answer.
IsDown(down) ==
  \/ /\ down = (finger # "none") /\ last' = IF down THEN "down" ELSE "up"
     /\ UNCHANGED faults
  \/ /\ faults < MaxFaults /\ faults' = faults + 1
     /\ down = (last = "down") /\ UNCHANGED last

\* sample_is_power: the user button moves the press line, so both held look like user.
IsPowerSample(yes) == ~yes \/ finger = "power"

Awake(p) == pc = p /\ wait = 0 /\ UNCHANGED <<finger, owner, attempt>>

\* handle_one_gesture: wait for a button.
Poll ==
  /\ Awake("poll")
  /\ \E down \in BOOLEAN :
       /\ IsDown(down)
       /\ IF down
          THEN /\ pc' = "settle" /\ wait' = Settle /\ since' = 0 /\ seen' = 0
               /\ n' = 0 /\ votes' = 0 /\ longDone' = FALSE
          ELSE pc' = pc /\ wait' = 1 /\ UNCHANGED <<since, seen, n, votes, longDone>>
  /\ UNCHANGED <<isPower, key, held, lost>>

\* A press shorter than the settle time is no gesture.
SettleDown ==
  /\ Awake("settle")
  /\ \E down \in BOOLEAN : IsDown(down) /\ pc' = IF down THEN "identify" ELSE "stable"
  /\ UNCHANGED <<wait, gesture, key, held, lost>>

\* button_is_power: the majority of three samples.
Identify ==
  /\ Awake("identify")
  /\ IF n < 3
     THEN /\ \E yes \in BOOLEAN : IsPowerSample(yes) /\ votes' = votes + IF yes THEN 1 ELSE 0
          /\ n' = n + 1 /\ wait' = 1 /\ UNCHANGED <<pc, isPower>>
     ELSE isPower' = (votes > 1) /\ pc' = "hold" /\ UNCHANGED <<n, votes, wait>>
  /\ UNCHANGED <<since, seen, longDone, last, key, held, lost, faults>>

\* uk_send_key: the event is written, or lost without anyone asking.
Send(v) ==
  \/ key' = v /\ UNCHANGED lost
  \/ lost < MaxLost /\ lost' = lost + 1 /\ UNCHANGED key

\* The long press, once: KEY_POWER down, or the brightness script in the background.
LongPress ==
  IF ~longDone /\ since >= Long
  THEN /\ longDone' = TRUE
       /\ IF isPower THEN Send(1) /\ held' = TRUE ELSE UNCHANGED <<key, held, lost>>
  ELSE UNCHANGED <<longDone, key, held, lost>>

Hold ==
  /\ Awake("hold")
  /\ \E down \in BOOLEAN :
       /\ IsDown(down)
       /\ IF down
          THEN LongPress /\ seen' = since /\ wait' = 1 /\ UNCHANGED pc
          ELSE /\ pc' = "bounce" /\ wait' = Debounce
               /\ UNCHANGED <<seen, longDone, key, held, lost>>
  /\ UNCHANGED <<since, n, votes, isPower>>

\* Mutant: A long press leaves the key down for the desktop to see.
AnswerKeyDown ==
  \/ longDone /\ pc' = "stable" /\ UNCHANGED <<wait, key, held, lost>>
  \/ /\ ~longDone /\ since < Long
     /\ IF isPower THEN pc' = "tap" /\ wait' = Tap /\ Send(1) /\ UNCHANGED held
                   ELSE pc' = "script" /\ UNCHANGED <<wait, key, held, lost>>
  \/ ~longDone /\ since >= Long /\ pc' = "stable" /\ UNCHANGED <<wait, key, held, lost>>

\* Mutant: A release may go unanswered whatever held_ms says.
AnswerUntimed ==
  \/ longDone /\ pc' = "stable" /\ UNCHANGED wait
     /\ IF isPower /\ held THEN Send(0) /\ held' = FALSE ELSE UNCHANGED <<key, held, lost>>
  \/ /\ ~longDone /\ pc' \in {"stable", "tap"} /\ wait' = Tap
     /\ IF pc' = "tap" THEN Send(1) ELSE UNCHANGED <<key, lost>>
     /\ UNCHANGED held

\* The release is real: the key goes up after a long power press; a press that was
\* not long is a short one if the time, debounce included, is still below the limit.
Answer ==
  \/ longDone /\ pc' = "stable" /\ UNCHANGED wait
     /\ IF isPower /\ held THEN Send(0) /\ held' = FALSE ELSE UNCHANGED <<key, held, lost>>
  \/ /\ ~longDone /\ since < Long
     /\ IF isPower THEN pc' = "tap" /\ wait' = Tap /\ Send(1) /\ UNCHANGED held
                   ELSE pc' = "script" /\ UNCHANGED <<wait, key, held, lost>>
  \/ ~longDone /\ since >= Long /\ pc' = "stable" /\ UNCHANGED <<wait, key, held, lost>>

Bounce ==
  /\ Awake("bounce")
  /\ \E down \in BOOLEAN :
       /\ IsDown(down)
       /\ IF down THEN pc' = "hold" /\ UNCHANGED <<wait, key, held, lost>> ELSE Answer
  /\ UNCHANGED gesture

\* power_key_short_tap after its sleep.
TapUp ==
  /\ Awake("tap") /\ Send(0) /\ pc' = "stable"
  /\ UNCHANGED <<wait, gesture, last, held, faults>>

\* run_script waits for the script; nobody polls meanwhile.
ScriptEnds ==
  /\ Awake("script") /\ pc' = "stable"
  /\ UNCHANGED <<wait, gesture, last, key, held, lost, faults>>

\* wait_stable_release: up, and still up after the debounce.
Stable ==
  /\ Awake("stable")
  /\ \E down \in BOOLEAN :
       /\ IsDown(down)
       /\ IF down THEN wait' = 1 /\ UNCHANGED pc ELSE wait' = Debounce /\ pc' = "stable2"
  /\ UNCHANGED <<gesture, key, held, lost>>

\* Mutant: The next gesture starts with the button of the last one.
StillUpNot ==
  /\ Awake("stable2") /\ UNCHANGED <<last, faults>>
  /\ pc' = "stable"
  /\ UNCHANGED <<wait, gesture, key, held, lost>>

StillUp ==
  /\ Awake("stable2")
  /\ \E down \in BOOLEAN : IsDown(down) /\ pc' = IF down THEN "stable" ELSE "poll"
  /\ UNCHANGED <<wait, gesture, key, held, lost>>

Thread == Poll \/ SettleDown \/ Identify \/ Hold \/ Bounce \/ TapUp \/ ScriptEnds
            \/ Stable \/ StillUp

BNext == Unload \/ Lines \/ Uinput \/ Die \/ Restart \/ Move \/ Pass \/ Thread

\* The process is scheduled and time goes on; a script ends.
BSpec == BInit /\ [][BNext]_bvars /\ WF_bvars(Pass) /\ WF_bvars(Thread)
          /\ WF_bvars(Unload) /\ WF_bvars(Lines) /\ WF_bvars(Uinput) /\ WF_bvars(Restart)

------------------------------------------------------------------------------
(* Properties.                                                              *)

\* While every write goes through, KEY_POWER is down only during a tap or during a
\* long press of the power button that is still held, and power_key_held says so:
\* no path of a gesture, bounce or early return leaves the desktop with a held power
\* key.  About power_key_long_press_down, _up and power_key_short_tap.
KeyMatchesGesture ==
  lost = 0 =>
    /\ key = 1 => \/ pc = "tap"
                  \/ held /\ isPower /\ longDone /\ pc \in {"hold", "bounce"}
    /\ (held /\ pc \in Running) => key = 1

\* A press taken up after the settle time is answered once: a long one is not answered
\* again at its release, and the only press left without an answer is the one seen
\* down for the last time before the limit whose release was confirmed after it.
\* About the two clocks of handle_one_gesture, long_done and held_ms.
PressAnswered ==
  [][pc = "bounce" =>
       /\ pc' \in {"tap", "script"} => ~longDone
       /\ (pc' = "stable" /\ ~longDone) => (since >= Long /\ seen < Long)]_bvars

\* With the buttons let go for good, the daemon gets back to waiting for a press (or
\* is being started) with the power key up, however the last press bounced.  About
\* the loops of handle_one_gesture and wait_stable_release.
GestureEnds ==
  <>[](finger = "none")
    => []<>(pc \notin Running \ {"poll"} /\ (key = 0 \/ lost > 0))
==============================================================================
