---------------------------- MODULE Autorotation ----------------------------
(***************************************************************************)
(* The autorotation service, autorotation-service/pibrick-autorotation.sh: *)
(* a shell loop that turns the screen to the way the device is held, or to *)
(* the orientation in a lock file which autorotation-lock, its D-Bus front *)
(* end and the plasmoid's script write and remove while it runs.           *)
(*                                                                         *)
(* The loop remembers what it applied and never asks the desktop.  It runs *)
(* under "set -e": a rotation that fails ends it when the screen is locked *)
(* and counts as done otherwise.  The desktop may be down at any time.     *)
(***************************************************************************)
EXTENDS Naturals, Sequences

CONSTANTS
  Tilts,       \* the orientations that are tried
  BufSize      \* orient_buf_size (bound: the code's is 5)

Orientations == {"normal", "left", "right", "inverted"}

ASSUME RotationAssumption == Tilts \subseteq Orientations /\ BufSize \in Nat \ {0}

VARIABLES
  tilt,        \* what detect_orientation says of the device, "" if flat
  up,          \* the desktop answers
  screen,      \* what it shows
  lock_file,   \* ORIENTATION_LOCK_FILE: an orientation, "" or "none"
  user,        \* where the locking script is
  ask,         \* the orientation it locks to
  svc,         \* where the service is
  target,      \* locked_orient
  current, pending, lastTo,   \* current_orientation, pending_orientation, last_rotated_to
  buf,         \* orient_buf
  cooling,     \* ROTATION_COOLDOWN_MS has not passed
  read,        \* history: the service has read this lock
  strayed      \* history: what it remembers became wrong and nothing has put it right

desktop == <<tilt, up>>
local == <<target, current, pending, lastTo, buf, cooling>>
rvars == <<tilt, up, screen, lock_file, user, ask, svc, local, read, strayed>>

Fresh ==
  /\ target = "" /\ current = "" /\ pending = "" /\ lastTo = ""
  /\ buf = <<>> /\ cooling = FALSE

RInit ==
  /\ tilt \in Tilts \union {""} /\ up \in BOOLEAN /\ screen \in Tilts
  /\ lock_file \in Tilts \union {"none"} /\ user = "idle" /\ ask = ""
  /\ svc = "poll" /\ Fresh /\ read = FALSE /\ strayed = FALSE

\* What the service remembers is right again, or a cause made it wrong.
Astray(cause) == strayed' = (screen' # current' /\ (strayed \/ cause))

------------------------------------------------------------------------------
(* The world outside.                                                       *)

Tilt ==
  /\ tilt' \in (Tilts \union {""}) \ {tilt}
  /\ UNCHANGED <<up, screen, lock_file, user, ask, svc, local, read, strayed>>

\* The session ends or begins, with the rotation it was left in.
Session ==
  /\ up' = ~up
  /\ UNCHANGED <<tilt, screen, lock_file, user, ask, svc, local, read, strayed>>

\* The device is switched off: the lock file stays, empty if it was being written.
PowerOff ==
  /\ up' = FALSE /\ user' = "idle" /\ ask' = "" /\ svc' = "dead" /\ read' = FALSE
  /\ target' = "" /\ current' = "" /\ pending' = "" /\ lastTo' = "" /\ buf' = <<>>
  /\ cooling' = FALSE /\ strayed' = FALSE
  /\ UNCHANGED <<tilt, screen, lock_file>>

------------------------------------------------------------------------------
(* The user: one command at a time.                                         *)

Locked == lock_file \in Orientations

\* A lock goes before the service has read it.
Unread == Locked /\ ~read /\ screen # current

\* echo > or open("w"): the file is empty before it is written.  The D-Bus service
\* writes it and then runs autorotation-lock; the plasmoid's last resort only writes.
LockTo(o, via) ==
  /\ user = "idle" /\ user' = via /\ ask' = o /\ lock_file' = "" /\ read' = FALSE
  /\ UNCHANGED <<desktop, screen, svc, local>> /\ Astray(Unread)

Lock == \E o \in Tilts, via \in {"dbus", "script", "plasmoid"} : LockTo(o, via)

\* get_current_orientation's answer for what rotate_kde shows, "normal" without one.
Reported == [o \in Orientations |-> IF o = "right" THEN "left" ELSE "normal"]

LockCurrent == LockTo(IF up THEN Reported[screen] ELSE "normal", "script")

LockWrite ==
  /\ user \in {"dbus", "script", "plasmoid"} /\ lock_file' = ask
  /\ \/ user = "dbus" /\ user' = "again" /\ UNCHANGED ask
     \/ user = "script" /\ user' = "apply" /\ UNCHANGED ask
     \/ user = "plasmoid" /\ user' = "idle" /\ ask' = ""
  /\ UNCHANGED <<desktop, screen, svc, local, read, strayed>>

LockAgain ==
  /\ user = "again" /\ user' = "script" /\ lock_file' = "" /\ read' = FALSE
  /\ UNCHANGED <<desktop, screen, ask, svc, local, strayed>>

\* --apply-rotation in a process of its own, whose failure is ignored.
LockApply ==
  /\ user = "apply" /\ user' = "idle" /\ ask' = ""
  /\ screen' = IF up THEN ask ELSE screen
  /\ UNCHANGED <<desktop, lock_file, svc, local, read>> /\ Astray(FALSE)

Unlock ==
  /\ user = "idle" /\ lock_file # "none" /\ lock_file' = "none"
  /\ UNCHANGED <<desktop, screen, user, ask, svc, local, read>> /\ Astray(Unread)

------------------------------------------------------------------------------
(* The service.                                                             *)

\* is_locked
FindsLock ==
  /\ svc = "poll" /\ Locked /\ svc' = "locked"
  /\ UNCHANGED <<desktop, screen, lock_file, user, ask, local, read, strayed>>

\* get_locked_orientation, a second look at the file, which may have gone or be empty.
ReadsLock ==
  /\ svc = "locked"
  /\ LET got == IF lock_file = "none" THEN "" ELSE lock_file
     IN  IF got = current THEN svc' = "poll" /\ UNCHANGED target
                          ELSE svc' = "turn" /\ target' = got
  /\ read' = (read \/ Locked)
  /\ UNCHANGED <<desktop, screen, lock_file, user, ask, current, pending, lastTo, buf,
                 cooling, strayed>>

\* Mutant: the loop turns the screen to the lock and remembers what the sensor said.
TurnsLockedForgetting ==
  /\ svc = "turn" /\ target' = ""
  /\ IF target = "" \/ ~up
     THEN svc' = "dead" /\ UNCHANGED <<screen, current>>
     ELSE svc' = "poll" /\ screen' = target /\ UNCHANGED current
  /\ UNCHANGED <<desktop, lock_file, user, ask, pending, lastTo, buf, cooling, read>>
  /\ Astray(FALSE)

\* apply_rotation as a plain command: no orientation, or no desktop, ends the script.
TurnsLocked ==
  /\ svc = "turn" /\ target' = ""
  /\ IF target = "" \/ ~up
     THEN svc' = "dead" /\ UNCHANGED <<screen, current>>
     ELSE svc' = "poll" /\ screen' = target /\ current' = target
  /\ UNCHANGED <<desktop, lock_file, user, ask, pending, lastTo, buf, cooling, read>>
  /\ Astray(FALSE)

Forgets == pending' = "" /\ buf' = <<>>

\* orient_buf with one more sample.
Buffered ==
  LET b == Append(buf, tilt)
  IN  IF Len(b) > BufSize THEN Tail(b) ELSE b

Agree(b) == \A i \in DOMAIN b : b[i] = tilt

\* A sample while unlocked, up to the first confirmation of a new orientation.
Sample ==
  /\ svc = "poll" /\ ~Locked
  /\ \/ tilt = "" /\ Forgets
     \/ tilt # "" /\ Len(Buffered) < BufSize /\ buf' = Buffered /\ UNCHANGED pending
     \/ /\ tilt # "" /\ Len(Buffered) = BufSize
        /\ \/ (~Agree(Buffered) \/ tilt = current) /\ Forgets
           \/ /\ Agree(Buffered) /\ tilt # current /\ pending = ""
              /\ pending' = tilt /\ buf' = Buffered
  /\ UNCHANGED <<desktop, screen, lock_file, user, ask, svc, target, current, lastTo, cooling,
                 read, strayed>>

\* A sample STABLE_DELAY_MS later: rotate, unless the last rotation is too recent or
\* was to the same orientation.
Decide ==
  /\ svc = "poll" /\ ~Locked /\ tilt # "" /\ Len(Buffered) = BufSize /\ Agree(Buffered)
  /\ tilt # current /\ pending # ""
  /\ IF cooling \/ pending = lastTo
     THEN Forgets /\ UNCHANGED svc
     ELSE svc' = "apply" /\ buf' = Buffered /\ UNCHANGED pending
  /\ UNCHANGED <<desktop, screen, lock_file, user, ask, target, current, lastTo, cooling,
                 read, strayed>>

\* apply_rotation as a condition: set -e is off and it returns 0 without a desktop.
Turns ==
  /\ svc = "apply" /\ svc' = "poll"
  /\ screen' = IF up THEN pending ELSE screen
  /\ current' = pending /\ lastTo' = pending /\ cooling' = TRUE /\ Forgets
  /\ UNCHANGED <<desktop, lock_file, user, ask, target, read>> /\ Astray(~up)

CoolsDown ==
  /\ cooling /\ cooling' = FALSE
  /\ UNCHANGED <<desktop, screen, lock_file, user, ask, svc, target, current, pending, lastTo,
                 buf, read, strayed>>

\* systemd: Restart=on-failure.
Restarts ==
  /\ svc = "dead" /\ svc' = "poll" /\ read' = FALSE /\ strayed' = FALSE
  /\ target' = "" /\ current' = "" /\ pending' = "" /\ lastTo' = "" /\ buf' = <<>>
  /\ cooling' = FALSE
  /\ UNCHANGED <<desktop, screen, lock_file, user, ask>>

Locking == LockWrite \/ LockAgain \/ LockApply
Looping == FindsLock \/ ReadsLock \/ TurnsLocked \/ Sample \/ Turns

RNext ==
  \/ Tilt \/ Session \/ PowerOff \/ Lock \/ LockCurrent \/ Unlock
  \/ Locking \/ Looping \/ Decide \/ CoolsDown \/ Restarts

\* Processes run, time passes, systemd restarts; nobody has to touch the device.
RSpec ==
  /\ RInit /\ [][RNext]_rvars
  /\ WF_rvars(Locking) /\ WF_rvars(Looping) /\ WF_rvars(Decide)
  /\ WF_rvars(CoolsDown) /\ WF_rvars(Restarts)

------------------------------------------------------------------------------
(* Properties.                                                              *)

\* What the loop remembers to have applied is what the screen shows: between rotations,
\* while no lock command is under way, only a lock that it has not read yet has turned the
\* screen away from current_orientation, unless it counted a rotation as done that the
\* desktop did not do (strayed).  The loop compares with what it remembers and never asks
\* the desktop (:1082, :1181).
RemembersScreen ==
  svc = "poll" /\ user = "idle" /\ current # "" /\ ~strayed => screen = current \/ Unread

Wanted == IF Locked THEN lock_file ELSE tilt

\* Once the desktop answers and nobody touches the lock or the device, the screen comes
\* to what the lock file says or, without a lock, to the way the device is held: the
\* loop, the script and a restart do not leave each other's rotation standing.  Two
\* ways it does stay wrong are excepted: the loop counted a rotation as done that the
\* desktop did not do, or a lock came and went unread (strayed); and it will not turn
\* to last_rotated_to again after a lock turned away from it.  About the main loop,
\* is_locked, get_locked_orientation and the writers of the lock file.
ScreenFollows ==
  \A o \in Tilts :
    <>[](/\ up /\ user = "idle" /\ ~strayed /\ Wanted = o
         /\ Locked \/ lastTo # o \/ current = o)
      => <>[](screen = o)
==============================================================================
