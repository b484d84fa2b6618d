---------------------- MODULE TouchControllers_proofs -----------------------
(***************************************************************************)
(* Theorems about the touch controllers of the two drivers, as build.sh    *)
(* builds either: the eight Hynitron backends (TouchChips) and the         *)
(* FocalTech driver (FocalTouch), which share nothing.                     *)
(*                                                                         *)
(* TouchChips: for every chip and every order of calls, frames and         *)
(* failures, report_need never asks for a key and fingers, a finger that   *)
(* is down stays claimed where the backend keeps claims, and what the      *)
(* driver says of the chip's mode and address is so.  A backend's function *)
(* is an operator from a state to a state, so most of the proof is a lemma *)
(* per layer of them: what it leaves alone (Keeps), that it invents no     *)
(* address (Follows) and no mode (Honest).                                 *)
(*                                                                         *)
(* FocalTouch: for any number of faults and upgrades, in both builds and   *)
(* on every family of chips, power, pins and interrupt are balanced over   *)
(* probe, suspend, resume and remove, and an upgrade that returned success *)
(* has left what it was given, running, but for an agreement by chance and *)
(* a lost reset, which it names.  Between transitions the resources are    *)
(* what suspended says; the invariant says as well what they are inside    *)
(* one, where the half that ran and the half that did not disagree.        *)
(***************************************************************************)
EXTENDS TouchChips, FocalTouch, TLAPS

\* Neither the claims nor the fingers change.
Keeps(s, r) == r.need = s.need /\ r.rep = s.rep /\ r.down = s.down

\* The address becomes the boot loader's in the boot mode only.
Follows(s, r) == r.addr = "boot" => s.addr = "boot" \/ r.work = "ENTER_BOOT"

\* The modes a backend sets without a command that shows them.
Tacit(m) ==
  \/ m = "LP" /\ chip \in {"cst3xx", "cst3240"}
  \/ chip = "cst8xxT" /\ m \in {"NOMAL", "LP", "FAC_TEST"}
  \/ chip = "cst92xx" /\ m \in {"CHARGE", "FAC_TEST", "DEEPSLEEP"}

\* ModeIsReal of a state.
Honest(s) == s.sure => s.dev = Doing(s.work) \/ Tacit(s.work)

\* What a change of mode from s to r has to satisfy.
Sound(s, r) == r \in States /\ Keeps(s, r) /\ Follows(s, r) /\ (Honest(s) => Honest(r))

-----------------------------------------------------------------------------
(* The layers of tp_set_workmode. *)

\* One change after the other.
LEMMA SoundTwice ==
  ASSUME NEW s, NEW r, NEW t, Sound(s, r), Sound(r, t),
         (r.addr = "boot" => s.addr = "boot") \/ t.work = r.work
  PROVE  Sound(s, t)
BY DEF Sound, Keeps, Follows

\* The reset pin keeps all but the chip's mode, and ends a stay at the boot loader's
\* address in the boot mode.
LEMMA RstSound ==
  ASSUME NEW s \in States
  PROVE  Sound(s, Rst(s)) /\ ~Rst(s).sure /\ Rst(s).work = s.work
         /\ (Rst(s).addr = "boot" => s.addr = "boot" /\ s.work # "ENTER_BOOT")
BY DEF Sound, Keeps, Follows, Honest, Rst, States

LEMMA DoingMode == ASSUME NEW m PROVE Doing(m) \in
    {"normal", "gesture", "lp", "debug", "factory", "sleep", "boot", "info"}
BY DEF Doing

\* A command reaches the chip or not; the driver says which.
LEMMA CommandSound ==
  ASSUME NEW s \in States, NEW m \in Modes, NEW bus \in SUBSET Transfers
  PROVE  Sound(s, Command(s, m, bus)) /\ Command(s, m, bus).work = m
         /\ Command(s, m, bus).addr = s.addr /\ Honest(Command(s, m, bus))
<1> DEFINE d == Doing(m)
           r == Command(s, m, bus)
<1>1. d \in {"normal", "gesture", "lp", "debug", "factory", "sleep", "boot", "info"}
  BY DoingMode
<1>2. CASE Gets(s, "command", bus)
  <2>0. Gets(s, "command", bus) = TRUE
    BY <1>2 DEF Gets, Hears
  <2>1. r = [[s EXCEPT !.dev = d] EXCEPT !.work = m, !.sure = TRUE]
    BY <2>0 DEF Command, Tell, Set
  <2>2. r \in States /\ r.dev = d /\ r.work = m /\ r.addr = s.addr /\ Keeps(s, r)
    BY <2>1, <1>1 DEF States, Keeps
  <2> QED BY <2>2 DEF Sound, Follows, Honest
<1>3. CASE ~Gets(s, "command", bus)
  <2>0. Gets(s, "command", bus) = FALSE
    BY <1>3 DEF Gets, Hears
  <2>1. r = [s EXCEPT !.work = m, !.sure = FALSE]
    BY <2>0 DEF Command, Tell, Set
  <2>2. r \in States /\ ~r.sure /\ r.work = m /\ r.addr = s.addr /\ Keeps(s, r)
    BY <2>1 DEF States, Keeps
  <2> QED BY <2>2 DEF Sound, Follows, Honest
<1> QED BY <1>2, <1>3

\* Entering the boot loader resets the chip; it answers there, or it does not.
LEMMA BootSound ==
  ASSUME NEW s \in States, NEW bus \in SUBSET Transfers
  PROVE  Sound(s, Boot(s, bus)) /\ Boot(s, bus).work = "ENTER_BOOT" /\ Honest(Boot(s, bus))
<1> DEFINE r == Rst([s EXCEPT !.addr = "boot"])
           b == EnterBoot(s, bus)
           t == Boot(s, bus)
<1>1. [s EXCEPT !.addr = "boot"] \in States /\ Keeps(s, [s EXCEPT !.addr = "boot"])
  BY DEF States, Keeps
<1>2. r \in States /\ r.dev = "normal" /\ Keeps(s, r)
  BY <1>1 DEF Keeps, Rst, States
<1>3. b \in {r, [r EXCEPT !.dev = "boot"]}
  BY DEF EnterBoot
<1>4. b \in States /\ Keeps(s, b) /\ (b.dev = "boot") \in BOOLEAN
  BY <1>2, <1>3 DEF States, Keeps
<1>5. t = [b EXCEPT !.work = "ENTER_BOOT", !.sure = (b.dev = "boot")]
  BY DEF Boot, Set
<1>6. /\ t \in States /\ Keeps(s, t) /\ t.work = "ENTER_BOOT"
      /\ t.sure = (b.dev = "boot") /\ t.dev = b.dev
  <2> HIDE DEF b
  <2> QED BY <1>4, <1>5 DEF States, Keeps, Modes
<1>7. Doing("ENTER_BOOT") = "boot"
  BY DEF Doing
<1> QED BY <1>6, <1>7 DEF Sound, Follows, Honest

LEMMA IrqSound ==
  ASSUME NEW s \in States
  PROVE  /\ Sound(s, IrqOn(s)) /\ Sound(s, IrqOff(s))
         /\ IrqOn(s).addr = s.addr /\ IrqOff(s).addr = s.addr
         /\ IrqOn(s).work = s.work /\ IrqOff(s).work = s.work
<1>1. ASSUME NEW r \in {IrqOn(s), IrqOff(s)}
      PROVE  /\ r \in States /\ Keeps(s, r) /\ r.addr = s.addr /\ r.work = s.work
             /\ r.sure = s.sure /\ r.dev = s.dev
  BY <1>1 DEF IrqOn, IrqOff, States, Keeps
<1> QED BY <1>1 DEF Sound, Follows, Honest

\* A mode set without a word to the chip is not known to be real, or is tacit.
LEMMA SetSound ==
  ASSUME NEW s \in States, NEW m \in Modes, NEW b \in BOOLEAN, b => Tacit(m)
  PROVE  Sound(s, Set(s, m, b))
<1> DEFINE r == Set(s, m, b)
<1>1. r \in States /\ Keeps(s, r) /\ r.addr = s.addr /\ r.work = m /\ r.sure = b
  BY DEF Set, States, Keeps
<1> QED BY <1>1 DEF Sound, Follows, Honest

LEMMA RefusedSound ==
  ASSUME NEW s \in States
  PROVE  Sound(s, ToNormal(s)) /\ ~ToNormal(s).sure
         /\ Sound(s, Refused(s)) /\ Refused(s).work = s.work
<1>1. Refused(s) \in States /\ Keeps(s, Refused(s)) /\ Refused(s).addr = s.addr
      /\ Refused(s).work = s.work /\ Refused(s).sure = FALSE
  BY DEF Refused, States, Keeps
<1>2. Sound(s, ToNormal(s)) /\ ToNormal(s).sure = FALSE
  <2>1. "NOMAL" \in Modes
    BY DEF Modes
  <2>2. Sound(s, Set(s, "NOMAL", FALSE))
    BY <2>1, SetSound
  <2> QED BY <2>2 DEF ToNormal, Set, States
<1> QED BY <1>1, <1>2 DEF Sound, Follows, Honest

LEMMA SameSound == ASSUME NEW s \in States PROVE Sound(s, s)
BY DEF Sound, Keeps, Follows

LEMMA CommonSound ==
  ASSUME NEW s \in States, NEW m \in Modes, NEW bus \in SUBSET Transfers
  PROVE  Sound(s, Common(s, m, bus)) /\ Common(s, m, bus).work = m
<1>1. CASE m \in {"NOMAL", "DEEPSLEEP"}
  <2>1. PICK q \in {IrqOn(s), IrqOff(s)} : Common(s, m, bus) = Command(q, m, bus)
    BY <1>1 DEF Common
  <2>2. Sound(s, q) /\ q \in States /\ q.addr = s.addr
    BY IrqSound DEF Sound
  <2>3. Sound(q, Command(q, m, bus)) /\ Command(q, m, bus).work = m
    BY <2>2, CommandSound
  <2> QED BY <2>1, <2>2, <2>3, SoundTwice
<1>2. CASE m = "ENTER_BOOT"
  BY <1>2, BootSound DEF Common
<1>3. CASE m \notin {"NOMAL", "DEEPSLEEP", "ENTER_BOOT"}
  BY <1>3, CommandSound DEF Common
<1> QED BY <1>1, <1>2, <1>3

\* As CommonSound, after a reset.
LEMMA ResetCommonSound ==
  ASSUME NEW s \in States, NEW m \in Modes, NEW bus \in SUBSET Transfers
  PROVE  Sound(s, Common(Rst(s), m, bus)) /\ Common(Rst(s), m, bus).work = m
<1>1. Sound(s, Rst(s)) /\ Rst(s) \in States /\ (Rst(s).addr = "boot" => s.addr = "boot")
  BY RstSound DEF Sound
<1>2. Sound(Rst(s), Common(Rst(s), m, bus)) /\ Common(Rst(s), m, bus).work = m
  BY <1>1, CommonSound
<1> QED BY <1>1, <1>2, SoundTwice

-----------------------------------------------------------------------------
(* tp_set_workmode and tp_resum of every chip. *)

LEMMA PlainModes ==
  ASSUME NEW s \in States, NEW m \in Modes, NEW bus \in SUBSET Transfers
  PROVE  /\ chip \in {"cst3xx", "cst3240"} => Sound(s, Mode3xx(s, m, bus))
         /\ chip = "cst3240" => Sound(s, Mode3240(s, m, bus))
         /\ Sound(s, Mode226se(s, m, bus))
         /\ Sound(s, Mode66xx(s, m, bus))
         /\ Sound(s, Mode36xxes(s, m, bus))
<1>1. chip \in {"cst3xx", "cst3240"} => Sound(s, Mode3xx(s, m, bus))
  BY RefusedSound, CommonSound, SetSound DEF Mode3xx, Tacit
<1>2. chip = "cst3240" => Sound(s, Mode3240(s, m, bus))
  BY <1>1, ResetCommonSound DEF Mode3240
<1>3. Sound(s, Mode226se(s, m, bus))
  BY RefusedSound, CommonSound DEF Mode226se
<1>4. Sound(s, Mode66xx(s, m, bus))
  BY RefusedSound, CommonSound, ResetCommonSound, SameSound DEF Mode66xx
<1>5. Sound(s, Mode36xxes(s, m, bus))
  BY <1>4, RefusedSound, CommandSound DEF Mode36xxes
<1> QED BY <1>1, <1>2, <1>3, <1>4, <1>5

LEMMA Mode7xxSound ==
  ASSUME NEW s \in States, NEW m \in Modes, NEW bus \in SUBSET Transfers
  PROVE  Sound(s, Mode7xx(s, m, bus))
<1> DEFINE c == Common(s, m, bus)
<1>1. Sound(s, c) /\ c \in States
  BY CommonSound DEF Sound
<1>2. Sound(s, Refused(c))
  BY <1>1, RefusedSound, SoundTwice
<1>3. CASE m \in {"LP", "BASELINE", "CALIBRATE", "GLOVE", "OTHER"}
  BY <1>3, RefusedSound DEF Mode7xx
<1>4. CASE m = "CHARGE"
  BY <1>4, SameSound DEF Mode7xx
<1>5. CASE m \in {"FAC_TEST", "ENTER_BOOT"}
  BY <1>2, <1>5 DEF Mode7xx
<1>6. CASE m \notin {"LP", "BASELINE", "CALIBRATE", "GLOVE", "OTHER", "CHARGE",
                    "FAC_TEST", "ENTER_BOOT"}
  BY <1>1, <1>6 DEF Mode7xx
<1> QED BY <1>3, <1>4, <1>5, <1>6

LEMMA Mode8xxTSound ==
  ASSUME NEW s \in States, NEW m \in Modes, NEW bus \in SUBSET Transfers, chip = "cst8xxT"
  PROVE  Sound(s, Mode8xxT(s, m, bus))
<1> DEFINE q == IF Gets(s, "ping", bus) THEN s ELSE Rst(s)
           t == Mode8xxT(s, m, bus)
<1>1. Sound(s, q) /\ q \in States /\ (q.addr = "boot" => s.addr = "boot")
  BY SameSound, RstSound DEF Sound
<1>2. Sound(q, t)
  <2> HIDE DEF q
  <2>1. CASE m \in {"BASELINE", "CALIBRATE", "GLOVE", "OTHER"}
    <3>1. t = Refused(q)
      BY <2>1 DEF Mode8xxT, q
    <3> QED BY <1>1, <3>1, RefusedSound
  <2>2. CASE m = "CHARGE"
    <3>1. t = q
      BY <2>2 DEF Mode8xxT, q
    <3> QED BY <1>1, <3>1, SameSound
  <2>3. CASE m \in {"NOMAL", "LP", "FAC_TEST"}
    <3>1. PICK r \in {q, IrqOn(q), Common(q, m, bus)} : t = Set(r, m, TRUE)
      BY <2>3 DEF Mode8xxT, q
    <3>2. Sound(q, r) /\ r \in States /\ ((r.addr = "boot" => q.addr = "boot") \/ r.work = m)
      BY <1>1, SameSound, IrqSound, CommonSound DEF Sound
    <3>3. Sound(r, t) /\ t.work = m
      <4>1. Tacit(m)
        BY <2>3 DEF Tacit
      <4> HIDE DEF t
      <4>2. Sound(r, t)
        BY <3>1, <3>2, <4>1, SetSound
      <4>3. t.work = m
        BY <3>1, <3>2 DEF Set, States
      <4> QED BY <4>2, <4>3
    <3> QED BY <3>2, <3>3, SoundTwice
  <2>4. CASE m \notin {"BASELINE", "CALIBRATE", "GLOVE", "OTHER", "CHARGE", "NOMAL", "LP", "FAC_TEST"}
    <3>1. t = Common(q, m, bus)
      BY <2>4 DEF Mode8xxT, q
    <3> QED BY <1>1, <3>1, CommonSound
  <2> QED BY <2>1, <2>2, <2>3, <2>4
<1> QED BY <1>1, <1>2, SoundTwice

LEMMA Mode92xxSound ==
  ASSUME NEW s \in States, NEW m \in Modes, NEW bus \in SUBSET Transfers, chip = "cst92xx"
  PROVE  Sound(s, Mode92xx(s, m, bus))
<1> DEFINE t == Mode92xx(s, m, bus)
<1>1. CASE m \in {"BASELINE", "CALIBRATE", "GLOVE", "OTHER"}
  BY <1>1, RefusedSound DEF Mode92xx
<1>2. CASE m = "CHARGE"
  <2>1. t = Set(s, m, Gets(s, "command", bus)) /\ Gets(s, "command", bus) \in BOOLEAN
    BY <1>2 DEF Mode92xx, Gets, Hears
  <2>2. Tacit(m)
    BY <1>2 DEF Tacit
  <2> QED BY <2>1, <2>2, SetSound
<1>3. CASE m \in {"DEEPSLEEP", "FAC_TEST"}
  <2> DEFINE q == Tell(s, Doing(m), bus)
             b == "ping" \in bus
  <2>1. t = [q EXCEPT !.work = m, !.sure = b] /\ b \in BOOLEAN
    BY <1>3 DEF Mode92xx, Set
  <2>2. q \in {s, [s EXCEPT !.dev = Doing(m)]}
    BY DEF Tell
  <2>3. q \in States /\ Keeps(s, q) /\ q.addr = s.addr
    BY <2>2, DoingMode DEF States, Keeps
  <2>4. Tacit(m)
    BY <1>3 DEF Tacit
  <2> HIDE DEF q, b
  <2>5. t \in States /\ Keeps(s, t) /\ t.addr = s.addr /\ t.work = m
    <3> HIDE DEF t
    <3> QED BY <2>1, <2>3 DEF States, Keeps
  <2> QED BY <2>4, <2>5 DEF Sound, Follows, Honest
<1>4. CASE m = "ENTER_BOOT"
  <2> DEFINE q == [s EXCEPT !.work = m]
  <2>1. q \in States /\ Keeps(s, q)
    BY DEF States, Keeps
  <2>2. t = Boot(q, bus)
    BY <1>4 DEF Mode92xx
  <2> HIDE DEF q, t
  <2>3. Sound(q, t) /\ t.work = "ENTER_BOOT" /\ Honest(t)
    BY <2>1, <2>2, BootSound
  <2> QED BY <2>1, <2>3 DEF Sound, Keeps, Follows, t
<1>5. CASE m \notin {"BASELINE", "CALIBRATE", "GLOVE", "OTHER", "CHARGE", "DEEPSLEEP",
                    "FAC_TEST", "ENTER_BOOT"}
  BY <1>5, CommonSound DEF Mode92xx
<1> QED BY <1>1, <1>2, <1>3, <1>4, <1>5

LEMMA SetModeSound ==
  ASSUME NEW s \in States, NEW m \in Modes, NEW bus \in SUBSET Transfers, chip \in Chips
  PROVE  Sound(s, SetMode(s, m, bus))
BY PlainModes, Mode7xxSound, Mode8xxTSound, Mode92xxSound DEF SetMode, Chips

\* A resume forgets the boot mode's address.
LEMMA ResumSound ==
  ASSUME NEW s \in States, NEW bus \in SUBSET Transfers, chip \in Chips
  PROVE  /\ Sound(s, Resum(s, bus))
         /\ Resum(s, bus).addr = "boot" =>
              \/ s.addr = "boot" /\ s.work # "ENTER_BOOT"
              \/ Resum(s, bus).work = "ENTER_BOOT"
<1> DEFINE q == Rst(s)
           t == SetMode(q, "NOMAL", bus)
<1>1. Sound(s, q) /\ q \in States /\ (q.addr = "boot" => s.addr = "boot" /\ s.work # "ENTER_BOOT")
  BY RstSound DEF Sound
<1>2. Sound(q, t)
  <2> HIDE DEF q
  <2> QED BY <1>1, SetModeSound DEF Modes
<1>3. Resum(s, bus) = t
  BY DEF Resum
<1>4. Sound(s, t)
  BY <1>1, <1>2, SoundTwice
<1> QED BY <1>1, <1>2, <1>3, <1>4 DEF Sound, Follows

-----------------------------------------------------------------------------
(* updata_tpinfo, after a reset. *)

\* The command for the information, of a chip nobody was told the mode of.
LEMMA InfoSound ==
  ASSUME NEW s \in States, NEW bus \in SUBSET Transfers, ~s.sure
  PROVE  Sound(s, Tell(s, "info", bus)) /\ ~Tell(s, "info", bus).sure
<1> DEFINE t == Tell(s, "info", bus)
<1>1. t \in {s, [s EXCEPT !.dev = "info"]}
  BY DEF Tell
<1>2. t \in States /\ Keeps(s, t) /\ t.addr = s.addr /\ t.work = s.work /\ ~t.sure
  BY <1>1 DEF States, Keeps
<1> QED BY <1>2 DEF Sound, Follows, Honest

LEMMA TpInfoSound ==
  ASSUME NEW s \in States, NEW bus \in SUBSET Transfers, chip \in Chips, ~s.sure, s.addr = "main",
         NEW t \in TpInfo(s, bus)
  PROVE  Sound(s, t)
<1> DEFINE i == Tell(s, "info", bus)
<1>1. Sound(s, i) /\ i \in States
  BY InfoSound DEF Sound
<1>2. Sound(i, SetMode(i, "NOMAL", bus)) /\ Sound(s, SetMode(s, "NOMAL", bus))
  <2> HIDE DEF i
  <2> QED BY <1>1, SetModeSound DEF Modes
<1>3. i.addr = "main"
  BY DEF Tell, States
<1>4. Sound(s, SetMode(i, "NOMAL", bus))
  <2> HIDE DEF i
  <2> QED BY <1>1, <1>2, <1>3, SoundTwice
<1>5. CASE chip # "cst92xx"
  BY <1>1, <1>2, <1>4, <1>5, SameSound
     DEF TpInfo, TpInfo66xx, TpInfo36xxes, TpInfo3240, TpInfo226se, TpInfo3xx, Chips
<1>6. CASE chip = "cst92xx"
  <2> DEFINE o == SetMode(s, "OTHER", bus)
             p == Tell(o, "info", bus)
             n == SetMode(p, "NOMAL", bus)
  <2>1. o = ToNormal(s)
    BY <1>6 DEF SetMode, Mode92xx
  <2>2. Sound(s, o) /\ ~o.sure /\ o \in States /\ o.addr = "main"
    <3>1. ToNormal(s).addr = "main"
      BY DEF ToNormal, Set, States
    <3> HIDE DEF o
    <3> QED BY <2>1, <3>1, RefusedSound DEF Sound
  <2> HIDE DEF o
  <2>3. Sound(o, p) /\ p \in States
    BY <2>2, InfoSound DEF Sound
  <2>4. p.addr = "main"
    BY <2>2 DEF Tell, States
  <2>5. Sound(s, p)
    BY <2>2, <2>3, SoundTwice
  <2>6. t \in {p, n}
    BY <1>6 DEF TpInfo, TpInfo92xx, o
  <2> HIDE DEF p
  <2>7. Sound(p, n)
    BY <2>3, SetModeSound DEF Modes
  <2>8. Sound(s, n)
    BY <2>4, <2>5, <2>7, SoundTwice
  <2> QED BY <2>5, <2>6, <2>8
<1> QED BY <1>5, <1>6

-----------------------------------------------------------------------------
(* tp_report and hyn_irq_report_work. *)

Clears == {"cst3xx", "cst7xx", "cst8xxT"}   \* these drop a claim with every frame

\* Both parts of ClaimsExclude, of a state.
Exclusive(s) ==
  /\ ~({"pos", "key"} \subseteq s.need)
  /\ s.down /\ chip \notin Clears => "pos" \in s.need

\* A report changes claims and fingers only.
Rest(s, r) ==
  /\ r \in States /\ r.work = s.work /\ r.sure = s.sure /\ r.addr = s.addr
  /\ r.dev = s.dev

LEMMA ClaimExclusive ==
  ASSUME NEW s \in States, Exclusive(s), NEW k \in {"pos", "key"}
  PROVE  Rest(s, Claim(s, k)) /\ Exclusive(Claim(s, k))
         /\ (Claim(s, k).down = s.down)
BY DEF Exclusive, Rest, Claim, States

LEMMA GestureExclusive ==
  ASSUME NEW s \in States, Exclusive(s), NEW f \in Frames
  PROVE  Rest(s, Gesture(s, f)) /\ Exclusive(Gesture(s, f))
<1>1. CASE f.ges
  <2>1. Gesture(s, f) = [s EXCEPT !.need = s.need \cup {"ges"}]
    BY <1>1 DEF Gesture
  <2> QED BY <2>1 DEF Exclusive, Rest, States
<1>2. CASE ~f.ges
  <2>1. Gesture(s, f) = s
    BY <1>2 DEF Gesture
  <2> QED BY <2>1 DEF Rest, States
<1> QED BY <1>1, <1>2

\* The fingers of a frame are not part of the claims.
LEMMA RepExclusive ==
  ASSUME NEW s \in States, Exclusive(s), NEW p \in {"none", "up", "down"}
  PROVE  Rest(s, [s EXCEPT !.rep = p]) /\ Exclusive([s EXCEPT !.rep = p])
BY DEF Exclusive, Rest, States

LEMMA KeyThenFingersExclusive ==
  ASSUME NEW s \in States, Exclusive(s), NEW f \in Frames
  PROVE  Rest(s, KeyThenFingers(s, f)) /\ Exclusive(KeyThenFingers(s, f))
<1> DEFINE k == IF f.key THEN Claim(s, "key") ELSE s
           p == IF f.fingers = "up" THEN "none" ELSE "down"
<1>1. Rest(s, k) /\ Exclusive(k) /\ k \in States
  BY ClaimExclusive DEF Rest
<1>2. p \in {"none", "up", "down"}
  OBVIOUS
<1>3. KeyThenFingers(s, f) \in {k, [Claim(k, "pos") EXCEPT !.rep = p]}
  BY DEF KeyThenFingers
<1> HIDE DEF k, p
<1>4. Rest(k, Claim(k, "pos")) /\ Exclusive(Claim(k, "pos")) /\ Claim(k, "pos") \in States
  BY <1>1, ClaimExclusive DEF Rest
<1>5. /\ Rest(Claim(k, "pos"), [Claim(k, "pos") EXCEPT !.rep = p])
      /\ Exclusive([Claim(k, "pos") EXCEPT !.rep = p])
  BY <1>2, <1>4, RepExclusive
<1> QED BY <1>1, <1>3, <1>4, <1>5 DEF Rest

\* The backends that clear the claims before each frame.
LEMMA ClearedExclusive ==
  ASSUME NEW s \in States, chip \in Clears
  PROVE  /\ Rest(s, [s EXCEPT !.need = {}]) /\ Exclusive([s EXCEPT !.need = {}])
         /\ Rest(s, [s EXCEPT !.need = {}, !.rep = "none"])
         /\ Exclusive([s EXCEPT !.need = {}, !.rep = "none"])
BY DEF Exclusive, Rest, States

LEMMA ClearingReports ==
  ASSUME NEW s \in States, chip \in Clears, NEW f \in Frames
  PROVE  /\ Rest(s, Report3xx(s, f)) /\ Exclusive(Report3xx(s, f))
         /\ Rest(s, Report7xx(s, f)) /\ Exclusive(Report7xx(s, f))
         /\ Rest(s, Report8xxT(s, f)) /\ Exclusive(Report8xxT(s, f))
<1> DEFINE a == [s EXCEPT !.need = {}]
           b == [s EXCEPT !.need = {}, !.rep = "none"]
<1>1. Rest(s, a) /\ Exclusive(a) /\ a \in States /\ Rest(s, b) /\ Exclusive(b) /\ b \in States
  BY ClearedExclusive DEF Rest
<1>2. f.fingers \in {"none", "up", "down"}
  BY DEF Frames
<1>3. Report3xx(s, f) \in {a, Gesture(a, f), Claim(a, "key"), [Claim(a, "pos") EXCEPT !.rep = f.fingers]}
  BY DEF Report3xx
<1>4. \E n \in {{}, {"key"}, {"pos"}} :
        Report7xx(s, f) \in {b, Gesture(b, f), [b EXCEPT !.rep = f.fingers, !.need = n]}
  BY DEF Report7xx
<1>5. \E n \in {{}, {"key"}, {"pos"}} :
        Report8xxT(s, f) \in {b, Gesture(b, f), [b EXCEPT !.rep = f.fingers, !.need = n]}
  BY DEF Report8xxT
<1> HIDE DEF a, b
<1>6. /\ Rest(a, Gesture(a, f)) /\ Exclusive(Gesture(a, f))
      /\ Rest(b, Gesture(b, f)) /\ Exclusive(Gesture(b, f))
  BY <1>1, GestureExclusive
<1>7. /\ Rest(a, Claim(a, "key")) /\ Exclusive(Claim(a, "key"))
      /\ Rest(a, Claim(a, "pos")) /\ Exclusive(Claim(a, "pos"))
  BY <1>1, ClaimExclusive
<1>8. /\ Rest(Claim(a, "pos"), [Claim(a, "pos") EXCEPT !.rep = f.fingers])
      /\ Exclusive([Claim(a, "pos") EXCEPT !.rep = f.fingers])
  BY <1>2, <1>7, RepExclusive DEF Rest
<1>9. ASSUME NEW n \in {{}, {"key"}, {"pos"}}
      PROVE  /\ Rest(b, [b EXCEPT !.rep = f.fingers, !.need = n])
             /\ Exclusive([b EXCEPT !.rep = f.fingers, !.need = n])
  BY <1>1, <1>2 DEF Rest, Exclusive, States
<1>10. Rest(s, Report3xx(s, f)) /\ Exclusive(Report3xx(s, f))
  BY <1>1, <1>3, <1>6, <1>7, <1>8 DEF Rest
<1>11. Rest(s, Report7xx(s, f)) /\ Exclusive(Report7xx(s, f))
  BY <1>1, <1>4, <1>6, <1>9 DEF Rest
<1>12. Rest(s, Report8xxT(s, f)) /\ Exclusive(Report8xxT(s, f))
  BY <1>1, <1>5, <1>6, <1>9 DEF Rest
<1> QED BY <1>10, <1>11, <1>12

LEMMA KeepingReports ==
  ASSUME NEW s \in States, Exclusive(s), NEW f \in Frames
  PROVE  /\ Rest(s, Report3240(s, f)) /\ Exclusive(Report3240(s, f))
         /\ Rest(s, Report66xx(s, f)) /\ Exclusive(Report66xx(s, f))
         /\ Rest(s, Report92xx(s, f)) /\ Exclusive(Report92xx(s, f))
<1>1. Rest(s, s)
  BY DEF Rest
<1>2. /\ Rest(s, Gesture(s, f)) /\ Exclusive(Gesture(s, f))
      /\ Rest(s, KeyThenFingers(s, f)) /\ Exclusive(KeyThenFingers(s, f))
  BY GestureExclusive, KeyThenFingersExclusive
<1>3. Rest(s, Report3240(s, f)) /\ Exclusive(Report3240(s, f))
  BY <1>1, <1>2 DEF Report3240
<1>4. Rest(s, Report66xx(s, f)) /\ Exclusive(Report66xx(s, f))
  BY <1>1, <1>2 DEF Report66xx
<1>5. Rest(s, Report92xx(s, f)) /\ Exclusive(Report92xx(s, f))
  <2> DEFINE g == Gesture(s, f)
             k == IF f.key THEN Claim(g, "key") ELSE g
  <2>1. Rest(s, g) /\ Exclusive(g) /\ g \in States
    BY <1>2 DEF Rest
  <2>2. Report92xx(s, f) \in {s, k, [Claim(k, "pos") EXCEPT !.rep = f.fingers]}
    BY DEF Report92xx
  <2>3. k \in {g, Claim(g, "key")}
    OBVIOUS
  <2>4. f.fingers \in {"none", "up", "down"}
    BY DEF Frames
  <2> HIDE DEF g, k
  <2>5. Rest(g, Claim(g, "key")) /\ Exclusive(Claim(g, "key"))
    BY <2>1, ClaimExclusive
  <2>6. Rest(s, k) /\ Exclusive(k) /\ k \in States
    BY <2>1, <2>3, <2>5 DEF Rest
  <2>7. Rest(k, Claim(k, "pos")) /\ Exclusive(Claim(k, "pos"))
    BY <2>6, ClaimExclusive
  <2>8. /\ Rest(Claim(k, "pos"), [Claim(k, "pos") EXCEPT !.rep = f.fingers])
        /\ Exclusive([Claim(k, "pos") EXCEPT !.rep = f.fingers])
    BY <2>4, <2>7, RepExclusive DEF Rest
  <2> QED BY <1>1, <2>2, <2>6, <2>7, <2>8 DEF Rest
<1> QED BY <1>3, <1>4, <1>5

LEMMA ReportExclusive ==
  ASSUME NEW s \in States, Exclusive(s), NEW f \in Frames, chip \in Chips
  PROVE  Rest(s, Report(s, f)) /\ Exclusive(Report(s, f))
<1>1. CASE chip \in Clears
  BY <1>1, ClearingReports DEF Report, Clears
<1>2. CASE chip \notin Clears
  BY <1>2, KeepingReports DEF Report, Clears, Chips, Report226se, Report36xxes
<1> QED BY <1>1, <1>2

LEMMA DeliverExclusive ==
  ASSUME NEW s \in States, Exclusive(s)
  PROVE  Rest(s, Deliver(s)) /\ Exclusive(Deliver(s))
<1>1. CASE "pos" \notin s.need
  BY <1>1 DEF Deliver, Rest
<1>2. CASE "pos" \in s.need /\ s.rep = "down"
  <2>1. Deliver(s) = [s EXCEPT !.down = TRUE]
    BY <1>2 DEF Deliver
  <2> QED BY <1>2, <2>1 DEF Rest, Exclusive, States
<1>3. CASE "pos" \in s.need /\ s.rep # "down"
  <2>1. Deliver(s) = [s EXCEPT !.down = FALSE, !.need = {}]
    BY <1>3 DEF Deliver
  <2> QED BY <2>1 DEF Rest, Exclusive, States
<1> QED BY <1>1, <1>2, <1>3

-----------------------------------------------------------------------------
(* The invariant. *)

\* AddressFollowsMode needs the address of every chip, and ClaimsExclude and
\* ModeIsReal are inductive with the types.
Inv ==
  /\ chip \in Chips /\ st \in States
  /\ Exclusive(st) /\ Honest(st)
  /\ st.addr = "boot" => st.work = "ENTER_BOOT" \/ overBoot

LEMMA InvImplies == Inv => ClaimsExclude /\ DriverKnowsChip
BY DEF Inv, Exclusive, Clears, Honest, Tacit, ClaimsExclude, DriverKnowsChip, ModeIsReal,
       AddressFollowsMode

\* A change of mode leaves the claims.
LEMMA SoundExclusive ==
  ASSUME NEW s, NEW r, Sound(s, r), Exclusive(s) PROVE Exclusive(r)
BY DEF Sound, Keeps, Exclusive

LEMMA InitInv == Init => Inv
BY DEF Init, Inv, Exclusive, Honest, Doing, States, Modes

LEMMA ToolModeInv ==
  ASSUME Inv, NEW m \in Modes, NEW bus \in SUBSET Transfers, ToolMode(m, bus) PROVE Inv'
<1>1. Sound(st, st') /\ chip' = chip /\ st \in States /\ chip \in Chips
  BY SetModeSound DEF ToolMode, Quiet, Inv
<1>2. Exclusive(st')
  BY <1>1, SoundExclusive DEF Inv
<1>3. Exclusive(st)' /\ Honest(st)' /\ (chip \in Chips /\ st \in States)'
  BY <1>1, <1>2 DEF Sound, Honest, Tacit, Exclusive, Inv
<1>4. st'.addr = "boot" => st'.work = "ENTER_BOOT" \/ overBoot'
  BY <1>1 DEF Inv, ToolMode, Sound, Follows
<1> QED BY <1>3, <1>4 DEF Inv

LEMMA ToolResetInv == ASSUME Inv, ToolReset PROVE Inv'
<1>1. /\ Sound(st, st') /\ chip' = chip /\ overBoot' = overBoot /\ st \in States
      /\ st'.work = st.work
      /\ st'.addr = "boot" => st.addr = "boot" /\ st.work # "ENTER_BOOT"
  BY RstSound DEF ToolReset, Quiet, Inv
<1>2. Exclusive(st')
  BY <1>1, SoundExclusive DEF Inv
<1> QED BY <1>1, <1>2 DEF Sound, Honest, Tacit, Exclusive, Inv

LEMMA SuspendInv == ASSUME Inv, NEW bus \in SUBSET Transfers, Suspend(bus) PROVE Inv'
<1> DEFINE q == IrqOff(st)
<1>1. /\ Sound(st, q) /\ q \in States /\ q.addr = st.addr /\ q.work = st.work
      /\ chip' = chip /\ chip \in Chips
  BY IrqSound DEF Suspend, Quiet, Inv, Sound
<1>2. Sound(q, st')
  <2>1. st' = SetMode(q, "DEEPSLEEP", bus)
    BY DEF Suspend
  <2> HIDE DEF q
  <2> QED BY <1>1, <2>1, SetModeSound DEF Modes
<1> HIDE DEF q
<1>3. Sound(st, st')
  BY <1>1, <1>2, SoundTwice
<1>4. Exclusive(st')
  BY <1>3, SoundExclusive DEF Inv
<1>5. st'.addr = "boot" => st'.work = "ENTER_BOOT" \/ overBoot'
  BY <1>3 DEF Suspend, Sound, Follows, Inv
<1> QED BY <1>1, <1>3, <1>4, <1>5 DEF Sound, Honest, Tacit, Exclusive, Inv

\* The fingers that were down were claimed, where claims are kept.
LEMMA ResumeInv == ASSUME Inv, NEW bus \in SUBSET Transfers, Resume(bus) PROVE Inv'
<1> DEFINE r == Resum(st, bus)
           q == IrqOn(r)
<1>1. /\ Sound(st, r) /\ r \in States
      /\ r.addr = "boot" => (st.addr = "boot" /\ st.work # "ENTER_BOOT") \/ r.work = "ENTER_BOOT"
      /\ chip' = chip /\ chip \in Chips /\ overBoot' = overBoot
  BY ResumSound DEF Resume, Quiet, Inv, Sound
<1>2. Sound(r, q) /\ q \in States /\ q.addr = r.addr /\ q.work = r.work
  <2> HIDE DEF r
  <2> QED BY <1>1, IrqSound DEF Sound
<1>3. st' = [q EXCEPT !.need = {}, !.down = q.down /\ "pos" \notin st.need]
  BY DEF Resume
<1>4. Keeps(st, q) /\ Honest(q) /\ (q.addr = "boot" => q.work = "ENTER_BOOT" \/ overBoot)
  <2> HIDE DEF r, q
  <2> QED BY <1>1, <1>2 DEF Sound, Keeps, Inv
<1> HIDE DEF r, q
<1>5. /\ st' \in States /\ st'.need = {} /\ (st'.down => q.down /\ "pos" \notin st.need)
      /\ st'.addr = q.addr /\ st'.work = q.work /\ st'.sure = q.sure /\ st'.dev = q.dev
  BY <1>2, <1>3 DEF States
<1>6. Exclusive(st)'
  BY <1>1, <1>4, <1>5 DEF Exclusive, Keeps, Inv
<1>7. Honest(st)'
  BY <1>1, <1>4, <1>5 DEF Honest, Tacit
<1> QED BY <1>1, <1>4, <1>5, <1>6, <1>7 DEF Inv

\* Frames change claims and fingers only.
LEMMA RestInv ==
  ASSUME Inv, chip' = chip, overBoot' = overBoot, Rest(st, st'), Exclusive(st') PROVE Inv'
BY DEF Rest, Honest, Tacit, Exclusive, Inv

LEMMA InterruptInv == ASSUME Inv, NEW f \in Frames, Interrupt(f) PROVE Inv'
<1> DEFINE r == Report(st, f)
<1>1. Rest(st, r) /\ Exclusive(r) /\ r \in States
  BY ReportExclusive DEF Inv, Rest
<1>2. st' \in {r, Deliver(r)} /\ chip' = chip /\ overBoot' = overBoot
  BY DEF Interrupt, Quiet
<1> HIDE DEF r
<1>3. Rest(r, Deliver(r)) /\ Exclusive(Deliver(r))
  BY <1>1, DeliverExclusive
<1>4. Rest(st, st') /\ Exclusive(st')
  BY <1>1, <1>2, <1>3 DEF Rest
<1> QED BY <1>2, <1>4, RestInv

LEMMA ToolDebugInv ==
  ASSUME Inv, NEW f \in Frames, NEW reads \in SUBSET Parts, ToolDebug(reads, f) PROVE Inv'
<1>1. Rest(st, Report(st, f)) /\ Exclusive(Report(st, f)) /\ Rest(st, st) /\ Exclusive(st)
  BY ReportExclusive DEF Inv, Rest
<1>2. st' \in {st, Report(st, f)} /\ chip' = chip /\ overBoot' = overBoot
  BY DEF ToolDebug
<1> QED BY <1>1, <1>2, RestInv

LEMMA ToolTestInv ==
  ASSUME Inv, NEW reads \in SUBSET Parts, NEW bus \in SUBSET Transfers, NEW known \in BOOLEAN,
         ToolTest(reads, bus, known)
  PROVE  Inv'
<1>1. st' \in {st, Rst(st), Resum(st, bus)} /\ chip' = chip /\ overBoot' = overBoot
  BY DEF ToolTest, Test, Tested, Test66xx, Test3240, Test36xxes, Test226se, Test7xx,
         Test8xxT, Test92xx, Inv, Chips
<1>2. /\ Sound(st, st')
      /\ st'.addr = "boot" => st'.work = "ENTER_BOOT" \/ overBoot
  BY <1>1, SameSound, RstSound, ResumSound DEF Inv
<1>3. Exclusive(st')
  BY <1>2, SoundExclusive DEF Inv
<1> QED BY <1>1, <1>2, <1>3 DEF Sound, Honest, Tacit, Exclusive, Inv

LEMMA UpdatedInv ==
  ASSUME Inv, NEW ok \in BOOLEAN, NEW bus \in SUBSET Transfers, Updated(ok, bus) PROVE Inv'
<1> DEFINE m == [st EXCEPT !.addr = "main"]
           s == Rst(m)
<1>1. s \in States /\ ~s.sure /\ s.addr = "main" /\ Keeps(st, s)
  BY DEF Inv, Rst, States, Keeps
<1>2. PICK t \in IF ok THEN TpInfo(s, bus) ELSE {s} : st' = IrqOn(t)
  BY DEF Updated
<1>3. chip' = chip /\ chip \in Chips
  BY DEF Updated, Quiet, Inv
<1> HIDE DEF s
<1>4. Sound(s, t) /\ t \in States
  BY <1>1, <1>2, <1>3, TpInfoSound, SameSound DEF Sound
<1>5. Sound(t, st') /\ st'.work = t.work /\ st'.addr = t.addr
  BY <1>2, <1>4, IrqSound
<1>6. Sound(s, st')
  BY <1>4, <1>5, SoundTwice
<1>7. Exclusive(s) /\ Honest(s)
  BY <1>1 DEF Inv, Keeps, Exclusive, Honest
<1>8. Exclusive(st')
  BY <1>6, <1>7, SoundExclusive
<1> QED BY <1>1, <1>3, <1>6, <1>7, <1>8 DEF Sound, Follows, Honest, Tacit, Exclusive, Inv

\* Every operation of every backend keeps the invariant.
LEMMA NextInv == Inv /\ [Next]_vars => Inv'
<1> SUFFICES ASSUME Inv, [Next]_vars PROVE Inv'
  OBVIOUS
<1>1. CASE ToolReset
  BY <1>1, ToolResetInv
<1>2. CASE \E bus \in SUBSET Transfers, m \in Modes : ToolMode(m, bus)
  BY <1>2, ToolModeInv
<1>3. CASE \E bus \in SUBSET Transfers : Suspend(bus) \/ Resume(bus)
  BY <1>3, SuspendInv, ResumeInv
<1>4. CASE \E bus \in SUBSET Transfers, reads \in SUBSET Parts, known \in BOOLEAN : ToolTest(reads, bus, known)
  BY <1>4, ToolTestInv
<1>5. CASE \E bus \in SUBSET Transfers, ok \in BOOLEAN : Updated(ok, bus)
  BY <1>5, UpdatedInv
<1>6. CASE \E f \in Frames : Interrupt(f) \/ \E reads \in SUBSET Parts : ToolDebug(reads, f)
  BY <1>6, InterruptInv, ToolDebugInv
<1>7. CASE UNCHANGED vars
  BY <1>7 DEF vars, Inv, Exclusive, Honest, Tacit
<1> QED BY <1>1, <1>2, <1>3, <1>4, <1>5, <1>6, <1>7 DEF Next

THEOREM InvHolds == Spec => []Inv
BY InitInv, NextInv, PTL DEF Spec

\* Keys and fingers are never reported together, and on the backends that keep claims a
\* finger that is down is claimed, so that hyn_resum_work lifts it.
THEOREM ReportsExclude == Spec => []ClaimsExclude
BY InvHolds, InvImplies, PTL

\* A mode that tp_set_workmode returned 0 for is the chip's, and the address is the boot
\* loader's only in the boot mode, unless a mode was set over it.
THEOREM ChipKnown == Spec => []DriverKnowsChip
BY InvHolds, InvImplies, PTL

-----------------------------------------------------------------------------
(* FocalTouch *)

Suspending == \E c \in Callers : task[c] = "suspending"
Resuming   == \E c \in Callers : task[c] = "resuming"
Fetching   == IF up["proc"] = "idle" THEN 0 ELSE 1

\* The suspend for gestures keeps power and pins, so that a resume turns the power on a
\* second time and gives it back when it does not get the pins.
GestureBalance ==
  /\ ~Suspending
  /\ ts.vdd = IF Resuming THEN 2 ELSE 1
  /\ ts.depth = Fetching
  /\ "pins" \in held

\* Power comes first in a resume, and goes last but one in a suspend.
PowerBalance ==
  /\ ts.vdd = IF ts.suspended /\ ~Resuming THEN 0 ELSE 1
  /\ ts.depth = Fetching + IF ts.suspended \/ Suspending THEN 1 ELSE 0
  /\ ts.suspended <=> "pins" \notin held
  /\ ts.suspended \/ Suspending => ~ts.down
  /\ Suspending => ~ts.suspended
  /\ Resuming => ts.suspended

Balance ==
  ~odd =>
    /\ ts.vcc = ts.vdd
    /\ task["fb"] = "idle" \/ task["debugfs"] = "idle"
    /\ IF build.gestures THEN GestureBalance ELSE PowerBalance

\* Nothing runs in a driver that is not there.
Gone ==
  /\ held \subseteq {"wq", "pins"}
  /\ ~odd => ts.vdd = 0 /\ ts.vcc = 0
  /\ \A c \in Callers : task[c] = "idle"
  /\ \A u \in Starters : up[u] = "idle"

\* A chip without power does not run.
ResourceInv ==
  /\ FTypeOK /\ (ts.vdd = 0 => panel = "off")
  /\ drv = "absent" => Gone
  /\ drv # "absent" => Balance

LEMMA ResourcesFollow == ResourceInv => ResourcesBalanced
<1> SUFFICES ASSUME ResourceInv PROVE ResourcesBalanced
  OBVIOUS
<1>1. SuspendedIsWhole
  BY DEF ResourceInv, Balance, GestureBalance, PowerBalance, SuspendedIsWhole, Idle,
         Suspending, Resuming, Fetching, FTypeOK, Callers
<1>2. NothingHeldWhenAbsent
  BY DEF ResourceInv, Gone, NothingHeldWhenAbsent
<1> QED BY <1>1, <1>2 DEF ResourcesBalanced

-----------------------------------------------------------------------------
(* Power. *)

Supplies == [vdd : 0..MaxOn, vcc : 0..MaxOn, depth : Nat, suspended : BOOLEAN,
             queued : BOOLEAN, down : BOOLEAN]

\* Only power changes, and both supplies together unless one of them refuses.
LEMMA PowerOnType ==
  ASSUME NEW t \in Supplies, t.vdd < MaxOn, t.vcc < MaxOn
  PROVE  /\ PowerOn(t) \in Supplies
         /\ PowerOn(t).vdd = t.vdd + 1 /\ PowerOn(t).vcc = t.vcc + 1
         /\ PowerOn(t).depth = t.depth /\ PowerOn(t).suspended = t.suspended
         /\ PowerOn(t).down = t.down
<1>1. t.vdd + 1 \in 0..MaxOn /\ t.vcc + 1 \in 0..MaxOn
  BY DEF Supplies, MaxOn
<1> QED BY <1>1 DEF PowerOn, Supplies

LEMMA PowerOffType ==
  ASSUME NEW t \in Supplies, NEW f \in Failures
  PROVE  /\ PowerOff(t, f) \in Supplies
         /\ f = "none" /\ t.vdd > 0 /\ t.vcc > 0 =>
              PowerOff(t, f).vdd = t.vdd - 1 /\ PowerOff(t, f).vcc = t.vcc - 1
         /\ f = "vdd" \/ t.vdd = 0 => PowerOff(t, f).vdd = t.vdd /\ PowerOff(t, f).vcc = t.vcc
         /\ PowerOff(t, f).depth = t.depth /\ PowerOff(t, f).suspended = t.suspended
         /\ PowerOff(t, f).down = t.down
<1> DEFINE r == PowerOff(t, f)
<1>1. CASE f = "vdd" \/ t.vdd = 0
  <2>1. r = t
    BY <1>1 DEF PowerOff
  <2> QED BY <1>1, <2>1 DEF Supplies, MaxOn
<1>2. CASE f = "both" /\ t.vdd # 0
  <2>1. r = [t EXCEPT !.vdd = t.vdd - 1]
    BY <1>2 DEF PowerOff
  <2>2. t.vdd - 1 \in 0..MaxOn
    BY <1>2 DEF Supplies, MaxOn
  <2> QED BY <1>2, <2>1, <2>2 DEF Supplies
<1>3. CASE f \in {"vcc", "none"} /\ t.vdd # 0 /\ (f = "vcc" \/ t.vcc = 0)
  <2>1. r = t
    BY <1>3 DEF PowerOff
  <2> QED BY <1>3, <2>1
<1>4. CASE f = "none" /\ t.vdd # 0 /\ t.vcc # 0
  <2>1. r = [t EXCEPT !.vdd = t.vdd - 1, !.vcc = t.vcc - 1]
    BY <1>4 DEF PowerOff
  <2>2. t.vdd - 1 \in 0..MaxOn /\ t.vcc - 1 \in 0..MaxOn
    BY <1>4 DEF Supplies, MaxOn
  <2> QED BY <1>4, <2>1, <2>2 DEF Supplies
<1> QED BY <1>1, <1>2, <1>3, <1>4 DEF Failures

LEMMA ChipType ==
  ASSUME NEW t, NEW p \in {"off", "run", "gesture", "boot"}
  PROVE  /\ t.vdd = 0 => Restarted(t) = "off" /\ Powered(t, p) = "off"
         /\ Restarted(t) \in {"off", "run", "boot"}
         /\ Powered(t, p) \in {"off", "run", "gesture", "boot"}
BY DEF Restarted, Powered

-----------------------------------------------------------------------------
(* The balance, action by action. *)

LEMMA FaultType == ASSUME NEW f \in BOOLEAN, faults \in Nat, Fault(f) PROVE faults' \in Nat
BY DEF Fault

\* The state that probe starts from, and its supplies once they are on.
LEMMA ProbedSupplies ==
  /\ Off \in Supplies /\ Off.vdd = 0 /\ Off.vcc = 0
  /\ PowerOn(Off) \in Supplies
  /\ PowerOn(Off).vdd = 1 /\ PowerOn(Off).vcc = 1
  /\ PowerOn(Off).depth = 0 /\ PowerOn(Off).suspended = FALSE
<1>1. Off \in Supplies /\ Off.vdd = 0 /\ Off.vcc = 0 /\ Off.depth = 0 /\ Off.suspended = FALSE
  BY DEF Off, Supplies, MaxOn
<1> QED BY <1>1, PowerOnType DEF MaxOn

LEMMA InitResources == FInit => ResourceInv
<1> SUFFICES ASSUME FInit PROVE ResourceInv
  OBVIOUS
<1>1. ts \in Supplies /\ ts.vdd = 0 /\ ts.vcc = 0
  BY ProbedSupplies DEF FInit
<1>2. FTypeOK
  BY <1>1 DEF FInit, FTypeOK, Supplies
<1>3. Gone
  BY <1>1 DEF FInit, Gone
<1> QED BY <1>2, <1>3 DEF FInit, ResourceInv

LEMMA ProbeResources == ASSUME ResourceInv, Probe PROVE ResourceInv'
<1>1. ts' \in Supplies /\ ts'.vdd = 1 /\ ts'.vcc = 1 /\ ts'.depth = 0 /\ ~ts'.suspended
  BY ProbedSupplies DEF Probe
<1>2. panel' \in {"off", "run", "boot"}
  BY <1>1, ChipType DEF Probe
<1>3. FTypeOK'
  BY <1>1, <1>2 DEF ResourceInv, FTypeOK, Probe, Supplies
<1>4. /\ \A c \in Callers : task'[c] = "idle"
      /\ \A u \in Starters : up'[u] = "idle"
      /\ "pins" \in held'
  BY DEF ResourceInv, Gone, Probe, Resources
<1>5. ~Suspending' /\ ~Resuming' /\ Fetching' = 0
  BY <1>4 DEF Suspending, Resuming, Fetching, Starters
<1>6. Balance'
  BY <1>1, <1>4, <1>5 DEF Balance, GestureBalance, PowerBalance, Callers
<1>7. drv' = "bound" /\ ts'.vdd # 0
  BY <1>1 DEF Probe
<1> QED BY <1>3, <1>6, <1>7 DEF ResourceInv

\* Whatever rung fails, the labels leave at most the workqueue and the pins.
LEMMA ProbeFailsResources ==
  ASSUME ResourceInv, NEW r \in DOMAIN Rungs, NEW f \in Failures, ProbeFails(r, f)
  PROVE  ResourceInv'
<1> DEFINE o == PowerOn(Off)
<1>1. Off \in Supplies /\ o \in Supplies /\ o.vdd = 1 /\ o.vcc = 1
  BY ProbedSupplies
<1>2. ts' \in Supplies /\ (f = "none" => ts'.vdd = 0 /\ ts'.vcc = 0)
  <2>1. ts' \in {Off, PowerOff(o, f)}
    BY DEF ProbeFails
  <2>2. Off.vdd = 0 /\ Off.vcc = 0
    BY ProbedSupplies
  <2> HIDE DEF o
  <2> QED BY <1>1, <2>1, <2>2, PowerOffType
<1>3. panel' \in {"off", "run", "boot", "gesture"} /\ (ts'.vdd = 0 => panel' = "off")
  BY ChipType DEF ProbeFails
<1>4. held' \subseteq {"wq", "pins"}
  BY DEF ProbeFails, Before, Labels, ResourceInv, Gone
<1>5. faults' \in Nat
  BY DEF ProbeFails, Fault, ResourceInv, FTypeOK
<1>6. odd' = (f # "none") /\ UNCHANGED <<build, file, drv, flash, task, up, last, missed, mixed, upgrades>>
  BY DEF ProbeFails
<1>7. FTypeOK'
  BY <1>2, <1>3, <1>4, <1>5, <1>6 DEF ResourceInv, FTypeOK, Supplies, Resources
<1>8. Gone'
  BY <1>2, <1>4, <1>6 DEF ResourceInv, Gone, ProbeFails
<1> QED BY <1>3, <1>7, <1>8 DEF ResourceInv, ProbeFails

LEMMA TouchResources ==
  ASSUME ResourceInv, FInterrupt \/ WorkGesture \/ \E f \in BOOLEAN : Work(f)
  PROVE  ResourceInv'
<1>0. ts \in Supplies /\ odd \in BOOLEAN
  BY DEF ResourceInv, FTypeOK, Supplies
<1>1. /\ UNCHANGED <<build, file, drv, held, panel, flash, task, up, last, missed, mixed, faults, upgrades>>
      /\ ts' \in Supplies /\ ts'.vdd = ts.vdd /\ ts'.vcc = ts.vcc /\ ts'.depth = ts.depth
      /\ ts'.suspended = ts.suspended /\ odd' \in BOOLEAN /\ (odd => odd')
  <2>1. CASE FInterrupt
    BY <1>0, <2>1 DEF FInterrupt, Supplies
  <2>2. CASE WorkGesture
    BY <1>0, <2>2 DEF WorkGesture, Supplies
  <2>3. ASSUME NEW f \in BOOLEAN, Work(f)
        PROVE  /\ ts' \in Supplies /\ ts'.vdd = ts.vdd /\ ts'.vcc = ts.vcc /\ ts'.depth = ts.depth
               /\ ts'.suspended = ts.suspended /\ odd' \in BOOLEAN /\ (odd => odd')
               /\ UNCHANGED <<build, file, drv, held, panel, flash, task, up, last, missed, mixed, faults, upgrades>>
    <3>1. ts' = [ts EXCEPT !.queued = FALSE, !.down = ts'.down] /\ ts'.down \in BOOLEAN
      BY <1>0, <2>3 DEF Work, Supplies
    <3> QED BY <1>0, <2>3, <3>1 DEF Work, Supplies
  <2> QED BY <2>1, <2>2, <2>3
<1>2. odd' \/ ts'.down = ts.down \/ ~ts'.down \/ (Idle /\ ts.vdd # 0)
  BY <1>0 DEF FInterrupt, WorkGesture, Work, ResourceInv, Supplies
<1>3. FTypeOK'
  BY <1>1 DEF ResourceInv, FTypeOK, Supplies
<1>4. CASE drv = "absent"
  BY <1>1, <1>3, <1>4 DEF ResourceInv, Gone
<1>5. CASE drv # "absent"
  <2>1. Balance
    BY <1>5 DEF ResourceInv
  <2>2. Balance'
    <3> SUFFICES ASSUME ~odd' PROVE Balance'
      BY DEF Balance
    <3>1. ~odd /\ (ts'.down => ts.down \/ (Idle /\ ts.vdd # 0))
      BY <1>1, <1>2 DEF ResourceInv, FTypeOK
    <3>2. UNCHANGED <<Suspending, Resuming, Fetching>>
      BY <1>1 DEF Suspending, Resuming, Fetching
    <3>3. CASE build.gestures
      BY <1>1, <2>1, <3>1, <3>2, <3>3 DEF Balance, GestureBalance
    <3>4. CASE ~build.gestures
      <4>1. PowerBalance'
        BY <1>1, <2>1, <3>1, <3>2, <3>4 DEF Balance, PowerBalance, Idle, Suspending, Resuming
      <4> QED BY <1>1, <2>1, <3>1, <3>4, <4>1 DEF Balance
    <3> QED BY <3>3, <3>4
  <2> QED BY <1>1, <1>3, <1>5, <2>2 DEF ResourceInv
<1> QED BY <1>4, <1>5

\* Suspend and resume begin: with gestures a suspend only names the mode, without them
\* the interrupt goes and every finger is lifted.
LEMMA SuspendResources ==
  ASSUME ResourceInv, NEW c \in Callers, FSuspend(c) PROVE ResourceInv'
<1>0. ts \in Supplies /\ drv # "absent" /\ drv' = drv /\ Balance
  BY DEF ResourceInv, FTypeOK, Supplies, Gone, FSuspend, Called
<1>1. CASE build.gestures
  <2>1. /\ ts' \in Supplies /\ ts'.vdd = ts.vdd /\ ts'.vcc = ts.vcc /\ ts'.depth = ts.depth
        /\ panel' \in {panel, "gesture"} /\ (panel = "off" => panel' = "off")
        /\ UNCHANGED <<build, file, drv, held, flash, task, odd, up, last, missed, mixed, faults, upgrades>>
    BY <1>0, <1>1 DEF FSuspend, Supplies
  <2>2. FTypeOK' /\ (ts'.vdd = 0 => panel' = "off")
    BY <2>1 DEF ResourceInv, FTypeOK, Supplies
  <2>3. Balance'
    BY <1>0, <1>1, <2>1 DEF Balance, GestureBalance, Suspending, Resuming, Fetching
  <2> QED BY <1>0, <2>2, <2>3 DEF ResourceInv
<1>2. CASE ~build.gestures
  <2>1. /\ ts' = [ts EXCEPT !.depth = ts.depth + 1, !.down = FALSE]
        /\ task[c] = "idle" /\ task' = [task EXCEPT ![c] = "suspending"]
        /\ odd' = (odd \/ ~Idle) /\ ~ts.suspended
        /\ UNCHANGED <<build, file, drv, held, panel, flash, up, last, missed, mixed, faults, upgrades>>
    BY <1>2 DEF FSuspend, Released, Called
  <2>2. /\ ts' \in Supplies /\ ts'.vdd = ts.vdd /\ ts'.vcc = ts.vcc /\ ts'.depth = ts.depth + 1
        /\ ts'.suspended = ts.suspended /\ ~ts'.down
    <3>1. ts.depth + 1 \in Nat
      BY <1>0 DEF Supplies
    <3> QED BY <1>0, <2>1, <3>1 DEF Supplies
  <2>3. FTypeOK' /\ (ts'.vdd = 0 => panel' = "off")
    BY <2>1, <2>2 DEF ResourceInv, FTypeOK, Supplies, Idle
  <2>4. Balance'
    <3> SUFFICES ASSUME ~odd' PROVE Balance'
      BY DEF Balance
    <3>1. ~odd /\ (\A d \in Callers : task[d] = "idle")
      BY <2>1 DEF Idle
    <3>2. /\ ~Suspending /\ ~Resuming /\ Suspending' /\ ~Resuming' /\ Fetching' = Fetching
          /\ task'["fb"] = "idle" \/ task'["debugfs"] = "idle"
      BY <2>1, <3>1 DEF ResourceInv, FTypeOK, Suspending, Resuming, Fetching, Callers
    <3>3. Fetching \in {0, 1}
      BY DEF Fetching
    <3>4. PowerBalance
      BY <1>0, <1>2, <3>1 DEF Balance
    <3>5. PowerBalance'
      BY <1>0, <2>1, <2>2, <3>2, <3>3, <3>4 DEF PowerBalance, Supplies
    <3> QED BY <1>0, <1>2, <2>1, <2>2, <3>1, <3>2, <3>5 DEF Balance
  <2> QED BY <1>0, <2>3, <2>4 DEF ResourceInv
<1> QED BY <1>1, <1>2 DEF ResourceInv, FTypeOK

LEMMA ResumeResources ==
  ASSUME ResourceInv, NEW c \in Callers, NEW fails \in BOOLEAN, FResume(c, fails)
  PROVE  ResourceInv'
<1>0. ts \in Supplies /\ drv # "absent" /\ drv' = drv /\ Balance
  BY DEF ResourceInv, FTypeOK, Supplies, Gone, FResume, Called
<1>1. /\ ts.suspended /\ task[c] = "idle" /\ odd' = (odd \/ ~Idle)
      /\ UNCHANGED <<build, file, drv, held, flash, up, last, missed, mixed, upgrades>>
      /\ faults' \in Nat
  BY DEF FResume, Called, Fault, ResourceInv, FTypeOK
<1>2. panel' \in {"off", "run", "gesture", "boot"} /\ (ts'.vdd = 0 => panel' = "off")
  BY ChipType DEF FResume, ResourceInv, FTypeOK
<1>3. CASE fails
  <2>1. ts' = ts /\ task' = [task EXCEPT ![c] = "idle"]
    BY <1>3 DEF FResume
  <2>2. FTypeOK'
    BY <1>0, <1>1, <1>2, <2>1 DEF ResourceInv, FTypeOK, Supplies, Idle
  <2>3. task' = task
    BY <1>1, <2>1 DEF ResourceInv, FTypeOK
  <2>4. UNCHANGED <<Suspending, Resuming, Fetching>>
    BY <1>1, <2>3 DEF Suspending, Resuming, Fetching
  <2>5. Balance'
    BY <1>0, <1>1, <2>1, <2>3, <2>4 DEF Balance, GestureBalance, PowerBalance
  <2> QED BY <1>0, <1>2, <2>2, <2>5 DEF ResourceInv
<1>4. CASE ~fails
  <2>1. ts' = PowerOn(ts) /\ task' = [task EXCEPT ![c] = "resuming"]
    BY <1>4 DEF FResume
  <2>2. /\ ts' \in Supplies /\ ts'.vdd = ts.vdd + 1 /\ ts'.vcc = ts.vcc + 1 /\ ts'.depth = ts.depth
        /\ ts'.suspended = ts.suspended /\ ts'.down = ts.down
    BY <1>0, <2>1, PowerOnType DEF FResume
  <2>3. FTypeOK'
    BY <1>1, <1>2, <2>1, <2>2 DEF ResourceInv, FTypeOK, Supplies, Idle
  <2>4. Balance'
    <3> SUFFICES ASSUME ~odd' PROVE Balance'
      BY DEF Balance
    <3>1. ~odd /\ (\A d \in Callers : task[d] = "idle")
      BY <1>1 DEF Idle
    <3>2. /\ ~Suspending /\ ~Resuming /\ ~Suspending' /\ Resuming' /\ Fetching' = Fetching
          /\ task'["fb"] = "idle" \/ task'["debugfs"] = "idle"
      BY <1>1, <2>1, <3>1 DEF ResourceInv, FTypeOK, Suspending, Resuming, Fetching, Callers
    <3>3. CASE build.gestures
      <4>1. GestureBalance
        BY <1>0, <3>1, <3>3 DEF Balance
      <4>2. GestureBalance'
        BY <1>1, <2>2, <3>2, <4>1 DEF GestureBalance
      <4> QED BY <1>0, <1>1, <2>2, <3>1, <3>2, <3>3, <4>2 DEF Balance
    <3>4. CASE ~build.gestures
      <4>1. PowerBalance
        BY <1>0, <3>1, <3>4 DEF Balance
      <4>2. PowerBalance'
        BY <1>1, <2>2, <3>2, <4>1 DEF PowerBalance
      <4> QED BY <1>0, <1>1, <2>2, <3>1, <3>2, <3>4, <4>2 DEF Balance
    <3> QED BY <3>3, <3>4
  <2> QED BY <1>0, <1>2, <2>3, <2>4 DEF ResourceInv
<1> QED BY <1>3, <1>4

\* The second half of a suspend: what was off is off, or all of it is on again.
LEMMA SuspendEndResources ==
  ASSUME ResourceInv, NEW c \in Callers, NEW f \in Failures, SuspendEnd(c, f)
  PROVE  ResourceInv'
<1> DEFINE t == PowerOff(ts, f)
<1>0. ts \in Supplies /\ drv # "absent" /\ drv' = drv /\ Balance
  BY DEF ResourceInv, FTypeOK, Supplies, Gone, SuspendEnd
<1>1. /\ task[c] = "suspending" /\ task' = [task EXCEPT ![c] = "idle"]
      /\ odd' = (odd \/ f \in {"vcc", "both"})
      /\ UNCHANGED <<build, file, drv, flash, up, last, missed, mixed, upgrades>>
      /\ faults' \in Nat
  BY DEF SuspendEnd, Fault, ResourceInv, FTypeOK
<1>2. /\ t \in Supplies /\ t.depth = ts.depth /\ t.suspended = ts.suspended /\ t.down = ts.down
      /\ f = "none" /\ ts.vdd > 0 /\ ts.vcc > 0 => t.vdd = ts.vdd - 1 /\ t.vcc = ts.vcc - 1
      /\ f = "vdd" \/ ts.vdd = 0 => t.vdd = ts.vdd /\ t.vcc = ts.vcc
  BY <1>0, PowerOffType
<1>3. /\ OffFailed(ts, f) => /\ ts' = [t EXCEPT !.depth = IF t.depth > 0 THEN t.depth - 1 ELSE 0]
                            /\ panel' = Restarted(t) /\ held' = held
      /\ ~OffFailed(ts, f) => /\ ts' = [t EXCEPT !.suspended = TRUE]
                             /\ panel' = Powered(t, panel) /\ held' = held \ {"pins"}
  BY DEF SuspendEnd, PinsFreed
<1> HIDE DEF t
<1>4. /\ ts' \in Supplies /\ ts'.vdd = t.vdd /\ ts'.vcc = t.vcc /\ ts'.down = t.down
      /\ held' \subseteq held
      /\ OffFailed(ts, f) => /\ ts'.depth = IF t.depth > 0 THEN t.depth - 1 ELSE 0
                            /\ ts'.suspended = t.suspended
      /\ ~OffFailed(ts, f) => ts'.depth = t.depth /\ ts'.suspended
  <2>1. (IF t.depth > 0 THEN t.depth - 1 ELSE 0) \in Nat
    BY <1>2 DEF Supplies
  <2> QED BY <1>2, <1>3, <2>1 DEF Supplies
<1>5. panel' \in {"off", "run", "gesture", "boot"} /\ (ts'.vdd = 0 => panel' = "off")
  BY <1>3, <1>4, ChipType DEF ResourceInv, FTypeOK
<1>6. FTypeOK'
  BY <1>1, <1>4, <1>5 DEF ResourceInv, FTypeOK, Supplies
<1>7. Balance'
  <2> SUFFICES ASSUME ~odd' PROVE Balance'
    BY DEF Balance
  <2>1. ~odd /\ f \in {"none", "vdd"}
    BY <1>1 DEF Failures
  <2>2. /\ Suspending /\ ~Resuming /\ ~Suspending' /\ ~Resuming' /\ Fetching' = Fetching
        /\ task'["fb"] = "idle" /\ task'["debugfs"] = "idle"
    BY <1>0, <1>1, <2>1 DEF ResourceInv, FTypeOK, Suspending, Resuming, Fetching, Callers, Balance
  <2>3. ~build.gestures /\ PowerBalance /\ ts.vcc = ts.vdd /\ ts.vdd = 1 /\ ts.depth = Fetching + 1
    BY <1>0, <2>1, <2>2 DEF Balance, GestureBalance, PowerBalance
  <2>4. Fetching \in Nat
    BY DEF Fetching
  <2>5. CASE f = "vdd"
    <3>1. OffFailed(ts, f)
      BY <2>5 DEF OffFailed
    <3>2. PowerBalance' /\ ts'.vcc = ts'.vdd
      BY <1>2, <1>3, <1>4, <2>2, <2>3, <2>4, <2>5, <3>1 DEF PowerBalance
    <3> QED BY <1>1, <2>2, <2>3, <3>2 DEF Balance
  <2>6. CASE f = "none"
    <3>1. ~OffFailed(ts, f)
      BY <2>3, <2>6 DEF OffFailed
    <3>2. PowerBalance' /\ ts'.vcc = ts'.vdd
      BY <1>2, <1>3, <1>4, <2>2, <2>3, <2>4, <2>6, <3>1 DEF PowerBalance
    <3> QED BY <1>1, <2>2, <2>3, <3>2 DEF Balance
  <2> QED BY <2>1, <2>5, <2>6
<1> QED BY <1>0, <1>5, <1>6, <1>7 DEF ResourceInv

\* The second half of a resume, which with gestures never gets its pins.
LEMMA ResumeEndResources ==
  ASSUME ResourceInv, NEW c \in Callers, NEW fails \in BOOLEAN, NEW f \in Failures,
         ResumeEnd(c, fails, f)
  PROVE  ResourceInv'
<1> DEFINE t == PowerOff(ts, f)
<1>0. ts \in Supplies /\ drv # "absent" /\ drv' = drv /\ Balance
  BY DEF ResourceInv, FTypeOK, Supplies, Gone, ResumeEnd
<1>1. /\ task[c] = "resuming" /\ task' = [task EXCEPT ![c] = "idle"]
      /\ odd' = (odd \/ f # "none")
      /\ UNCHANGED <<build, file, drv, flash, up, last, missed, mixed, upgrades>>
      /\ faults' \in Nat
  BY DEF ResumeEnd, Fault, ResourceInv, FTypeOK
<1>2. /\ t \in Supplies /\ t.depth = ts.depth /\ t.suspended = ts.suspended /\ t.down = ts.down
      /\ f = "none" /\ ts.vdd > 0 /\ ts.vcc > 0 => t.vdd = ts.vdd - 1 /\ t.vcc = ts.vcc - 1
  BY <1>0, PowerOffType
<1>3. CASE PinsFail(fails)
  <2>1. ts' = t /\ panel' = Powered(t, panel) /\ held' = held
    BY <1>3 DEF ResumeEnd, WithoutPins
  <2> HIDE DEF t
  <2>2. panel' \in {"off", "run", "gesture", "boot"} /\ (ts'.vdd = 0 => panel' = "off")
    BY <2>1, ChipType DEF ResourceInv, FTypeOK
  <2>3. FTypeOK'
    BY <1>1, <1>2, <2>1, <2>2 DEF ResourceInv, FTypeOK, Supplies
  <2>4. Balance'
    <3> SUFFICES ASSUME ~odd' PROVE Balance'
      BY DEF Balance
    <3>1. ~odd /\ f = "none"
      BY <1>1
    <3>2. /\ ~Suspending /\ Resuming /\ ~Suspending' /\ ~Resuming' /\ Fetching' = Fetching
          /\ task'["fb"] = "idle" /\ task'["debugfs"] = "idle"
      BY <1>0, <1>1, <3>1 DEF ResourceInv, FTypeOK, Suspending, Resuming, Fetching, Callers, Balance
    <3>3. CASE build.gestures
      <4>1. GestureBalance /\ ts.vcc = ts.vdd /\ ts.vdd = 2
        BY <1>0, <3>1, <3>2, <3>3 DEF Balance, GestureBalance
      <4>2. GestureBalance' /\ ts'.vcc = ts'.vdd
        BY <1>2, <2>1, <3>1, <3>2, <4>1 DEF GestureBalance
      <4> QED BY <1>1, <3>2, <3>3, <4>2 DEF Balance
    <3>4. CASE ~build.gestures
      <4>1. PowerBalance /\ ts.vcc = ts.vdd /\ ts.vdd = 1
        BY <1>0, <3>1, <3>2, <3>4 DEF Balance, PowerBalance
      <4>2. PowerBalance' /\ ts'.vcc = ts'.vdd
        BY <1>2, <2>1, <3>1, <3>2, <4>1 DEF PowerBalance
      <4> QED BY <1>1, <3>2, <3>4, <4>2 DEF Balance
    <3> QED BY <3>3, <3>4
  <2> QED BY <1>0, <2>2, <2>3, <2>4 DEF ResourceInv
<1>4. CASE ~PinsFail(fails)
  <2>1. /\ f = "none" /\ "pins" \notin held /\ held' = held \cup {"pins"}
        /\ ts' = [ts EXCEPT !.suspended = FALSE, !.depth = IF ts.depth > 0 THEN ts.depth - 1 ELSE 0]
        /\ panel' = Restarted(ts)
    BY <1>4 DEF ResumeEnd, PinsFail
  <2>2. (IF ts.depth > 0 THEN ts.depth - 1 ELSE 0) \in Nat
    BY <1>0 DEF Supplies
  <2>3. /\ ts' \in Supplies /\ ts'.vdd = ts.vdd /\ ts'.vcc = ts.vcc /\ ~ts'.suspended
        /\ ts'.depth = IF ts.depth > 0 THEN ts.depth - 1 ELSE 0
    BY <1>0, <2>1, <2>2 DEF Supplies
  <2>4. panel' \in {"off", "run", "boot"} /\ (ts'.vdd = 0 => panel' = "off")
    BY <2>1, <2>3, ChipType
  <2>5. FTypeOK'
    BY <1>1, <2>1, <2>3, <2>4 DEF ResourceInv, FTypeOK, Supplies, Resources
  <2>6. Balance'
    <3> SUFFICES ASSUME ~odd' PROVE Balance'
      BY DEF Balance
    <3>1. ~odd /\ ~build.gestures
      BY <1>0, <1>1, <2>1 DEF Balance, GestureBalance
    <3>2. /\ ~Suspending /\ Resuming /\ ~Suspending' /\ ~Resuming' /\ Fetching' = Fetching
          /\ task'["fb"] = "idle" /\ task'["debugfs"] = "idle"
      BY <1>0, <1>1, <3>1 DEF ResourceInv, FTypeOK, Suspending, Resuming, Fetching, Callers, Balance
    <3>3. PowerBalance /\ ts.vcc = ts.vdd /\ ts.vdd = 1 /\ ts.depth = Fetching + 1
      BY <1>0, <3>1, <3>2 DEF Balance, PowerBalance
    <3>4. Fetching \in Nat
      BY DEF Fetching
    <3>5. PowerBalance' /\ ts'.vcc = ts'.vdd
      BY <2>1, <2>3, <3>2, <3>3, <3>4 DEF PowerBalance
    <3> QED BY <1>1, <3>1, <3>2, <3>5 DEF Balance
  <2> QED BY <1>0, <2>4, <2>5, <2>6 DEF ResourceInv
<1> QED BY <1>3, <1>4

\* Of the upgrades only /proc's touches what is balanced: its disable_irq, and the
\* enable_irq when it returns.
LEMMA UpgradeResources ==
  ASSUME ResourceInv,
         drv # "absent", UNCHANGED <<build, drv, held, task, odd>>,
         ts' \in Supplies, ts'.depth \in Nat, ~odd => ts'.depth - Fetching' = ts.depth - Fetching,
         ts'.vdd = ts.vdd, ts'.vcc = ts.vcc, ts'.suspended = ts.suspended, ts'.down = ts.down,
         ts'.vdd = 0 => panel' = "off", FTypeOK'
  PROVE  ResourceInv'
<1>1. Suspending' = Suspending /\ Resuming' = Resuming
  BY DEF Suspending, Resuming
<1>2. Fetching \in Nat /\ Fetching' \in Nat /\ ts.depth \in Nat
  BY DEF Fetching, ResourceInv, FTypeOK
<1>3. Balance'
  <2> SUFFICES ASSUME ~odd' PROVE Balance'
    BY DEF Balance
  <2>1. CASE build.gestures
    <3>1. GestureBalance /\ ts.vcc = ts.vdd /\ (task["fb"] = "idle" \/ task["debugfs"] = "idle")
      BY <2>1 DEF ResourceInv, Balance
    <3>2. GestureBalance'
      BY <1>1, <1>2, <3>1 DEF GestureBalance
    <3> QED BY <2>1, <3>1, <3>2 DEF Balance
  <2>2. CASE ~build.gestures
    <3>1. PowerBalance /\ ts.vcc = ts.vdd /\ (task["fb"] = "idle" \/ task["debugfs"] = "idle")
      BY <2>2 DEF ResourceInv, Balance
    <3>2. ts'.depth = Fetching' + (IF ts.suspended \/ Suspending THEN 1 ELSE 0)
      BY <1>2, <3>1 DEF PowerBalance
    <3>3. PowerBalance'
      BY <1>1, <1>2, <3>1, <3>2 DEF PowerBalance
    <3> QED BY <2>2, <3>1, <3>3 DEF Balance
  <2> QED BY <2>1, <2>2
<1> QED BY <1>3 DEF ResourceInv

LEMMA StartResources ==
  ASSUME ResourceInv, NEW f \in {"whole", "bad"}, StartSysfs(f) \/ StartProc(f)
  PROVE  ResourceInv'
<1> USE DEF Begin, StartSysfs, StartProc
<1>0. ts \in Supplies /\ ts.depth + 1 \in Nat /\ drv # "absent"
  BY DEF ResourceInv, FTypeOK, Supplies
<1>1. PICK u \in Starters :
        /\ up' = [up EXCEPT ![u] = "enter"] /\ file' = [file EXCEPT ![u] = f]
        /\ UNCHANGED <<build, drv, held, panel, flash, task, last, missed, odd, faults>>
        /\ upgrades' = upgrades + 1 /\ mixed' \in BOOLEAN
        /\ u = "sysfs" => ts' = ts
        /\ u = "proc" => ts' = [ts EXCEPT !.depth = ts.depth + 1] /\ up["proc"] = "idle"
  BY DEF Starters, ResourceInv, FTypeOK
<1>2. /\ ts' \in Supplies /\ ts'.depth \in Nat
      /\ ts'.vdd = ts.vdd /\ ts'.vcc = ts.vcc /\ ts'.suspended = ts.suspended /\ ts'.down = ts.down
      /\ u = "sysfs" => ts'.depth = ts.depth
      /\ u = "proc" => ts'.depth = ts.depth + 1
  BY <1>0, <1>1 DEF Starters, Supplies
<1>3. ts'.depth - Fetching' = ts.depth - Fetching
  BY <1>0, <1>1, <1>2 DEF Fetching, Starters, ResourceInv, FTypeOK
<1>4. FTypeOK'
  BY <1>1, <1>2 DEF ResourceInv, FTypeOK, Supplies
<1>5. ts'.vdd = 0 => panel' = "off"
  BY <1>1, <1>2 DEF ResourceInv
<1> QED BY <1>0, <1>1, <1>2, <1>3, <1>4, <1>5, UpgradeResources

\* A step within an upgrade, or its end.
LEMMA StepResources ==
  ASSUME ResourceInv, NEW u \in Starters, up[u] # "idle",
         UNCHANGED <<build, drv, held, task, odd>>,
         NEW w \in {"erase", "write", "check"}, NEW r \in {"ok", "fail"},
         Step(u, w) \/ Return(u, r)
  PROVE  /\ ts' \in Supplies /\ ts'.vdd = ts.vdd
         /\ (ts'.vdd = 0 => panel' = "off") /\ FTypeOK' => ResourceInv'
<1>0. ts \in Supplies /\ drv # "absent"
  BY DEF ResourceInv, FTypeOK, Supplies, Gone
<1>1. CASE Step(u, w)
  <2>1. up' = [up EXCEPT ![u] = w] /\ ts' = ts
    BY <1>1 DEF Step
  <2>2. Fetching' = Fetching /\ Fetching \in Nat
    BY <2>1 DEF Fetching, ResourceInv, FTypeOK, Starters
  <2>3. ts.depth \in Nat
    BY <1>0 DEF Supplies
  <2> QED BY <1>0, <2>1, <2>2, <2>3, UpgradeResources
<1>2. CASE Return(u, r)
  <2> DEFINE n == IF u = "proc" /\ ts.depth > 0 THEN ts.depth - 1 ELSE ts.depth
  <2>1. up' = [up EXCEPT ![u] = "idle"] /\ ts' = [ts EXCEPT !.depth = n]
    BY <1>2 DEF Return
  <2>2. n \in Nat /\ ts.depth \in Nat
    BY <1>0 DEF Supplies
  <2>3. /\ ts' \in Supplies /\ ts'.depth = n
        /\ ts'.vdd = ts.vdd /\ ts'.vcc = ts.vcc /\ ts'.suspended = ts.suspended /\ ts'.down = ts.down
    <3> HIDE DEF n
    <3> QED BY <1>0, <2>1, <2>2 DEF Supplies
  <2>4. ~odd => n - Fetching' = ts.depth - Fetching
    <3>1. CASE u = "proc"
      <4>1. Fetching = 1 /\ Fetching' = 0
        BY <2>1, <3>1 DEF Fetching, ResourceInv, FTypeOK, Starters
      <4>2. ~odd => ts.depth > 0
        BY <1>0, <4>1 DEF ResourceInv, Balance, GestureBalance, PowerBalance
      <4> QED BY <2>2, <3>1, <4>1, <4>2
    <3>2. CASE u # "proc"
      <4>1. Fetching = Fetching'
        BY <2>1, <3>2 DEF Fetching, ResourceInv, FTypeOK, Starters
      <4>2. Fetching \in Nat
        BY DEF Fetching
      <4> QED BY <2>2, <3>2, <4>1, <4>2
    <3> QED BY <3>1, <3>2
  <2> HIDE DEF n
  <2> QED BY <1>0, <2>2, <2>3, <2>4, UpgradeResources
<1> QED BY <1>1, <1>2

LEMMA UpgradeStepResources ==
  ASSUME ResourceInv, NEW u \in Starters,
         \/ \E h \in BOOLEAN : Enter(u, h) \/ Erase(u, h) \/ Write(u, h)
         \/ \E a, b, c \in BOOLEAN : Check(u, a, b, c)
  PROVE  ResourceInv'
<1>1. /\ up[u] # "idle" /\ faults' \in Nat
      /\ UNCHANGED <<build, file, drv, held, task, odd, mixed, upgrades>>
  BY DEF Enter, Erase, Write, Check, Fault, ResourceInv, FTypeOK
<1>2. PICK w \in {"erase", "write", "check"}, r \in {"ok", "fail"} : Step(u, w) \/ Return(u, r)
  BY DEF Enter, Erase, Write, Check
<1>3. /\ ts' \in Supplies /\ ts'.vdd = ts.vdd
      /\ (ts'.vdd = 0 => panel' = "off") /\ FTypeOK' => ResourceInv'
  BY <1>1, <1>2, StepResources
<1>4. /\ panel' \in {panel, "boot", Restarted(ts)} /\ (panel = "off" => panel' \in {panel, Restarted(ts)})
  BY DEF Enter, Erase, Write, Check
<1>5. panel' \in {"off", "run", "gesture", "boot"} /\ (ts'.vdd = 0 => panel' = "off")
  BY <1>3, <1>4, ChipType DEF ResourceInv, FTypeOK
<1>6. flash' \in {"whole", "erased", "part", "bad"}
  <2>1. \A h \in BOOLEAN : Erase(u, h) => flash' \in {flash, "erased"}
    BY DEF Erase
  <2>2. \A h \in BOOLEAN : Write(u, h) => flash' \in {flash, file[u], "part"}
    BY DEF Write
  <2>3. (\E h \in BOOLEAN : Enter(u, h)) \/ (\E a, b, c \in BOOLEAN : Check(u, a, b, c))
          => flash' = flash
    BY DEF Enter, Check
  <2> QED BY <2>1, <2>2, <2>3 DEF ResourceInv, FTypeOK
<1>7. /\ up' \in [Starters -> {"idle", "enter", "erase", "write", "check"}]
      /\ last' \in {"none", "ok", "fail"}
  BY <1>2 DEF Step, Return, ResourceInv, FTypeOK
<1>9. missed' \subseteq {"sum", "reset"}
  <2>1. \A a, b, c \in BOOLEAN : Check(u, a, b, c) =>
          missed' = missed \/ \A m \in missed' : m \in {"sum", "reset"}
    BY DEF Check
  <2>2. (\E h \in BOOLEAN : Enter(u, h) \/ Erase(u, h) \/ Write(u, h)) => missed' = missed
    BY DEF Enter, Erase, Write
  <2> QED BY <2>1, <2>2 DEF ResourceInv, FTypeOK
<1>8. FTypeOK'
  BY <1>1, <1>3, <1>5, <1>6, <1>7, <1>9 DEF ResourceInv, FTypeOK, Supplies
<1> QED BY <1>3, <1>5, <1>8

\* Remove waits for the callers, and gives back everything.
LEMMA LeaveResources == ASSUME ResourceInv, Leave PROVE ResourceInv'
<1>1. /\ drv # "absent" /\ drv' = "leaving" /\ held' = held \ {"wq"}
      /\ ts' = [ts EXCEPT !.queued = FALSE]
      /\ UNCHANGED <<build, file, panel, flash, task, up, last, missed, odd, mixed, faults, upgrades>>
  BY DEF Leave
<1>2. /\ ts' \in Supplies /\ ts'.vdd = ts.vdd /\ ts'.vcc = ts.vcc /\ ts'.depth = ts.depth
      /\ ts'.suspended = ts.suspended /\ ts'.down = ts.down
  BY <1>1 DEF ResourceInv, FTypeOK, Supplies
<1>3. FTypeOK'
  BY <1>1, <1>2 DEF ResourceInv, FTypeOK, Supplies
<1>4. UNCHANGED <<Suspending, Resuming, Fetching>> /\ ("pins" \in held <=> "pins" \in held')
  BY <1>1 DEF Suspending, Resuming, Fetching
<1>5. CASE build.gestures
  BY <1>1, <1>2, <1>3, <1>4, <1>5 DEF ResourceInv, Balance, GestureBalance
<1>6. CASE ~build.gestures
  BY <1>1, <1>2, <1>3, <1>4, <1>6 DEF ResourceInv, Balance, PowerBalance
<1> QED BY <1>5, <1>6 DEF ResourceInv, FTypeOK

LEMMA RemovedResources ==
  ASSUME ResourceInv, NEW f \in Failures, Removed(f) PROVE ResourceInv'
<1> DEFINE t == PowerOff(ts, f)
<1>0. ts \in Supplies /\ Balance
  BY DEF Removed, ResourceInv, FTypeOK, Supplies
<1>1. /\ t \in Supplies
      /\ f = "none" /\ ts.vdd > 0 /\ ts.vcc > 0 => t.vdd = ts.vdd - 1 /\ t.vcc = ts.vcc - 1
      /\ f = "vdd" \/ ts.vdd = 0 => t.vdd = ts.vdd /\ t.vcc = ts.vcc
  BY <1>0, PowerOffType
<1>2. ts' = [t EXCEPT !.depth = 0, !.suspended = FALSE, !.down = FALSE]
  BY DEF Removed
<1>3. /\ drv' = "absent" /\ held' = {} /\ panel' = Powered(ts', panel) /\ odd' = (odd \/ f # "none")
      /\ (\A c \in Callers : task[c] = "idle") /\ (\A u \in Starters : up[u] = "idle")
      /\ UNCHANGED <<build, file, flash, task, up, last, missed, mixed, upgrades>> /\ faults' \in Nat
  BY DEF Removed, Idle, Fault, ResourceInv, FTypeOK
<1> HIDE DEF t
<1>4. ts' \in Supplies /\ ts'.vdd = t.vdd /\ ts'.vcc = t.vcc
  BY <1>1, <1>2 DEF Supplies
<1>5. panel' \in {"off", "run", "gesture", "boot"} /\ (ts'.vdd = 0 => panel' = "off")
  BY <1>3, ChipType DEF ResourceInv, FTypeOK
<1>6. FTypeOK'
  BY <1>3, <1>4, <1>5 DEF ResourceInv, FTypeOK, Supplies
<1>7. ~odd' => ts'.vdd = 0 /\ ts'.vcc = 0
  <2> SUFFICES ASSUME ~odd' PROVE ts'.vdd = 0 /\ ts'.vcc = 0
    OBVIOUS
  <2>1. ~odd /\ f = "none" /\ ~Suspending /\ ~Resuming /\ ts.vcc = ts.vdd
    BY <1>0, <1>3 DEF Balance, Suspending, Resuming
  <2>2. ts.vdd \in {0, 1}
    BY <1>0, <2>1 DEF Balance, GestureBalance, PowerBalance
  <2> QED BY <1>1, <1>4, <2>1, <2>2
<1> QED BY <1>3, <1>5, <1>6, <1>7 DEF ResourceInv, Gone

LEMMA NextResources == ResourceInv /\ [FNext]_fvars => ResourceInv'
<1> SUFFICES ASSUME ResourceInv, [FNext]_fvars PROVE ResourceInv'
  OBVIOUS
<1>1. CASE Probe \/ \E r \in DOMAIN Rungs, f \in Failures : ProbeFails(r, f)
  BY <1>1, ProbeResources, ProbeFailsResources
<1>2. CASE FInterrupt \/ WorkGesture \/ \E b \in BOOLEAN : Work(b)
  BY <1>2, TouchResources
<1>3. CASE \E c \in Callers, b \in BOOLEAN : FResume(c, b) \/ \E f \in Failures : ResumeEnd(c, b, f)
  BY <1>3, ResumeResources, ResumeEndResources
<1>4. CASE \E c \in Callers : FSuspend(c) \/ \E f \in Failures : SuspendEnd(c, f)
  BY <1>4, SuspendResources, SuspendEndResources
<1>5. CASE \E f \in {"whole", "bad"} : StartSysfs(f) \/ StartProc(f)
  BY <1>5, StartResources
<1>6. CASE \E u \in Starters : \/ \E h \in BOOLEAN : Enter(u, h) \/ Erase(u, h) \/ Write(u, h)
                              \/ \E a, b, c \in BOOLEAN : Check(u, a, b, c)
  BY <1>6, UpgradeStepResources
<1>7. CASE Leave \/ \E f \in Failures : Removed(f)
  BY <1>7, LeaveResources, RemovedResources
<1>8. CASE UNCHANGED fvars
  <2>1. UNCHANGED <<Suspending, Resuming, Fetching>>
    BY <1>8 DEF fvars, Suspending, Resuming, Fetching
  <2>2. Balance => Balance'
    BY <1>8, <2>1 DEF fvars, Balance, GestureBalance, PowerBalance
  <2>3. Gone => Gone'
    BY <1>8 DEF fvars, Gone
  <2>4. FTypeOK'
    BY <1>8 DEF fvars, ResourceInv, FTypeOK
  <2> QED BY <1>8, <2>2, <2>3, <2>4 DEF fvars, ResourceInv
<1> QED BY <1>1, <1>2, <1>3, <1>4, <1>5, <1>6, <1>7, <1>8 DEF FNext

THEOREM ResourcesHold == FSpec => []ResourceInv
BY InitResources, NextResources, PTL DEF FSpec

\* Power, pins and interrupt follow the device's state, and an unbound driver has given
\* back all but what probe forgets.
THEOREM ResourcesStayBalanced == FSpec => []ResourcesBalanced
BY ResourcesHold, ResourcesFollow, PTL

-----------------------------------------------------------------------------
(* The upgrade. *)

\* One upgrade at a time, and a 6x36 that was not sent away with its file has a whole one.
UpgradeInv ==
  /\ FTypeOK
  /\ ~mixed => up["sysfs"] = "idle" \/ up["proc"] = "idle"
  /\ \A u \in Starters :
       build.family = "6x36" /\ up[u] \in {"erase", "write", "check"} => file[u] = "whole"
  /\ UpgradeIsJudged

\* All that is not an upgrade leaves what it wrote, and starts a whole firmware.
LEMMA OthersJudge ==
  ASSUME UpgradeInv, FTypeOK', UNCHANGED <<build, flash, up, file, last, missed, mixed>>,
         NEW t, NEW p \in {panel, "off"},
         panel' \in {panel, "gesture", Restarted(t), Powered(t, p)}
  PROVE  UpgradeInv'
<1>1. flash = "whole" /\ panel # "boot" => panel' # "boot"
  BY DEF Powered, Restarted
<1> QED BY <1>1 DEF UpgradeInv, UpgradeIsJudged

LEMMA StartJudge ==
  ASSUME UpgradeInv, FTypeOK', NEW f \in {"whole", "bad"}, StartSysfs(f) \/ StartProc(f)
  PROVE  UpgradeInv'
<1>1. PICK u \in Starters :
        /\ up[u] = "idle" /\ up' = [up EXCEPT ![u] = "enter"]
        /\ file' = [file EXCEPT ![u] = f] /\ build' = build
        /\ mixed' = (mixed \/ \E o \in Starters \ {u} : up[o] # "idle")
  BY DEF StartSysfs, StartProc, Begin, Locked, Starters
<1>2. up'[u] = "enter" /\ \A o \in Starters \ {u} : up'[o] = up[o] /\ file'[o] = file[o]
  BY <1>1 DEF UpgradeInv, FTypeOK
<1>3. ~mixed' => up'["sysfs"] = "idle" \/ up'["proc"] = "idle"
  BY <1>1, <1>2 DEF Starters
<1>4. UpgradeIsJudged'
  BY <1>2 DEF UpgradeIsJudged
<1>5. \A o \in Starters :
        build'.family = "6x36" /\ up'[o] \in {"erase", "write", "check"} => file'[o] = "whole"
  BY <1>1, <1>2 DEF UpgradeInv
<1> QED BY <1>3, <1>4, <1>5 DEF UpgradeInv

\* An upgrade that goes on is not judged yet, and one that fails says so.  What returns
\* success has compared the chip's checksum with the file's.
LEMMA UpgradeStepJudge ==
  ASSUME UpgradeInv, FTypeOK', NEW u \in Starters,
         \/ \E h \in BOOLEAN : Enter(u, h) \/ Erase(u, h) \/ Write(u, h)
         \/ \E a, b, c \in BOOLEAN : Check(u, a, b, c)
  PROVE  UpgradeInv'
<1>1. up[u] # "idle" /\ UNCHANGED <<build, file, mixed>>
  BY DEF Enter, Erase, Write, Check
<1>2. PICK n \in {"idle", "erase", "write", "check"} : up' = [up EXCEPT ![u] = n]
  BY DEF Enter, Erase, Write, Check, Step, Return
<1>3. up'[u] = n /\ \A o \in Starters \ {u} : up'[o] = up[o]
  BY <1>2 DEF UpgradeInv, FTypeOK
<1>4. ~mixed' => up'["sysfs"] = "idle" \/ up'["proc"] = "idle"
  BY <1>1, <1>3 DEF UpgradeInv, Starters
<1>5. \A o \in Starters :
        build'.family = "6x36" /\ up'[o] \in {"erase", "write", "check"} => file'[o] = "whole"
  <2>1. ASSUME build.family = "6x36", n \in {"erase", "write", "check"} PROVE file[u] = "whole"
    <3>1. CASE \E h \in BOOLEAN : Enter(u, h)
      <4>1. Family.checks
        BY <2>1 DEF Family, Upgrade6x36
      <4>2. file[u] # "bad"
        BY <1>3, <2>1, <3>1, <4>1 DEF Enter, Return, UpgradeInv, FTypeOK
      <4> QED BY <4>2 DEF UpgradeInv, FTypeOK
    <3>2. CASE \E h \in BOOLEAN : Erase(u, h) \/ Write(u, h)
      BY <2>1, <3>2 DEF Erase, Write, UpgradeInv
    <3>3. CASE \E a, b, c \in BOOLEAN : Check(u, a, b, c)
      BY <2>1, <3>3 DEF Check, UpgradeInv
    <3> QED BY <3>1, <3>2, <3>3
  <2> QED BY <1>1, <1>3, <2>1 DEF UpgradeInv
<1>6. UpgradeIsJudged'
  <2>1. ASSUME NEW a \in BOOLEAN, NEW c \in BOOLEAN, NEW e \in BOOLEAN,
               Check(u, a, c, e), Agrees(u, a, c)
        PROVE  UpgradeIsJudged'
    <3>1. /\ up[u] = "check" /\ flash' = flash
          /\ panel' = IF e /\ panel = "boot" THEN Restarted(ts) ELSE panel
          /\ missed' = {m \in {"sum", "reset"} : IF m = "sum" THEN c ELSE ~e}
      BY <2>1 DEF Check
    <3>2. "sum" \notin missed' => ~c
      BY <3>1
    <3>3. missed' = {} => e
      BY <3>1
    <3>4. ~c => flash = file[u] /\ panel = "boot"
      BY <2>1 DEF Agrees
    <3>5. missed' = {} /\ flash = "whole" => panel' # "boot"
      BY <3>1, <3>3 DEF Restarted
    <3>6. file[u] \in {"whole", "bad"} /\ (build.family = "6x36" => file[u] = "whole")
      BY <3>1 DEF UpgradeInv, FTypeOK
    <3> QED BY <1>1, <3>1, <3>2, <3>4, <3>5, <3>6 DEF UpgradeIsJudged
  <2>2. ASSUME n = "idle", last' # "fail"
        PROVE  \E a, c, e \in BOOLEAN : Check(u, a, c, e) /\ Agrees(u, a, c)
    BY <1>3, <2>2 DEF Enter, Erase, Write, Check, Step, Return, UpgradeInv, FTypeOK
  <2>3. CASE n # "idle" \/ last' = "fail"
    BY <1>3, <2>3 DEF UpgradeIsJudged
  <2> QED BY <2>1, <2>2, <2>3
<1> QED BY <1>4, <1>5, <1>6 DEF UpgradeInv

LEMMA NextJudge == UpgradeInv /\ FTypeOK' /\ [FNext]_fvars => UpgradeInv'
<1> SUFFICES ASSUME UpgradeInv, FTypeOK', [FNext]_fvars PROVE UpgradeInv'
  OBVIOUS
<1>1. CASE \E f \in {"whole", "bad"} : StartSysfs(f) \/ StartProc(f)
  BY <1>1, StartJudge
<1>2. CASE \E u \in Starters : \/ \E h \in BOOLEAN : Enter(u, h) \/ Erase(u, h) \/ Write(u, h)
                              \/ \E a, b, c \in BOOLEAN : Check(u, a, b, c)
  BY <1>2, UpgradeStepJudge
<1>3. CASE Probe \/ \E r \in DOMAIN Rungs, f \in Failures : ProbeFails(r, f)
  <2>1. UNCHANGED <<build, flash, up, file, last, missed, mixed>> /\ panel' \in {Restarted(ts'), Powered(ts', "off")}
    BY <1>3 DEF Probe, ProbeFails
  <2> QED BY <2>1, OthersJudge
<1>4. CASE FInterrupt \/ WorkGesture \/ \E b \in BOOLEAN : Work(b)
  <2>1. UNCHANGED <<build, flash, up, file, last, missed, mixed>> /\ panel' = panel
    BY <1>4 DEF FInterrupt, WorkGesture, Work
  <2> QED BY <2>1, OthersJudge
<1>5. CASE \E c \in Callers, b \in BOOLEAN : FResume(c, b) \/ \E f \in Failures : ResumeEnd(c, b, f)
  <2>1. /\ UNCHANGED <<build, flash, up, file, last, missed, mixed>>
        /\ panel' \in {Restarted(ts), Powered(ts', panel)}
    BY <1>5 DEF FResume, ResumeEnd
  <2> QED BY <2>1, OthersJudge
<1>6. CASE \E c \in Callers : FSuspend(c)
  <2>1. UNCHANGED <<build, flash, up, file, last, missed, mixed>> /\ panel' \in {panel, "gesture"}
    BY <1>6 DEF FSuspend
  <2> QED BY <2>1, OthersJudge
<1>7. CASE \E c \in Callers, f \in Failures : SuspendEnd(c, f)
  <2>1. PICK f \in Failures :
          /\ UNCHANGED <<build, flash, up, file, last, missed, mixed>>
          /\ panel' \in {Restarted(PowerOff(ts, f)), Powered(PowerOff(ts, f), panel)}
    BY <1>7 DEF SuspendEnd
  <2> QED BY <2>1, OthersJudge
<1>8. CASE Leave \/ \E f \in Failures : Removed(f)
  <2>1. UNCHANGED <<build, flash, up, file, last, missed, mixed>> /\ panel' \in {panel, Powered(ts', panel)}
    BY <1>8 DEF Leave, Removed
  <2> QED BY <2>1, OthersJudge
<1>9. CASE UNCHANGED fvars
  <2>1. UNCHANGED <<build, flash, up, file, last, missed, mixed, panel>>
    BY <1>9 DEF fvars
  <2> QED BY <2>1, OthersJudge
<1> QED BY <1>1, <1>2, <1>3, <1>4, <1>5, <1>6, <1>7, <1>8, <1>9 DEF FNext

\* Of upgrades that do not overlap, the one that returned success has left what it was
\* given, on the 6x36 a whole firmware, unless the checksum's one byte agreed by chance;
\* and it runs, unless the reset at the end was lost too.
THEOREM UpgradesAreJudged == FSpec => []UpgradeIsJudged
<1>1. FInit /\ FTypeOK => UpgradeInv
  BY DEF FInit, UpgradeInv, UpgradeIsJudged, Starters
<1>2. ResourceInv => FTypeOK
  BY DEF ResourceInv
<1>3. UpgradeInv => UpgradeIsJudged
  BY DEF UpgradeInv
<1> QED BY <1>1, <1>2, <1>3, NextJudge, ResourcesHold, PTL DEF FSpec
=============================================================================
