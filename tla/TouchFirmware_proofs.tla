-------------------------- MODULE TouchFirmware_proofs --------------------------
(***************************************************************************)
(* Two theorems about TouchFirmware, for every number of packets and power *)
(* cuts: an update of the cst3240 or of the cst7xx that returns success    *)
(* has left the whole image in the flash, and so has one of the cst66xx    *)
(* that came as far as the verify; and every probe finds a flash that does *)
(* not add up.                                                             *)
(*                                                                         *)
(* The update of these three can only come to its end with success from    *)
(* the comparison of the checksum, and that is the flash's: what is left   *)
(* to show is that no other way out keeps a success from an earlier step.  *)
(***************************************************************************)
EXTENDS TouchFirmware, TLAPS

Honest == {"cst3240", "cst7xx", "cst66xx"}

\* The end of an update that says success has Stored behind it, or the cst66xx has
\* given its last try up before the verify.
EndIsHonest ==
  phase = "end" /\ ret = "ok" /\ want = "image" => Stored \/ (chip = "cst66xx" /\ page # Pages)

FwInv ==
  chip \in Honest =>
    /\ phase \in {"boot", "erase", "write", "verify", "reading"} => want = "image"
    /\ EndIsHonest

LEMMA PagesPositive == 0 # Pages
BY PagesAssumption

\* A checksum read from the flash that is the image's.
LEMMA SumIsFlash ==
  ASSUME NEW s \in {Actual, "none"}, s = "image" PROVE Stored
BY DEF Actual

LEMMA BeginHonest == ASSUME NEW r, Begin(r) PROVE FwInv' /\ chip' = chip
BY DEF Begin, FwInv, EndIsHonest

LEMMA RefuseHonest == ASSUME NEW r, Refuse(r) PROVE FwInv' /\ chip' = chip
BY DEF Refuse, FwInv, EndIsHonest

LEMMA FinishHonest == ASSUME NEW r, Finish(r) PROVE FwInv' /\ chip' = chip
BY DEF Finish, FwInv, EndIsHonest

\* A failed try: the next one, or the end with an error - or, where that is the
\* cst66xx's, with the success of an earlier step before any page was counted.
LEMMA AgainHonest ==
  ASSUME NEW r, Again(r), want' = want, want = "image", chip' = chip,
         r = "err" \/ chip = "cst66xx"
  PROVE  FwInv'
<1>1. (phase' = "end" \/ phase' = "boot") /\ ret' = r /\ page' = 0
  BY DEF Again
<1> QED BY <1>1, PagesPositive DEF FwInv, EndIsHonest

\* On to a phase that is not the end.
LEMMA OnwardHonest ==
  ASSUME NEW r, NEW next \in {"boot", "erase", "write", "verify", "reading"}, Onward(r, next),
         want' = want, want = "image"
  PROVE  FwInv'
BY DEF Onward, FwInv, EndIsHonest

LEMMA EnterBootHonest ==
  ASSUME FwInv, chip \in Honest, NEW next \in {"erase", "write"}, EnterBoot(next, "err")
  PROVE  FwInv' /\ chip' = chip
<1>1. want = "image" /\ want' = want /\ chip' = chip
  BY DEF EnterBoot, FwInv
<1>2. CASE Onward("ok", next)
  BY <1>1, <1>2, OnwardHonest
<1>3. CASE Again("err")
  BY <1>1, <1>3, AgainHonest
<1> QED BY <1>1, <1>2, <1>3 DEF EnterBoot

LEMMA TurnHonest ==
  ASSUME FwInv, chip \in Honest, NEW r \in {"ok", "err"}, NEW slot, Sending, Turn(r, slot)
  PROVE  FwInv' /\ chip' = chip
<1>1. want = "image" /\ want' = want /\ chip' = chip /\ phase = "write"
  BY DEF Sending, FwInv
<1>2. phase' \in {"write", "verify"} \/ Again("err")
  BY <1>1 DEF Turn
<1>3. CASE phase' \in {"write", "verify"}
  BY <1>1, <1>3 DEF FwInv, EndIsHonest
<1>4. CASE Again("err")
  BY <1>1, <1>4, AgainHonest
<1> QED BY <1>1, <1>2, <1>3, <1>4

LEMMA SentAgainHonest ==
  ASSUME FwInv, chip \in Honest, Sending \/ Verifying, Again("err")
  PROVE  FwInv' /\ chip' = chip
<1>1. want = "image" /\ want' = want /\ chip' = chip
  BY DEF Sending, Verifying, FwInv
<1> QED BY <1>1, AgainHonest

LEMMA CompareHonest ==
  ASSUME FwInv, chip \in Honest, NEW s \in {Actual, "none"},
         Verifying \/ Read3240, Compare(s, "ok", "err")
  PROVE  FwInv' /\ chip' = chip
<1>1. want = "image" /\ want' = want /\ chip' = chip /\ flash' = flash
  BY DEF Verifying, Read3240, FwInv
<1>2. CASE s = want
  <2>1. Stored
    BY <1>1, <1>2, SumIsFlash
  <2>2. Stored'
    BY <1>1, <2>1 DEF Stored
  <2> QED BY <1>1, <1>2, <2>2 DEF Compare, Onward, FwInv, EndIsHonest
<1>3. CASE s # want
  BY <1>1, <1>3, AgainHonest DEF Compare
<1> QED BY <1>2, <1>3

-----------------------------------------------------------------------------
(* The three backends *)

LEMMA Honest66xx == ASSUME FwInv, chip = "cst66xx", Update66xx PROVE FwInv' /\ chip' = chip
<1>1. chip \in Honest
  BY DEF Honest
<1>2. CASE Erase("ok")
  <2>1. want = "image" /\ want' = want /\ chip' = chip
    BY <1>1, <1>2 DEF Erase, FwInv
  <2>2. Onward("ok", "write") \/ Again("ok")
    BY <1>2 DEF Erase
  <2> QED BY <2>1, <2>2, OnwardHonest, AgainHonest
<1>3. CASE Sending /\ (\/ UNCHANGED flash /\ Turn("err", at)
                       \/ Store(at) /\ \E r \in {"ok", "err"} : Turn(r, at + 1))
  BY <1>1, <1>3, TurnHonest
<1>4. CASE Verifying /\ \E s \in Sum66xx : Compare(s, "ok", "err")
  BY <1>1, <1>4, CompareHonest DEF Sum66xx
<1>5. CASE EnterBoot("erase", "err")
  BY <1>1, <1>5, EnterBootHonest
<1> QED BY <1>2, <1>3, <1>4, <1>5, BeginHonest, RefuseHonest, FinishHonest DEF Update66xx

LEMMA Honest3240 == ASSUME FwInv, chip = "cst3240", Update3240 PROVE FwInv' /\ chip' = chip
<1>1. chip \in Honest
  BY DEF Honest
<1>2. CASE Sending /\ Store(page) /\ (\/ \E r \in {"ok", "err"} : Turn(r, at + 1)
                                      \/ Again("err"))
  BY <1>1, <1>2, TurnHonest, SentAgainHonest
<1>3. CASE Verifying /\ (Sum3240 \/ (Again("err") /\ UNCHANGED sum))
  <2>1. CASE Compare("none", "ok", "err") \/ Again("err")
    BY <1>1, <1>3, <2>1, CompareHonest, SentAgainHonest
  <2>2. CASE Onward(ret, "reading")
    BY <1>1, <1>3, <2>2, OnwardHonest DEF Verifying, FwInv
  <2> QED BY <1>3, <2>1, <2>2 DEF Sum3240
<1>5. CASE Read3240
  BY <1>1, <1>5, CompareHonest DEF Read3240
<1>4. CASE EnterBoot("write", "err")
  BY <1>1, <1>4, EnterBootHonest
<1> QED BY <1>2, <1>3, <1>4, <1>5, BeginHonest, RefuseHonest, FinishHonest DEF Update3240

LEMMA Honest7xx == ASSUME FwInv, chip = "cst7xx", Update7xx PROVE FwInv' /\ chip' = chip
<1>1. chip \in Honest
  BY DEF Honest
<1>2. CASE Page7xx
  BY <1>1, <1>2, TurnHonest, SentAgainHonest DEF Page7xx
<1>3. CASE Sending /\ UNCHANGED flash /\ Onward("err", "end")
  BY <1>3 DEF Sending, Onward, FwInv, EndIsHonest
<1>4. CASE Verifying /\ \E s \in Sum7xx : Compare(s, "ok", "err")
  BY <1>1, <1>4, CompareHonest DEF Sum7xx
<1>5. CASE EnterBoot("write", "err")
  BY <1>1, <1>5, EnterBootHonest
<1> QED BY <1>2, <1>3, <1>4, <1>5, BeginHonest, RefuseHonest, FinishHonest DEF Update7xx

\* The other backends promise nothing here, and stay what they are.
LEMMA OthersStay == ASSUME Update, chip \notin Honest PROVE chip' = chip
<1>1. ASSUME NEW r, Begin(r) \/ Refuse(r) \/ Finish(r) PROVE chip' = chip
  BY <1>1 DEF Begin, Refuse, Finish
<1>2. ASSUME NEW next, NEW r, EnterBoot(next, r) \/ Erase(r) PROVE chip' = chip
  BY <1>2 DEF EnterBoot, Erase
<1>3. Sending \/ Verifying \/ Erase36xxes => chip' = chip
  BY DEF Sending, Verifying, Erase36xxes
<1>4. CASE Update36xxes
  BY <1>1, <1>2, <1>3, <1>4 DEF Update36xxes, Write36xxes
<1>5. CASE Update3xx \/ Update226se
  BY <1>1, <1>2, <1>3, <1>5 DEF Update3xx, Update226se
<1>6. CASE Update8xxT
  BY <1>1, <1>2, <1>3, <1>6 DEF Update8xxT, Write8xxT
<1>7. CASE Update92xx
  BY <1>1, <1>2, <1>3, <1>7 DEF Update92xx, Erase92xx, Write92xx
<1> QED BY <1>4, <1>5, <1>6, <1>7 DEF Update, Honest

LEMMA UpdateHonest == ASSUME FwInv, Update PROVE FwInv'
<1>1. CASE chip \in Honest
  BY <1>1, Honest66xx, Honest3240, Honest7xx DEF Update, Honest
<1>2. CASE chip \notin Honest
  BY <1>2, OthersStay DEF FwInv
<1> QED BY <1>1, <1>2

LEMMA StepHonest == ASSUME FwInv, [Next]_vars PROVE FwInv'
<1>1. CASE Probe \/ ProbeRead
  BY <1>1 DEF Probe, ProbeRead, Judged, FwInv, EndIsHonest
<1>2. CASE PowerCut
  BY <1>2 DEF PowerCut, FwInv, EndIsHonest
<1>3. CASE UNCHANGED vars
  BY <1>3 DEF vars, FwInv, EndIsHonest, Stored
<1> QED BY <1>1, <1>2, <1>3, UpdateHonest DEF Next

\* An update of the cst3240 or the cst7xx that returns success has left the whole
\* image in the flash, and one of the cst66xx that came as far as the verify, for
\* every number of packets and however often the power is cut.
THEOREM SuccessMeansStored == Spec => []SuccessIsStored
<1>1. Init => FwInv
  BY DEF Init, FwInv, EndIsHonest
<1>2. FwInv => SuccessIsStored
  BY DEF FwInv, EndIsHonest, SuccessIsStored, Honest
<1> QED BY <1>1, <1>2, StepHonest, PTL DEF Spec

-----------------------------------------------------------------------------
(* The probe *)

LEMMA ChipStays == ASSUME FwInv, [Next]_vars PROVE chip' = chip
<1>1. CASE Update
  BY <1>1, OthersStay, Honest66xx, Honest3240, Honest7xx DEF Update, Honest
<1> QED BY <1>1 DEF Next, Probe, ProbeRead, Judged, PowerCut, vars

\* A flash that does not add up is seen as such, or not at all.
LEMMA SeenBroken == ASSUME ~Whole, NEW lost PROVE Seen(lost) = "none"
BY DEF Seen, Actual, Whole

\* f is what the probe of a flash that does not add up may see.
LEMMA BrokenIsNeeded ==
  ASSUME chip \in Chips, header = "intact",
         NEW f, f.s = "none", ~f.info
  PROVE  ChipInit(f).need
<1>1. CASE chip = "cst66xx"
  BY <1>1 DEF ChipInit, Init66xx, Judge66xx, Probed
<1>2. CASE chip = "cst3240"
  BY <1>2 DEF ChipInit, Init3240, Judge3240, Probed
<1>3. CASE chip = "cst36xxes"
  BY <1>3 DEF ChipInit, Init36xxes, Judge36xxes, Probed
<1>4. CASE chip = "cst3xx"
  BY <1>4 DEF ChipInit, Init3xx, Judge3xx, Probed
<1>5. CASE chip = "cst226se"
  BY <1>5 DEF ChipInit, Init226se, Judge226se, Probed
<1>6. CASE chip = "cst7xx"
  BY <1>6 DEF ChipInit, Init7xx, Judge7xx, Probed
<1>7. CASE chip = "cst8xxT"
  BY <1>7 DEF ChipInit, Init8xxT, Judge8xxT, NotOlder, Probed
<1>8. CASE chip = "cst92xx"
  <2>1. ASSUME NEW g, g.info = f.info PROVE Judge92xx(g)
    BY <2>1 DEF Judge92xx
  <2>2. ~f.info
    OBVIOUS
  <2>3. Judge92xx([f EXCEPT !.s = Seen(~f.info)])
    BY <2>1, <2>2 DEF Judge92xx
  <2> QED BY <1>8, <2>3 DEF ChipInit, Init92xx, Probed
<1> QED BY <1>1, <1>2, <1>3, <1>4, <1>5, <1>6, <1>7, <1>8 DEF Chips

LEMMA DamagedIsRefused ==
  ASSUME chip \in {"cst66xx", "cst3240", "cst226se", "cst7xx"}, header = "damaged", NEW f
  PROVE  ~ChipInit(f).need
<1>1. CASE chip = "cst66xx"
  BY <1>1 DEF ChipInit, Init66xx, Judge66xx, Probed
<1>2. CASE chip = "cst3240"
  BY <1>2 DEF ChipInit, Init3240, Judge3240, Probed
<1>3. CASE chip = "cst226se"
  BY <1>3 DEF ChipInit, Init226se, Judge226se, Probed
<1>4. CASE chip = "cst7xx"
  BY <1>4 DEF ChipInit, Init7xx, Judge7xx, Probed
<1> QED BY <1>1, <1>2, <1>3, <1>4

\* A chip whose flash does not add up is found at the next probe by every backend,
\* whatever the bus lost, as long as the image compiled in is intact, and the backends
\* that check that image never ask for a damaged one to be written.
THEOREM ProbeJudgesRight == Spec => ProbeJudges
<1> DEFINE Inv == FwInv /\ chip \in Chips
<1>1. Init => Inv
  BY DEF Init, FwInv, EndIsHonest
<1>2. Inv /\ [Next]_vars => Inv'
  BY StepHonest, ChipStays
<1>3. ASSUME Inv, NEW lost \in BOOLEAN, Judged(lost)
      PROVE  /\ (~Whole /\ header = "intact") => need'
             /\ (need' /\ header = "damaged")
                  => chip \notin {"cst66xx", "cst3240", "cst226se", "cst7xx"}
  <2>1. PICK info \in BOOLEAN, typ \in BOOLEAN,
             ver \in {"older", "same", "newer"} :
          LET i == ChipInit([s |-> Seen(lost), lost |-> lost, info |-> info,
                             typ |-> typ, ver |-> ver])
          IN /\ info => Whole
             /\ sum' = i.sum /\ need' = i.need /\ addr' = i.addr
    BY <1>3, Zenon DEF Judged
  <2> DEFINE f == [s |-> Seen(lost), lost |-> lost, info |-> info, typ |-> typ, ver |-> ver]
  <2>2. f.s = Seen(lost) /\ f.info = info
    OBVIOUS
  <2>3. need' = ChipInit(f).need
    BY <2>1
  <2> HIDE DEF f
  <2>4. ASSUME ~Whole, header = "intact" PROVE need'
    <3>1. f.s = "none" /\ ~f.info
      BY <2>1, <2>2, <2>4, SeenBroken
    <3>2. ChipInit(f).need
      BY <1>3, <2>4, <3>1, BrokenIsNeeded
    <3> QED BY <2>3, <3>2
  <2>5. ASSUME need', header = "damaged"
        PROVE  chip \notin {"cst66xx", "cst3240", "cst226se", "cst7xx"}
    BY <2>3, <2>5, DamagedIsRefused
  <2> QED BY <2>4, <2>5
<1>4. ASSUME Inv, [Next]_vars, phase \in {"off", "probing"}, phase' = "idle"
      PROVE  \E lost \in BOOLEAN : Judged(lost)
  <2>1. ~PowerCut /\ ~(UNCHANGED vars)
    BY <1>4 DEF PowerCut, vars
  <2>2. ASSUME NEW r, Begin(r) \/ Refuse(r) \/ Finish(r) PROVE FALSE
    BY <1>4, <2>2 DEF Begin, Refuse, Finish
  <2>3. ASSUME NEW next, NEW r, EnterBoot(next, r) \/ Erase(r) PROVE FALSE
    BY <1>4, <2>3 DEF EnterBoot, Erase
  <2>4. ~Sending /\ ~Verifying /\ ~Erase36xxes /\ ~Read3240
    BY <1>4 DEF Sending, Verifying, Erase36xxes, Read3240
  <2>5. ~Update66xx /\ ~Update3240 /\ ~Update7xx
    BY <2>2, <2>3, <2>4 DEF Update66xx, Update3240, Update7xx, Page7xx
  <2>6. ~Update36xxes /\ ~Update3xx /\ ~Update226se
    BY <2>2, <2>3, <2>4 DEF Update36xxes, Write36xxes, Update3xx, Update226se
  <2>7. ~Update8xxT /\ ~Update92xx
    BY <2>2, <2>3, <2>4 DEF Update8xxT, Write8xxT, Update92xx, Erase92xx, Write92xx
  <2>8. Probe \/ ProbeRead
    BY <1>4, <2>1, <2>5, <2>6, <2>7 DEF Next, Update
  <2> QED BY <1>4, <2>8 DEF Probe, ProbeRead
<1>5. Inv /\ [Next]_vars =>
        [(phase \in {"off", "probing"} /\ phase' = "idle")
           => /\ (~Whole /\ header = "intact") => need'
              /\ (need' /\ header = "damaged")
                   => chip \notin {"cst66xx", "cst3240", "cst226se", "cst7xx"}]_vars
  BY <1>3, <1>4
<1> QED BY <1>1, <1>2, <1>5, PTL DEF Spec, ProbeJudges
=================================================================================
