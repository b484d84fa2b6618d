------------------------------ MODULE Panel_proofs ------------------------------
(***************************************************************************)
(* Theorems about Panel: in every build and for any number of switches,    *)
(* profiles and rebinds, the supplies follow DRM, the panel stays dark     *)
(* after the shutdown, and it shows what DRM and the user have set.        *)
(*                                                                         *)
(* The first two rest on two facts.  A DCS command moves neither the       *)
(* supplies nor the reset line, so what the user does beside DRM cannot    *)
(* disturb them; and the 9203 build's own `powered' is set whenever DRM    *)
(* holds the panel for prepared, so its unprepare never leaves the         *)
(* supplies on.                                                            *)
(*                                                                         *)
(* What is shown rests on ShowInv: a panel with supplies hears every       *)
(* command; a profile write that is under way carries the profile that is  *)
(* chosen; and drm_panel's own flag is down on every way to its enable     *)
(* unless the user has switched since, so that the enable is not skipped.  *)
(***************************************************************************)
EXTENDS Panel, TLAPS

HwFields == {"supplied", "reset", "awake", "shows", "level", "regs"}

\* g is what commands have made of h.
Keeps(h, g) ==
  DOMAIN g = HwFields /\ g.supplied = h.supplied /\ g.reset = h.reset

PanelInv ==
  /\ DOMAIN hw = HwFields /\ DOMAIN ctx = {"enabled", "powered", "profile"}
  /\ prepared \in BOOLEAN
  /\ drm \in {"off", "prepare", "apply", "on", "enable?", "enable", "up",
              "disable", "unprepare"}
  /\ ~bound => drm = "off"
  /\ down => bound /\ hw.reset /\ drm \in {"off", "up", "disable", "unprepare"}
  /\ ~down =>
       /\ drm \in {"off", "prepare", "apply", "on"} => prepared = FALSE
       /\ drm \in {"apply", "on"} => hw.supplied = TRUE
       /\ drm \notin {"prepare", "apply", "on"} => hw.supplied = prepared
       /\ variant = "9203" /\ prepared => ctx.powered

-----------------------------------------------------------------------------
(* Commands *)

LEMMA SentKeeps ==
  ASSUME NEW h, NEW g, DOMAIN h = HwFields, Keeps(h, g)
  PROVE  Keeps(h, Sent(h, g))
BY DEF Sent, Keeps

LEMMA LitKeeps == ASSUME NEW h, DOMAIN h = HwFields PROVE Keeps(h, Lit(h))
<1>1. Keeps(h, [h EXCEPT !.awake = TRUE, !.shows = TRUE])
  BY DEF Keeps, HwFields
<1> QED BY <1>1, SentKeeps DEF Lit

LEMMA DarkKeeps == ASSUME NEW h, DOMAIN h = HwFields PROVE Keeps(h, Dark(h))
<1>1. Keeps(h, [h EXCEPT !.shows = FALSE])
  BY DEF Keeps, HwFields
<1> QED BY <1>1, SentKeeps DEF Dark

LEMMA AsleepKeeps == ASSUME NEW h, DOMAIN h = HwFields PROVE Keeps(h, Asleep(h))
<1>1. Keeps(h, [h EXCEPT !.awake = FALSE])
  BY DEF Keeps, HwFields
<1> QED BY <1>1, SentKeeps DEF Asleep

LEMMA LeveledKeeps ==
  ASSUME NEW h, NEW l, DOMAIN h = HwFields PROVE Keeps(h, Leveled(h, l))
<1>1. Keeps(h, [h EXCEPT !.level = l])
  BY DEF Keeps, HwFields
<1> QED BY <1>1, SentKeeps DEF Leveled

LEMMA RegsKeeps ==
  ASSUME NEW h, NEW r, DOMAIN h = HwFields PROVE Keeps(h, [h EXCEPT !.regs = r])
BY DEF Keeps, HwFields

LEMMA WrittenKeeps ==
  ASSUME NEW h, NEW p, DOMAIN h = HwFields PROVE Keeps(h, Written(h, p))
<1> DEFINE r == [x \in DOMAIN h.regs |-> IF x \in DOMAIN Table(p) THEN Table(p)[x]
                                         ELSE h.regs[x]]
<1>1. Keeps(h, [h EXCEPT !.regs = r])
  BY RegsKeeps
<1>2. Written(h, p) = Sent(h, [h EXCEPT !.regs = r])
  BY DEF Written
<1> HIDE DEF r
<1> QED BY <1>1, <1>2, SentKeeps

LEMMA KeepsTwice ==
  ASSUME NEW h, NEW g, NEW k, Keeps(h, g), Keeps(g, k) PROVE Keeps(h, k)
BY DEF Keeps

LEMMA OffKeeps == ASSUME NEW h, DOMAIN h = HwFields PROVE Keeps(h, Asleep(Dark(h)))
<1>1. Keeps(h, Dark(h)) /\ DOMAIN Dark(h) = HwFields
  BY DarkKeeps DEF Keeps
<1>2. Keeps(Dark(h), Asleep(Dark(h)))
  BY <1>1, AsleepKeeps
<1> QED BY <1>1, <1>2, KeepsTwice

LEMMA OnKeeps == ASSUME NEW h, DOMAIN h = HwFields PROVE Keeps(h, On(h))
<1>1. ASSUME NEW l PROVE Keeps(h, Leveled(h, l)) /\ Keeps(h, Lit(Leveled(h, l)))
  <2>1. Keeps(h, Leveled(h, l)) /\ DOMAIN Leveled(h, l) = HwFields
    BY LeveledKeeps DEF Keeps
  <2> QED BY <2>1, LitKeeps, KeepsTwice
<1>2. Keeps(h, On9203(h)) /\ Keeps(h, On9202(h)) /\ Keeps(h, On5inch(h))
  BY <1>1 DEF On9203, On9202, On5inch
<1>3. Keeps(h, On548(h))
  <2> DEFINE g == Sent(h, [h EXCEPT !.regs = InitialColours])
             k == Leveled(g, MaxLevel)
  <2>1. Keeps(h, g)
    BY RegsKeeps, SentKeeps
  <2>2. On548(h) = Lit(k)
    BY DEF On548
  <2>3. DOMAIN g = HwFields
    BY <2>1 DEF Keeps
  <2>4. Keeps(g, k) /\ DOMAIN k = HwFields
    <3> HIDE DEF g
    <3> QED BY <2>3, LeveledKeeps DEF Keeps
  <2> HIDE DEF g, k
  <2>5. Keeps(k, Lit(k))
    BY <2>4, LitKeeps
  <2> QED BY <2>1, <2>2, <2>4, <2>5, KeepsTwice
<1> QED BY <1>2, <1>3 DEF On

LEMMA EnableKeeps ==
  ASSUME DOMAIN hw = HwFields PROVE Keeps(hw, Backlit(FuncsEnable(hw), TRUE))
<1>1. Keeps(hw, hw)
  BY DEF Keeps
<1>2. Keeps(hw, FuncsEnable(hw)) /\ DOMAIN FuncsEnable(hw) = HwFields
  BY <1>1, LitKeeps DEF FuncsEnable, Enable9203, Enable548, Enable5inch, Keeps
<1>3. Keeps(FuncsEnable(hw), Backlit(FuncsEnable(hw), TRUE))
  BY <1>2, LeveledKeeps DEF Backlit
<1> QED BY <1>2, <1>3, KeepsTwice

LEMMA DisableKeeps ==
  ASSUME DOMAIN hw = HwFields PROVE Keeps(hw, FuncsDisable(Backlit(hw, FALSE)))
<1> DEFINE g == Backlit(hw, FALSE)
<1>1. Keeps(hw, g) /\ DOMAIN g = HwFields
  BY LeveledKeeps DEF Backlit, Keeps
<1> HIDE DEF g
<1>2. Keeps(g, g)
  BY <1>1 DEF Keeps
<1>3. Keeps(g, FuncsDisable(g))
  BY <1>1, <1>2, DarkKeeps, OffKeeps
     DEF FuncsDisable, Disable9203, Disable548, Disable5inch
<1> QED BY <1>1, <1>3, KeepsTwice DEF g

-----------------------------------------------------------------------------
(* Steps *)

\* A step that only sends commands: the panel's supplies and reset, DRM and the
\* driver's own notion of power stay.
LEMMA Commanded ==
  ASSUME PanelInv, Keeps(hw, hw'), DOMAIN ctx' = DOMAIN ctx, ctx'.powered = ctx.powered,
         UNCHANGED <<variant, bound, prepared, down>>,
         \/ drm' = drm
         \/ drm = "apply" /\ drm' = "on"
         \/ drm \in {"enable?", "enable", "up", "disable"}
              /\ drm' \in {"enable", "up", "disable", "unprepare"}
              /\ (down => drm \in {"up", "disable"} /\ drm' \in {"disable", "unprepare"})
  PROVE  PanelInv'
BY DEF PanelInv, Keeps

LEMMA SwitchCommands ==
  ASSUME PanelInv, PanelEnable \/ PanelDisable
  PROVE  Keeps(hw, hw') /\ DOMAIN ctx' = DOMAIN ctx /\ ctx'.powered = ctx.powered
<1>1. CASE PanelEnable
  BY <1>1, EnableKeeps DEF PanelEnable, PanelInv
<1>2. CASE PanelDisable
  BY <1>2, DisableKeeps DEF PanelDisable, PanelInv
<1> QED BY <1>1, <1>2

LEMMA InitPanel == ASSUME Init PROVE PanelInv
<1>1. hw = Blank /\ ctx = Fresh /\ prepared = FALSE /\ drm = "off" /\ bound /\ ~down
  BY DEF Init
<1>2. DOMAIN Blank = HwFields /\ Blank.supplied = FALSE /\ DOMAIN Fresh = {"enabled", "powered", "profile"}
  BY DEF Blank, HwFields, Fresh
<1> QED BY <1>1, <1>2 DEF PanelInv

LEMMA DrmStartOk == ASSUME PanelInv, DrmStart PROVE PanelInv'
BY DEF PanelInv, DrmStart, External

\* The supplies come on.
LEMMA DrmPrepareOk == ASSUME PanelInv, DrmPrepare PROVE PanelInv'
<1>1. hw' = PoweredUp(hw) /\ drm = "prepare" /\ drm' \in {"apply", "on"}
      /\ UNCHANGED <<ctx, prepared, variant, bound, down>>
  BY DEF DrmPrepare, External
<1>2. DOMAIN hw' = HwFields /\ hw'.supplied = TRUE
  BY <1>1 DEF PanelInv, PoweredUp, HwFields
<1> QED BY <1>1, <1>2 DEF PanelInv

LEMMA DrmApplyOk == ASSUME PanelInv, DrmApply PROVE PanelInv'
<1>1. Keeps(hw, hw')
  BY WrittenKeeps DEF DrmApply, PanelInv
<1> QED BY <1>1, Commanded DEF DrmApply, External

\* The sequence has gone through, or its failure has put the supplies back.
LEMMA DrmPreparedOk == ASSUME PanelInv, DrmPrepared PROVE PanelInv'
<1>1. drm = "on" /\ drm' = "enable?" /\ UNCHANGED <<variant, bound, down>>
      /\ ~down /\ prepared = FALSE /\ hw.supplied = TRUE
  BY DEF DrmPrepared, External, PanelInv
<1>2. CASE /\ hw' = On(hw) /\ prepared' = TRUE
           /\ ctx' = [ctx EXCEPT !.powered = @ \/ variant = "9203"]
  <2>1. DOMAIN hw' = HwFields /\ hw'.supplied = TRUE
    BY <1>1, <1>2, OnKeeps DEF PanelInv, Keeps
  <2>2. DOMAIN ctx' = {"enabled", "powered", "profile"} /\ (variant = "9203" => ctx'.powered)
    BY <1>2 DEF PanelInv
  <2> QED BY <1>1, <1>2, <2>1, <2>2 DEF PanelInv
<1>3. CASE hw' = PoweredDown(InReset(hw)) /\ UNCHANGED <<prepared, ctx>>
  <2>1. DOMAIN hw' = HwFields /\ hw'.supplied = FALSE
    BY <1>3 DEF PanelInv, PoweredDown, InReset, HwFields
  <2> QED BY <1>1, <1>3, <2>1 DEF PanelInv
<1> QED BY <1>2, <1>3 DEF DrmPrepared

LEMMA DrmChecksOk == ASSUME PanelInv, DrmEnableCheck \/ DrmDisableCheck PROVE PanelInv'
<1>1. Keeps(hw, hw')
  BY DEF DrmEnableCheck, DrmDisableCheck, Untouched, Keeps, PanelInv
<1>2. \/ drm = "enable?" /\ drm' \in {"up", "enable"}
      \/ drm = "up" /\ drm' \in {"disable", "unprepare"}
  BY DEF DrmEnableCheck, DrmDisableCheck
<1>3. down => drm # "enable?"
  BY DEF PanelInv
<1> QED BY <1>1, <1>2, <1>3, Commanded DEF DrmEnableCheck, DrmDisableCheck, Untouched, External

LEMMA DrmSwitchOk == ASSUME PanelInv, DrmEnable \/ DrmDisable PROVE PanelInv'
<1>1. Keeps(hw, hw') /\ DOMAIN ctx' = DOMAIN ctx /\ ctx'.powered = ctx.powered
  BY SwitchCommands DEF DrmEnable, DrmDisable
<1>2. down => drm # "enable"
  BY DEF PanelInv
<1> QED BY <1>1, <1>2, Commanded DEF DrmEnable, DrmDisable, External

\* The supplies go, in every build: the 9203's driver knows that they are on.
LEMMA DrmUnprepareOk == ASSUME PanelInv, DrmUnprepare PROVE PanelInv'
<1>1. drm = "unprepare" /\ drm' = "off" /\ prepared' = FALSE /\ bound
      /\ UNCHANGED <<variant, bound, down>>
  BY DEF DrmUnprepare, External, PanelInv
<1>2. CASE ~prepared
  <2>1. UNCHANGED <<hw, ctx>>
    BY <1>2 DEF DrmUnprepare
  <2> QED BY <1>1, <1>2, <2>1 DEF PanelInv
<1>3. CASE prepared
  <2>1. DOMAIN ctx' = {"enabled", "powered", "profile"}
    BY <1>3 DEF DrmUnprepare, PanelInv
  <2>2. ASSUME NEW g, Keeps(hw, g)
        PROVE  LET k == PoweredDown(InReset(g))
               IN DOMAIN k = HwFields /\ k.supplied = FALSE /\ k.reset
    BY <2>2 DEF Keeps, PoweredDown, InReset, HwFields
  <2>3. \/ Keeps(hw, hw') /\ Keeps9203 /\ variant = "9203"
        \/ \E g : Keeps(hw, g) /\ hw' = PoweredDown(InReset(g))
    <3>1. Keeps(hw, Asleep(Dark(hw))) /\ Keeps(hw, Asleep(hw)) /\ Keeps(hw, hw)
      BY OffKeeps, AsleepKeeps DEF PanelInv, Keeps
    <3>2. CASE variant = "9203"
      <4>1. hw' = Unprepare9203(hw)
        BY <1>3, <3>2 DEF DrmUnprepare
      <4> QED BY <3>1, <3>2, <4>1 DEF Unprepare9203
    <3>3. CASE variant # "9203"
      <4>1. hw' = PoweredDown(InReset(Asleep(Dark(hw))))
        BY <1>3, <3>3 DEF DrmUnprepare, Unprepare9202, Unprepare548, Unprepare5inch,
           Off9202, Off548, Off5inch
      <4> QED BY <3>1, <4>1
    <3> QED BY <3>2, <3>3
  <2>4. CASE Keeps(hw, hw') /\ Keeps9203 /\ variant = "9203"
    <3>1. down
      BY <1>3, <2>4 DEF PanelInv, Keeps9203
    <3> QED BY <1>1, <2>1, <2>4, <3>1 DEF PanelInv, Keeps
  <2>5. CASE \E g : Keeps(hw, g) /\ hw' = PoweredDown(InReset(g))
    <3>1. DOMAIN hw' = HwFields /\ hw'.supplied = FALSE /\ hw'.reset
      BY <2>2, <2>5
    <3> QED BY <1>1, <2>1, <3>1 DEF PanelInv
  <2> QED BY <2>3, <2>4, <2>5
<1> QED BY <1>2, <1>3

LEMMA UserOk == ASSUME PanelInv, User PROVE PanelInv'
<1>1. UNCHANGED <<variant, bound, prepared, down, drm>>
  BY DEF User, DisplayEnableStore, DisplaySwitched, ColorProfileStore, ColorProfileApply,
     SetBrightness, Elsewhere
<1>2. Keeps(hw, hw)
  BY DEF PanelInv, Keeps
<1>3. Keeps(hw, hw') /\ DOMAIN ctx' = DOMAIN ctx /\ ctx'.powered = ctx.powered
  <2>1. ASSUME NEW on \in BOOLEAN, DisplayEnableStore(on)
        PROVE  UNCHANGED <<hw, ctx>>
    BY <2>1 DEF DisplayEnableStore
  <2>2. CASE DisplaySwitched
    BY <2>2, SwitchCommands DEF DisplaySwitched
  <2>3. ASSUME NEW p, ColorProfileStore(p)
        PROVE  hw' = hw /\ DOMAIN ctx' = DOMAIN ctx /\ ctx'.powered = ctx.powered
    BY <2>3 DEF ColorProfileStore, PanelInv
  <2>4. CASE ColorProfileApply
    BY <2>4, WrittenKeeps DEF ColorProfileApply, PanelInv
  <2>5. ASSUME NEW l, SetBrightness(l) PROVE Keeps(hw, hw') /\ ctx' = ctx
    BY <2>5, LeveledKeeps DEF SetBrightness, PanelInv
  <2> QED BY <1>2, <2>1, <2>2, <2>3, <2>4, <2>5 DEF User
<1> QED BY <1>1, <1>3, Commanded

LEMMA RemoveOk == ASSUME PanelInv, Remove PROVE PanelInv'
BY DEF PanelInv, Remove

LEMMA ProbeOk == ASSUME PanelInv, Probe PROVE PanelInv'
<1>1. DOMAIN hw' = HwFields /\ hw'.supplied = hw.supplied
  BY DEF Probe, PanelInv, HwFields
<1>2. DOMAIN ctx' = {"enabled", "powered", "profile"}
  BY DEF Probe, Fresh
<1>3. drm = "off" /\ ~down /\ hw.supplied = FALSE /\ prepared' = FALSE /\ bound'
      /\ UNCHANGED <<drm, down, variant>>
  BY DEF Probe, PanelInv
<1> QED BY <1>1, <1>2, <1>3 DEF PanelInv

LEMMA ShutdownOk == ASSUME PanelInv, Shutdown PROVE PanelInv'
<1>1. down' /\ bound /\ drm \in {"off", "up"} /\ UNCHANGED <<bound, prepared, drm>>
  BY DEF Shutdown
<1>2. DOMAIN ctx' = {"enabled", "powered", "profile"}
  BY DEF Shutdown, PanelInv
<1>3. ASSUME NEW g, Keeps(hw, g) PROVE DOMAIN InReset(g) = HwFields /\ InReset(g).reset
  BY <1>3 DEF Keeps, InReset, HwFields
<1>4. \E g : Keeps(hw, g) /\ hw' = InReset(g)
  <2>1. Keeps(hw, Asleep(Dark(hw))) /\ Keeps(hw, Asleep(hw)) /\ Keeps(hw, hw)
    BY OffKeeps, AsleepKeeps DEF PanelInv, Keeps
  <2>2. CASE variant = "9203"
    <3>1. hw' = Shutdown9203(hw)
      BY <2>2 DEF Shutdown
    <3> QED BY <2>1, <3>1 DEF Shutdown9203
  <2>3. CASE variant # "9203"
    <3>1. hw' = InReset(Asleep(Dark(hw)))
      BY <2>3 DEF Shutdown, Shutdown548, Shutdown5inch, Off548, Off5inch
    <3> QED BY <2>1, <3>1
  <2> QED BY <2>2, <2>3
<1>5. DOMAIN hw' = HwFields /\ hw'.reset
  BY <1>3, <1>4
<1> QED BY <1>1, <1>2, <1>5 DEF PanelInv

LEMMA PanelHolds == Spec => []PanelInv
<1>1. PanelInv /\ [Next]_vars => PanelInv'
  <2>1. PanelInv /\ UNCHANGED vars => PanelInv'
    BY DEF PanelInv, vars
  <2> QED BY <2>1, DrmStartOk, DrmPrepareOk, DrmApplyOk, DrmPreparedOk, DrmChecksOk,
             DrmSwitchOk, DrmUnprepareOk, UserOk, RemoveOk, ProbeOk, ShutdownOk DEF Next, Drm
<1> QED BY <1>1, InitPanel, PTL DEF Spec

-----------------------------------------------------------------------------

\* Outside of a prepare the panel is supplied exactly when DRM believes it
\* prepared, in every build, whatever fails and whatever the user switches.
THEOREM SuppliesMatchDrm == Spec => []SuppliesFollowDrm
<1>1. PanelInv => SuppliesFollowDrm
  BY DEF PanelInv, SuppliesFollowDrm
<1> QED BY <1>1, PanelHolds, PTL

\* After the shutdown the panel cannot be seen, whatever still runs.
THEOREM StaysDark == Spec => []DarkAfterShutdown
<1>1. PanelInv => DarkAfterShutdown
  BY DEF PanelInv, DarkAfterShutdown, Visible, Listens
<1> QED BY <1>1, PanelHolds, PTL

-----------------------------------------------------------------------------
(* What is shown *)

Colours == {"C0", "C1", "C2"}
OnTheWay == {"off", "prepare", "apply", "on", "enable?", "enable", "unprepare"}

\* Values and fields the steps below read.
ShowTypeOK ==
  /\ variant \in AllVariants /\ enabled \in BOOLEAN
  /\ said \in {"none", "enable", "disable"} /\ user \in {"idle", "enable", "disable"}
  /\ ctx.profile \in AllProfiles /\ applying \in AllProfiles
  /\ store \in AllProfiles \cup {"idle"}
  /\ DOMAIN bl = {"level", "on"}
  /\ variant \in Reapplies => DOMAIN hw.regs = Colours

\* Powered up and out of reset from the pulse on.
Hears == ~down /\ (drm \in {"apply", "on"} \/ prepared) => Listens(hw)

\* A profile that is still to be written is the one chosen; the one DRM writes is it too,
\* unless another was chosen meanwhile; and then the registers hold it.
Profiled ==
  /\ store # "idle" => bound /\ ctx.profile = store
  /\ drm = "apply" /\ ~mixed => applying = ctx.profile
  /\ /\ variant \in Reapplies /\ ~down /\ (drm = "on" \/ prepared)
     /\ store = "idle" /\ ~mixed
     => hw.regs = Table(ctx.profile)

\* Without a switch by the user drm_panel's flag follows DRM, and its enable is not
\* skipped; the initial sequence lights every panel but the 9203.
Lighted ==
  /\ said = "none" /\ drm \in OnTheWay => ~enabled
  /\ ~down /\ prepared /\ drm = "up" /\ said = "none" =>
       Visible(hw) /\ bl.on /\ hw.level = Floor(bl.level)
  /\ /\ ~down /\ prepared /\ drm \in {"enable?", "enable", "up"} /\ variant # "9203"
     /\ said # "disable" \/ variant = "9202"
     => Visible(hw)

ShowInv == ShowTypeOK /\ Hears /\ Profiled /\ Lighted

-----------------------------------------------------------------------------
(* What commands do to the picture *)

LEMMA LitDoes ==
  ASSUME NEW h, DOMAIN h = HwFields
  PROVE  /\ Lit(h).regs = h.regs /\ Lit(h).level = h.level
         /\ Listens(h) => Visible(Lit(h))
<1> DEFINE g == [h EXCEPT !.awake = TRUE, !.shows = TRUE]
<1>1. /\ g.regs = h.regs /\ g.level = h.level /\ g.awake = TRUE /\ g.shows = TRUE
      /\ g.supplied = h.supplied /\ g.reset = h.reset
  BY DEF HwFields
<1>2. Lit(h) = IF Listens(h) THEN g ELSE h
  BY DEF Lit, Sent
<1> HIDE DEF g
<1> QED BY <1>1, <1>2 DEF Visible, Listens

LEMMA DimDoes ==
  ASSUME NEW h, DOMAIN h = HwFields
  PROVE  Dark(h).regs = h.regs /\ Asleep(h).regs = h.regs
BY DEF Dark, Asleep, Sent, HwFields

LEMMA LeveledDoes ==
  ASSUME NEW h, NEW l, DOMAIN h = HwFields
  PROVE  /\ Leveled(h, l).regs = h.regs
         /\ Listens(h) => Leveled(h, l).level = l
         /\ Visible(h) => Visible(Leveled(h, l))
<1> DEFINE g == [h EXCEPT !.level = l]
<1>1. /\ g.regs = h.regs /\ g.level = l /\ g.awake = h.awake /\ g.shows = h.shows
      /\ g.supplied = h.supplied /\ g.reset = h.reset
  BY DEF HwFields
<1>2. Leveled(h, l) = IF Listens(h) THEN g ELSE h
  BY DEF Leveled, Sent
<1> HIDE DEF g
<1> QED BY <1>1, <1>2 DEF Visible, Listens

LEMMA TableColours ==
  ASSUME NEW p \in AllProfiles, variant \in Reapplies PROVE DOMAIN Table(p) = Colours
<1>1. DOMAIN Colours9203[p] = Colours
  BY DEF AllProfiles, Colours9203, Colours
<1>2. DOMAIN Colours5inch[p] = Colours
  BY DEF AllProfiles, Colours5inch, Colours
<1> QED BY <1>1, <1>2 DEF Table, Reapplies

LEMMA WrittenDoes ==
  ASSUME NEW h, NEW p \in AllProfiles, DOMAIN h = HwFields
  PROVE  /\ Written(h, p).level = h.level /\ DOMAIN Written(h, p).regs = DOMAIN h.regs
         /\ Visible(h) => Visible(Written(h, p))
         /\ Listens(h) /\ variant \in Reapplies /\ DOMAIN h.regs = Colours =>
              Written(h, p).regs = Table(p)
<1> DEFINE r == [x \in DOMAIN h.regs |-> IF x \in DOMAIN Table(p) THEN Table(p)[x]
                                         ELSE h.regs[x]]
           g == [h EXCEPT !.regs = r]
<1>1. DOMAIN r = DOMAIN h.regs
  OBVIOUS
<1>2. ASSUME variant \in Reapplies, DOMAIN h.regs = Colours PROVE r = Table(p)
  <2>1. DOMAIN Table(p) = Colours
    BY <1>2, TableColours
  <2>2. Table(p) = [x \in Colours |-> Table(p)[x]]
    <3>1. Colours9203[p] = [x \in DOMAIN Colours9203[p] |-> Colours9203[p][x]]
      BY DEF AllProfiles, Colours9203
    <3>2. Colours5inch[p] = [x \in DOMAIN Colours5inch[p] |-> Colours5inch[p][x]]
      BY DEF AllProfiles, Colours5inch
    <3>3. Table(p) = Colours9203[p] \/ Table(p) = Colours5inch[p]
      BY <1>2 DEF Table, Reapplies
    <3> QED BY <2>1, <3>1, <3>2, <3>3
  <2> QED BY <1>2, <2>1, <2>2
<1>3. Written(h, p) = IF Listens(h) THEN g ELSE h
  BY DEF Written, Sent
<1> HIDE DEF r
<1>4. /\ g.regs = r /\ g.level = h.level /\ g.awake = h.awake /\ g.shows = h.shows
      /\ g.supplied = h.supplied /\ g.reset = h.reset
  BY DEF HwFields
<1> HIDE DEF g
<1> QED BY <1>1, <1>2, <1>3, <1>4 DEF Visible, Listens

\* The initial sequence lights every panel but the 9203, and leaves the colours of a
\* panel whose profile it has written before.
LEMMA OnDoes ==
  ASSUME NEW h, DOMAIN h = HwFields, Listens(h)
  PROVE  /\ variant # "9203" => Visible(On(h))
         /\ variant \in Reapplies => On(h).regs = h.regs
<1>1. ASSUME NEW g, NEW l, DOMAIN g = HwFields, Listens(g)
      PROVE  Visible(Lit(Leveled(g, l))) /\ Lit(Leveled(g, l)).regs = g.regs
  <2>1. DOMAIN Leveled(g, l) = HwFields /\ Listens(Leveled(g, l))
    BY <1>1, LeveledKeeps DEF Keeps, Listens
  <2> QED BY <1>1, <2>1, LitDoes, LeveledDoes
<1> DEFINE k == Sent(h, [h EXCEPT !.regs = InitialColours])
<1>2. DOMAIN k = HwFields /\ Listens(k)
  BY RegsKeeps, SentKeeps DEF Keeps, Listens
<1>3. On548(h) = Lit(Leveled(k, MaxLevel))
  BY DEF On548
<1> HIDE DEF k
<1> QED BY <1>1, <1>2, <1>3, LeveledDoes DEF On, On9203, On9202, On5inch, Reapplies

LEMMA EnableDoes ==
  ASSUME DOMAIN hw = HwFields
  PROVE  LET g == Backlit(FuncsEnable(hw), TRUE) IN
         /\ g.regs = hw.regs
         /\ Listens(hw) => g.level = Floor(bl.level)
         /\ Listens(hw) /\ variant \in AllVariants /\ (variant # "9202" \/ Visible(hw)) =>
              Visible(g)
<1> DEFINE f == FuncsEnable(hw)
<1>1. f = hw \/ f = Lit(hw)
  BY DEF FuncsEnable, Enable9203, Enable548, Enable5inch
<1>2. variant \in AllVariants /\ variant # "9202" => f = Lit(hw)
  BY DEF FuncsEnable, Enable9203, Enable548, Enable5inch, AllVariants
<1>3. DOMAIN f = HwFields /\ f.regs = hw.regs /\ (Listens(hw) => Listens(f))
  BY <1>1, LitKeeps, LitDoes DEF Keeps, Listens
<1>4. Listens(hw) /\ variant \in AllVariants /\ (variant # "9202" \/ Visible(hw)) => Visible(f)
  BY <1>1, <1>2, LitDoes
<1> HIDE DEF f
<1>5. Backlit(f, TRUE) = Leveled(f, Floor(bl.level))
  BY DEF Backlit
<1> QED BY <1>3, <1>4, <1>5, LeveledDoes DEF f

LEMMA DisableDoes ==
  ASSUME DOMAIN hw = HwFields
  PROVE  LET g == FuncsDisable(Backlit(hw, FALSE)) IN
         /\ g.regs = hw.regs
         /\ variant = "9202" /\ Visible(hw) => Visible(g)
<1> DEFINE b == Backlit(hw, FALSE)
<1>1. DOMAIN b = HwFields /\ b.regs = hw.regs /\ (Visible(hw) => Visible(b))
  BY LeveledKeeps, LeveledDoes DEF Backlit, Keeps
<1> HIDE DEF b
<1>2. FuncsDisable(b).regs = b.regs
  <2>1. DOMAIN Dark(b) = HwFields
    BY <1>1, DarkKeeps DEF Keeps
  <2>2. Dark(b).regs = b.regs /\ Asleep(Dark(b)).regs = b.regs
    BY <1>1, <2>1, DimDoes
  <2> QED BY <2>2 DEF FuncsDisable, Disable9203, Disable548, Disable5inch
<1>3. variant = "9202" => FuncsDisable(b) = b
  BY DEF FuncsDisable
<1> QED BY <1>1, <1>2, <1>3 DEF b

LEMMA HearsStill ==
  ASSUME NEW h, NEW g, Keeps(h, g), Listens(h) PROVE Listens(g)
BY DEF Keeps, Listens

-----------------------------------------------------------------------------
(* Its steps *)

LEMMA InitShow == ASSUME Init PROVE ShowInv
<1>1. hw = Blank /\ ctx = Fresh /\ prepared = FALSE /\ drm = "off" /\ enabled = FALSE
      /\ said = "none" /\ user = "idle" /\ store = "idle" /\ applying = "natural"
      /\ variant \in AllVariants /\ bl = [level |-> FirstLevel, on |-> TRUE]
  BY PanelAssumption DEF Init
<1>2. /\ Fresh.profile = "natural" /\ "natural" \in AllProfiles
      /\ DOMAIN [level |-> FirstLevel, on |-> TRUE] = {"level", "on"}
  BY DEF Fresh, AllProfiles
<1>3. variant \in Reapplies => DOMAIN Blank.regs = Colours
  BY DEF Blank, InitialColours, Reapplies, Colours
<1> QED BY <1>1, <1>2, <1>3 DEF ShowInv, ShowTypeOK, Hears, Profiled, Lighted

LEMMA DrmStartShow == ASSUME PanelInv, ShowInv, DrmStart PROVE ShowInv'
<1>1. drm = "off" /\ drm' = "prepare"
      /\ UNCHANGED <<variant, bound, prepared, enabled, ctx, hw, bl, user, store, applying,
                     said, mixed, down>>
  BY DEF DrmStart, External
<1> QED BY <1>1 DEF PanelInv, ShowInv, ShowTypeOK, Hears, Profiled, Lighted, OnTheWay,
                    Visible, Listens, Floor, Table

LEMMA DrmPrepareShow == ASSUME PanelInv, ShowInv, DrmPrepare PROVE ShowInv'
<1>1. /\ drm = "prepare" /\ hw' = PoweredUp(hw) /\ mixed' = FALSE
      /\ UNCHANGED <<variant, bound, prepared, enabled, ctx, bl, user, store, said, down>>
      /\ \/ drm' = "apply" /\ applying' = ctx.profile
         \/ drm' = "on" /\ applying' = applying /\ variant \notin Reapplies
  BY DEF DrmPrepare, External
<1>2. /\ hw'.supplied = TRUE /\ hw'.reset = FALSE
      /\ variant \in Reapplies => DOMAIN hw'.regs = Colours
  BY <1>1 DEF PanelInv, PoweredUp, HwFields, InitialColours, Reapplies, Colours
<1>3. ~down /\ prepared = FALSE
  BY <1>1 DEF PanelInv
<1> QED BY <1>1, <1>2, <1>3 DEF ShowInv, ShowTypeOK, Hears, Profiled, Lighted, OnTheWay, Listens

LEMMA DrmApplyShow == ASSUME PanelInv, ShowInv, DrmApply PROVE ShowInv'
<1>1. /\ drm = "apply" /\ drm' = "on" /\ hw' = Written(hw, applying)
      /\ UNCHANGED <<variant, bound, prepared, enabled, ctx, bl, user, store, applying, said,
                     mixed, down>>
  BY DEF DrmApply, External
<1>2. ~down /\ prepared = FALSE /\ Listens(hw) /\ DOMAIN hw = HwFields
  BY <1>1 DEF PanelInv, ShowInv, Hears
<1>3. /\ DOMAIN hw'.regs = DOMAIN hw.regs
      /\ variant \in Reapplies => hw'.regs = Table(applying)
  BY <1>1, <1>2, WrittenDoes DEF ShowInv, ShowTypeOK
<1>4. Listens(hw')
  BY <1>1, <1>2, WrittenKeeps, HearsStill
<1>5. Table(ctx.profile)' = Table(ctx.profile)
  BY <1>1 DEF Table
<1> QED BY <1>1, <1>2, <1>3, <1>4, <1>5
        DEF ShowInv, ShowTypeOK, Hears, Profiled, Lighted, OnTheWay, Listens

LEMMA DrmPreparedShow == ASSUME PanelInv, ShowInv, DrmPrepared PROVE ShowInv'
<1>1. /\ drm = "on" /\ drm' = "enable?"
      /\ UNCHANGED <<variant, bound, enabled, bl, user, store, applying, said, mixed, down>>
  BY DEF DrmPrepared, External
<1>2. ~down /\ prepared = FALSE /\ Listens(hw) /\ DOMAIN hw = HwFields
  BY <1>1 DEF PanelInv, ShowInv, Hears
<1>3. ctx'.profile = ctx.profile
  BY DEF DrmPrepared, PanelInv
<1>4. CASE hw' = On(hw) /\ prepared' = TRUE
  <2>1. /\ Listens(hw') /\ (variant # "9203" => Visible(hw'))
        /\ variant \in Reapplies => hw'.regs = hw.regs
    BY <1>2, <1>4, OnKeeps, OnDoes, HearsStill
  <2>2. Table(ctx.profile)' = Table(ctx.profile)
    BY <1>1, <1>3 DEF Table
  <2> QED BY <1>1, <1>2, <1>3, <1>4, <2>1, <2>2
          DEF ShowInv, ShowTypeOK, Hears, Profiled, Lighted, OnTheWay, Listens, Visible
<1>5. CASE hw' = PoweredDown(InReset(hw)) /\ prepared' = prepared
  <2>1. hw'.regs = hw.regs
    BY <1>2, <1>5 DEF PoweredDown, InReset, HwFields
  <2> QED BY <1>1, <1>2, <1>3, <1>5, <2>1
          DEF ShowInv, ShowTypeOK, Hears, Profiled, Lighted, OnTheWay
<1> QED BY <1>4, <1>5 DEF DrmPrepared

LEMMA DrmChecksShow == ASSUME PanelInv, ShowInv, DrmEnableCheck \/ DrmDisableCheck PROVE ShowInv'
<1>1. UNCHANGED <<variant, bound, prepared, enabled, ctx, hw, bl, user, store, applying,
                  mixed, down>>
  BY DEF DrmEnableCheck, DrmDisableCheck, Untouched, External
<1>2. \/ drm = "enable?" /\ drm' = "up" /\ enabled /\ said' = said
      \/ drm = "enable?" /\ drm' = "enable" /\ ~enabled /\ said' = said
      \/ drm = "up" /\ drm' = "disable" /\ enabled /\ said' = said
      \/ drm = "up" /\ drm' = "unprepare" /\ ~enabled /\ said' = "none"
  BY DEF DrmEnableCheck, DrmDisableCheck
<1>3. Table(ctx.profile)' = Table(ctx.profile) /\ Floor(bl.level)' = Floor(bl.level)
  BY <1>1 DEF Table, Floor
<1> QED BY <1>1, <1>2, <1>3
        DEF ShowInv, ShowTypeOK, Hears, Profiled, Lighted, OnTheWay, Listens, Visible

\* What a switch makes of what is shown, by DRM or by the user.
LEMMA SwitchShow ==
  ASSUME PanelInv, ShowInv, PanelEnable \/ PanelDisable
  PROVE  /\ hw'.regs = hw.regs /\ (Listens(hw) => Listens(hw'))
         /\ ctx'.profile = ctx.profile /\ DOMAIN bl' = {"level", "on"} /\ enabled' \in BOOLEAN
         /\ PanelEnable /\ Listens(hw) =>
              /\ bl'.on = TRUE /\ bl'.level = bl.level /\ hw'.level = Floor(bl.level)
              /\ variant # "9202" \/ Visible(hw) => Visible(hw')
         /\ variant = "9202" /\ Visible(hw) => Visible(hw')
         /\ PanelDisable => enabled' = FALSE
<1>0. DOMAIN hw = HwFields /\ DOMAIN ctx = {"enabled", "powered", "profile"}
      /\ DOMAIN bl = {"level", "on"} /\ variant \in AllVariants
  BY DEF PanelInv, ShowInv, ShowTypeOK
<1>1. CASE PanelEnable
  <2>1. hw' = Backlit(FuncsEnable(hw), TRUE) /\ Keeps(hw, hw')
    BY <1>0, <1>1, EnableKeeps DEF PanelEnable
  <2>2. /\ ctx'.profile = ctx.profile /\ enabled' = TRUE
        /\ DOMAIN bl' = {"level", "on"} /\ bl'.on = TRUE /\ bl'.level = bl.level
    BY <1>0, <1>1 DEF PanelEnable
  <2>3. ~PanelDisable
    BY <2>2 DEF PanelDisable
  <2>4. /\ hw'.regs = hw.regs
        /\ Listens(hw) => hw'.level = Floor(bl.level)
        /\ Listens(hw) /\ (variant # "9202" \/ Visible(hw)) => Visible(hw')
    BY <1>0, <2>1, EnableDoes
  <2> QED BY <2>1, <2>2, <2>3, <2>4, HearsStill DEF Visible
<1>2. CASE PanelDisable
  <2>1. hw' = FuncsDisable(Backlit(hw, FALSE)) /\ Keeps(hw, hw')
    BY <1>0, <1>2, DisableKeeps DEF PanelDisable
  <2>2. /\ ctx'.profile = ctx.profile /\ enabled' = FALSE /\ DOMAIN bl' = {"level", "on"}
    BY <1>0, <1>2 DEF PanelDisable
  <2>3. ~PanelEnable
    BY <2>2 DEF PanelEnable
  <2>4. hw'.regs = hw.regs /\ (variant = "9202" /\ Visible(hw) => Visible(hw'))
    BY <1>0, <2>1, DisableDoes
  <2> QED BY <2>1, <2>2, <2>3, <2>4, HearsStill
<1> QED BY <1>1, <1>2

LEMMA DrmSwitchShow == ASSUME PanelInv, ShowInv, DrmEnable \/ DrmDisable PROVE ShowInv'
<1>1. UNCHANGED <<variant, bound, prepared, user, store, applying, mixed, down>>
  BY DEF DrmEnable, DrmDisable, External
<1>2. \/ drm = "enable" /\ drm' = "up" /\ said' = said /\ PanelEnable
      \/ drm = "disable" /\ drm' = "unprepare" /\ said' = "none" /\ PanelDisable
  BY DEF DrmEnable, DrmDisable
<1>3. PanelEnable \/ PanelDisable
  BY <1>2
<1>4. /\ hw'.regs = hw.regs /\ (Listens(hw) => Listens(hw'))
      /\ ctx'.profile = ctx.profile /\ DOMAIN bl' = {"level", "on"} /\ enabled' \in BOOLEAN
      /\ PanelEnable /\ Listens(hw) =>
           /\ bl'.on = TRUE /\ bl'.level = bl.level /\ hw'.level = Floor(bl.level)
           /\ variant # "9202" \/ Visible(hw) => Visible(hw')
      /\ PanelDisable => enabled' = FALSE
  BY <1>3, SwitchShow
<1>5. Table(ctx.profile)' = Table(ctx.profile) /\ (bl'.level = bl.level => Floor(bl.level)' = Floor(bl.level))
  BY <1>1, <1>4 DEF Table, Floor
<1>6. Visible(hw)' = Visible(hw') /\ Listens(hw)' = Listens(hw')
  BY DEF Visible, Listens
<1>7. ShowTypeOK' /\ Hears' /\ Profiled'
  BY <1>1, <1>2, <1>4, <1>5, <1>6 DEF ShowInv, ShowTypeOK, Hears, Profiled
<1>8. CASE drm = "enable" /\ PanelEnable
  <2>1. ~down /\ drm' = "up" /\ said' = said
    BY <1>2, <1>8 DEF PanelInv
  <2>2. prepared => Listens(hw) /\ (variant = "9202" => Visible(hw))
    BY <1>8, <2>1 DEF ShowInv, Hears, Lighted
  <2>3. Lighted'
    BY <1>1, <1>4, <1>5, <1>6, <1>8, <2>1, <2>2 DEF Lighted, OnTheWay
  <2> QED BY <1>7, <2>3 DEF ShowInv
<1>9. CASE drm = "disable" /\ PanelDisable
  <2>1. Lighted'
    BY <1>2, <1>4, <1>9 DEF Lighted
  <2> QED BY <1>7, <2>1 DEF ShowInv
<1> QED BY <1>2, <1>8, <1>9

LEMMA DrmUnprepareShow == ASSUME PanelInv, PanelInv', ShowInv, DrmUnprepare PROVE ShowInv'
<1>1. /\ drm = "unprepare" /\ drm' = "off" /\ prepared' = FALSE
      /\ UNCHANGED <<variant, bound, enabled, bl, user, store, applying, said, mixed, down>>
  BY DEF DrmUnprepare, External
<1>2. DOMAIN hw = HwFields /\ DOMAIN ctx = {"enabled", "powered", "profile"}
  BY DEF PanelInv
<1>3. ctx'.profile = ctx.profile
  BY <1>2 DEF DrmUnprepare
<1>4. ASSUME NEW g, DOMAIN g = HwFields
      PROVE  PoweredDown(InReset(g)).regs = g.regs
  BY <1>4 DEF PoweredDown, InReset, HwFields
<1>5. hw'.regs = hw.regs
  <2>1. /\ Asleep(Dark(hw)).regs = hw.regs /\ Asleep(hw).regs = hw.regs
        /\ DOMAIN Asleep(Dark(hw)) = HwFields /\ DOMAIN Asleep(hw) = HwFields
    BY <1>2, DimDoes, DarkKeeps, AsleepKeeps, OffKeeps DEF Keeps
  <2>2. \/ hw' = hw \/ hw' = PoweredDown(InReset(Asleep(hw)))
        \/ hw' = PoweredDown(InReset(Asleep(Dark(hw))))
    BY DEF DrmUnprepare, Unprepare9203, Unprepare9202, Unprepare548, Unprepare5inch,
           Off9202, Off548, Off5inch
  <2> QED BY <1>4, <2>1, <2>2
<1> QED BY <1>1, <1>3, <1>5 DEF ShowInv, ShowTypeOK, Hears, Profiled, Lighted, OnTheWay

LEMMA DisplayStoreShow ==
  ASSUME PanelInv, ShowInv, NEW on \in BOOLEAN, DisplayEnableStore(on) PROVE ShowInv'
<1>1. /\ user' \in {"enable", "disable"}
      /\ UNCHANGED <<variant, bound, prepared, enabled, ctx, hw, bl, store, applying, drm,
                     said, mixed, down>>
  BY DEF DisplayEnableStore, Elsewhere
<1>2. Table(ctx.profile)' = Table(ctx.profile) /\ Floor(bl.level)' = Floor(bl.level)
  BY <1>1 DEF Table, Floor
<1> QED BY <1>1, <1>2
        DEF ShowInv, ShowTypeOK, Hears, Profiled, Lighted, Listens, Visible

LEMMA DisplaySwitchedShow == ASSUME PanelInv, ShowInv, DisplaySwitched PROVE ShowInv'
<1>1. /\ user \in {"enable", "disable"} /\ said' = user /\ user' = "idle"
      /\ UNCHANGED <<variant, bound, prepared, store, applying, drm, mixed, down>>
  BY DEF DisplaySwitched, Elsewhere, ShowInv, ShowTypeOK
<1>2. \/ PanelEnable /\ user = "enable"
      \/ PanelDisable /\ user = "disable"
  BY <1>1 DEF DisplaySwitched
<1>3. /\ hw'.regs = hw.regs /\ (Listens(hw) => Listens(hw'))
      /\ ctx'.profile = ctx.profile /\ DOMAIN bl' = {"level", "on"} /\ enabled' \in BOOLEAN
      /\ PanelEnable /\ Listens(hw) =>
           (variant # "9202" \/ Visible(hw) => Visible(hw'))
      /\ variant = "9202" /\ Visible(hw) => Visible(hw')
  BY <1>2, SwitchShow
<1>4. Table(ctx.profile)' = Table(ctx.profile)
  BY <1>1, <1>3 DEF Table
<1>5. Visible(hw)' = Visible(hw') /\ Listens(hw)' = Listens(hw')
  BY DEF Visible, Listens
<1>6. ShowTypeOK' /\ Hears' /\ Profiled'
  BY <1>1, <1>3, <1>4, <1>5 DEF ShowInv, ShowTypeOK, Hears, Profiled
<1>7. Lighted'
  <2>1. said' # "none"
    BY <1>1
  <2>2. ASSUME ~down, prepared, drm \in {"enable?", "enable", "up"}, variant # "9203",
               said' # "disable" \/ variant = "9202"
        PROVE  Visible(hw')
    <3>1. Listens(hw) /\ (variant = "9202" => Visible(hw))
      BY <2>2 DEF ShowInv, Hears, Lighted
    <3> QED BY <1>1, <1>2, <1>3, <2>2, <3>1
  <2> QED BY <1>1, <1>5, <2>1, <2>2 DEF Lighted
<1> QED BY <1>6, <1>7 DEF ShowInv

LEMMA ProfileStoreShow ==
  ASSUME PanelInv, ShowInv, NEW p \in Profiles, ColorProfileStore(p) PROVE ShowInv'
<1>1. /\ store' = p /\ p \in AllProfiles /\ p # "idle" /\ bound
      /\ mixed' = (mixed \/ drm = "apply") /\ ctx' = [ctx EXCEPT !.profile = p]
      /\ UNCHANGED <<variant, bound, prepared, enabled, hw, bl, user, applying, drm, said, down>>
  BY PanelAssumption DEF ColorProfileStore, Elsewhere, AllProfiles
<1>2. ctx'.profile = p
  BY <1>1 DEF PanelInv
<1>3. Floor(bl.level)' = Floor(bl.level)
  BY <1>1 DEF Floor
<1> QED BY <1>1, <1>2, <1>3
        DEF ShowInv, ShowTypeOK, Hears, Profiled, Lighted, Listens, Visible

LEMMA ProfileApplyShow == ASSUME PanelInv, ShowInv, ColorProfileApply PROVE ShowInv'
<1>1. /\ store # "idle" /\ store' = "idle" /\ hw' = Written(hw, store)
      /\ mixed' = (mixed /\ drm = "apply")
      /\ UNCHANGED <<variant, bound, prepared, enabled, ctx, bl, user, applying, drm, said, down>>
  BY DEF ColorProfileApply, Elsewhere
<1>2. store \in AllProfiles /\ ctx.profile = store /\ DOMAIN hw = HwFields
  BY <1>1 DEF PanelInv, ShowInv, ShowTypeOK, Profiled
<1>3. /\ hw'.level = hw.level /\ DOMAIN hw'.regs = DOMAIN hw.regs
      /\ Visible(hw) => Visible(hw')
      /\ Listens(hw) => Listens(hw')
      /\ Listens(hw) /\ variant \in Reapplies => hw'.regs = Table(store)
  BY <1>1, <1>2, WrittenDoes, WrittenKeeps, HearsStill DEF ShowInv, ShowTypeOK
<1>4. Table(ctx.profile)' = Table(store) /\ Floor(bl.level)' = Floor(bl.level)
  BY <1>1, <1>2 DEF Table, Floor
<1>5. Visible(hw)' = Visible(hw') /\ Listens(hw)' = Listens(hw')
  BY DEF Visible, Listens
<1> QED BY <1>1, <1>2, <1>3, <1>4, <1>5
        DEF ShowInv, ShowTypeOK, Hears, Profiled, Lighted

LEMMA BrightnessShow ==
  ASSUME PanelInv, ShowInv, NEW l \in 0..MaxLevel, SetBrightness(l) PROVE ShowInv'
<1>1. /\ bl' = [bl EXCEPT !.level = l] /\ hw' = Leveled(hw, Floor(IF bl.on THEN l ELSE 0))
      /\ UNCHANGED <<variant, bound, prepared, enabled, ctx, user, store, applying, drm, said,
                     mixed, down>>
  BY DEF SetBrightness, Elsewhere
<1>2. DOMAIN hw = HwFields /\ DOMAIN bl = {"level", "on"}
  BY DEF PanelInv, ShowInv, ShowTypeOK
<1>3. DOMAIN bl' = {"level", "on"} /\ bl'.on = bl.on /\ bl'.level = l
  BY <1>1, <1>2
<1>4. /\ hw'.regs = hw.regs /\ (Visible(hw) => Visible(hw'))
      /\ Listens(hw) => Listens(hw')
      /\ Listens(hw) /\ bl.on => hw'.level = Floor(l)
  BY <1>1, <1>2, LeveledDoes, LeveledKeeps, HearsStill
<1>5. Table(ctx.profile)' = Table(ctx.profile) /\ Floor(bl.level)' = Floor(l)
  BY <1>1, <1>3 DEF Table, Floor
<1>6. Visible(hw)' = Visible(hw') /\ Listens(hw)' = Listens(hw') /\ (Visible(hw) => Listens(hw))
  BY DEF Visible, Listens
<1> QED BY <1>1, <1>3, <1>4, <1>5, <1>6
        DEF ShowInv, ShowTypeOK, Hears, Profiled, Lighted

LEMMA RemoveShow == ASSUME PanelInv, ShowInv, Remove PROVE ShowInv'
<1>1. /\ store = "idle"
      /\ UNCHANGED <<variant, prepared, enabled, ctx, hw, bl, drm, user, store, applying, said,
                     mixed, down>>
  BY DEF Remove
<1>2. Table(ctx.profile)' = Table(ctx.profile) /\ Floor(bl.level)' = Floor(bl.level)
  BY <1>1 DEF Table, Floor
<1> QED BY <1>1, <1>2
        DEF ShowInv, ShowTypeOK, Hears, Profiled, Lighted, Listens, Visible

LEMMA ProbeShow == ASSUME PanelInv, ShowInv, Probe PROVE ShowInv'
<1>1. /\ ~bound /\ bound' = TRUE /\ prepared' = FALSE /\ enabled' = FALSE /\ ctx' = Fresh
      /\ hw' = [hw EXCEPT !.reset = FALSE] /\ bl' = [level |-> FirstLevel, on |-> TRUE]
      /\ said' = "none" /\ UNCHANGED <<variant, drm, user, store, applying, down>>
  BY DEF Probe
<1>2. drm = "off" /\ store = "idle" /\ DOMAIN hw = HwFields
  BY <1>1 DEF PanelInv, ShowInv, Profiled
<1>3. /\ hw'.regs = hw.regs /\ ctx'.profile \in AllProfiles /\ DOMAIN bl' = {"level", "on"}
  BY <1>1, <1>2 DEF HwFields, Fresh, AllProfiles
<1> QED BY <1>1, <1>2, <1>3 DEF ShowInv, ShowTypeOK, Hears, Profiled, Lighted

LEMMA ShutdownShow == ASSUME PanelInv, ShowInv, Shutdown PROVE ShowInv'
<1>1. /\ down' = TRUE
      /\ UNCHANGED <<variant, bound, prepared, enabled, bl, drm, user, store, applying, said, mixed>>
  BY DEF Shutdown
<1>2. DOMAIN hw = HwFields /\ DOMAIN ctx = {"enabled", "powered", "profile"} /\ drm # "apply"
  BY DEF PanelInv, Shutdown
<1>3. ctx'.profile = ctx.profile
  BY <1>2 DEF Shutdown
<1>4. ASSUME NEW g, DOMAIN g = HwFields PROVE InReset(g).regs = g.regs
  BY <1>4 DEF InReset, HwFields
<1>5. hw'.regs = hw.regs
  <2>1. /\ Asleep(Dark(hw)).regs = hw.regs /\ Asleep(hw).regs = hw.regs
        /\ DOMAIN Asleep(Dark(hw)) = HwFields /\ DOMAIN Asleep(hw) = HwFields
    BY <1>2, DimDoes, DarkKeeps, AsleepKeeps, OffKeeps DEF Keeps
  <2>2. \/ hw' = InReset(hw) \/ hw' = InReset(Asleep(hw)) \/ hw' = InReset(Asleep(Dark(hw)))
    BY DEF Shutdown, Shutdown9203, Shutdown548, Shutdown5inch, Off548, Off5inch
  <2> QED BY <1>2, <1>4, <2>1, <2>2
<1> QED BY <1>1, <1>2, <1>3, <1>5 DEF ShowInv, ShowTypeOK, Hears, Profiled, Lighted

LEMMA ShowHolds == Spec => [](PanelInv /\ ShowInv)
<1>1. PanelInv /\ PanelInv' /\ ShowInv /\ [Next]_vars => ShowInv'
  <2>1. ASSUME PanelInv, ShowInv, UNCHANGED vars PROVE ShowInv'
    <3>1. Table(ctx.profile)' = Table(ctx.profile) /\ Floor(bl.level)' = Floor(bl.level)
      BY <2>1 DEF vars, Table, Floor
    <3> QED BY <2>1, <3>1
            DEF vars, ShowInv, ShowTypeOK, Hears, Profiled, Lighted, Listens, Visible
  <2>2. ASSUME PanelInv, PanelInv', ShowInv, Drm PROVE ShowInv'
    BY <2>2, DrmStartShow, DrmPrepareShow, DrmApplyShow, DrmPreparedShow, DrmChecksShow,
       DrmSwitchShow, DrmUnprepareShow DEF Drm
  <2>3. ASSUME PanelInv, ShowInv, User PROVE ShowInv'
    BY <2>3, DisplayStoreShow, DisplaySwitchedShow, ProfileStoreShow, ProfileApplyShow,
       BrightnessShow DEF User
  <2> QED BY <2>1, <2>2, <2>3, RemoveShow, ProbeShow, ShutdownShow DEF Next
<1> QED BY <1>1, InitShow, PanelHolds, PTL DEF Spec

\* A panel that DRM has brought up can be seen at the brightness that is set unless the
\* user has switched it, and shows the profile that is chosen: in every build, whatever
\* order switches, profile writes, failed preparations and rebinds come in.
THEOREM PanelShowsWhatIsSet == Spec => []ShowsWhatIsSet
<1>1. PanelInv /\ ShowInv => ShowsWhatIsSet
  BY DEF PanelInv, ShowInv, ShowsWhatIsSet, LitWhenUp, ProfileShown, Profiled, Lighted, Reapplies
<1> QED BY <1>1, ShowHolds, PTL
================================================================================
