--------------------------------- MODULE Panel ---------------------------------
(***************************************************************************)
(* The DSI panel driver in its four builds (panel-pibrick.9203.c, .9202.c, *)
(* .548.c and .5inch.c; the Makefile's PANEL chooses one).  DRM brings the *)
(* panel up and down, the user switches it through pibrick_display_enable  *)
(* outside of DRM's locks, chooses a colour profile and a brightness, and  *)
(* the machine shuts down.  The DRM panel, backlight, regulator and driver *)
(* cores are external: drm_panel_enable and _disable skip a panel whose    *)
(* own flag says it is done, and then handle the backlight.                *)
(*                                                                         *)
(* The panel is what its DCS commands have made of it.  One that is in     *)
(* reset or without supply takes none, and starts asleep and dark.         *)
(***************************************************************************)
EXTENDS Naturals

CONSTANTS
  Variants,  \* the builds
  Profiles,  \* the colour profiles the user chooses from
  MaxLevel   \* the highest brightness

AllVariants == {"9203", "9202", "548", "5inch"}
AllProfiles == {"natural", "vivid", "srgb", "warm", "cold", "night", "soft"}

ASSUME PanelAssumption ==
  /\ Variants \subseteq AllVariants
  /\ Profiles \subseteq AllProfiles /\ "natural" \in Profiles
  /\ MaxLevel \in Nat \ {0}

VARIABLES
  variant,   \* the build
  bound,     \* the driver is bound
  files,     \* its files in sysfs
  prepared, enabled,  \* drm_panel's own flags
  ctx,       \* visionox_vtdr6110: enabled, powered, profile
  hw,        \* the panel: supplied, reset, awake, shows, level, regs
  bl,        \* the backlight: level, and on
  drm,       \* where DRM is
  user,      \* what a write of pibrick_display_enable is about to do
  store,     \* a write of color_profile: the profile it has read, or "idle"
  applying,  \* the profile DRM's prepare has read
  down,      \* the driver's shutdown has run
  said,      \* history: the last switch since DRM last took the panel down
  mixed      \* history: a profile was chosen while DRM wrote an earlier one

vars == <<variant, bound, files, prepared, enabled, ctx, hw, bl, drm, user,
          store, applying, down, said, mixed>>

-----------------------------------------------------------------------------
(* Colour profiles: what each table writes into which register *)

Colours9203 ==
  [natural |-> [C0 |-> 0, C1 |-> 0, C2 |-> 0],
   vivid   |-> [C0 |-> 1, C1 |-> 1, C2 |-> 1],
   srgb    |-> [C0 |-> 2, C1 |-> 2, C2 |-> 2],
   warm    |-> [C0 |-> 3, C1 |-> 0, C2 |-> 3],
   cold    |-> [C0 |-> 0, C1 |-> 0, C2 |-> 4],
   night   |-> [C0 |-> 4, C1 |-> 0, C2 |-> 5],
   soft    |-> [C0 |-> 5, C1 |-> 3, C2 |-> 6]]

Colours5inch ==
  [natural |-> [C0 |-> 0, C1 |-> 0, C2 |-> 0],
   vivid   |-> [C0 |-> 1, C1 |-> 1, C2 |-> 1],
   srgb    |-> [C0 |-> 2, C1 |-> 2, C2 |-> 2],
   warm    |-> [C0 |-> 3, C1 |-> 0, C2 |-> 3],
   cold    |-> [C0 |-> 0, C1 |-> 0, C2 |-> 4],
   night   |-> [C0 |-> 4, C1 |-> 0, C2 |-> 5],
   soft    |-> [C0 |-> 5, C1 |-> 3, C2 |-> 6]]

\* Page 0x55 holds the colour gains, page 0x52 the curves of the channels.  0
\* is what the initial sequence writes.
Colours548 ==
  [natural |-> [gains |-> 0],
   vivid   |-> [gains |-> 1],
   srgb    |-> [blue |-> 1, green |-> 1, red |-> 1],
   warm    |-> [blue |-> 2, green |-> 0, red |-> 2],
   cold    |-> [blue |-> 3, green |-> 0, red |-> 3],
   night   |-> [blue |-> 2, green |-> 0, red |-> 4],
   soft    |-> [blue |-> 4, green |-> 2, red |-> 5]]

Table(p) ==
  CASE variant = "9203" -> Colours9203[p] [] variant = "5inch" -> Colours5inch[p]
    [] variant = "548" -> Colours548[p] [] OTHER -> <<>>

\* The colour registers before a profile is applied: 9203 and 5inch have them
\* as the reset left them (9), and the initial sequence of 548 writes its own.
InitialColours ==
  CASE variant \in {"9203", "5inch"} -> [C0 |-> 9, C1 |-> 9, C2 |-> 9]
    [] variant = "548" -> [blue |-> 0, green |-> 0, red |-> 0, gains |-> 0]
    [] OTHER -> <<>>

-----------------------------------------------------------------------------
(* Commands *)

Listens(h) == h.supplied /\ ~h.reset
Visible(h) == Listens(h) /\ h.awake /\ h.shows

Sent(h, g) == IF Listens(h) THEN g ELSE h

Lit(h)    == Sent(h, [h EXCEPT !.awake = TRUE, !.shows = TRUE])
Dark(h)   == Sent(h, [h EXCEPT !.shows = FALSE])
Asleep(h) == Sent(h, [h EXCEPT !.awake = FALSE])
Written(h, p) ==
  Sent(h, [h EXCEPT !.regs = [r \in DOMAIN @ |-> IF r \in DOMAIN Table(p)
                                                 THEN Table(p)[r] ELSE @[r]]])
Leveled(h, l) == Sent(h, [h EXCEPT !.level = l])

\* The supplies come on, the reset line is pulsed, and the panel has forgotten
\* everything.
PoweredUp(h) ==
  [h EXCEPT !.supplied = TRUE, !.reset = FALSE, !.awake = FALSE,
            !.shows = FALSE, !.level = 0, !.regs = InitialColours]
PoweredDown(h) == [h EXCEPT !.supplied = FALSE]
InReset(h) == [h EXCEPT !.reset = TRUE, !.awake = FALSE, !.shows = FALSE]

\* The initial sequence, after a profile it applies, writes a level of its own.
On9203(h)  == Leveled(h, 1)
On9202(h)  == Lit(Leveled(h, MaxLevel))
On548(h)   == Lit(Leveled(Sent(h, [h EXCEPT !.regs = InitialColours]), MaxLevel))
On5inch(h) == Lit(Leveled(h, MaxLevel))

On(h) ==
  CASE variant = "9203" -> On9203(h) [] variant = "9202" -> On9202(h)
    [] variant = "548" -> On548(h) [] OTHER -> On5inch(h)

\* The builds in which the initial sequence applies ctx->profile.
Reapplies == {"9203", "5inch"}

Off9202(h)  == Asleep(Dark(h))
Off548(h)   == Asleep(Dark(h))
Off5inch(h) == Asleep(Dark(h))

\* Brightness 0 is written as the least that can be seen, but by 9202.
Floor(l) == IF l = 0 /\ variant # "9202" THEN 1 ELSE l

\* backlight_update_status: a backlight that is off has brightness 0.
Backlit(h, on) == Leveled(h, Floor(IF on THEN bl.level ELSE 0))

-----------------------------------------------------------------------------

\* Mutant: the 9203 build sends only the display on command.
Enable9203Asleep(h) == Sent(h, [h EXCEPT !.shows = TRUE])

Enable9203(h)  == Lit(h)
Enable548(h)   == Lit(h)
Enable5inch(h) == Lit(h)

Disable9203(h)  == IF ctx.enabled THEN Dark(h) ELSE h
Disable548(h)   == Asleep(Dark(h))
Disable5inch(h) == Asleep(Dark(h))

FuncsEnable(h) ==
  CASE variant = "9203" -> Enable9203(h) [] variant = "548" -> Enable548(h)
    [] variant = "5inch" -> Enable5inch(h) [] OTHER -> h

FuncsDisable(h) ==
  CASE variant = "9203" -> Disable9203(h) [] variant = "548" -> Disable548(h)
    [] variant = "5inch" -> Disable5inch(h) [] OTHER -> h

\* drm_panel_enable and drm_panel_disable behind their checks.
PanelEnable ==
  /\ enabled' = TRUE
  /\ ctx' = [ctx EXCEPT !.enabled = @ \/ variant # "9202"]
  /\ bl' = [bl EXCEPT !.on = TRUE]
  /\ hw' = Backlit(FuncsEnable(hw), TRUE)

PanelDisable ==
  /\ enabled' = FALSE
  /\ ctx' = [ctx EXCEPT !.enabled = FALSE]
  /\ bl' = [bl EXCEPT !.on = FALSE]
  /\ hw' = FuncsDisable(Backlit(hw, FALSE))

-----------------------------------------------------------------------------
(* DRM *)

External == UNCHANGED <<variant, bound, files, down>>

DrmStart ==
  /\ drm = "off" /\ bound /\ ~down
  /\ drm' = "prepare"
  /\ UNCHANGED <<prepared, enabled, ctx, hw, bl, user, store, applying, said,
                 mixed>>
  /\ External

\* prepare: supplies, reset and the initial sequence up to the point where the
\* profile is applied.
DrmPrepare ==
  /\ drm = "prepare"
  /\ hw' = PoweredUp(hw)
  /\ IF variant \in Reapplies
       THEN drm' = "apply" /\ applying' = ctx.profile
       ELSE drm' = "on" /\ UNCHANGED applying
  /\ mixed' = FALSE
  /\ UNCHANGED <<prepared, enabled, ctx, bl, user, store, said>>
  /\ External

DrmApply ==
  /\ drm = "apply"
  /\ hw' = Written(hw, applying)
  /\ drm' = "on"
  /\ UNCHANGED <<prepared, enabled, ctx, bl, user, store, applying, said,
                 mixed>>
  /\ External

\* The rest of the sequence; or one of its commands has failed, and reset and
\* supplies are put back.
DrmPrepared ==
  /\ drm = "on"
  /\ drm' = "enable?"
  /\ \/ /\ hw' = On(hw) /\ prepared' = TRUE
        /\ ctx' = [ctx EXCEPT !.powered = @ \/ variant = "9203"]
     \/ hw' = PoweredDown(InReset(hw)) /\ UNCHANGED <<prepared, ctx>>
  /\ UNCHANGED <<enabled, bl, user, store, applying, said, mixed>>
  /\ External

Untouched == UNCHANGED <<prepared, enabled, ctx, hw, bl, user, store, applying,
                         mixed>>

DrmEnableCheck ==
  /\ drm = "enable?"
  /\ drm' = IF enabled THEN "up" ELSE "enable"
  /\ Untouched /\ UNCHANGED said /\ External

DrmEnable ==
  /\ drm = "enable"
  /\ PanelEnable
  /\ drm' = "up"
  /\ UNCHANGED <<prepared, user, store, applying, said, mixed>> /\ External

DrmDisableCheck ==
  /\ drm = "up"
  /\ drm' = IF enabled THEN "disable" ELSE "unprepare"
  /\ said' = IF enabled THEN said ELSE "none"
  /\ Untouched /\ External

DrmDisable ==
  /\ drm = "disable"
  /\ PanelDisable
  /\ drm' = "unprepare" /\ said' = "none"
  /\ UNCHANGED <<prepared, user, store, applying, mixed>> /\ External

\* Mutant: a panel that the user has switched off is taken for unpowered.
Keeps9203Enabled == ~ctx.enabled

Keeps9203 == ~ctx.powered

Unprepare9203(h) ==
  IF Keeps9203 THEN h
  ELSE PoweredDown(InReset(Asleep(IF ctx.enabled THEN Dark(h) ELSE h)))
Unprepare9202(h)  == PoweredDown(InReset(Off9202(h)))
Unprepare548(h)   == PoweredDown(InReset(Off548(h)))
Unprepare5inch(h) == PoweredDown(InReset(Off5inch(h)))

DrmUnprepare ==
  /\ drm = "unprepare"
  /\ drm' = "off"
  /\ prepared' = FALSE
  /\ IF ~prepared THEN UNCHANGED <<hw, ctx>>
     ELSE /\ hw' = CASE variant = "9203" -> Unprepare9203(hw)
                     [] variant = "9202" -> Unprepare9202(hw)
                     [] variant = "548" -> Unprepare548(hw)
                     [] OTHER -> Unprepare5inch(hw)
          /\ ctx' = IF variant = "9203" /\ ~Keeps9203
                      THEN [ctx EXCEPT !.enabled = FALSE, !.powered = FALSE]
                      ELSE ctx
  /\ UNCHANGED <<enabled, bl, user, store, applying, said, mixed>> /\ External

Drm ==
  \/ DrmStart \/ DrmPrepare \/ DrmApply \/ DrmPrepared \/ DrmEnableCheck
  \/ DrmEnable \/ DrmDisableCheck \/ DrmDisable \/ DrmUnprepare

-----------------------------------------------------------------------------
(* The user *)

Elsewhere == UNCHANGED <<variant, bound, files, prepared, drm, applying, down>>

\* A write of 1 or 0 to pibrick_display_enable, as far as the checks of
\* ctx->enabled and of drm_panel's flag.
DisplayEnableStore(on) ==
  /\ user = "idle" /\ bound /\ "display" \in files
  /\ ctx.enabled # on /\ enabled # on
  /\ user' = IF on THEN "enable" ELSE "disable"
  /\ UNCHANGED <<enabled, ctx, hw, bl, store, said, mixed>> /\ Elsewhere

DisplaySwitched ==
  /\ user # "idle"
  /\ IF user = "enable" THEN PanelEnable ELSE PanelDisable
  /\ said' = user
  /\ user' = "idle"
  /\ UNCHANGED <<store, mixed>> /\ Elsewhere

\* A write of color_profile remembers the profile, and then writes its table.
ColorProfileStore(p) ==
  /\ store = "idle" /\ bound /\ "profile" \in files
  /\ ctx' = [ctx EXCEPT !.profile = p]
  /\ store' = p
  /\ mixed' = (mixed \/ drm = "apply")
  /\ UNCHANGED <<enabled, hw, bl, user, said>> /\ Elsewhere

ColorProfileApply ==
  /\ store # "idle"
  /\ hw' = Written(hw, store)
  /\ store' = "idle"
  /\ mixed' = (mixed /\ drm = "apply")
  /\ UNCHANGED <<enabled, ctx, bl, user, said>> /\ Elsewhere

SetBrightness(l) ==
  /\ bound
  /\ bl' = [bl EXCEPT !.level = l]
  /\ hw' = Leveled(hw, Floor(IF bl.on THEN l ELSE 0))
  /\ UNCHANGED <<enabled, ctx, user, store, said, mixed>> /\ Elsewhere

User ==
  \/ \E on \in BOOLEAN : DisplayEnableStore(on)
  \/ DisplaySwitched
  \/ \E p \in Profiles : ColorProfileStore(p)
  \/ ColorProfileApply
  \/ \E l \in 0..MaxLevel : SetBrightness(l)

-----------------------------------------------------------------------------
(* Binding, unbinding and shutdown *)

\* What remove leaves of the files probe has created.
Files9203 == {}
Files9202 == {}
Files548   == {"display"}
Files5inch == {"display"}

LeftFiles ==
  CASE variant = "9203" -> Files9203 [] variant = "9202" -> Files9202
    [] variant = "548" -> Files548 [] OTHER -> Files5inch

\* The brightness probe registers the backlight with.
Level9203  == 1
Level9202  == MaxLevel
Level548   == MaxLevel
Level5inch == MaxLevel

FirstLevel ==
  CASE variant = "9203" -> Level9203 [] variant = "9202" -> Level9202
    [] variant = "548" -> Level548 [] OTHER -> Level5inch

\* What probe starts from; the reset line is requested low.
Fresh == [enabled |-> FALSE, powered |-> FALSE, profile |-> "natural"]
Blank == [supplied |-> FALSE, reset |-> FALSE, awake |-> FALSE,
          shows |-> FALSE, level |-> 0, regs |-> InitialColours]
AllFiles == IF variant = "9202" THEN {} ELSE {"display", "profile"}

Init ==
  /\ variant \in Variants
  /\ bound = TRUE /\ files = AllFiles
  /\ prepared = FALSE /\ enabled = FALSE /\ ctx = Fresh
  /\ hw = Blank /\ bl = [level |-> FirstLevel, on |-> TRUE]
  /\ drm = "off" /\ user = "idle" /\ store = "idle" /\ applying = "natural"
  /\ down = FALSE /\ said = "none" /\ mixed = FALSE

\* remove: a file that goes waits for its writers; one that stays does not.
Remove ==
  /\ bound /\ drm = "off" /\ ~down
  /\ store = "idle" /\ ("display" \notin LeftFiles => user = "idle")
  /\ bound' = FALSE
  /\ files' = files \cap LeftFiles
  /\ UNCHANGED <<variant, prepared, enabled, ctx, hw, bl, drm, user, store,
                 applying, down, said, mixed>>

\* probe allocates everything anew; a file that is still there stays.
Probe ==
  /\ ~bound /\ user = "idle"
  /\ bound' = TRUE /\ files' = AllFiles
  /\ prepared' = FALSE /\ enabled' = FALSE /\ ctx' = Fresh
  /\ hw' = [hw EXCEPT !.reset = FALSE]
  /\ bl' = [level |-> FirstLevel, on |-> TRUE]
  /\ said' = "none" /\ mixed' = FALSE
  /\ UNCHANGED <<variant, drm, user, store, applying, down>>

\* Mutant: a panel that the driver takes for unpowered is left as it is.
Shutdown9203Early(h) ==
  IF ctx.enabled THEN InReset(Asleep(Dark(h))) ELSE h

Shutdown9203(h) ==
  InReset(IF ctx.powered
            THEN Asleep(IF ctx.enabled THEN Dark(h) ELSE h)
            ELSE h)
Shutdown548(h)   == InReset(Off548(h))
Shutdown5inch(h) == InReset(Off5inch(h))

\* The device's shutdown; the supplies stay on, and DRM may still take the
\* panel down.
Shutdown ==
  /\ variant # "9202" /\ bound /\ ~down /\ drm \in {"off", "up"}
  /\ down' = TRUE
  /\ hw' = CASE variant = "9203" -> Shutdown9203(hw)
             [] variant = "548" -> Shutdown548(hw) [] OTHER -> Shutdown5inch(hw)
  /\ ctx' = IF variant = "9203"
              THEN [ctx EXCEPT !.enabled = @ /\ ~ctx.powered, !.powered = FALSE]
              ELSE ctx
  /\ UNCHANGED <<variant, bound, files, prepared, enabled, bl, drm, user, store,
                 applying, said, mixed>>

Next == Drm \/ User \/ Remove \/ Probe \/ Shutdown

Spec == Init /\ [][Next]_vars

-----------------------------------------------------------------------------
(* Properties *)

\* The supplies follow DRM through failed preparations and whatever the user
\* switches meanwhile: outside of a prepare the panel is supplied exactly when
\* DRM believes it prepared, so no enable of the regulators is lost or doubled.
SuppliesFollowDrm ==
  ~down /\ drm \notin {"prepare", "apply", "on"} => hw.supplied = prepared

\* When DRM has brought the panel up, the panel can be seen, at the brightness
\* the user has set, unless the user has switched it since DRM last took it
\* down.  A switch on is enough for the builds whose initial sequence ends the
\* sleep, even one that came while the panel had no supply.
LitWhenUp ==
  drm = "up" /\ prepared /\ ~down =>
    /\ said = "none" =>
         Visible(hw) /\ (variant # "9202" => hw.level = Floor(bl.level))
    /\ said = "enable" /\ variant # "9203" => Visible(hw)

\* After the shutdown the panel is dark whatever still runs: a switch, a
\* profile or DRM's own way down.
DarkAfterShutdown == down => ~Visible(hw)

\* A panel that is prepared shows the profile that color_profile_show reports,
\* in the builds that apply it again with every prepare.
ProfileShown ==
  /\ variant \in {"9203", "5inch"} /\ prepared /\ ~down /\ Listens(hw)
  /\ drm \notin {"prepare", "apply", "on"} /\ store = "idle" /\ ~mixed
  => hw.regs = Table(ctx.profile)

\* The panel shows what DRM and the user have set: light, brightness and colours.
ShowsWhatIsSet == LitWhenUp /\ ProfileShown
=============================================================================
