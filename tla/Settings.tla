----------------------------- MODULE Settings -----------------------------
(***************************************************************************)
(* The settings dialog (ui/config/ui_config_state.c, ui_voice_presets.c,   *)
(* ui/dialogs/ui_config_command.c, ui_config_dialog.c, ui_dynamic.c) and   *)
(* the threads that change the configuration behind its back.              *)
(*                                                                         *)
(* The dialog edits a working copy.  A Save copies the fields the dialog   *)
(* owns into the live configuration; Cancel drops them.  Meanwhile the     *)
(* callback thread applies the profile of a server (defaults, forces,      *)
(* limits, zones) and the watcher stores the automatic path.  One voice    *)
(* distance stands for the three, one key for the five, one forced toggle  *)
(* for the two.  The file behind a Save is in ConfigFile.                  *)
(***************************************************************************)
EXTENDS RangeUnits

CONSTANTS Typed,      \* tenths a user may type; 0 stands for a text that is no number
          HubLo, HubHi, \* limits of the server, in millimetres
          ZoneDist,   \* distance of its zone
          ServerDist, \* its default distance
          MaxClicks,  \* bound on what the user does
          SetMaxEvents \* bound on what the other threads do

SetAssumption ==
    /\ Typed \subseteq Nat
    /\ {HubLo, HubHi, ZoneDist, ServerDist} \subseteq Nat

VARIABLES live,     \* g_config
          dlg,      \* the working copy and what the dialog shows
          phase,    \* "closed", "opening" (begun, no window yet), "open"
          category, \* 1 patch, 2 options, 3 presets
          preset,   \* one slot of voicePresets
          presetFile, \* the same slot in voice_presets.cfg
          strict,   \* the server's profile is applied: forces, limits, unit
          inZone,   \* currentZoneIndex # -1
          stored,   \* what the owners of the fields have stored (bookkeeping)
          clicks, setEvents

setvars == <<live, dlg, phase, category, preset, presetFile, strict, inZone, stored,
             clicks, setEvents>>

Keys == {97, 84}
Paths == {"none", "p", "q"}
Stored == Paths \cup {"label"}

Initial == [dist |-> 13000, unit |-> 0, key |-> 97, muting |-> FALSE, hud |-> 0,
            man |-> "none", find |-> TRUE, auto |-> "none", served |-> FALSE]

EmptySlot == [used |-> FALSE, dist |-> 10000, key |-> 97]

ClampWork(c) == [c EXCEPT !.dist = IF @ < 500 THEN 500 ELSE IF @ > 500000 THEN 500000 ELSE @]

(* Mutant: the whole working copy is stored. *)
MergeAll(g, w) == w

\* ui_cfg_merge_dialog_fields: everything but the automatic path and the mark
\* of the served server.
Merge(g, w) == [w EXCEPT !.auto = g.auto, !.served = g.served]

-----------------------------------------------------------------------------
(***************************************************************************)
(* What the dialog shows.  d is the value of dlg; a field is a text of     *)
(* tenths, and the unit it was written or typed in is remembered beside it *)
(* (the program has no such memory: the text is all it has).               *)
(***************************************************************************)
Show(d, mm) == [d EXCEPT !.field = Shown(mm, d.unit), !.fieldUnit = d.unit]

UnitNow(d) == Effective(d.work.unit, strict)

(* Mutant: a unit change does not rewrite the field that is typed in. *)
DynamicKeepsFocus(d, c, typing, urgent) ==
    IF c # 2 THEN d
    ELSE LET e == [d EXCEPT !.unit = UnitNow(d)]
         IN IF typing \/ urgent THEN e ELSE Show(e, d.work.dist)

\* updateDynamicInterface on page c: forces, corrections, and the text of the
\* field unless the user is typing in it and the unit is the old one.
Dynamic(d, c, typing, urgent) ==
    IF c # 2 THEN d
    ELSE LET changed == UnitNow(d) # d.unit \/ urgent
             e == [d EXCEPT !.unit = UnitNow(d), !.work.muting = @ \/ strict]
             value == IF inZone THEN ZoneDist
                      ELSE IF strict THEN CorrectToLimits(e.work.dist, e.unit, HubLo, HubHi)
                      ELSE e.work.dist
             f == IF typing /\ ~changed THEN e ELSE Show(e, value)
         IN IF inZone THEN f ELSE [f EXCEPT !.work.dist = value]

\* The interface is refreshed at most every 100 ms.
Refreshed(d, c, typing) == {d, Dynamic(d, c, typing, FALSE)}

\* ui_range_unit_changed.
UnitChanged(d) == Dynamic([d EXCEPT !.unit = UnitNow(d)], category, FALSE, TRUE)

\* ui_cfg_dialog_begin.
Begin == [work |-> live, unit |-> Effective(live.unit, strict),
          field |-> 0, fieldUnit |-> Effective(live.unit, strict), hudSaved |-> live.hud]

-----------------------------------------------------------------------------
SetInit ==
    /\ live = Initial
    /\ phase = "closed"
    /\ category = 1
    /\ preset = EmptySlot
    /\ presetFile = EmptySlot
    /\ strict = FALSE
    /\ inZone = FALSE
    /\ dlg = Begin
    /\ stored = Initial
    /\ clicks = 0
    /\ setEvents = 0

Click == clicks < MaxClicks /\ clicks' = clicks + 1 /\ UNCHANGED setEvents
Window == phase = "open" /\ Click

\* A commit by the dialog, seen from the owners of the fields.
StoreOwned(w) == [w EXCEPT !.auto = stored.auto, !.served = stored.served]

\* ui_cfg_commit with the working copy of d.
Commit(d) ==
    LET w == ClampWork(d.work)
    IN /\ live' = Merge(live, w)
       /\ stored' = StoreOwned(w)
       /\ dlg' = [d EXCEPT !.work = w, !.hudSaved = w.hud]

\* writeFullConfiguration: the active path of the working copy (automatic or
\* manual), the distance as it was handed over as text, then the commit.
\* Without a path the text of the label is taken for one.
WriteFull(d, path, mm) ==
    LET w == [d.work EXCEPT !.dist = Transport(mm, d.unit)]
        folder == IF path = "none" THEN "label" ELSE path
    IN Commit([d EXCEPT !.work = IF w.find THEN [w EXCEPT !.auto = folder]
                                 ELSE [w EXCEPT !.man = folder]])

ActivePath(w) == IF w.find /\ w.auto # "none" THEN w.auto ELSE w.man

-----------------------------------------------------------------------------
(***************************************************************************)
(* Opening and closing (showConfigInterface).                              *)
(***************************************************************************)
DialogBegins ==
    /\ phase = "closed"
    /\ Click
    /\ phase' = "opening"
    /\ dlg' = Begin
    /\ UNCHANGED <<live, category, preset, presetFile, strict, inZone, stored>>

\* showConfigInterfaceRun: automatic mode looks for the game and, if it is
\* found, commits before the window exists.  Then the window is created.
DialogShows ==
    /\ phase = "opening"
    /\ phase' = "open"
    /\ category' = 1
    /\ \/ /\ dlg.work.find
          /\ \E p \in Paths \ {"none"} :
                LET d == [dlg EXCEPT !.work.auto = p]
                IN WriteFull(Show(d, Transport(d.work.dist, d.unit)), p, d.work.dist)
       \/ /\ dlg' = Show(dlg, dlg.work.dist)
          /\ UNCHANGED <<live, stored>>
    /\ UNCHANGED <<preset, presetFile, strict, inZone, clicks, setEvents>>

(* Mutant: a preview survives a Cancel. *)
EndKeepsPreview(g) == g

\* ui_cfg_dialog_end: an unsaved preview of the display is undone.
End(g) == [g EXCEPT !.hud = dlg.hudSaved]

\* The window is closed, by Save or Cancel or with Alt+F4, or was never created.
DialogEnds ==
    /\ phase \in {"opening", "open"}
    /\ phase' = "closed"
    /\ live' = End(live)
    /\ dlg' = [dlg EXCEPT !.work = Initial, !.field = 0, !.fieldUnit = dlg.unit]
    /\ UNCHANGED <<category, preset, presetFile, strict, inZone, stored, clicks, setEvents>>

ShowCategory(c) ==
    /\ Window
    /\ c # category
    /\ category' = c
    /\ dlg' \in Refreshed(dlg, c, FALSE)
    /\ UNCHANGED <<live, phase, preset, presetFile, strict, inZone, stored>>

-----------------------------------------------------------------------------
(***************************************************************************)
(* The options page.                                                       *)
(***************************************************************************)
\* Every control but the Save buttons changes the working copy only.
Edit(new) ==
    /\ Window
    /\ dlg' = new
    /\ UNCHANGED <<live, phase, category, preset, presetFile, strict, inZone, stored>>

\* handleDistanceEditChange: a number that the field does not already show is
\* pulled into the limits as they are shown, shown again if that changed it,
\* and stored in the working copy.  Too few digits are not looked at yet.
TypedInto(d, t) ==
    LET e == [d EXCEPT !.field = t, !.fieldUnit = d.unit]
        onDisplay == IF strict THEN LimitsOnDisplay(HubLo, HubHi, d.unit) ELSE [lo |-> 0, hi |-> 0]
        corrected == ClampMm(ToMm(t, d.unit), onDisplay.lo, onDisplay.hi)
        f == IF corrected = ToMm(t, d.unit) THEN e ELSE Show(e, corrected)
        new == IF strict /\ d.unit = 1 THEN ClampMm(corrected, HubLo, HubHi) ELSE corrected
    IN IF t = 0 \/ Unchanged(d.work.dist, d.unit, t) THEN {e}
       ELSE {e} \cup Refreshed([f EXCEPT !.work.dist = new], category, TRUE)

Type(t) ==
    /\ category = 2
    /\ t # dlg.field
    /\ IF UnitNow(dlg) # dlg.unit
       THEN Edit(UnitChanged([dlg EXCEPT !.field = t]))
       ELSE \E new \in TypedInto(dlg, t) : Edit(new)

\* The toggles that a server can force stay on while it does.
ToggleMuting ==
    /\ category = 2
    /\ IF strict
       THEN Edit([dlg EXCEPT !.work.muting = TRUE])
       ELSE \E new \in Refreshed([dlg EXCEPT !.work.muting = ~@], 2, FALSE) : Edit(new)

\* The unit on display; a server's choice is shown but never stored.
ToggleUnit ==
    /\ category = 2
    /\ ~strict
    /\ Edit(UnitChanged([dlg EXCEPT !.work.unit = 1 - @]))

\* processKeyCapture.
CaptureKey(k) ==
    /\ category = 2
    /\ k # dlg.work.key
    /\ Edit([dlg EXCEPT !.work.key = k])

\* ui_cfg_hud_preview: the choice is live at once, but not stored.
Preview ==
    /\ Window
    /\ category = 2
    /\ dlg' = [dlg EXCEPT !.work.hud = 1 - @]
    /\ live' = [live EXCEPT !.hud = 1 - dlg.work.hud]
    /\ UNCHANGED <<phase, category, preset, presetFile, strict, inZone, stored>>

\* ui_collect_distances_for_save: in a zone the field shows the zone's distance,
\* the working copy is kept.
Collect(d) ==
    IF inZone THEN d.work.dist
    ELSE ReadField(d.field, d.unit, d.work.dist, strict, HubLo, HubHi)

\* Save on the options page: first the unit, then the field, then the commit.
SaveOptions ==
    /\ Window
    /\ category = 2
    /\ \/ /\ ~inZone
          /\ UnitNow(dlg) # dlg.unit
          /\ dlg' = UnitChanged(dlg)
          /\ UNCHANGED <<live, stored>>
       \/ /\ inZone \/ UnitNow(dlg) = dlg.unit
          /\ Collect(dlg) = Refused
          /\ UNCHANGED <<live, stored, dlg>>
       \/ /\ inZone \/ UnitNow(dlg) = dlg.unit
          /\ Collect(dlg) # Refused
          /\ \/ WriteFull(dlg, ActivePath(dlg.work), Collect(dlg))
             \/ Commit([dlg EXCEPT !.work.dist = Collect(dlg)])
    /\ UNCHANGED <<phase, category, preset, presetFile, strict, inZone>>

-----------------------------------------------------------------------------
(***************************************************************************)
(* The patch page and the presets.                                         *)
(***************************************************************************)
ToggleFind ==
    /\ category = 1
    /\ Edit([dlg EXCEPT !.work.find = ~@])

\* Save on the patch page: the automatic path as it is found now, or the folder
\* the user picked; a folder that does not exist is refused.
SavePatch ==
    /\ Window
    /\ category = 1
    /\ \/ UNCHANGED <<live, stored, dlg>>
       \/ \E p \in Paths \ {"none"} : WriteFull(dlg, p, dlg.work.dist)
    /\ UNCHANGED <<phase, category, preset, presetFile, strict, inZone>>

\* saveVoicePreset, from the dialog that the options page opens; writing the
\* file may fail, the old one is kept then.
SavePreset ==
    /\ Window
    /\ category = 2
    /\ preset' = [used |-> TRUE, dist |-> dlg.work.dist, key |-> dlg.work.key]
    /\ presetFile' \in {presetFile, [preset' EXCEPT !.dist = ToMm(Shown(@, 0), 0)]}
    /\ UNCHANGED <<live, dlg, phase, category, strict, inZone, stored>>

\* loadVoicePreset commits the whole working copy at once.
LoadPreset ==
    /\ Window
    /\ category = 3
    /\ preset.used
    /\ LET d == [dlg EXCEPT !.work.dist = preset.dist, !.work.key = preset.key]
       IN WriteFull(Show(d, preset.dist), ActivePath(d.work), preset.dist)
    /\ UNCHANGED <<phase, category, preset, presetFile, strict, inZone>>

\* The plugin starts again: the presets are read from their file.
PluginRestarts ==
    /\ phase = "closed"
    /\ Click
    /\ preset' = presetFile
    /\ strict' = FALSE
    /\ inZone' = FALSE
    /\ UNCHANGED <<live, dlg, phase, category, presetFile, stored>>

-----------------------------------------------------------------------------
(***************************************************************************)
(* The other threads.                                                      *)
(***************************************************************************)
SetEvent == setEvents < SetMaxEvents /\ setEvents' = setEvents + 1 /\ UNCHANGED clicks

\* server_profile_apply: defaults once, forces, and the mirrors of the limits.
ProfileArrives ==
    /\ ~strict
    /\ SetEvent
    /\ strict' = TRUE
    /\ LET Applied(c) == [c EXCEPT !.dist = IF live.served THEN @ ELSE ServerDist,
                                   !.served = TRUE, !.muting = TRUE]
       IN live' = Applied(live) /\ stored' = Applied(stored)
    /\ UNCHANGED <<dlg, phase, category, preset, presetFile, inZone>>

\* The connection ends, and with it limits, forces and zones.
ProfileLeaves ==
    /\ strict
    /\ SetEvent
    /\ strict' = FALSE
    /\ inZone' = FALSE
    /\ UNCHANGED <<live, dlg, phase, category, preset, presetFile, stored>>

\* The player walks into a zone of the server or out of it.
ZoneCrossed ==
    /\ strict
    /\ SetEvent
    /\ inZone' = ~inZone
    /\ UNCHANGED <<live, dlg, phase, category, preset, presetFile, strict, stored>>

\* pos_autodetect_saved_path.
PathDetected ==
    /\ live.find
    /\ SetEvent
    /\ \E p \in Paths \ {live.auto} :
          live' = [live EXCEPT !.auto = p] /\ stored' = [stored EXCEPT !.auto = p]
    /\ UNCHANGED <<dlg, phase, category, preset, presetFile, strict, inZone>>

SetNext ==
    \/ DialogBegins
    \/ DialogShows
    \/ DialogEnds
    \/ \E c \in 1..3 : ShowCategory(c)
    \/ \E t \in Typed : Type(t)
    \/ ToggleMuting
    \/ ToggleUnit
    \/ \E k \in Keys : CaptureKey(k)
    \/ Preview
    \/ SaveOptions
    \/ ToggleFind
    \/ SavePatch
    \/ SavePreset
    \/ LoadPreset
    \/ PluginRestarts
    \/ ProfileArrives
    \/ ProfileLeaves
    \/ ZoneCrossed
    \/ PathDetected

SetSpec == SetInit /\ [][SetNext]_setvars

-----------------------------------------------------------------------------
SettingsOf(dists) ==
    [dist : dists, unit : 0..1, key : Keys, muting : BOOLEAN, hud : 0..1, man : Stored,
     find : BOOLEAN, auto : Stored, served : BOOLEAN]

\* Types; what is live is always inside the range of the configuration.
SetTypeOK ==
    /\ {live, stored} \subseteq SettingsOf(500..500000)
    /\ dlg.work \in SettingsOf(Nat)
    /\ dlg.unit \in 0..1 /\ dlg.fieldUnit \in 0..1 /\ dlg.field \in Nat /\ dlg.hudSaved \in 0..1
    /\ phase \in {"closed", "opening", "open"} /\ category \in 1..3
    /\ preset.used \in BOOLEAN /\ presetFile.used \in BOOLEAN
    /\ strict \in BOOLEAN /\ inZone \in BOOLEAN

\* What is live is what the owner of each field stored last: a Save never takes
\* back the automatic path or the served server that another thread stored
\* while the dialog was open, and nothing the user tried and did not save stays
\* behind when the dialog is closed.  While it is open only the display's
\* preview may differ.
OnlyStoredIsLive ==
    /\ [live EXCEPT !.hud = stored.hud] = stored
    /\ phase = "closed" => live.hud = stored.hud

\* The number in the field is a number of the unit in which it will be read
\* (ui_config_command.c: "a number typed in one unit must never be read as the
\* other"), whoever switches units, at any page.
UnitAgrees == phase = "open" => dlg.fieldUnit = dlg.unit

\* Nothing of the dialog counts before it is saved, in whatever unit.
SettingsAreStored == OnlyStoredIsLive /\ UnitAgrees

\* ui_config_command.c on the distances of a zone, which the field shows: "They
\* must not be stored as the player's own distances".
ZoneNotStored == live.dist \notin {ZoneDist, ToMm(Shown(ZoneDist, 1), 1)}
=============================================================================
