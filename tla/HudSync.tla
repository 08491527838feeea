------------------------------- MODULE HudSync -------------------------------
(***************************************************************************)
(* How the HUD follows the position and the hub profile                    *)
(* (plugin_ui_compat.c:284-551, voice_overlay.c): the shared mirrors have  *)
(* one writer, the callback thread; the position threads only raise a flag *)
(* and wake it; the overlay thread paints from the mirrors whenever a      *)
(* refresh message comes.                                                  *)
(*                                                                         *)
(* hudSrc    the sources: version of the position, version of the profile  *)
(* hudMirror what the callback thread copied: the position, the zone (from *)
(*           a second look at the position), the profile                   *)
(* hudImage  what the overlay painted of it                                *)
(* hudFlag   pending (g_pendingSync), wake (a CEDRAIN is under way),       *)
(*           refresh (WM_VOICEOVERLAY_REFRESH is queued), online           *)
(* hudTick, hudCb, hudPaint  where the position threads, the callback      *)
(*           thread and the overlay thread are                             *)
(*                                                                         *)
(* A CEDRAIN asked for while a connection is there arrives (module Wakeup  *)
(* says when that is so); without a connection it never does.              *)
(***************************************************************************)
EXTENDS Naturals

CONSTANTS HudTickers,           \* the position watcher, the HTTP listener
          HudMaxChanges,        \* positions and profiles
          HudMaxSwitches        \* connects and disconnects

HudAssumption == HudMaxChanges \in Nat /\ HudMaxSwitches \in Nat

VARIABLES hudSrc, hudMirror, hudImage, hudFlag, hudTick, hudCb, hudPaint,
          hudLeft

hudvars == <<hudSrc, hudMirror, hudImage, hudFlag, hudTick, hudCb, hudPaint,
             hudLeft>>

Versions == 0 .. HudMaxChanges

Nothing == [pos |-> 0, zone |-> 0, hub |-> 0]

HudInit ==
  /\ hudSrc = [pos |-> 0, hub |-> 0]
  /\ hudMirror = Nothing
  /\ hudImage = Nothing
  /\ hudFlag = [pending |-> FALSE, wake |-> FALSE, refresh |-> FALSE,
                online |-> FALSE]
  /\ hudTick = [t \in HudTickers |-> "idle"]
  /\ hudCb = "idle"
  /\ hudPaint = "idle"
  /\ hudLeft = [changes |-> HudMaxChanges, switches |-> HudMaxSwitches]

-----------------------------------------------------------------------------
(* A position thread: new sample, flag, wake on the 0 -> 1 edge, refresh.  *)

NewPosition(t) ==
  /\ hudTick[t] = "idle" /\ hudLeft.changes > 0
  /\ hudLeft' = [hudLeft EXCEPT !.changes = @ - 1]
  /\ hudSrc' = [hudSrc EXCEPT !.pos = @ + 1]
  /\ hudTick' = [hudTick EXCEPT ![t] = "request"]
  /\ UNCHANGED <<hudMirror, hudImage, hudFlag, hudCb, hudPaint>>

RequestSync(t) ==
  /\ hudTick[t] = "request"
  /\ hudFlag' = [hudFlag EXCEPT !.pending = TRUE]
  /\ hudTick' = [hudTick EXCEPT ![t] = IF hudFlag.pending THEN "show" ELSE "wake"]
  /\ UNCHANGED <<hudSrc, hudMirror, hudImage, hudCb, hudPaint, hudLeft>>

RequestWakeup(t) ==
  /\ hudTick[t] = "wake"
  /\ hudFlag' = [hudFlag EXCEPT !.wake = hudFlag.online]
  /\ hudTick' = [hudTick EXCEPT ![t] = "show"]
  /\ UNCHANGED <<hudSrc, hudMirror, hudImage, hudCb, hudPaint, hudLeft>>

TickShows(t) ==
  /\ hudTick[t] = "show"
  /\ hudFlag' = [hudFlag EXCEPT !.refresh = TRUE]
  /\ hudTick' = [hudTick EXCEPT ![t] = "idle"]
  /\ UNCHANGED <<hudSrc, hudMirror, hudImage, hudCb, hudPaint, hudLeft>>

-----------------------------------------------------------------------------
(* The callback thread.                                                    *)

\* CEDRAIN: plugin_ui_flush_pending_sync, when the flag is up.
Drain ==
  /\ hudCb = "idle" /\ hudFlag.wake /\ hudFlag.online
  /\ hudFlag' = [hudFlag EXCEPT !.wake = FALSE]
  /\ hudCb' = IF hudFlag.pending THEN "clear" ELSE "idle"
  /\ UNCHANGED <<hudSrc, hudMirror, hudImage, hudTick, hudPaint, hudLeft>>

\* plugin_ui_on_hub_profile_updated: a new description was parsed.
ProfileUpdated ==
  /\ hudCb = "idle" /\ hudFlag.online /\ hudLeft.changes > 0
  /\ hudLeft' = [hudLeft EXCEPT !.changes = @ - 1]
  /\ hudSrc' = [hudSrc EXCEPT !.hub = @ + 1]
  /\ hudCb' = "clear"
  /\ UNCHANGED <<hudMirror, hudImage, hudFlag, hudTick, hudPaint>>

\* ts3_bootstrap_connected_session syncs on the spot, whatever the flag says.
Connect ==
  /\ hudCb = "idle" /\ ~hudFlag.online /\ hudLeft.switches > 0
  /\ hudLeft' = [hudLeft EXCEPT !.switches = @ - 1]
  /\ hudFlag' = [hudFlag EXCEPT !.online = TRUE]
  /\ hudCb' = "clear"
  /\ UNCHANGED <<hudSrc, hudMirror, hudImage, hudTick, hudPaint>>

\* The profile goes with the connection, the CEDRAIN under way too.
Disconnect ==
  /\ hudCb = "idle" /\ hudFlag.online /\ hudLeft.switches > 0
  /\ hudLeft' = [hudLeft EXCEPT !.switches = @ - 1]
  /\ hudFlag' = [hudFlag EXCEPT !.online = FALSE, !.wake = FALSE]
  /\ hudSrc' = [hudSrc EXCEPT !.hub = 0]
  /\ hudCb' = "clear"
  /\ UNCHANGED <<hudMirror, hudImage, hudTick, hudPaint>>

\* plugin_ui_sync_live_state: the flag is cleared before the sources are read.
DropPending ==
  /\ hudCb = "clear"
  /\ hudFlag' = [hudFlag EXCEPT !.pending = FALSE]
  /\ hudCb' = "pos"
  /\ UNCHANGED <<hudSrc, hudMirror, hudImage, hudTick, hudPaint, hudLeft>>

CopyPosition ==
  /\ hudCb = "pos"
  /\ hudMirror' = [hudMirror EXCEPT !.pos = hudSrc.pos]
  /\ hudCb' = "hub"
  /\ UNCHANGED <<hudSrc, hudImage, hudFlag, hudTick, hudPaint, hudLeft>>

CopyProfile ==
  /\ hudCb = "hub"
  /\ hudMirror' = [hudMirror EXCEPT !.hub = hudSrc.hub]
  /\ hudCb' = "zone"
  /\ UNCHANGED <<hudSrc, hudImage, hudFlag, hudTick, hudPaint, hudLeft>>

\* Mutant: the flag is cleared at the end of the sync (again).
ResolveZoneClears ==
  /\ hudCb = "zone"
  /\ hudMirror' = [hudMirror EXCEPT !.zone = hudSrc.pos]
  /\ hudFlag' = [hudFlag EXCEPT !.pending = FALSE]
  /\ hudCb' = "show"
  /\ UNCHANGED <<hudSrc, hudImage, hudTick, hudPaint, hudLeft>>

ResolveZone ==
  /\ hudCb = "zone"
  /\ hudMirror' = [hudMirror EXCEPT !.zone = hudSrc.pos]
  /\ hudCb' = "show"
  /\ UNCHANGED <<hudSrc, hudImage, hudFlag, hudTick, hudPaint, hudLeft>>

\* Every sync ends with a refresh; a drain ends by asking for the next one if
\* the flag went up again meanwhile.
ShowAndRewake ==
  /\ hudCb = "show"
  /\ hudFlag' = [hudFlag EXCEPT !.refresh = TRUE,
                                !.wake = @ \/ (hudFlag.pending /\ hudFlag.online)]
  /\ hudCb' = "idle"
  /\ UNCHANGED <<hudSrc, hudMirror, hudImage, hudTick, hudPaint, hudLeft>>

-----------------------------------------------------------------------------
(* The overlay thread: one refresh, a paint that reads the mirrors one by  *)
(* one while they may be written.                                          *)

TakeRefresh ==
  /\ hudPaint = "idle" /\ hudFlag.refresh
  /\ hudFlag' = [hudFlag EXCEPT !.refresh = FALSE]
  /\ hudPaint' = "zone"
  /\ UNCHANGED <<hudSrc, hudMirror, hudImage, hudTick, hudCb, hudLeft>>

PaintZone ==
  /\ hudPaint = "zone"
  /\ hudImage' = [hudImage EXCEPT !.zone = hudMirror.zone]
  /\ hudPaint' = "rest"
  /\ UNCHANGED <<hudSrc, hudMirror, hudFlag, hudTick, hudCb, hudLeft>>

PaintRest ==
  /\ hudPaint = "rest"
  /\ hudImage' = [hudMirror EXCEPT !.zone = hudImage.zone]
  /\ hudPaint' = "idle"
  /\ UNCHANGED <<hudSrc, hudMirror, hudFlag, hudTick, hudCb, hudLeft>>

HudNext ==
  \/ \E t \in HudTickers :
       NewPosition(t) \/ RequestSync(t) \/ RequestWakeup(t) \/ TickShows(t)
  \/ Drain \/ ProfileUpdated \/ Connect \/ Disconnect
  \/ DropPending \/ CopyPosition \/ CopyProfile \/ ResolveZone
  \/ ShowAndRewake
  \/ TakeRefresh \/ PaintZone \/ PaintRest

HudSpec == HudInit /\ [][HudNext]_hudvars

-----------------------------------------------------------------------------
(* Properties.                                                             *)

HudTypeOK ==
  /\ hudSrc \in [pos : Versions, hub : Versions]
  /\ {hudMirror, hudImage} \subseteq
       [pos : Versions, zone : Versions, hub : Versions]
  /\ hudFlag \in [pending : BOOLEAN, wake : BOOLEAN, refresh : BOOLEAN, online : BOOLEAN]
  /\ hudTick \in [HudTickers -> {"idle", "request", "wake", "show"}]
  /\ hudCb \in {"idle", "clear", "pos", "hub", "zone", "show"}
  /\ hudPaint \in {"idle", "zone", "rest"}
  /\ hudLeft \in [changes : Versions, switches : 0 .. HudMaxSwitches]

\* Nobody is at work and no message is under way.
HudAtRest ==
  /\ \A t \in HudTickers : hudTick[t] = "idle"
  /\ hudCb = "idle" /\ hudPaint = "idle"
  /\ ~hudFlag.wake /\ ~hudFlag.refresh

\* The coalescing flag loses no tick (plugin_ui_compat.c:311-323 and 484): when
\* everything has come to rest on a connection, however the ticks of the two
\* threads fell into the syncs and whatever happened while there was no
\* connection, the HUD shows the sources as they are and the flag is down, so
\* the next tick wakes the dispatcher again.
HudIsCurrent ==
  HudAtRest /\ hudFlag.online =>
    /\ hudImage = [pos |-> hudSrc.pos, zone |-> hudSrc.pos, hub |-> hudSrc.hub]
    /\ ~hudFlag.pending
=============================================================================
