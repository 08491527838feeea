--------------------------- MODULE RenderSession ----------------------------
(***************************************************************************)
(* One client id around changes of the server tab.  TeamSpeak calls the    *)
(* plugin with blocks of every open tab, and ids repeat between tabs.  The *)
(* audio thread compares the tab of a block with g_activeConnection and    *)
(* renders it with the target published for the id; the callback thread    *)
(* resets the per-connection state and publishes the new identity, one     *)
(* store at a time (ts3_entry.c, ts3_adapter.c, ts3_proximity_audio.c).    *)
(*                                                                         *)
(* Every adoption of a tab is a session, numbered from 1.  A target and a  *)
(* gain are the session they were computed in, 0 is a target without a     *)
(* position and a gain that no target set.  The snapshot is an atomic      *)
(* register (module AudioSnap).                                            *)
(***************************************************************************)
EXTENDS Naturals, Sequences

CONSTANTS
  Tabs, Offline,     \* server tabs; no tab
  StatusFirst,       \* TRUE: a shown tab may report its status before the tab change
  MaxTabMoves        \* bound: tab events and leaving speakers

RenderAssumption == Offline \notin Tabs /\ StatusFirst \in BOOLEAN /\ MaxTabMoves \in Nat

VARIABLES
  up, tabMoves,                          \* TeamSpeak: established tabs
  activeConn, connected, session,        \* published identity; history: adoptions
  mode,                                  \* g_audioMode
  position,                              \* is the speaker in the player table
  snap, gen,                             \* g_snap and g_snapGeneration of the id
  todo,                                  \* callback thread: stores still to make
  renderAt, bsession,                    \* audio thread; session of its block
  renderGen, cache, gain, fresh,         \* g_renderGeneration, g_targetCache, g_renderGain, g_renderFresh
  heard                                  \* the last rendered block

identity == <<activeConn, connected, session>>
target   == <<mode, position, snap, gen>>
audio    == <<renderAt, bsession, renderGen, cache, gain, fresh, heard>>
vars == <<up, tabMoves, identity, target, todo, audio>>

Modes == {"passthrough", "proximity", "mute"}
Sessions == 0..MaxTabMoves
Silence == [block |-> 0, target |-> 0, from |-> 0]

TypeOK ==
  /\ up \subseteq Tabs /\ tabMoves \in 0..MaxTabMoves
  /\ activeConn \in Tabs \cup {Offline} /\ connected \in BOOLEAN /\ session \in Sessions
  /\ mode \in Modes /\ position \in BOOLEAN
  /\ snap \in Sessions /\ gen \in Nat
  /\ renderAt \in {"idle", "gen", "mode", "snap", "shape"}
  /\ bsession \in Sessions /\ renderGen \in Nat
  /\ renderAt # "idle" => bsession # 0
  /\ renderAt = "shape" => cache # 0              \* no block is shaped without a target
  /\ cache \in Sessions /\ gain \in Sessions /\ fresh \in BOOLEAN
  /\ heard \in [block : Sessions, target : Sessions, from : Sessions]

Init ==
  /\ up = {} /\ tabMoves = 0
  /\ activeConn = Offline /\ connected = FALSE /\ session = 0
  /\ mode = "passthrough" /\ position = FALSE /\ snap = 0 /\ gen = 0
  /\ todo = <<>>
  /\ renderAt = "idle" /\ bsession = 0
  /\ renderGen = 0 /\ cache = 0 /\ gain = 0 /\ fresh = FALSE
  /\ heard = Silence
-----------------------------------------------------------------------------
(* Callback thread: the tab events.                                        *)

Op(what, arg) == [op |-> what, arg |-> arg]
Do(what) == Op(what, Offline)

(* ts3_reset_connection_state: quiesce, forget the positions, withdraw the *)
(* target and bump the generation (ts3_audio_invalidate_client of an id    *)
(* with state, then the sweep over all ids of ts3_audio_reset).            *)
ResetOps == <<Do("quiesce"), Do("forget"), Do("withdraw"), Do("bump"), Do("bump")>>

ClearOps == <<Do("down"), Op("conn", Offline)>>
AdoptOps(t, established) ==
  <<Do("down"), Op("conn", t)>> \o (IF established THEN <<Do("up")>> ELSE <<>>)

TabEvent == todo = <<>> /\ tabMoves < MaxTabMoves /\ tabMoves' = tabMoves + 1

SwitchAdoptsFirst(t) ==            \* mutant: adopt, then reset
  /\ TabEvent /\ t # activeConn
  /\ todo' = AdoptOps(t, t \in up) \o ResetOps
  /\ UNCHANGED <<up, identity, target, audio>>

(* ts3plugin_currentServerConnectionChanged: reset, then adopt.            *)
SwitchTab(t) ==
  /\ TabEvent /\ t # activeConn
  /\ todo' = ResetOps \o AdoptOps(t, t \in up)
  /\ UNCHANGED <<up, identity, target, audio>>

(* STATUS_CONNECTION_ESTABLISHED: adopt, then reset; a background tab is   *)
(* ignored unless it is the one that is shown.                             *)
Established(t) ==
  /\ TabEvent /\ t \notin up
  /\ up' = up \cup {t}
  /\ \E shown \in {FALSE, StatusFirst} :
       todo' = IF activeConn \notin {Offline, t} /\ connected /\ ~shown THEN <<>>
               ELSE AdoptOps(t, TRUE) \o ResetOps
  /\ UNCHANGED <<identity, target, audio>>

(* STATUS_DISCONNECTED of the active tab: clear the identity, then reset.  *)
Disconnected(t) ==
  /\ TabEvent /\ t \in up
  /\ up' = up \ {t}
  /\ todo' = IF activeConn \notin {Offline, t} THEN <<>> ELSE ClearOps \o ResetOps
  /\ UNCHANGED <<identity, target, audio>>

CallbackStore ==
  /\ todo # <<>>
  /\ LET op == Head(todo).op
     IN /\ mode'       = IF op = "quiesce" THEN "passthrough" ELSE mode
        /\ position'   = (position /\ op # "forget")
        /\ snap'       = IF op = "withdraw" THEN 0 ELSE snap
        /\ gen'        = IF op = "bump" THEN gen + 1 ELSE gen
        /\ connected'  = IF op \in {"down", "up"} THEN op = "up" ELSE connected
        /\ activeConn' = IF op = "conn" THEN Head(todo).arg ELSE activeConn
        /\ session'    = IF op = "conn" /\ Head(todo).arg # Offline THEN session + 1 ELSE session
  /\ todo' = Tail(todo)
  /\ UNCHANGED <<up, tabMoves, audio>>

Tab(t) == SwitchTab(t) \/ Established(t) \/ Disconnected(t)
-----------------------------------------------------------------------------
(* Callback thread: work on the established active tab.                    *)

Working == todo = <<>> /\ connected /\ UNCHANGED <<up, identity, todo, audio>>

(* chan_update_audio_mode for the own channel.                             *)
ChannelTick ==
  /\ Working
  /\ mode' \in Modes
  /\ UNCHANGED <<tabMoves, position, snap, gen>>

(* A CEPOS command of the active tab.                                      *)
PositionArrives ==
  /\ Working
  /\ position' = TRUE
  /\ UNCHANGED <<tabMoves, mode, snap, gen>>

(* A recompute publishes a target or withdraws it (out of range, expired). *)
RecomputeOne ==
  /\ Working
  /\ snap' \in (IF position THEN {session, 0} ELSE {0})
  /\ UNCHANGED <<tabMoves, mode, position, gen>>

(* The speaker leaves: ts3_audio_invalidate_client.                        *)
SpeakerLeaves ==
  /\ Working /\ tabMoves < MaxTabMoves
  /\ tabMoves' = tabMoves + 1
  /\ position' = FALSE /\ snap' = 0 /\ gen' = gen + 1
  /\ UNCHANGED mode
-----------------------------------------------------------------------------
(* Audio thread: ts3plugin_onEditPlaybackVoiceDataEvent.                   *)

Callback == <<up, tabMoves, identity, target, todo>>

(* A block of the active tab; blocks of other tabs return untouched.       *)
BlockArrives ==
  /\ renderAt = "idle" /\ activeConn # Offline
  /\ bsession' = session /\ renderAt' = "gen"
  /\ UNCHANGED <<Callback, renderGen, cache, gain, fresh, heard>>

(* A new generation forgets target and gain, a pause in the talk the       *)
(* target; both make the next rendered block a fresh start.                *)
LoadGeneration ==
  /\ renderAt = "gen" /\ renderAt' = "mode"
  /\ \E pause \in BOOLEAN :
       /\ cache' = IF renderGen # gen \/ pause THEN 0 ELSE cache
       /\ fresh' = (fresh \/ renderGen # gen \/ pause)
  /\ gain' = IF renderGen # gen THEN 0 ELSE gain
  /\ renderGen' = gen
  /\ UNCHANGED <<Callback, bsession, heard>>

(* The block is left untouched or silenced, which settles the gain.        *)
Settle == renderAt' = "idle" /\ bsession' = 0 /\ gain' = 0 /\ fresh' = FALSE /\ UNCHANGED heard

LoadMode ==
  /\ renderAt = "mode"
  /\ \/ mode = "proximity" /\ renderAt' = "snap" /\ UNCHANGED <<bsession, gain, fresh, heard>>
     \/ mode # "proximity" /\ Settle
  /\ UNCHANGED <<Callback, renderGen, cache>>

(* A stable read is cached.  AUDIO_SNAP_BUSY uses the cache, and without   *)
(* one silences the block and leaves the render state alone.               *)
ReadTarget ==
  /\ renderAt = "snap" /\ snap # 0
  /\ cache' = snap /\ renderAt' = "shape"
  /\ UNCHANGED <<Callback, bsession, renderGen, gain, fresh, heard>>
ReadInvalid ==
  /\ renderAt = "snap" /\ snap = 0
  /\ cache' = 0 /\ Settle
  /\ UNCHANGED <<Callback, renderGen>>
ReadBusy ==
  /\ renderAt = "snap"
  /\ \/ cache # 0 /\ renderAt' = "shape" /\ UNCHANGED bsession
     \/ cache = 0 /\ renderAt' = "idle" /\ bsession' = 0
  /\ UNCHANGED <<Callback, renderGen, cache, gain, fresh, heard>>

(* The gain ramps from where the last block ended, a fresh start begins at *)
(* its target.                                                             *)
Render ==
  /\ renderAt = "shape" /\ renderAt' = "idle" /\ bsession' = 0
  /\ heard' = [block |-> bsession, target |-> cache, from |-> IF fresh THEN cache ELSE gain]
  /\ gain' = cache /\ fresh' = FALSE
  /\ UNCHANGED <<Callback, renderGen, cache>>

Next ==
  \/ \E t \in Tabs : Tab(t)
  \/ CallbackStore \/ ChannelTick \/ PositionArrives \/ RecomputeOne \/ SpeakerLeaves
  \/ BlockArrives \/ LoadGeneration \/ LoadMode
  \/ ReadTarget \/ ReadInvalid \/ ReadBusy \/ Render

Spec == Init /\ [][Next]_vars
-----------------------------------------------------------------------------
(* A voice is never shaped by an earlier session: neither the target of a  *)
(* block nor the gain it ramps from was computed before the tab of the     *)
(* block was adopted (ts3_entry.c:508-510, 576-577).                       *)
NoOldTarget ==
  heard # Silence =>
    /\ heard.target >= heard.block
    /\ heard.from = 0 \/ heard.from >= heard.block
=============================================================================
