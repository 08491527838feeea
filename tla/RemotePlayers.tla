---------------------------- MODULE RemotePlayers ---------------------------
(***************************************************************************)
(* From a received position to the sound: the receiving half of            *)
(* ts3_cepos.c, core/proximity/player_table.c, the recompute passes of     *)
(* ts3_proximity_audio.c.                                                  *)
(*                                                                         *)
(* A CEPOS command puts the sender into a table of few slots and marks it  *)
(* dirty.  A sample of the own position asks for a pass over everybody.    *)
(* The CEDRAIN dispatcher recomputes what is asked for and publishes       *)
(* targets for the audio thread; module Ts3d has the 3D positions.         *)
(* All of this runs on the callback thread except the position watcher,    *)
(* which moves the listener and asks for passes at any moment, so that a   *)
(* pass is two steps here: it reads its inputs, then it publishes.         *)
(*                                                                         *)
(* Distances are classes: a peer at position q is "near", in the "band" of *)
(* the hysteresis, or "far" for a listener at l.                           *)
(***************************************************************************)
EXTENDS Naturals, FiniteSets

CONSTANTS
  Peers,
  RpSlots,             \* PLAYER_TABLE_MAX_PLAYERS
  RpBudget,            \* TS3_RECOMPUTE_DRAIN_BUDGET
  RpMaxPuts,           \* bound: received positions
  RpMaxEvents          \* bound: own moves, departures, resets, expiries, failing calls

Nobody == "nobody"
Slots  == 1..RpSlots

RpAssumption ==
  /\ {RpSlots, RpBudget} \subseteq Nat \ {0} /\ {RpMaxPuts, RpMaxEvents} \subseteq Nat
  /\ Nobody \notin Peers

VARIABLES
  table,               \* g_players, and the slots from the oldest update to the newest
  dirty,               \* g_recomputeDirty
  allPending,          \* g_recomputeAllPending
  here, noticed,       \* the own position, 0 when invalid; the watcher's news of it
  pass,                \* inputs of a pass that has not published yet
  latch,               \* g_hearInRange
  target,              \* g_snap: what the audio thread shapes a voice with
  rpPuts, rpEvents     \* bounds

rpvars == <<table, dirty, allPending, here, noticed, pass, latch, target, rpPuts, rpEvents>>
sound  == <<latch, target>>
bounds == <<rpPuts, rpEvents>>

Silent == [at |-> 0, from |-> 0]         \* no valid target
Free   == [id |-> Nobody, name |-> Nobody, at |-> 0, fresh |-> FALSE]
Places == {1, 2}
NoPass  == [kind |-> "none", at |-> 0, entries |-> [s \in {} |-> Free]]

Class(at, l) == CASE at = l -> "near" [] at = 1 /\ l = 2 -> "band" [] OTHER -> "far"

Entries == [id : Peers \cup {Nobody}, name : Peers \cup {Nobody}, at : Places \cup {0},
            fresh : BOOLEAN]
Tables  == [slot : [Slots -> Entries], order : [Slots -> Slots]]
Targets == [at : Places \cup {0}, from : Places \cup {0}]

RpTypeOK ==
  /\ table \in Tables
  /\ \A s \in Slots : \E i \in Slots : table.order[i] = s
  /\ dirty \subseteq Peers /\ allPending \in BOOLEAN /\ noticed \in BOOLEAN
  /\ here \in Places \cup {0} /\ pass.kind \in {"none", "all", "dirty"}
  /\ latch \subseteq Peers
  /\ target \in [Peers -> Targets]
  /\ rpPuts \in 0..RpMaxPuts /\ rpEvents \in 0..RpMaxEvents

EmptyTable == [slot |-> [s \in Slots |-> Free], order |-> [s \in Slots |-> s]]

RpInit ==
  /\ table = EmptyTable /\ dirty = {} /\ allPending = FALSE
  /\ here \in Places \cup {0} /\ noticed = FALSE /\ pass = NoPass
  /\ latch = {} /\ target = [p \in Peers |-> Silent]
  /\ rpPuts = 0 /\ rpEvents = 0

Happens == rpEvents < RpMaxEvents /\ rpEvents' = rpEvents + 1
Resting == pass = NoPass                 \* the callback thread may take an event
-----------------------------------------------------------------------------
(* core/proximity/player_table.c                                           *)

Used(s)    == table.slot[s].id # Nobody
SlotsOf(p) == {s \in Slots : table.slot[s].id = p}
Lowest(S)  == CHOOSE s \in S : \A r \in S : s <= r

SlotForNewest(p) ==   \* mutant: the slot written last is evicted
  LET reusable == {s \in Slots : ~Used(s) \/ ~table.slot[s].fresh}
  IN IF SlotsOf(p) # {} THEN Lowest(SlotsOf(p))
     ELSE IF reusable # {} THEN Lowest(reusable)
     ELSE table.order[RpSlots]

\* player_table_put: the own slot, the first reusable one, or the oldest.
SlotFor(p) ==
  LET reusable == {s \in Slots : ~Used(s) \/ ~table.slot[s].fresh}
  IN IF SlotsOf(p) # {} THEN Lowest(SlotsOf(p))
     ELSE IF reusable # {} THEN Lowest(reusable)
     ELSE table.order[1]

EntryKeepsName(old, p, name, at) ==      \* mutant: an empty name keeps the slot's name
  [id |-> p, name |-> IF name # Nobody THEN name ELSE old.name, at |-> at, fresh |-> TRUE]

EntryOf(old, p, name, at) ==
  [id |-> p, at |-> at, fresh |-> TRUE,
   name |-> IF name # Nobody THEN name ELSE IF old.id = p /\ old.fresh THEN old.name ELSE Nobody]

\* The slots from the oldest update to the newest, when s is updated.
Updated(order, s) ==
  LET k == CHOOSE i \in Slots : order[i] = s
  IN [i \in Slots |-> IF i < k THEN order[i] ELSE IF i < RpSlots THEN order[i + 1] ELSE s]

Put(p, name, at) ==
  LET s == SlotFor(p)
  IN [slot  |-> [table.slot EXCEPT ![s] = EntryOf(@, p, name, at)],
      order |-> Updated(table.order, s)]
Evicted(p) == LET old == table.slot[SlotFor(p)].id IN IF old \in {Nobody, p} THEN {} ELSE {old}

\* player_table_snapshot drops what has expired and yields the rest by slot.
Swept     == [table EXCEPT !.slot =
                [s \in Slots |-> IF table.slot[s].fresh THEN table.slot[s] ELSE Free]]
Snapshot  == [s \in {r \in Slots : table.slot[r].fresh} |-> table.slot[s]]
-----------------------------------------------------------------------------
(* ts3_audio_invalidate_client; its reverb slot and its unmute flag are in *)
(* CaveSlots and Unmute.                                                   *)

Invalidate(P) ==
  /\ target' = [p \in Peers |-> IF p \in P THEN Silent ELSE target[p]]
  /\ latch' = latch \ P

\* ts3_audio_mark_client_dirty after the invalidation of the evicted client.
Mark(d, p, gone) == (d \ gone) \cup {p}

\* cepos_on_plugin_command: a usable packet of another client.  What cannot
\* be decoded, or carries no position, changes nothing.
CeposReceived(p, name, at) ==
  /\ Resting /\ rpPuts < RpMaxPuts /\ rpPuts' = rpPuts + 1
  /\ table' = Put(p, name, at)
  /\ Invalidate(Evicted(p))
  /\ dirty' = Mark(dirty, p, Evicted(p))
  /\ UNCHANGED <<allPending, here, noticed, pass, rpEvents>>

\* ts3_on_client_move with channel 0: the peer has left the server.
PeerGone(p) ==
  /\ Resting /\ Happens
  /\ table' = [table EXCEPT !.slot = [s \in Slots |-> IF @[s].id = p THEN Free ELSE @[s]]]
  /\ Invalidate({p}) /\ dirty' = dirty \ {p}
  /\ UNCHANGED <<allPending, here, noticed, pass, rpPuts>>

\* ts3_reset_connection_state: player_table_clear, ts3_audio_reset.
SessionReset ==
  /\ Resting /\ Happens
  /\ table' = [EmptyTable EXCEPT !.order = table.order]
  /\ Invalidate(Peers) /\ dirty' = {} /\ allPending' = FALSE
  /\ UNCHANGED <<here, noticed, pass, rpPuts>>

\* PLAYER_TABLE_STALE_MS (two minutes) without a packet.  A drain is never
\* that late, so a dirty client is recomputed before he expires.
Expire(s) ==
  /\ Used(s) /\ table.slot[s].fresh /\ table.slot[s].id \notin dirty /\ Resting /\ Happens
  /\ table' = [table EXCEPT !.slot[s].fresh = FALSE]
  /\ UNCHANGED <<dirty, allPending, here, noticed, pass, sound, rpPuts>>
-----------------------------------------------------------------------------
(* The position watcher.                                                   *)

OwnMove(l) ==
  /\ l # here /\ Happens
  /\ here' = l /\ noticed' = TRUE
  /\ UNCHANGED <<table, dirty, allPending, pass, sound, rpPuts>>

\* ts3_audio_on_local_position_update; a sample comes every 30 ms, and asks
\* for a pass when it moved or the last pass is 100 ms old.
OwnSample ==
  /\ noticed' = FALSE /\ allPending' = TRUE
  /\ UNCHANGED <<table, dirty, here, pass, sound, bounds>>
-----------------------------------------------------------------------------
(* The recompute passes.                                                   *)

\* audio_in_hear_range: without an own position the latch is left alone.
InRange(p, at, l) ==
  CASE l = 0 -> TRUE
    [] OTHER -> Class(at, l) = "near" \/ (Class(at, l) = "band" /\ p \in latch)

\* audio_compute_client and audio_publish_client for one entry.
Heard(e, l) == IF l = 0 \/ ~InRange(e.id, e.at, l) THEN Silent ELSE [at |-> e.at, from |-> l]
Publish(es, l, gone) ==
  /\ target' = [p \in Peers |->
       IF \E i \in DOMAIN es : es[i].id = p
       THEN Heard(es[CHOOSE i \in DOMAIN es : es[i].id = p], l)
       ELSE IF p \in gone THEN Silent ELSE target[p]]
  /\ latch' = IF l = 0 THEN latch \ gone
              ELSE (latch \ (gone \cup {es[i].id : i \in DOMAIN es}))
                   \cup {es[i].id : i \in {j \in DOMAIN es : InRange(es[j].id, es[j].at, l)}}

\* ts3_audio_flush_recomputes takes the request before it reads its inputs ...
DrainBegin ==
  /\ Resting /\ (allPending \/ dirty # {})
  /\ pass' = [kind |-> IF allPending THEN "all" ELSE "dirty", at |-> here, entries |-> Snapshot]
  /\ table' = Swept
  /\ allPending' = FALSE
  /\ UNCHANGED <<dirty, here, noticed, sound, bounds>>

PassAllClears ==      \* mutant: the request is cleared at the end
  /\ pass.kind = "all" /\ pass' = NoPass
  /\ LET es == pass.entries
         present == {es[i].id : i \in DOMAIN es}
     IN /\ Publish(es, pass.at, {p \in Peers \ present : target[p] # Silent})
        /\ dirty' = dirty \ present
  /\ allPending' = FALSE
  /\ UNCHANGED <<table, here, noticed, bounds>>

PassAllKeeps ==       \* mutant: targets without an entry are not withdrawn
  /\ pass.kind = "all" /\ pass' = NoPass
  /\ Publish(pass.entries, pass.at, {})
  /\ dirty' = dirty \ {pass.entries[i].id : i \in DOMAIN pass.entries}
  /\ UNCHANGED <<table, allPending, here, noticed, bounds>>

\* ... audio_recompute_all_impl: everybody, and the targets of those who have
\* no entry any more are withdrawn (audio_snap_find_orphans).
PassAll ==
  /\ pass.kind = "all" /\ pass' = NoPass
  /\ LET es == pass.entries
         present == {es[i].id : i \in DOMAIN es}
     IN /\ Publish(es, pass.at, {p \in Peers \ present : target[p] # Silent})
        /\ dirty' = dirty \ present
  /\ UNCHANGED <<table, allPending, here, noticed, bounds>>

\* The dirty ones in the order of the snapshot, as far as the budget goes.
PassDirty ==
  /\ pass.kind = "dirty" /\ pass' = NoPass
  /\ LET due == {s \in DOMAIN pass.entries : pass.entries[s].id \in dirty}
         es  == [s \in {d \in due : Cardinality({r \in due : r < d}) < RpBudget}
                   |-> pass.entries[s]]
     IN /\ Publish(es, pass.at, {})
        /\ dirty' = dirty \ {es[i].id : i \in DOMAIN es}
  /\ UNCHANGED <<table, allPending, here, noticed, bounds>>
-----------------------------------------------------------------------------
Drain == DrainBegin \/ PassAll \/ PassDirty

RpNext ==
  \/ \E p \in Peers, at \in Places : \E name \in {p, Nobody} : CeposReceived(p, name, at)
  \/ \E p \in Peers : PeerGone(p)
  \/ SessionReset \/ \E s \in Slots : Expire(s)
  \/ \E l \in Places \cup {0} : OwnMove(l)
  \/ OwnSample
  \/ Drain

(* The watcher samples, the adapter drains, and the clock goes on.         *)
RpFairness ==
  WF_rpvars(OwnSample) /\ WF_rpvars(Drain)

RpSpec == RpInit /\ [][RpNext]_rpvars /\ RpFairness
-----------------------------------------------------------------------------
(* A new speaker is never refused for want of a slot, and who he displaces *)
(* is the longest silent one: whoever has a fresh entry was heard of later  *)
(* than everybody who was displaced.  Here: a slot that is free or expired  *)
(* is taken before anybody with a fresh entry is displaced.                 *)
DisplacedLate ==
  \A p \in Peers :
     /\ \E s \in Slots : table.slot[s].id = p /\ table.slot[s].fresh
     /\ \E q \in Peers : q # p /\ SlotsOf(q) = {} /\ \E s \in Slots : table'.slot[s].id = q
     /\ \A s \in Slots : table'.slot[s].id # p
     => /\ \A s \in Slots : table.slot[s].fresh
        /\ table.slot[table.order[1]].id = p
NobodyDisplacedEarly == [][DisplacedLate]_rpvars

(* No name and no position of one player is ever shown for another.        *)
NamesAreTheirOwn == \A s \in Slots : table.slot[s].name \in {table.slot[s].id, Nobody}

(* When no pass is asked for, every voice is shaped by the last position   *)
(* of its speaker and of the listener: no request is lost between its      *)
(* reading and its clearing (ts3_proximity_audio.c:727-730), none by the   *)
(* budget, and the target of nobody else remains.                          *)
Idle == Resting /\ ~allPending /\ ~noticed
ShapedByLastPositions ==
  Idle => \A s \in Slots :
    LET e == table.slot[s]
    IN Used(s) /\ e.fresh /\ e.id \notin dirty /\ here # 0 =>
         target[e.id] = CASE Class(e.at, here) = "near" -> [at |-> e.at, from |-> here]
                          [] Class(e.at, here) = "far" -> Silent
                          [] OTHER -> IF e.id \in latch THEN [at |-> e.at, from |-> here]
                                      ELSE Silent

PlayersSafe == ShapedByLastPositions /\ NamesAreTheirOwn

(* Everybody dirty is served in the end, however small the budget is, and  *)
(* whoever has no entry any more falls silent.                             *)
Served == dirty = {} /\ \A p \in Peers : SlotsOf(p) = {} => target[p] = Silent
EverybodyServed == <>[]Served
=============================================================================
