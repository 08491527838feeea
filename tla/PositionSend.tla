---------------------------- MODULE PositionSend ----------------------------
(***************************************************************************)
(* How the own position, voice distance and name reach the other players   *)
(* (CEPOS, the sending half of ts3_cepos.c).  Every tick of the position   *)
(* watcher, and every switch of the voice mode, raises the send flag and   *)
(* asks for a wakeup; the callback thread then decides whether anything    *)
(* has changed enough since the packet that went out last.                 *)
(*                                                                         *)
(* psSelf   what is true of the player                                     *)
(* psSend   the flags, the last packet, the name cache; age and nameAge    *)
(*          count ticks up to PsKeep, which also stands for "never"        *)
(* psFlush  the callback thread, between its look at the world and the     *)
(*          clearing of the flag                                           *)
(* psHot    the thread that switches the voice mode                        *)
(* psWake   a wakeup is on its way; psOnline, connected                    *)
(* psPeer   the last packet another player has received                    *)
(* psQuiet  history: ticks since something last got in the way             *)
(* One tick is PLUGIN_POLL_INTERVAL_MS, which is CEPOS_SEND_MIN_MS too.    *)
(* Positions are steps of half CEPOS_POS_EPS on a line.                    *)
(***************************************************************************)
EXTENDS Naturals

CONSTANTS
  PsPlaces,            \* positions are 0..PsPlaces
  PsKeep,              \* CEPOS_KEEPALIVE_MS = CEPOS_NICK_REFRESH_MS, in ticks
  PsMaxEvents,         \* bound: changes of psSelf, arrivals, connections
  PsMaxFaults          \* bound: sends and name reads that TeamSpeak refuses

PsAssumption ==
  PsKeep \in Nat \ {0} /\ {PsPlaces, PsMaxEvents, PsMaxFaults} \subseteq Nat

VARIABLES psSelf, psSend, psFlush, psHot, psWake, psOnline, psPeer, psQuiet,
          psEvents, psFaults

psvars == <<psSelf, psSend, psFlush, psHot, psWake, psOnline, psPeer, psQuiet,
            psEvents, psFaults>>

Nowhere == PsPlaces + 1                    \* pos_get_current fails
NobodyYet == [pos |-> Nowhere, dist |-> 0, name |-> 0]
Packets == [pos : 0..Nowhere, dist : 0..1, name : 0..1]
Eps     == 2

Sends   == [pend : BOOLEAN, invalid : BOOLEAN, valid : BOOLEAN, sent : Packets,
            age : 0..PsKeep, name : 0..1, named : BOOLEAN, nameAge : 0..PsKeep]
Flushes == [at : {"idle", "sends", "clears"}, packet : Packets]

PsTypeOK ==
  /\ psSelf \in Packets
  /\ psSend \in Sends /\ psFlush \in Flushes
  /\ psHot \in {"idle", "switched", "told"}
  /\ psWake \in BOOLEAN /\ psOnline \in BOOLEAN
  /\ psPeer \in Packets
  /\ psQuiet \in 0..PsKeep + 2
  /\ psEvents \in 0..PsMaxEvents /\ psFaults \in 0..PsMaxFaults
  /\ psSend.valid => psSend.sent.pos # Nowhere
  /\ psFlush.at # "idle" => psOnline /\ psSend.pend

AtConnect(send) ==                         \* cepos_reset
  [send EXCEPT !.pend = FALSE, !.valid = FALSE, !.age = PsKeep, !.named = FALSE,
               !.nameAge = PsKeep]

PsInit ==
  /\ psSelf = NobodyYet
  /\ psSend = [pend |-> FALSE, invalid |-> FALSE, valid |-> FALSE, sent |-> NobodyYet,
               age |-> PsKeep, name |-> 0, named |-> FALSE, nameAge |-> PsKeep]
  /\ psFlush = [at |-> "idle", packet |-> NobodyYet]
  /\ psHot = "idle" /\ psWake = FALSE /\ psOnline = TRUE
  /\ psPeer = NobodyYet
  /\ psQuiet = 0 /\ psEvents = 0 /\ psFaults = 0
-----------------------------------------------------------------------------
PlaceEvent ==
  /\ psEvents < PsMaxEvents
  /\ psEvents' = psEvents + 1
  /\ psQuiet' = 0
  /\ UNCHANGED psFaults

\* The player walks, the position is lost or found again.
PlayerMoves ==
  /\ PlaceEvent
  /\ \E p \in 0..Nowhere \ {psSelf.pos} : psSelf' = [psSelf EXCEPT !.pos = p]
  /\ UNCHANGED <<psSend, psFlush, psHot, psWake, psOnline, psPeer>>

\* A rename, or a hub description that changes the distance: nobody signals.
PlayerChanges ==
  /\ PlaceEvent
  /\ psSelf' \in {[psSelf EXCEPT !.name = 1 - @], [psSelf EXCEPT !.dist = 1 - @]}
  /\ UNCHANGED <<psSend, psFlush, psHot, psWake, psOnline, psPeer>>

\* A hotkey switches the voice mode, then tells CEPOS to forget what it has
\* sent, then signals (voice_mode_apply).
ModeSwitches ==
  /\ psHot = "idle" /\ PlaceEvent
  /\ psSelf' = [psSelf EXCEPT !.dist = 1 - @]
  /\ psHot' = "switched"
  /\ UNCHANGED <<psSend, psFlush, psWake, psOnline, psPeer>>

ModeInvalidates ==
  /\ psHot = "switched"
  /\ psHot' = "told"
  /\ psSend' = [psSend EXCEPT !.invalid = TRUE]
  /\ UNCHANGED <<psSelf, psFlush, psWake, psOnline, psPeer, psQuiet, psEvents, psFaults>>

\* cepos_signal_send_pending: only the signal that raises the flag wakes.
Signalled(send) == /\ psSend' = [send EXCEPT !.pend = TRUE]
                   /\ psWake' = (psWake \/ ~send.pend)

ModeSignals ==
  /\ psHot = "told"
  /\ psHot' = "idle"
  /\ Signalled(psSend)
  /\ UNCHANGED <<psSelf, psFlush, psOnline, psPeer, psQuiet, psEvents, psFaults>>

PeerArrives ==
  /\ PlaceEvent
  /\ psPeer' = NobodyYet
  /\ UNCHANGED <<psSelf, psSend, psFlush, psHot, psWake, psOnline>>

\* A wakeup is answered within a tick, save for one that came too early.
Tick ==
  /\ psFlush.at = "idle"
  /\ psWake /\ psOnline => psSend.age = 0
  /\ LET Later(t) == IF t = PsKeep THEN t ELSE t + 1
     IN Signalled([psSend EXCEPT !.age = Later(@), !.nameAge = Later(@)])
  /\ psQuiet' = IF psQuiet = PsKeep + 2 THEN psQuiet ELSE psQuiet + 1
  /\ UNCHANGED <<psSelf, psFlush, psHot, psOnline, psPeer, psEvents, psFaults>>

\* ts3_reset_connection_state; after a connect the session asks for a wakeup.
Connection ==
  /\ psFlush.at = "idle" /\ PlaceEvent
  /\ psOnline' = ~psOnline
  /\ psSend' = AtConnect(psSend)
  /\ psWake' = (psWake \/ psOnline')
  /\ psPeer' = NobodyYet
  /\ UNCHANGED <<psSelf, psFlush, psHot>>

\* The wakeup thread sends nothing while the client is offline.
WakeIsDropped ==
  /\ psWake /\ ~psOnline
  /\ psWake' = FALSE
  /\ UNCHANGED <<psSelf, psSend, psFlush, psHot, psOnline, psPeer, psQuiet, psEvents, psFaults>>
-----------------------------------------------------------------------------
(* The callback thread, in cepos_flush.                                    *)

Far(p, q) == p >= q + Eps \/ q >= p + Eps
KeepaliveDue == psSend.age = PsKeep

\* cepos_refresh_own_nick: a read that fails keeps the last good name.
Renamed(send, ok) ==
  IF ~KeepaliveDue /\ send.named /\ send.nameAge < PsKeep
  THEN send
  ELSE [send EXCEPT !.nameAge = 0, !.named = TRUE,
                    !.name = IF ok THEN psSelf.name ELSE @]

\* Mutant: only what has changed is sent.
HasNewsNoKeepalive(send) ==
  \/ ~send.valid
  \/ Far(psSelf.pos, send.sent.pos)
  \/ send.name # send.sent.name
  \/ psSelf.dist # send.sent.dist

HasNews(send) ==
  \/ ~send.valid \/ KeepaliveDue
  \/ Far(psSelf.pos, send.sent.pos)
  \/ send.name # send.sent.name
  \/ psSelf.dist # send.sent.dist

\* The wakeup finds nothing to do.
FlushNotAsked ==
  /\ psFlush.at = "idle" /\ psWake /\ psOnline /\ ~psSend.pend
  /\ psWake' = FALSE
  /\ UNCHANGED <<psSelf, psSend, psFlush, psHot, psOnline, psPeer, psQuiet, psEvents, psFaults>>

\* Too early: the flag and the wakeup stay.
MayLook == psFlush.at = "idle" /\ psWake /\ psOnline /\ psSend.pend /\ psSend.age # 0

\* No position: nothing is looked at, the flag is cleared.
FlushNowhere ==
  /\ MayLook /\ psSelf.pos = Nowhere
  /\ psWake' = FALSE
  /\ psFlush' = [psFlush EXCEPT !.at = "clears"]
  /\ UNCHANGED <<psSelf, psSend, psHot, psOnline, psPeer, psQuiet, psEvents, psFaults>>

FlushLooks(ok) ==
  /\ MayLook /\ psSelf.pos # Nowhere
  /\ ok \/ psFaults < PsMaxFaults
  /\ psFaults' = IF ok THEN psFaults ELSE psFaults + 1
  /\ psQuiet' = IF ok THEN psQuiet ELSE 0
  /\ psWake' = FALSE
  /\ LET send == Renamed([psSend EXCEPT !.valid = @ /\ ~psSend.invalid, !.invalid = FALSE], ok)
     IN /\ psSend' = send
        /\ psFlush' = IF HasNews(send)
                      THEN [at |-> "sends",
                            packet |-> [pos |-> psSelf.pos, dist |-> psSelf.dist,
                                        name |-> send.name]]
                      ELSE [psFlush EXCEPT !.at = "clears"]
  /\ UNCHANGED <<psSelf, psHot, psOnline, psPeer, psEvents>>

\* Mutant: a packet counts as sent before TeamSpeak has taken it.
FlushSendsAnyway(ok) ==
  /\ psFlush.at = "sends"
  /\ ok \/ psFaults < PsMaxFaults
  /\ psFaults' = IF ok THEN psFaults ELSE psFaults + 1
  /\ psQuiet' = IF ok THEN psQuiet ELSE 0
  /\ psPeer' = IF ok THEN psFlush.packet ELSE psPeer
  /\ psSend' = [psSend EXCEPT !.sent = psFlush.packet, !.valid = TRUE, !.age = 0]
  /\ psFlush' = [at |-> "clears", packet |-> NobodyYet]
  /\ UNCHANGED <<psSelf, psHot, psWake, psOnline, psEvents>>

FlushSends(ok) ==
  /\ psFlush.at = "sends"
  /\ ok \/ psFaults < PsMaxFaults
  /\ psFaults' = IF ok THEN psFaults ELSE psFaults + 1
  /\ psQuiet' = IF ok THEN psQuiet ELSE 0
  /\ psPeer' = IF ok THEN psFlush.packet ELSE psPeer
  /\ psSend' = IF ok THEN [psSend EXCEPT !.sent = psFlush.packet, !.valid = TRUE, !.age = 0]
                     ELSE psSend
  /\ psFlush' = [at |-> "clears", packet |-> NobodyYet]
  /\ UNCHANGED <<psSelf, psHot, psWake, psOnline, psEvents>>

\* Whatever was signalled since the look is cleared with it.
FlushClears ==
  /\ psFlush.at = "clears"
  /\ psFlush' = [psFlush EXCEPT !.at = "idle"]
  /\ psSend' = [psSend EXCEPT !.pend = FALSE]
  /\ UNCHANGED <<psSelf, psHot, psWake, psOnline, psPeer, psQuiet, psEvents, psFaults>>

PsNext ==
  \/ PlayerMoves \/ PlayerChanges \/ PeerArrives \/ Tick \/ Connection \/ WakeIsDropped
  \/ ModeSwitches \/ ModeInvalidates \/ ModeSignals
  \/ FlushNotAsked \/ FlushNowhere \/ FlushClears
  \/ \E ok \in BOOLEAN : FlushLooks(ok) \/ FlushSends(ok)

PsSpec == PsInit /\ [][PsNext]_psvars
-----------------------------------------------------------------------------
Agrees == psPeer = psSelf \/ /\ psPeer.dist = psSelf.dist
                             /\ psPeer.name = psSelf.name
                             /\ psPeer.pos # Nowhere
                             /\ ~Far(psPeer.pos, psSelf.pos)

\* Once nothing has got in the way for a second and a tick (the keepalive and
\* the name cache), every player on the server has the position, the distance
\* and the name, whenever he joined and whatever was signalled or refused.
EverybodyHasIt ==
  psOnline /\ psSelf.pos # Nowhere /\ psQuiet > PsKeep => Agrees

\* A player who has heard from this one is never more than a tick behind on
\* where it is and how far it is heard: not after a slow walk in steps too
\* small to be sent each, not after a refused send, and not when a signal
\* falls between the look and the clearing of the flag.
PlaceIsFresh ==
  psOnline /\ psSelf.pos # Nowhere /\ psPeer.pos # Nowhere /\ psQuiet > 1
    => psPeer.dist = psSelf.dist /\ ~Far(psPeer.pos, psSelf.pos)

PlaceIsSent == EverybodyHasIt /\ PlaceIsFresh
=============================================================================
