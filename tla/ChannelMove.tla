---------------------------- MODULE ChannelMove -----------------------------
(***************************************************************************)
(* Automatic channel changes of one connection: ts/channel/                *)
(* channel_manage.c with chan_move_backoff.h, the return codes of          *)
(* ts3_return_code.h, the anonymizer (module Nickname) and the events of   *)
(* ts3_entry.c that drive them.  Everything runs on the callback thread,   *)
(* one handler at a time; what it races with is the server, the user and   *)
(* the clock.                                                              *)
(*                                                                         *)
(* The state of channel_manage.c is a record, and a function of the code   *)
(* is an operator from record to record.  The clock is replaced by the     *)
(* comparisons made on it:                                                 *)
(*   throttled  less than 500 ms since the last tick                       *)
(*   cooled     2 s since the last request                                 *)
(*   aged       5 s since the request in flight                            *)
(*   wait       the back-off has not run out                               *)
(*   dwell      less than 30 s since the arrival in the game channel       *)
(*   findDue    5 s since the channels were looked up (read only while one *)
(*              is missing)                                                *)
(* Left out: the cache of ignored channels (names are constant here), the  *)
(* chat hint and the log.                                                  *)
(***************************************************************************)
EXTENDS Nickname, Naturals, Sequences

CONSTANTS
  AutoMove, Muting, ForceSpeakers,  \* settings, combined with the profile's forces
  Arrive,          \* channels in which a connection may begin
  PositionFeed,    \* TRUE: while the position is valid, its watcher signals again and again
  RcSlots,         \* TS3_RC_TRACK_SLOTS
  MaxEvents,       \* bound: what the user, the mod and the admins do
  MaxFaults        \* bound: failing calls, refusals and answers that never come

Hub     == "hub"
Ingame  == "ingame"
Event   == "event"            \* an ignored channel: event, support, plot
Root    == "root"             \* any other channel
Nowhere == "none"
Managed  == {Hub, Ingame}
Channels == Managed \cup {Event, Root}
RealName == "name"
Conn     == Binding("tab", RealName)

ChannelAssumption ==
  /\ {AutoMove, Muting, ForceSpeakers, PositionFeed} \subseteq BOOLEAN
  /\ RcSlots \in Nat \ {0} /\ {MaxEvents, MaxFaults} \subseteq Nat
  /\ Arrive \subseteq Channels
  /\ RealName \notin {Digits, NoName} /\ Digits # NoName

VARIABLES
  ch,              \* the state of channel_manage.c and nick_anonymize.c
  phase,           \* "offline", "online", or "stopped" after the shutdown
  own,             \* the own channel as the client knows it
  name,            \* the nickname TeamSpeak shows
  coords, speakers,          \* pos_coordinates_valid; own speakers muted in TeamSpeak
  gate,            \* what a move to the game channel waits for: profile, password, nothing
  exists,          \* the managed channels that exist
  at, inbox, answers,        \* the server: our channel, our requests, its events to us
  events, faults   \* bounds

outside == <<phase, own, coords, speakers, gate, exists, at>>
cvars == <<ch, name, outside, inbox, answers, events, faults>>

NoBackoff == [target |-> Nowhere, fails |-> 0, wait |-> FALSE]
ChanReset(nick) ==
  [known |-> {}, findDue |-> TRUE, listDirty |-> FALSE,
   inFlight |-> FALSE, target |-> Nowhere, toIngame |-> FALSE, aged |-> FALSE,
   cooled |-> TRUE, backoff |-> NoBackoff, throttled |-> FALSE,
   posPending |-> FALSE, moveWanted |-> FALSE, dwell |-> FALSE,
   mode |-> "passthrough", deafPoll |-> FALSE, nick |-> nick,
   rc |-> <<>>]

Requests == [code : Nat, target : Managed]
Events   == [kind : {"moved", "answer"}, to : Channels \cup {Nowhere}, code : Nat, ok : BOOLEAN]
NickStates == [anon : BOOLEAN, saved : {NoName, RealName}, bound : {Conn, NoBinding}]
Backoffs == [target : Managed \cup {Nowhere}, fails : 0..4, wait : BOOLEAN]
ChanStates ==
  [known : SUBSET Managed, findDue : BOOLEAN, listDirty : BOOLEAN,
   inFlight : BOOLEAN, target : Managed \cup {Nowhere}, toIngame : BOOLEAN, aged : BOOLEAN,
   cooled : BOOLEAN, backoff : Backoffs, throttled : BOOLEAN,
   posPending : BOOLEAN, moveWanted : BOOLEAN, dwell : BOOLEAN,
   mode : {"passthrough", "proximity", "mute"}, deafPoll : BOOLEAN, nick : NickStates,
   rc : Seq(Nat)]

\* What a request is in flight to; the slots for return codes.
Linked(c) ==
  /\ c.inFlight <=> c.target \in Managed
  /\ c.toIngame => c.target = Ingame
  /\ Len(c.rc) <= RcSlots

ChanTypeOK ==
  /\ phase \in {"offline", "online", "stopped"} /\ own \in Channels \cup {Nowhere}
  /\ at \in Channels \cup {Nowhere} /\ exists \subseteq Managed
  /\ name \in {Digits, RealName} /\ gate \in {"profile", "password", "open"}
  /\ coords \in BOOLEAN /\ speakers \in BOOLEAN
  /\ events \in 0..MaxEvents /\ faults \in 0..MaxFaults
  /\ inbox \in Seq(Requests) /\ answers \in Seq(Events)
  /\ ch \in ChanStates /\ Linked(ch)
-----------------------------------------------------------------------------
(* Back-off (chan_move_backoff.h).  From the fourth failure on every wait  *)
(* is the same, so the counter stops there.                                *)

BackoffOnFailure(b, t) ==
  [target |-> t, wait |-> TRUE,
   fails |-> LET n == IF b.target = t THEN b.fails ELSE 0 IN IF n < 4 THEN n + 1 ELSE n]
BackoffBlocks(b, t)  == b.fails # 0 /\ b.target = t /\ b.wait
BackoffKeepsLoop(b)  == b.fails <= 2                       \* waits of at most 10 s

(* Return codes: ts3_rc_track_add overwrites the slot written longest ago; *)
(* here the slots in the order of their writing, 0 once taken.             *)

UsedCodes == {ch.rc[i] : i \in DOMAIN ch.rc} \cup {inbox[i].code : i \in DOMAIN inbox}
             \cup {answers[i].code : i \in DOMAIN answers}
FreshCode == LET used == UsedCodes
             IN CHOOSE n \in 1..(RcSlots + Len(inbox) + Len(answers) + 1) : n \notin used

RcAdd(c, code)  == [c EXCEPT !.rc = IF Len(@) < RcSlots THEN Append(@, code)
                                     ELSE Append(Tail(@), code)]
RcTake(c, code) ==
  LET left == [i \in DOMAIN c.rc |-> IF c.rc[i] = code THEN 0 ELSE c.rc[i]]
  IN [c EXCEPT !.rc = IF \E i \in DOMAIN left : left[i] # 0 THEN left ELSE <<>>]
RcHas(c, code)  == \E i \in DOMAIN c.rc : c.rc[i] = code
-----------------------------------------------------------------------------
(* The functions of channel_manage.c.  s is what they work on: the record, *)
(* the shown name and the requests handed to the server; o says which of   *)
(* the calls to TeamSpeak succeed.                                         *)

AllWell  == [send |-> TRUE, rename |-> TRUE, list |-> TRUE]
Outcomes == {AllWell} \cup {[AllWell EXCEPT ![call] = FALSE] : call \in DOMAIN AllWell}

Restore(s, o) ==
  LET r == NickRestore(s.c.nick, s.name, Conn, o.rename)
  IN [s EXCEPT !.c.nick = r.nick, !.name = r.name]
Anonymize(s, o) ==      \* with the randomizer on, as it is without a profile
  LET r == NickBeforeIngame(s.c.nick, s.name, Conn, o.rename)
  IN [s EXCEPT !.c.nick = r.nick, !.name = r.name]

Landed(c) == [c EXCEPT !.inFlight = FALSE, !.aged = FALSE, !.target = Nowhere, !.toIngame = FALSE]

AttemptFailsOnly(s, o) ==      \* mutant: the request stays in flight
  LET t == [s EXCEPT !.c.backoff = BackoffOnFailure(@, s.c.target)]
  IN IF s.c.toIngame THEN Restore(t, o) ELSE t

\* chan_move_attempt_failed
AttemptFailed(s, o) ==
  LET c == [Landed(s.c) EXCEPT !.backoff = BackoffOnFailure(s.c.backoff, s.c.target)]
      t == [s EXCEPT !.c = c]
  IN IF s.c.toIngame THEN Restore(t, o) ELSE t

TimeOut(s, o) == IF s.c.inFlight /\ s.c.aged THEN AttemptFailed(s, o) ELSE s

\* chan_request_move_impl: state after it, and *retrySoon.
RequestMove(s0, t, o) ==
  LET s    == TimeOut(s0, o)
      anon == IF t = Ingame THEN Anonymize(s, o) ELSE s
      hot  == [anon EXCEPT !.c.cooled = FALSE]
      sent == [hot EXCEPT !.c = [RcAdd(hot.c, FreshCode) EXCEPT
                                   !.inFlight = TRUE, !.aged = FALSE, !.target = t, !.toIngame = (t = Ingame)],
                          !.out = Append(@, [code |-> FreshCode, target |-> t])]
  IN CASE s.c.inFlight \/ ~s.c.cooled                  -> [s |-> s, soon |-> TRUE]
       [] BackoffBlocks(s.c.backoff, t) /\ ~s.c.inFlight /\ s.c.cooled
                                                       -> [s |-> s, soon |-> BackoffKeepsLoop(s.c.backoff)]
       [] OTHER ->
            IF t = Ingame /\ gate # "open" THEN [s |-> s, soon |-> FALSE]
            ELSE IF o.send THEN [s |-> sent, soon |-> TRUE]
            ELSE [s |-> IF t = Ingame THEN Restore(hot, o) ELSE hot, soon |-> FALSE]

\* chan_update_audio_mode
GateOf(c) == CASE c = Ingame -> "proximity" [] c = Hub -> "mute" [] OTHER -> "passthrough"

\* chan_find_hub_and_ingame, when it is due.
Find(s, o) ==
  IF s.c.listDirty \/ (s.c.known # Managed /\ s.c.findDue)
  THEN LET known == IF o.list THEN exists ELSE s.c.known
       IN [s EXCEPT !.c.listDirty = FALSE, !.c.known = known, !.c.findDue = (known = Managed)]
  ELSE s

\* chan_should_be_ingame
ShouldBeIngame(c) == coords \/ c.dwell

MutedHere == ForceSpeakers /\ speakers

\* The placement of chan_tick_run, after the gate is set: where to go.
Wanted(c, here) ==
  IF MutedHere /\ here = Ingame THEN Hub
  ELSE IF ~AutoMove \/ here = Event THEN Nowhere
  ELSE IF ShouldBeIngame(c) /\ ~MutedHere
       THEN (IF here # Ingame THEN Ingame ELSE Nowhere)
       ELSE (IF here # Hub THEN Hub ELSE Nowhere)

\* chan_tick_run in channel here: state after it, and its result.
TickRun(s0, here, o) ==
  LET s1 == Find(TimeOut(s0, o), o)
      s2 == [s1 EXCEPT !.c.mode = IF Muting THEN GateOf(here) ELSE "passthrough",
                       !.c.deafPoll = ForceSpeakers /\ here = Ingame]
      w  == Wanted(s2.c, here)
      stay == AutoMove /\ here = Ingame /\ ShouldBeIngame(s2.c) /\ ~MutedHere
  IN IF w # Nowhere /\ w \in s2.c.known THEN RequestMove(s2, w, o)
     ELSE [s |-> IF stay THEN Anonymize(s2, o) ELSE s2, soon |-> FALSE]

\* chan_tick
Tick(s, here, o) ==
  IF s.c.throttled THEN s
  ELSE LET r == TickRun([s EXCEPT !.c.throttled = TRUE, !.c.posPending = FALSE], here, o)
       IN [r.s EXCEPT !.c.moveWanted = r.soon]

OnOwnMoveKeepsGate(s, to, o) ==    \* mutant: only the tick is to bring the gate up to date
  LET t == [s EXCEPT !.c = [Landed(s.c) EXCEPT !.backoff = NoBackoff, !.moveWanted = FALSE,
                                               !.dwell = (to = Ingame)]]
  IN IF to # Ingame THEN Restore(t, o) ELSE t

OnOwnMoveKeepsName(s, to, o) ==    \* mutant: no restore on the way out
  LET c == [Landed(s.c) EXCEPT !.backoff = NoBackoff, !.moveWanted = FALSE, !.throttled = FALSE,
                               !.mode = GateOf(to), !.dwell = (to = Ingame)]
  IN [s EXCEPT !.c = c]

\* chan_on_own_move
OnOwnMove(s, to, o) ==
  LET c == [Landed(s.c) EXCEPT !.backoff = NoBackoff, !.moveWanted = FALSE, !.throttled = FALSE,
                               !.mode = GateOf(to), !.dwell = (to = Ingame)]
      t == [s EXCEPT !.c = c]
  IN IF to # Ingame THEN Restore(t, o) ELSE t

\* chan_on_move_failed
OnMoveFailed(s, o) ==
  IF s.c.inFlight THEN [AttemptFailed(s, o) EXCEPT !.c.throttled = FALSE] ELSE s

\* chan_has_pending_work
HasPendingWork(c) == c.inFlight \/ c.posPending \/ c.listDirty \/ c.moveWanted
-----------------------------------------------------------------------------
ChanInit ==
  /\ ch = ChanReset(NickReset) /\ phase = "offline" /\ own = Nowhere /\ name = RealName
  /\ coords \in BOOLEAN /\ speakers = FALSE /\ gate = "profile" /\ exists = Managed
  /\ at = Nowhere /\ inbox = <<>> /\ answers = <<>>
  /\ events = 0 /\ faults = 0

\* A handler of the callback thread: its effect f on the state, for outcomes
\* o of the calls it makes.
Here == [c |-> ch, name |-> name, out |-> inbox]
Handler(f(_)) ==
  LET well == f(AllWell)
  IN \E r \in {f(o) : o \in Outcomes} :
       /\ ch' = r.c /\ name' = r.name /\ inbox' = r.out
       /\ faults' = IF r = well THEN faults ELSE faults + 1
       /\ faults' <= MaxFaults

Online == phase = "online"

\* CEDRAIN, which the adapter delivers while there is work.
Drain ==
  /\ Online /\ HasPendingWork(ch)
  /\ UNCHANGED <<outside, answers, events>>
  /\ Handler(LAMBDA o : Tick(Here, own, o))

\* A move of somebody else, or any other event that ticks.
OthersMove ==
  /\ Online /\ ~ch.throttled
  /\ Handler(LAMBDA o : Tick(Here, own, o))
  /\ UNCHANGED <<outside, answers, events>>

\* ts3_on_client_move for the own client.
OwnMoveArrives ==
  /\ Online /\ answers # <<>> /\ Head(answers).kind = "moved"
  /\ own' = Head(answers).to /\ answers' = Tail(answers)
  /\ UNCHANGED <<phase, coords, speakers, gate, exists, at, events>>
  /\ Handler(LAMBDA o : Tick(OnOwnMove(Here, own', o), own', o))

\* ts3plugin_onServerErrorEvent.
AnswerArrives ==
  /\ Online /\ answers # <<>> /\ Head(answers).kind = "answer"
  /\ answers' = Tail(answers) /\ UNCHANGED <<outside, events>>
  /\ Handler(LAMBDA o :
       LET code  == Head(answers).code
           taken == [Here EXCEPT !.c = RcTake(ch, code)]
       IN IF ~RcHas(ch, code) THEN Here
          ELSE IF Head(answers).ok THEN taken ELSE OnMoveFailed(taken, o))

\* STATUS_CONNECTION_ESTABLISHED: reset, nick_on_connected, first tick.  The
\* client keeps the nickname it had.
Connect ==
  /\ phase = "offline" /\ events < MaxEvents /\ events' = events + 1
  /\ phase' = "online" /\ at' \in Arrive /\ own' = at'
  /\ answers' = <<>>
  /\ Handler(LAMBDA o :
       LET nick == NickOnConnected(ch.nick, name, Conn)
       IN Tick([c |-> ChanReset(nick), name |-> name, out |-> <<>>], own', o))
  /\ UNCHANGED <<coords, speakers, gate, exists>>

DisconnectForgetsName ==      \* mutant: the saved name goes with the connection
  /\ Online
  /\ phase' = "offline" /\ own' = Nowhere /\ at' = Nowhere
  /\ inbox' = <<>> /\ answers' = <<>> /\ ch' = ChanReset(NickReset) /\ gate' = "profile"
  /\ UNCHANGED <<name, coords, speakers, exists, events, faults>>

\* STATUS_DISCONNECTED: ts3_reset_connection_state; the saved name stays.
Disconnect ==
  /\ Online
  /\ phase' = "offline" /\ own' = Nowhere /\ at' = Nowhere
  /\ inbox' = <<>> /\ answers' = <<>> /\ ch' = ChanReset(ch.nick) /\ gate' = "profile"
  /\ UNCHANGED <<name, coords, speakers, exists, events, faults>>

\* ts3plugin_shutdown: chan_leave_ingame_on_plugin_disable, then the resets.
Leave(s, o) ==
  IF Hub \in Find([s EXCEPT !.c.listDirty = s.c.known # Managed], o).c.known /\ own = Ingame
  THEN LET r == Restore(s, o)
       IN IF o.send THEN [r EXCEPT !.out = Append(@, [code |-> FreshCode, target |-> Hub])] ELSE r
  ELSE s
Shutdown ==
  /\ Online /\ phase' = "stopped"
  /\ Handler(LAMBDA o : [Leave(Here, o) EXCEPT !.c = ChanReset(NickReset)])
  /\ UNCHANGED <<own, coords, speakers, gate, exists, at, answers, events>>
-----------------------------------------------------------------------------
(* The server answers the requests in order; an accepted move is reported  *)
(* before its answer.  It may refuse, or never answer.                     *)

Moved(to)        == [kind |-> "moved", to |-> to, code |-> 0, ok |-> TRUE]
Answer(code, ok) == [kind |-> "answer", to |-> Nowhere, code |-> code, ok |-> ok]

ServerMoves ==
  /\ phase # "offline" /\ inbox # <<>>
  /\ Head(inbox).target \in exists \ {at}
  /\ at' = Head(inbox).target
  /\ answers' = answers \o <<Moved(at'), Answer(Head(inbox).code, TRUE)>>
  /\ inbox' = Tail(inbox)
  /\ UNCHANGED <<ch, name, phase, own, coords, speakers, gate, exists, events, faults>>

ServerRefuses ==
  /\ phase # "offline" /\ inbox # <<>>
  /\ faults' = IF Head(inbox).target \in exists \ {at} THEN faults + 1 ELSE faults
  /\ faults' <= MaxFaults
  /\ answers' = Append(answers, Answer(Head(inbox).code, FALSE))
  /\ inbox' = Tail(inbox)
  /\ UNCHANGED <<ch, name, outside, events>>

ServerStaysSilent ==
  /\ phase # "offline" /\ inbox # <<>>
  /\ faults < MaxFaults /\ faults' = faults + 1
  /\ inbox' = Tail(inbox)
  /\ UNCHANGED <<ch, name, outside, answers, events>>

Happens == phase # "offline" /\ events < MaxEvents /\ events' = events + 1

\* The user goes to a channel, or an admin moves him.
UserMoves(c) ==
  /\ Happens /\ c # at
  /\ c \in Managed => c \in exists
  /\ at' = c /\ answers' = Append(answers, Moved(c))
  /\ UNCHANGED <<ch, name, phase, own, coords, speakers, gate, exists, inbox, faults>>

\* A position begins or ends to be valid, which its watcher signals.
CoordsChange ==
  /\ Happens /\ coords' = ~coords
  /\ ch' = [ch EXCEPT !.posPending = TRUE]
  /\ UNCHANGED <<name, phase, own, speakers, gate, exists, at, inbox, answers, faults>>

SpeakersChange ==
  /\ Happens /\ ForceSpeakers /\ speakers' = ~speakers
  /\ UNCHANGED <<ch, name, phase, own, coords, gate, exists, at, inbox, answers, faults>>

\* The profile arrives, and then the password; the mod's password may expire.
GateOpens ==
  /\ Online /\ gate # "open"
  /\ gate' = IF gate = "profile" THEN "password" ELSE "open"
  /\ ch' = [ch EXCEPT !.posPending = (@ \/ gate = "profile")]
  /\ UNCHANGED <<name, phase, own, coords, speakers, exists, at, inbox, answers, events, faults>>
PasswordExpires ==
  /\ Happens /\ gate = "open" /\ gate' = "password"
  /\ UNCHANGED <<ch, name, phase, own, coords, speakers, exists, at, inbox, answers, faults>>

\* A managed channel is deleted, or created again once its loss was noticed:
\* chan_on_channel_list_changed.
ListChanges(c) ==
  /\ Happens /\ Online /\ c # at
  /\ c \notin exists => c \notin ch.known
  /\ exists' = IF c \in exists THEN exists \ {c} ELSE exists \cup {c}
  /\ ch' = [ch EXCEPT !.listDirty = TRUE]
  /\ UNCHANGED <<name, phase, own, coords, speakers, gate, at, inbox, answers, faults>>

\* The position feed: one signal for each sample.
Sample ==
  /\ PositionFeed /\ Online /\ coords /\ ~ch.posPending
  /\ ch' = [ch EXCEPT !.posPending = TRUE]
  /\ UNCHANGED <<name, outside, inbox, answers, events, faults>>
-----------------------------------------------------------------------------
(* The clock.  A back-off of 5 s and the 5 s of a request run out after    *)
(* the 2 s of the cooldown, the throttle of 500 ms before them.            *)

Passes(c) ==
  /\ Online /\ ch' = c
  /\ UNCHANGED <<name, outside, inbox, answers, events, faults>>
Unthrottle  == ch.throttled /\ Passes([ch EXCEPT !.throttled = FALSE])
Cool        == ~ch.cooled /\ Passes([ch EXCEPT !.cooled = TRUE])
Age == \* it is a fault when the answer is still to come
  /\ Online /\ ch.inFlight /\ ch.cooled /\ ~ch.aged
  /\ faults' = IF inbox = <<>> /\ answers = <<>> THEN faults ELSE faults + 1
  /\ faults' <= MaxFaults
  /\ ch' = [ch EXCEPT !.aged = TRUE]
  /\ UNCHANGED <<name, outside, inbox, answers, events>>
BackoffOver == ch.backoff.wait /\ ch.cooled /\ Passes([ch EXCEPT !.backoff.wait = FALSE])
DwellOver   == ch.dwell /\ Passes([ch EXCEPT !.dwell = FALSE])
FindDue     == ~ch.findDue /\ Passes([ch EXCEPT !.findDue = TRUE])
Clock == Unthrottle \/ Cool \/ Age \/ BackoffOver \/ DwellOver \/ FindDue

User == \/ \E c \in Channels : UserMoves(c)
        \/ CoordsChange \/ SpeakersChange \/ PasswordExpires
        \/ \E c \in Managed : ListChanges(c)
Server == ServerMoves \/ ServerRefuses \/ ServerStaysSilent

ChanNext ==
  \/ Connect \/ Disconnect \/ Shutdown
  \/ Drain \/ OthersMove \/ OwnMoveArrives \/ AnswerArrives
  \/ Server \/ User \/ GateOpens \/ Sample \/ Clock

(* The adapter delivers a drain while there is work (Wakeup); a drain that *)
(* is not throttled throttles the next one, so that this is to say that no *)
(* drain stays due.  TeamSpeak delivers its events, the server works its   *)
(* requests off, the clock and the feed go on.                             *)
DrainDue  == Online /\ HasPendingWork(ch) /\ ~ch.throttled
Delivered == Online /\ answers # <<>> /\ answers' = Tail(answers)
ChanFairness ==
  /\ []<>~DrainDue /\ WF_answers(Delivered)
  /\ WF_cvars(Server) /\ WF_cvars(Sample)
  /\ WF_cvars(Unthrottle) /\ WF_cvars(Cool)
  /\ WF_cvars(Age \/ BackoffOver \/ DwellOver \/ FindDue)

ChanSpec == ChanInit /\ [][ChanNext]_cvars /\ ChanFairness
-----------------------------------------------------------------------------
(* An anonymized nickname can be undone: while digits are shown, the real  *)
(* name of this connection is saved and the module knows that it has to    *)
(* restore it (nick_anonymize.c, the flag and the name through timeouts,   *)
(* refusals, failing calls and reconnects).                                *)
NameRecoverable ==
  (Online /\ name = Digits) => ch.nick.anon /\ SavedUsable(ch.nick, Conn) /\ ch.nick.saved = RealName

(* The playback gate always fits the channel the client is in: voices of   *)
(* the lobby are muted, those of the game channel are processed, all       *)
(* others pass, and without distance muting everything passes.             *)
GateFitsChannel ==
  Online => ch.mode = IF Muting THEN GateOf(own) ELSE "passthrough"

(* Both, after every step of the client.                                   *)
NamesAreSafe == NameRecoverable /\ GateFitsChannel

(* Whoever keeps playing gets to the game channel: if the position stays   *)
(* valid and nothing forbids the move, the client ends up there, whatever  *)
(* was refused, lost or late before.                                       *)
MayPlay == /\ Online /\ AutoMove /\ coords /\ gate = "open" /\ ~MutedHere
           /\ exists = Managed /\ own # Event
Playing     == own = Ingame
ReachesGame == <>[]MayPlay => <>[]Playing

(* The real name is back as soon as the player is out of the game channel, *)
(* or a move to it has failed, unless the same step tries to move there    *)
(* again (chan_on_own_move, chan_move_attempt_failed): no step of the      *)
(* client on which all calls succeed leaves digits outside.                *)
LeavesOrFails == phase' = "online" /\ own' # Ingame /\ (own = Ingame \/ ch.toIngame)
NameBackStep == LeavesOrFails /\ faults' = faults => name' = RealName \/ ch'.toIngame
NameBackOutside == [][NameBackStep]_cvars
=============================================================================
