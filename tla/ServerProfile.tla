---------------------------- MODULE ServerProfile ----------------------------
(***************************************************************************)
(* The server profile (ts/profile/ts3_server_profile.c): settings that the *)
(* admin writes into the description of the channel named Root.  The       *)
(* callback thread looks the channel up, asks for its description, parses  *)
(* and applies it; a dialog or the key watcher reads the profile from      *)
(* another thread.                                                         *)
(*                                                                         *)
(* A description is a member of Descriptions; Valid are those with a       *)
(* [GLOBAL] section, and LocalRace gives the race of the local player in   *)
(* them, an index into RacesOf, or 0.  The clock is replaced by the        *)
(* comparisons made on it:                                                 *)
(*   findDue     5 s since the last lookup                                 *)
(*   aged        10 s since the request in flight                          *)
(*   requestDue  30 s since the last request, or none yet                  *)
(*   refreshDue  500 ms since the last try to refresh                      *)
(*   editDue     500 ms since the last request                             *)
(* Left out: what the settings do, the defaults and forces written to the  *)
(* configuration, the chat lines and the log.                              *)
(***************************************************************************)
EXTENDS Naturals, Sequences

CONSTANTS
  Descriptions, Valid, RacesOf, LocalRace,
  MaxEdits,        \* bound: what the admin and the user do
  MaxLost          \* bound: failing calls and requests without answer

ProfileAssumption ==
  /\ Valid \subseteq Descriptions /\ {MaxEdits, MaxLost} \subseteq Nat
  /\ RacesOf \in [Valid -> Seq(STRING)]
  /\ LocalRace \in [Valid -> Nat] /\ \A t \in Valid : LocalRace[t] <= Len(RacesOf[t])

NoText    == "no text"
NoChannel == "no channel"
Tops      == {"root", "root2"}          \* top level: Root, and one that replaces it
Shadow    == "shadow"                   \* a sub-channel of that name
RootRooms == Tops \cup {Shadow}

VARIABLES
  prof,            \* the callback thread: its request state, and the client's channel list
  inUse,           \* what other threads can read
  rooms, text,     \* the server: channels named Root, and their descriptions
  described,       \* the descriptions the client knows
  wire, asked,     \* server to client, client to server; both in order
  onServer,
  seen,            \* history: the channel in use whose description was handled
  raceReader,      \* a thread inside server_profile_get_local_race
  edits, lost

server   == <<rooms, text>>
pvars == <<prof, inUse, server, described, wire, asked, onServer, seen, raceReader, edits,
           lost>>

Fresh == [listed |-> {}, root |-> NoChannel, inFlight |-> FALSE, refresh |-> FALSE,
          dirty |-> FALSE, hash |-> NoText, findDue |-> TRUE, aged |-> FALSE,
          requestDue |-> TRUE, refreshDue |-> TRUE, editDue |-> TRUE]
Inactive == [active |-> FALSE, profile |-> NoText, race |-> 0]
NotReading == [pc |-> "idle", race |-> 0, during |-> {}, got |-> {}]

\* The local race of a profile, or nothing.
RaceIn(t) == IF t \in Valid /\ LocalRace[t] # 0 THEN {RacesOf[t][LocalRace[t]]} ELSE {}

ProfTypeOK ==
  /\ prof.root \in RootRooms \cup {NoChannel} /\ prof.hash \in Valid \cup {NoText}
  /\ {prof.inFlight, prof.refresh, prof.dirty, prof.findDue, prof.aged, prof.requestDue,
      prof.refreshDue, prof.editDue, onServer, inUse.active} \subseteq BOOLEAN
  /\ prof.aged => prof.inFlight
  /\ inUse.active <=> inUse.profile \in Valid
  /\ inUse.race = IF inUse.active THEN LocalRace[inUse.profile] ELSE 0
  /\ rooms \subseteq RootRooms /\ ~(Tops \subseteq rooms)
  /\ {text, described} \subseteq [RootRooms -> Descriptions \cup {NoText}]
  /\ prof.listed \subseteq RootRooms
  /\ seen \in {NoChannel, prof.root}
  /\ wire \in Seq([kind : {"text", "edited", "list"}, room : RootRooms,
                  text : Descriptions \cup {NoText}, rooms : SUBSET RootRooms])
  /\ asked \in Seq(RootRooms)
  /\ raceReader.pc \in {"idle", "flag", "copy", "done"}
  /\ edits \in 0..MaxEdits /\ lost \in 0..MaxLost
-----------------------------------------------------------------------------
(* The callback thread: p is the request state; the calls to TeamSpeak go  *)
(* well, or the list is unreadable, or the request cannot be sent.         *)

Lookups == {"well", "no list", "not sent"}

\* profile_find_root_channel: a top-level Root wins over a sub-channel.
FindRoot(list) ==
  IF list \cap Tops # {} THEN CHOOSE r \in list \cap Tops : TRUE
  ELSE IF list # {} THEN Shadow ELSE NoChannel

\* profile_rescan_root
RescanRoot(p, ok) ==
  LET q == [p EXCEPT !.findDue = FALSE, !.dirty = FALSE]
      found == FindRoot(p.listed)
  IN IF ~ok \/ found = p.root THEN q
     ELSE [q EXCEPT !.root = found, !.inFlight = FALSE, !.aged = FALSE,
                    !.requestDue = TRUE, !.editDue = TRUE,
                    !.refresh = @ \/ (found # NoChannel /\ p.root # NoChannel)]

\* profile_resolve_root
ResolveRoot(p, honorDirty, ok) ==
  IF (honorDirty /\ p.dirty) \/ (p.root = NoChannel /\ p.findDue) THEN RescanRoot(p, ok) ELSE p

Requested(p) == [p EXCEPT !.inFlight = TRUE, !.aged = FALSE, !.requestDue = FALSE, !.editDue = FALSE]

\* server_profile_tick: the state after it and the channel asked for.
ProfileTick(p0, o) ==
  LET p1   == ResolveRoot(p0, TRUE, o # "no list")
      p2   == IF p1.inFlight /\ p1.aged THEN [p1 EXCEPT !.inFlight = FALSE, !.aged = FALSE] ELSE p1
      due  == IF inUse.active THEN p2.refresh /\ p2.refreshDue ELSE p2.requestDue
      p3   == IF inUse.active THEN [p2 EXCEPT !.refreshDue = FALSE] ELSE p2
      quiet(p) == [p |-> p, ask |-> <<>>]
  IN IF p1.root = NoChannel \/ p2.inFlight \/ ~due THEN quiet(p2)
     ELSE IF o = "not sent" THEN quiet(p3)
     ELSE [p |-> [Requested(p3) EXCEPT !.refresh = FALSE], ask |-> <<p3.root>>]

\* server_profile_apply
Apply(d) == [active |-> TRUE, profile |-> d, race |-> LocalRace[d]]

TryApplyKeepsHash(p, d) ==      \* mutant: the hash of the first text is kept
  IF d \notin Valid \/ (d = p.hash /\ inUse.active) THEN [p |-> p, inUse |-> inUse]
  ELSE [p |-> [p EXCEPT !.hash = IF p.hash = NoText THEN d ELSE p.hash],
        inUse |-> Apply(d)]

\* profile_try_apply_root_description, with the description d the client knows:
\* the new request state and readable state.
TryApply(p, d) ==
  IF d \notin Valid \/ (d = p.hash /\ inUse.active) THEN [p |-> p, inUse |-> inUse]
  ELSE [p |-> [p EXCEPT !.hash = d], inUse |-> Apply(d)]

\* server_profile_reset
ProfileReset == prof' = Fresh /\ inUse' = Inactive
-----------------------------------------------------------------------------
ProfInit ==
  /\ prof = Fresh /\ inUse = Inactive /\ onServer = FALSE
  /\ rooms \in {{"root"}, {Shadow}, {"root", Shadow}} /\ text \in [RootRooms -> Descriptions]
  /\ text["root2"] = text[Shadow]
  /\ described = [r \in RootRooms |-> NoText] /\ wire = <<>> /\ asked = <<>> /\ seen = NoChannel
  /\ raceReader = NotReading /\ edits = 0 /\ lost = 0

\* The calls of this step go well, or one is lost.
Call(o) == lost' = (IF o = "well" THEN lost ELSE lost + 1) /\ lost' <= MaxLost

\* ts3_bootstrap_connected_session and every CEDRAIN run the tick.
ProfConnect ==
  /\ ~onServer /\ edits < MaxEdits
  /\ onServer' = TRUE /\ edits' = edits + 1
  /\ LET r == ProfileTick([prof EXCEPT !.listed = rooms], "well") IN prof' = r.p /\ asked' = r.ask
  /\ UNCHANGED <<inUse, server, described, wire, seen, raceReader, lost>>
ProfDrain ==
  /\ onServer
  /\ \E o \in Lookups :
       /\ Call(o) /\ (o = "well" \/ ProfileTick(prof, o) # ProfileTick(prof, "well"))
       /\ LET r == ProfileTick(prof, o) IN prof' = r.p /\ asked' = asked \o r.ask
       /\ prof' # prof
  /\ seen' = IF prof'.root = prof.root THEN seen ELSE NoChannel
  /\ UNCHANGED <<inUse, server, described, wire, onServer, raceReader, edits>>

\* ts3_reset_connection_state on a disconnect; the client forgets the server.
ProfDisconnect ==
  /\ onServer /\ onServer' = FALSE
  /\ ProfileReset /\ described' = [r \in RootRooms |-> NoText]
  /\ wire' = <<>> /\ asked' = <<>> /\ seen' = NoChannel
  /\ UNCHANGED <<server, raceReader, edits, lost>>

Receive(kind) == onServer /\ wire # <<>> /\ Head(wire).kind = kind /\ wire' = Tail(wire)

\* ts3plugin_onUpdateChannelEvent, ts3plugin_onChannelDescriptionUpdateEvent:
\* server_profile_on_description_update.
TextArrives ==
  /\ Receive("text")
  /\ LET r == Head(wire).room
         p == ResolveRoot(prof, FALSE, TRUE)
         a == TryApply([p EXCEPT !.inFlight = FALSE, !.aged = FALSE], Head(wire).text)
     IN /\ described' = [described EXCEPT ![r] = Head(wire).text]
        /\ IF r = p.root THEN prof' = a.p /\ inUse' = a.inUse /\ seen' = r
           ELSE prof' = p /\ UNCHANGED <<inUse, seen>>
  /\ UNCHANGED <<server, asked, onServer, raceReader, edits, lost>>

\* ts3plugin_onUpdateChannelEditedEvent: server_profile_on_channel_edited with
\* the description known so far, then ts3_on_channel_list_changed.
EditArrives ==
  /\ Receive("edited")
  /\ \E o \in {"well", "not sent"} :
       LET r   == Head(wire).room
           p   == ResolveRoot(prof, FALSE, TRUE)
           a   == TryApply([p EXCEPT !.inFlight = FALSE, !.aged = FALSE], described[r])
           ask == a.p.editDue /\ o = "well"
       IN IF r = p.root
          THEN /\ inUse' = a.inUse
               /\ prof' = [(IF ask THEN Requested(a.p) ELSE a.p) EXCEPT !.dirty = TRUE]
               /\ asked' = IF ask THEN Append(asked, r) ELSE asked
               /\ o = "well" \/ a.p.editDue
               /\ Call(o)
          ELSE o = "well" /\ prof' = [p EXCEPT !.dirty = TRUE] /\ UNCHANGED <<inUse, asked, lost>>
  /\ UNCHANGED <<server, described, onServer, seen, raceReader, edits>>

\* ts3_on_channel_list_changed
ListEventArrives ==
  /\ Receive("list")
  /\ prof' = [prof EXCEPT !.dirty = TRUE, !.listed = Head(wire).rooms]
  /\ UNCHANGED <<inUse, server, described, asked, onServer, seen, raceReader, edits, lost>>
-----------------------------------------------------------------------------
(* The server and its admin.  An edit is reported twice: the channel was   *)
(* edited, and the description that changed.                               *)

Tell(kind, r) == [kind |-> kind, room |-> r, text |-> text'[r], rooms |-> rooms']
Announce(msgs)  == wire' = IF onServer THEN wire \o msgs ELSE wire
ServerOnly    == UNCHANGED <<prof, inUse, described, onServer, seen, raceReader>>

AnswersRequest ==
  /\ onServer /\ asked # <<>> /\ asked' = Tail(asked)
  /\ UNCHANGED <<rooms, text, edits, lost>>
  /\ wire' = IF Head(asked) \in rooms THEN Append(wire, Tell("text", Head(asked))) ELSE wire
  /\ ServerOnly
LosesRequest ==
  /\ onServer /\ asked # <<>> /\ lost < MaxLost
  /\ asked' = Tail(asked) /\ lost' = lost + 1
  /\ UNCHANGED <<server, wire, edits>> /\ ServerOnly
AdminEdits ==
  /\ edits < MaxEdits /\ edits' = edits + 1 /\ UNCHANGED <<rooms, asked, lost>>
  /\ \E r \in rooms, t \in Descriptions :
       /\ text' = [text EXCEPT ![r] = t]
       /\ Announce(<<Tell("edited", r), Tell("text", r)>>)
  /\ ServerOnly
AdminChangesList ==      \* deletes a channel, or creates one: identifiers are not used twice
  /\ edits < MaxEdits /\ edits' = edits + 1
  /\ \E r \in RootRooms :
       /\ \/ r \in rooms /\ rooms' = rooms \ {r} /\ text' = [text EXCEPT ![r] = NoText]
          \/ r \notin rooms /\ text[r] # NoText /\ rooms' = rooms \cup {r} /\ UNCHANGED text
       /\ ~(Tops \subseteq rooms')
       /\ Announce(<<Tell("list", r)>>)
  /\ UNCHANGED <<asked, lost>> /\ ServerOnly
-----------------------------------------------------------------------------
(* A reader on another thread: server_profile_get_local_race reads the     *)
(* index first, then takes the lock, checks the active flag and the number *)
(* of races, and copies the race at that index.                            *)

ReadIndex ==
  /\ raceReader.pc = "idle" /\ inUse.active /\ inUse.race # 0
  /\ raceReader' = [NotReading EXCEPT !.pc = "copy", !.race = inUse.race,
                                      !.during = RaceIn(inUse.profile)]
  /\ UNCHANGED <<prof, inUse, server, described, wire, asked, onServer, seen, edits, lost>>
CopyRace ==
  /\ raceReader.pc = "copy"
  /\ raceReader' = [raceReader EXCEPT !.pc = "done", !.during = @ \cup RaceIn(inUse.profile),
       !.got = IF inUse.active /\ raceReader.race <= Len(RacesOf[inUse.profile])
               THEN {RacesOf[inUse.profile][raceReader.race]} ELSE {}]
  /\ UNCHANGED <<prof, inUse, server, described, wire, asked, onServer, seen, edits, lost>>
Return ==
  /\ raceReader.pc = "done" /\ raceReader' = NotReading
  /\ UNCHANGED <<prof, inUse, server, described, wire, asked, onServer, seen, edits, lost>>

(* The clock.                                                              *)
ProfClock ==
  /\ onServer
  /\ \/ ~prof.findDue /\ prof.root = NoChannel /\ prof' = [prof EXCEPT !.findDue = TRUE]
     \/ ~prof.refreshDue /\ prof' = [prof EXCEPT !.refreshDue = TRUE]
     \/ ~prof.editDue /\ prof' = [prof EXCEPT !.editDue = TRUE]
     \/ prof.inFlight /\ ~prof.aged /\ prof.editDue /\ asked = <<>> /\ wire = <<>>
        /\ prof' = [prof EXCEPT !.aged = TRUE]
     \/ ~prof.requestDue /\ prof.editDue /\ (prof.inFlight => prof.aged)
        /\ prof' = [prof EXCEPT !.requestDue = TRUE]
  /\ UNCHANGED <<inUse, server, described, wire, asked, onServer, seen, raceReader, edits, lost>>

ProfNext ==
  \/ ProfConnect \/ ProfDrain \/ ProfDisconnect
  \/ TextArrives \/ EditArrives \/ ListEventArrives
  \/ AnswersRequest \/ LosesRequest \/ AdminEdits \/ AdminChangesList
  \/ ReadIndex \/ CopyRace \/ Return \/ ProfClock

ProfSpec == ProfInit /\ [][ProfNext]_pvars
-----------------------------------------------------------------------------
(* Once a description of the Root channel in use was handled, the profile  *)
(* is its latest valid one: with nothing under way, what is applied is     *)
(* what the channel says (the hash that skips a reload, the text known at  *)
(* the time of an edit, late answers).                                     *)
ProfileIsCurrent ==
  (onServer /\ wire = <<>> /\ prof.root \in {seen} \cap rooms)
     => (text[prof.root] \in Valid => inUse.profile = text[prof.root])

(* A Root that was found is asked for its description: it was handled, or  *)
(* it is requested, or the tick will request it.                           *)
NewRootIsAsked ==
  (onServer /\ prof.root # NoChannel)
     => \/ prof.root = seen \/ prof.inFlight \/ prof.refresh \/ prof.dirty
        \/ ~inUse.active

(* The race a reader gets is the local player's race in a profile that was *)
(* active at one of the two instants at which it looked.                   *)
OwnRaceOnly == raceReader.got \subseteq raceReader.during
=============================================================================
