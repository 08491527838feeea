-------------------------------- MODULE Ts3d --------------------------------
(***************************************************************************)
(* ts3_3d.c: the listener and the players handed to TeamSpeak's own 3D     *)
(* stage.  Calls are saved by remembering what was handed over, a failed   *)
(* call is left alone for a second, and a pass makes a bounded number of   *)
(* calls and goes on where the last one stopped.  All of it runs on the    *)
(* callback thread, once per drain in proximity mode; the 20 Hz throttle   *)
(* is part of when the next pass comes.                                    *)
(***************************************************************************)
EXTENDS Naturals, Sequences, FiniteSets

CONSTANTS
  Speakers3d,          \* clients, in the order of the player table: 1..n
  SetsPerPass,         \* TS3D_MAX_SETS_PER_PASS
  TdMaxEvents,         \* bound: moves, arrivals, departures, new sessions
  TdMaxFaults          \* bound: failing calls

TdAssumption ==
  /\ Speakers3d = 1..Cardinality(Speakers3d) /\ SetsPerPass \in Nat \ {0}
  /\ {TdMaxEvents, TdMaxFaults} \subseteq Nat

VARIABLES
  heard,               \* where each player of the table is, 0 for who is not in it
  self,                \* the own position, 0 when it is not valid
  cache,               \* g_settingsApplied, g_lastListener, g_lastClient*: 0 when not valid
  held,                \* what TeamSpeak holds of them
  backoff,             \* g_retryUntilMs: clients left alone
  cursor,              \* g_rrCursor, as a player
  left,                \* g_applyPending
  tdEvents, tdFaults   \* bounds

tdvars == <<heard, self, cache, held, backoff, cursor, left, tdEvents, tdFaults>>

Spots   == {1, 2, 3}                      \* more than TS3D_POS_EPS apart
Audible(p) == heard[p] \in {1, 2}         \* ts3d_in_hear_range: spot 3 is out of everybody's range
Nothing == [settings |-> FALSE, listener |-> 0, client |-> [p \in Speakers3d |-> 0]]
Handed  == [settings : BOOLEAN, listener : Spots \cup {0}, client : [Speakers3d -> Spots \cup {0}]]

TdTypeOK ==
  /\ heard \in [Speakers3d -> Spots \cup {0}] /\ self \in Spots \cup {0}
  /\ cache \in Handed /\ held \in Handed
  /\ backoff \subseteq Speakers3d /\ cursor \in Speakers3d /\ left \in BOOLEAN
  /\ tdEvents \in 0..TdMaxEvents /\ tdFaults \in 0..TdMaxFaults

TdInit ==
  /\ heard \in [Speakers3d -> {0, 1}] /\ self = 1
  /\ cache = Nothing /\ held = Nothing /\ backoff = {} /\ cursor = 1 /\ left = FALSE
  /\ tdEvents = 0 /\ tdFaults = 0

TdHappens == tdEvents < TdMaxEvents /\ tdEvents' = tdEvents + 1

\* A player moves, comes into the table, or goes out of it; when his client
\* goes (ts3d_invalidate_client), TeamSpeak forgets him too.
PlayerMoves(p) ==
  /\ TdHappens /\ \E q \in Spots \ {heard[p]} : heard' = [heard EXCEPT ![p] = q]
  /\ UNCHANGED <<self, cache, held, backoff, cursor, left, tdFaults>>

ForgetNothing3d(c, p) == c       \* mutant: the dedup values outlive the client

\* ts3d_invalidate_client
Forget3d(c, p) == [c EXCEPT !.client[p] = 0]

ClientGone(p) ==
  /\ TdHappens /\ heard[p] # 0
  /\ heard' = [heard EXCEPT ![p] = 0]
  /\ cache' = Forget3d(cache, p) /\ backoff' = backoff \ {p}
  /\ held' = [held EXCEPT !.client[p] = 0]
  /\ UNCHANGED <<self, cursor, left, tdFaults>>

ListenerMoves(q) ==
  /\ TdHappens /\ q # self /\ self' = q
  /\ UNCHANGED <<heard, cache, held, backoff, cursor, left, tdFaults>>

\* ts3d_reset with a new session: TeamSpeak begins anew as well.
NewSession ==
  /\ TdHappens
  /\ heard' = [p \in Speakers3d |-> 0] /\ held' = Nothing
  /\ cache' = Nothing /\ backoff' = {} /\ cursor' = 1 /\ left' = FALSE
  /\ UNCHANGED <<self, tdFaults>>
-----------------------------------------------------------------------------
\* The players a pass visits: from the cursor on, around the table.
Players  == SelectSeq([i \in 1..Cardinality(Speakers3d) |-> i], LAMBDA p : heard[p] # 0)
Turn     == SelectSeq(Players, LAMBDA p : p >= cursor) \o SelectSeq(Players, LAMBDA p : p < cursor)

\* ts3d_push_client: is there a call to make?
Due3d(p) == Audible(p) /\ cache.client[p] # heard[p] /\ p \notin backoff
Calls(n) == Cardinality({i \in 1..n : Due3d(Turn[i])})
Stop     == IF \E n \in DOMAIN Turn : Calls(n) = SetsPerPass
            THEN CHOOSE n \in DOMAIN Turn : Calls(n) = SetsPerPass /\ Calls(n - 1) < SetsPerPass
            ELSE Len(Turn)
Todo     == {Turn[i] : i \in {j \in 1..Stop : Due3d(Turn[j])}}

\* ts3d_apply.  Every call may fail; only what TeamSpeak took is remembered,
\* and only a failed client is left alone.
Apply3d ==
  /\ self # 0
  /\ LET todo == Todo  turn == Turn  stop == Stop IN
     \E okSettings, okListener \in BOOLEAN, bad \in SUBSET todo :
       LET settings == cache.settings \/ okSettings
           listener == IF cache.listener # self /\ okListener THEN self ELSE cache.listener
           taken    == [settings |-> settings, listener |-> listener,
                        client |-> [p \in Speakers3d |-> IF p \in todo \ bad THEN heard[p] ELSE cache.client[p]]]
           failed   == tdFaults + Cardinality(bad) + (IF settings THEN 0 ELSE 1)
                       + (IF listener = self THEN 0 ELSE 1)
       IN /\ failed <= TdMaxFaults /\ tdFaults' = failed
          /\ cache' = taken
          /\ held' = [settings |-> held.settings \/ settings,
                      listener |-> IF listener # cache.listener THEN listener ELSE held.listener,
                      client   |-> [p \in Speakers3d |-> IF p \in todo \ bad THEN heard[p] ELSE held.client[p]]]
          /\ backoff' = backoff \cup bad
          /\ left' = (stop < Len(turn))
          /\ cursor' = IF stop < Len(turn) THEN turn[stop + 1] ELSE 1
  /\ UNCHANGED <<heard, self, tdEvents>>

BackoffEnds(p) ==
  /\ p \in backoff /\ backoff' = backoff \ {p}
  /\ UNCHANGED <<heard, self, cache, held, cursor, left, tdEvents, tdFaults>>

TdNext ==
  \/ \E p \in Speakers3d : PlayerMoves(p) \/ ClientGone(p) \/ BackoffEnds(p)
  \/ \E q \in {0, 1, 2} : ListenerMoves(q)
  \/ NewSession \/ Apply3d

\* The drains go on with the position samples, and so does the clock.
TdFairness == WF_tdvars(Apply3d) /\ \A p \in Speakers3d : WF_tdvars(BackoffEnds(p))

TdSpec == TdInit /\ [][TdNext]_tdvars /\ TdFairness
-----------------------------------------------------------------------------
(* While the own position is valid, TeamSpeak gets the settings, the       *)
(* listener and every player in range at his last position, whatever calls *)
(* fail, however small the cap, and over departures and new sessions: what *)
(* the module remembers never keeps it from a call that is needed.         *)
Placed     == self # 0
HandedOver == /\ held.settings /\ held.listener = self
              /\ \A p \in Speakers3d : Audible(p) => held.client[p] = heard[p]
HandedOverInTheEnd == <>[]Placed => <>[]HandedOver
=============================================================================
