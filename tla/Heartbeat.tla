----------------------------- MODULE Heartbeat -----------------------------
(***************************************************************************)
(* The heartbeat of one peer (CEPING) and what another client makes of it: *)
(* ts3_ceping.c and the tracking of ts3_ceping_wire.h.  A beat carries a   *)
(* number that wraps around; a jump forwards means that beats were lost.   *)
(* The network may lose, repeat and reorder beats, a peer may restart.     *)
(*                                                                         *)
(* hbSelf   the sender: the number of its last beat, the send flag, ticks  *)
(*          since a beat went out; from, the number it started to count at *)
(* hbAir    the beats on their way, by their true position in the count    *)
(* hbTrack  CepingTrack; quiet counts ticks since the last loss line       *)
(* hbFate   history: what the receiver knows of each true position; 0      *)
(*          stands for all that never were sent                            *)
(* hbBase, hbNewest  history: the first and the last position accepted     *)
(* hbLosses, hbTold  history: losses found, losses in the log              *)
(***************************************************************************)
EXTENDS Naturals, FiniteSets

CONSTANTS
  HbMod,               \* CEPING_SEQ_MASK + 1
  HbWindow,            \* CEPING_REORDER_WINDOW
  HbStarts,            \* numbers the sender may have reached before
  HbFloor,             \* CEPING_SEND_MIN_MS = CEPING_LOSS_LOG_MIN_MS, in ticks
  HbMaxBeats,          \* bound: beats of one run
  HbMaxEvents          \* bound: restarts, repeated and refused beats

\* At a beat a second no run comes half way round.
HbAssumption ==
  /\ {HbMod, HbWindow, HbMaxBeats, HbMaxEvents} \subseteq Nat /\ HbFloor \in Nat \ {0}
  /\ HbMaxBeats < HbMod \div 2
  /\ HbStarts \subseteq 0..HbMod - 1

VARIABLES hbSelf, hbAir, hbTrack, hbFate, hbBase, hbNewest, hbLosses, hbTold, hbEvents

hbvars == <<hbSelf, hbAir, hbTrack, hbFate, hbBase, hbNewest, hbLosses, hbTold, hbEvents>>

Beats    == 1..HbMaxBeats
Unseen   == [has |-> FALSE, seq |-> 0, suppressed |-> 0, quiet |-> HbFloor]
NoFates  == [n \in 0..HbMaxBeats |-> IF n = 0 THEN "got" ELSE "none"]
NumberOf(n) == (hbSelf.from + n) % HbMod

Senders == [from : HbStarts \cup {0}, n : 0..HbMaxBeats, pend : BOOLEAN, age : 0..HbFloor]
Tracks  == [has : BOOLEAN, seq : 0..HbMod - 1, suppressed : Nat, quiet : 0..HbFloor]

HbTypeOK ==
  /\ hbSelf \in Senders
  /\ hbAir \subseteq Beats
  /\ hbTrack \in Tracks
  /\ hbFate \in [0..HbMaxBeats -> {"none", "got", "missed", "phantom"}]
  /\ hbBase \in 0..HbMaxBeats /\ hbNewest \in 0..HbMaxBeats
  /\ hbLosses \in Nat /\ hbTold \in Nat /\ hbEvents \in 0..HbMaxEvents

HbInit ==
  /\ \E s \in HbStarts : hbSelf = [from |-> s, n |-> 0, pend |-> FALSE, age |-> HbFloor]
  /\ hbAir = {} /\ hbTrack = Unseen /\ hbFate = NoFates
  /\ hbBase = 0 /\ hbNewest = 0 /\ hbLosses = 0 /\ hbTold = 0 /\ hbEvents = 0
-----------------------------------------------------------------------------
(* The sender.                                                             *)

BeatEvent ==
  /\ hbEvents < HbMaxEvents
  /\ hbEvents' = hbEvents + 1

\* The position tick raises the flag and lets time pass for both clients.
HbTick ==
  LET Later(t) == IF t = HbFloor THEN t ELSE t + 1
  IN /\ hbSelf' = [hbSelf EXCEPT !.pend = TRUE, !.age = Later(@)]
     /\ hbTrack' = [hbTrack EXCEPT !.quiet = Later(@)]
     /\ UNCHANGED <<hbAir, hbFate, hbBase, hbNewest, hbLosses, hbTold, hbEvents>>

\* ts3_ceping_flush before its time: the flag is dropped, the next tick raises it.
FlushTooEarly ==
  /\ hbSelf.pend /\ hbSelf.age < HbFloor
  /\ hbSelf' = [hbSelf EXCEPT !.pend = FALSE]
  /\ UNCHANGED <<hbAir, hbTrack, hbFate, hbBase, hbNewest, hbLosses, hbTold, hbEvents>>

\* A beat that TeamSpeak refuses has used its number.
FlushBeats(ok) ==
  /\ hbSelf.pend /\ hbSelf.age = HbFloor /\ hbSelf.n < HbMaxBeats
  /\ IF ok THEN UNCHANGED hbEvents ELSE BeatEvent
  /\ hbSelf' = [hbSelf EXCEPT !.pend = FALSE, !.n = @ + 1, !.age = IF ok THEN 0 ELSE @]
  /\ hbAir' = IF ok THEN hbAir \cup {hbSelf.n + 1} ELSE hbAir
  /\ UNCHANGED <<hbTrack, hbFate, hbBase, hbNewest, hbLosses, hbTold>>

\* The plugin is reloaded: the count starts over (ts3_ceping_reset) when all
\* that was on its way has arrived or is lost.  At one beat a second a count
\* has not come half way round.  If the client leaves, ts3_ceping_clear_client
\* also forgets it here.
Restart ==
  /\ BeatEvent
  /\ hbSelf.from = 0
  /\ hbSelf' = [from |-> 0, n |-> 0, pend |-> FALSE, age |-> HbFloor]
  /\ \/ UNCHANGED <<hbTrack, hbLosses, hbTold>>
     \/ hbTrack' = Unseen /\ hbLosses' = 0 /\ hbTold' = 0
  /\ hbAir' = {} /\ hbFate' = NoFates /\ hbBase' = 0 /\ hbNewest' = 0
-----------------------------------------------------------------------------
(* The receiver: ceping_track_observe.                                     *)

Ahead(track, seq)  == (seq + HbMod - track.seq) % HbMod
Behind(track, seq) == (track.seq + HbMod - seq) % HbMod
IsForward(track, seq) == Ahead(track, seq) \in 1..HbMod \div 2 - 1

\* Mutant: the newest number is whatever came last.
RebasedOnAny(track, seq) == track.seq # seq

\* Far behind: the peer has restarted its count.
Rebased(track, seq) == /\ Ahead(track, seq) >= HbMod \div 2
                       /\ Behind(track, seq) > HbWindow

\* How many beats were skipped (ceping_seq_gap).
Missed(track, seq) == IF track.has /\ IsForward(track, seq) THEN Ahead(track, seq) - 1 ELSE 0

\* Mutant: a suppressed loss is only remembered until the next line.
TrackedForgetful(track, seq) ==
  LET lines == track.quiet = HbFloor
  IN [has |-> TRUE,
      seq |-> IF ~track.has \/ IsForward(track, seq) \/ Rebased(track, seq) THEN seq ELSE track.seq,
      suppressed |-> IF Missed(track, seq) = 0 THEN track.suppressed ELSE 0,
      quiet |-> IF Missed(track, seq) > 0 /\ lines THEN 0 ELSE track.quiet]

Tracked(track, seq) ==
  LET lines == track.quiet = HbFloor
  IN [has |-> TRUE,
      seq |-> IF ~track.has \/ IsForward(track, seq) \/ Rebased(track, seq) THEN seq ELSE track.seq,
      suppressed |-> IF Missed(track, seq) = 0 THEN track.suppressed
                     ELSE IF lines THEN 0 ELSE track.suppressed + 1,
      quiet |-> IF Missed(track, seq) > 0 /\ lines THEN 0 ELSE track.quiet]

\* Position n arrives: no later than HbWindow beats after it was overtaken, and
\* in order until a beat of a restarted count is accepted.  (If the first two
\* change places where the old count is just within the window, the second is
\* ignored, the first rebases and the third reports the second lost.)
Arrives(n) ==
  LET seq    == NumberOf(n)
      missed == Missed(hbTrack, seq)
      skipped == {i \in 0..HbMaxBeats : i < n /\ (i + missed >= n \/ (i = 0 /\ missed >= n))}
      lines  == missed > 0 /\ hbTrack.quiet = HbFloor
      moves  == ~hbTrack.has \/ IsForward(hbTrack, seq) \/ Rebased(hbTrack, seq)
  IN /\ n \in hbAir /\ n + HbWindow >= hbNewest
     /\ hbTrack.has /\ hbBase = 0 => \A m \in hbAir : m >= n
     /\ hbTrack' = Tracked(hbTrack, seq)
     /\ hbFate' = [i \in 0..HbMaxBeats |->
                     IF i = n THEN IF hbFate[i] = "phantom" THEN "phantom" ELSE "got"
                     ELSE IF i \in skipped THEN IF hbFate[i] = "none" THEN "missed" ELSE "phantom"
                     ELSE hbFate[i]]
     /\ hbBase' = IF moves /\ hbBase = 0 THEN n ELSE hbBase
     /\ hbNewest' = IF moves THEN n ELSE hbNewest
     /\ hbLosses' = IF missed > 0 THEN hbLosses + 1 ELSE hbLosses
     /\ hbTold' = IF lines THEN hbTold + 1 + hbTrack.suppressed ELSE hbTold
     /\ \/ hbAir' = hbAir \ {n} /\ UNCHANGED hbEvents
        \/ hbAir' = hbAir /\ BeatEvent                       \* and will arrive once more
     /\ UNCHANGED hbSelf

Vanishes(n) ==
  /\ n \in hbAir
  /\ hbAir' = hbAir \ {n}
  /\ UNCHANGED <<hbSelf, hbTrack, hbFate, hbBase, hbNewest, hbLosses, hbTold, hbEvents>>

HbNext ==
  \/ HbTick \/ FlushTooEarly \/ Restart
  \/ \E ok \in BOOLEAN : FlushBeats(ok)
  \/ \E n \in Beats : Arrives(n) \/ Vanishes(n)

HbSpec == HbInit /\ [][HbNext]_hbvars
-----------------------------------------------------------------------------
\* No beat is reported lost that has arrived before, that was reported before
\* or that was never sent: not after a late or a repeated beat, a wrap of the
\* number or a restart of the peer (ceping_wire.h: "a late or repeated packet
\* never reports a phantom loss").
NoPhantomLoss == \A n \in 0..HbMaxBeats : hbFate[n] # "phantom"

\* And no beat between the first and the newest one accepted is missing
\* without having been reported, and every report is in the log or counted
\* for the next line.
EveryGapIsTold ==
  /\ \A n \in Beats : hbBase < n /\ n < hbNewest => hbFate[n] # "none"
  /\ hbTrack.has => hbLosses = hbTold + hbTrack.suppressed

LossesAreTrue == NoPhantomLoss /\ EveryGapIsTold
=============================================================================
