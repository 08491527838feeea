-------------------------- MODULE PositionFeed --------------------------
(***************************************************************************)
(* The local position: the watcher of Pos.txt (core/mod_file/pos_file.c,   *)
(* pos_parse.h) and the positions the HTTP server injects.                 *)
(*                                                                         *)
(* The watcher looks at the file in every tick, accepts or refuses what it *)
(* read, and declares the coordinates invalid when nothing came for too    *)
(* long.  The HTTP thread writes the same variables without a common lock: *)
(* g_posLock covers the sample only.  A tick and an injection are several  *)
(* steps each, therefore, and interleave.  The callback thread starts the  *)
(* watcher before the HTTP server and stops it after it; other threads     *)
(* read the position as long as the watcher runs.                          *)
(*                                                                         *)
(* Time is counted in units that are longer than a tick or an injection:   *)
(* it passes only between them, and ages saturate at their last threshold. *)
(***************************************************************************)
EXTENDS Integers

CONSTANTS PosFresh,   \* POS_FRESH_ACCEPT_MS
          PosHold,    \* the hold of an injection
          PosStale,   \* POS_STALE_MS
          PosGrace,   \* POS_COORD_GRACE_MS
          PosEvents,  \* bound on writes of the game, configuration changes and injections
          PosStarts   \* bound on starts of the plugin

PosAssumption ==
    /\ {PosFresh, PosHold, PosStale, PosGrace} \subseteq Nat \ {0}
    /\ PosFresh <= PosStale /\ PosStale <= PosGrace

VARIABLES posLife, \* of the watcher: "down", "starting", "up", "stopping"
          posLock, \* g_posLock is initialised
          running, \* g_watcherRunning
          othersUp, \* the HTTP, key and dialog threads exist
          posFile, \* Pos.txt
          useFile, \* EnablePosFile is on and a Saved folder is known
          feed,    \* what watcher and HTTP thread share
          quad,    \* the write time the watcher saw last: "none", "this", "older"
          lastSeq, \* the sequence number of the file it accepted last, -1: none
          tick,    \* the watcher's tick
          inj,     \* the HTTP thread's injection
          reader,  \* a thread in pos_get_current
          posEvents,
          posStarts

posvars == <<posLife, posLock, running, othersUp, posFile, useFile, feed, quad, lastSeq,
             tick, inj, reader, posEvents, posStarts>>

NoPosFile == [what |-> "missing", age |-> PosStale + 1, seq |-> 0, live |-> FALSE]

\* A position; (0,0,0); a line cut in writing or with a number past 1e8.
Contents == {"pos", "zero", "bad"}

\* pos_parse_line: every field is a sane number; the placeholder passes.
Parses(what) == what \in {"pos", "zero"}
Plausible(what) == what = "pos"

Files == [what : Contents \cup {"missing"}, age : 0..PosStale + 1, seq : {0, 1},
          live : BOOLEAN]

Feeds == [valid : BOOLEAN, sample : {"none", "file", "http"}, source : {"none", "file", "http"},
          since : -1..PosGrace, hold : 0..PosHold, owed : BOOLEAN]

Ticks == [pc : {"idle", "decide", "take", "mark", "drop", "forget", "callback"},
          age : 0..PosStale + 1, changed : BOOLEAN, read : BOOLEAN, seq : {0, 1},
          valid : BOOLEAN, live : BOOLEAN]

Injections == [pc : {"idle", "sample", "flag", "time", "hold", "source"}, crossed : BOOLEAN]

IdleTick == [pc |-> "idle", age |-> 0, changed |-> FALSE, read |-> FALSE, seq |-> 0,
             valid |-> FALSE, live |-> FALSE]

IdleInj == [pc |-> "idle", crossed |-> FALSE]

PosInit ==
    /\ posLife = "down" /\ posLock = FALSE /\ running = FALSE /\ othersUp = FALSE
    /\ posFile \in {NoPosFile, [what |-> "pos", age |-> PosFresh, seq |-> 1, live |-> FALSE],
                    [what |-> "pos", age |-> PosFresh + 1, seq |-> 1, live |-> FALSE]}
    /\ useFile = TRUE
    /\ feed = [valid |-> FALSE, sample |-> "none", source |-> "none", since |-> -1,
               hold |-> 0, owed |-> FALSE]
    /\ quad = "none" /\ lastSeq = -1
    /\ tick = IdleTick /\ inj = IdleInj /\ reader = "idle"
    /\ posEvents = 0 /\ posStarts = 0

PosEvent == posEvents < PosEvents /\ posEvents' = posEvents + 1

(***************************************************************************)
(* The game and the user.                                                  *)
(***************************************************************************)
GameWrites ==
    /\ PosEvent
    /\ \E what \in Contents, s \in {0, 1} :
          posFile' = [what |-> what, age |-> 0, seq |-> s, live |-> posLife # "down"]
    /\ quad' = IF quad = "this" THEN "older" ELSE quad
    /\ UNCHANGED <<posLife, posLock, running, othersUp, useFile, feed, lastSeq, tick, inj,
                   reader, posStarts>>

GameRemoves ==
    /\ PosEvent
    /\ posFile.what # "missing"
    /\ posFile' = NoPosFile
    /\ quad' = IF quad = "this" THEN "older" ELSE quad
    /\ UNCHANGED <<posLife, posLock, running, othersUp, useFile, feed, lastSeq, tick, inj,
                   reader, posStarts>>

UserSwitchesFile ==
    /\ PosEvent
    /\ useFile' = ~useFile
    /\ UNCHANGED <<posLife, posLock, running, othersUp, posFile, feed, quad, lastSeq, tick,
                   inj, reader, posStarts>>

Older(n, most) == IF n < most THEN n + 1 ELSE n

TimePasses ==
    /\ tick.pc = "idle" /\ inj.pc = "idle"
    /\ posFile' = [posFile EXCEPT !.age = Older(@, PosStale + 1)]
    /\ feed' = [feed EXCEPT !.since = IF @ = -1 THEN -1 ELSE Older(@, PosGrace),
                            !.hold = IF @ > 0 THEN @ - 1 ELSE 0,
                            !.owed = @ /\ feed.hold > 1]
    /\ UNCHANGED <<posLife, posLock, running, othersUp, useFile, quad, lastSeq, tick, inj,
                   reader, posEvents, posStarts>>

(***************************************************************************)
(* A tick.  TickBegins takes the time, looks the file up and reads it when *)
(* it is active and no injection holds; the read may fail (the game has    *)
(* the file open, six attempts).                                           *)
(***************************************************************************)
TickBegins ==
    /\ posLife = "up" /\ tick.pc = "idle"
    /\ IF useFile
       THEN LET seen == posFile.what # "missing"
                active == seen /\ posFile.age <= PosStale
            IN \E opened \in BOOLEAN :
                 /\ tick' = [IdleTick EXCEPT
                        !.pc = "decide", !.age = IF seen THEN posFile.age ELSE PosStale + 1,
                        !.changed = seen /\ quad = "older", !.live = posFile.live,
                        !.read = /\ active /\ feed.hold = 0 /\ opened
                                 /\ Parses(posFile.what) /\ Plausible(posFile.what),
                        !.seq = posFile.seq]
                 /\ quad' = IF seen THEN "this" ELSE quad
       ELSE tick' = [IdleTick EXCEPT !.pc = "decide", !.age = PosStale + 1] /\ quad' = quad
    /\ UNCHANGED <<posLife, posLock, running, othersUp, posFile, useFile, feed, lastSeq, inj,
                   reader, posEvents, posStarts>>

(* Mutant: the hold is looked at only before the file is read. *)
AcceptsNoSecondLook(t, valid) ==
    t.read /\ (valid \/ t.changed \/ t.age <= PosFresh \/ (lastSeq >= 0 /\ t.seq # lastSeq))

(* Mutant: what was in the file at the start is as good as a new line. *)
AcceptsLeftover(t, valid) == t.read /\ feed.hold = 0

\* acceptRead: while invalid, only a line that is fresh, was rewritten, or has another number.
Accepts(t, valid) ==
    /\ t.read
    /\ valid \/ t.changed \/ t.age <= PosFresh \/ (lastSeq >= 0 /\ t.seq # lastSeq)
    /\ feed.hold = 0

(* Mutant: the grace is not counted. *)
KeepsForever(valid) == valid \/ feed.hold > 0

Keeps(valid) == (valid /\ feed.since \in 0..PosGrace - 1) \/ feed.hold > 0

\* The watcher reads g_coordinatesValid, then the hold and the grace, and makes up its mind.
TickDecides ==
    /\ tick.pc = "decide"
    /\ tick' = [tick EXCEPT !.valid = feed.valid,
                    !.pc = CASE Accepts(tick, feed.valid) -> "take"
                             [] ~Accepts(tick, feed.valid) /\ Keeps(feed.valid) -> "callback"
                             [] OTHER -> "drop"]
    /\ inj' = [inj EXCEPT !.crossed = @ \/ inj.pc # "idle"]
    /\ UNCHANGED <<posLife, posLock, running, othersUp, posFile, useFile, feed, quad, lastSeq,
                   reader, posEvents, posStarts>>

TickTakes ==
    \/ /\ tick.pc = "take"
       /\ feed' = [feed EXCEPT !.sample = "file"]
       /\ tick' = [tick EXCEPT !.pc = "mark"]
       /\ UNCHANGED <<posLife, posLock, running, othersUp, posFile, useFile, quad, lastSeq,
                      inj, reader, posEvents, posStarts>>
    \/ /\ tick.pc = "mark"
       /\ feed' = [feed EXCEPT !.valid = TRUE, !.since = 0, !.source = "file"]
       /\ lastSeq' = tick.seq
       /\ tick' = [tick EXCEPT !.pc = "callback"]
       /\ UNCHANGED <<posLife, posLock, running, othersUp, posFile, useFile, quad, inj, reader,
                      posEvents, posStarts>>

\* Invalid: with the flag, on the edge only, go the source and the time of the last position.
TickDrops ==
    \/ /\ tick.pc = "drop"
       /\ feed' = [feed EXCEPT !.valid = FALSE]
       /\ tick' = [tick EXCEPT !.pc = IF tick.valid THEN "forget" ELSE "callback"]
       /\ UNCHANGED <<posLife, posLock, running, othersUp, posFile, useFile, quad, lastSeq,
                      inj, reader, posEvents, posStarts>>
    \/ /\ tick.pc = "forget"
       /\ feed' = [feed EXCEPT !.source = "none", !.since = -1]
       /\ tick' = [tick EXCEPT !.pc = "callback"]
       /\ UNCHANGED <<posLife, posLock, running, othersUp, posFile, useFile, quad, lastSeq,
                      inj, reader, posEvents, posStarts>>

TickEnds ==
    /\ tick.pc = "callback"
    /\ tick' = IdleTick
    /\ UNCHANGED <<posLife, posLock, running, othersUp, posFile, useFile, feed, quad, lastSeq,
                   inj, reader, posEvents, posStarts>>

(***************************************************************************)
(* pos_inject_sample, on the HTTP thread.  inj.crossed records that the    *)
(* watcher had made up its mind, or did so, while the injection ran.       *)
(***************************************************************************)
InjectBegins ==
    /\ PosEvent
    /\ othersUp /\ inj.pc = "idle"
    /\ running         \* an implausible sample goes no further
    /\ inj' = [pc |-> "sample", crossed |-> tick.pc \in {"take", "mark", "drop", "forget"}]
    /\ UNCHANGED <<posLife, posLock, running, othersUp, posFile, useFile, feed, quad, lastSeq,
                   tick, reader, posStarts>>

InjectStep(at, next, newFeed) ==
    /\ inj.pc = at
    /\ inj' = IF next = "idle" THEN IdleInj ELSE [inj EXCEPT !.pc = next]
    /\ feed' = newFeed
    /\ UNCHANGED <<posLife, posLock, running, othersUp, posFile, useFile, quad, lastSeq, tick,
                   reader, posEvents, posStarts>>

\* The sample under the lock, the flag, the time, the hold, the source; then the wakeup.
InjectContinues ==
    \/ InjectStep("sample", "flag", [feed EXCEPT !.sample = "http"])
    \/ InjectStep("flag", "time", [feed EXCEPT !.valid = TRUE])
    \/ InjectStep("time", "hold", [feed EXCEPT !.since = 0])
    \/ InjectStep("hold", "source", [feed EXCEPT !.hold = PosHold])
    \/ InjectStep("source", "idle", [feed EXCEPT !.source = "http", !.owed = ~inj.crossed])

(***************************************************************************)
(* pos_get_current, on a thread that is stopped before the watcher.        *)
(***************************************************************************)
ReaderChecks ==
    /\ othersUp /\ reader = "idle" /\ running
    /\ reader' = "in"
    /\ UNCHANGED <<posLife, posLock, running, othersUp, posFile, useFile, feed, quad, lastSeq,
                   tick, inj, posEvents, posStarts>>

ReaderCopies ==
    /\ reader = "in"
    /\ reader' = "idle"
    /\ UNCHANGED <<posLife, posLock, running, othersUp, posFile, useFile, feed, quad, lastSeq,
                   tick, inj, posEvents, posStarts>>

(***************************************************************************)
(* Start and stop, on the callback thread.  The start sets the flag before *)
(* it makes the lock and gives both back when the event or the thread      *)
(* cannot be had; no other thread exists yet.                              *)
(***************************************************************************)
PosStart ==
    \/ /\ posLife = "down" /\ posStarts < PosStarts
       /\ posLife' = "starting" /\ running' = TRUE /\ posStarts' = posStarts + 1
       /\ UNCHANGED <<posLock, othersUp, posFile, feed, quad, lastSeq>>
    \/ /\ posLife = "starting"
       /\ \/ posLife' = "up" /\ posLock' = TRUE /\ running' = TRUE
          \/ posLife' = "down" /\ posLock' = FALSE /\ running' = FALSE
       /\ feed' = [feed EXCEPT !.valid = FALSE, !.sample = "none", !.source = "none",
                               !.since = -1]
       /\ quad' = "none" /\ lastSeq' = -1
       /\ posFile' = [posFile EXCEPT !.live = FALSE]
       /\ UNCHANGED <<othersUp, posStarts>>
    \/ /\ posLife = "up" /\ ~othersUp
       /\ othersUp' = TRUE
       /\ UNCHANGED <<posLife, posLock, running, posFile, feed, quad, lastSeq, posStarts>>

(* Mutant: the watcher is stopped without waiting for the other threads. *)
OthersJoinedAtOnce == othersUp' = FALSE
OthersJoined == othersUp' = FALSE /\ inj.pc = "idle" /\ reader = "idle"

PosStopBegins ==
    /\ posLife = "up" /\ othersUp
    /\ OthersJoined
    /\ posLife' = "stopping"
    /\ UNCHANGED <<posLock, running, posFile, useFile, feed, quad, lastSeq, tick, inj,
                   reader, posEvents, posStarts>>

\* After the join of the watcher: the flags, then the lock.
PosStopEnds ==
    \/ /\ posLife = "stopping" /\ running /\ tick.pc = "idle"
       /\ feed' = [feed EXCEPT !.valid = FALSE, !.owed = FALSE]
       /\ running' = FALSE
       /\ UNCHANGED <<posLife, posLock, othersUp, posFile, useFile, quad, lastSeq, tick, inj,
                      reader, posEvents, posStarts>>
    \/ /\ posLife = "stopping" /\ ~running
       /\ posLife' = "down" /\ posLock' = FALSE
       /\ UNCHANGED <<running, othersUp, posFile, useFile, feed, quad, lastSeq, tick, inj,
                      reader, posEvents, posStarts>>

PosNext ==
    \/ GameWrites \/ GameRemoves \/ UserSwitchesFile \/ TimePasses
    \/ TickBegins \/ TickDecides \/ TickTakes \/ TickDrops \/ TickEnds
    \/ InjectBegins \/ InjectContinues \/ ReaderChecks \/ ReaderCopies
    \/ PosStart /\ UNCHANGED <<useFile, tick, inj, reader, posEvents>>
    \/ PosStopBegins \/ PosStopEnds

PosSpec == PosInit /\ [][PosNext]_posvars

(***************************************************************************)
(* The watcher's thread and the HTTP thread run on, and so does the clock, *)
(* which ticks between two of their steps; a stop that began ends.    *)
(***************************************************************************)
PosFairness ==
    /\ WF_posvars(TickBegins)
    /\ WF_posvars(TickDecides \/ TickTakes \/ TickDrops \/ TickEnds)
    /\ WF_posvars(InjectContinues)
    /\ SF_posvars(TimePasses)
    /\ WF_posvars(PosStopEnds)

PosLiveSpec == PosSpec /\ PosFairness

(***************************************************************************)
(* Properties.                                                             *)
(***************************************************************************)
PosTypeOK ==
    /\ posLife \in {"down", "starting", "up", "stopping"}
    /\ {posLock, running, othersUp, useFile} \subseteq BOOLEAN
    /\ posFile \in Files /\ feed \in Feeds
    /\ quad \in {"none", "this", "older"} /\ lastSeq \in {-1, 0, 1}
    /\ tick \in Ticks /\ inj \in Injections
    /\ reader \in {"idle", "in"}

(***************************************************************************)
(* While an injection holds, the local position is the injected one and is *)
(* valid, whatever the file says -- unless the watcher had already made up *)
(* its mind when the injection came (then the next one repairs it).  This  *)
(* is what the second look at the hold in the watcher's tick is for.       *)
(***************************************************************************)
HoldKeepsCoordinates ==
    feed.owed => feed.valid /\ feed.sample = "http" /\ feed.source = "http"

(***************************************************************************)
(* A line of Pos.txt makes invalid coordinates valid only when it is fresh *)
(* or was written after the plugin started: the file of a game that ended  *)
(* long ago never places the player.                                       *)
(***************************************************************************)
NoLeftover ==
    tick.pc = "take" /\ ~tick.valid => tick.live \/ tick.age <= PosFresh

(***************************************************************************)
(* The lock exists whenever a thread is about to enter it, in spite of its *)
(* deletion at every stop: the threads that read or inject are joined      *)
(* before the watcher, and the watcher before the deletion.                *)
(***************************************************************************)
LockAlive ==
    reader = "in" \/ inj.pc = "sample" \/ tick.pc = "take" => posLock

PositionIsSafe == HoldKeepsCoordinates /\ NoLeftover /\ LockAlive

(***************************************************************************)
(* When the game stops writing and posting, the coordinates become invalid *)
(* in the end, in every mode of the file and whatever raced before.        *)
(***************************************************************************)
CoordsValid == feed.valid
CoordinatesExpire == <>[]~CoordsValid
=============================================================================
