---------------------------- MODULE Feeds_proofs ----------------------------
(***************************************************************************)
(* The roads of a position: from the game's file or the HTTP server into   *)
(* the plugin (PositionFeed, HttpListener), and from there to the other    *)
(* players (PositionSend), each proved safe for every value of its         *)
(* constants; and how the file is found (LibraryScan).                     *)
(***************************************************************************)
EXTENDS PositionFeed, HttpListener, PositionSend, LibraryScan, Integers, TLAPS
-----------------------------------------------------------------------------
(* PositionFeed: the file, the injections and the lock.                    *)

\* Which threads can be where in the life of the watcher.
LifeInv ==
    /\ posLife \in {"down", "starting"} => tick.pc = "idle" /\ ~feed.owed
    /\ posLife = "up" => running
    /\ posLife # "up" => ~othersUp
    /\ posLife \in {"up", "stopping"} => posLock
    /\ posLife = "stopping" /\ ~running => tick.pc = "idle" /\ ~feed.owed
    /\ ~othersUp => inj.pc = "idle" /\ reader = "idle"

\* An injection that the watcher has not crossed leaves its mark on all that
\* it has passed, and what is owed after it is held.
Deciding == tick.pc \in {"take", "mark", "drop", "forget"}
HoldInv ==
    /\ feed.owed => /\ feed.valid /\ feed.sample = "http" /\ feed.source = "http"
                    /\ feed.hold > 0 /\ ~Deciding
    /\ inj.pc # "idle" /\ ~inj.crossed =>
         /\ ~Deciding
         /\ inj.pc # "sample" => feed.sample = "http"
         /\ inj.pc \in {"time", "hold", "source"} => feed.valid
         /\ inj.pc = "source" => feed.hold > 0

\* A file that was not written in this life of the watcher is the one whose
\* number it knows, and the one it has seen.
SeenBefore(seq) == posFile.what # "missing" /\ ~posFile.live => posFile.seq = seq
LeftoverInv ==
    /\ posLife \in {"up", "stopping"} =>
         /\ quad = "older" /\ posFile.what # "missing" => posFile.live
         /\ lastSeq >= 0 => SeenBefore(lastSeq)
    /\ tick.pc \in {"decide", "take", "mark"} /\ tick.read =>
         /\ SeenBefore(tick.seq)
         /\ tick.changed => tick.live
         /\ ~tick.live /\ lastSeq >= 0 => tick.seq = lastSeq
    /\ tick.pc \in {"take", "mark"} => tick.read
    /\ tick.pc = "take" /\ ~tick.valid => tick.live \/ tick.age <= PosFresh

PosInv == PosTypeOK /\ LifeInv /\ HoldInv /\ LeftoverInv

LEMMA PosInit_Inv == ASSUME PosAssumption, PosInit PROVE PosInv
<1>1. 0 \in 0..PosHold /\ -1 \in -1..PosGrace /\ 0 \in 0..PosStale + 1
     /\ PosStale + 1 \in 0..PosStale + 1
      /\ PosFresh \in 0..PosStale + 1 /\ PosFresh + 1 \in 0..PosStale + 1
  BY DEF PosAssumption
<1>2. posFile \in Files
  <2>1. NoPosFile \in Files
    BY <1>1 DEF Files, NoPosFile
  <2>2. [what |-> "pos", age |-> PosFresh, seq |-> 1, live |-> FALSE] \in Files
    BY <1>1 DEF Files, Contents
  <2>3. [what |-> "pos", age |-> PosFresh + 1, seq |-> 1, live |-> FALSE] \in Files
    BY <1>1 DEF Files, Contents
  <2>4. QED BY <2>1, <2>2, <2>3 DEF PosInit
<1>3. feed \in Feeds
  BY <1>1 DEF PosInit, Feeds
<1>4. tick \in Ticks /\ inj \in Injections
  BY <1>1 DEF PosInit, Ticks, Injections, IdleTick, IdleInj
<1>5. LifeInv /\ HoldInv /\ LeftoverInv
  BY DEF PosInit, LifeInv, HoldInv, Deciding, LeftoverInv, SeenBefore, NoPosFile, IdleTick, IdleInj
<1>6. QED BY <1>2, <1>3, <1>4, <1>5 DEF PosInv, PosTypeOK, PosInit

LEMMA PosStepInv == ASSUME PosAssumption, PosInv, [PosNext]_posvars PROVE PosInv'
<1>0. PosTypeOK /\ LifeInv /\ HoldInv /\ LeftoverInv
  BY DEF PosInv
<1>. /\ posLife \in {"down", "starting", "up", "stopping"} /\ useFile \in BOOLEAN
     /\ posLock \in BOOLEAN /\ running \in BOOLEAN /\ othersUp \in BOOLEAN
     /\ posFile \in Files /\ feed \in Feeds /\ tick \in Ticks /\ inj \in Injections
  BY <1>0 DEF PosTypeOK
<1>n. /\ 0 \in 0..PosHold /\ PosHold \in 0..PosHold /\ 0 \in -1..PosGrace /\ -1 \in -1..PosGrace
      /\ 0 \in 0..PosStale + 1 /\ PosStale + 1 \in 0..PosStale + 1 /\ PosHold > 0
  BY DEF PosAssumption
<1>1. CASE GameWrites
  <2>1. posFile' \in Files
    BY <1>n, <1>1 DEF GameWrites, PosEvent, Files, Contents, NoPosFile
  <2>2. PosTypeOK'
    BY <1>0, <1>1, <2>1 DEF GameWrites, PosEvent, PosTypeOK
  <2>3. LifeInv'
    BY <1>0, <1>1 DEF GameWrites, PosEvent, LifeInv, Feeds, Ticks, Injections
  <2>4. HoldInv'
    BY <1>0, <1>n, <1>1
       DEF GameWrites, PosEvent, LifeInv, HoldInv, Deciding, Feeds, Ticks, Injections
  <2>5. LeftoverInv'
    BY <1>0, <1>1
       DEF GameWrites, PosEvent, PosTypeOK, LifeInv, LeftoverInv, SeenBefore, Files, Ticks, NoPosFile
  <2>6. QED BY <2>2, <2>3, <2>4, <2>5 DEF PosInv
<1>2. CASE GameRemoves
  <2>1. posFile' \in Files
    BY <1>n, <1>2 DEF GameRemoves, PosEvent, Files, Contents, NoPosFile
  <2>2. PosTypeOK'
    BY <1>0, <1>2, <2>1 DEF GameRemoves, PosEvent, PosTypeOK
  <2>3. LifeInv'
    BY <1>0, <1>2 DEF GameRemoves, PosEvent, LifeInv, Feeds, Ticks, Injections
  <2>4. HoldInv'
    BY <1>0, <1>n, <1>2
       DEF GameRemoves, PosEvent, LifeInv, HoldInv, Deciding, Feeds, Ticks, Injections
  <2>5. LeftoverInv'
    BY <1>0, <1>2
       DEF GameRemoves, PosEvent, PosTypeOK, LifeInv, LeftoverInv, SeenBefore, Files, Ticks,
           NoPosFile
  <2>6. QED BY <2>2, <2>3, <2>4, <2>5 DEF PosInv
<1>3. CASE UserSwitchesFile
  <2>1. PosTypeOK'
    BY <1>0, <1>3 DEF UserSwitchesFile, PosTypeOK
  <2>2. LifeInv'
    BY <1>0, <1>3 DEF UserSwitchesFile, LifeInv, Feeds, Ticks, Injections
  <2>3. HoldInv'
    BY <1>0, <1>n, <1>3 DEF UserSwitchesFile, LifeInv, HoldInv, Deciding, Feeds, Ticks, Injections
  <2>4. LeftoverInv'
    BY <1>0, <1>3
       DEF UserSwitchesFile, PosTypeOK, LifeInv, LeftoverInv, SeenBefore, Files, Ticks, NoPosFile
  <2>5. QED BY <2>1, <2>2, <2>3, <2>4 DEF PosInv
<1>4. CASE TimePasses
  <2>1. posFile' \in Files
    BY <1>n, <1>4 DEF TimePasses, Older, Files, Contents, NoPosFile
  <2>2. feed' \in Feeds
    <3>1. /\ feed.since \in -1..PosGrace /\ feed.hold \in 0..PosHold /\ feed.owed \in BOOLEAN
      BY DEF Feeds
    <3>2. (IF feed.since = -1 THEN -1 ELSE Older(feed.since, PosGrace)) \in -1..PosGrace
      BY <3>1 DEF Older, PosAssumption
    <3>3. (IF feed.hold > 0 THEN feed.hold - 1 ELSE 0) \in 0..PosHold
      BY <3>1 DEF PosAssumption
    <3>4. (feed.owed /\ feed.hold > 1) \in BOOLEAN
      OBVIOUS
    <3>5. QED BY <1>4, <3>2, <3>3, <3>4 DEF TimePasses, Feeds
  <2>3. PosTypeOK'
    BY <1>0, <1>4, <2>1, <2>2 DEF TimePasses, Older, PosTypeOK
  <2>4. LifeInv'
    BY <1>0, <1>4 DEF TimePasses, Older, LifeInv, Feeds, Ticks, Injections
  <2>5. HoldInv'
    <3>1. feed.hold \in 0..PosHold
      BY DEF Feeds
    <3>2. /\ feed'.valid = feed.valid /\ feed'.sample = feed.sample /\ feed'.source = feed.source
          /\ feed'.owed => feed.owed /\ feed.hold > 1
          /\ feed'.hold = IF feed.hold > 0 THEN feed.hold - 1 ELSE 0
      BY <1>4 DEF TimePasses, Feeds
    <3>3. feed'.owed => feed'.hold > 0
      BY <3>1, <3>2 DEF PosAssumption
    <3>4. tick' = tick /\ inj' = inj /\ inj.pc = "idle"
      BY <1>4 DEF TimePasses
    <3>5. QED BY <1>0, <3>2, <3>3, <3>4 DEF HoldInv, Deciding
  <2>6. LeftoverInv'
    BY <1>0, <1>4
       DEF TimePasses, Older, PosTypeOK, LifeInv, LeftoverInv, SeenBefore, Files, Ticks, NoPosFile
  <2>7. QED BY <2>3, <2>4, <2>5, <2>6 DEF PosInv
<1>5. CASE TickBegins
  <2>1. tick' \in Ticks
    <3>1. posFile.age \in 0..PosStale + 1 /\ posFile.seq \in {0, 1} /\ posFile.live \in BOOLEAN
      BY DEF Files
    <3>2. CASE useFile
      <4> DEFINE seen == posFile.what # "missing"
                 age  == IF seen THEN posFile.age ELSE PosStale + 1
                 changed == seen /\ quad = "older"
                 read(opened) == /\ seen /\ posFile.age <= PosStale /\ feed.hold = 0 /\ opened
                                 /\ Parses(posFile.what) /\ Plausible(posFile.what)
      <4>1. PICK opened \in BOOLEAN :
              tick' = [IdleTick EXCEPT
                         !.pc = "decide", !.age = age, !.changed = changed,
                         !.live = posFile.live, !.read = read(opened), !.seq = posFile.seq]
        BY <1>5, <3>2 DEF TickBegins
      <4>2. read(opened) \in BOOLEAN /\ changed \in BOOLEAN
        OBVIOUS
      <4>3. age \in 0..PosStale + 1
        BY <1>n, <3>1
      <4> HIDE DEF age, changed, read
      <4>4. QED BY <3>1, <4>1, <4>2, <4>3 DEF IdleTick, Ticks
    <3>3. CASE ~useFile
      BY <1>n, <1>5, <3>3 DEF TickBegins, IdleTick, Ticks
    <3>4. QED BY <3>2, <3>3
  <2>2. PosTypeOK'
    BY <1>0, <1>5, <2>1 DEF TickBegins, IdleTick, Parses, Plausible, PosTypeOK, Ticks
  <2>3. LifeInv'
    BY <1>0, <1>5 DEF TickBegins, IdleTick, Parses, Plausible, LifeInv, Feeds, Ticks, Injections
  <2>4. HoldInv'
    BY <1>0, <1>n, <1>5
       DEF TickBegins, IdleTick, Parses, Plausible, LifeInv, HoldInv, Deciding, Feeds, Ticks,
           Injections
  <2>5. LeftoverInv'
    BY <1>0, <1>5
       DEF TickBegins, IdleTick, Parses, Plausible, PosTypeOK, LifeInv, LeftoverInv, SeenBefore,
           Files, Ticks, NoPosFile
  <2>6. QED BY <2>2, <2>3, <2>4, <2>5 DEF PosInv
<1>6. CASE TickDecides
  <2>1. tick' \in Ticks
    <3>1. feed.valid \in BOOLEAN
      BY DEF Feeds
    <3>2. PICK pc \in {"take", "callback", "drop"}
         : tick' = [tick EXCEPT !.valid = feed.valid, !.pc = pc]
      <4>1. (CASE Accepts(tick, feed.valid) -> "take"
               [] ~Accepts(tick, feed.valid) /\ Keeps(feed.valid) -> "callback"
               [] OTHER -> "drop") \in {"take", "callback", "drop"}
        OBVIOUS
      <4>2. QED BY <1>6, <4>1 DEF TickDecides
    <3>3. QED BY <3>1, <3>2 DEF Ticks
  <2>2. inj' \in Injections
    BY <1>n, <1>6 DEF TickDecides, Accepts, Keeps, Injections, IdleInj
  <2>3. PosTypeOK'
    BY <1>0, <1>6, <2>1, <2>2 DEF TickDecides, Accepts, Keeps, PosTypeOK, Ticks
  <2>4. LifeInv'
    BY <1>0, <1>6 DEF TickDecides, Accepts, Keeps, LifeInv, Feeds, Ticks, Injections
  <2>5. HoldInv'
    BY <1>0, <1>n, <1>6
       DEF TickDecides, Accepts, Keeps, LifeInv, HoldInv, Deciding, Feeds, Ticks, Injections
  <2>6. LeftoverInv'
    BY <1>0, <1>6
       DEF TickDecides, Accepts, Keeps, PosTypeOK, LifeInv, LeftoverInv, SeenBefore, Files,
           Ticks, NoPosFile
  <2>7. QED BY <2>3, <2>4, <2>5, <2>6 DEF PosInv
<1>7. CASE TickTakes
  <2>1. feed' \in Feeds
    BY <1>n, <1>7 DEF TickTakes, Feeds
  <2>2. tick' \in Ticks
    BY <1>n, <1>7 DEF TickTakes, Ticks, Files, IdleTick
  <2>3. PosTypeOK'
    BY <1>0, <1>7, <2>1, <2>2 DEF TickTakes, PosTypeOK, Ticks
  <2>4. LifeInv'
    BY <1>0, <1>7 DEF TickTakes, LifeInv, Feeds, Ticks, Injections
  <2>5. HoldInv'
    BY <1>0, <1>n, <1>7 DEF TickTakes, LifeInv, HoldInv, Deciding, Feeds, Ticks, Injections
  <2>6. LeftoverInv'
    BY <1>0, <1>7
       DEF TickTakes, PosTypeOK, LifeInv, LeftoverInv, SeenBefore, Files, Ticks, NoPosFile
  <2>7. QED BY <2>3, <2>4, <2>5, <2>6 DEF PosInv
<1>8. CASE TickDrops
  <2>1. feed' \in Feeds
    BY <1>n, <1>8 DEF TickDrops, Feeds
  <2>2. tick' \in Ticks
    BY <1>n, <1>8 DEF TickDrops, Ticks, Files, IdleTick
  <2>3. PosTypeOK'
    BY <1>0, <1>8, <2>1, <2>2 DEF TickDrops, PosTypeOK, Ticks
  <2>4. LifeInv'
    BY <1>0, <1>8 DEF TickDrops, LifeInv, Feeds, Ticks, Injections
  <2>5. HoldInv'
    BY <1>0, <1>n, <1>8 DEF TickDrops, LifeInv, HoldInv, Deciding, Feeds, Ticks, Injections
  <2>6. LeftoverInv'
    BY <1>0, <1>8
       DEF TickDrops, PosTypeOK, LifeInv, LeftoverInv, SeenBefore, Files, Ticks, NoPosFile
  <2>7. QED BY <2>3, <2>4, <2>5, <2>6 DEF PosInv
<1>9. CASE TickEnds
  <2>1. tick' \in Ticks
    BY <1>n, <1>9 DEF TickEnds, IdleTick, Ticks, Files, IdleTick
  <2>2. PosTypeOK'
    BY <1>0, <1>9, <2>1 DEF TickEnds, IdleTick, PosTypeOK, Ticks
  <2>3. LifeInv'
    BY <1>0, <1>9 DEF TickEnds, IdleTick, LifeInv, Feeds, Ticks, Injections
  <2>4. HoldInv'
    BY <1>0, <1>n, <1>9 DEF TickEnds, IdleTick, LifeInv, HoldInv, Deciding, Feeds, Ticks, Injections
  <2>5. LeftoverInv'
    BY <1>0, <1>9
       DEF TickEnds, IdleTick, PosTypeOK, LifeInv, LeftoverInv, SeenBefore, Files, Ticks, NoPosFile
  <2>6. QED BY <2>2, <2>3, <2>4, <2>5 DEF PosInv
<1>10. CASE InjectBegins
  <2>1. inj' \in Injections
    BY <1>n, <1>10 DEF InjectBegins, PosEvent, Injections, IdleInj
  <2>2. PosTypeOK'
    BY <1>0, <1>10, <2>1 DEF InjectBegins, PosEvent, PosTypeOK
  <2>3. LifeInv'
    BY <1>0, <1>10 DEF InjectBegins, PosEvent, LifeInv, Feeds, Ticks, Injections
  <2>4. HoldInv'
    BY <1>0, <1>n, <1>10
       DEF InjectBegins, PosEvent, LifeInv, HoldInv, Deciding, Feeds, Ticks, Injections
  <2>5. LeftoverInv'
    BY <1>0, <1>10
       DEF InjectBegins, PosEvent, PosTypeOK, LifeInv, LeftoverInv, SeenBefore, Files, Ticks,
           NoPosFile
  <2>6. QED BY <2>2, <2>3, <2>4, <2>5 DEF PosInv
<1>11. CASE InjectContinues
  <2>1. feed' \in Feeds
    BY <1>n, <1>11 DEF InjectContinues, InjectStep, IdleInj, Feeds
  <2>2. inj' \in Injections
    <3>1. ASSUME NEW at, NEW next \in {"idle", "flag", "time", "hold", "source"}, NEW f,
                 InjectStep(at, next, f)
          PROVE  inj' \in Injections
      BY <3>1 DEF InjectStep, Injections, IdleInj
    <3>2. QED BY <1>11, <3>1 DEF InjectContinues
  <2>3. PosTypeOK'
    BY <1>0, <1>11, <2>1, <2>2 DEF InjectContinues, InjectStep, IdleInj, PosTypeOK
  <2>4. LifeInv'
    BY <1>0, <1>11 DEF InjectContinues, InjectStep, IdleInj, LifeInv, Feeds, Ticks, Injections
  <2>5. HoldInv'
    <3>1. CASE InjectStep("sample", "flag", [feed EXCEPT !.sample = "http"])
      BY <1>0, <3>1 DEF InjectStep, HoldInv, Deciding, Feeds, Injections
    <3>2. CASE InjectStep("flag", "time", [feed EXCEPT !.valid = TRUE])
      BY <1>0, <3>2 DEF InjectStep, HoldInv, Deciding, Feeds, Injections
    <3>3. CASE InjectStep("time", "hold", [feed EXCEPT !.since = 0])
      BY <1>0, <3>3 DEF InjectStep, HoldInv, Deciding, Feeds, Injections
    <3>4. CASE InjectStep("hold", "source", [feed EXCEPT !.hold = PosHold])
      BY <1>0, <1>n, <3>4 DEF InjectStep, HoldInv, Deciding, Feeds, Injections
    <3>5. CASE InjectStep("source", "idle", [feed EXCEPT !.source = "http", !.owed = ~inj.crossed])
      BY <1>0, <3>5 DEF InjectStep, IdleInj, HoldInv, Deciding, Feeds, Injections
    <3>6. QED BY <1>11, <3>1, <3>2, <3>3, <3>4, <3>5 DEF InjectContinues
  <2>6. LeftoverInv'
    BY <1>0, <1>11
       DEF InjectContinues, InjectStep, IdleInj, PosTypeOK, LifeInv, LeftoverInv, SeenBefore,
           Files, Ticks, NoPosFile
  <2>7. QED BY <2>3, <2>4, <2>5, <2>6 DEF PosInv
<1>12. CASE ReaderChecks
  <2>1. PosTypeOK'
    BY <1>0, <1>12 DEF ReaderChecks, PosTypeOK
  <2>2. LifeInv'
    BY <1>0, <1>12 DEF ReaderChecks, LifeInv, Feeds, Ticks, Injections
  <2>3. HoldInv'
    BY <1>0, <1>n, <1>12 DEF ReaderChecks, LifeInv, HoldInv, Deciding, Feeds, Ticks, Injections
  <2>4. LeftoverInv'
    BY <1>0, <1>12
       DEF ReaderChecks, PosTypeOK, LifeInv, LeftoverInv, SeenBefore, Files, Ticks, NoPosFile
  <2>5. QED BY <2>1, <2>2, <2>3, <2>4 DEF PosInv
<1>13. CASE ReaderCopies
  <2>1. PosTypeOK'
    BY <1>0, <1>13 DEF ReaderCopies, PosTypeOK
  <2>2. LifeInv'
    BY <1>0, <1>13 DEF ReaderCopies, LifeInv, Feeds, Ticks, Injections
  <2>3. HoldInv'
    BY <1>0, <1>n, <1>13 DEF ReaderCopies, LifeInv, HoldInv, Deciding, Feeds, Ticks, Injections
  <2>4. LeftoverInv'
    BY <1>0, <1>13
       DEF ReaderCopies, PosTypeOK, LifeInv, LeftoverInv, SeenBefore, Files, Ticks, NoPosFile
  <2>5. QED BY <2>1, <2>2, <2>3, <2>4 DEF PosInv
<1>14. CASE PosStart /\ UNCHANGED <<useFile, tick, inj, reader, posEvents>>
  <2>1. posFile' \in Files
    BY <1>n, <1>14 DEF PosStart, Files, Contents, NoPosFile
  <2>2. feed' \in Feeds
    BY <1>n, <1>14 DEF PosStart, Feeds
  <2>3. PosTypeOK'
    BY <1>0, <1>14, <2>1, <2>2 DEF PosStart, PosTypeOK
  <2>4. LifeInv'
    <3>1. feed'.owed = feed.owed
      BY <1>14 DEF PosStart, Feeds
    <3>2. CASE posLife = "down" /\ posLife' = "starting"
      BY <1>0, <1>14, <3>1, <3>2 DEF PosStart, LifeInv
    <3>3. CASE posLife = "starting" /\ posLife' = "up"
      BY <1>0, <1>14, <3>1, <3>3 DEF PosStart, LifeInv
    <3>4. CASE posLife = "starting" /\ posLife' = "down"
      BY <1>0, <1>14, <3>1, <3>4 DEF PosStart, LifeInv
    <3>5. CASE posLife = "up" /\ posLife' = "up"
      BY <1>0, <1>14, <3>1, <3>5 DEF PosStart, LifeInv
    <3>6. QED BY <1>14, <3>2, <3>3, <3>4, <3>5 DEF PosStart
  <2>5. HoldInv'
    BY <1>0, <1>n, <1>14 DEF PosStart, LifeInv, HoldInv, Deciding, Feeds, Ticks, Injections
  <2>6. LeftoverInv'
    BY <1>0, <1>14
       DEF PosStart, PosTypeOK, LifeInv, LeftoverInv, SeenBefore, Files, Ticks, NoPosFile
  <2>7. QED BY <2>3, <2>4, <2>5, <2>6 DEF PosInv
<1>15. CASE PosStopBegins
  <2>1. PosTypeOK'
    BY <1>0, <1>15 DEF PosStopBegins, OthersJoined, PosTypeOK
  <2>2. LifeInv'
    BY <1>0, <1>15 DEF PosStopBegins, OthersJoined, LifeInv
  <2>3. HoldInv'
    BY <1>0, <1>n, <1>15
       DEF PosStopBegins, OthersJoined, LifeInv, HoldInv, Deciding, Feeds, Ticks, Injections
  <2>4. LeftoverInv'
    BY <1>0, <1>15
       DEF PosStopBegins, OthersJoined, PosTypeOK, LifeInv, LeftoverInv, SeenBefore, Files,
           Ticks, NoPosFile
  <2>5. QED BY <2>1, <2>2, <2>3, <2>4 DEF PosInv
<1>16. CASE PosStopEnds
  <2>1. feed' \in Feeds
    BY <1>n, <1>16 DEF PosStopEnds, Feeds
  <2>2. PosTypeOK'
    BY <1>0, <1>16, <2>1 DEF PosStopEnds, PosTypeOK
  <2>3. LifeInv'
    <3>1. CASE running
      <4>1. ~feed'.owed
        BY <1>16, <3>1 DEF PosStopEnds, Feeds
      <4>2. QED BY <1>0, <1>16, <3>1, <4>1 DEF PosStopEnds, LifeInv
    <3>2. CASE ~running
      BY <1>0, <1>16, <3>2 DEF PosStopEnds, LifeInv
    <3>3. QED BY <3>1, <3>2
  <2>4. HoldInv'
    BY <1>0, <1>n, <1>16 DEF PosStopEnds, LifeInv, HoldInv, Deciding, Feeds, Ticks, Injections
  <2>5. LeftoverInv'
    BY <1>0, <1>16
       DEF PosStopEnds, PosTypeOK, LifeInv, LeftoverInv, SeenBefore, Files, Ticks, NoPosFile
  <2>6. QED BY <2>2, <2>3, <2>4, <2>5 DEF PosInv
<1>17. CASE UNCHANGED posvars
  BY <1>0, <1>17 DEF posvars, PosInv, PosTypeOK, LifeInv, HoldInv, Deciding, LeftoverInv, SeenBefore
<1>18. QED BY <1>1, <1>2, <1>3, <1>4, <1>5, <1>6, <1>7, <1>8, <1>9, <1>10, <1>11, <1>12, <1>13,
   <1>14, <1>15, <1>16, <1>17 DEF PosNext

(* The local position is safe for any thresholds and any number of         *)
(* injections, writes of the game and starts: an injection holds, an old   *)
(* file never places the player, the lock outlives who enters it.          *)
THEOREM LocalPositionIsSafe ==
  ASSUME PosAssumption
  PROVE  PosSpec => [](PosTypeOK /\ PositionIsSafe)
<1>1. PosInit => PosInv
  BY PosInit_Inv
<1>2. PosInv /\ [PosNext]_posvars => PosInv'
  BY PosStepInv
<1>3. PosInv => PosTypeOK /\ PositionIsSafe
  BY DEF PosInv, PosTypeOK, LifeInv, HoldInv, LeftoverInv, PositionIsSafe, HoldKeepsCoordinates,
     NoLeftover,
         LockAlive, Deciding
<1>4. QED BY <1>1, <1>2, <1>3, PTL DEF PosSpec
-----------------------------------------------------------------------------
(* HttpListener: sockets, requests, errors.                                *)

\* The three places that hold a socket, and where each is empty.
Holds(n) == n # 0 /\ (n = hlSock \/ n = hlHand \/ n = hlOwner.hand)
Serving == {"header", "body", "password", "occlusion", "inject", "leave"}

SocketInv ==
    /\ ~hlTwice
    /\ \A n \in HlSockets : n \in hlOpen <=> Holds(n)
    /\ hlSock # 0 => hlSock # hlHand /\ hlSock # hlOwner.hand
    /\ hlHand # 0 => hlHand # hlOwner.hand
    /\ hlHand # 0 => hlPc \in {"publish", "dropping"} \cup Serving
    /\ hlPc \in {"open", "publish"} => hlSock = 0
    /\ hlOwner.hand # 0 => hlOwner.pc \in {"closing", "closing again"}

\* Who runs when, and what the stop leaves.
OwnerInv ==
    /\ hlPc = "none" <=> hlOwner.pc \in {"down", "starting", "joined", "closing again"}
    /\ hlOwner.pc \in {"down", "closing again"} => hlSock = 0

\* A request on its way through the handler.
RequestInv ==
    /\ hlPc = "header" => hlLeft > 0
    /\ hlPc = "password" => hlReq.body = "whole"
    /\ hlPc \in {"occlusion", "inject"} => ~hlReq.pw
    /\ hlPw.what # "half" /\ ~hlLogged
    /\ ~hlStale /\ hlPos <= hlOcc /\ hlOcc <= hlClients
    /\ hlPc = "inject" /\ hlReq.content # "text" => hlOcc = hlClients
    /\ hlThr.events = hlThr.told + hlThr.suppressed

HlInv == HlTypeOK /\ SocketInv /\ OwnerInv /\ RequestInv

LEMMA RequestsOnTheirWay ==
  ASSUME NEW r \in RequestsHeld
  PROVE  /\ r.pw \in BOOLEAN
         /\ r.cl = "absent" => r.body = "whole"
         /\ [r EXCEPT !.pw = FALSE] \in RequestsHeld /\ ~[r EXCEPT !.pw = FALSE].pw
         /\ [r EXCEPT !.pw = FALSE].body = r.body
         /\ [r EXCEPT !.pw = FALSE].content = r.content
         /\ r.body = "late" => \A b \in {"late", "whole"} : [r EXCEPT !.body = b] \in RequestsHeld
BY DEF RequestsHeld

LEMMA RequestsAreHeld == NoRequest \in RequestsHeld /\ HlRequests \subseteq RequestsHeld
<1>1. NoRequest \in RequestsHeld
  BY DEF RequestsHeld, NoRequest, HlTell
<1>2. ASSUME NEW k \in {"drip", "dead", "foreign", "health", "other"}
      PROVE  HlTell(k, "absent", "whole", "pos", FALSE) \in RequestsHeld
  BY DEF RequestsHeld, HlTell
<1>3. ASSUME NEW c \in {"absent", "bad", "big"}
      PROVE  HlTell("post", c, "whole", "pos", TRUE) \in RequestsHeld
  BY DEF RequestsHeld, HlTell
<1>4. ASSUME NEW r \in HlRequests PROVE r \in RequestsHeld
  <2>1. CASE \E k \in {"drip", "dead", "foreign", "health", "other"} :
               r = HlTell(k, "absent", "whole", "pos", FALSE)
    BY <1>2, <2>1
  <2>2. CASE \E c \in {"absent", "bad", "big"} : r = HlTell("post", c, "whole", "pos", TRUE)
    BY <1>3, <2>2
  <2>3. CASE r \in [kind : {"post"}, cl : {"ok"}, body : {"whole", "late", "short"},
                    content : {"pos", "zero", "text"}, pw : BOOLEAN]
    BY <2>3 DEF RequestsHeld
  <2>4. QED BY <2>1, <2>2, <2>3 DEF HlRequests
<1>5. QED BY <1>1, <1>4

LEMMA ErrorIsCounted ==
  ASSUME NEW t \in Throttles, t.events = t.told + t.suppressed
  PROVE  /\ ThrottlePass(t) \in Throttles
         /\ ThrottlePass(t).events = ThrottlePass(t).told + ThrottlePass(t).suppressed
<1>1. t.suppressed \in Nat /\ t.events \in Nat /\ t.told \in Nat
  BY DEF Throttles
<1>2. CASE t.armed /\ t.quiet
  <2>1. ThrottlePass(t) = [t EXCEPT !.suppressed = @ + 1, !.events = @ + 1]
    BY <1>2 DEF ThrottlePass
  <2>2. ThrottlePass(t) \in Throttles
    <3>1. /\ t.suppressed + 1 \in Nat /\ t.events + 1 \in Nat /\ t.told + 1 + t.suppressed \in Nat
          /\ 0 \in Nat
      BY <1>1
    <3>2. QED BY <2>1, <3>1 DEF Throttles
  <2>3. /\ ThrottlePass(t).suppressed = t.suppressed + 1 /\ ThrottlePass(t).events = t.events + 1
        /\ ThrottlePass(t).told = t.told
    BY <2>1 DEF Throttles
  <2>4. QED BY <1>1, <2>2, <2>3
<1>3. CASE ~(t.armed /\ t.quiet)
  <2>1. ThrottlePass(t) = [t EXCEPT !.armed = TRUE, !.quiet = TRUE, !.suppressed = 0,
                                    !.events = @ + 1, !.told = @ + 1 + t.suppressed]
    BY <1>3 DEF ThrottlePass
  <2>2. ThrottlePass(t) \in Throttles
    <3>1. /\ t.suppressed + 1 \in Nat /\ t.events + 1 \in Nat /\ t.told + 1 + t.suppressed \in Nat
          /\ 0 \in Nat
      BY <1>1
    <3>2. QED BY <2>1, <3>1 DEF Throttles
  <2>3. /\ ThrottlePass(t).suppressed = 0 /\ ThrottlePass(t).events = t.events + 1
        /\ ThrottlePass(t).told = t.told + 1 + t.suppressed
    BY <2>1 DEF Throttles
  <2>4. QED BY <1>1, <2>2, <2>3
<1>4. QED BY <1>2, <1>3

(* A request that is not touched, and a thread that is not in the handler. *)
LEMMA RequestRests ==
  ASSUME RequestInv, UNCHANGED hlRequest,
         hlPc' = hlPc \/ hlPc' \notin {"header", "password", "occlusion", "inject"}
  PROVE  RequestInv'
BY DEF RequestInv, hlRequest

LEMMA StreakBound == ASSUME HlAssumption, NEW n \in 0..HlStreakMax
     PROVE Streak(n) \in 0..HlStreakMax
BY DEF HlAssumption, Streak

LEMMA HlInitInv == ASSUME HlAssumption, HlInit PROVE HlInv
<1>1. hlOwner \in Owners /\ hlStreak \in Streaks /\ hlPw \in Passwords /\ hlThr \in Throttles
  BY DEF HlAssumption, HlInit, Owners, Streaks, Passwords, Throttles
<1>2. HlTypeOK
  <2>1. hlReq \in RequestsHeld
    BY RequestsAreHeld DEF HlInit
  <2>2. 0 \in 0..HlDeadline
    BY DEF HlAssumption
  <2>3. QED BY <1>1, <2>1, <2>2 DEF HlInit, HlTypeOK
<1>3. SocketInv /\ OwnerInv /\ RequestInv
  BY DEF HlInit, SocketInv, OwnerInv, RequestInv, Holds, Serving
<1>4. QED BY <1>2, <1>3 DEF HlInv

LEMMA HlStepInv == ASSUME HlAssumption, HlInv, [HlNext]_hlvars PROVE HlInv'
<1>0. HlTypeOK /\ SocketInv /\ OwnerInv /\ RequestInv
  BY DEF HlInv
<1>. /\ hlOwner \in Owners /\ hlStreak \in Streaks /\ hlPw \in Passwords /\ hlThr \in Throttles
     /\ hlReq \in RequestsHeld
  BY <1>0 DEF HlTypeOK
<1>a. /\ 0 \notin HlSockets
      /\ hlStreak.fail \in 0..HlStreakMax /\ hlStreak.transient \in 0..HlTransientMax - 1
      /\ 0 \in 0..HlTransientMax - 1 /\ 0 \in 0..HlPwTtl + 1 /\ 0 \in 0..HlStreakMax
      /\ 0 \in 0..HlDeadline /\ HlDeadline \in 0..HlDeadline /\ HlDeadline > 0
      /\ hlOwner.hand \in HlSockets \cup {0}
  <2>1. /\ 0 \notin HlSockets /\ HlTransientMax \in Nat \ {0} /\ HlPwTtl \in Nat \ {0}
        /\ HlStreakMax \in Nat \ {0} /\ HlDeadline \in Nat \ {0}
    BY DEF HlAssumption
  <2>2. hlStreak.fail \in 0..HlStreakMax /\ hlStreak.transient \in 0..HlTransientMax - 1
    BY DEF Streaks
  <2>3. hlOwner.hand \in HlSockets \cup {0}
    BY DEF Owners
  <2>4. QED BY <2>1, <2>2, <2>3
<1>b. hlOcc \in Nat /\ hlPos \in Nat /\ hlClients \in Nat /\ hlLeft \in 0..HlDeadline
  BY <1>0 DEF HlTypeOK
<1>1. CASE TopOfLoop
  <2>1. HlTypeOK'
    BY <1>0, <1>a, <1>1 DEF TopOfLoop, ThreadGoes, hlThread, hlRequest, HlTypeOK
  <2>2. SocketInv'
    BY <1>0, <1>a, <1>1
       DEF TopOfLoop, ThreadGoes, hlThread, hlRequest, HlTypeOK, SocketInv, OwnerInv, Holds,
           Serving
  <2>3. OwnerInv'
    BY <1>0, <1>1 DEF TopOfLoop, ThreadGoes, hlThread, hlRequest, SocketInv, OwnerInv
  <2>4. RequestInv'
    BY <1>0, <1>1 DEF TopOfLoop, ThreadGoes, hlThread, hlRequest, HlTypeOK, RequestInv, OwnerInv
  <2>5. QED BY <2>1, <2>2, <2>3, <2>4 DEF HlInv
<1>2. CASE OpenListenSocket
  <2>1. hlStreak' \in Streaks
    BY <1>0, <1>2, <1>a, StreakBound
       DEF OpenListenSocket, CallFails, hlThread, hlRequest, AcceptError, HlAssumption, Streaks
  <2>2. HlTypeOK'
    BY <1>0, <1>a, <1>2, <2>1 DEF OpenListenSocket, CallFails, hlThread, hlRequest, HlTypeOK
  <2>3. SocketInv'
    BY <1>0, <1>a, <1>2
       DEF OpenListenSocket, CallFails, hlThread, hlRequest, HlTypeOK, SocketInv, OwnerInv, Holds,
           Serving
  <2>4. OwnerInv'
    BY <1>0, <1>2 DEF OpenListenSocket, CallFails, hlThread, hlRequest, SocketInv, OwnerInv
  <2>5. RequestInv'
    BY <1>0, <1>2
       DEF OpenListenSocket, CallFails, hlThread, hlRequest, HlTypeOK, RequestInv, OwnerInv
  <2>6. QED BY <2>2, <2>3, <2>4, <2>5 DEF HlInv
<1>3. CASE PublishSocket
  <2>1. HlTypeOK'
    BY <1>0, <1>a, <1>3 DEF PublishSocket, hlThread, hlRequest, HlTypeOK
  <2>2. SocketInv'
    BY <1>0, <1>a, <1>3
       DEF PublishSocket, hlThread, hlRequest, HlTypeOK, SocketInv, OwnerInv, Holds, Serving
  <2>3. OwnerInv'
    BY <1>0, <1>3 DEF PublishSocket, hlThread, hlRequest, SocketInv, OwnerInv
  <2>4. RequestInv'
    BY <1>0, <1>3 DEF PublishSocket, hlThread, hlRequest, HlTypeOK, RequestInv, OwnerInv
  <2>5. QED BY <2>1, <2>2, <2>3, <2>4 DEF HlInv
<1>4. CASE RecheckStop
  <2>1. HlTypeOK'
    BY <1>0, <1>a, <1>4 DEF RecheckStop, ThreadGoes, hlThread, hlRequest, HlTypeOK
  <2>2. SocketInv'
    BY <1>0, <1>a, <1>4
       DEF RecheckStop, ThreadGoes, hlThread, hlRequest, HlTypeOK, SocketInv, OwnerInv, Holds,
           Serving
  <2>3. OwnerInv'
    BY <1>0, <1>4 DEF RecheckStop, ThreadGoes, hlThread, hlRequest, SocketInv, OwnerInv
  <2>4. RequestInv'
    BY <1>0, <1>4 DEF RecheckStop, ThreadGoes, hlThread, hlRequest, HlTypeOK, RequestInv, OwnerInv
  <2>5. QED BY <2>1, <2>2, <2>3, <2>4 DEF HlInv
<1>5. CASE AcceptWoken
  <2>1. hlStreak' \in Streaks
    BY <1>0, <1>5, <1>a, StreakBound
       DEF AcceptWoken, AcceptError, hlThread, hlRequest, HlAssumption, Streaks
  <2>2. HlTypeOK'
    BY <1>0, <1>a, <1>5, <2>1 DEF AcceptWoken, AcceptError, hlThread, hlRequest, HlTypeOK
  <2>3. SocketInv'
    BY <1>0, <1>a, <1>5
       DEF AcceptWoken, AcceptError, hlThread, hlRequest, HlTypeOK, SocketInv, OwnerInv, Holds,
           Serving
  <2>4. OwnerInv'
    BY <1>0, <1>5 DEF AcceptWoken, AcceptError, hlThread, hlRequest, SocketInv, OwnerInv
  <2>5. RequestInv'
    BY <1>0, <1>5 DEF AcceptWoken, AcceptError, hlThread, hlRequest, HlTypeOK, RequestInv, OwnerInv
  <2>6. QED BY <2>2, <2>3, <2>4, <2>5 DEF HlInv
<1>6. CASE AcceptFails
  <2>1. hlStreak' \in Streaks
    BY <1>0, <1>6, <1>a, StreakBound
       DEF AcceptFails, AcceptError, CallFails, hlThread, hlRequest, HlAssumption, Streaks
  <2>2. HlTypeOK'
    BY <1>0, <1>a, <1>6, <2>1 DEF AcceptFails, AcceptError, CallFails, hlThread, hlRequest, HlTypeOK
  <2>3. SocketInv'
    BY <1>0, <1>a, <1>6
       DEF AcceptFails, AcceptError, CallFails, hlThread, hlRequest, HlTypeOK, SocketInv, OwnerInv,
           Holds, Serving
  <2>4. OwnerInv'
    BY <1>0, <1>6 DEF AcceptFails, AcceptError, CallFails, hlThread, hlRequest, SocketInv, OwnerInv
  <2>5. RequestInv'
    BY <1>0, <1>6
       DEF AcceptFails, AcceptError, CallFails, hlThread, hlRequest, HlTypeOK, RequestInv, OwnerInv
  <2>6. QED BY <2>2, <2>3, <2>4, <2>5 DEF HlInv
<1>7. CASE AcceptClient
  <2>1. hlStreak' \in Streaks
    BY <1>0, <1>7, <1>a, StreakBound
       DEF AcceptClient, hlThread, hlRequest, AcceptError, HlAssumption, Streaks
  <2>2. hlReq' \in RequestsHeld
    BY <1>7, RequestsAreHeld DEF AcceptClient
  <2>3. HlTypeOK'
    <3>1. hlClients' \in Nat /\ hlLeft' \in 0..HlDeadline
      BY <1>a, <1>b, <1>7 DEF AcceptClient
    <3>2. QED BY <1>0, <1>7, <2>1, <2>2, <3>1 DEF AcceptClient, HlTypeOK
  <2>4. SocketInv'
    BY <1>0, <1>a, <1>7
       DEF AcceptClient, hlThread, hlRequest, HlTypeOK, SocketInv, OwnerInv, Holds, Serving
  <2>5. OwnerInv'
    BY <1>0, <1>7 DEF AcceptClient, hlThread, hlRequest, SocketInv, OwnerInv
  <2>6. RequestInv'
    BY <1>0, <1>a, <1>b, <1>7 DEF AcceptClient, RequestInv
  <2>7. QED BY <2>3, <2>4, <2>5, <2>6 DEF HlInv
<1>8. CASE DropSocket
  <2>1. HlTypeOK'
    BY <1>0, <1>a, <1>8 DEF DropSocket, TakeSocket, CloseSocket, hlThread, hlRequest, HlTypeOK
  <2>2. SocketInv'
    <3>1. CASE hlPc = "drop" /\ TakeSocket /\ hlHand' = hlSock /\ hlPc' = "dropping"
               /\ UNCHANGED <<hlOpen, hlTwice, hlOwner>>
      BY <1>0, <1>a, <3>1 DEF TakeSocket, HlTypeOK, SocketInv, Holds, Serving
    <3>2. CASE hlPc = "dropping" /\ CloseSocket(hlHand) /\ hlHand' = 0 /\ hlPc' = "wait"
               /\ UNCHANGED <<hlSock, hlOwner>>
      BY <1>0, <1>a, <3>2 DEF CloseSocket, HlTypeOK, SocketInv, Holds, Serving
    <3>3. QED BY <1>8, <3>1, <3>2 DEF DropSocket
  <2>3. OwnerInv'
    BY <1>0, <1>8 DEF DropSocket, TakeSocket, CloseSocket, hlThread, hlRequest, SocketInv, OwnerInv
  <2>4. RequestInv'
    <3>1. /\ UNCHANGED hlRequest
          /\ hlPc' = hlPc \/ hlPc' \notin {"header", "password", "occlusion", "inject"}
      BY <1>8 DEF DropSocket, hlThread
    <3>2. QED BY <1>0, <3>1, RequestRests
  <2>5. QED BY <2>1, <2>2, <2>3, <2>4 DEF HlInv
<1>9. CASE ReceiveHeader
  <2>1. hlThr' \in Throttles
    BY <1>0, <1>9, ErrorIsCounted
       DEF ReceiveHeader, HandlerKeeps, hlThread, hlRequest, RequestInv, Throttles
  <2>2. HlTypeOK'
    <3>1. hlLeft' \in 0..HlDeadline
      <4>1. hlLeft > 0 /\ hlLeft' = hlLeft - 1
        BY <1>0, <1>9 DEF ReceiveHeader, RequestInv
      <4>2. QED BY <1>b, <4>1 DEF HlAssumption
    <3>2. hlPc' \in {"leave", "body", "header"}
      BY <1>9 DEF ReceiveHeader
    <3>3. QED BY <1>0, <1>9, <2>1, <3>1, <3>2 DEF ReceiveHeader, HandlerKeeps, HlTypeOK
  <2>3. SocketInv'
    BY <1>0, <1>a, <1>9
       DEF ReceiveHeader, HandlerKeeps, hlThread, hlRequest, HlTypeOK, SocketInv, OwnerInv,
           Holds, Serving
  <2>4. OwnerInv'
    BY <1>0, <1>9 DEF ReceiveHeader, HandlerKeeps, hlThread, hlRequest, SocketInv, OwnerInv
  <2>5. RequestInv'
    <3>1. hlThr' = hlThr \/ hlThr' = ThrottlePass(hlThr)
      BY <1>9 DEF ReceiveHeader
    <3>2. hlThr'.events = hlThr'.told + hlThr'.suppressed
      BY <1>0, <3>1, ErrorIsCounted DEF RequestInv
    <3>3. hlPc' \in {"leave", "body"} \/ (hlPc' = "header" /\ hlLeft > 1)
      BY <1>9 DEF ReceiveHeader
    <3>4. hlPc' = "header" => hlLeft' > 0
      BY <1>b, <1>9, <3>3 DEF ReceiveHeader
    <3>5. QED BY <1>0, <1>9, <3>2, <3>3, <3>4 DEF ReceiveHeader, HandlerKeeps, RequestInv
  <2>6. QED BY <2>2, <2>3, <2>4, <2>5 DEF HlInv
<1>10. CASE ReceiveBody
  <2>1. hlThr' \in Throttles
    BY <1>0, <1>10, ErrorIsCounted
       DEF ReceiveBody, HandlerKeeps, BodyComplete, hlThread, hlRequest, RequestInv, Throttles
  <2>2. hlReq' \in RequestsHeld
    <3>1. CASE hlReq.body = "late"
         /\ (\E b \in {"late", "whole"} : hlReq' = [hlReq EXCEPT !.body = b])
      BY <3>1, RequestsOnTheirWay
    <3>2. CASE hlReq' = hlReq
      BY <3>2
    <3>3. QED BY <1>10, <3>1, <3>2 DEF ReceiveBody
  <2>3. HlTypeOK'
    <3>1. hlPc' \in {"body", "password", "leave"}
         /\ (hlLeft' = hlLeft \/ (hlLeft > 0 /\ hlLeft' = hlLeft - 1))
      BY <1>10 DEF ReceiveBody
    <3>2. hlLeft' \in 0..HlDeadline
      BY <1>b, <3>1 DEF HlAssumption
    <3>3. QED BY <1>0, <1>10, <2>1, <2>2, <3>1, <3>2 DEF ReceiveBody, HandlerKeeps, HlTypeOK
  <2>4. SocketInv'
    BY <1>0, <1>a, <1>10
       DEF ReceiveBody, HandlerKeeps, BodyComplete, hlThread, hlRequest, HlTypeOK, SocketInv,
           OwnerInv, Holds, Serving
  <2>5. OwnerInv'
    BY <1>0, <1>10
       DEF ReceiveBody, HandlerKeeps, BodyComplete, hlThread, hlRequest, SocketInv, OwnerInv
  <2>6. RequestInv'
    <3>1. hlThr' = hlThr \/ hlThr' = ThrottlePass(hlThr)
      BY <1>10 DEF ReceiveBody
    <3>2. hlThr'.events = hlThr'.told + hlThr'.suppressed
      BY <1>0, <3>1, ErrorIsCounted DEF RequestInv
    <3>3. hlPc' = "password" => hlReq'.body = "whole"
      BY <1>10, RequestsOnTheirWay DEF ReceiveBody, BodyComplete
    <3>4. hlPc' \in {"body", "password", "leave"}
      BY <1>10 DEF ReceiveBody
    <3>5. QED BY <1>0, <1>10, <3>2, <3>3, <3>4 DEF ReceiveBody, HandlerKeeps, RequestInv
  <2>7. QED BY <2>3, <2>4, <2>5, <2>6 DEF HlInv
<1>11. CASE TakePassword
  <2>1. hlPw' \in Passwords
    BY <1>0, <1>11, <1>a DEF TakePassword, HandlerKeeps, hlThread, hlRequest, Passwords
  <2>2. hlReq' \in RequestsHeld
    BY <1>0, <1>11, RequestsOnTheirWay
       DEF TakePassword, HandlerKeeps, hlThread, hlRequest, RequestsHeld
  <2>3. HlTypeOK'
    BY <1>0, <1>a, <1>11, <2>1, <2>2 DEF TakePassword, HandlerKeeps, hlThread, hlRequest, HlTypeOK
  <2>4. SocketInv'
    BY <1>0, <1>a, <1>11
       DEF TakePassword, HandlerKeeps, hlThread, hlRequest, HlTypeOK, SocketInv, OwnerInv, Holds,
           Serving
  <2>5. OwnerInv'
    BY <1>0, <1>11 DEF TakePassword, HandlerKeeps, hlThread, hlRequest, SocketInv, OwnerInv
  <2>6. RequestInv'
    <3>1. ~hlReq'.pw
      BY <1>11, RequestsOnTheirWay DEF TakePassword
    <3>2. hlPw'.what # "half"
      BY <1>0, <1>11 DEF TakePassword, RequestInv
    <3>3. QED BY <1>0, <1>11, <3>1, <3>2 DEF TakePassword, HandlerKeeps, RequestInv
  <2>7. QED BY <2>3, <2>4, <2>5, <2>6 DEF HlInv
<1>12. CASE OcclusionOfBody
  <2>1. HlTypeOK'
    BY <1>0, <1>a, <1>12
       DEF OcclusionOfBody, HandlerKeeps, StoreOcclusion, hlThread, hlRequest, HlTypeOK
  <2>2. SocketInv'
    BY <1>0, <1>a, <1>12
       DEF OcclusionOfBody, HandlerKeeps, StoreOcclusion, hlThread, hlRequest, HlTypeOK,
           SocketInv, OwnerInv, Holds, Serving
  <2>3. OwnerInv'
    BY <1>0, <1>12
       DEF OcclusionOfBody, HandlerKeeps, StoreOcclusion, hlThread, hlRequest, SocketInv, OwnerInv
  <2>4. RequestInv'
    <3>1. hlPos <= hlOcc' /\ hlOcc' <= hlClients /\ (hlReq.content # "text" => hlOcc' = hlClients)
      BY <1>0, <1>b, <1>12 DEF OcclusionOfBody, StoreOcclusion, RequestInv
    <3>2. QED BY <1>0, <1>12, <3>1 DEF OcclusionOfBody, HandlerKeeps, RequestInv
  <2>5. QED BY <2>1, <2>2, <2>3, <2>4 DEF HlInv
<1>13. CASE InjectBody
  <2>1. hlThr' \in Throttles
    BY <1>0, <1>13, ErrorIsCounted
       DEF InjectBody, HandlerKeeps, hlThread, hlRequest, RequestInv, Throttles
  <2>2. HlTypeOK'
    BY <1>0, <1>a, <1>13, <2>1 DEF InjectBody, HandlerKeeps, hlThread, hlRequest, HlTypeOK
  <2>3. SocketInv'
    BY <1>0, <1>a, <1>13
       DEF InjectBody, HandlerKeeps, hlThread, hlRequest, HlTypeOK, SocketInv, OwnerInv, Holds,
           Serving
  <2>4. OwnerInv'
    BY <1>0, <1>13 DEF InjectBody, HandlerKeeps, hlThread, hlRequest, SocketInv, OwnerInv
  <2>5. RequestInv'
    <3>1. hlThr' = hlThr \/ hlThr' = ThrottlePass(hlThr)
      BY <1>13 DEF InjectBody
    <3>2. hlThr'.events = hlThr'.told + hlThr'.suppressed
      BY <1>0, <3>1, ErrorIsCounted DEF RequestInv
    <3>3. ~hlLogged' /\ hlPos' <= hlOcc
      BY <1>0, <1>b, <1>13 DEF InjectBody, RequestInv
    <3>4. QED BY <1>0, <1>13, <3>2, <3>3 DEF InjectBody, HandlerKeeps, RequestInv
  <2>6. QED BY <2>2, <2>3, <2>4, <2>5 DEF HlInv
<1>14. CASE LeaveClient
  <2>1. hlReq' \in RequestsHeld
    BY <1>14, RequestsAreHeld DEF LeaveClient
  <2>2. HlTypeOK'
    BY <1>0, <1>a, <1>14, <2>1 DEF LeaveClient, CloseSocket, HlTypeOK
  <2>3. SocketInv'
    BY <1>0, <1>a, <1>14
       DEF LeaveClient, CloseSocket, hlThread, hlRequest, HlTypeOK, SocketInv, OwnerInv, Holds,
           Serving
  <2>4. OwnerInv'
    BY <1>0, <1>14 DEF LeaveClient, CloseSocket, hlThread, hlRequest, SocketInv, OwnerInv
  <2>5. RequestInv'
    BY <1>0, <1>14 DEF LeaveClient, CloseSocket, hlThread, hlRequest, HlTypeOK, RequestInv, OwnerInv
  <2>6. QED BY <2>2, <2>3, <2>4, <2>5 DEF HlInv
<1>15. CASE HlStart
  <2>1. hlOwner' \in Owners
    <3>1. \E pc \in {"down", "starting", "up", "close", "closing", "join",
                     "joined", "closing again"},
             hand \in {0, hlSock} : hlOwner' = [pc |-> pc, hand |-> hand]
      BY <1>15 DEF HlStart, OwnerGoes
    <3>2. hlSock \in HlSockets \cup {0}
      BY <1>0 DEF HlTypeOK
    <3>3. PICK pc \in {"down", "starting", "up", "close", "closing", "join",
                       "joined", "closing again"},
                hand \in {0, hlSock} : hlOwner' = [pc |-> pc, hand |-> hand]
      BY <3>1
    <3>4. hand \in HlSockets \cup {0}
      BY <3>2
    <3>5. QED BY <3>3, <3>4 DEF Owners
  <2>2. hlStreak' \in Streaks
    BY <1>0, <1>15, <1>a, StreakBound
       DEF HlStart, OwnerGoes, CloseSocket, CallFails, hlThread, hlRequest, AcceptError,
           HlAssumption, Streaks
  <2>3. HlTypeOK'
    BY <1>0, <1>a, <1>15, <2>1, <2>2
       DEF HlStart, OwnerGoes, CloseSocket, CallFails, hlThread, hlRequest, HlTypeOK
  <2>4. SocketInv'
    <3>1. CASE /\ hlOwner.pc = "down" /\ hlOwner' = [pc |-> "starting", hand |-> 0]
               /\ (\E n \in HlSockets \ hlOpen : hlOpen' = hlOpen \cup {n} /\ hlSock' = n)
               /\ UNCHANGED <<hlTwice, hlPc, hlHand>>
      BY <1>0, <1>a, <3>1 DEF HlTypeOK, SocketInv, OwnerInv, Holds, Serving
    <3>2. CASE /\ hlOwner.pc = "down" /\ hlOwner' = [pc |-> "starting", hand |-> 0]
               /\ UNCHANGED <<hlOpen, hlSock, hlTwice, hlPc, hlHand>>
      BY <1>0, <1>a, <3>2 DEF HlTypeOK, SocketInv, OwnerInv, Holds, Serving
    <3>3. CASE /\ hlOwner.pc = "starting" /\ hlOwner' = [pc |-> "up", hand |-> 0] /\ hlPc' = "top"
               /\ UNCHANGED <<hlOpen, hlSock, hlTwice, hlHand>>
      BY <1>0, <1>a, <3>3 DEF HlTypeOK, SocketInv, OwnerInv, Holds, Serving
    <3>4. CASE /\ hlOwner.pc = "starting" /\ hlOwner' = [pc |-> "down", hand |-> 0]
               /\ hlSock' = 0 /\ CloseSocket(hlSock)
               /\ UNCHANGED <<hlPc, hlHand>>
      BY <1>0, <1>a, <3>4 DEF CloseSocket, HlTypeOK, SocketInv, OwnerInv, Holds, Serving
    <3>5. QED BY <1>15, <3>1, <3>2, <3>3, <3>4 DEF HlStart, OwnerGoes, hlThread
  <2>5. OwnerInv'
    <3>1. CASE /\ hlOwner.pc = "down" /\ hlOwner' = [pc |-> "starting", hand |-> 0]
               /\ (\E n \in HlSockets \ hlOpen : hlOpen' = hlOpen \cup {n} /\ hlSock' = n)
               /\ UNCHANGED <<hlTwice, hlPc, hlHand>>
      BY <1>0, <1>a, <3>1 DEF SocketInv, OwnerInv
    <3>2. CASE /\ hlOwner.pc = "down" /\ hlOwner' = [pc |-> "starting", hand |-> 0]
               /\ UNCHANGED <<hlOpen, hlSock, hlTwice, hlPc, hlHand>>
      BY <1>0, <1>a, <3>2 DEF SocketInv, OwnerInv
    <3>3. CASE /\ hlOwner.pc = "starting" /\ hlOwner' = [pc |-> "up", hand |-> 0] /\ hlPc' = "top"
               /\ UNCHANGED <<hlOpen, hlSock, hlTwice, hlHand>>
      BY <1>0, <1>a, <3>3 DEF SocketInv, OwnerInv
    <3>4. CASE /\ hlOwner.pc = "starting" /\ hlOwner' = [pc |-> "down", hand |-> 0]
               /\ hlSock' = 0 /\ CloseSocket(hlSock)
               /\ UNCHANGED <<hlPc, hlHand>>
      BY <1>0, <1>a, <3>4 DEF SocketInv, OwnerInv
    <3>5. QED BY <1>15, <3>1, <3>2, <3>3, <3>4 DEF HlStart, OwnerGoes, hlThread
  <2>6. RequestInv'
    <3>1. /\ UNCHANGED hlRequest
          /\ hlPc' = hlPc \/ hlPc' \notin {"header", "password", "occlusion", "inject"}
      BY <1>15 DEF HlStart, hlThread
    <3>2. QED BY <1>0, <3>1, RequestRests
  <2>7. QED BY <2>3, <2>4, <2>5, <2>6 DEF HlInv
<1>16. CASE HlStopBegins
  <2>1. hlOwner' \in Owners
    BY <1>0, <1>16, <1>a DEF HlStopBegins, OwnerGoes, hlThread, hlRequest, Owners
  <2>2. HlTypeOK'
    BY <1>0, <1>a, <1>16, <2>1 DEF HlStopBegins, OwnerGoes, hlThread, hlRequest, HlTypeOK
  <2>3. SocketInv'
    BY <1>0, <1>a, <1>16
       DEF HlStopBegins, OwnerGoes, hlThread, hlRequest, HlTypeOK, SocketInv, OwnerInv, Holds,
           Serving, Owners
  <2>4. OwnerInv'
    BY <1>0, <1>16 DEF HlStopBegins, OwnerGoes, hlThread, hlRequest, SocketInv, OwnerInv, Owners
  <2>5. RequestInv'
    BY <1>0, <1>16 DEF HlStopBegins, OwnerGoes, hlThread, hlRequest, HlTypeOK, RequestInv, OwnerInv
  <2>6. QED BY <2>2, <2>3, <2>4, <2>5 DEF HlInv
<1>17. CASE HlStopGoesOn
  <2>1. hlOwner' \in Owners
    <3>1. \E pc \in {"down", "starting", "up", "close", "closing", "join",
                     "joined", "closing again"},
             hand \in {0, hlSock} : hlOwner' = [pc |-> pc, hand |-> hand]
      BY <1>17 DEF HlStopGoesOn, OwnerGoes
    <3>2. hlSock \in HlSockets \cup {0}
      BY <1>0 DEF HlTypeOK
    <3>3. PICK pc \in {"down", "starting", "up", "close", "closing", "join",
                       "joined", "closing again"},
                hand \in {0, hlSock} : hlOwner' = [pc |-> pc, hand |-> hand]
      BY <3>1
    <3>4. hand \in HlSockets \cup {0}
      BY <3>2
    <3>5. QED BY <3>3, <3>4 DEF Owners
  <2>2. HlTypeOK'
    BY <1>0, <1>a, <1>17, <2>1
       DEF HlStopGoesOn, OwnerGoes, TakeSocket, CloseSocket, hlThread, hlRequest, HlTypeOK
  <2>3. SocketInv'
    <3>1. CASE /\ hlOwner.pc = "close" /\ hlSock' = 0
               /\ hlOwner' = [pc |-> "closing", hand |-> hlSock]
               /\ UNCHANGED <<hlOpen, hlTwice, hlPc, hlHand>>
      BY <1>0, <1>a, <3>1 DEF HlTypeOK, SocketInv, OwnerInv, Holds, Serving
    <3>2. CASE /\ hlOwner.pc = "joined" /\ hlSock' = 0
               /\ hlOwner' = [pc |-> "closing again", hand |-> hlSock]
               /\ UNCHANGED <<hlOpen, hlTwice, hlPc, hlHand>>
      BY <1>0, <1>a, <3>2 DEF HlTypeOK, SocketInv, OwnerInv, Holds, Serving
    <3>3. CASE /\ hlOwner.pc = "closing" /\ CloseSocket(hlOwner.hand)
               /\ hlOwner' = [pc |-> "join", hand |-> 0]
               /\ UNCHANGED <<hlSock, hlPc, hlHand>>
      BY <1>0, <1>a, <3>3 DEF CloseSocket, HlTypeOK, SocketInv, OwnerInv, Holds, Serving
    <3>4. CASE /\ hlOwner.pc = "closing again" /\ CloseSocket(hlOwner.hand)
               /\ hlOwner' = [pc |-> "down", hand |-> 0]
               /\ UNCHANGED <<hlSock, hlPc, hlHand>>
      BY <1>0, <1>a, <3>4 DEF CloseSocket, HlTypeOK, SocketInv, OwnerInv, Holds, Serving
    <3>5. CASE /\ hlOwner.pc = "join" /\ hlPc = "end"
               /\ hlPc' = "none" /\ hlOwner' = [pc |-> "joined", hand |-> 0]
               /\ UNCHANGED <<hlSock, hlOpen, hlTwice, hlHand>>
      BY <1>0, <1>a, <3>5 DEF HlTypeOK, SocketInv, OwnerInv, Holds, Serving
    <3>6. QED BY <1>17, <3>1, <3>2, <3>3, <3>4, <3>5
       DEF HlStopGoesOn, OwnerGoes, TakeSocket, hlThread
  <2>4. OwnerInv'
    <3>1. CASE /\ hlOwner.pc = "close" /\ hlSock' = 0
               /\ hlOwner' = [pc |-> "closing", hand |-> hlSock]
               /\ UNCHANGED <<hlOpen, hlTwice, hlPc, hlHand>>
      BY <1>0, <1>a, <3>1 DEF SocketInv, OwnerInv
    <3>2. CASE /\ hlOwner.pc = "joined" /\ hlSock' = 0
               /\ hlOwner' = [pc |-> "closing again", hand |-> hlSock]
               /\ UNCHANGED <<hlOpen, hlTwice, hlPc, hlHand>>
      BY <1>0, <1>a, <3>2 DEF SocketInv, OwnerInv
    <3>3. CASE /\ hlOwner.pc = "closing" /\ CloseSocket(hlOwner.hand)
               /\ hlOwner' = [pc |-> "join", hand |-> 0]
               /\ UNCHANGED <<hlSock, hlPc, hlHand>>
      BY <1>0, <1>a, <3>3 DEF SocketInv, OwnerInv
    <3>4. CASE /\ hlOwner.pc = "closing again" /\ CloseSocket(hlOwner.hand)
               /\ hlOwner' = [pc |-> "down", hand |-> 0]
               /\ UNCHANGED <<hlSock, hlPc, hlHand>>
      BY <1>0, <1>a, <3>4 DEF SocketInv, OwnerInv
    <3>5. CASE /\ hlOwner.pc = "join" /\ hlPc = "end"
               /\ hlPc' = "none" /\ hlOwner' = [pc |-> "joined", hand |-> 0]
               /\ UNCHANGED <<hlSock, hlOpen, hlTwice, hlHand>>
      BY <1>0, <1>a, <3>5 DEF SocketInv, OwnerInv
    <3>6. QED BY <1>17, <3>1, <3>2, <3>3, <3>4, <3>5
       DEF HlStopGoesOn, OwnerGoes, TakeSocket, hlThread
  <2>5. RequestInv'
    <3>1. /\ UNCHANGED hlRequest
          /\ hlPc' = hlPc \/ hlPc' \notin {"header", "password", "occlusion", "inject"}
      BY <1>17 DEF HlStopGoesOn, hlThread
    <3>2. QED BY <1>0, <3>1, RequestRests
  <2>6. QED BY <2>2, <2>3, <2>4, <2>5 DEF HlInv
<1>18. CASE Recompute
  <2>1. HlTypeOK'
    BY <1>0, <1>a, <1>18 DEF Recompute, OthersKeep, hlThread, hlRequest, HlTypeOK
  <2>2. SocketInv'
    BY <1>0, <1>a, <1>18
       DEF Recompute, OthersKeep, hlThread, hlRequest, HlTypeOK, SocketInv, OwnerInv, Holds,
           Serving
  <2>3. OwnerInv'
    BY <1>0, <1>18 DEF Recompute, OthersKeep, hlThread, hlRequest, SocketInv, OwnerInv
  <2>4. RequestInv'
    <3>1. hlStale' = hlStale
      <4>1. ~(hlPos > hlOcc)
        BY <1>0, <1>b DEF RequestInv
      <4>2. hlStale \in BOOLEAN
        BY <1>0 DEF HlTypeOK
      <4>3. QED BY <1>18, <4>1, <4>2 DEF Recompute
    <3>2. QED BY <1>0, <1>18, <3>1 DEF Recompute, OthersKeep, hlThread, RequestInv
  <2>5. QED BY <2>1, <2>2, <2>3, <2>4 DEF HlInv
<1>19. CASE GetPassword
  <2>1. hlPw' \in Passwords
    BY <1>0, <1>19, <1>a DEF GetPassword, OthersKeep, hlThread, hlRequest, Passwords
  <2>2. HlTypeOK'
    BY <1>0, <1>a, <1>19, <2>1 DEF GetPassword, OthersKeep, hlThread, hlRequest, HlTypeOK
  <2>3. SocketInv'
    BY <1>0, <1>a, <1>19
       DEF GetPassword, OthersKeep, hlThread, hlRequest, HlTypeOK, SocketInv, OwnerInv, Holds,
           Serving
  <2>4. OwnerInv'
    BY <1>0, <1>19 DEF GetPassword, OthersKeep, hlThread, hlRequest, SocketInv, OwnerInv
  <2>5. RequestInv'
    BY <1>0, <1>19 DEF GetPassword, OthersKeep, hlThread, hlRequest, HlTypeOK, RequestInv, OwnerInv
  <2>6. QED BY <2>2, <2>3, <2>4, <2>5 DEF HlInv
<1>20. CASE ClearPassword
  <2>1. hlPw' \in Passwords
    BY <1>0, <1>20, <1>a DEF ClearPassword, OthersKeep, hlThread, hlRequest, Passwords
  <2>2. HlTypeOK'
    BY <1>0, <1>a, <1>20, <2>1 DEF ClearPassword, OthersKeep, hlThread, hlRequest, HlTypeOK
  <2>3. SocketInv'
    BY <1>0, <1>a, <1>20
       DEF ClearPassword, OthersKeep, hlThread, hlRequest, HlTypeOK, SocketInv, OwnerInv, Holds,
           Serving
  <2>4. OwnerInv'
    BY <1>0, <1>20 DEF ClearPassword, OthersKeep, hlThread, hlRequest, SocketInv, OwnerInv
  <2>5. RequestInv'
    BY <1>0, <1>20
       DEF ClearPassword, OthersKeep, hlThread, hlRequest, HlTypeOK, RequestInv, OwnerInv
  <2>6. QED BY <2>2, <2>3, <2>4, <2>5 DEF HlInv
<1>21. CASE HlTimePasses
  <2>1. hlPw' \in Passwords
    <3>1. hlPw.what \in {"none", "whole", "half"} /\ hlPw.age \in 0..HlPwTtl + 1
      BY DEF Passwords
    <3>2. CASE hlPw' = [hlPw EXCEPT !.age = @ + 1] /\ hlPw.age <= HlPwTtl
      <4>1. hlPw.age + 1 \in 0..HlPwTtl + 1
        BY <3>1, <3>2 DEF HlAssumption
      <4>2. QED BY <3>2, <4>1 DEF Passwords
    <3>3. QED BY <1>21, <3>2 DEF HlTimePasses
  <2>2. hlThr' \in Throttles
    BY <1>0, <1>21, ErrorIsCounted
       DEF HlTimePasses, OthersKeep, hlThread, hlRequest, RequestInv, Throttles
  <2>3. HlTypeOK'
    BY <1>0, <1>a, <1>21, <2>1, <2>2 DEF HlTimePasses, OthersKeep, hlThread, hlRequest, HlTypeOK
  <2>4. SocketInv'
    BY <1>0, <1>a, <1>21
       DEF HlTimePasses, OthersKeep, hlThread, hlRequest, HlTypeOK, SocketInv, OwnerInv, Holds,
           Serving
  <2>5. OwnerInv'
    BY <1>0, <1>21 DEF HlTimePasses, OthersKeep, hlThread, hlRequest, SocketInv, OwnerInv
  <2>6. RequestInv'
    <3>1. hlThr'.events = hlThr.events /\ hlThr'.told = hlThr.told
         /\ hlThr'.suppressed = hlThr.suppressed
      BY <1>21 DEF HlTimePasses, Throttles
    <3>2. hlPw'.what = hlPw.what
      BY <1>21 DEF HlTimePasses, Passwords
    <3>3. QED BY <1>0, <1>21, <3>1, <3>2 DEF HlTimePasses, OthersKeep, hlThread, RequestInv
  <2>7. QED BY <2>3, <2>4, <2>5, <2>6 DEF HlInv
<1>22. CASE UNCHANGED hlvars
  <2>1. HlTypeOK'
    BY <1>0, <1>22 DEF hlvars, hlThread, hlRequest, HlTypeOK
  <2>2. SocketInv' /\ OwnerInv'
    BY <1>0, <1>22 DEF hlvars, hlThread, SocketInv, OwnerInv, Holds, Serving
  <2>3. RequestInv'
    BY <1>0, <1>22, RequestRests DEF hlvars, hlThread
  <2>4. QED BY <2>1, <2>2, <2>3 DEF HlInv
<1>23. QED BY <1>1, <1>2, <1>3, <1>4, <1>5, <1>6, <1>7, <1>8, <1>9, <1>10, <1>11, <1>12, <1>13,
   <1>14, <1>15, <1>16, <1>17, <1>18, <1>19, <1>20, <1>21, <1>22 DEF HlNext, ThreadRuns

(* The HTTP server is safe for any number of sockets, clients and failing  *)
(* calls: every socket is closed once, a password is stored whole and      *)
(* never logged, the occlusion values come before the position, and every  *)
(* error is accounted for.                                                 *)
THEOREM HttpServerIsSafe ==
  ASSUME HlAssumption
  PROVE  HlSpec => [](HlTypeOK /\ HttpIsSafe)
<1>1. HlInit => HlInv
  BY HlInitInv
<1>2. HlInv /\ [HlNext]_hlvars => HlInv'
  BY HlStepInv
<1>3. HlInv => HlTypeOK /\ HttpIsSafe
  <2> SUFFICES ASSUME HlInv PROVE HlTypeOK /\ HttpIsSafe
    OBVIOUS
  <2>1. hlOwner.pc = "down" => hlOpen = {} /\ hlSock = 0
    BY DEF HlInv, HlTypeOK, SocketInv, OwnerInv, Holds, Serving
  <2>2. QED BY <2>1 DEF HlInv, HlTypeOK, SocketInv, RequestInv, HttpIsSafe, SocketsClosedOnce,
                        PasswordWhole, OcclusionBeforePosition, ErrorsAccounted
<1>4. QED BY <1>1, <1>2, <1>3, PTL DEF HlSpec
-----------------------------------------------------------------------------
(* PositionSend: where the last packet stands.                             *)

Resting == psFlush.at # "sends"
Known   == psPeer.pos # Nowhere

\* A flag that nobody looks at is on its way to be looked at.
WakeInv == psOnline /\ psSend.pend /\ psFlush.at = "idle" => psWake

\* The other players have the last packet or none.
PeerInv ==
  /\ psPeer \in {NobodyYet, psSend.sent}
  /\ psSend.valid => psSend.sent.pos # Nowhere
  /\ psFlush.at = "sends" => psFlush.packet.pos # Nowhere

\* The tick has asked for a look that has not come yet.
Due == psFlush.at = "idle" /\ psWake /\ psSend.pend /\ psSend.age # 0

SentPlace == psSend.sent.dist = psSelf.dist /\ ~Far(psSelf.pos, psSend.sent.pos)
AtLeast(t) == t >= psQuiet \/ t = PsKeep

\* What a tick without any event or failure since leaves: a look is due, or
\* has found what it needed, or its packet is on the way.
QuietInv ==
  psQuiet > 0 /\ psOnline /\ psSelf.pos # Nowhere =>
    /\ Known \/ AtLeast(psSend.age)
    /\ psSend.name = psSelf.name \/ AtLeast(psSend.nameAge)
    /\ Due \/ psSend.name = psSelf.name \/ psSend.nameAge < PsKeep
    /\ psFlush.at = "sends" => /\ psFlush.packet.pos = psSelf.pos
                               /\ psFlush.packet.dist = psSelf.dist
                               /\ psFlush.packet.name = psSend.name
    /\ Resting /\ ~Due => /\ SentPlace /\ psSend.sent.name = psSend.name
                          /\ Known \/ psSend.age < PsKeep
    /\ psQuiet > 1 => SentPlace
    /\ psQuiet > PsKeep => Known /\ psSend.name = psSelf.name /\ psSend.sent.name = psSelf.name

PsInv == PsTypeOK /\ WakeInv /\ PeerInv /\ QuietInv
-----------------------------------------------------------------------------
\* The parts of the records that the proofs compare.
LEMMA SendParts ==
  ASSUME PsAssumption, PsTypeOK
  PROVE  /\ PsKeep \in Nat /\ PsKeep > 0 /\ PsPlaces \in Nat
         /\ PsMaxEvents \in Nat /\ PsMaxFaults \in Nat
         /\ psSelf.pos \in Nat /\ psSelf.dist \in 0..1 /\ psSelf.name \in 0..1
         /\ psSend.sent \in Packets /\ psSend.sent.pos \in Nat
         /\ psSend.age \in 0..PsKeep /\ psSend.nameAge \in 0..PsKeep
         /\ psSend.name \in 0..1 /\ psSend.pend \in BOOLEAN
         /\ psSend.invalid \in BOOLEAN /\ psSend.valid \in BOOLEAN
         /\ psFlush.packet \in Packets /\ psQuiet \in Nat
BY DEF PsAssumption, PsTypeOK, Sends, Flushes, Packets, Nowhere

LEMMA NobodyIsAPacket == ASSUME PsAssumption PROVE NobodyYet \in Packets
BY DEF PsAssumption, NobodyYet, Packets, Nowhere

\* PlaceIsSent is what QuietInv says of the last packet, and PeerInv of who has it.
LEMMA QuietMeansSent == ASSUME PsAssumption, PsInv PROVE PlaceIsSent
<1>1. /\ PsKeep \in Nat /\ PsKeep > 0 /\ psQuiet \in Nat
      /\ psSelf.pos \in Nat /\ psSend.sent.pos \in Nat /\ Nowhere \in Nat
  BY SendParts DEF PsInv, PsAssumption, Nowhere
<1>2. Known => psPeer = psSend.sent
  BY DEF PsInv, PeerInv, Known, NobodyYet
<1>3. EverybodyHasIt
  <2> SUFFICES ASSUME psOnline, psSelf.pos # Nowhere, psQuiet > PsKeep  PROVE Agrees
    BY DEF EverybodyHasIt
  <2>1. psQuiet > 0 /\ psQuiet > 1
    BY <1>1
  <2>2. SentPlace /\ Known /\ psSend.sent.name = psSelf.name
    BY <2>1 DEF PsInv, QuietInv
  <2> QED BY <1>1, <1>2, <2>2 DEF Agrees, SentPlace, Known, Far, Eps
<1>4. PlaceIsFresh
  <2> SUFFICES ASSUME psOnline, psSelf.pos # Nowhere, psPeer.pos # Nowhere, psQuiet > 1
               PROVE  psPeer.dist = psSelf.dist /\ ~Far(psPeer.pos, psSelf.pos)
    BY DEF PlaceIsFresh
  <2>1. psQuiet > 0 /\ SentPlace
    BY <1>1 DEF PsInv, QuietInv
  <2> QED BY <1>1, <1>2, <2>1 DEF SentPlace, Known, Far, Eps
<1> QED BY <1>3, <1>4 DEF PlaceIsSent
-----------------------------------------------------------------------------
\* What the world does: each event starts the count of quiet ticks again.
LEMMA EventsKeepPlace ==
  ASSUME PsAssumption, PsInv, PlayerMoves \/ PlayerChanges \/ ModeSwitches \/ PeerArrives
  PROVE  PsInv'
<1>0. /\ psSend' = psSend /\ psFlush' = psFlush /\ psWake' = psWake /\ psOnline' = psOnline
      /\ psEvents < PsMaxEvents /\ psEvents' = psEvents + 1 /\ psQuiet' = 0
      /\ psFaults' = psFaults
  BY DEF PlayerMoves, PlayerChanges, ModeSwitches, PeerArrives, PlaceEvent
<1>1. psSelf' \in Packets
  BY DEF PlayerMoves, PlayerChanges, ModeSwitches, PeerArrives, PsInv, PsTypeOK, Packets
<1>2. psPeer' \in {NobodyYet, psPeer}
  BY DEF PlayerMoves, PlayerChanges, ModeSwitches, PeerArrives
<1>3. psHot' \in {"idle", "switched", "told"}
  BY DEF PlayerMoves, PlayerChanges, ModeSwitches, PeerArrives, PsInv, PsTypeOK
<1>4. psEvents' \in 0..PsMaxEvents /\ psQuiet' \in 0..PsKeep + 2
  BY <1>0, SendParts DEF PsInv, PsTypeOK
<1>5. PsTypeOK'
  BY <1>0, <1>1, <1>2, <1>3, <1>4, NobodyIsAPacket DEF PsInv, PsTypeOK, Nowhere
<1>6. WakeInv'
  BY <1>0 DEF PsInv, WakeInv
<1>7. PeerInv'
  BY <1>0, <1>2 DEF PsInv, PeerInv, NobodyYet, Nowhere
<1>8. QuietInv'
  BY <1>0 DEF QuietInv
<1> QED BY <1>5, <1>6, <1>7, <1>8 DEF PsInv

LEMMA ConnectionKeepsPlace ==
  ASSUME PsAssumption, PsInv, Connection
  PROVE  PsInv'
<1>0. /\ psSelf' = psSelf /\ psHot' = psHot /\ psFlush' = psFlush /\ psFaults' = psFaults
      /\ psSend' = AtConnect(psSend) /\ psPeer' = NobodyYet
      /\ psEvents < PsMaxEvents /\ psEvents' = psEvents + 1 /\ psQuiet' = 0
      /\ psFlush.at = "idle"
  BY DEF Connection, PlaceEvent
<1>1. psSend' \in Sends /\ psSend'.valid = FALSE /\ psSend'.pend = FALSE
  <2>1. psSend \in Sends /\ PsKeep \in 0..PsKeep
    BY SendParts DEF PsInv, PsTypeOK
  <2> QED BY <1>0, <2>1 DEF AtConnect, Sends
<1>2. psOnline' \in BOOLEAN /\ psWake' \in BOOLEAN
  BY DEF Connection, PsInv, PsTypeOK
<1>4. psEvents' \in 0..PsMaxEvents /\ psQuiet' \in 0..PsKeep + 2
  BY <1>0, SendParts DEF PsInv, PsTypeOK
<1>5. PsTypeOK'
  BY <1>0, <1>1, <1>2, <1>4, NobodyIsAPacket DEF PsInv, PsTypeOK, Nowhere
<1>6. WakeInv' /\ QuietInv'
  BY <1>0, <1>1 DEF WakeInv, QuietInv
<1>7. PeerInv'
  BY <1>0, <1>1 DEF PeerInv, NobodyYet, Nowhere
<1> QED BY <1>5, <1>6, <1>7 DEF PsInv

\* The signal of a mode switch, and a wakeup that is lost offline, leave what
\* QuietInv speaks of as it was, or make a look due.
LEMMA SignalsKeepPlace ==
  ASSUME PsAssumption, PsInv, ModeInvalidates \/ ModeSignals \/ WakeIsDropped \/ FlushNotAsked
  PROVE  PsInv'
<1>0. /\ psSelf' = psSelf /\ psFlush' = psFlush /\ psOnline' = psOnline /\ psPeer' = psPeer
      /\ psQuiet' = psQuiet /\ psEvents' = psEvents /\ psFaults' = psFaults
  BY DEF ModeInvalidates, ModeSignals, WakeIsDropped, FlushNotAsked, Signalled
<1>1. psSend' \in {psSend, [psSend EXCEPT !.invalid = TRUE], [psSend EXCEPT !.pend = TRUE]}
  BY DEF ModeInvalidates, ModeSignals, WakeIsDropped, FlushNotAsked, Signalled
<1>2. psSend \in Sends
  BY DEF PsInv, PsTypeOK
<1>3. /\ psSend' \in Sends
      /\ psSend'.sent = psSend.sent /\ psSend'.age = psSend.age /\ psSend'.name = psSend.name
      /\ psSend'.nameAge = psSend.nameAge /\ psSend'.valid = psSend.valid
      /\ psSend.pend => psSend'.pend
  BY <1>1, <1>2 DEF Sends
<1>4. psHot' \in {"idle", "switched", "told"} /\ psWake' \in BOOLEAN
  BY DEF ModeInvalidates, ModeSignals, WakeIsDropped, FlushNotAsked, Signalled, PsInv, PsTypeOK
<1>5. PsTypeOK'
  BY <1>0, <1>3, <1>4 DEF PsInv, PsTypeOK, Nowhere
<1>6. WakeInv'
  BY <1>0, <1>2 DEF ModeInvalidates, ModeSignals, WakeIsDropped, FlushNotAsked, Signalled, PsInv,
     WakeInv, Sends
<1>7. PeerInv'
  BY <1>0, <1>3 DEF PsInv, PeerInv, NobodyYet, Nowhere
<1>8. psOnline /\ Due => Due'
  BY <1>0, <1>2, <1>3 DEF ModeInvalidates, ModeSignals, WakeIsDropped, FlushNotAsked, Signalled,
     Due, Sends
<1>9. QuietInv'
  BY <1>0, <1>3, <1>8 DEF PsInv, QuietInv, Known, Resting, SentPlace, AtLeast, Far, Nowhere
<1> QED BY <1>5, <1>6, <1>7, <1>9 DEF PsInv

\* A tick comes only when no look is due, so the last look has settled
\* everything, and the tick makes the next one due.
LEMMA TickKeepsPlace ==
  ASSUME PsAssumption, PsInv, Tick
  PROVE  PsInv'
<1> DEFINE Later(t) == IF t = PsKeep THEN t ELSE t + 1
           aged == [psSend EXCEPT !.age = Later(@), !.nameAge = Later(@)]
<1>p. /\ PsKeep \in Nat /\ PsKeep > 0 /\ psQuiet \in 0..PsKeep + 2
      /\ psSend.age \in 0..PsKeep /\ psSend.nameAge \in 0..PsKeep /\ psSend.pend \in BOOLEAN
  BY SendParts DEF PsInv, PsTypeOK
<1>0. /\ psSelf' = psSelf /\ psFlush' = psFlush /\ psHot' = psHot /\ psOnline' = psOnline
      /\ psPeer' = psPeer /\ psEvents' = psEvents /\ psFaults' = psFaults
      /\ psFlush.at = "idle"
  BY DEF Tick
<1>1. psSend' = [aged EXCEPT !.pend = TRUE] /\ psWake' = (psWake \/ ~aged.pend)
  BY DEF Tick, Signalled
<1>2. psSend \in Sends
  BY DEF PsInv, PsTypeOK
<1>a. Later(psSend.age) \in 0..PsKeep /\ Later(psSend.nameAge) \in 0..PsKeep
  BY <1>p
<1>3. /\ psSend'.sent = psSend.sent /\ psSend'.name = psSend.name /\ psSend'.valid = psSend.valid
      /\ psSend'.age = Later(psSend.age) /\ psSend'.nameAge = Later(psSend.nameAge)
      /\ psSend'.pend = TRUE /\ aged.pend = psSend.pend
  BY <1>1, <1>2 DEF Sends
<1>4. psSend' \in Sends
  BY <1>1, <1>2, <1>a DEF Sends
<1>5. psWake' \in BOOLEAN
  BY <1>1, <1>3, <1>p DEF PsInv, PsTypeOK
<1>6. psQuiet' \in 0..PsKeep + 2 /\ psQuiet' > 0 /\ psQuiet' <= psQuiet + 1
      /\ (psQuiet' > PsKeep => psQuiet >= PsKeep)
  BY <1>p DEF Tick
<1>7. PsTypeOK'
  BY <1>0, <1>3, <1>4, <1>5, <1>6 DEF PsInv, PsTypeOK, Nowhere
<1>8. psOnline => psWake'
  BY <1>0, <1>1, <1>3 DEF PsInv, WakeInv
<1>9. WakeInv'
  BY <1>0, <1>8 DEF WakeInv
<1>10. PeerInv'
  BY <1>0, <1>3 DEF PsInv, PeerInv, NobodyYet, Nowhere
<1>11. QuietInv'
  <2> SUFFICES ASSUME psOnline, psSelf.pos # Nowhere  PROVE QuietInv'
    BY <1>0 DEF QuietInv, Nowhere
  <2>1. psSend'.age # 0 /\ psSend'.age >= 1 /\ psSend'.nameAge >= 1
    BY <1>3, <1>p
  <2>2. Due'
    BY <1>0, <1>3, <1>8, <2>1 DEF Due
  <2>3. ~Due /\ Resting
    BY <1>0 DEF Due, Resting, Tick
  <2>4. Resting'
    BY <1>0 DEF Resting
  <2>5. CASE psQuiet = 0
    <3>1. psQuiet' = 1
      BY <2>5, <1>p DEF Tick
    <3> QED BY <1>p, <3>1, <2>1, <2>2, <2>4 DEF QuietInv, AtLeast, Resting
  <2>6. CASE psQuiet > 0
    <3>1. /\ Known \/ AtLeast(psSend.age)
          /\ psSend.name = psSelf.name \/ AtLeast(psSend.nameAge)
          /\ psSend.name = psSelf.name \/ psSend.nameAge < PsKeep
          /\ SentPlace /\ psSend.sent.name = psSend.name
          /\ Known \/ psSend.age < PsKeep
      BY <2>3, <2>6 DEF PsInv, QuietInv
    <3>2. Known' = Known /\ SentPlace'
      BY <1>0, <1>3, <3>1 DEF Known, SentPlace, Far, Nowhere
    <3>3. AtLeast(psSend.age) => AtLeast(psSend.age)'
      BY <1>3, <1>6, <1>p DEF AtLeast
    <3>4. AtLeast(psSend.nameAge) => AtLeast(psSend.nameAge)'
      BY <1>3, <1>6, <1>p DEF AtLeast
    <3>5. psQuiet' > PsKeep => Known /\ psSend.name = psSelf.name
      BY <1>6, <1>p, <3>1 DEF AtLeast
    <3> QED BY <1>0, <1>3, <2>2, <2>4, <3>1, <3>2, <3>3, <3>4, <3>5 DEF QuietInv, Resting
  <2> QED BY <1>p, <2>5, <2>6
<1> QED BY <1>7, <1>9, <1>10, <1>11 DEF PsInv
\* What the look and the sending leave of the rest of the state.
LEMMA FlushNowhereKeepsPlace == ASSUME PsAssumption, PsInv, FlushNowhere PROVE PsInv'
<1>0. /\ psSelf' = psSelf /\ psSend' = psSend /\ psOnline' = psOnline /\ psPeer' = psPeer
      /\ psQuiet' = psQuiet /\ psEvents' = psEvents /\ psFaults' = psFaults /\ psHot' = psHot
      /\ psWake' = FALSE /\ psOnline /\ psSend.pend /\ psSelf.pos = Nowhere
      /\ psFlush' = [psFlush EXCEPT !.at = "clears"]
  BY DEF FlushNowhere, MayLook
<1>1. psFlush' \in Flushes /\ psFlush'.at = "clears"
  BY <1>0 DEF PsInv, PsTypeOK, Flushes
<1>2. PsTypeOK'
  BY <1>0, <1>1 DEF PsInv, PsTypeOK, Nowhere
<1>3. WakeInv' /\ QuietInv'
  BY <1>0, <1>1 DEF WakeInv, QuietInv, Nowhere
<1>4. PeerInv'
  BY <1>0, <1>1 DEF PsInv, PeerInv, NobodyYet, Nowhere
<1> QED BY <1>2, <1>3, <1>4 DEF PsInv

LEMMA FlushClearsKeepsPlace == ASSUME PsAssumption, PsInv, FlushClears PROVE PsInv'
<1>0. /\ psSelf' = psSelf /\ psWake' = psWake /\ psOnline' = psOnline /\ psPeer' = psPeer
      /\ psQuiet' = psQuiet /\ psEvents' = psEvents /\ psFaults' = psFaults /\ psHot' = psHot
      /\ psFlush.at = "clears"
      /\ psFlush' = [psFlush EXCEPT !.at = "idle"] /\ psSend' = [psSend EXCEPT !.pend = FALSE]
  BY DEF FlushClears
<1>1. psFlush' \in Flushes /\ psFlush'.at = "idle"
  BY <1>0 DEF PsInv, PsTypeOK, Flushes
<1>2. psSend \in Sends
  BY DEF PsInv, PsTypeOK
<1>3. /\ psSend' \in Sends /\ psSend'.pend = FALSE
      /\ psSend'.sent = psSend.sent /\ psSend'.age = psSend.age /\ psSend'.name = psSend.name
      /\ psSend'.nameAge = psSend.nameAge /\ psSend'.valid = psSend.valid
  BY <1>0, <1>2 DEF Sends
<1>4. PsTypeOK'
  BY <1>0, <1>1, <1>3 DEF PsInv, PsTypeOK, Nowhere
<1>5. WakeInv'
  BY <1>3 DEF WakeInv
<1>6. PeerInv'
  BY <1>0, <1>1, <1>3 DEF PsInv, PeerInv, NobodyYet, Nowhere
<1>7. QuietInv'
  BY <1>0, <1>1, <1>3 DEF PsInv, QuietInv, Due, Known, Resting, SentPlace, AtLeast, Far, Nowhere
<1> QED BY <1>4, <1>5, <1>6, <1>7 DEF PsInv

\* A look that may read the name finds everything that has changed, or there
\* is nothing to find.
LEMMA FlushLooksKeepsPlace ==
  ASSUME PsAssumption, PsInv, NEW ok \in BOOLEAN, FlushLooks(ok)
  PROVE  PsInv'
<1> DEFINE kept == [psSend EXCEPT !.valid = @ /\ ~psSend.invalid, !.invalid = FALSE]
           send == Renamed(kept, ok)
           packet == [pos |-> psSelf.pos, dist |-> psSelf.dist, name |-> send.name]
<1>p. /\ PsKeep \in Nat /\ PsKeep > 0 /\ psQuiet \in 0..PsKeep + 2
      /\ psSend.age \in 0..PsKeep /\ psSend.nameAge \in 0..PsKeep /\ 0 \in 0..PsKeep
      /\ psSend \in Sends /\ psSelf \in Packets /\ psFlush \in Flushes
      /\ psSelf.name \in 0..1 /\ psSend.name \in 0..1 /\ psFaults \in 0..PsMaxFaults
      /\ PsMaxFaults \in Nat
  BY SendParts DEF PsInv, PsTypeOK
<1>0. /\ psSelf' = psSelf /\ psHot' = psHot /\ psOnline' = psOnline /\ psPeer' = psPeer
      /\ psEvents' = psEvents /\ psWake' = FALSE /\ psOnline /\ psSend.pend
      /\ psSelf.pos # Nowhere /\ psFlush.at = "idle" /\ psSend.age # 0
      /\ psFaults' = IF ok THEN psFaults ELSE psFaults + 1
      /\ psQuiet' = IF ok THEN psQuiet ELSE 0
      /\ ok \/ psFaults < PsMaxFaults
  BY DEF FlushLooks, MayLook
<1>1. /\ psSend' = send
      /\ psFlush' = IF HasNews(send) THEN [at |-> "sends", packet |-> packet]
                                     ELSE [psFlush EXCEPT !.at = "clears"]
  BY DEF FlushLooks
<1>2. /\ kept \in Sends /\ kept.sent = psSend.sent /\ kept.age = psSend.age
      /\ kept.name = psSend.name /\ kept.nameAge = psSend.nameAge /\ kept.pend = psSend.pend
      /\ kept.named = psSend.named /\ (kept.valid => psSend.valid)
  BY <1>p DEF Sends
<1> HIDE DEF kept
<1>3. /\ send \in Sends /\ send.sent = psSend.sent /\ send.age = psSend.age
      /\ send.pend = psSend.pend /\ (send.valid => psSend.valid)
  BY <1>2, <1>p DEF Renamed, Sends
<1>4. ok => \/ send.name = psSelf.name
            \/ send.name = psSend.name /\ send.nameAge = psSend.nameAge /\ send.nameAge < PsKeep
  BY <1>2, <1>p DEF Renamed, Sends
<1>5. send.name \in 0..1
  BY <1>3 DEF Sends
<1> HIDE DEF send
<1>6. packet \in Packets
  BY <1>5, <1>p DEF Packets
<1>7. /\ psFlush' \in Flushes
      /\ \/ /\ HasNews(send) /\ psFlush'.at = "sends" /\ psFlush'.packet = packet
         \/ ~HasNews(send) /\ psFlush'.at = "clears"
  BY <1>1, <1>6, <1>p DEF Flushes
<1>8. psFaults' \in 0..PsMaxFaults /\ psQuiet' \in 0..PsKeep + 2
  BY <1>0, <1>p
<1>9. PsTypeOK'
  BY <1>0, <1>1, <1>3, <1>7, <1>8 DEF PsInv, PsTypeOK, Nowhere
<1>10. WakeInv'
  BY <1>7 DEF WakeInv
<1>11. PeerInv'
  BY <1>0, <1>1, <1>3, <1>7 DEF PsInv, PeerInv, NobodyYet, Nowhere
<1>12. QuietInv'
  <2> SUFFICES ASSUME ok, psQuiet > 0  PROVE QuietInv'
    BY <1>0, <1>p DEF QuietInv
  <2>1. psQuiet' = psQuiet /\ Known' = Known /\ SentPlace' = SentPlace
        /\ ~Due' /\ psSend'.age = psSend.age /\ AtLeast(psSend.age)' = AtLeast(psSend.age)
    BY <1>0, <1>1, <1>3, <1>7 DEF Known, SentPlace, Due, AtLeast, Far, Nowhere
  <2>2. /\ Known \/ AtLeast(psSend.age)
        /\ psSend.name = psSelf.name \/ AtLeast(psSend.nameAge)
        /\ psQuiet > 1 => SentPlace
        /\ psQuiet > PsKeep => Known /\ psSend.name = psSelf.name /\ psSend.sent.name = psSelf.name
    BY <1>0 DEF PsInv, QuietInv
  <2>3. send.name = psSelf.name \/ AtLeast(send.nameAge)
    BY <2>2, <1>4 DEF AtLeast
  <2>4. send.name = psSelf.name \/ send.nameAge < PsKeep
    BY <1>4
  <2>5. psFlush'.at = "sends" => psFlush'.packet.pos = psSelf.pos
          /\ psFlush'.packet.dist = psSelf.dist /\ psFlush'.packet.name = send.name
    BY <1>7
  <2>6. psFlush'.at # "sends" => SentPlace /\ psSend.sent.name = send.name /\ psSend.age < PsKeep
    BY <1>7, <1>3, <1>p DEF HasNews, SentPlace, KeepaliveDue
  <2>7. psQuiet > PsKeep => send.name = psSelf.name
    BY <2>2, <1>4
  <2>8. AtLeast(psSend.nameAge)' = AtLeast(send.nameAge)
    BY <1>1, <2>1 DEF AtLeast
  <2> QED
    BY <1>0, <1>1, <1>3, <2>1, <2>2, <2>3, <2>4, <2>5, <2>6, <2>7, <2>8 DEF QuietInv, Resting
<1> QED BY <1>9, <1>10, <1>11, <1>12 DEF PsInv

\* What TeamSpeak takes is what the look has found.
LEMMA FlushSendsKeepsPlace ==
  ASSUME PsAssumption, PsInv, NEW ok \in BOOLEAN, FlushSends(ok)
  PROVE  PsInv'
<1>p. /\ PsKeep \in Nat /\ PsKeep > 0 /\ psQuiet \in 0..PsKeep + 2
      /\ psSend \in Sends /\ psFlush \in Flushes /\ psFaults \in 0..PsMaxFaults
      /\ psFlush.packet \in Packets /\ 0 \in 0..PsKeep /\ PsMaxFaults \in Nat
  BY SendParts DEF PsInv, PsTypeOK
<1>0. /\ psSelf' = psSelf /\ psHot' = psHot /\ psOnline' = psOnline /\ psWake' = psWake
      /\ psEvents' = psEvents /\ psFlush.at = "sends"
      /\ psFaults' = IF ok THEN psFaults ELSE psFaults + 1
      /\ psQuiet' = IF ok THEN psQuiet ELSE 0
      /\ ok \/ psFaults < PsMaxFaults
      /\ psPeer' = (IF ok THEN psFlush.packet ELSE psPeer)
      /\ psFlush' = [at |-> "clears", packet |-> NobodyYet]
  BY DEF FlushSends
<1>1. psFlush' \in Flushes /\ psFlush'.at = "clears"
  BY <1>0, NobodyIsAPacket DEF Flushes
<1>2. psFaults' \in 0..PsMaxFaults /\ psQuiet' \in 0..PsKeep + 2
  BY <1>0, <1>p
<1>3. psFlush.packet.pos # Nowhere
  BY <1>0 DEF PsInv, PeerInv
<1>4. CASE ~ok
  <2>1. psSend' = psSend /\ psPeer' = psPeer /\ psQuiet' = 0
    BY <1>0, <1>4 DEF FlushSends
  <2>2. PsTypeOK'
    BY <1>0, <1>1, <1>2, <2>1 DEF PsInv, PsTypeOK, Nowhere
  <2>3. WakeInv' /\ QuietInv'
    BY <1>1, <2>1 DEF WakeInv, QuietInv
  <2>4. PeerInv'
    BY <1>1, <2>1 DEF PsInv, PeerInv, NobodyYet, Nowhere
  <2> QED BY <2>2, <2>3, <2>4 DEF PsInv
<1>5. CASE ok
  <2>0. psSend' = [psSend EXCEPT !.sent = psFlush.packet, !.valid = TRUE, !.age = 0]
    BY <1>5 DEF FlushSends
  <2>1. /\ psSend' \in Sends /\ psSend'.sent = psFlush.packet /\ psSend'.age = 0
        /\ psSend'.name = psSend.name /\ psSend'.nameAge = psSend.nameAge
        /\ psSend'.pend = psSend.pend
    BY <2>0, <1>p DEF Sends
  <2>2. psPeer' = psFlush.packet /\ psQuiet' = psQuiet
    BY <1>0, <1>5
  <2>3. PsTypeOK'
    BY <1>0, <1>1, <1>2, <1>3, <1>p, <2>1, <2>2 DEF PsInv, PsTypeOK, Nowhere
  <2>4. WakeInv'
    BY <1>1 DEF WakeInv
  <2>5. PeerInv'
    BY <1>1, <1>3, <2>1, <2>2 DEF PeerInv, NobodyYet, Nowhere
  <2>6. Known' /\ ~Due'
    BY <1>1, <1>3, <2>2 DEF Known, Due, Nowhere
  <2>7. QuietInv'
    <3> SUFFICES ASSUME psQuiet > 0, psOnline, psSelf.pos # Nowhere  PROVE QuietInv'
      BY <1>0, <2>2 DEF QuietInv, Nowhere
    <3>1. /\ psSend.name = psSelf.name \/ AtLeast(psSend.nameAge)
          /\ psSend.name = psSelf.name \/ psSend.nameAge < PsKeep
          /\ psFlush.packet.pos = psSelf.pos /\ psFlush.packet.dist = psSelf.dist
          /\ psFlush.packet.name = psSend.name
          /\ psQuiet > PsKeep => psSend.name = psSelf.name
      BY <1>0 DEF PsInv, QuietInv, Due
    <3>2. SentPlace'
      <4>1. psSelf.pos \in Nat
        BY SendParts DEF PsInv
      <4> QED BY <1>0, <2>1, <3>1, <4>1 DEF SentPlace, Far, Eps
    <3>3. AtLeast(psSend.nameAge)' = AtLeast(psSend.nameAge)
      BY <2>1, <2>2 DEF AtLeast
    <3> QED BY <1>0, <1>1, <1>p, <2>1, <2>2, <2>6, <3>1, <3>2, <3>3 DEF QuietInv
  <2> QED BY <2>3, <2>4, <2>5, <2>7 DEF PsInv
<1> QED BY <1>4, <1>5
-----------------------------------------------------------------------------
\* A second and a tick after the last event or refusal everybody has the
\* position, the distance and the name, and nobody who has heard from this
\* player is ever more than a tick behind on the first two.
THEOREM EverybodyIsTold ==
  ASSUME PsAssumption
  PROVE  PsSpec => [](PsTypeOK /\ PlaceIsSent)
<1>1. PsInit => PsInv
  <2> SUFFICES ASSUME PsInit  PROVE PsInv
    OBVIOUS
  <2>1. NobodyYet \in Packets /\ PsKeep \in 0..PsKeep /\ 0 \in 0..1 /\ 0 \in 0..PsKeep + 2
        /\ 0 \in 0..PsMaxEvents /\ 0 \in 0..PsMaxFaults
    BY NobodyIsAPacket DEF PsAssumption
  <2>2. psSend \in Sends /\ psSend.pend = FALSE /\ psSend.valid = FALSE
    BY <2>1 DEF PsInit, Sends
  <2>3. psFlush \in Flushes /\ psFlush.at = "idle"
    BY <2>1 DEF PsInit, Flushes
  <2>4. PsTypeOK
    BY <2>1, <2>2, <2>3 DEF PsInit, PsTypeOK
  <2>5. WakeInv /\ PeerInv /\ QuietInv
    BY <2>2, <2>3 DEF PsInit, WakeInv, PeerInv, QuietInv
  <2> QED BY <2>4, <2>5 DEF PsInv
<1>2. ASSUME PsInv, [PsNext]_psvars  PROVE PsInv'
  <2>1. CASE PsNext
    BY <1>2, <2>1, EventsKeepPlace, ConnectionKeepsPlace, SignalsKeepPlace, TickKeepsPlace,
       FlushNowhereKeepsPlace, FlushClearsKeepsPlace, FlushLooksKeepsPlace, FlushSendsKeepsPlace
       DEF PsNext
  <2>2. CASE UNCHANGED psvars
    BY <1>2, <2>2 DEF psvars, PsInv, PsTypeOK, WakeInv, PeerInv, QuietInv, Due, Known, Resting,
       SentPlace, AtLeast, Far, Nowhere, NobodyYet
  <2> QED BY <1>2, <2>1, <2>2
<1>3. PsInv => PsTypeOK /\ PlaceIsSent
  BY QuietMeansSent DEF PsInv
<1> QED BY <1>1, <1>2, <1>3, PTL DEF PsSpec

-----------------------------------------------------------------------------
(***************************************************************************)
(* LibraryScan: for any number of libraries, both readers end with the     *)
(* first library that lists the game and holds it.                         *)
(*                                                                         *)
(* The argument.  A library is nine lines, so the line number says in      *)
(* which library a reader is and which of its lines comes next, and with   *)
(* it what path it holds and how deep in braces it is (WatcherInv,         *)
(* DialogInv): the path of that library from its path line on, and none    *)
(* that a reader could not take.                                           *)
(***************************************************************************)
\* The libraries whose path line has been read before line n; the path each
\* reader has kept then, and the braces the dialog has counted.
PathsBefore(n) == (n + 4) \div 9
WatcherHolds(n) == IF PathsBefore(n) = 0 THEN 0 ELSE LineValue(library[PathsBefore(n)], PathsBefore(n))
DialogHolds(n) == IF (n + 4) % 9 <= 6 THEN WatcherHolds(n) ELSE 0
DepthAt(n) ==
  IF n <= 2 \/ n = FileLines + 1 THEN 0
  ELSE IF (n + 6) % 9 = 0 THEN 1
  ELSE IF (n + 6) % 9 \in {5, 6, 7} THEN 3 ELSE 2

\* Where a reader stands: the game of library i is in line 9 * i.
NoneBefore(n) == \A i \in Hits : n <= 9 * i
FoundFirst(s) == s.result \in Hits /\ \A j \in Hits : s.result <= j
Stands(s) == (s.result = 0 /\ NoneBefore(s.at)) \/ FoundFirst(s)

WatcherInv ==
  LET s == scan["watcher"]
  IN s.pc = "read" => /\ steam = "file" /\ Stands(s)
                      /\ s.path = WatcherHolds(s.at)
DialogInv ==
  LET s == scan["dialog"]
  IN s.pc = "read" => /\ steam = "file" /\ Stands(s)
                      /\ s.path = DialogHolds(s.at) /\ s.depth = DepthAt(s.at)
IdleInv ==
  \A r \in LsReaders : scan[r].pc = "idle" =>
    scan[r].at = 1 /\ scan[r].path = 0 /\ scan[r].depth = 0 /\ scan[r].result = 0

LsInv == LsTypeOK /\ IdleInv /\ WatcherInv /\ DialogInv /\ BothFindTheGame

-----------------------------------------------------------------------------
LEMMA Lines9 ==
  ASSUME NEW i \in Nat \ {0}, NEW k \in 0..8
  PROVE  (9 * i + k) \div 9 = i /\ (9 * i + k) % 9 = k
  OBVIOUS

LEMMA Division ==
  ASSUME NEW n \in Nat
  PROVE  n \div 9 \in Nat /\ n % 9 \in 0..8 /\ n = 9 * (n \div 9) + (n % 9)
<1>1. n \div 9 \in Int /\ n % 9 \in 0..8 /\ n = 9 * (n \div 9) + (n % 9)
  OBVIOUS
<1> QED BY <1>1

-----------------------------------------------------------------------------
\* What a line of the file says: the four kinds that a reader reacts to.
LEMMA LineOfLibrary ==
  ASSUME LsTypeOK, NEW n \in 3..FileLines - 1,
         NEW i, i = (n + 6) \div 9, NEW k, k = (n + 6) % 9
  PROVE  /\ i \in 1..Len(library) /\ k \in 0..8 /\ n = 9 * i + k - 6
         /\ library[i] \in Library /\ LineValue(library[i], i) \in 0..Len(library)
         /\ Vdf(n).is = "path" <=> k = 1
         /\ Vdf(n).is = "open" <=> k \in {0, 4}
         /\ Vdf(n).is = "close" <=> k \in {7, 8}
         /\ Vdf(n).is = "game" <=> k = 6 /\ library[i].lists
         /\ k = 1 => Vdf(n).of = LineValue(library[i], i)
<1>1. n + 6 \in Nat /\ n \in Nat /\ Len(library) \in Nat /\ FileLines = 9 * Len(library) + 3
  BY DEF LsTypeOK, FileLines
<1>2. i \in Nat /\ k \in 0..8 /\ n + 6 = 9 * i + k
  BY <1>1, Division
<1>3. i \in 1..Len(library)
  BY <1>1, <1>2
<1>4. library[i] \in Library /\ LineValue(library[i], i) \in 0..Len(library)
  BY <1>1, <1>3 DEF LsTypeOK, LineValue
<1>5. Vdf(n) = LineIn(library[i], i, k)
  BY <1>1 DEF Vdf
<1>6. library[i].lists \in BOOLEAN
  BY <1>4 DEF Library
<1> HIDE DEF Library
<1>7. k \in {0, 4} => Vdf(n) = Open
  BY <1>5, <1>2 DEF LineIn
<1>8. k = 1 => Vdf(n) = [is |-> "path", of |-> LineValue(library[i], i)]
  BY <1>5, <1>2 DEF LineIn
<1>9. k = 3 => Vdf(n) = [is |-> "apps", of |-> 0]
  BY <1>5, <1>2 DEF LineIn
<1>10. k = 6 => Vdf(n) = IF library[i].lists THEN [is |-> "game", of |-> 0] ELSE Other
  BY <1>5, <1>2 DEF LineIn
<1>11. k \in {7, 8} => Vdf(n) = Close
  BY <1>5, <1>2 DEF LineIn
<1>12. k \in {2, 5} => Vdf(n) = Other
  BY <1>5, <1>2 DEF LineIn
<1>13. k \in {0, 1, 2, 3, 4, 5, 6, 7, 8}
  BY <1>2
<1>14. k = 0 \/ k = 1 \/ k = 2 \/ k = 3 \/ k = 4 \/ k = 5 \/ k = 6 \/ k = 7 \/ k = 8
  BY <1>13
<1>15. /\ Vdf(n).is = "path" <=> k = 1
       /\ Vdf(n).is = "open" <=> k \in {0, 4}
       /\ Vdf(n).is = "close" <=> k \in {7, 8}
       /\ Vdf(n).is = "game" <=> k = 6 /\ library[i].lists
       /\ k = 1 => Vdf(n).of = LineValue(library[i], i)
  BY <1>6, <1>7, <1>8, <1>9, <1>10, <1>11, <1>12, <1>14 DEF Open, Close, Other
<1> QED BY <1>1, <1>2, <1>3, <1>4, <1>15

LEMMA LineAround ==
  ASSUME LsTypeOK, NEW n \in 1..FileLines, n \notin 3..FileLines - 1
  PROVE  /\ n = 1 => Vdf(n) = Other
         /\ n = 2 => Vdf(n) = Open
         /\ n = FileLines => Vdf(n) = Close
         /\ n \in {1, 2, FileLines} /\ FileLines >= 3 /\ FileLines \in Nat
<1>1. Len(library) \in Nat /\ FileLines = 9 * Len(library) + 3
  BY DEF LsTypeOK, FileLines
<1>2. n \in {1, 2, FileLines} /\ FileLines >= 3 /\ FileLines \in Nat
  BY <1>1
<1> QED BY <1>2 DEF Vdf

\* The paths that have been read before and after line n.
LEMMA PathCount ==
  ASSUME NEW n \in Nat, NEW i \in Nat \ {0}, NEW k \in 0..8, n = 9 * i + k - 6
  PROVE  /\ PathsBefore(n) = IF k >= 2 THEN i ELSE i - 1
         /\ PathsBefore(n + 1) = IF k >= 1 THEN i ELSE i - 1
         /\ ((n + 4) % 9 <= 6) <=> k >= 2
         /\ ((n + 5) % 9 <= 6) <=> k \in 1..7
<1>1. PathsBefore(n) = (9 * i + k - 2) \div 9 /\ PathsBefore(n + 1) = (9 * i + k - 1) \div 9
  BY DEF PathsBefore
<1>2. n + 4 = 9 * i + k - 2 /\ n + 5 = 9 * i + k - 1
  OBVIOUS
<1>3. (9 * i + k - 2) \div 9 = IF k >= 2 THEN i ELSE i - 1
  OBVIOUS
<1>4. (9 * i + k - 1) \div 9 = IF k >= 1 THEN i ELSE i - 1
  OBVIOUS
<1>5. (9 * i + k - 2) % 9 = IF k >= 2 THEN k - 2 ELSE k + 7
  OBVIOUS
<1>6. (9 * i + k - 1) % 9 = IF k >= 1 THEN k - 1 ELSE 8
  OBVIOUS
<1> QED BY <1>1, <1>2, <1>3, <1>4, <1>5, <1>6

\* Around the libraries.
LEMMA PathCountAround ==
  ASSUME LsTypeOK, NEW n \in 1..FileLines, n \notin 3..FileLines - 1
  PROVE  /\ PathsBefore(n) = PathsBefore(n + 1)
         /\ ((n + 4) % 9 <= 6) => PathsBefore(n) = 0
         /\ ((n + 5) % 9 <= 6) => PathsBefore(n) = 0
<1>1. Len(library) \in Nat /\ FileLines = 9 * Len(library) + 3
  BY DEF LsTypeOK, FileLines
<1>2. n = 1 \/ n = 2 \/ n = 9 * Len(library) + 3
  BY <1>1
<1>3. CASE n = 1
  BY <1>3 DEF PathsBefore
<1>4. CASE n = 2
  BY <1>4 DEF PathsBefore
<1>5. CASE n = 9 * Len(library) + 3
  <2>1. /\ (9 * Len(library) + 7) \div 9 = Len(library) /\ (9 * Len(library) + 8) \div 9 = Len(library)
        /\ (9 * Len(library) + 7) % 9 = 7 /\ (9 * Len(library) + 8) % 9 = 8
    BY <1>1
  <2>2. n + 4 = 9 * Len(library) + 7 /\ (n + 1) + 4 = 9 * Len(library) + 8 /\ n + 5 = 9 * Len(library) + 8
    BY <1>1, <1>5
  <2> QED BY <2>1, <2>2 DEF PathsBefore
<1> QED BY <1>2, <1>3, <1>4, <1>5

-----------------------------------------------------------------------------
LEMMA WatcherPathStep ==
  ASSUME LsTypeOK, NEW n \in 1..FileLines, NEW s, s.path = WatcherHolds(n)
  PROVE  WatcherPath(s, Vdf(n)) = WatcherHolds(n + 1)
<1>0. n \in Nat
  BY DEF LsTypeOK, FileLines
<1>1. CASE n \in 3..FileLines - 1
  <2> DEFINE i == (n + 6) \div 9
             k == (n + 6) % 9
  <2>1. /\ i \in 1..Len(library) /\ k \in 0..8 /\ n = 9 * i + k - 6
        /\ Vdf(n).is = "path" <=> k = 1
        /\ k = 1 => Vdf(n).of = LineValue(library[i], i)
    BY <1>1, LineOfLibrary
  <2> HIDE DEF i, k
  <2>2. i \in Nat \ {0} /\ Len(library) \in Nat
    BY <2>1 DEF LsTypeOK
  <2>3. /\ PathsBefore(n) = IF k >= 2 THEN i ELSE i - 1
        /\ PathsBefore(n + 1) = IF k >= 1 THEN i ELSE i - 1
    BY <1>0, <2>1, <2>2, PathCount
  <2>4. CASE k = 1
    <3>1. WatcherPath(s, Vdf(n)) = LineValue(library[i], i)
      BY <2>1, <2>4 DEF WatcherPath
    <3>2. PathsBefore(n + 1) = i /\ i # 0
      BY <2>2, <2>3, <2>4
    <3> QED BY <3>1, <3>2 DEF WatcherHolds
  <2>5. CASE k # 1
    <3>1. WatcherPath(s, Vdf(n)) = s.path
      BY <2>1, <2>5 DEF WatcherPath
    <3>2. PathsBefore(n + 1) = PathsBefore(n)
      BY <2>1, <2>3, <2>5
    <3> QED BY <3>1, <3>2 DEF WatcherHolds
  <2> QED BY <2>4, <2>5
<1>2. CASE n \notin 3..FileLines - 1
  <2>1. Vdf(n).is # "path"
    BY <1>2, LineAround DEF Open, Close, Other
  <2>2. PathsBefore(n + 1) = PathsBefore(n)
    BY <1>2, PathCountAround
  <2> QED BY <2>1, <2>2 DEF WatcherPath, WatcherHolds
<1> QED BY <1>1, <1>2

LEMMA DialogDepthStep ==
  ASSUME LsTypeOK, NEW n \in 1..FileLines, NEW s, s.depth = DepthAt(n)
  PROVE  DialogDepth(s, Vdf(n)) = DepthAt(n + 1) /\ DepthAt(n + 1) \in 0..3
<1>0. n \in Nat /\ Len(library) \in Nat /\ FileLines = 9 * Len(library) + 3
  BY DEF LsTypeOK, FileLines
<1>1. CASE n \in 3..FileLines - 1
  <2> DEFINE i == (n + 6) \div 9
             k == (n + 6) % 9
  <2>1. /\ i \in 1..Len(library) /\ k \in 0..8 /\ n = 9 * i + k - 6
        /\ Vdf(n).is = "open" <=> k \in {0, 4}
        /\ Vdf(n).is = "close" <=> k \in {7, 8}
    BY <1>1, LineOfLibrary
  <2>2. DepthAt(n) = IF k = 0 THEN 1 ELSE IF k \in {5, 6, 7} THEN 3 ELSE 2
    BY <1>0, <1>1 DEF DepthAt
  <2> HIDE DEF i, k
  <2>3. ((n + 1) + 6) % 9 = IF k = 8 THEN 0 ELSE k + 1
    <3>1. (n + 1) + 6 = 9 * i + (k + 1)
      BY <1>0, <2>1
    <3> QED BY <1>0, <2>1, <3>1
  <2>4. DepthAt(n + 1) = IF k = 8 THEN 1 ELSE IF k \in {4, 5, 6} THEN 3 ELSE 2
    <3>1. ~(n + 1 <= 2) /\ n + 1 # FileLines + 1
      BY <1>0, <1>1
    <3>2. DepthAt(n + 1) = IF ((n + 1) + 6) % 9 = 0 THEN 1
                           ELSE IF ((n + 1) + 6) % 9 \in {5, 6, 7} THEN 3 ELSE 2
      BY <3>1 DEF DepthAt
    <3>3. CASE k = 8
      BY <2>3, <3>2, <3>3
    <3>4. CASE k # 8
      <4>1. ((n + 1) + 6) % 9 = k + 1
        BY <2>3, <3>4
      <4> QED BY <2>1, <3>2, <3>4, <4>1
    <3> QED BY <3>3, <3>4
  <2>5. DialogDepth(s, Vdf(n)) = IF k \in {0, 4} THEN DepthAt(n) + 1
                                 ELSE IF k \in {7, 8} THEN DepthAt(n) - 1 ELSE DepthAt(n)
    BY <2>1 DEF DialogDepth
  <2>6. k \in {0, 1, 2, 3, 4, 5, 6, 7, 8}
    BY <2>1
  <2> QED BY <2>2, <2>4, <2>5, <2>6
<1>2. CASE n = 1
  <2>1. Vdf(n) = Other /\ DepthAt(1) = 0 /\ DepthAt(2) = 0
    BY <1>0, <1>2 DEF Vdf, DepthAt
  <2> QED BY <1>2, <2>1 DEF Other, DialogDepth
<1>3. CASE n = 2
  <2>1. Vdf(n) = Open /\ DepthAt(2) = 0 /\ DepthAt(3) = 1
    BY <1>0, <1>3 DEF Vdf, DepthAt
  <2> QED BY <1>3, <2>1 DEF Open, DialogDepth
<1>4. CASE n = FileLines
  <2>1. (n + 6) % 9 = 0
    BY <1>0, <1>4
  <2>2. Vdf(n) = Close /\ DepthAt(n) = 1 /\ DepthAt(n + 1) = 0
    BY <1>0, <1>4, <2>1 DEF Vdf, DepthAt
  <2> QED BY <2>2 DEF Close, DialogDepth
<1> QED BY <1>0, <1>1, <1>2, <1>3, <1>4

LEMMA DialogPathStep ==
  ASSUME LsTypeOK, NEW n \in 1..FileLines, NEW s, s.path = DialogHolds(n), s.depth = DepthAt(n)
  PROVE  DialogPath(s, Vdf(n)) = DialogHolds(n + 1)
<1>0. n \in Nat /\ Len(library) \in Nat /\ FileLines = 9 * Len(library) + 3
  BY DEF LsTypeOK, FileLines
<1>1. CASE n \in 3..FileLines - 1
  <2> DEFINE i == (n + 6) \div 9
             k == (n + 6) % 9
             v == LineValue(library[i], i)
  <2>1. /\ i \in 1..Len(library) /\ k \in 0..8 /\ n = 9 * i + k - 6
        /\ Vdf(n).is = "path" <=> k = 1
        /\ Vdf(n).is = "close" <=> k \in {7, 8}
        /\ k = 1 => Vdf(n).of = v
    BY <1>1, LineOfLibrary
  <2>2. DepthAt(n) = IF k = 0 THEN 1 ELSE IF k \in {5, 6, 7} THEN 3 ELSE 2
    BY <1>0, <1>1 DEF DepthAt
  <2> HIDE DEF i, k
  <2>3. i \in Nat \ {0}
    BY <1>0, <2>1
  <2>4. /\ PathsBefore(n) = IF k >= 2 THEN i ELSE i - 1
        /\ PathsBefore(n + 1) = IF k >= 1 THEN i ELSE i - 1
        /\ ((n + 4) % 9 <= 6) <=> k >= 2
        /\ ((n + 5) % 9 <= 6) <=> k \in 1..7
    BY <1>0, <2>1, <2>3, PathCount
  <2>5. DialogHolds(n) = IF k >= 2 THEN v ELSE 0
    BY <2>1, <2>3, <2>4 DEF DialogHolds, WatcherHolds
  <2>6. DialogHolds(n + 1) = IF k \in 1..7 THEN v ELSE 0
    <3>1. (n + 1) + 4 = n + 5
      BY <1>0
    <3> QED BY <2>1, <2>3, <2>4, <3>1 DEF DialogHolds, WatcherHolds
  <2> HIDE DEF v
  <2>7. DialogPath(s, Vdf(n)) = IF k = 8 THEN 0 ELSE IF k = 1 /\ v # 0 THEN v ELSE s.path
    BY <2>1, <2>2 DEF DialogPath
  <2> QED BY <2>1, <2>5, <2>6, <2>7
<1>2. CASE n \notin 3..FileLines - 1
  <2>1. /\ PathsBefore(n) = PathsBefore(n + 1)
        /\ ((n + 4) % 9 <= 6) => PathsBefore(n) = 0
        /\ ((n + 5) % 9 <= 6) => PathsBefore(n) = 0
    BY <1>2, PathCountAround
  <2>2. (n + 1) + 4 = n + 5
    BY <1>0
  <2>3. DialogHolds(n) = 0 /\ DialogHolds(n + 1) = 0
    BY <2>1, <2>2 DEF DialogHolds, WatcherHolds
  <2>4. Vdf(n).is # "path"
    BY <1>2, LineAround DEF Open, Close, Other
  <2> QED BY <2>3, <2>4 DEF DialogPath
<1> QED BY <1>1, <1>2

-----------------------------------------------------------------------------
\* A line is the hit of a reader that keeps the path of its library.
LEMMA FoundAtHit ==
  ASSUME LsTypeOK, NEW n \in 1..FileLines, NEW path,
         path \in {WatcherHolds(n + 1), DialogHolds(n + 1)}
  PROVE  /\ Found(path, Vdf(n)) <=> \E i \in Hits : n = 9 * i
         /\ \A i \in Hits : n = 9 * i => path = i
<1>0. n \in Nat /\ Len(library) \in Nat /\ FileLines = 9 * Len(library) + 3
  BY DEF LsTypeOK, FileLines
<1>1. Hits \subseteq 1..Len(library)
  BY DEF Hits, LsTypeOK
<1>2. CASE n \in 3..FileLines - 1
  <2> DEFINE i == (n + 6) \div 9
             k == (n + 6) % 9
             v == LineValue(library[i], i)
  <2>1. /\ i \in 1..Len(library) /\ k \in 0..8 /\ n = 9 * i + k - 6
        /\ Vdf(n).is = "game" <=> k = 6 /\ library[i].lists
    BY <1>2, LineOfLibrary
  <2> HIDE DEF i, k
  <2>2. i \in Nat \ {0}
    BY <1>0, <2>1
  <2>3. CASE k = 6
    <3>1. n = 9 * i
      BY <1>0, <2>1, <2>3
    <3>2. PathsBefore(n + 1) = i /\ (((n + 5) % 9 <= 6) <=> k \in 1..7)
      BY <1>0, <2>1, <2>2, <2>3, PathCount
    <3>3. (n + 1) + 4 = n + 5
      BY <1>0
    <3>4. path = v
      BY <2>1, <2>2, <2>3, <3>2, <3>3 DEF DialogHolds, WatcherHolds
    <3>5. \A j \in Hits : n = 9 * j => j = i
      BY <1>0, <1>1, <2>1, <3>1
    <3>6. i \in Hits => v = i
      BY DEF Hits, LineValue
    <3>7. Found(path, Vdf(n)) <=> i \in Hits
      BY <2>1, <2>2, <2>3, <3>4 DEF Found, IsFolder, Hits, LineValue
    <3> QED BY <3>1, <3>4, <3>5, <3>6, <3>7
  <2>4. CASE k # 6
    <3>1. \A j \in Hits : n # 9 * j
      BY <1>0, <1>1, <2>1, <2>4
    <3> QED BY <2>1, <2>4, <3>1 DEF Found
  <2> QED BY <2>3, <2>4
<1>3. CASE n \notin 3..FileLines - 1
  <2>1. Vdf(n).is # "game"
    BY <1>3, LineAround DEF Open, Close, Other
  <2>2. n \in {1, 2, FileLines}
    BY <1>3, LineAround
  <2>3. \A j \in Hits : n # 9 * j
    BY <1>0, <1>1, <2>2
  <2> QED BY <2>1, <2>3 DEF Found
<1> QED BY <1>2, <1>3

\* One line further, a reader that has found nothing stands right again.
LEMMA StandsStep ==
  ASSUME LsTypeOK, NEW n \in 1..FileLines, NEW path, NEW s, NEW t,
         path \in {WatcherHolds(n + 1), DialogHolds(n + 1)},
         s.at = n, s.result = 0, Stands(s), t.at = n + 1,
         t.result = IF Found(path, Vdf(n)) THEN path ELSE 0
  PROVE  Stands(t)
<1>0. n \in Nat /\ Hits \subseteq Nat \ {0}
  BY DEF LsTypeOK, FileLines, Hits
<1>1. NoneBefore(n)
  BY <1>0 DEF Stands, FoundFirst
<1>2. CASE Found(path, Vdf(n))
  <2>1. PICK i \in Hits : n = 9 * i
    BY <1>2, FoundAtHit
  <2>2. path = i
    BY <2>1, FoundAtHit
  <2>3. \A j \in Hits : i <= j
    BY <1>0, <1>1, <2>1 DEF NoneBefore
  <2> QED BY <1>2, <2>1, <2>2, <2>3 DEF Stands, FoundFirst
<1>3. CASE ~Found(path, Vdf(n))
  <2>1. \A j \in Hits : n # 9 * j
    BY <1>3, FoundAtHit
  <2>2. NoneBefore(n + 1)
    BY <1>0, <1>1, <2>1 DEF NoneBefore
  <2> QED BY <1>3, <2>2 DEF Stands
<1> QED BY <1>2, <1>3

\* At the end of a scan the reader has what the file says.
LEMMA ScanEnds ==
  ASSUME LsTypeOK, steam = "file", NEW s, s.at \in Nat, Stands(s),
         s.result # 0 \/ s.at > FileLines
  PROVE  s.result = Reference
<1>0. Len(library) \in Nat /\ FileLines = 9 * Len(library) + 3 /\ Hits \subseteq 1..Len(library)
  BY DEF LsTypeOK, FileLines, Hits
<1>1. CASE FoundFirst(s)
  <2>1. ASSUME NEW i \in Hits, \A j \in Hits : i <= j  PROVE  i = s.result
    <3>1. i <= s.result /\ s.result <= i
      BY <1>1, <2>1 DEF FoundFirst
    <3>2. i \in Nat /\ s.result \in Nat
      <4>1. 1..Len(library) \subseteq Nat
        BY <1>0
      <4> QED BY <1>0, <1>1, <2>1, <4>1 DEF FoundFirst
    <3> QED BY <3>1, <3>2
  <2>2. (CHOOSE i \in Hits : \A j \in Hits : i <= j) = s.result
    BY <1>1, <2>1 DEF FoundFirst
  <2> QED BY <1>1, <2>2 DEF Reference, FoundFirst
<1>2. CASE ~FoundFirst(s)
  <2>1. s.result = 0 /\ \A i \in Hits : s.at <= 9 * i
    BY <1>2 DEF Stands, NoneBefore
  <2>2. Hits = {}
    BY <1>0, <2>1
  <2> QED BY <2>1, <2>2 DEF Reference
<1> QED BY <1>1, <1>2

\* What a reader keeps is a library, or nothing.
LEMMA HeldIsLibrary ==
  ASSUME LsTypeOK, NEW n \in 1..FileLines
  PROVE  WatcherHolds(n + 1) \in 0..Len(library) /\ DialogHolds(n + 1) \in 0..Len(library)
<1>1. n \in Nat /\ Len(library) \in Nat /\ FileLines = 9 * Len(library) + 3
  BY DEF LsTypeOK, FileLines
<1>2. (n + 1) + 4 \in Nat
  BY <1>1
<1>3. PathsBefore(n + 1) \in Nat /\ 9 * PathsBefore(n + 1) <= (n + 1) + 4
  BY <1>2, Division DEF PathsBefore
<1>4. PathsBefore(n + 1) \in 0..Len(library)
  BY <1>1, <1>3
<1> QED BY <1>1, <1>4 DEF WatcherHolds, DialogHolds, LineValue

-----------------------------------------------------------------------------
LEMMA LsInvInit == ASSUME LsAssumption, LsInit PROVE LsInv
<1>1. library \in Seq(Library) /\ Len(library) <= LsLibraries
  <2>1. PICK n \in 0..LsLibraries : library \in [1..n -> Library]
    BY DEF LsInit
  <2>2. n \in Nat /\ n <= LsLibraries
    BY <2>1 DEF LsAssumption
  <2> QED BY <2>1, <2>2
<1>2. Len(library) \in Nat /\ FileLines \in Nat /\ FileLines >= 3
  BY <1>1 DEF FileLines
<1>3. \A r \in LsReaders : scan[r] = [pc |-> "idle", at |-> 1, path |-> 0, depth |-> 0, result |-> 0]
  BY DEF LsInit
<1>4. scan \in [LsReaders -> ScanStates]
  BY DEF LsInit, ScanStates
<1>5. LsTypeOK
  BY <1>1, <1>2, <1>3, <1>4 DEF LsTypeOK, LsInit
<1> QED BY <1>3, <1>5 DEF LsInv, IdleInv, WatcherInv, DialogInv, BothFindTheGame, LsReaders

\* What stays as it is while the two readers read.
LEMMA FileStays ==
  ASSUME UNCHANGED <<steam, library>>
  PROVE  /\ FileLines' = FileLines /\ Hits' = Hits /\ Reference' = Reference
         /\ \A n : /\ WatcherHolds(n)' = WatcherHolds(n) /\ DialogHolds(n)' = DialogHolds(n)
                  /\ DepthAt(n)' = DepthAt(n)
  BY DEF FileLines, Hits, Reference, WatcherHolds, DialogHolds, DepthAt

\* A scan whose new state t, of reader r, is well typed and stands right.
LEMMA OneReads ==
  ASSUME LsInv, UNCHANGED <<steam, library>>, NEW r \in LsReaders, NEW t \in ScanStates,
         scan' = [scan EXCEPT ![r] = t],
         t.at \in 1..FileLines + 1, t.path \in 0..Len(library), t.depth \in 0..3,
         t.result \in 0..Len(library), t.pc # "idle",
         t.pc = "read" => /\ steam = "file" /\ Stands(t)
                          /\ r = "watcher" => t.path = WatcherHolds(t.at)
                          /\ r = "dialog" => t.path = DialogHolds(t.at) /\ t.depth = DepthAt(t.at),
         t.pc = "done" => t.result = Reference
  PROVE  LsInv'
<1>1. scan'[r] = t /\ \A q \in LsReaders : q # r => scan'[q] = scan[q]
  BY DEF LsInv, LsTypeOK
<1>2. scan' \in [LsReaders -> ScanStates]
  BY DEF LsInv, LsTypeOK
<1>3. /\ FileLines' = FileLines /\ Hits' = Hits /\ Reference' = Reference
      /\ \A n : /\ WatcherHolds(n)' = WatcherHolds(n) /\ DialogHolds(n)' = DialogHolds(n)
               /\ DepthAt(n)' = DepthAt(n)
  BY FileStays
<1>4. LsTypeOK'
  BY <1>1, <1>2, <1>3 DEF LsInv, LsTypeOK
<1>5. IdleInv' /\ BothFindTheGame'
  BY <1>1, <1>3 DEF LsInv, IdleInv, BothFindTheGame
<1>6. WatcherInv'
  <2>1. \A s : /\ (s.result \in Hits /\ \A j \in Hits : s.result <= j)
                 => s.result \in Hits' /\ \A j \in Hits' : s.result <= j
             /\ (\A i \in Hits : s.at <= 9 * i) => \A i \in Hits' : s.at <= 9 * i
    BY <1>3
  <2>2. CASE r = "watcher"
    BY <1>1, <1>3, <2>1, <2>2 DEF WatcherInv, Stands, FoundFirst, NoneBefore
  <2>3. CASE r # "watcher"
    <3>1. scan'["watcher"] = scan["watcher"]
      BY <1>1, <2>3 DEF LsReaders
    <3> QED BY <1>3, <2>1, <3>1 DEF LsInv, WatcherInv, Stands, FoundFirst, NoneBefore
  <2> QED BY <2>2, <2>3
<1>7. DialogInv'
  <2>1. \A s : /\ (s.result \in Hits /\ \A j \in Hits : s.result <= j)
                 => s.result \in Hits' /\ \A j \in Hits' : s.result <= j
             /\ (\A i \in Hits : s.at <= 9 * i) => \A i \in Hits' : s.at <= 9 * i
    BY <1>3
  <2>2. CASE r = "dialog"
    BY <1>1, <1>3, <2>1, <2>2 DEF DialogInv, Stands, FoundFirst, NoneBefore
  <2>3. CASE r # "dialog"
    <3>1. scan'["dialog"] = scan["dialog"]
      BY <1>1, <2>3 DEF LsReaders
    <3> QED BY <1>3, <2>1, <3>1 DEF LsInv, DialogInv, Stands, FoundFirst, NoneBefore
  <2> QED BY <2>2, <2>3
<1> QED BY <1>4, <1>5, <1>6, <1>7 DEF LsInv

LEMMA LsInvStep ==
  ASSUME LsInv, [LsNext]_lsvars
  PROVE  LsInv'
<1>0. /\ LsTypeOK /\ Len(library) \in Nat /\ FileLines = 9 * Len(library) + 3 /\ FileLines \in Nat
      /\ Hits \subseteq 1..Len(library)
  BY DEF LsInv, LsTypeOK, FileLines, Hits
<1>1. ASSUME NEW r \in LsReaders, LsStart(r)  PROVE LsInv'
  <2> DEFINE t == [scan[r] EXCEPT !.pc = IF steam = "file" THEN "read" ELSE "done"]
  <2>1. /\ scan[r] \in ScanStates /\ scan[r].pc = "idle" /\ scan[r].at = 1 /\ scan[r].path = 0
        /\ scan[r].depth = 0 /\ scan[r].result = 0
    BY <1>1 DEF LsInv, LsTypeOK, LsStart, IdleInv
  <2>2. /\ t \in ScanStates /\ t.pc = (IF steam = "file" THEN "read" ELSE "done") /\ t.at = 1
        /\ t.path = 0 /\ t.depth = 0 /\ t.result = 0
    BY <2>1 DEF ScanStates
  <2>3. scan' = [scan EXCEPT ![r] = t] /\ UNCHANGED <<steam, library>>
    BY <1>1 DEF LsStart
  <2> HIDE DEF t
  <2>4. Stands(t) /\ WatcherHolds(1) = 0 /\ DialogHolds(1) = 0 /\ DepthAt(1) = 0
    <3>1. PathsBefore(1) = 0
      BY DEF PathsBefore
    <3>2. NoneBefore(1)
      BY <1>0 DEF NoneBefore
    <3> QED BY <2>2, <3>1, <3>2 DEF Stands, WatcherHolds, DialogHolds, DepthAt
  <2>5. steam # "file" => Reference = 0
    BY DEF Reference
  <2>6. t.at \in 1..FileLines + 1 /\ t.path \in 0..Len(library) /\ t.depth \in 0..3
        /\ t.result \in 0..Len(library) /\ t.pc # "idle"
    BY <1>0, <2>2
  <2>7. (t.pc = "read" => steam = "file") /\ (t.pc = "done" => t.result = Reference)
    BY <2>2, <2>5
  <2> QED BY <2>2, <2>3, <2>4, <2>6, <2>7, OneReads
<1>2. ASSUME NEW r \in LsReaders, LsEnd(r)  PROVE LsInv'
  <2> DEFINE t == [scan[r] EXCEPT !.pc = "done"]
  <2>1. /\ scan[r] \in ScanStates /\ scan[r].pc = "read"
        /\ scan[r].at \in 1..FileLines + 1 /\ scan[r].path \in 0..Len(library)
        /\ scan[r].depth \in 0..3 /\ scan[r].result \in 0..Len(library)
    BY <1>2 DEF LsInv, LsTypeOK, LsEnd
  <2>2. /\ t \in ScanStates /\ t.pc = "done" /\ t.at = scan[r].at
        /\ t.path = scan[r].path /\ t.depth = scan[r].depth /\ t.result = scan[r].result
    BY <2>1 DEF ScanStates
  <2>3. scan' = [scan EXCEPT ![r] = t] /\ UNCHANGED <<steam, library>>
    BY <1>2 DEF LsEnd
  <2>4. steam = "file" /\ Stands(scan[r])
    BY <2>1 DEF LsInv, WatcherInv, DialogInv, LsReaders
  <2>5. scan[r].result = Reference
    <3>1. scan[r].result # 0 \/ scan[r].at > FileLines
      BY <1>0, <1>2, <2>1 DEF LsEnd, LsMore
    <3> QED BY <1>0, <2>1, <2>4, <3>1, ScanEnds
  <2> HIDE DEF t
  <2> QED BY <2>1, <2>2, <2>3, <2>5, OneReads
<1>3. CASE WatcherLine
  <2> DEFINE s == scan["watcher"]
             n == s.at
             p == WatcherPath(s, Vdf(n))
             q == IF Found(p, Vdf(n)) THEN p ELSE 0
             t == [s EXCEPT !.at = n + 1, !.path = p, !.result = q]
  <2>0. "watcher" \in LsReaders
    BY DEF LsReaders
  <2>1. /\ s \in ScanStates /\ s.pc = "read" /\ s.result = 0 /\ n \in 1..FileLines
        /\ s.depth \in 0..3 /\ steam = "file" /\ Stands(s) /\ s.path = WatcherHolds(n)
    BY <1>0, <1>3, <2>0 DEF LsInv, LsTypeOK, WatcherLine, LsMore, WatcherInv
  <2>2. scan' = [scan EXCEPT !["watcher"] = t] /\ UNCHANGED <<steam, library>>
    BY <1>3 DEF WatcherLine, Line
  <2> HIDE DEF s, n
  <2>3. p = WatcherHolds(n + 1)
    BY <1>0, <2>1, WatcherPathStep
  <2>4. p \in 0..Len(library) /\ q \in 0..Len(library) /\ p \in Nat /\ q \in Nat
    <3>1. p \in 0..Len(library)
      BY <1>0, <2>1, <2>3, HeldIsLibrary
    <3> HIDE DEF p
    <3>2. q \in 0..Len(library)
      BY <1>0, <3>1
    <3> HIDE DEF q
    <3> QED BY <1>0, <3>1, <3>2
  <2>9. q = IF Found(p, Vdf(n)) THEN p ELSE 0
    OBVIOUS
  <2> HIDE DEF p, q
  <2>5. /\ t \in ScanStates /\ t.pc = "read" /\ t.at = n + 1 /\ t.path = p /\ t.depth = s.depth
        /\ t.result = q
    <3>1. n + 1 \in Nat
      BY <1>0, <2>1
    <3> QED BY <2>1, <2>4, <3>1 DEF ScanStates
  <2> HIDE DEF t
  <2>6. Stands(t)
    BY <1>0, <2>1, <2>3, <2>5, <2>9, StandsStep DEF n
  <2>7. t.at \in 1..FileLines + 1 /\ t.result \in 0..Len(library)
    BY <1>0, <2>1, <2>4, <2>5
  <2> QED BY <2>0, <2>1, <2>2, <2>3, <2>4, <2>5, <2>6, <2>7, OneReads
<1>4. CASE DialogLine
  <2> DEFINE s == scan["dialog"]
             n == s.at
             p == DialogPath(s, Vdf(n))
             q == IF Found(p, Vdf(n)) THEN p ELSE 0
             d == DialogDepth(s, Vdf(n))
             t == [s EXCEPT !.at = n + 1, !.path = p, !.depth = d,
                            !.result = q]
  <2>0. "dialog" \in LsReaders
    BY DEF LsReaders
  <2>1. /\ s \in ScanStates /\ s.pc = "read" /\ s.result = 0 /\ n \in 1..FileLines
        /\ steam = "file" /\ Stands(s) /\ s.path = DialogHolds(n) /\ s.depth = DepthAt(n)
    BY <1>0, <1>4, <2>0 DEF LsInv, LsTypeOK, DialogLine, LsMore, DialogInv
  <2>2. scan' = [scan EXCEPT !["dialog"] = t] /\ UNCHANGED <<steam, library>>
    BY <1>4 DEF DialogLine, Line
  <2> HIDE DEF s, n
  <2>3. p = DialogHolds(n + 1) /\ d = DepthAt(n + 1) /\ d \in 0..3
    BY <1>0, <2>1, DialogPathStep, DialogDepthStep
  <2>4. p \in 0..Len(library) /\ q \in 0..Len(library) /\ p \in Nat /\ q \in Nat
    <3>1. p \in 0..Len(library)
      BY <1>0, <2>1, <2>3, HeldIsLibrary
    <3> HIDE DEF p
    <3>2. q \in 0..Len(library)
      BY <1>0, <3>1
    <3> HIDE DEF q
    <3> QED BY <1>0, <3>1, <3>2
  <2>9. q = IF Found(p, Vdf(n)) THEN p ELSE 0
    OBVIOUS
  <2> HIDE DEF p, q, d
  <2>5. /\ t \in ScanStates /\ t.pc = "read" /\ t.at = n + 1 /\ t.path = p /\ t.depth = d
        /\ t.result = q
    <3>1. n + 1 \in Nat /\ d \in Nat
      BY <1>0, <2>1, <2>3
    <3> QED BY <2>1, <2>4, <3>1 DEF ScanStates
  <2> HIDE DEF t
  <2>6. Stands(t)
    BY <1>0, <2>1, <2>3, <2>5, <2>9, StandsStep DEF n
  <2>7. t.at \in 1..FileLines + 1 /\ t.result \in 0..Len(library)
    BY <1>0, <2>1, <2>4, <2>5
  <2> QED BY <2>0, <2>1, <2>2, <2>3, <2>4, <2>5, <2>6, <2>7, OneReads
<1>5. CASE UNCHANGED lsvars
  BY <1>5 DEF lsvars, LsInv, LsTypeOK, IdleInv, WatcherInv, DialogInv, BothFindTheGame, Stands,
     FoundFirst, NoneBefore, Hits, Reference, FileLines, WatcherHolds, DialogHolds, DepthAt
<1> QED BY <1>1, <1>2, <1>3, <1>4, <1>5 DEF LsNext

(***************************************************************************)
(* Whatever Steam wrote, the position watcher and the settings dialog find *)
(* the folder of the same library, the first that lists the game and holds *)
(* it, for any number of libraries: a path never outlives its library.     *)
(***************************************************************************)
THEOREM LibraryIsFound ==
  ASSUME LsAssumption
  PROVE  LsSpec => [](LsTypeOK /\ BothFindTheGame)
<1>1. LsInit => LsInv
  BY LsInvInit
<1>2. LsInv /\ [LsNext]_lsvars => LsInv'
  BY LsInvStep
<1>3. LsInv => LsTypeOK /\ BothFindTheGame
  BY DEF LsInv
<1> QED BY <1>1, <1>2, <1>3, PTL DEF LsSpec
=============================================================================
