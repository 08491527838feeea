------------------------------- MODULE MCLive --------------------------------
(***************************************************************************)
(* The components that have to arrive somewhere, checked by one run: a     *)
(* behaviour is one of the component that part names.  Those that are      *)
(* extended keep their own variables and properties, and stay as they      *)
(* began while another component moves; the others share the variables s1  *)
(* to s18, each under its own names.                                       *)
(***************************************************************************)
EXTENDS Lifecycle, PeerExchange, RemotePlayers

CONSTANTS Parts,          \* the components to check
          Digits, NoName

VARIABLES part, s1, s2, s3, s4, s5, s6, s7, s8, s9, s10, s11, s12, s13, s14, s15, s16,
          s17, s18

shared  == <<s1, s2, s3, s4, s5, s6, s7, s8, s9, s10, s11, s12, s13, s14, s15, s16,
             s17, s18>>
allvars == <<part, shared, lfvars, pxvars, rpvars>>

\* With the feed of positions, and moves that answer late, fail or are lost.
Chan == INSTANCE ChannelMove WITH
  AutoMove <- TRUE, Muting <- TRUE, ForceSpeakers <- FALSE, Arrive <- {"root"},
  PositionFeed <- TRUE, RcSlots <- 8, MaxEvents <- 2, MaxFaults <- 1,
  ch <- s1, phase <- s2, own <- s3, name <- s4, coords <- s5, speakers <- s6, gate <- s7,
  exists <- s8, at <- s9, inbox <- s10, answers <- s11, events <- s12, faults <- s13

Pos == INSTANCE PositionFeed WITH
  PosFresh <- 1, PosHold <- 1, PosStale <- 2, PosGrace <- 3, PosEvents <- 2, PosStarts <- 1,
  posLife <- s1, posLock <- s2, running <- s3, othersUp <- s4, posFile <- s5, useFile <- s6,
  feed <- s7, quad <- s8, lastSeq <- s9, tick <- s10, inj <- s11, reader <- s12,
  posEvents <- s13, posStarts <- s14

Http == INSTANCE HttpListener WITH
  HlSockets <- {1, 2}, HlDeadline <- 2, HlTransientMax <- 2, HlStreakMax <- 1, HlPwTtl <- 1,
  HlMaxClients <- 1, HlMaxFaults <- 2,
  hlSock <- s1, hlOpen <- s2, hlTwice <- s3, hlEvent <- s4, hlOwner <- s5, hlPc <- s6,
  hlHand <- s7, hlStreak <- s8, hlReq <- s9, hlLeft <- s10, hlPw <- s11, hlOcc <- s12,
  hlPos <- s13, hlStale <- s14, hlLogged <- s15, hlThr <- s16, hlClients <- s17,
  hlFaults <- s18

Td == INSTANCE Ts3d WITH
  Speakers3d <- {1, 2, 3}, SetsPerPass <- 1, TdMaxEvents <- 2, TdMaxFaults <- 1,
  heard <- s1, self <- s2, cache <- s3, held <- s4, backoff <- s5, cursor <- s6, left <- s7,
  tdEvents <- s8, tdFaults <- s9

ASSUME MCLiveAssumption ==
  /\ Chan!ChannelAssumption /\ Pos!PosAssumption /\ Http!HlAssumption /\ Td!TdAssumption
  /\ LfAssumption /\ PxAssumption /\ RpAssumption
-----------------------------------------------------------------------------
\* The shared variables after the n-th have no meaning for a component that
\* has n.
Blank(n) ==
  /\ n = 0 => s1 = 0 /\ s2 = 0 /\ s3 = 0 /\ s4 = 0 /\ s5 = 0
  /\ n < 6 => s6 = 0
  /\ n < 7 => s7 = 0
  /\ n < 8 => s8 = 0
  /\ n < 9 => s9 = 0
  /\ n < 10 => s10 = 0
  /\ n < 11 => s11 = 0
  /\ n < 12 => s12 = 0
  /\ n < 13 => s13 = 0
  /\ n < 14 => s14 = 0
  /\ n < 15 => s15 = 0
  /\ n < 16 => s16 = 0
  /\ n < 17 => s17 = 0
  /\ n < 18 => s18 = 0

Kept(n) ==
  /\ n < 6 => UNCHANGED s6
  /\ n < 7 => UNCHANGED s7
  /\ n < 8 => UNCHANGED s8
  /\ n < 9 => UNCHANGED s9
  /\ n < 10 => UNCHANGED s10
  /\ n < 11 => UNCHANGED s11
  /\ n < 12 => UNCHANGED s12
  /\ n < 13 => UNCHANGED s13
  /\ n < 14 => UNCHANGED s14
  /\ n < 15 => UNCHANGED s15
  /\ n < 16 => UNCHANGED s16
  /\ n < 17 => UNCHANGED s17
  /\ n < 18 => UNCHANGED s18

\* Of the components that are extended, only the one named p moves.
Extended == {"lifecycle", "exchange", "players"}
Others(p) ==
  /\ UNCHANGED part
  /\ p \in Extended => UNCHANGED shared
  /\ p # "lifecycle" => UNCHANGED lfvars
  /\ p # "exchange" => UNCHANGED pxvars
  /\ p # "players" => UNCHANGED rpvars

MCInit ==
  /\ part \in Parts
  /\ \/ part = "channel" /\ Chan!ChanInit /\ Blank(13)
     \/ part = "position" /\ Pos!PosInit /\ Blank(14)
     \/ part = "http" /\ Http!HlInit /\ Blank(18)
     \/ part = "ts3d" /\ Td!TdInit /\ Blank(9)
     \/ part \in Extended /\ Blank(0)
  /\ LfInit
  /\ PxInit /\ (part # "exchange" => proto = "mode")
  /\ RpInit /\ (part # "players" => here = 0)

MCNext ==
  \/ part = "channel" /\ Chan!ChanNext /\ Kept(13) /\ Others("channel")
  \/ part = "position" /\ Pos!PosNext /\ Kept(14) /\ Others("position")
  \/ part = "http" /\ Http!HlNext /\ Kept(18) /\ Others("http")
  \/ part = "ts3d" /\ Td!TdNext /\ Kept(9) /\ Others("ts3d")
  \/ part = "lifecycle" /\ LfNext /\ Others("lifecycle")
  \/ part = "exchange" /\ PxNext /\ Others("exchange")
  \/ part = "players" /\ RpNext /\ Others("players")

(* The fairness of each component (ChanFairness, PosFairness, HlFairness,  *)
(* LfFairness, PxFairness, RpFairness, TdFairness), asked for while it is  *)
(* the one that moves.  As part never changes, the weak fairness of one    *)
(* action in each of them is the weak fairness of their disjunction.       *)
Moving ==
  CASE part = "lifecycle" -> lfvars
    [] part = "exchange"  -> pxvars
    [] part = "players"   -> rpvars
    [] OTHER              -> shared

First ==
  \/ part = "channel" /\ Chan!Server /\ Kept(13)
  \/ part = "position" /\ Pos!TickBegins /\ Kept(14)
  \/ part = "http" /\ Http!ThreadRuns /\ Kept(18)
  \/ part = "lifecycle" /\ OvStep
  \/ part = "exchange" /\ PxWork("c1")
  \/ part = "players" /\ OwnSample
  \/ part = "ts3d" /\ Td!Apply3d /\ Kept(9)
Second ==
  \/ part = "channel" /\ Chan!Sample /\ Kept(13)
  \/ /\ part = "position" /\ Kept(14)
     /\ Pos!TickDecides \/ Pos!TickTakes \/ Pos!TickDrops \/ Pos!TickEnds
  \/ part = "http" /\ Http!HlStopGoesOn /\ Kept(18)
  \/ part = "lifecycle" /\ MonEnd
  \/ part = "exchange" /\ PxWork("c2")
  \/ part = "players" /\ Drain
  \/ part = "ts3d" /\ Td!BackoffEnds(1) /\ Kept(9)
Third ==
  \/ part = "channel" /\ Chan!Unthrottle /\ Kept(13)
  \/ part = "position" /\ Pos!InjectContinues /\ Kept(14)
  \/ part = "lifecycle" /\ KeyStep
  \/ part = "ts3d" /\ Td!BackoffEnds(2) /\ Kept(9)
Fourth ==
  \/ part = "channel" /\ Chan!Cool /\ Kept(13)
  \/ part = "position" /\ Pos!PosStopEnds /\ Kept(14)
  \/ part = "lifecycle" /\ OpenStep("key")
  \/ part = "ts3d" /\ Td!BackoffEnds(3) /\ Kept(9)
Fifth ==
  \/ /\ part = "channel" /\ Kept(13)
     /\ Chan!Age \/ Chan!BackoffOver \/ Chan!DwellOver \/ Chan!FindDue
  \/ part = "lifecycle" /\ OpenStep("menu")

LifeTurn(A) == part = "lifecycle" /\ A
Turn(A)     == A /\ UNCHANGED part

Fairness ==
  /\ WF_Moving(Turn(First)) /\ WF_Moving(Turn(Second)) /\ WF_Moving(Turn(Third))
  /\ WF_Moving(Turn(Fourth)) /\ WF_Moving(Turn(Fifth))
  /\ WF_lfvars(LifeTurn(OpenStep("cfg"))) /\ WF_lfvars(LifeTurn(DlgStep(1)))
  /\ WF_lfvars(LifeTurn(DlgStep(2))) /\ WF_lfvars(LifeTurn(ShutStep))
  /\ WF_lfvars(LifeTurn(SignalQuitAgain))
  /\ []<>~(part = "channel" /\ Chan!DrainDue)
  /\ WF_s11(part = "channel" /\ Chan!Delivered)
  /\ SF_shared(part = "position" /\ Pos!TimePasses /\ Kept(14))

MCSpec == MCInit /\ [][MCNext]_allvars /\ Fairness
-----------------------------------------------------------------------------
(* TeamSpeak gets every audible position.                                  *)
HandedOverInTheEnd ==
  <>[](part = "ts3d" /\ Td!Placed) => <>[](part = "ts3d" => Td!TdTypeOK /\ Td!HandedOver)

(* The coordinates expire when nothing sends any.                          *)
CoordinatesExpire == <>[](part = "position" => ~Pos!CoordsValid)

(* The listener stops when told to, and comes back when it failed.         *)
ListenerLives ==
  []<>~(part = "http" /\ Http!Stopping) /\ []<>~(part = "http" /\ Http!Deaf)

(* Whoever keeps playing gets to the game channel (ChannelMove).           *)
ReachesGame == <>[](part = "channel" /\ Chan!MayPlay) => <>[](part = "channel" => Chan!Playing)
=============================================================================
