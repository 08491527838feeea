----------------------------- MODULE MCThreads ------------------------------
(***************************************************************************)
(* The hand-overs between threads, checked by one run: a behaviour is one  *)
(* of the component that part names, and what the others have does not     *)
(* change.                                                                 *)
(***************************************************************************)
EXTENDS AudioSnap, Unmute, CommandRing, WorkerSlot, Wakeup

CONSTANTS Parts, w1, w2, r1

VARIABLE part

\* Two publications that differ in every field, one of them invalid.
MCFields  == {"gain", "valid"}
MCTargets == {[gain |-> 1, valid |-> 1], [gain |-> 2, valid |-> 0]}
MCZero    == [gain |-> 0, valid |-> 0]

allvars  == <<part, snapvars, umvars, crvars, wsvars, vars>>

MCInit ==
  /\ part \in Parts
  /\ SnapInit /\ UmInit /\ WsInit
  /\ Init /\ (part # "wakeup" => env.named /\ env.echo)
  /\ CrInit /\ (part # "ring" => crRing.slots[0] = "ui")

\* Only the component named p moves.
Others(p) ==
  /\ UNCHANGED part
  /\ p # "snap" => UNCHANGED snapvars
  /\ p # "unmute" => UNCHANGED umvars
  /\ p # "ring" => UNCHANGED crvars
  /\ p # "worker" => UNCHANGED wsvars
  /\ p # "wakeup" => UNCHANGED vars

MCNext ==
  \/ part = "snap" /\ SnapNext /\ Others("snap")
  \/ part = "unmute" /\ UmNext /\ Others("unmute")
  \/ part = "ring" /\ CrNext /\ Others("ring")
  \/ part = "worker" /\ WsNext /\ Others("worker")
  \/ part = "wakeup" /\ Next /\ Others("wakeup")

\* SnapFairness, UmFairness and the Fairness of Wakeup, when it is their turn.  Without the
\* fairness of RearmOver: EveryFlagServed must not need it.
SnapTurn(A)   == part = "snap" /\ A
UnmuteTurn(A) == part = "unmute" /\ A
WakeupTurn(A) == part = "wakeup" /\ A
MCFairness ==
  /\ \A r \in Readers : WF_snapvars(SnapTurn(Reader(r)))
  /\ WF_umvars(UnmuteTurn(PublishIncrement)) /\ WF_umvars(UnmuteTurn(Decrement))
  /\ WF_umvars(UnmuteTurn(ScanStep)) /\ WF_umvars(UnmuteTurn(ScanEnd))
  /\ WF_umvars(UnmuteTurn(UnmuteOk))
  /\ WF_umvars(UnmuteTurn(\E c \in Clients : FlushTake(c)))
  /\ WF_umvars(UnmuteTurn(FlushEnd))
  /\ WF_umvars(UnmuteTurn(ResetSweep \/ ResetSwept \/ ResetClear \/ ResetZero))
  /\ SF_umvars(UnmuteTurn(FlushBegin))
  /\ \A t \in AudioThreads : WF_umvars(UnmuteTurn(Increment(t)))
  /\ WF_vars(WakeupTurn(WakeupThread)) /\ WF_vars(WakeupTurn(CallbackStore))
  /\ WF_vars(WakeupTurn(CurrentServerChanged))
  /\ \A c \in Conns : WF_vars(WakeupTurn(Deliver(c)))
  /\ WF_vars(WakeupTurn(WindowOpens)) /\ WF_vars(WakeupTurn(RunAges))
  /\ WF_vars(WakeupTurn(PositionTick))
  /\ \A p \in Producers : WF_vars(WakeupTurn(Request(p)))

MCSpec == MCInit /\ [][MCNext]_allvars /\ MCFairness
=============================================================================
