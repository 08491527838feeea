---------------------------- MODULE DrainTarget ----------------------------
(***************************************************************************)
(* Who receives the CEDRAIN command: the decision logic of                 *)
(* core/util/drain_target.h and core/util/wakeup_policy.h as operators on  *)
(* a record.  Clock values are abstracted to the two comparisons the code  *)
(* makes on them: "aged" (the open run is DRAIN_PROBE_TIMEOUT_MS old) and  *)
(* the argument echoed (an own echo at or after the start of the run).     *)
(* The fields confirmed and fellBack only select log lines.                *)
(***************************************************************************)
EXTENDS Naturals

CONSTANT MinSends           \* DRAIN_PROBE_MIN_SENDS

ASSUME MinSendsAssumption == MinSends \in Nat \ {0}

Modes == {"CLIENT", "SERVER"}

DrainState == [mode : Modes, runOpen : BOOLEAN, runSends : 0..MinSends, aged : BOOLEAN]

Closed(mode) == [mode |-> mode, runOpen |-> FALSE, runSends |-> 0, aged |-> FALSE]

DrainReset == Closed("CLIENT")

CloseRun(s) == Closed(s.mode)

ProbeOpen(s) == s.mode = "CLIENT" /\ s.runOpen

DrainPoll(s, echoed) == IF ProbeOpen(s) /\ echoed THEN CloseRun(s) ELSE s

ProbeFailed(s) == s.runOpen /\ s.runSends >= MinSends /\ s.aged

(* Mutant: the probe never gives up.                                       *)
DrainPickKeepsProbing(s, echoed, haveLocalId) ==
  LET p == DrainPoll(s, echoed) IN
  IF ~haveLocalId \/ p.mode = "SERVER" THEN p
  ELSE [mode |-> "CLIENT", runOpen |-> TRUE, aged |-> p.aged,
        runSends |-> IF p.runSends < MinSends THEN p.runSends + 1 ELSE MinSends]

(* The state after drain_target_pick; its mode is also the target of the   *)
(* send, except that an unknown own id always sends to the server.         *)
(* runSends saturates at MinSends, the only value it is compared with.     *)
DrainPick(s, echoed, haveLocalId) ==
  LET p == DrainPoll(s, echoed) IN
  IF ~haveLocalId \/ p.mode = "SERVER" THEN p
  ELSE IF ProbeFailed(p) THEN Closed("SERVER")
  ELSE [mode |-> "CLIENT", runOpen |-> TRUE, aged |-> p.aged,
        runSends |-> IF p.runSends < MinSends THEN p.runSends + 1 ELSE MinSends]

PickTarget(s, haveLocalId) == IF haveLocalId THEN s.mode ELSE "SERVER"

(* drain_accept_invoker and drain_target_echo_is_own; none is the id 0.    *)
AcceptInvoker(local, invoker, none) == local = none \/ invoker = none \/ invoker = local
EchoIsOwn(local, invoker, none)     == local # none /\ invoker = local

(* wakeup_should_send: windowOpen is nowMs - lastMs >= rateMs.             *)
ShouldSend(windowOpen, urgent) == urgent \/ windowOpen
=============================================================================
