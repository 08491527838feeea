---------------------------- MODULE CommandRing ----------------------------
(***************************************************************************)
(* The typed command queue: a ring of fixed size (ts3_cmd_ring.h) behind   *)
(* one lock, filled by any thread and drained by the callback thread       *)
(* (ts3_adapter.c).  A push and a pop are one step each, under the lock;   *)
(* commands are executed outside of it, while others push.                 *)
(*                                                                         *)
(* crRing    head, tail, count, dropped and the slots                      *)
(* crDrain   the callback thread: executed, how many commands this drain   *)
(*           has popped; wake, a CEDRAIN is on its way                     *)
(* crPushing the producers that have pushed and not yet asked for a wakeup *)
(* crPut, crDone   history: the commands accepted and executed, in order   *)
(***************************************************************************)
EXTENDS Naturals, Sequences

CONSTANTS
  CrCapacity,          \* TS3_CMD_RING_CAPACITY
  CrProducers,         \* threads that push; a command is its producer's name
  CrMaxPuts            \* bound: pushes

ASSUME CrAssumption == CrCapacity \in Nat \ {0} /\ CrMaxPuts \in Nat

VARIABLES crRing, crDrain, crPushing, crPut, crDone

crvars == <<crRing, crDrain, crPushing, crPut, crDone>>

Indices == 0..CrCapacity - 1

CrTypeOK ==
  /\ crRing \in [head : Indices, tail : Indices, count : 0..CrCapacity, dropped : Nat,
                  slots : [Indices -> CrProducers]]
  /\ crDrain \in [running : BOOLEAN, executed : 0..CrCapacity, wake : BOOLEAN]
  /\ crPushing \subseteq CrProducers
  /\ crPut \in Seq(CrProducers) /\ crDone \in Seq(CrProducers)

CrInit ==
  /\ \E junk \in CrProducers :
       crRing = [head |-> 0, tail |-> 0, count |-> 0, dropped |-> 0,
                 slots |-> [i \in Indices |-> junk]]
  /\ crDrain = [running |-> FALSE, executed |-> 0, wake |-> FALSE]
  /\ crPushing = {} /\ crPut = <<>> /\ crDone = <<>>
-----------------------------------------------------------------------------
After(i) == (i + 1) % CrCapacity

\* Mutant: a ring that is full gives up its oldest command.
PushedOver(ring, cmd) ==
  [ring EXCEPT !.slots[ring.tail] = cmd, !.tail = After(@),
               !.count = IF @ = CrCapacity THEN @ ELSE @ + 1]

\* ts3_cmd_ring_push: a full ring rejects the command and counts it.
Pushed(ring, cmd) ==
  IF ring.count >= CrCapacity
  THEN [ring EXCEPT !.dropped = @ + 1]
  ELSE [ring EXCEPT !.slots[ring.tail] = cmd, !.tail = After(@), !.count = @ + 1]

\* ts3_cmd_ring_pop.
Popped(ring) == [ring EXCEPT !.head = After(@), !.count = @ - 1]

\* ts3_cmd_queue_push, then ts3_request_wakeup.
Push(p) ==
  /\ p \notin crPushing
  /\ Len(crPut) + crRing.dropped < CrMaxPuts
  /\ crRing' = Pushed(crRing, p)
  /\ crPut' = IF crRing.count < CrCapacity THEN Append(crPut, p) ELSE crPut
  /\ crPushing' = crPushing \cup {p}
  /\ UNCHANGED <<crDrain, crDone>>

AsksForWakeup(p) ==
  /\ p \in crPushing
  /\ crPushing' = crPushing \ {p}
  /\ crDrain' = [crDrain EXCEPT !.wake = TRUE]
  /\ UNCHANGED <<crRing, crPut, crDone>>

\* CEDRAIN arrives; the dispatcher drains when ts3_cmd_queue_nonempty.
DrainBegins ==
  /\ ~crDrain.running /\ crDrain.wake
  /\ crDrain' = [running |-> crRing.count > 0, executed |-> 0, wake |-> FALSE]
  /\ UNCHANGED <<crRing, crPushing, crPut, crDone>>

DrainPops ==
  /\ crDrain.running /\ crDrain.executed < CrCapacity /\ crRing.count > 0
  /\ crRing' = Popped(crRing)
  /\ crDone' = Append(crDone, crRing.slots[crRing.head])
  /\ crDrain' = [crDrain EXCEPT !.executed = @ + 1]
  /\ UNCHANGED <<crPushing, crPut>>

\* Mutant: the call for a drain counts as answered when the drain ends.
DrainEndsForGood ==
  /\ crDrain.running /\ (crDrain.executed = CrCapacity \/ crRing.count = 0)
  /\ crDrain' = [running |-> FALSE, executed |-> 0, wake |-> FALSE]
  /\ UNCHANGED <<crRing, crPushing, crPut, crDone>>

\* Bounded by the capacity; leftovers wake again (ts3_pending_work_any).
DrainEnds ==
  /\ crDrain.running /\ (crDrain.executed = CrCapacity \/ crRing.count = 0)
  /\ crDrain' = [running |-> FALSE, executed |-> 0, wake |-> crDrain.wake \/ crRing.count > 0]
  /\ UNCHANGED <<crRing, crPushing, crPut, crDone>>

CrNext ==
  \/ \E p \in CrProducers : Push(p) \/ AsksForWakeup(p)
  \/ DrainBegins \/ DrainPops \/ DrainEnds

CrSpec == CrInit /\ [][CrNext]_crvars
-----------------------------------------------------------------------------
\* The commands accepted are executed in the order they were accepted, each
\* once and unchanged: what the ring holds between head and tail is exactly
\* what is still to be executed, across the wrap of both and a full ring.
FirstInFirstOut ==
  /\ Len(crPut) = Len(crDone) + crRing.count
  /\ crRing.tail = (crRing.head + crRing.count) % CrCapacity
  /\ \A i \in 1..Len(crDone) : crDone[i] = crPut[i]
  /\ \A i \in 0..crRing.count - 1 :
       crRing.slots[(crRing.head + i) % CrCapacity] = crPut[Len(crDone) + i + 1]

\* A command never lies in the ring with nobody on the way to execute it: a
\* drain is running or called for, or a producer has yet to ask for one.
NeverStranded ==
  crRing.count > 0 => crDrain.running \/ crDrain.wake \/ crPushing # {}

\* What is accepted is executed, in its order, and not left behind
\* (ts3_cmd_ring.h).
RingIsSafe == FirstInFirstOut /\ NeverStranded
=============================================================================
