----------------------------- MODULE AudioSnap ------------------------------
(***************************************************************************)
(* The seqlock of core/proximity/audio_snap.h for one client: writers      *)
(* serialized by g_writerLock publish a target, audio threads read it      *)
(* without a lock.  The same code serves AudioSnap and AudioDirSnap; the   *)
(* struct is a function on Fields, and "valid" is one of its fields.       *)
(*                                                                         *)
(* Every access to shared memory is a step.  The stores and loads of the   *)
(* struct between the two accesses to seq happen in any order, one field   *)
(* at a time: the barriers of the code only keep them between the two.     *)
(* seq is not wrapped: it is 32 bits wide in the code, so a reader would   *)
(* have to be delayed for 2^31 publications inside one attempt.            *)
(***************************************************************************)
EXTENDS Naturals

CONSTANTS
  Writers, Readers,
  Fields,            \* the words of the struct
  Targets,           \* the structs that are published
  Zero,              \* the struct in static storage at the start
  Busy, NoResult,    \* AUDIO_SNAP_BUSY, no read returned yet
  Nobody,            \* g_writerLock is free
  Attempts,          \* AUDIO_SNAP_READ_ATTEMPTS
  MaxSeq             \* bound: no publication begins at or above it

Values == UNION {{t[f] : f \in Fields} : t \in Targets \cup {Zero}}
Structs == [Fields -> Values]

ASSUME SnapAssumption ==
  /\ Attempts \in Nat \ {0} /\ MaxSeq \in Nat
  /\ Nobody \notin Writers
  /\ \A t \in Targets \cup {Zero} : t \in Structs

VARIABLES
  seq, data,                    \* the shared struct
  lock,                         \* g_writerLock
  writerAt, wtarget, wleft,          \* writers: target, fields not yet stored
  rpc, rseq, rcopy, rleft, rtries, res,  \* readers
  latest                        \* history: the last completed publication

writer == <<writerAt, wtarget, wleft>>
reader == <<rpc, rseq, rcopy, rleft, rtries, res>>
snapvars == <<seq, data, lock, writer, reader, latest>>

SnapTypeOK ==
  /\ seq \in Nat
  /\ data \in Structs
  /\ lock \in Writers \cup {Nobody}
  /\ writerAt \in [Writers -> {"idle", "locked", "writing", "done"}]
  /\ wtarget \in [Writers -> Targets \cup {Zero}]
  /\ wleft \in [Writers -> SUBSET Fields]
  /\ rpc \in [Readers -> {"idle", "begin", "copy"}]
  /\ rseq \in [Readers -> Nat]
  /\ rcopy \in [Readers -> Structs]
  /\ rleft \in [Readers -> SUBSET Fields]
  /\ rtries \in [Readers -> Nat]
  /\ res \in [Readers -> Structs \cup {Busy, NoResult}]
  /\ latest \in Targets \cup {Zero}

SnapInit ==
  /\ seq = 0 /\ data = Zero /\ latest = Zero /\ lock = Nobody
  /\ writerAt = [w \in Writers |-> "idle"]
  /\ wtarget = [w \in Writers |-> Zero]
  /\ wleft = [w \in Writers |-> {}]
  /\ rpc = [r \in Readers |-> "idle"]
  /\ rseq = [r \in Readers |-> 0]
  /\ rcopy = [r \in Readers |-> Zero]
  /\ rleft = [r \in Readers |-> {}]
  /\ rtries = [r \in Readers |-> 0]
  /\ res = [r \in Readers |-> NoResult]
-----------------------------------------------------------------------------
(* Writer: audio_snap_publish under g_writerLock.                          *)

LockIgnored(w, t) ==               \* mutant: the publication takes no lock
  /\ writerAt[w] = "idle"
  /\ lock' = w
  /\ writerAt' = [writerAt EXCEPT ![w] = "locked"]
  /\ wtarget' = [wtarget EXCEPT ![w] = t]
  /\ UNCHANGED <<seq, data, wleft, reader, latest>>

Lock(w, t) ==
  /\ writerAt[w] = "idle" /\ lock = Nobody
  /\ lock' = w
  /\ writerAt' = [writerAt EXCEPT ![w] = "locked"]
  /\ wtarget' = [wtarget EXCEPT ![w] = t]
  /\ UNCHANGED <<seq, data, wleft, reader, latest>>

PublishBegin(w) ==
  /\ writerAt[w] = "locked" /\ seq < MaxSeq
  /\ seq' = seq + 1
  /\ writerAt' = [writerAt EXCEPT ![w] = "writing"]
  /\ wleft' = [wleft EXCEPT ![w] = Fields]
  /\ UNCHANGED <<data, lock, wtarget, reader, latest>>

StoreField(w, f) ==
  /\ writerAt[w] = "writing" /\ f \in wleft[w]
  /\ data' = [data EXCEPT ![f] = wtarget[w][f]]
  /\ wleft' = [wleft EXCEPT ![w] = @ \ {f}]
  /\ UNCHANGED <<seq, lock, writerAt, wtarget, reader, latest>>

PublishEnd(w) ==
  /\ writerAt[w] = "writing" /\ wleft[w] = {}
  /\ seq' = seq + 1
  /\ latest' = wtarget[w]
  /\ writerAt' = [writerAt EXCEPT ![w] = "done"]
  /\ UNCHANGED <<data, lock, wtarget, wleft, reader>>

Unlock(w) ==
  /\ writerAt[w] = "done"
  /\ lock' = Nobody
  /\ writerAt' = [writerAt EXCEPT ![w] = "idle"]
  /\ UNCHANGED <<seq, data, wtarget, wleft, reader, latest>>

Writer(w) ==
  \/ \E t \in Targets : Lock(w, t)
  \/ PublishBegin(w)
  \/ \E f \in Fields : StoreField(w, f)
  \/ PublishEnd(w)
  \/ Unlock(w)
-----------------------------------------------------------------------------
(* Reader: audio_snap_read.  OK and INVALID both return the stable copy;   *)
(* its valid field tells them apart.                                       *)

shared == <<seq, data, lock, writer, latest>>

ReadStart(r) ==
  /\ rpc[r] = "idle"
  /\ rpc' = [rpc EXCEPT ![r] = "begin"]
  /\ rtries' = [rtries EXCEPT ![r] = 0]
  /\ UNCHANGED <<shared, rseq, rcopy, rleft, res>>

AttemptRepeats(r) ==               \* mutant: attempts are not counted
  /\ rpc' = [rpc EXCEPT ![r] = "begin"]
  /\ UNCHANGED <<shared, rseq, rcopy, rleft, rtries, res>>

(* One attempt is over without a stable copy.                              *)
AttemptFails(r) ==
  /\ rtries' = [rtries EXCEPT ![r] = @ + 1]
  /\ IF rtries[r] + 1 = Attempts
     THEN /\ rpc' = [rpc EXCEPT ![r] = "idle"]
          /\ res' = [res EXCEPT ![r] = Busy]
     ELSE /\ rpc' = [rpc EXCEPT ![r] = "begin"]
          /\ UNCHANGED res
  /\ UNCHANGED <<shared, rseq, rcopy, rleft>>

LoadSeqOdd(r) ==
  /\ rpc[r] = "begin" /\ seq % 2 = 1
  /\ AttemptFails(r)

LoadSeqAny(r) ==                   \* mutant: parity is not looked at
  /\ rpc[r] = "begin"
  /\ rseq' = [rseq EXCEPT ![r] = seq]
  /\ rleft' = [rleft EXCEPT ![r] = Fields]
  /\ rpc' = [rpc EXCEPT ![r] = "copy"]
  /\ UNCHANGED <<shared, rcopy, rtries, res>>

LoadSeqEven(r) ==
  /\ rpc[r] = "begin" /\ seq % 2 = 0
  /\ rseq' = [rseq EXCEPT ![r] = seq]
  /\ rleft' = [rleft EXCEPT ![r] = Fields]
  /\ rpc' = [rpc EXCEPT ![r] = "copy"]
  /\ UNCHANGED <<shared, rcopy, rtries, res>>

LoadField(r, f) ==
  /\ rpc[r] = "copy" /\ f \in rleft[r]
  /\ rcopy' = [rcopy EXCEPT ![r][f] = data[f]]
  /\ rleft' = [rleft EXCEPT ![r] = @ \ {f}]
  /\ UNCHANGED <<shared, rpc, rseq, rtries, res>>

CheckNothing(r) ==                 \* mutant: seq is not compared again
  /\ rpc[r] = "copy" /\ rleft[r] = {}
  /\ res' = [res EXCEPT ![r] = rcopy[r]]
  /\ rpc' = [rpc EXCEPT ![r] = "idle"]
  /\ UNCHANGED <<shared, rseq, rcopy, rleft, rtries>>

CheckStable(r) ==
  /\ rpc[r] = "copy" /\ rleft[r] = {} /\ seq = rseq[r]
  /\ res' = [res EXCEPT ![r] = rcopy[r]]
  /\ rpc' = [rpc EXCEPT ![r] = "idle"]
  /\ UNCHANGED <<shared, rseq, rcopy, rleft, rtries>>

CheckChanged(r) ==
  /\ rpc[r] = "copy" /\ rleft[r] = {} /\ seq # rseq[r]
  /\ AttemptFails(r)

Reader(r) ==
  \/ ReadStart(r) \/ LoadSeqOdd(r) \/ LoadSeqEven(r)
  \/ \E f \in Fields : LoadField(r, f)
  \/ CheckStable(r) \/ CheckChanged(r)

SnapNext == (\E w \in Writers : Writer(w)) \/ (\E r \in Readers : Reader(r))

SnapSpec == SnapInit /\ [][SnapNext]_snapvars

(* A reader that was scheduled keeps running; nothing is assumed of the    *)
(* writers, which may be preempted in the middle of a publication.         *)
SnapFairness == \A r \in Readers : WF_snapvars(Reader(r))

SnapFairSpec == SnapSpec /\ SnapFairness
-----------------------------------------------------------------------------
(* A read that does not give up returns the last completed publication, at *)
(* the moment of its last look at seq: never a mix of two publications and *)
(* never one that was already replaced (audio_snap_read).                  *)
ReadsLatest ==
  [][\A r \in Readers : res'[r] # res[r] => res'[r] \in {latest, Busy}]_snapvars

(* The seqlock implements the atomic register.                             *)
Register == INSTANCE SnapRegister WITH cur <- latest
ImplementsRegister == Register!Spec

(* Bounded retries: a started read returns, whatever the writers do.       *)
ReadReturns == \A r \in Readers : []<>(rpc[r] = "idle")

(* The inductive invariant of the proofs.  Mutual exclusion of the writers, *)
(* the meaning of the parity of seq, and what a copy holds so far.         *)
LockInv ==
  /\ \A w \in Writers : (writerAt[w] # "idle" <=> lock = w)
  /\ \A w \in Writers : writerAt[w] # "idle" => wtarget[w] \in Targets
  /\ (seq % 2 = 1) <=> \E w \in Writers : writerAt[w] = "writing"
DataInv ==
  /\ \A w \in Writers : writerAt[w] = "writing" =>
       \A f \in Fields \ wleft[w] : data[f] = wtarget[w][f]
  /\ seq % 2 = 0 => data = latest
CopyInv ==
  \A r \in Readers :
    /\ rpc[r] # "idle" => rtries[r] < Attempts
    /\ rpc[r] = "copy" =>
         /\ rseq[r] % 2 = 0 /\ rseq[r] <= seq
         /\ rseq[r] = seq => \A f \in Fields \ rleft[r] : rcopy[r][f] = latest[f]
SeqlockInv == LockInv /\ DataInv /\ CopyInv
=============================================================================
