---------------------------- MODULE Threads_proofs ---------------------------
(***************************************************************************)
(* Proofs about the structures that several threads of the plugin share:   *)
(* the unmute counter, the command ring, the slot of the worker's handle,  *)
(* and what the callback thread hands to the audio thread without a common *)
(* lock, the snapshots of the targets and the pool of reverbs.             *)
(***************************************************************************)
EXTENDS Unmute, CommandRing, WorkerSlot, AudioSnap, CaveSlots, FiniteSetTheorems, TLAPS

(***************************************************************************)
(* Proof that the unmute counter is exact as long as no block of audio     *)
(* signals during ts3_audio_reset, for any number of clients and audio     *)
(* threads.  Each swap that changes a flag owes one increment or           *)
(* decrement, and the invariant counts what is owed; the sweep of a reset  *)
(* leaves no flag behind it, so that the final clears find nothing.        *)
(***************************************************************************)

(* What is left of the flags while a reset runs.                           *)
ResetInv ==
  /\ Resetting => inc = {}
  /\ cpc = "sweep" \/ (cpc = "dec" /\ after = "sweep") => \A c \in Clients : c < cid => ~flag[c]
  /\ cpc \in {"clear", "zero"} => \A c \in Clients : ~flag[c]

(* The inductive invariant.                                                *)
CounterInv ==
  /\ flag \in [Clients -> BOOLEAN] /\ count \in Int
  /\ inc \in SUBSET AudioThreads /\ cid \in 1..(NClients + 1)
  /\ cpc \in {"idle", "publish", "scan", "unmute", "take", "dec", "sweep", "clear", "zero"}
  /\ after \in {"idle", "take", "sweep"}
  /\ ResetInv
  /\ CounterMatches

(* Sets of clients are finite. *)
LEMMA FiniteFlags ==
  ASSUME NEW S, S \subseteq Clients PROVE IsFiniteSet(S) /\ Cardinality(S) \in Nat
<1>1. IsFiniteSet(Clients)
  BY UnmuteAssumption, FS_Interval DEF Clients
<1>2. IsFiniteSet(S)
  BY <1>1, FS_Subset
<1>3. QED BY <1>2, FS_CardinalityType

(* Sets of audio threads are finite. *)
LEMMA FiniteThreads ==
  ASSUME NEW S, S \subseteq AudioThreads PROVE IsFiniteSet(S) /\ Cardinality(S) \in Nat
BY UnmuteAssumption, FS_Subset, FS_CardinalityType

(* Every variable keeps its type, and a batch never outgrows its array,    *)
(* whatever interleaves.                                                   *)
THEOREM UnmuteTypes == UmSpec => []UmTypeOK
<1>1. UmInit => UmTypeOK
  BY UnmuteAssumption, FS_EmptySet DEF UmInit, UmTypeOK
<1>2. ASSUME UmTypeOK, [UmNext]_umvars PROVE UmTypeOK'
  <2>0. NClients \in Nat /\ 1 \in 1..(NClients + 1)
    BY UnmuteAssumption
  <2> DEFINE Bounded == batch \in SUBSET Clients /\ Cardinality(batch) <= Batch
  <2> DEFINE Rest == /\ flag \in [Clients -> BOOLEAN] /\ count \in Int
                     /\ unlocked \in [Clients -> BOOLEAN] /\ rearm \in [Clients -> BOOLEAN]
                     /\ inc \in SUBSET AudioThreads /\ failures \in 0..MaxFailures
                     /\ leaves \in 0..MaxLeaves /\ cid \in 1..(NClients + 1)
                     /\ cpc \in {"idle", "publish", "scan", "unmute", "take", "dec", "sweep",
                                 "clear", "zero"}
                     /\ after \in {"idle", "take", "sweep"}
  <2>1. Rest /\ Bounded
    BY <1>2 DEF UmTypeOK
  <2>2. IsFiniteSet(batch) /\ Cardinality(batch) \in Nat
    BY <2>1, FiniteFlags
  <2>3. ASSUME UNCHANGED batch PROVE Bounded'
    BY <2>1, <2>3
  <2>4. ASSUME NEW t \in AudioThreads, Audio(t) PROVE Rest' /\ UNCHANGED batch
    <3>1. ASSUME NEW c \in Clients, SetFlag(t, c) PROVE Rest' /\ UNCHANGED batch
      BY <2>1, <3>1 DEF SetFlag, unmuted
    <3>2. ASSUME Increment(t) PROVE Rest' /\ UNCHANGED batch
      BY <2>1, <3>2 DEF Increment, unmuted
    <3>3. QED BY <2>4, <3>1, <3>2 DEF Audio
  <2>5. ASSUME NEW c \in Clients, PublishFlag(c) PROVE Rest' /\ UNCHANGED batch
    BY <2>0, <2>1, <2>5 DEF PublishFlag, Goto, unmuted
  <2>6. ASSUME NEW c \in Clients, Invalidate(c) PROVE Rest' /\ UNCHANGED batch
    <3>1. leaves' \in 0..MaxLeaves
      BY <2>1, <2>6, UnmuteAssumption DEF Invalidate
    <3>2. QED BY <2>0, <2>1, <2>6, <3>1 DEF Invalidate, TakeFlag
  <2>7. CASE PublishIncrement \/ Decrement
    BY <2>0, <2>1, <2>3, <2>7 DEF PublishIncrement, Decrement, Goto, unmuted, UmTypeOK
  <2>8. CASE FlushBegin
    BY <2>0, <2>1, <2>3, <2>8 DEF FlushBegin, Goto, unmuted, UmTypeOK
  <2>9. CASE ScanStep
    <3>1. cid \in Clients /\ cid + 1 \in 1..(NClients + 1)
      BY <2>0, <2>1, <2>9 DEF ScanStep, Clients
    <3>2. Cardinality(batch \cup {cid}) <= Batch
      <4>1. Cardinality(batch \cup {cid}) <= Cardinality(batch) + 1
        BY <2>2, FS_AddElement
      <4>2. Cardinality(batch \cup {cid}) \in Nat
        BY <2>2, FS_AddElement, FS_CardinalityType
      <4>3. Cardinality(batch) < Batch /\ Batch \in Nat
        BY <2>9, UnmuteAssumption DEF ScanStep
      <4>4. QED BY <2>2, <4>1, <4>2, <4>3
    <3>3. Bounded'
      BY <2>1, <2>9, <3>1, <3>2 DEF ScanStep
    <3>4. QED BY <2>1, <2>9, <3>1, <3>3 DEF ScanStep, Goto, unmuted, UmTypeOK
  <2>10. CASE ScanEnd \/ UnmuteOk \/ FlushEnd
    BY <2>0, <2>1, <2>3, <2>10 DEF ScanEnd, UnmuteOk, FlushEnd, Goto, unmuted, UmTypeOK
  <2>11. CASE UnmuteFails
    <3>1. Bounded' /\ failures' \in 0..MaxFailures
      BY <2>1, <2>11, UnmuteAssumption, FS_EmptySet DEF UnmuteFails
    <3>2. QED BY <2>0, <2>1, <2>11, <3>1 DEF UnmuteFails, Goto, UmTypeOK
  <2>12. ASSUME NEW c \in Clients, FlushTake(c) PROVE UmTypeOK'
    <3>1. Cardinality(batch \ {c}) <= Batch
      <4>1. c \in batch
        BY <2>12 DEF FlushTake
      <4>2. Cardinality(batch \ {c}) = Cardinality(batch) - 1
        BY <2>2, <4>1, FS_RemoveElement
      <4>3. QED BY <2>1, <2>2, <4>2, UnmuteAssumption
    <3>2. Bounded'
      BY <2>1, <2>12, <3>1 DEF FlushTake
    <3>3. QED BY <2>0, <2>1, <2>12, <3>2 DEF FlushTake, TakeFlag, UmTypeOK
  <2>13. CASE ResetBegin \/ ResetSwept \/ ResetZero
    BY <2>0, <2>1, <2>3, <2>13 DEF ResetBegin, ResetSwept, ResetZero, Goto, unmuted, UmTypeOK
  <2>14. CASE ResetSweep
    <3>1. cid \in Clients /\ cid' \in 1..(NClients + 1)
      BY <2>0, <2>1, <2>14 DEF ResetSweep, Clients
    <3>2. /\ cpc' \in {"dec", "sweep"} /\ after' \in {"idle", "take", "sweep"}
          /\ flag' \in [Clients -> BOOLEAN] /\ unlocked' \in [Clients -> BOOLEAN]
          /\ rearm' \in [Clients -> BOOLEAN]
      BY <2>0, <2>1, <2>14 DEF ResetSweep, TakeFlag
    <3>3. QED BY <2>1, <2>3, <2>14, <3>1, <3>2 DEF ResetSweep, UmTypeOK
  <2>15. CASE ResetClear
    <3>1. cid' \in 1..(NClients + 1)
      BY <2>0, <2>1, <2>15 DEF ResetClear, Goto
    <3>2. flag' \in [Clients -> BOOLEAN]
      BY <2>1, <2>15 DEF ResetClear
    <3>3. QED BY <2>1, <2>3, <2>15, <3>1, <3>2 DEF ResetClear, Goto, unmuted, UmTypeOK
  <2>16. CASE UNCHANGED umvars
    BY <2>1, <2>3, <2>16 DEF umvars, unmuted, UmTypeOK
  <2>17. ASSUME NEW c \in Clients, RearmOver(c) PROVE UmTypeOK'
    BY <2>1, <2>3, <2>17 DEF RearmOver, UmTypeOK
  <2>18. QED
    BY <1>2, <2>3, <2>4, <2>5, <2>6, <2>7, <2>8, <2>9, <2>10, <2>11, <2>12, <2>13, <2>14, <2>15,
       <2>16, <2>17
    DEF UmNext, Callback, Flush, Reset, UmTypeOK
<1>3. QED BY <1>1, <1>2, PTL DEF UmSpec

(* A swap from 0 to 1 adds one flag, a swap from 1 to 0 removes one, and a *)
(* swap that fails changes nothing.                                        *)
LEMMA FlagRaised ==
  ASSUME flag \in [Clients -> BOOLEAN], NEW c \in Clients, ~flag[c],
         flag' = [flag EXCEPT ![c] = TRUE]
  PROVE  Cardinality(Flagged') = Cardinality(Flagged) + 1
<1>1. Flagged' = Flagged \cup {c} /\ c \notin Flagged
  BY DEF Flagged
<1>2. IsFiniteSet(Flagged)
  BY FiniteFlags DEF Flagged
<1>3. QED BY <1>1, <1>2, FS_AddElement

(* A swap to 0 removes the flag of one client, if it was set. *)
LEMMA FlagTaken ==
  ASSUME flag \in [Clients -> BOOLEAN], NEW c \in Clients,
         flag' = [flag EXCEPT ![c] = FALSE]
  PROVE  Cardinality(Flagged') = Cardinality(Flagged) - (IF flag[c] THEN 1 ELSE 0)
<1>1. Flagged' = Flagged \ {c} /\ (c \in Flagged <=> flag[c])
  BY DEF Flagged
<1>2. IsFiniteSet(Flagged)
  BY FiniteFlags DEF Flagged
<1>3. CASE flag[c]
  BY <1>1, <1>2, <1>3, FS_RemoveElement
<1>4. CASE ~flag[c]
  <2>1. Flagged' = Flagged
    BY <1>1, <1>4
  <2>2. Cardinality(Flagged) \in Nat
    BY FiniteFlags DEF Flagged
  <2>3. QED BY <1>4, <2>1, <2>2
<1>5. QED BY <1>3, <1>4

(* Steps that move the callback thread but no flag, counter or debt.       *)
LEMMA QuietStep ==
  ASSUME CounterInv, UNCHANGED <<flag, count, inc, after>>, ~Resetting,
         cpc \notin {"publish", "dec"}, cid' \in 1..(NClients + 1),
         cpc' \in {"idle", "scan", "unmute", "take"}
  PROVE  CounterInv'
BY DEF CounterInv, ResetInv, Resetting, CounterMatches, Due, Flagged

(* TakeFlag owes a decrement exactly when it removed a flag. *)
LEMMA TakeStep ==
  ASSUME CounterInv, NEW c \in Clients, NEW then \in {"idle", "take", "sweep"}, cpc = then,
         TakeFlag(c, then), UNCHANGED <<count, inc>>, cid' \in 1..(NClients + 1),
         then = "sweep" => c = cid /\ cid' = cid + 1
  PROVE  CounterInv'
<1>1. Cardinality(Flagged') = Cardinality(Flagged) - (IF flag[c] THEN 1 ELSE 0)
  BY FlagTaken DEF CounterInv, TakeFlag
<1>2. Cardinality(Flagged) \in Nat /\ Cardinality(inc) \in Nat
  BY FiniteFlags, FiniteThreads DEF CounterInv, Flagged
<1>3. flag' \in [Clients -> BOOLEAN] /\ after' = then
  BY DEF CounterInv, TakeFlag
<1>4. cpc' = IF flag[c] THEN "dec" ELSE then
  BY DEF TakeFlag
<1>5. CounterMatches'
  BY <1>1, <1>2, <1>4 DEF CounterInv, CounterMatches, Due
<1>6. ResetInv'
  <2>1. CASE then # "sweep"
    BY <1>3, <1>4, <2>1 DEF ResetInv, Resetting
  <2>2. CASE then = "sweep"
    <3>1. \A d \in Clients : d < cid' => ~flag'[d]
      BY <2>2 DEF CounterInv, ResetInv, TakeFlag, Clients
    <3>2. inc' = {}
      BY <2>2 DEF CounterInv, ResetInv, Resetting
    <3>3. cpc' \in {"dec", "sweep"}
      BY <1>4, <2>2
    <3>4. QED BY <3>1, <3>2, <3>3 DEF ResetInv
  <2>3. QED BY <2>1, <2>2
<1>7. QED BY <1>3, <1>4, <1>5, <1>6 DEF CounterInv

(* A reset takes the flags back one by one and finds none at its end.      *)
LEMMA ResetStep ==
  ASSUME ~ResetRaces, CounterInv, Reset PROVE CounterInv'
<1>1. CASE ResetBegin
  BY <1>1, UnmuteAssumption
  DEF ResetBegin, Goto, CounterInv, ResetInv, Resetting, CounterMatches, Due, Flagged, Clients
<1>2. CASE ResetSweep
  <2>1. PICK hasState \in {TRUE} \cup {flag[cid]} :
          IF hasState
          THEN TakeFlag(cid, "sweep")
          ELSE cpc' = "sweep" /\ UNCHANGED <<flag, after>>
    BY <1>2 DEF ResetSweep
  <2>2. /\ cpc = "sweep" /\ cid \in Clients /\ cid' = cid + 1 /\ cid' \in 1..(NClients + 1)
        /\ UNCHANGED <<count, inc>>
    BY <1>2, UnmuteAssumption DEF ResetSweep, CounterInv, Clients
  <2>3. CASE hasState
    BY <2>1, <2>2, <2>3, TakeStep
  <2>4. CASE ~hasState
    <3>1. ~flag[cid] /\ cpc' = cpc /\ flag' = flag /\ after' = after
      BY <2>1, <2>2, <2>4
    <3>2. CounterMatches'
      BY <2>2, <3>1 DEF CounterInv, CounterMatches, Due, Flagged
    <3>3. ResetInv'
      BY <2>2, <3>1 DEF CounterInv, ResetInv, Resetting, Clients
    <3>4. QED BY <2>2, <3>1, <3>2, <3>3 DEF CounterInv
  <2>5. QED BY <2>3, <2>4
<1>3. CASE ResetSwept
  BY <1>3, UnmuteAssumption
  DEF ResetSwept, Goto, CounterInv, ResetInv, Resetting, CounterMatches, Due, Flagged, Clients
<1>4. CASE ResetClear
  <2>1. flag' = flag /\ UNCHANGED <<count, inc, after>> /\ cpc = "clear"
    BY <1>4 DEF ResetClear, CounterInv, ResetInv, Goto, Clients
  <2>2. cpc' \in {"clear", "zero"} /\ cid' \in 1..(NClients + 1)
    BY <1>4, UnmuteAssumption DEF ResetClear, Goto, CounterInv
  <2>3. QED
    BY <2>1, <2>2 DEF CounterInv, ResetInv, Resetting, CounterMatches, Due, Flagged
<1>5. CASE ResetZero
  <2>1. Flagged = {} /\ inc = {}
    BY <1>5 DEF ResetZero, CounterInv, ResetInv, Resetting, Flagged
  <2>2. count' = 0 /\ cpc' = "idle" /\ cid' \in 1..(NClients + 1) /\ UNCHANGED <<flag, inc, after>>
    BY <1>5, UnmuteAssumption DEF ResetZero, Goto
  <2>3. CounterMatches'
    BY <2>1, <2>2, FS_EmptySet DEF CounterMatches, Due, Flagged
  <2>4. QED BY <2>2, <2>3 DEF CounterInv, ResetInv, Resetting
<1>6. QED BY <1>1, <1>2, <1>3, <1>4, <1>5 DEF Reset

(* Every step keeps the counter exact, up to what it still owes. *)
LEMMA CounterStep ==
  ASSUME ~ResetRaces, CounterInv, [UmNext]_umvars PROVE CounterInv'
<1>1. Cardinality(Flagged) \in Nat /\ Cardinality(inc) \in Nat
  BY FiniteFlags, FiniteThreads DEF CounterInv, Flagged
<1>2. ASSUME NEW t \in AudioThreads, NEW c \in Clients, SetFlag(t, c) PROVE CounterInv'
  <2>1. Cardinality(Flagged') = Cardinality(Flagged) + 1
    BY <1>2, FlagRaised DEF SetFlag, CounterInv
  <2>2. Cardinality(inc') = Cardinality(inc) + 1
    BY <1>2, FiniteThreads, FS_AddElement DEF SetFlag, CounterInv
  <2>3. CounterMatches'
    BY <1>1, <1>2, <2>1, <2>2 DEF CounterInv, CounterMatches, Due, SetFlag
  <2>4. ResetInv'
    BY <1>2 DEF CounterInv, ResetInv, Resetting, SetFlag
  <2>5. QED BY <1>2, <2>3, <2>4 DEF CounterInv, SetFlag
<1>3. ASSUME NEW t \in AudioThreads, Increment(t) PROVE CounterInv'
  <2>1. Cardinality(inc') = Cardinality(inc) - 1
    BY <1>3, FiniteThreads, FS_RemoveElement DEF Increment, CounterInv
  <2>2. Flagged' = Flagged
    BY <1>3 DEF Increment, Flagged
  <2>3. CounterMatches'
    BY <1>1, <1>3, <2>1, <2>2 DEF CounterInv, CounterMatches, Due, Increment
  <2>4. ResetInv'
    BY <1>3 DEF CounterInv, ResetInv, Resetting, Increment
  <2>5. QED BY <1>3, <2>3, <2>4 DEF CounterInv, Increment
<1>4. ASSUME NEW c \in Clients, PublishFlag(c) PROVE CounterInv'
  <2>1. Cardinality(Flagged') = Cardinality(Flagged) + 1
    BY <1>4, FlagRaised DEF PublishFlag, CounterInv
  <2>2. CounterMatches'
    BY <1>1, <1>4, <2>1 DEF CounterInv, CounterMatches, Due, PublishFlag, Goto
  <2>3. ResetInv'
    BY <1>4 DEF ResetInv, Resetting, PublishFlag, Goto
  <2>4. cid' \in 1..(NClients + 1)
    BY <1>4, UnmuteAssumption DEF PublishFlag, Goto
  <2>5. QED BY <1>4, <2>2, <2>3, <2>4 DEF CounterInv, PublishFlag, Goto
<1>5. CASE PublishIncrement
  <2>1. Flagged' = Flagged
    BY <1>5 DEF PublishIncrement, Flagged
  <2>2. CounterMatches'
    BY <1>1, <1>5, <2>1 DEF CounterInv, CounterMatches, Due, PublishIncrement, Goto
  <2>3. ResetInv'
    BY <1>5 DEF ResetInv, Resetting, PublishIncrement, Goto
  <2>4. cid' \in 1..(NClients + 1)
    BY <1>5, UnmuteAssumption DEF PublishIncrement, Goto
  <2>5. QED BY <1>5, <2>2, <2>3, <2>4 DEF CounterInv, PublishIncrement, Goto
<1>6. CASE Decrement
  <2>1. Flagged' = Flagged
    BY <1>6 DEF Decrement, Flagged
  <2>2. cpc = "dec" /\ cpc' = after /\ cpc' \in {"idle", "take", "sweep"} /\ count' = count - 1
        /\ inc' = inc /\ after' = after /\ cid' = cid /\ flag' = flag
    BY <1>6 DEF Decrement, Goto, CounterInv
  <2>3. CounterMatches'
    BY <1>1, <2>1, <2>2 DEF CounterInv, CounterMatches, Due
  <2>4. ResetInv'
    BY <2>2 DEF CounterInv, ResetInv, Resetting
  <2>5. QED BY <2>2, <2>3, <2>4 DEF CounterInv
<1>7. ASSUME NEW c \in Clients, Invalidate(c) PROVE CounterInv'
  BY <1>7, TakeStep DEF Invalidate, CounterInv
<1>8. ASSUME NEW c \in Clients, FlushTake(c) PROVE CounterInv'
  BY <1>8, TakeStep DEF FlushTake, CounterInv
<1>9. CASE FlushBegin \/ UnmuteOk \/ UnmuteFails \/ FlushEnd
  BY <1>9, UnmuteAssumption, QuietStep
  DEF FlushBegin, UnmuteOk, UnmuteFails, FlushEnd, Goto, CounterInv, Resetting
<1>10. CASE ScanStep
  BY <1>10, UnmuteAssumption, QuietStep DEF ScanStep, Goto, Resetting, CounterInv
<1>11. CASE ScanEnd
  BY <1>11, UnmuteAssumption, QuietStep DEF ScanEnd, Goto, CounterInv, Resetting
<1>12. CASE Reset
  BY <1>12, ResetStep DEF Reset
<1>13. CASE UNCHANGED umvars
  BY <1>13 DEF umvars, CounterInv, ResetInv, Resetting, CounterMatches, Due, Flagged
<1>14. ASSUME NEW c \in Clients, RearmOver(c) PROVE CounterInv'
  BY <1>14 DEF RearmOver, CounterInv, ResetInv, Resetting, CounterMatches, Due, Flagged
<1>15. QED
  BY <1>2, <1>3, <1>4, <1>5, <1>6, <1>7, <1>8, <1>9, <1>10, <1>11, <1>12, <1>13, <1>14
  DEF UmNext, Callback, Audio, Flush

(* The counter never drifts from the flags, whatever the audio threads,    *)
(* the flushes, leaving clients and resets interleave, unless a block      *)
(* signals in the middle of a reset.                                       *)
THEOREM CounterIsExact == ASSUME ~ResetRaces PROVE UmSpec => []CounterMatches
<1>1. UmInit => CounterInv
  <2> SUFFICES ASSUME UmInit PROVE CounterInv
    OBVIOUS
  <2>1. Flagged = {} /\ inc = {}
    BY DEF UmInit, Flagged
  <2>2. CounterMatches
    BY <2>1, FS_EmptySet DEF UmInit, CounterMatches, Due
  <2>3. QED BY <2>2, UnmuteAssumption DEF UmInit, CounterInv, ResetInv, Resetting
<1>2. CounterInv /\ [UmNext]_umvars => CounterInv'
  BY CounterStep
<1>3. CounterInv => CounterMatches
  BY DEF CounterInv
<1>4. QED BY <1>1, <1>2, <1>3, PTL DEF UmSpec
-----------------------------------------------------------------------------

(***************************************************************************)
(* For a ring of any capacity, any set of producers and any bound on the   *)
(* pushes: the commands accepted are executed in order, each once, and     *)
(* none lies in the ring with nobody on the way to execute it.             *)
(***************************************************************************)

\* An index that has run past the end of the ring starts over.
LEMMA Wrap ==
  ASSUME NEW a \in Indices, NEW b \in 0..CrCapacity
  PROVE  (a + b) % CrCapacity = IF a + b < CrCapacity THEN a + b ELSE a + b - CrCapacity
PROOF BY CrAssumption DEF Indices

LEMMA AfterIsNext ==
  ASSUME NEW a \in Indices
  PROVE  /\ After(a) = IF a + 1 < CrCapacity THEN a + 1 ELSE 0
         /\ After(a) \in Indices
PROOF
<1>1. (a + 1) % CrCapacity = IF a + 1 < CrCapacity THEN a + 1 ELSE a + 1 - CrCapacity
  BY Wrap, CrAssumption DEF Indices
<1>2. QED
  BY <1>1, CrAssumption DEF After, Indices

\* Around the ring: where one comes to, and from where.
LEMMA WrapIndex ==
  ASSUME NEW a \in Indices, NEW b \in 0..CrCapacity - 1
  PROVE  /\ (a + b) % CrCapacity \in Indices
         /\ (a + 0) % CrCapacity = a
         /\ (After(a) + b) % CrCapacity = (a + (b + 1)) % CrCapacity
PROOF
<1>1. b + 1 \in 0..CrCapacity /\ b \in 0..CrCapacity /\ 0 \in 0..CrCapacity
  BY CrAssumption
<1>2. (a + b) % CrCapacity = IF a + b < CrCapacity THEN a + b ELSE a + b - CrCapacity
  BY <1>1, Wrap
<1>3. (a + 0) % CrCapacity = IF a + 0 < CrCapacity THEN a + 0 ELSE a + 0 - CrCapacity
  BY <1>1, Wrap
<1>4. (a + (b + 1)) % CrCapacity
        = IF a + (b + 1) < CrCapacity THEN a + (b + 1) ELSE a + (b + 1) - CrCapacity
  BY <1>1, Wrap
<1>5. /\ After(a) = IF a + 1 < CrCapacity THEN a + 1 ELSE 0
      /\ After(a) \in Indices
  BY AfterIsNext
<1>6. (After(a) + b) % CrCapacity
        = IF After(a) + b < CrCapacity THEN After(a) + b ELSE After(a) + b - CrCapacity
  BY <1>1, <1>5, Wrap
<1>7. (a + b) % CrCapacity \in Indices
  BY <1>2, CrAssumption DEF Indices
<1>8. (a + 0) % CrCapacity = a
  BY <1>3, CrAssumption DEF Indices
<1>9. (After(a) + b) % CrCapacity = (a + (b + 1)) % CrCapacity
  BY <1>4, <1>5, <1>6, CrAssumption DEF Indices
<1>10. QED
  BY <1>7, <1>8, <1>9

LEMMA WrapDistinct ==
  ASSUME NEW a \in Indices, NEW b \in 0..CrCapacity - 1, NEW c \in 0..CrCapacity - 1, b # c
  PROVE  (a + b) % CrCapacity # (a + c) % CrCapacity
PROOF
<1>1. b \in 0..CrCapacity /\ c \in 0..CrCapacity
  BY CrAssumption
<1>2. /\ (a + b) % CrCapacity = IF a + b < CrCapacity THEN a + b ELSE a + b - CrCapacity
      /\ (a + c) % CrCapacity = IF a + c < CrCapacity THEN a + c ELSE a + c - CrCapacity
  BY <1>1, Wrap
<1>3. QED
  BY <1>2, CrAssumption DEF Indices

CrInv == CrTypeOK /\ FirstInFirstOut

LEMMA CrInitInv == CrInit => CrInv
PROOF
<1>1. SUFFICES ASSUME CrInit PROVE CrInv
  OBVIOUS
<1>2. CrTypeOK
  BY <1>1, CrAssumption DEF CrInit, CrTypeOK, Indices
<1>3. FirstInFirstOut
  <2>1. (0 + 0) % CrCapacity = 0
    BY Wrap, CrAssumption DEF Indices
  <2>2. QED
    BY <1>1, <2>1, CrAssumption DEF CrInit, FirstInFirstOut
<1>4. QED
  BY <1>2, <1>3 DEF CrInv

\* A push: a full ring changes nothing but its count of rejected commands, any
\* other takes the command behind all that it holds.
LEMMA PushKeepsInv == ASSUME CrInv, NEW p \in CrProducers, Push(p) PROVE CrInv'
PROOF
<1> USE DEF CrInv
<1>1. CASE crRing.count >= CrCapacity
  <2>1. crRing' = [crRing EXCEPT !.dropped = @ + 1] /\ crPut' = crPut /\ crDone' = crDone
        /\ crDrain' = crDrain /\ crPushing' = crPushing \cup {p}
    BY <1>1, CrAssumption DEF Push, Pushed, CrTypeOK
  <2>2. CrTypeOK'
    <3>1. crRing' = [head |-> crRing.head, tail |-> crRing.tail, count |-> crRing.count,
                     dropped |-> crRing.dropped + 1, slots |-> crRing.slots]
      BY <2>1 DEF CrTypeOK
    <3>2. crRing.dropped + 1 \in Nat
      BY DEF CrTypeOK
    <3>3. crRing' \in [head : Indices, tail : Indices, count : 0..CrCapacity, dropped : Nat,
                       slots : [Indices -> CrProducers]]
      BY <3>1, <3>2 DEF CrTypeOK
    <3>4. QED
      BY <2>1, <3>3 DEF CrTypeOK
  <2>3. /\ crRing'.head = crRing.head /\ crRing'.tail = crRing.tail
        /\ crRing'.count = crRing.count /\ crRing'.slots = crRing.slots
    BY <2>1 DEF CrTypeOK
  <2>4. FirstInFirstOut'
    BY <2>1, <2>3 DEF FirstInFirstOut
  <2>5. QED
    BY <2>2, <2>4
<1>2. CASE crRing.count < CrCapacity
  <2>1. /\ crRing' = [crRing EXCEPT !.slots[crRing.tail] = p, !.tail = After(@), !.count = @ + 1]
        /\ crPut' = Append(crPut, p) /\ crDone' = crDone
        /\ crDrain' = crDrain /\ crPushing' = crPushing \cup {p}
    BY <1>2, CrAssumption DEF Push, Pushed, CrTypeOK
  <2>2. After(crRing.tail) \in Indices
    BY AfterIsNext DEF CrTypeOK
  <2>3. /\ crRing'.head = crRing.head /\ crRing'.tail = After(crRing.tail)
        /\ crRing'.count = crRing.count + 1 /\ crRing'.dropped = crRing.dropped
        /\ crRing'.slots = [crRing.slots EXCEPT ![crRing.tail] = p]
    BY <2>1 DEF CrTypeOK
  <2>4. CrTypeOK'
    <3>1. crRing' \in [head : Indices, tail : Indices, count : 0..CrCapacity, dropped : Nat,
                       slots : [Indices -> CrProducers]]
      <4>1. crRing' = [head |-> crRing.head, tail |-> After(crRing.tail),
                       count |-> crRing.count + 1, dropped |-> crRing.dropped,
                       slots |-> [crRing.slots EXCEPT ![crRing.tail] = p]]
        BY <2>1 DEF CrTypeOK
      <4>2. crRing.count + 1 \in 0..CrCapacity
        BY <1>2, CrAssumption DEF CrTypeOK
      <4>3. [crRing.slots EXCEPT ![crRing.tail] = p] \in [Indices -> CrProducers]
        BY DEF CrTypeOK
      <4>4. QED
        BY <2>2, <4>1, <4>2, <4>3 DEF CrTypeOK
    <3>2. crPut' \in Seq(CrProducers) /\ crDone' \in Seq(CrProducers)
      BY <2>1 DEF CrTypeOK
    <3>3. QED
      BY <2>1, <3>1, <3>2 DEF CrTypeOK
  <2>5. /\ Len(crPut') = Len(crPut) + 1
        /\ \A i \in 1..Len(crPut) : crPut'[i] = crPut[i]
        /\ crPut'[Len(crPut) + 1] = p
    BY <2>1 DEF CrTypeOK
  <2>6. Len(crPut') = Len(crDone') + crRing'.count
    BY <2>1, <2>3, <2>5 DEF CrTypeOK, FirstInFirstOut
  <2>7. crRing'.tail = (crRing'.head + crRing'.count) % CrCapacity
    <3>1. /\ crRing.head \in Indices /\ crRing.tail \in Indices
          /\ crRing.count \in 0..CrCapacity /\ crRing.count + 1 \in 0..CrCapacity
      BY <1>2, CrAssumption DEF CrTypeOK
    <3>2. crRing.tail = IF crRing.head + crRing.count < CrCapacity
                        THEN crRing.head + crRing.count
                        ELSE crRing.head + crRing.count - CrCapacity
      BY <3>1, Wrap DEF FirstInFirstOut
    <3>3. (crRing.head + (crRing.count + 1)) % CrCapacity
             = IF crRing.head + (crRing.count + 1) < CrCapacity
               THEN crRing.head + (crRing.count + 1)
               ELSE crRing.head + (crRing.count + 1) - CrCapacity
      BY <3>1, Wrap
    <3>4. After(crRing.tail) = IF crRing.tail + 1 < CrCapacity THEN crRing.tail + 1 ELSE 0
      BY <3>1, AfterIsNext
    <3>5. QED
      BY <1>2, <2>3, <3>1, <3>2, <3>3, <3>4, CrAssumption DEF Indices
  <2>8. \A i \in 1..Len(crDone') : crDone'[i] = crPut'[i]
    BY <2>1, <2>5 DEF CrTypeOK, FirstInFirstOut
  <2>9. ASSUME NEW i \in 0..crRing'.count - 1
        PROVE  crRing'.slots[(crRing'.head + i) % CrCapacity] = crPut'[Len(crDone') + i + 1]
    <3>1. /\ crRing.head \in Indices /\ crRing.tail \in Indices
          /\ crRing.count \in 0..CrCapacity - 1 /\ i \in 0..crRing.count
          /\ Len(crDone) \in Nat
      BY <1>2, <2>3, CrAssumption DEF CrTypeOK
    <3>2. i \in 0..CrCapacity - 1
      BY <3>1, CrAssumption
    <3>3. crRing.tail = (crRing.head + crRing.count) % CrCapacity
      BY DEF FirstInFirstOut
    <3>4. (crRing.head + i) % CrCapacity \in Indices
      BY <3>1, <3>2, WrapIndex
    <3>5. crRing.slots \in [Indices -> CrProducers]
      BY DEF CrTypeOK
    <3>6. CASE i = crRing.count
      <4>1. (crRing.head + i) % CrCapacity = crRing.tail
        BY <3>3, <3>6
      <4>2. Len(crDone) + i + 1 = Len(crPut) + 1
        BY <3>1, <3>6 DEF FirstInFirstOut
      <4>3. QED
        BY <2>1, <2>3, <2>5, <3>1, <3>5, <4>1, <4>2
    <3>7. CASE i # crRing.count
      <4>1. (crRing.head + i) % CrCapacity # crRing.tail
        BY <3>1, <3>2, <3>3, <3>7, WrapDistinct
      <4>2. crRing'.slots[(crRing.head + i) % CrCapacity]
              = crRing.slots[(crRing.head + i) % CrCapacity]
        BY <2>3, <3>4, <3>5, <4>1
      <4>3. i \in 0..crRing.count - 1
        BY <3>1, <3>7
      <4>4. crRing.slots[(crRing.head + i) % CrCapacity] = crPut[Len(crDone) + i + 1]
        BY <4>3 DEF FirstInFirstOut
      <4>5. Len(crDone) + i + 1 \in 1..Len(crPut)
        BY <3>1, <4>3 DEF FirstInFirstOut
      <4>6. QED
        BY <2>1, <2>3, <2>5, <4>2, <4>4, <4>5
    <3>8. QED
      BY <3>6, <3>7
  <2>10. QED
    BY <2>4, <2>6, <2>7, <2>8, <2>9 DEF FirstInFirstOut
<1>3. QED
  BY <1>1, <1>2, CrAssumption DEF CrTypeOK

\* A pop takes the command at the head, which is the next one in order.
LEMMA PopKeepsInv == ASSUME CrInv, DrainPops PROVE CrInv'
PROOF
<1> USE DEF CrInv
<1>1. /\ crRing' = [crRing EXCEPT !.head = After(@), !.count = @ - 1]
      /\ crDone' = Append(crDone, crRing.slots[crRing.head])
      /\ crDrain' = [crDrain EXCEPT !.executed = @ + 1]
      /\ crPushing' = crPushing /\ crPut' = crPut
      /\ crRing.count > 0 /\ crDrain.executed < CrCapacity
  BY DEF DrainPops, Popped
<1>2. /\ crRing.head \in Indices /\ crRing.count \in 1..CrCapacity
      /\ crRing.slots \in [Indices -> CrProducers]
      /\ crPut \in Seq(CrProducers) /\ crDone \in Seq(CrProducers)
  BY <1>1, CrAssumption DEF CrTypeOK
<1>3. /\ After(crRing.head) = IF crRing.head + 1 < CrCapacity THEN crRing.head + 1 ELSE 0
      /\ After(crRing.head) \in Indices
  BY <1>2, AfterIsNext
<1>4. crRing' = [head |-> After(crRing.head), tail |-> crRing.tail, count |-> crRing.count - 1,
                 dropped |-> crRing.dropped, slots |-> crRing.slots]
  BY <1>1 DEF CrTypeOK
<1>5. CrTypeOK'
  <2>1. crRing' \in [head : Indices, tail : Indices, count : 0..CrCapacity, dropped : Nat,
                     slots : [Indices -> CrProducers]]
    BY <1>2, <1>3, <1>4, CrAssumption DEF CrTypeOK
  <2>2. crDrain' = [running |-> crDrain.running, executed |-> crDrain.executed + 1,
                    wake |-> crDrain.wake]
    BY <1>1 DEF CrTypeOK
  <2>3. crDrain' \in [running : BOOLEAN, executed : 0..CrCapacity, wake : BOOLEAN]
    BY <1>1, <2>2, CrAssumption DEF CrTypeOK
  <2>4. crDone' \in Seq(CrProducers)
    BY <1>1, <1>2
  <2>5. QED
    BY <1>1, <2>1, <2>3, <2>4 DEF CrTypeOK
<1>6. /\ Len(crDone') = Len(crDone) + 1
      /\ \A i \in 1..Len(crDone) : crDone'[i] = crDone[i]
      /\ crDone'[Len(crDone) + 1] = crRing.slots[crRing.head]
  BY <1>1, <1>2
<1>7. Len(crPut') = Len(crDone') + crRing'.count
  BY <1>1, <1>2, <1>4, <1>6 DEF FirstInFirstOut
<1>8. ASSUME NEW i \in 0..CrCapacity - 1
      PROVE  (After(crRing.head) + i) % CrCapacity = (crRing.head + (i + 1)) % CrCapacity
  BY <1>2, WrapIndex
<1>9. crRing'.tail = (crRing'.head + crRing'.count) % CrCapacity
  <2>1. crRing.count - 1 \in 0..CrCapacity - 1
    BY <1>2, CrAssumption
  <2>2. (After(crRing.head) + (crRing.count - 1)) % CrCapacity
          = (crRing.head + (crRing.count - 1 + 1)) % CrCapacity
    BY <1>8, <2>1
  <2>3. crRing.count - 1 + 1 = crRing.count
    BY <1>2, CrAssumption
  <2>4. QED
    BY <1>4, <2>2, <2>3 DEF FirstInFirstOut
<1>10. crRing.slots[crRing.head] = crPut[Len(crDone) + 1]
  <2>1. (crRing.head + 0) % CrCapacity = crRing.head
    <3>1. 0 \in 0..CrCapacity - 1
      BY CrAssumption
    <3>2. QED
      BY <1>2, <3>1, WrapIndex
  <2>2. crRing.slots[(crRing.head + 0) % CrCapacity] = crPut[Len(crDone) + 0 + 1]
    BY <1>2, CrAssumption DEF FirstInFirstOut
  <2>3. QED
    BY <1>2, <2>1, <2>2
<1>11. \A i \in 1..Len(crDone') : crDone'[i] = crPut'[i]
  <2>1. SUFFICES ASSUME NEW i \in 1..Len(crDone') PROVE crDone'[i] = crPut[i]
    BY <1>1
  <2>2. CASE i \in 1..Len(crDone)
    BY <1>6, <2>2 DEF FirstInFirstOut
  <2>3. CASE i = Len(crDone) + 1
    BY <1>6, <1>10, <2>3
  <2>4. QED
    BY <1>2, <1>6, <2>2, <2>3
<1>12. ASSUME NEW i \in 0..crRing'.count - 1
       PROVE  crRing'.slots[(crRing'.head + i) % CrCapacity] = crPut'[Len(crDone') + i + 1]
  <2>1. i \in 0..CrCapacity - 1 /\ i + 1 \in 0..crRing.count - 1
    BY <1>2, <1>4, CrAssumption
  <2>2. crRing.slots[(crRing.head + (i + 1)) % CrCapacity] = crPut[Len(crDone) + (i + 1) + 1]
    BY <2>1 DEF FirstInFirstOut
  <2>3. Len(crDone') + i + 1 = Len(crDone) + (i + 1) + 1
    BY <1>2, <1>6, <2>1
  <2>4. QED
    BY <1>1, <1>4, <1>8, <2>1, <2>2, <2>3
<1>13. QED
  BY <1>5, <1>7, <1>9, <1>11, <1>12 DEF FirstInFirstOut

LEMMA CrStepInv == CrInv /\ [CrNext]_crvars => CrInv'
PROOF
<1>1. SUFFICES ASSUME CrInv, [CrNext]_crvars PROVE CrInv'
  OBVIOUS
<1>2. ASSUME NEW p \in CrProducers, Push(p) PROVE CrInv'
  BY <1>1, <1>2, PushKeepsInv
<1>3. ASSUME DrainPops PROVE CrInv'
  BY <1>1, <1>3, PopKeepsInv
<1>4. ASSUME UNCHANGED <<crRing, crPut, crDone>>,
             crDrain' \in [running : BOOLEAN, executed : 0..CrCapacity, wake : BOOLEAN],
             crPushing' \subseteq CrProducers
      PROVE  CrInv'
  BY <1>1, <1>4 DEF CrInv, CrTypeOK, FirstInFirstOut
<1>5. ASSUME NEW p \in CrProducers, AsksForWakeup(p) PROVE CrInv'
  BY <1>1, <1>4, <1>5 DEF AsksForWakeup, CrInv, CrTypeOK
<1>6. ASSUME DrainBegins PROVE CrInv'
  BY <1>1, <1>4, <1>6, CrAssumption DEF DrainBegins, CrInv, CrTypeOK
<1>7. ASSUME DrainEnds PROVE CrInv'
  BY <1>1, <1>4, <1>7, CrAssumption DEF DrainEnds, CrInv, CrTypeOK
<1>8. CASE UNCHANGED crvars
  BY <1>1, <1>4, <1>8 DEF crvars, CrInv, CrTypeOK
<1>9. QED
  BY <1>1, <1>2, <1>3, <1>5, <1>6, <1>7, <1>8 DEF CrNext

LEMMA CrInvariant == CrSpec => []CrInv
PROOF BY CrInitInv, CrStepInv, PTL DEF CrSpec

LEMMA StrandedStep ==
  ASSUME CrInv, NeverStranded, [CrNext]_crvars
  PROVE  NeverStranded'
PROOF
<1>1. crDrain \in [running : BOOLEAN, executed : 0..CrCapacity, wake : BOOLEAN]
  BY DEF CrInv, CrTypeOK
<1>2. ASSUME NEW p \in CrProducers, Push(p) PROVE NeverStranded'
  BY <1>2 DEF Push, NeverStranded
<1>3. ASSUME NEW p \in CrProducers, AsksForWakeup(p) PROVE NeverStranded'
  <2>1. crDrain'.wake
    BY <1>1, <1>3 DEF AsksForWakeup
  <2>2. QED
    BY <2>1 DEF NeverStranded
<1>4. ASSUME DrainBegins PROVE NeverStranded'
  <2>1. crDrain'.running = (crRing.count > 0) /\ crRing' = crRing
    BY <1>4 DEF DrainBegins
  <2>2. QED
    BY <2>1 DEF NeverStranded
<1>5. ASSUME DrainPops PROVE NeverStranded'
  <2>1. crDrain'.running
    BY <1>1, <1>5 DEF DrainPops
  <2>2. QED
    BY <2>1 DEF NeverStranded
<1>6. ASSUME DrainEnds PROVE NeverStranded'
  <2>1. crDrain'.wake = (crDrain.wake \/ crRing.count > 0) /\ crRing' = crRing
    BY <1>6 DEF DrainEnds
  <2>2. QED
    BY <2>1 DEF NeverStranded
<1>7. CASE UNCHANGED crvars
  BY <1>7 DEF crvars, NeverStranded
<1>8. QED
  BY <1>2, <1>3, <1>4, <1>5, <1>6, <1>7 DEF CrNext

\* The state stays in its types, whatever is pushed and drained.
THEOREM RingTypes == CrSpec => []CrTypeOK
PROOF BY CrInvariant, PTL DEF CrInv

\* Every command a producer got into the ring is executed after those accepted
\* before it and unchanged, for every capacity; and nothing lies in the ring with
\* nobody on the way to execute it: whoever pushes asks for a wakeup afterwards,
\* and a drain that ends looks for leftovers (ts3_cmd_ring.h).
THEOREM RingKeepsItsCommands == CrSpec => []RingIsSafe
PROOF
<1>1. CrInit => NeverStranded
  BY DEF CrInit, NeverStranded
<1>2. CrInv /\ NeverStranded /\ [CrNext]_crvars => NeverStranded'
  BY StrandedStep
<1>3. CrInv /\ NeverStranded => RingIsSafe
  BY DEF CrInv, RingIsSafe
<1>4. QED
  BY <1>1, <1>2, <1>3, CrInvariant, PTL DEF CrSpec
-----------------------------------------------------------------------------

(***************************************************************************)
(* The hand-over of module WorkerSlot is exact: the handle of the worker   *)
(* is never lost, never closed twice, and joined before both sides return. *)
(***************************************************************************)

\* Where the worker exists, and who owns its handle in which state.
Placed ==
  /\ starter \in {"idle", "build", "create"} => worker = "none"
  /\ starter \in {"created", "published", "takeBack", "reap"} => worker # "none"
  /\ starter = "reap" <=> "starter" \in mine
  /\ stopper = "reap" <=> "stopper" \in mine
  /\ worker = "none" => ~slot.handle /\ mine = {} /\ closed = 0
  /\ closed # 0 => worker = "ended"

\* Each side writes before it reads: once the stopper has looked in vain, the
\* request is visible to a starter that has published or still will.
Ordered ==
  /\ stopper \in {"take", "reap", "end"} => slot.stop
  /\ slot.handle /\ stopper \in {"reap", "end"}
       => starter \in {"published", "takeBack"}

WsInv == WsTypeOK /\ OneOwner /\ Placed /\ Ordered

\* The start states satisfy the invariant.
LEMMA WsInitInv == WsInit => WsInv
  BY DEF WsInit, WsInv, WsTypeOK, OneOwner, Placed, Ordered,
         StarterStates, StopperStates

\* Every step of either side and of the worker keeps it.
LEMMA WsStepInv == WsInv /\ [WsNext]_wsvars => WsInv'
<1> SUFFICES ASSUME WsInv, [WsNext]_wsvars PROVE WsInv'
  OBVIOUS
<1> USE DEF WsInv, WsTypeOK, OneOwner, Placed, Ordered,
            StarterStates, StopperStates
<1>1. CASE MayStart
  BY <1>1 DEF MayStart
<1>2. CASE RaiseRun
  BY <1>2 DEF RaiseRun
<1>3. ASSUME NEW ok \in BOOLEAN, Create(ok) PROVE WsInv'
  BY <1>3 DEF Create
<1>4. CASE Publish
  <2>1. slot'.handle = TRUE /\ slot'.stop = slot.stop
    BY <1>4 DEF Publish
  <2>2. starter = "created" /\ starter' = "published"
        /\ UNCHANGED <<stopper, mine, worker, closed>>
    BY <1>4 DEF Publish
  <2>3. WsTypeOK'
    BY <1>4, <2>1, <2>2 DEF Publish
  <2>4. OneOwner'
    BY <2>1, <2>2
  <2>5. Placed'
    BY <2>1, <2>2
  <2>6. Ordered'
    BY <2>1, <2>2
  <2>7. QED
    BY <2>3, <2>4, <2>5, <2>6
<1>5. CASE LoadStop
  BY <1>5 DEF LoadStop
<1>6. CASE TakeBack
  <2>1. slot'.handle = FALSE /\ slot'.stop = slot.stop
    BY <1>6 DEF TakeBack
  <2>2. starter = "takeBack" /\ UNCHANGED <<stopper, worker, closed>>
    BY <1>6 DEF TakeBack
  <2>3. WsTypeOK'
    BY <1>6 DEF TakeBack
  <2>4. CASE slot.handle
    <3>1. mine' = mine \cup {"starter"} /\ starter' = "reap"
      BY <1>6, <2>4 DEF TakeBack
    <3>2. OneOwner' /\ Placed' /\ Ordered'
      BY <2>1, <2>2, <2>4, <3>1
    <3>3. QED
      BY <2>3, <3>2
  <2>5. CASE ~slot.handle
    <3>1. mine' = mine /\ starter' = "end"
      BY <1>6, <2>5 DEF TakeBack
    <3>2. OneOwner' /\ Placed' /\ Ordered'
      BY <2>1, <2>2, <2>5, <3>1
    <3>3. QED
      BY <2>3, <3>2
  <2>6. QED
    BY <2>4, <2>5
<1>7. CASE StarterReap
  BY <1>7 DEF StarterReap
<1>8. CASE Shut
  BY <1>8 DEF Shut
<1>9. CASE LowerRun
  BY <1>9 DEF LowerRun
<1>10. CASE RequestStop
  BY <1>10 DEF RequestStop
<1>11. CASE Take
  <2>1. slot'.handle = FALSE /\ slot'.stop = slot.stop
    BY <1>11 DEF Take
  <2>2. stopper = "take" /\ UNCHANGED <<starter, worker, closed>>
    BY <1>11 DEF Take
  <2>3. WsTypeOK'
    BY <1>11 DEF Take
  <2>4. CASE slot.handle
    <3>1. mine' = mine \cup {"stopper"} /\ stopper' = "reap"
      BY <1>11, <2>4 DEF Take
    <3>2. OneOwner' /\ Placed' /\ Ordered'
      BY <2>1, <2>2, <2>4, <3>1
    <3>3. QED
      BY <2>3, <3>2
  <2>5. CASE ~slot.handle
    <3>1. mine' = mine /\ stopper' = "end"
      BY <1>11, <2>5 DEF Take
    <3>2. OneOwner' /\ Placed' /\ Ordered'
      BY <2>1, <2>2, <2>5, <3>1
    <3>3. QED
      BY <2>3, <3>2
  <2>6. QED
    BY <2>4, <2>5
<1>12. CASE StopperReap
  BY <1>12 DEF StopperReap
<1>13. CASE WorkerEnds
  BY <1>13 DEF WorkerEnds
<1>14. CASE UNCHANGED wsvars
  BY <1>14 DEF wsvars
<1>15. QED
  BY <1>1, <1>2, <1>3, <1>4, <1>5, <1>6, <1>7, <1>8, <1>9, <1>10, <1>11,
     <1>12, <1>13, <1>14 DEF WsNext, StarterStep, StopperStep

\* The invariant holds in every reachable state.
LEMMA WsInvariant == WsSpec => []WsInv
  BY WsInitInv, WsStepInv, PTL DEF WsSpec

\* The handle of a created worker has exactly one owner at any time.
THEOREM HandleHasOneOwner == WsSpec => []OneOwner
<1>1. WsInv => OneOwner
  BY DEF WsInv
<1>2. QED
  BY <1>1, WsInvariant, PTL

\* When starter and stopper have returned, the worker has ended and was joined
\* by exactly one of them (ui_worker_slot.h:5-31).
THEOREM WorkerIsJoinedByOne == WsSpec => []JoinedByOne
<1>1. WsInv => JoinedByOne
  <2> SUFFICES ASSUME WsInv, starter = "end", stopper = "end", worker # "none"
               PROVE  worker = "ended" /\ closed = 1
    BY DEF JoinedByOne
  <2>1. ~slot.handle /\ mine = {}
    BY DEF WsInv, WsTypeOK, Placed, Ordered
  <2>2. closed = 1
    BY <2>1 DEF WsInv, WsTypeOK, OneOwner
  <2>3. QED
    BY <2>2 DEF WsInv, Placed
<1>2. QED
  BY <1>1, WsInvariant, PTL
-----------------------------------------------------------------------------
(***************************************************************************)
(* Proofs about the seqlock of audio_snap.h, for every number of writers   *)
(* and readers, every set of fields and targets and every bound.  The      *)
(* parity of seq says whether a writer is storing; a copy whose seq is     *)
(* still the current one therefore saw only the last publication.          *)
(***************************************************************************)

(* The variables keep their types: audio_snap_publish and audio_snap_read.  *)
THEOREM TypeCorrect == SnapSpec => []SnapTypeOK
<1>1. SnapInit => SnapTypeOK
  BY SnapAssumption DEF SnapInit, SnapTypeOK
<1>2. SnapTypeOK /\ [SnapNext]_snapvars => SnapTypeOK'
  <2> SUFFICES ASSUME SnapTypeOK, [SnapNext]_snapvars PROVE SnapTypeOK'
    OBVIOUS
  <2> USE SnapAssumption DEF SnapTypeOK, writer, reader, shared
  <2>1. ASSUME NEW w \in Writers, NEW t \in Targets, Lock(w, t) PROVE SnapTypeOK'
    BY <2>1 DEF Lock
  <2>2. ASSUME NEW w \in Writers, PublishBegin(w) PROVE SnapTypeOK'
    BY <2>2 DEF PublishBegin
  <2>3. ASSUME NEW w \in Writers, NEW f \in Fields, StoreField(w, f) PROVE SnapTypeOK'
    <3>1. wtarget[w] \in Structs
      OBVIOUS
    <3>2. data' \in Structs
      BY <3>1, <2>3 DEF StoreField, Structs
    <3>3. QED BY <2>3, <3>2 DEF StoreField
  <2>4. ASSUME NEW w \in Writers, PublishEnd(w) PROVE SnapTypeOK'
    BY <2>4 DEF PublishEnd
  <2>5. ASSUME NEW w \in Writers, Unlock(w) PROVE SnapTypeOK'
    BY <2>5 DEF Unlock
  <2>6. ASSUME NEW r \in Readers, ReadStart(r) PROVE SnapTypeOK'
    BY <2>6 DEF ReadStart
  <2>7. ASSUME NEW r \in Readers, AttemptFails(r), rpc[r] # "idle" PROVE SnapTypeOK'
    BY <2>7 DEF AttemptFails
  <2>8. ASSUME NEW r \in Readers, LoadSeqEven(r) PROVE SnapTypeOK'
    BY <2>8 DEF LoadSeqEven
  <2>9. ASSUME NEW r \in Readers, NEW f \in Fields, LoadField(r, f) PROVE SnapTypeOK'
    <3>1. rcopy' \in [Readers -> Structs]
      BY <2>9 DEF LoadField, Structs
    <3>2. QED BY <2>9, <3>1 DEF LoadField
  <2>10. ASSUME NEW r \in Readers, CheckStable(r) PROVE SnapTypeOK'
    BY <2>10 DEF CheckStable
  <2>11. CASE UNCHANGED snapvars
    BY <2>11 DEF snapvars
  <2>12. QED
    BY <2>1, <2>2, <2>3, <2>4, <2>5, <2>6, <2>7, <2>8, <2>9, <2>10, <2>11
    DEF SnapNext, Writer, Reader, LoadSeqOdd, CheckChanged
<1>3. QED BY <1>1, <1>2, PTL DEF SnapSpec

(* The inductive step of the seqlock: which facts each writer and reader   *)
(* step can disturb, and why they survive.                                 *)
LEMMA SeqlockStep == ASSUME SnapTypeOK, SeqlockInv, [SnapNext]_snapvars PROVE SeqlockInv'
<1> USE SnapAssumption DEF SnapTypeOK, SeqlockInv, LockInv, DataInv, CopyInv, writer, reader, shared
<1>1. ASSUME NEW w \in Writers, NEW t \in Targets, Lock(w, t) PROVE SeqlockInv'
  BY <1>1 DEF Lock
<1>2. ASSUME NEW w \in Writers, PublishBegin(w) PROVE SeqlockInv'
  <2>1. LockInv' BY <1>2 DEF PublishBegin
  <2>2. DataInv' BY <1>2 DEF PublishBegin
  <2>3. CopyInv' BY <1>2 DEF PublishBegin
  <2>4. QED BY <2>1, <2>2, <2>3
<1>3. ASSUME NEW w \in Writers, NEW f \in Fields, StoreField(w, f) PROVE SeqlockInv'
  <2>1. LockInv' BY <1>3 DEF StoreField
  <2>2. \A x \in Writers : writerAt[x] = "writing" => x = w
    BY <1>3 DEF StoreField
  <2>3. data' = [data EXCEPT ![f] = wtarget[w][f]] /\ f \in DOMAIN data
    BY <1>3 DEF StoreField, Structs
  <2>4. DataInv' BY <1>3, <2>2, <2>3 DEF StoreField
  <2>5. CopyInv' BY <1>3 DEF StoreField
  <2>6. QED BY <2>1, <2>4, <2>5
<1>4. ASSUME NEW w \in Writers, PublishEnd(w) PROVE SeqlockInv'
  <2>1. LockInv' BY <1>4 DEF PublishEnd
  <2>2. data = wtarget[w]
    <3>1. \A f \in Fields : data[f] = wtarget[w][f]
      BY <1>4 DEF PublishEnd
    <3>2. data \in Structs /\ wtarget[w] \in Structs
      OBVIOUS
    <3>3. QED BY <3>1, <3>2 DEF Structs
  <2>3. DataInv' BY <1>4, <2>1, <2>2 DEF PublishEnd
  <2>4. CopyInv' BY <1>4 DEF PublishEnd
  <2>5. QED BY <2>1, <2>3, <2>4
<1>5. ASSUME NEW w \in Writers, Unlock(w) PROVE SeqlockInv'
  BY <1>5 DEF Unlock
<1>6. ASSUME NEW r \in Readers, ReadStart(r) PROVE SeqlockInv'
  BY <1>6 DEF ReadStart
<1>7. ASSUME NEW r \in Readers, AttemptFails(r), rpc[r] # "idle" PROVE SeqlockInv'
  BY <1>7 DEF AttemptFails
<1>8. ASSUME NEW r \in Readers, LoadSeqEven(r) PROVE SeqlockInv'
  BY <1>8 DEF LoadSeqEven
<1>9. ASSUME NEW r \in Readers, NEW f \in Fields, LoadField(r, f) PROVE SeqlockInv'
  <2>1. LockInv' /\ DataInv' BY <1>9 DEF LoadField
  <2>2. rcopy'[r] = [rcopy[r] EXCEPT ![f] = data[f]] /\ f \in DOMAIN rcopy[r]
    BY <1>9 DEF LoadField, Structs
  <2>3. rseq[r] = seq => data = latest
    BY <1>9 DEF LoadField
  <2>4. CopyInv' BY <1>9, <2>2, <2>3 DEF LoadField
  <2>5. QED BY <2>1, <2>4
<1>10. ASSUME NEW r \in Readers, CheckStable(r) PROVE SeqlockInv'
  BY <1>10 DEF CheckStable
<1>11. CASE UNCHANGED snapvars
  BY <1>11 DEF snapvars
<1>12. QED
  BY <1>1, <1>2, <1>3, <1>4, <1>5, <1>6, <1>7, <1>8, <1>9, <1>10, <1>11
  DEF SnapNext, Writer, Reader, LoadSeqOdd, CheckChanged

(* At most one writer stores, seq is odd exactly while one does, and a copy *)
(* whose seq is still current agrees with the last publication.            *)
THEOREM SeqlockCorrect == SnapSpec => []SeqlockInv
<1>1. SnapInit => SeqlockInv
  BY SnapAssumption DEF SnapInit, SeqlockInv, LockInv, DataInv, CopyInv
<1>2. SnapTypeOK /\ SeqlockInv /\ [SnapNext]_snapvars => SeqlockInv'
  BY SeqlockStep
<1>3. QED BY <1>1, <1>2, TypeCorrect, PTL DEF SnapSpec

(* What the seqlock gives its readers: a copy that passes the last look at *)
(* seq is the last completed publication, in every field.                  *)
LEMMA StableCopy == ASSUME SnapTypeOK, SeqlockInv, NEW r \in Readers, CheckStable(r)
                    PROVE  rcopy[r] = latest
<1>1. \A f \in Fields : rcopy[r][f] = latest[f]
  BY DEF SnapTypeOK, SeqlockInv, CopyInv, CheckStable
<1>2. rcopy[r] \in Structs /\ latest \in Structs
  BY SnapAssumption DEF SnapTypeOK
<1>3. QED BY <1>1, <1>2 DEF Structs

(* A step of the seqlock is a publication, a read of the register or       *)
(* invisible to it.                                                        *)
LEMMA RegisterStep == ASSUME SnapTypeOK, SeqlockInv, [SnapNext]_snapvars
                      PROVE  [Register!Next]_<<latest, res>>
<1> USE SnapAssumption DEF writer, reader, shared
<1>1. ASSUME NEW w \in Writers, PublishEnd(w) PROVE Register!Publish
  BY <1>1 DEF PublishEnd, Register!Publish, SnapTypeOK, SeqlockInv, LockInv
<1>2. ASSUME NEW r \in Readers, CheckStable(r) PROVE Register!Read(r)
  BY <1>2, StableCopy DEF CheckStable, Register!Read
<1>3. ASSUME NEW r \in Readers, AttemptFails(r)
      PROVE  Register!Read(r) \/ UNCHANGED <<latest, res>>
  BY <1>3 DEF AttemptFails, Register!Read
<1>4. ASSUME NEW w \in Writers, NEW t \in Targets, Lock(w, t)
      PROVE  UNCHANGED <<latest, res>>
  BY <1>4 DEF Lock
<1>5. ASSUME NEW w \in Writers, NEW f \in Fields, StoreField(w, f)
      PROVE  UNCHANGED <<latest, res>>
  BY <1>5 DEF StoreField
<1>6. ASSUME NEW r \in Readers, ReadStart(r) \/ LoadSeqEven(r)
      PROVE  UNCHANGED <<latest, res>>
  BY <1>6 DEF ReadStart, LoadSeqEven
<1>7. ASSUME NEW r \in Readers, NEW f \in Fields, LoadField(r, f)
      PROVE  UNCHANGED <<latest, res>>
  BY <1>7 DEF LoadField
<1>8. CASE UNCHANGED snapvars
  BY <1>8 DEF snapvars
<1>9. ASSUME NEW w \in Writers, PublishBegin(w) \/ Unlock(w)
      PROVE  UNCHANGED <<latest, res>>
  BY <1>9 DEF PublishBegin, Unlock
<1>10. QED
  BY <1>1, <1>2, <1>3, <1>4, <1>5, <1>6, <1>7, <1>8, <1>9
  DEF SnapNext, Writer, Reader, LoadSeqOdd, CheckChanged, Register!Next

(* A read that does not give up returns the last completed publication.    *)
THEOREM ReadsAreLatest == SnapSpec => ReadsLatest
<1>1. ASSUME SnapTypeOK, SeqlockInv, [SnapNext]_snapvars
      PROVE  [\A r \in Readers : res'[r] # res[r] => res'[r] \in {latest, Busy}]_snapvars
  <2> USE <1>1
  <2>1. [Register!Next]_<<latest, res>>
    BY RegisterStep
  <2>2. CASE UNCHANGED res
    BY <2>2
  <2>3. ASSUME NEW r \in Readers, NEW v \in {latest, Busy}, res' = [res EXCEPT ![r] = v]
        PROVE  \A x \in Readers : res'[x] # res[x] => res'[x] \in {latest, Busy}
    BY <2>3 DEF SnapTypeOK
  <2>4. QED
    BY <2>1, <2>2, <2>3 DEF Register!Next, Register!Publish, Register!Read
<1>2. QED BY <1>1, TypeCorrect, SeqlockCorrect, PTL DEF SnapSpec, ReadsLatest

(* The seqlock implements the atomic register, for any number of threads.  *)
THEOREM SeqlockImplementsRegister == SnapSpec => ImplementsRegister
<1>1. SnapInit => Register!Init
  BY DEF SnapInit, Register!Init
<1>2. SnapTypeOK /\ SeqlockInv /\ [SnapNext]_snapvars => [Register!Next]_<<latest, res>>
  BY RegisterStep
<1>3. QED
  BY <1>1, <1>2, TypeCorrect, SeqlockCorrect, PTL DEF SnapSpec, ImplementsRegister, Register!Spec
-----------------------------------------------------------------------------

(***************************************************************************)
(* Proof that no speaker is heard with the echo of another one, for any    *)
(* number of clients and slots and for any number of acquisitions.  The    *)
(* argument follows the epoch: it grows before the owner changes, so an    *)
(* epoch the audio thread has seen identifies one owner.                   *)
(***************************************************************************)

(* The callback thread's half: epochs only grow, a slot whose epoch was    *)
(* seen rings with its owner only, a slot about to be claimed was not seen. *)
OwnerInv ==
  /\ \A s \in Slots : seenEpoch[s] <= acquireEpoch[s]
  /\ \A s \in Slots : owner[s] # None /\ seenEpoch[s] = acquireEpoch[s] => dsp[s] \subseteq {owner[s]}
  /\ wstep = "claim" =>
       /\ wslot \in Slots /\ owner[wslot] = None
       /\ seenEpoch[wslot] < acquireEpoch[wslot]
       /\ apc = "mix" /\ aslot = wslot => aepoch < acquireEpoch[wslot]

(* The audio thread's half: what the two looks at the owner tell about the *)
(* epoch between them.                                                     *)
BlockInv ==
  /\ apc \in {"check3", "mix"} =>
       /\ aepoch <= acquireEpoch[aslot]
       /\ aepoch = seenEpoch[aslot] => dsp[aslot] \subseteq {aclient}
  /\ apc = "epoch" /\ acquireEpoch[aslot] = seenEpoch[aslot] => dsp[aslot] \subseteq {aclient}
  /\ apc = "mix" /\ aepoch = acquireEpoch[aslot] /\ owner[aslot] # None => owner[aslot] = aclient

EchoInv == CaveTypeOK /\ OwnerInv /\ BlockInv

(* The types of the callback thread's steps.                               *)
LEMMA WriterTypes == ASSUME CaveTypeOK, CaveWriter PROVE CaveTypeOK'
<1> USE CaveAssumption DEF CaveTypeOK, AudioSide, pool, block, MaybeSlot
<1>1. CASE \E c \in Speakers : PublishWet(c) \/ PublishDry(c)
  BY <1>1 DEF PublishWet, PublishDry
<1>2. CASE BumpEpoch
  BY <1>2 DEF BumpEpoch, Free
<1>3. CASE ClaimSlot
  BY <1>3 DEF ClaimSlot
<1>4. CASE PoolExhausted \/ PublishSnapshot
  BY <1>4 DEF PoolExhausted, PublishSnapshot
<1>5. QED BY <1>1, <1>2, <1>3, <1>4 DEF CaveWriter

(* The types of the audio thread's steps: a block has a client and a slot. *)
LEMMA AudioTypes == ASSUME CaveTypeOK, CaveAudio PROVE CaveTypeOK'
<1> USE CaveAssumption DEF CaveTypeOK, WriterSide, pool, cavewriter, MaybeSlot
<1>1. CASE \E c \in Speakers : BeginBlock(c)
  BY <1>1 DEF BeginBlock
<1>2. CASE \/ CheckOwner("check1", "check2") \/ CheckOwner("check2", "epoch")
           \/ CheckOwner("check3", "mix")
  BY <1>2 DEF CheckOwner
<1>3. CASE LoadEpoch
  BY <1>3 DEF LoadEpoch
<1>4. CASE Mix
  BY <1>4 DEF Mix
<1>5. QED BY <1>1, <1>2, <1>3, <1>4 DEF CaveAudio

(* The callback thread never hands a seen epoch to a new owner.            *)
LEMMA WriterStep == ASSUME EchoInv, CaveWriter PROVE OwnerInv' /\ BlockInv'
<1> USE CaveAssumption DEF EchoInv, CaveTypeOK, OwnerInv, BlockInv, AudioSide, pool, block, MaybeSlot
<1>1. CASE \E c \in Speakers : PublishWet(c)
  BY <1>1 DEF PublishWet
<1>2. ASSUME NEW c \in Speakers, PublishDry(c) PROVE OwnerInv' /\ BlockInv'
  <2>1. \A s \in Slots : owner'[s] # None => owner'[s] = owner[s]
    BY <1>2 DEF PublishDry
  <2>2. UNCHANGED <<acquireEpoch, seenEpoch, dsp, apc, aclient, aslot, aepoch>> /\ wstep' = "publish"
    BY <1>2 DEF PublishDry
  <2>3. OwnerInv'
    BY <2>1, <2>2
  <2>4. QED BY <2>1, <2>2, <2>3
<1>3. ASSUME NEW s \in Slots, BumpEpoch, owner[s] = None, wslot' = s,
             acquireEpoch' = [acquireEpoch EXCEPT ![s] = @ + 1]
      PROVE  OwnerInv' /\ BlockInv'
  <2>1. UNCHANGED <<owner, seenEpoch, dsp, apc, aclient, aslot, aepoch>>
    BY <1>3 DEF BumpEpoch
  <2>2. OwnerInv'
    BY <1>3, <2>1
  <2>3. BlockInv'
    BY <1>3, <2>1
  <2>4. QED BY <2>2, <2>3
<1>4. CASE ClaimSlot
  <2>1. UNCHANGED <<acquireEpoch, seenEpoch, dsp, apc, aclient, aslot, aepoch>> /\ wstep' = "publish"
    BY <1>4 DEF ClaimSlot
  <2>2. wslot \in Slots /\ owner' = [owner EXCEPT ![wslot] = wclient]
    BY <1>4 DEF ClaimSlot
  <2>3. OwnerInv'
    BY <1>4, <2>1, <2>2 DEF ClaimSlot
  <2>4. BlockInv'
    BY <1>4, <2>1, <2>2 DEF ClaimSlot
  <2>5. QED BY <2>3, <2>4
<1>5. CASE PoolExhausted \/ PublishSnapshot
  BY <1>5 DEF PoolExhausted, PublishSnapshot
<1>6. QED BY <1>1, <1>2, <1>3, <1>4, <1>5 DEF CaveWriter, BumpEpoch, Free

(* While a block is mixed the memory holds the voice of its client only.   *)
LEMMA MixIsOwn == ASSUME EchoInv, Mix
                  PROVE  \A s \in Slots : dsp'[s] # dsp[s] => dsp'[s] \subseteq {aclient}
<1>1. PICK freshStart \in BOOLEAN :
        LET silence == freshStart \/ aepoch # seenEpoch[aslot]
        IN dsp' = [dsp EXCEPT ![aslot] = (IF silence THEN {} ELSE @) \cup {aclient}]
  BY DEF Mix
<1>2. aepoch = seenEpoch[aslot] => dsp[aslot] \subseteq {aclient}
  BY DEF EchoInv, BlockInv, Mix
<1>3. QED BY <1>1, <1>2 DEF EchoInv, CaveTypeOK

(* The audio thread renders, and marks as seen, only what it may.          *)
LEMMA AudioStep == ASSUME EchoInv, CaveAudio PROVE OwnerInv' /\ BlockInv'
<1> USE CaveAssumption DEF EchoInv, CaveTypeOK, OwnerInv, BlockInv, WriterSide, pool, cavewriter, MaybeSlot
<1>1. CASE \E c \in Speakers : BeginBlock(c)
  BY <1>1 DEF BeginBlock
<1>2. CASE CheckOwner("check1", "check2")
  BY <1>2 DEF CheckOwner
<1>3. CASE CheckOwner("check2", "epoch")
  BY <1>3 DEF CheckOwner
<1>4. CASE CheckOwner("check3", "mix")
  BY <1>4 DEF CheckOwner
<1>5. CASE LoadEpoch
  BY <1>5 DEF LoadEpoch
<1>6. CASE Mix
  <2>1. /\ aslot \in Slots /\ apc' = "idle"
        /\ UNCHANGED <<owner, acquireEpoch, wstep, wslot>>
    BY <1>6 DEF Mix
  <2>2. \/ /\ dsp' = [dsp EXCEPT ![aslot] = {aclient}]
           /\ seenEpoch' = [seenEpoch EXCEPT ![aslot] = aepoch]
        \/ /\ dsp' = [dsp EXCEPT ![aslot] = @ \cup {aclient}]
           /\ seenEpoch' = seenEpoch /\ aepoch = seenEpoch[aslot]
    BY <1>6 DEF Mix
  <2>3. aepoch <= acquireEpoch[aslot]
    BY <1>6 DEF Mix
  <2>4. aepoch = acquireEpoch[aslot] /\ owner[aslot] # None => owner[aslot] = aclient
    BY <1>6 DEF Mix
  <2>5. aepoch = seenEpoch[aslot] => dsp[aslot] \subseteq {aclient}
    BY <1>6 DEF Mix
  <2>6. BlockInv'
    BY <2>1
  <2>7. \A s \in Slots : seenEpoch'[s] <= acquireEpoch'[s]
    BY <2>1, <2>2, <2>3
  <2>8. ASSUME NEW s \in Slots, owner'[s] # None, seenEpoch'[s] = acquireEpoch'[s]
        PROVE  dsp'[s] \subseteq {owner'[s]}
    <3>1. CASE s # aslot
      BY <2>1, <2>2, <2>8, <3>1
    <3>2. CASE s = aslot
      BY <2>1, <2>2, <2>4, <2>5, <2>8, <3>2
    <3>3. QED BY <3>1, <3>2
  <2>9. wstep' = "claim" => seenEpoch'[wslot'] < acquireEpoch'[wslot']
    BY <1>6, <2>1, <2>2 DEF Mix
  <2>10. QED BY <2>1, <2>6, <2>7, <2>8, <2>9
<1>7. QED BY <1>1, <1>2, <1>3, <1>4, <1>5, <1>6 DEF CaveAudio

(* The invariant of the hand-over (cave_slot_acquire, audio_apply_cave).   *)
THEOREM HandOver == CaveSpec => []EchoInv
<1>1. CaveInit => EchoInv
  BY CaveAssumption DEF CaveInit, EchoInv, CaveTypeOK, OwnerInv, BlockInv, MaybeSlot
<1>2. EchoInv /\ [CaveNext]_cavevars => EchoInv'
  <2> SUFFICES ASSUME EchoInv, [CaveNext]_cavevars PROVE EchoInv'
    OBVIOUS
  <2>1. CASE CaveWriter
    BY <2>1, WriterTypes, WriterStep DEF EchoInv
  <2>2. CASE CaveAudio
    BY <2>2, AudioTypes, AudioStep DEF EchoInv
  <2>3. CASE UNCHANGED cavevars
    BY <2>3 DEF EchoInv, CaveTypeOK, OwnerInv, BlockInv, cavevars, pool, cavewriter, block
  <2>4. QED BY <2>1, <2>2, <2>3 DEF CaveNext
<1>3. QED BY <1>1, <1>2, PTL DEF CaveSpec

(* No speaker is heard with the echo of another one: every step that       *)
(* changes the reverb memory of a slot leaves in it the voice of the       *)
(* client whose block is rendered and no other (ts3_proximity_audio.c).    *)
THEOREM NoForeignEchoHolds == CaveSpec => NoForeignEcho
<1>1. ASSUME EchoInv, [CaveNext]_cavevars
      PROVE  [\A s \in Slots : dsp'[s] # dsp[s] => dsp'[s] \subseteq {aclient}]_cavevars
  <2>1. CASE Mix
    BY <1>1, <2>1, MixIsOwn
  <2>2. CASE CaveWriter
    <3>1. UNCHANGED dsp
      BY <2>2 DEF CaveWriter, PublishWet, PublishDry, BumpEpoch, ClaimSlot, PoolExhausted,
                  PublishSnapshot, AudioSide
    <3>2. QED BY <3>1
  <2>3. CASE CaveAudio /\ ~Mix
    <3>1. UNCHANGED dsp
      BY <2>3 DEF CaveAudio, BeginBlock, CheckOwner, LoadEpoch
    <3>2. QED BY <3>1
  <2>4. CASE UNCHANGED cavevars
    BY <2>4
  <2>5. QED BY <1>1, <2>1, <2>2, <2>3, <2>4 DEF CaveNext
<1>2. QED BY <1>1, HandOver, PTL DEF CaveSpec, NoForeignEcho

(* The pool: owners and the map of the callback thread are one relation at *)
(* every step, and who looks for a slot has none.                          *)
MapInv ==
  /\ \A c \in Speakers, s \in Slots : owner[s] = c <=> slotOf[c] = s
  /\ wstep \in {"acquire", "claim"} => wclient \in Speakers /\ slotOf[wclient] = None
  /\ wstep = "claim" => wslot \in Slots /\ owner[wslot] = None

LEMMA MapStep == ASSUME CaveTypeOK, MapInv, [CaveNext]_cavevars PROVE MapInv'
<1> USE CaveAssumption DEF CaveTypeOK, MapInv, MaybeSlot
<1>1. ASSUME NEW c \in Speakers, PublishWet(c) PROVE MapInv'
  <2>1. /\ UNCHANGED <<owner, slotOf>> /\ wclient' = c
        /\ wstep' = IF slotOf[c] = None THEN "acquire" ELSE "publish"
    BY <1>1 DEF PublishWet, pool
  <2>2. QED BY <2>1
<1>2. ASSUME NEW c \in Speakers, PublishDry(c) PROVE MapInv'
  <2>1. /\ owner' = [s \in Slots |-> IF s = slotOf[c] /\ owner[s] = c THEN None ELSE owner[s]]
        /\ slotOf' = [slotOf EXCEPT ![c] = None] /\ wstep' = "publish"
    BY <1>2 DEF PublishDry
  <2>2. ASSUME NEW d \in Speakers, NEW s \in Slots PROVE owner'[s] = d <=> slotOf'[d] = s
    <3>1. CASE d = c
      BY <2>1, <3>1
    <3>2. CASE d # c
      BY <2>1, <3>2
    <3>3. QED BY <3>1, <3>2
  <2>3. QED BY <2>1, <2>2
<1>3. CASE BumpEpoch
  <2>1. UNCHANGED <<owner, slotOf, wclient>> /\ wslot' \in Free /\ wstep = "acquire"
    BY <1>3 DEF BumpEpoch
  <2>2. QED BY <2>1 DEF Free
<1>4. CASE ClaimSlot
  <2>1. /\ owner' = [owner EXCEPT ![wslot] = wclient] /\ wstep' = "publish"
        /\ slotOf' = [slotOf EXCEPT ![wclient] = wslot] /\ wslot \in Slots /\ owner[wslot] = None
        /\ wclient \in Speakers /\ slotOf[wclient] = None
    BY <1>4 DEF ClaimSlot
  <2>2. ASSUME NEW d \in Speakers, NEW s \in Slots PROVE owner'[s] = d <=> slotOf'[d] = s
    <3>1. CASE d = wclient
      BY <2>1, <3>1
    <3>2. CASE d # wclient
      BY <2>1, <3>2
    <3>3. QED BY <3>1, <3>2
  <2>3. QED BY <2>1, <2>2
<1>5. CASE PoolExhausted \/ PublishSnapshot
  BY <1>5 DEF PoolExhausted, PublishSnapshot, pool
<1>6. CASE CaveAudio
  BY <1>6 DEF CaveAudio, BeginBlock, CheckOwner, LoadEpoch, Mix, WriterSide, pool, cavewriter
<1>7. CASE UNCHANGED cavevars
  BY <1>7 DEF cavevars, pool, cavewriter
<1>8. QED BY <1>1, <1>2, <1>3, <1>4, <1>5, <1>6, <1>7 DEF CaveNext, CaveWriter

(* The pool and the map of the callback thread agree between operations:   *)
(* no slot is lost and no two clients share one, for any number of both    *)
(* (cave_slot_acquire, cave_slot_release).                                 *)
THEOREM PoolAgreesWithMap == CaveSpec => []PoolConsistent
<1>1. CaveInit => MapInv
  BY CaveAssumption DEF CaveInit, MapInv
<1>2. CaveTypeOK /\ MapInv /\ [CaveNext]_cavevars => MapInv'
  BY MapStep
<1>3. EchoInv => CaveTypeOK
  BY DEF EchoInv
<1>4. MapInv => PoolConsistent
  BY DEF MapInv, PoolConsistent
<1>5. QED BY <1>1, <1>2, <1>3, <1>4, HandOver, PTL DEF CaveSpec
=============================================================================
