------------------------------- MODULE Unmute -------------------------------
(***************************************************************************)
(* The unmute bookkeeping of ts3_proximity_audio.c: a flag per client and  *)
(* a counter that says whether it is worth scanning the flags.  Audio      *)
(* threads set a flag with one compare-and-swap and then increment the     *)
(* counter; the callback thread scans, unmutes a batch, and takes flag and *)
(* counter back.  ts3_audio_invalidate_client and ts3_audio_reset run on   *)
(* the callback thread too and race with the audio threads only.           *)
(*                                                                         *)
(* Every interlocked operation is a step.  TS3_UNMUTE_REARM_MS after a     *)
(* client was unmuted its window ends, whatever number of flushes that     *)
(* took; a flush runs only when the control plane dispatches it, see       *)
(* Wakeup.                                                                 *)
(***************************************************************************)
EXTENDS Integers, FiniteSets

CONSTANTS
  NClients,          \* the client ids are 1..NClients
  AudioThreads,      \* threads that run ts3_audio_process_playback
  Batch,             \* TS3_UNMUTE_BATCH_MAX - 1
  MaxFailures,       \* bound: unmute requests that TeamSpeak refuses
  ResetRaces,        \* TRUE: audio threads signal during ts3_audio_reset
  MaxLeaves          \* bound: clients that leave; one that comes back at once takes a slot
                     \* of a batch again, so endless coming and going starves the others

Clients == 1..NClients

ASSUME UnmuteAssumption ==
  /\ NClients \in Nat /\ Batch \in Nat \ {0} /\ MaxFailures \in Nat
  /\ IsFiniteSet(AudioThreads)
  /\ ResetRaces \in BOOLEAN /\ MaxLeaves \in Nat

VARIABLES
  flag,              \* g_pendingUnmute
  count,             \* g_pendingUnmuteCount
  failures, leaves,  \* refused unmute requests, clients that left
  unlocked, rearm,   \* g_clientUnlocked; unmuted less than TS3_UNMUTE_REARM_MS ago
  inc,               \* audio threads between the swap and the increment
  cpc, cid,          \* callback thread: what it does, the client it looks at
  batch,             \* ts3_audio_flush_unmutes: clients still to take back
  after              \* what the callback thread does after taking one client back

unmuted == <<unlocked, rearm, failures, leaves>>
umvars == <<flag, count, unmuted, inc, cpc, cid, batch, after>>

UmTypeOK ==
  /\ flag \in [Clients -> BOOLEAN] /\ count \in Int
  /\ unlocked \in [Clients -> BOOLEAN] /\ rearm \in [Clients -> BOOLEAN]
  /\ inc \in SUBSET AudioThreads /\ failures \in 0..MaxFailures /\ leaves \in 0..MaxLeaves
  /\ cpc \in {"idle", "publish", "scan", "unmute", "take", "dec", "sweep", "clear", "zero"}
  /\ cid \in 1..(NClients + 1)
  /\ batch \in SUBSET Clients /\ Cardinality(batch) <= Batch   \* the array anyIDs
  /\ after \in {"idle", "take", "sweep"}

UmInit ==
  /\ flag = [c \in Clients |-> FALSE] /\ count = 0
  /\ unlocked = [c \in Clients |-> FALSE] /\ rearm = [c \in Clients |-> FALSE]
  /\ failures = 0 /\ leaves = 0 /\ inc = {}
  /\ cpc = "idle" /\ cid = 1 /\ batch = {} /\ after = "idle"
-----------------------------------------------------------------------------
(* audio_signal_unmute_flag_only on an audio thread.  The reset sets the   *)
(* pass-through mode first, in which no block signals; without ResetRaces  *)
(* the blocks that began before it are also over.                          *)

Resetting == cpc \in {"sweep", "clear", "zero"} \/ (cpc = "dec" /\ after = "sweep")

SetFlag(t, c) ==
  /\ t \notin inc /\ ~flag[c]
  /\ ResetRaces \/ ~Resetting
  /\ flag' = [flag EXCEPT ![c] = TRUE]
  /\ inc' = inc \cup {t}
  /\ UNCHANGED <<count, unmuted, cpc, cid, batch, after>>

Increment(t) ==
  /\ t \in inc
  /\ inc' = inc \ {t}
  /\ count' = count + 1
  /\ UNCHANGED <<flag, unmuted, cpc, cid, batch, after>>
-----------------------------------------------------------------------------
(* Callback thread.                                                        *)

Goto(pc, c) == cpc' = pc /\ cid' = c

(* The publication of an audible target signals too.                       *)
PublishFlag(c) ==
  /\ cpc = "idle" /\ ~flag[c]
  /\ flag' = [flag EXCEPT ![c] = TRUE]
  /\ Goto("publish", 1)
  /\ UNCHANGED <<count, unmuted, inc, batch, after>>

PublishIncrement ==
  /\ cpc = "publish"
  /\ count' = count + 1
  /\ Goto("idle", 1)
  /\ UNCHANGED <<flag, unmuted, inc, batch, after>>

(* ts3_audio_flush_unmutes.                                                *)
FlushBegin ==
  /\ cpc = "idle" /\ count > 0
  /\ Goto("scan", 1)
  /\ UNCHANGED <<flag, count, unmuted, inc, batch, after>>

ScanIgnoresRearm ==                \* mutant: re-armed clients take slots
  /\ cpc = "scan" /\ cid <= NClients /\ Cardinality(batch) < Batch
  /\ batch' = IF flag[cid] THEN batch \cup {cid} ELSE batch
  /\ Goto("scan", cid + 1)
  /\ UNCHANGED <<flag, count, unmuted, inc, after>>

ScanStep ==
  /\ cpc = "scan" /\ cid <= NClients /\ Cardinality(batch) < Batch
  /\ batch' = IF flag[cid] /\ ~(unlocked[cid] /\ rearm[cid])
              THEN batch \cup {cid} ELSE batch
  /\ Goto("scan", cid + 1)
  /\ UNCHANGED <<flag, count, unmuted, inc, after>>

ScanEnd ==
  /\ cpc = "scan" /\ (cid > NClients \/ Cardinality(batch) = Batch)
  /\ Goto(IF batch = {} THEN "idle" ELSE "unmute", 1)
  /\ UNCHANGED <<flag, count, unmuted, inc, batch, after>>

(* ts3_unmute_clients_for_pcm: the whole batch or, on an error, nothing.   *)
UnmuteOk ==
  /\ cpc = "unmute"
  /\ Goto("take", 1)
  /\ UNCHANGED <<flag, count, unmuted, inc, batch, after>>

UnmuteFails ==
  /\ cpc = "unmute" /\ failures < MaxFailures
  /\ failures' = failures + 1
  /\ batch' = {}
  /\ Goto("idle", 1)
  /\ UNCHANGED <<flag, count, unlocked, rearm, leaves, inc, after>>

TakeAlways(c, then) ==             \* mutant: counts down although the swap failed
  /\ flag' = [flag EXCEPT ![c] = FALSE]
  /\ after' = then
  /\ cpc' = "dec"

(* The swap of a flag back to 0; the decrement follows if it succeeded.    *)
TakeFlag(c, then) ==
  /\ flag' = [flag EXCEPT ![c] = FALSE]
  /\ after' = then
  /\ cpc' = IF flag[c] THEN "dec" ELSE then

FlushTake(c) ==
  /\ cpc = "take" /\ c \in batch
  /\ TakeFlag(c, "take")
  /\ batch' = batch \ {c}
  /\ unlocked' = [unlocked EXCEPT ![c] = TRUE]
  /\ rearm' = [rearm EXCEPT ![c] = TRUE]
  /\ UNCHANGED <<count, failures, leaves, inc, cid>>

FlushEnd ==
  /\ cpc = "take" /\ batch = {}
  /\ Goto("idle", 1)
  /\ UNCHANGED <<flag, count, unmuted, inc, batch, after>>

Decrement ==
  /\ cpc = "dec"
  /\ count' = count - 1
  /\ Goto(after, cid)
  /\ UNCHANGED <<flag, unmuted, inc, batch, after>>

(* ts3_audio_invalidate_client of one client, on its own.                  *)
Invalidate(c) ==
  /\ cpc = "idle" /\ leaves < MaxLeaves
  /\ leaves' = leaves + 1
  /\ TakeFlag(c, "idle")
  /\ unlocked' = [unlocked EXCEPT ![c] = FALSE]
  /\ rearm' = [rearm EXCEPT ![c] = FALSE]
  /\ UNCHANGED <<count, failures, inc, cid, batch>>

(* ts3_audio_reset: invalidate every client with state, then clear all     *)
(* flags, then the counter.                                                *)
ResetBegin ==
  /\ cpc = "idle" /\ (ResetRaces \/ inc = {})
  /\ Goto("sweep", 1)
  /\ UNCHANGED <<flag, count, unmuted, inc, batch, after>>

ResetSweep ==
  /\ cpc = "sweep" /\ cid <= NClients
  /\ \E hasState \in {TRUE} \cup {flag[cid]} :     \* other state may be there
       IF hasState
       THEN /\ TakeFlag(cid, "sweep")
            /\ unlocked' = [unlocked EXCEPT ![cid] = FALSE]
            /\ rearm' = [rearm EXCEPT ![cid] = FALSE]
       ELSE cpc' = "sweep" /\ UNCHANGED <<flag, unlocked, rearm, after>>
  /\ cid' = cid + 1
  /\ UNCHANGED <<count, failures, leaves, inc, batch>>

ResetSwept ==
  /\ cpc = "sweep" /\ cid > NClients
  /\ Goto("clear", 1)
  /\ UNCHANGED <<flag, count, unmuted, inc, batch, after>>

ResetClear ==
  /\ cpc = "clear"
  /\ IF cid > NClients THEN Goto("zero", 1) /\ UNCHANGED flag
     ELSE flag' = [flag EXCEPT ![cid] = FALSE] /\ Goto("clear", cid + 1)
  /\ UNCHANGED <<count, unmuted, inc, batch, after>>

ResetZero ==
  /\ cpc = "zero"
  /\ count' = 0
  /\ Goto("idle", 1)
  /\ UNCHANGED <<flag, unmuted, inc, batch, after>>

(* The window of a client ends.  A flush reads the clock once, before its  *)
(* scan, so that this comes between two flushes.                           *)
RearmOver(c) ==
  /\ cpc = "idle" /\ rearm[c]
  /\ rearm' = [rearm EXCEPT ![c] = FALSE]
  /\ UNCHANGED <<flag, count, unlocked, failures, leaves, inc, cpc, cid, batch, after>>

Flush == FlushBegin \/ ScanStep \/ ScanEnd \/ UnmuteOk \/ UnmuteFails
           \/ (\E c \in Clients : FlushTake(c)) \/ FlushEnd
Reset == ResetBegin \/ ResetSweep \/ ResetSwept \/ ResetClear \/ ResetZero
Callback == (\E c \in Clients : PublishFlag(c) \/ Invalidate(c))
              \/ PublishIncrement \/ Flush \/ Decrement \/ Reset
Audio(t) == (\E c \in Clients : SetFlag(t, c)) \/ Increment(t)

UmNext == Callback \/ (\E c \in Clients : RearmOver(c)) \/ \E t \in AudioThreads : Audio(t)

UmSpec == UmInit /\ [][UmNext]_umvars

(* The callback thread finishes what it began; a flush is dispatched again *)
(* and again while the counter is positive (Wakeup!WorkIsDispatched), and  *)
(* TeamSpeak refuses at most MaxFailures unmute requests and at most       *)
(* MaxLeaves clients leave.                                                *)
UmFairness ==
  /\ WF_umvars(PublishIncrement) /\ WF_umvars(Decrement)
  /\ WF_umvars(ScanStep) /\ WF_umvars(ScanEnd) /\ WF_umvars(UnmuteOk)
  /\ WF_umvars(\E c \in Clients : FlushTake(c)) /\ WF_umvars(FlushEnd)
  /\ WF_umvars(ResetSweep \/ ResetSwept \/ ResetClear \/ ResetZero)
  /\ SF_umvars(FlushBegin)
  /\ \A t \in AudioThreads : WF_umvars(Increment(t))

UmFairSpec == UmSpec /\ UmFairness

(* And the time of every window passes, also when flush follows flush.     *)
UmTimedSpec == UmFairSpec /\ \A c \in Clients : SF_umvars(RearmOver(c))
-----------------------------------------------------------------------------
(* The counter is the number of flags, up to the increments and the        *)
(* decrement that are still to come: no flag is invisible to               *)
(* ts3_audio_has_pending_unmutes and no phantom keeps the re-wake going.   *)
Flagged == {c \in Clients : flag[c]}
Due == Cardinality(inc) + (IF cpc = "publish" THEN 1 ELSE 0)
CounterMatches == count + Due = Cardinality(Flagged) + (IF cpc = "dec" THEN 1 ELSE 0)

(* A flagged client is unmuted or invalidated in the end, or was unmuted   *)
(* within its window, although the batch is bounded and others are flagged *)
(* again at once; unless the windows of a whole batch of clients with      *)
(* lower ids, which every scan finds first, end again and again.           *)
EveryFlagServed ==
  \A c \in Clients :
    \/ []<>(~flag[c] \/ rearm[c])
    \/ \E S \in SUBSET (1..(c - 1)) :
         Cardinality(S) = Batch /\ \A d \in S : []<><<RearmOver(d)>>_umvars

(* ts3_audio_flush_unmutes: "skipped without taking a batch slot, so a     *)
(* full batch can never starve the others".                                *)
NeverStarved == \A c \in Clients : []<>~flag[c]

(* "a flag set right now is simply found by the next flush": at rest, the  *)
(* counter does not hide a flag.                                           *)
FlagIsFound == (cpc = "idle" /\ inc = {} /\ Flagged # {}) => count > 0
=============================================================================
