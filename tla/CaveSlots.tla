----------------------------- MODULE CaveSlots ------------------------------
(***************************************************************************)
(* The pool of cave reverbs of ts3_proximity_audio.c.  The callback thread *)
(* gives the slots to clients and takes them back (under g_writerLock, so  *)
(* one operation at a time); the audio thread alone touches the reverb     *)
(* memory of a slot.  Ownership is handed over by two words of a slot, the *)
(* owner and the acquire epoch, without a lock.                            *)
(*                                                                         *)
(* The slot a client may use travels in its snapshot, which is an atomic   *)
(* register (module AudioSnap).  The reverb memory is the set of clients   *)
(* whose voice still rings in it.                                          *)
(***************************************************************************)
EXTENDS Naturals, FiniteSets

CONSTANTS
  Speakers,
  NSlots,            \* CAVE_SLOTS
  None,              \* owner 0 of a slot, slot -1 of a client
  MaxEpoch           \* bound: acquisitions of a slot

Slots == 1..NSlots

ASSUME CaveAssumption == None \notin Speakers /\ NSlots \in Nat /\ MaxEpoch \in Nat /\ None \notin Slots

VARIABLES
  owner, acquireEpoch, seenEpoch, dsp,   \* CaveState of each slot
  slotOf,                                \* g_reverbSlotByClient
  snapSlot,                              \* reverbSlot of the published snapshot
  wstep, wclient, wslot,                 \* callback thread
  apc, aclient, aslot, aepoch,           \* audio thread: the block it renders
  cached                                 \* g_targetCache: reverbSlot of the last good read

pool   == <<owner, acquireEpoch, slotOf, snapSlot>>
cavewriter == <<wstep, wclient, wslot>>
block  == <<apc, aclient, aslot, aepoch, cached>>
cavevars == <<pool, seenEpoch, dsp, cavewriter, block>>

MaybeSlot == Slots \cup {None}

CaveTypeOK ==
  /\ owner \in [Slots -> Speakers \cup {None}]
  /\ acquireEpoch \in [Slots -> Nat] /\ seenEpoch \in [Slots -> Nat]
  /\ dsp \in [Slots -> SUBSET Speakers]
  /\ slotOf \in [Speakers -> MaybeSlot] /\ snapSlot \in [Speakers -> MaybeSlot]
  /\ wstep \in {"idle", "acquire", "claim", "publish"}
  /\ wclient \in Speakers \cup {None} /\ wslot \in MaybeSlot
  /\ apc \in {"idle", "check1", "check2", "epoch", "check3", "mix"}
  /\ aclient \in Speakers \cup {None} /\ aslot \in MaybeSlot /\ aepoch \in Nat
  /\ apc # "idle" => aclient \in Speakers /\ aslot \in Slots
  /\ cached \in [Speakers -> MaybeSlot]

CaveInit ==
  /\ owner = [s \in Slots |-> None]
  /\ acquireEpoch = [s \in Slots |-> 0] /\ seenEpoch = [s \in Slots |-> 0]
  /\ dsp = [s \in Slots |-> {}]
  /\ slotOf = [c \in Speakers |-> None] /\ snapSlot = [c \in Speakers |-> None]
  /\ wstep = "idle" /\ wclient = None /\ wslot = None
  /\ apc = "idle" /\ aclient = None /\ aslot = None /\ aepoch = 0
  /\ cached = [c \in Speakers |-> None]
-----------------------------------------------------------------------------
(* Callback thread: audio_publish_client and ts3_audio_invalidate_client.  *)

AudioSide == <<seenEpoch, dsp, block>>

(* A wet target keeps the slot the client has or looks for a free one.     *)
PublishWet(c) ==
  /\ wstep = "idle"
  /\ wstep' = IF slotOf[c] = None THEN "acquire" ELSE "publish"
  /\ wclient' = c /\ wslot' = slotOf[c]
  /\ UNCHANGED <<pool, AudioSide>>

DryKeepsMap(c) ==                  \* mutant: the map still names the released slot
  /\ wstep = "idle"
  /\ owner' = [s \in Slots |-> IF s = slotOf[c] /\ owner[s] = c THEN None ELSE owner[s]]
  /\ wstep' = "publish" /\ wclient' = c /\ wslot' = None
  /\ UNCHANGED <<acquireEpoch, slotOf, snapSlot, AudioSide>>

(* A dry or invalid target gives the slot back (cave_slot_release).        *)
PublishDry(c) ==
  /\ wstep = "idle"
  /\ owner' = [s \in Slots |-> IF s = slotOf[c] /\ owner[s] = c THEN None ELSE owner[s]]
  /\ slotOf' = [slotOf EXCEPT ![c] = None]
  /\ wstep' = "publish" /\ wclient' = c /\ wslot' = None
  /\ UNCHANGED <<acquireEpoch, snapSlot, AudioSide>>

(* cave_slot_acquire: the first free slot gets a new epoch, then its owner. *)
Free == {s \in Slots : owner[s] = None}

BumpEpoch ==
  /\ wstep = "acquire"
  /\ \E s \in Free :
       /\ \A t \in Free : s <= t
       /\ acquireEpoch[s] < MaxEpoch
       /\ wslot' = s
       /\ acquireEpoch' = [acquireEpoch EXCEPT ![s] = @ + 1]
  /\ wstep' = "claim"
  /\ UNCHANGED <<owner, slotOf, snapSlot, wclient, AudioSide>>

ClaimSlot ==
  /\ wstep = "claim"
  /\ owner' = [owner EXCEPT ![wslot] = wclient]
  /\ slotOf' = [slotOf EXCEPT ![wclient] = wslot]
  /\ wstep' = "publish"
  /\ UNCHANGED <<acquireEpoch, snapSlot, wclient, wslot, AudioSide>>

PoolExhausted ==
  /\ wstep = "acquire" /\ Free = {}
  /\ wstep' = "publish"
  /\ UNCHANGED <<pool, wclient, wslot, AudioSide>>

PublishSnapshot ==
  /\ wstep = "publish"
  /\ snapSlot' = [snapSlot EXCEPT ![wclient] = wslot]
  /\ wstep' = "idle" /\ wclient' = None /\ wslot' = None
  /\ UNCHANGED <<owner, acquireEpoch, slotOf, AudioSide>>

CaveWriter == (\E c \in Speakers : PublishWet(c) \/ PublishDry(c))
                \/ BumpEpoch \/ ClaimSlot \/ PoolExhausted \/ PublishSnapshot
-----------------------------------------------------------------------------
(* Audio thread: the reverb part of ts3_audio_process_playback.            *)

WriterSide == <<pool, cavewriter>>

(* The target comes from the snapshot, or from the cache while the writer  *)
(* is in the middle of a publication (AUDIO_SNAP_BUSY).                    *)
BeginBlock(c) ==
  /\ apc = "idle"
  /\ \/ aslot' = snapSlot[c] /\ cached' = [cached EXCEPT ![c] = snapSlot[c]]
     \/ aslot' = cached[c] /\ wstep = "publish" /\ wclient = c /\ UNCHANGED cached
  /\ aslot' # None
  /\ aclient' = c
  /\ apc' = "check1"
  /\ UNCHANGED <<aepoch, seenEpoch, dsp, WriterSide>>

CheckOwnerOnce(from, to) ==        \* mutant: no second look after the epoch
  /\ apc = from
  /\ apc' = IF from = "check3" \/ owner[aslot] = aclient THEN to ELSE "idle"
  /\ UNCHANGED <<aclient, aslot, aepoch, cached, seenEpoch, dsp, WriterSide>>

(* The owner is looked at before the call and around the epoch.            *)
CheckOwner(from, to) ==
  /\ apc = from
  /\ apc' = IF owner[aslot] = aclient THEN to ELSE "idle"
  /\ UNCHANGED <<aclient, aslot, aepoch, cached, seenEpoch, dsp, WriterSide>>

LoadEpoch ==
  /\ apc = "epoch"
  /\ aepoch' = acquireEpoch[aslot]
  /\ apc' = "check3"
  /\ UNCHANGED <<aclient, aslot, cached, seenEpoch, dsp, WriterSide>>

(* A new epoch, or the start of an utterance, silences the memory first.   *)
Mix ==
  /\ apc = "mix"
  /\ \E freshStart \in BOOLEAN :
       LET silence == freshStart \/ aepoch # seenEpoch[aslot]
       IN /\ seenEpoch' = [seenEpoch EXCEPT ![aslot] = IF silence THEN aepoch ELSE @]
          /\ dsp' = [dsp EXCEPT ![aslot] = (IF silence THEN {} ELSE @) \cup {aclient}]
  /\ apc' = "idle"
  /\ UNCHANGED <<aclient, aslot, aepoch, cached, WriterSide>>

CaveAudio == (\E c \in Speakers : BeginBlock(c)) \/ CheckOwner("check1", "check2")
               \/ CheckOwner("check2", "epoch") \/ LoadEpoch
               \/ CheckOwner("check3", "mix") \/ Mix

CaveNext == CaveWriter \/ CaveAudio

CaveSpec == CaveInit /\ [][CaveNext]_cavevars
-----------------------------------------------------------------------------
(* No speaker is heard with the echo of another one: while a client's      *)
(* block is mixed the memory holds its own voice only, however the slot    *)
(* changes hands around and during the block.                              *)
NoForeignEcho ==
  [][\A s \in Slots : dsp'[s] # dsp[s] => dsp'[s] \subseteq {aclient}]_cavevars

(* The pool and the map of the callback thread agree between operations:   *)
(* no slot is lost, and no two clients share one.                          *)
PoolConsistent ==
  wstep = "idle" => \A c \in Speakers, s \in Slots : owner[s] = c <=> slotOf[c] = s
=============================================================================
