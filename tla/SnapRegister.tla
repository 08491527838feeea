---------------------------- MODULE SnapRegister ----------------------------
(***************************************************************************)
(* What audio_snap promises the audio thread: an atomic register.  A       *)
(* publication replaces the whole value at once, a read returns the whole  *)
(* current value or gives up with Busy.                                    *)
(***************************************************************************)
CONSTANTS Readers, Targets, Zero, Busy, NoResult

VARIABLES cur, res

Init == cur = Zero /\ res = [r \in Readers |-> NoResult]

Publish == \E t \in Targets : cur' = t /\ UNCHANGED res

Read(r) == /\ \E v \in {cur, Busy} : res' = [res EXCEPT ![r] = v]
           /\ UNCHANGED cur

Next == Publish \/ \E r \in Readers : Read(r)

Spec == Init /\ [][Next]_<<cur, res>>
=============================================================================
