------------------------------ MODULE WorkerSlot ------------------------------
(***************************************************************************)
(* The hand-over of a worker thread's handle between the thread that       *)
(* starts the worker and the thread that stops it (ui_worker_slot.h), as   *)
(* overlay_start and overlay_stop use it (plugin_ui_compat.c:734-776), with *)
(* no lock and, here, without the start gate in front of it.               *)
(*                                                                         *)
(* slot    the shared structure (handle, stop) and the flags the worker    *)
(*         polls: run (overlayThreadRunning), shut (pluginShuttingDown,    *)
(*         set before every stop)                                          *)
(* starter, stopper  where the two threads are                             *)
(* mine    the sides that hold the handle as their own                     *)
(* worker  the worker thread; closed, how often its handle was closed      *)
(***************************************************************************)
EXTENDS Naturals, FiniteSets

VARIABLES slot, starter, stopper, mine, worker, closed

wsvars == <<slot, starter, stopper, mine, worker, closed>>

StarterStates == {"idle", "build", "create", "created", "published", "takeBack",
                  "reap", "end"}
StopperStates == {"idle", "run", "request", "take", "reap", "end"}

WsInit ==
  /\ slot = [handle |-> FALSE, stop |-> FALSE, run |-> FALSE, shut |-> FALSE]
  /\ starter = "idle"
  /\ stopper = "idle"
  /\ mine = {}
  /\ worker = "none"
  /\ closed = 0

-----------------------------------------------------------------------------
(* The starter.                                                            *)

MayStart ==
  /\ starter = "idle"
  /\ starter' = IF slot.shut \/ slot.stop THEN "end" ELSE "build"
  /\ UNCHANGED <<slot, stopper, mine, worker, closed>>

\* The run flag is set before the thread exists.
RaiseRun ==
  /\ starter = "build"
  /\ slot' = [slot EXCEPT !.run = TRUE]
  /\ starter' = "create"
  /\ UNCHANGED <<stopper, mine, worker, closed>>

Create(ok) ==
  /\ starter = "create"
  /\ slot' = [slot EXCEPT !.run = @ /\ ok]
  /\ worker' = IF ok THEN "running" ELSE "none"
  /\ starter' = IF ok THEN "created" ELSE "end"
  /\ UNCHANGED <<stopper, mine, closed>>

\* Mutant: the stop request is read before the handle is published.
PublishLate ==
  /\ starter = "created"
  /\ slot' = [slot EXCEPT !.handle = ~slot.stop]
  /\ starter' = IF slot.stop THEN "takeBack" ELSE "end"
  /\ UNCHANGED <<stopper, mine, worker, closed>>

\* ui_worker_publish writes the handle first, then reads the stop request.
Publish ==
  /\ starter = "created"
  /\ slot' = [slot EXCEPT !.handle = TRUE]
  /\ starter' = "published"
  /\ UNCHANGED <<stopper, mine, worker, closed>>

LoadStop ==
  /\ starter = "published"
  /\ starter' = IF slot.stop THEN "takeBack" ELSE "end"
  /\ UNCHANGED <<slot, stopper, mine, worker, closed>>

TakeBack ==
  /\ starter = "takeBack"
  /\ mine' = IF slot.handle THEN mine \cup {"starter"} ELSE mine
  /\ slot' = [slot EXCEPT !.handle = FALSE,
                          !.run = @ /\ ~slot.handle]
  /\ starter' = IF slot.handle THEN "reap" ELSE "end"
  /\ UNCHANGED <<stopper, worker, closed>>

StarterReap ==
  /\ starter = "reap" /\ worker = "ended"
  /\ closed' = closed + 1
  /\ mine' = mine \ {"starter"}
  /\ starter' = "end"
  /\ UNCHANGED <<slot, stopper, worker>>

-----------------------------------------------------------------------------
(* The stopper: the shutdown flag, the run flag, the request, the handle.  *)

Shut ==
  /\ stopper = "idle"
  /\ slot' = [slot EXCEPT !.shut = TRUE]
  /\ stopper' = "run"
  /\ UNCHANGED <<starter, mine, worker, closed>>

LowerRun ==
  /\ stopper = "run"
  /\ slot' = [slot EXCEPT !.run = FALSE]
  /\ stopper' = "request"
  /\ UNCHANGED <<starter, mine, worker, closed>>

RequestStop ==
  /\ stopper = "request"
  /\ slot' = [slot EXCEPT !.stop = TRUE]
  /\ stopper' = "take"
  /\ UNCHANGED <<starter, mine, worker, closed>>

\* Mutant: the handle is read and left in the slot.
TakeReads ==
  /\ stopper = "take"
  /\ mine' = IF slot.handle THEN mine \cup {"stopper"} ELSE mine
  /\ stopper' = IF slot.handle THEN "reap" ELSE "end"
  /\ UNCHANGED <<slot, starter, worker, closed>>

\* An exchange: whoever comes second finds nothing.
Take ==
  /\ stopper = "take"
  /\ mine' = IF slot.handle THEN mine \cup {"stopper"} ELSE mine
  /\ slot' = [slot EXCEPT !.handle = FALSE]
  /\ stopper' = IF slot.handle THEN "reap" ELSE "end"
  /\ UNCHANGED <<starter, worker, closed>>

StopperReap ==
  /\ stopper = "reap" /\ worker = "ended"
  /\ closed' = closed + 1
  /\ mine' = mine \ {"stopper"}
  /\ stopper' = "end"
  /\ UNCHANGED <<slot, starter, worker>>

-----------------------------------------------------------------------------
\* The worker polls its run flag and the shutdown flag.
WorkerEnds ==
  /\ worker = "running"
  /\ ~slot.run \/ slot.shut
  /\ worker' = "ended"
  /\ slot' = [slot EXCEPT !.run = FALSE]
  /\ UNCHANGED <<starter, stopper, mine, closed>>

StarterStep ==
  \/ MayStart \/ RaiseRun \/ (\E ok \in BOOLEAN : Create(ok)) \/ Publish
  \/ LoadStop \/ TakeBack \/ StarterReap

StopperStep == Shut \/ LowerRun \/ RequestStop \/ Take \/ StopperReap

WsNext == StarterStep \/ StopperStep \/ WorkerEnds

WsSpec == WsInit /\ [][WsNext]_wsvars

-----------------------------------------------------------------------------
(* Properties.                                                             *)

WsTypeOK ==
  /\ slot \in [handle : BOOLEAN, stop : BOOLEAN, run : BOOLEAN, shut : BOOLEAN]
  /\ starter \in StarterStates
  /\ stopper \in StopperStates
  /\ mine \in SUBSET {"starter", "stopper"}
  /\ worker \in {"none", "running", "ended"}
  /\ closed \in Nat

\* The handle of a created worker is at any time in exactly one place: on its
\* way to the slot, in the slot, with one of the two sides, or closed. So it is
\* never lost between the two, and never closed twice or while in use.
OneOwner ==
  worker # "none" =>
    (IF starter = "created" THEN 1 ELSE 0)
      + (IF slot.handle THEN 1 ELSE 0)
      + (IF "starter" \in mine THEN 1 ELSE 0)
      + (IF "stopper" \in mine THEN 1 ELSE 0) + closed = 1

\* Exactly-once hand-off (ui_worker_slot.h:5-31): when both sides have
\* returned, a worker that was ever created has ended and its one handle is
\* closed, whichever side got it.
JoinedByOne ==
  starter = "end" /\ stopper = "end" =>
    worker = "none" \/ (worker = "ended" /\ closed = 1)
=============================================================================
