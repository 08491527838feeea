------------------------------ MODULE Lifecycle ------------------------------
(***************************************************************************)
(* Start and stop of the plugin's user-interface threads within one life   *)
(* of the DLL: the deferred overlay thread and its resolution monitor      *)
(* (ts3_entry.c, plugin_ui_compat.c, voice_overlay.c), the key watcher and *)
(* the settings dialog (key_watcher.c, ui_config_dialog.c, ts3_info.c),    *)
(* against ts3plugin_shutdown on the callback thread.                      *)
(*                                                                         *)
(* lifeGate  the flags: shut (pluginShuttingDown), armed                   *)
(*           (g_overlay_armed), closed (g_overlayStartClosed), inProg      *)
(*           (g_overlayStartInProgress), keyRun (keyMonitorThreadRunning), *)
(*           monRun (overlayThreadRunning), stop (the slot's stop request),*)
(*           guard (g_configDialogOpen)                                    *)
(* lifeHandle  the thread handles somebody owns: ov (g_overlayThread), mon *)
(*           (the slot), key (keyMonitorThread) and dlg                    *)
(*           (g_settingsDialogThread: 0 or the number of the dialog)       *)
(* lifeCb    where ts3plugin_init / ts3plugin_shutdown is                  *)
(* lifeOv    where overlay_deferred_start_thread is                        *)
(* lifeRes   what the overlay thread owns: its window, its thread id, the  *)
(*           text lock, its message queue and a WM_QUIT in that queue      *)
(* lifeMon, lifeKey  the monitor thread, the key thread                    *)
(* lifeOpen  the callers of settings_dialog_open_async: the key thread,    *)
(*           the menu (callback thread), TeamSpeak's configure thread      *)
(* lifeDlg   the dialog threads, by number                                 *)
(* lifeLock  who holds g_settingsDialogLock                                *)
(*                                                                         *)
(* The waits before the start (4 s, or less when a connection comes) are   *)
(* any time. The position and HTTP threads have modules of their own.      *)
(***************************************************************************)
EXTENDS Naturals, FiniteSets

CONSTANT LfMaxDialogs           \* dialogs opened in one life

LfAssumption == LfMaxDialogs \in Nat

VARIABLES lifeGate, lifeHandle, lifeCb, lifeOv, lifeRes, lifeMon, lifeKey,
          lifeOpen, lifeDlg, lifeLock

lfvars == <<lifeGate, lifeHandle, lifeCb, lifeOv, lifeRes, lifeMon, lifeKey,
            lifeOpen, lifeDlg, lifeLock>>

Openers == {"key", "menu", "cfg"}
Dialogs == 1 .. LfMaxDialogs
Alive == {"setup", "open", "ending", "release"}

\* ts3plugin_shutdown, in its order.
ShutOrder == <<"mark", "disarm", "close", "keyStop", "keyJoin", "dlgTake",
               "dlgJoin", "startWait", "monStop", "monTake", "monJoin",
               "quit", "ovJoin", "finalize", "done">>
CbStates == {"boot", "run"} \cup {ShutOrder[i] : i \in DOMAIN ShutOrder}
Past(here, there) ==
  \E i, j \in DOMAIN ShutOrder :
    ShutOrder[i] = there /\ ShutOrder[j] = here /\ i < j

Starting == {"gate", "window", "monitor", "publish", "leave"}
OvStates == {"none", "waiting", "loop", "get", "wait", "paint", "destroy",
             "clear", "ended"}
              \cup Starting

LfSet(flag, value) == lifeGate' = [lifeGate EXCEPT ![flag] = value]

LfInit ==
  /\ lifeGate = [shut |-> FALSE, armed |-> FALSE, closed |-> FALSE,
                 inProg |-> FALSE, keyRun |-> FALSE, monRun |-> FALSE,
                 stop |-> FALSE, guard |-> FALSE]
  /\ lifeHandle = [ov |-> FALSE, mon |-> FALSE, key |-> FALSE, dlg |-> 0]
  /\ lifeCb = "boot"
  /\ lifeOv = "none"
  /\ lifeRes = [window |-> FALSE, tid |-> FALSE, queue |-> FALSE,
                quit |-> FALSE, textLock |-> FALSE]
  /\ lifeMon = "none"
  /\ lifeKey = "none"
  /\ lifeOpen = [o \in Openers |-> "idle"]
  /\ lifeDlg = [d \in Dialogs |-> "none"]
  /\ lifeLock = "free"

-----------------------------------------------------------------------------
(* ts3plugin_init: the text lock, the key watcher, then the overlay.       *)

Boot(keyStarts) ==
  /\ lifeCb = "boot"
  /\ lifeRes' = [lifeRes EXCEPT !.textLock = TRUE]
  /\ LfSet("keyRun", keyStarts)
  /\ lifeHandle' = [lifeHandle EXCEPT !.key = keyStarts]
  /\ lifeKey' = IF keyStarts THEN "test" ELSE "none"
  /\ lifeCb' = "run"
  /\ UNCHANGED <<lifeOv, lifeMon, lifeOpen, lifeDlg, lifeLock>>

\* overlay_schedule_start: from init, and again at every connect.
ScheduleOverlay(created) ==
  /\ lifeCb = "run" /\ lifeOpen["menu"] = "idle"
  /\ ~lifeGate.armed
  /\ lifeHandle.ov => lifeOv = "ended"
  /\ LfSet("armed", created)
  /\ lifeHandle' = [lifeHandle EXCEPT !.ov = created]
  /\ lifeOv' = IF created THEN "waiting" ELSE lifeOv
  /\ UNCHANGED <<lifeCb, lifeRes, lifeMon, lifeKey, lifeOpen, lifeDlg,
                 lifeLock>>

-----------------------------------------------------------------------------
(* overlay_deferred_start_thread and overlay_start.                        *)

\* The start is announced before the gate is looked at.
OvAnnounce ==
  /\ lifeOv = "waiting"
  /\ LfSet("inProg", TRUE)
  /\ lifeOv' = "gate"
  /\ UNCHANGED <<lifeHandle, lifeCb, lifeRes, lifeMon, lifeKey, lifeOpen,
                 lifeDlg, lifeLock>>

MayStart(gate) == ~gate.closed /\ ~gate.shut /\ gate.armed

OvGate ==
  /\ lifeOv = "gate"
  /\ IF MayStart(lifeGate)
       THEN /\ lifeOv' = "window"
            /\ lifeRes' = [lifeRes EXCEPT !.tid = TRUE]
            /\ UNCHANGED lifeGate
       ELSE /\ lifeOv' = "ended"
            /\ LfSet("inProg", FALSE)
            /\ UNCHANGED lifeRes
  /\ UNCHANGED <<lifeHandle, lifeCb, lifeMon, lifeKey, lifeOpen, lifeDlg,
                 lifeLock>>

\* overlay_start: nothing is built when the HUD is off, when the shutdown has
\* begun, or a second time while a monitor's handle is in the slot.
OvWindow(enabled, shown) ==
  /\ lifeOv = "window"
  /\ LET build == enabled /\ ~lifeGate.shut /\ ~lifeGate.stop IN
       /\ lifeRes' = [lifeRes EXCEPT !.window = build /\ shown,
                                     !.queue = build /\ shown]
       /\ lifeOv' = IF build /\ ~lifeHandle.mon THEN "monitor" ELSE "leave"
  /\ UNCHANGED <<lifeGate, lifeHandle, lifeCb, lifeMon, lifeKey, lifeOpen,
                 lifeDlg, lifeLock>>

OvMonitor(created) ==
  /\ lifeOv = "monitor"
  /\ LfSet("monRun", created)
  /\ lifeMon' = IF created THEN "running" ELSE lifeMon
  /\ lifeOv' = IF created THEN "publish" ELSE "leave"
  /\ UNCHANGED <<lifeHandle, lifeCb, lifeRes, lifeKey, lifeOpen, lifeDlg,
                 lifeLock>>

\* ui_worker_publish; the hand-over itself is module WorkerSlot's subject.
OvPublish ==
  /\ lifeOv = "publish"
  /\ lifeHandle' = [lifeHandle EXCEPT !.mon = ~lifeGate.stop]
  /\ lifeOv' = "leave"
  /\ UNCHANGED <<lifeGate, lifeCb, lifeRes, lifeMon, lifeKey, lifeOpen,
                 lifeDlg, lifeLock>>

OvStarted ==
  /\ lifeOv = "leave"
  /\ LfSet("inProg", FALSE)
  /\ lifeOv' = "loop"
  /\ UNCHANGED <<lifeHandle, lifeCb, lifeRes, lifeMon, lifeKey, lifeOpen,
                 lifeDlg, lifeLock>>

\* The message loop looks at shut between two messages only ...
OvLoopTest ==
  /\ lifeOv = "loop"
  /\ lifeOv' = IF lifeGate.shut THEN "destroy" ELSE "get"
  /\ UNCHANGED <<lifeGate, lifeHandle, lifeCb, lifeRes, lifeMon, lifeKey,
                 lifeOpen, lifeDlg, lifeLock>>

\* ... then sleeps in GetMessage, whose first call makes the thread's queue.
OvGetMessage ==
  /\ lifeOv = "get"
  /\ lifeOv' = "wait"
  /\ lifeRes' = [lifeRes EXCEPT !.queue = TRUE]
  /\ UNCHANGED <<lifeGate, lifeHandle, lifeCb, lifeMon, lifeKey, lifeOpen,
                 lifeDlg, lifeLock>>

OvQuit ==
  /\ lifeOv = "wait" /\ lifeRes.quit
  /\ lifeOv' = "destroy"
  /\ UNCHANGED <<lifeGate, lifeHandle, lifeCb, lifeRes, lifeMon, lifeKey,
                 lifeOpen, lifeDlg, lifeLock>>

\* WM_PAINT takes the text lock, if there is one and nobody shuts down.
OvPaint ==
  /\ lifeOv = "wait" /\ lifeRes.window
  /\ lifeOv' = IF ~lifeGate.shut /\ lifeRes.textLock THEN "paint" ELSE "loop"
  /\ UNCHANGED <<lifeGate, lifeHandle, lifeCb, lifeRes, lifeMon, lifeKey,
                 lifeOpen, lifeDlg, lifeLock>>

OvPainted ==
  /\ lifeOv = "paint"
  /\ lifeOv' = "loop"
  /\ UNCHANGED <<lifeGate, lifeHandle, lifeCb, lifeRes, lifeMon, lifeKey,
                 lifeOpen, lifeDlg, lifeLock>>

\* The window dies on the thread that made it.
OvDestroy ==
  /\ lifeOv = "destroy"
  /\ lifeRes' = [lifeRes EXCEPT !.window = FALSE, !.tid = FALSE]
  /\ lifeOv' = "clear"
  /\ UNCHANGED <<lifeGate, lifeHandle, lifeCb, lifeMon, lifeKey, lifeOpen,
                 lifeDlg, lifeLock>>

OvEnd ==
  /\ lifeOv = "clear"
  /\ LfSet("armed", FALSE)
  /\ lifeOv' = "ended"
  /\ UNCHANGED <<lifeHandle, lifeCb, lifeRes, lifeMon, lifeKey, lifeOpen,
                 lifeDlg, lifeLock>>

OvStep ==
  \/ OvAnnounce \/ OvGate \/ OvPublish \/ OvStarted
  \/ OvLoopTest \/ OvGetMessage \/ OvQuit \/ OvPainted \/ OvDestroy \/ OvEnd
  \/ \E on, made \in BOOLEAN : OvWindow(on, made)
  \/ \E made \in BOOLEAN : OvMonitor(made)

-----------------------------------------------------------------------------
(* The two polling threads.                                                *)

MonitorStays(gate) == gate.monRun /\ ~gate.shut

MonEnd ==
  /\ lifeMon = "running" /\ ~MonitorStays(lifeGate)
  /\ lifeMon' = "ended"
  /\ LfSet("monRun", FALSE)
  /\ UNCHANGED <<lifeHandle, lifeCb, lifeOv, lifeRes, lifeKey, lifeOpen,
                 lifeDlg, lifeLock>>

\* One round of the key thread: the flags, then the keys.
KeyStays(gate) == gate.keyRun /\ ~gate.shut

KeyTest ==
  /\ lifeKey = "test" /\ lifeOpen["key"] = "idle"
  /\ lifeKey' = IF KeyStays(lifeGate) THEN "poll" ELSE "ended"
  /\ LfSet("keyRun", KeyStays(lifeGate))
  /\ UNCHANGED <<lifeHandle, lifeCb, lifeOv, lifeRes, lifeMon, lifeOpen,
                 lifeDlg, lifeLock>>

NoKey ==
  /\ lifeKey = "poll"
  /\ lifeKey' = "test"
  /\ UNCHANGED <<lifeGate, lifeHandle, lifeCb, lifeOv, lifeRes, lifeMon,
                 lifeOpen, lifeDlg, lifeLock>>

KeyStep == KeyTest \/ NoKey

-----------------------------------------------------------------------------
(* The settings dialog: one guard, taken by the caller and given back by   *)
(* the dialog thread as its last act.                                      *)

MayCall(o) ==
  CASE o = "key"  -> lifeKey = "poll"
    [] o = "menu" -> lifeCb = "run" /\ ~lifeGate.shut
    [] o = "cfg"  -> lifeCb # "boot" /\ lifeCb # "done" /\ ~lifeGate.shut

\* config_dialog_try_open: the winner goes on, the others drop the request.
WinGuard(o) ==
  /\ lifeOpen[o] = "idle" /\ MayCall(o)
  /\ ~lifeGate.guard
  /\ \E d \in Dialogs : lifeDlg[d] = "none"                 \* LfMaxDialogs
  /\ LfSet("guard", TRUE)
  /\ lifeOpen' = [lifeOpen EXCEPT ![o] = "won"]
  /\ lifeKey' = IF o = "key" THEN "test" ELSE lifeKey
  /\ UNCHANGED <<lifeHandle, lifeCb, lifeOv, lifeRes, lifeMon, lifeDlg,
                 lifeLock>>

\* Mutant: the shutdown is not looked at under the lock.
OpenLockAlways(o) ==
  /\ lifeOpen[o] = "won" /\ lifeLock = "free"
  /\ lifeLock' = o
  /\ lifeOpen' = [lifeOpen EXCEPT ![o] = "start"]
  /\ UNCHANGED <<lifeGate, lifeHandle, lifeCb, lifeOv, lifeRes, lifeMon,
                 lifeKey, lifeDlg>>

OpenLock(o) ==
  /\ lifeOpen[o] = "won" /\ lifeLock = "free"
  /\ lifeLock' = o
  /\ lifeOpen' = [lifeOpen EXCEPT ![o] = IF lifeGate.shut THEN "refuse"
                                                          ELSE "start"]
  /\ UNCHANGED <<lifeGate, lifeHandle, lifeCb, lifeOv, lifeRes, lifeMon,
                 lifeKey, lifeDlg>>

\* The handle of the last dialog thread is waited for and closed, then the new
\* thread's is stored, all under the lock.
OpenStart(o, created) ==
  /\ lifeOpen[o] = "start"
  /\ lifeHandle.dlg # 0 => lifeDlg[lifeHandle.dlg] = "ended"
  /\ LET d == CHOOSE x \in Dialogs :
                lifeDlg[x] = "none" /\ \A y \in 1 .. x - 1 : lifeDlg[y] # "none"
     IN /\ lifeHandle' = [lifeHandle EXCEPT !.dlg = IF created THEN d ELSE 0]
        /\ lifeDlg' = IF created THEN [lifeDlg EXCEPT ![d] = "setup"]
                                 ELSE lifeDlg
  /\ lifeOpen' = [lifeOpen EXCEPT ![o] = IF created THEN "idle" ELSE "giveBack"]
  /\ lifeLock' = "free"
  /\ UNCHANGED <<lifeGate, lifeCb, lifeOv, lifeRes, lifeMon, lifeKey>>

OpenRefuse(o) ==
  /\ lifeOpen[o] = "refuse"
  /\ lifeLock' = "free"
  /\ lifeOpen' = [lifeOpen EXCEPT ![o] = "giveBack"]
  /\ UNCHANGED <<lifeGate, lifeHandle, lifeCb, lifeOv, lifeRes, lifeMon,
                 lifeKey, lifeDlg>>

GiveBack(o) ==
  /\ lifeOpen[o] = "giveBack"
  /\ LfSet("guard", FALSE)
  /\ lifeOpen' = [lifeOpen EXCEPT ![o] = "idle"]
  /\ UNCHANGED <<lifeHandle, lifeCb, lifeOv, lifeRes, lifeMon, lifeKey,
                 lifeDlg, lifeLock>>

OpenStep(o) ==
  \/ OpenLock(o) \/ OpenRefuse(o) \/ GiveBack(o)
  \/ \E created \in BOOLEAN : OpenStart(o, created)

\* showConfigInterface: the set-up may fail, and until the window is there
\* nobody can close it.
DlgSetup(d, shown) ==
  /\ lifeDlg[d] = "setup"
  /\ lifeDlg' = [lifeDlg EXCEPT ![d] = IF shown THEN "open" ELSE "ending"]
  /\ UNCHANGED <<lifeGate, lifeHandle, lifeCb, lifeOv, lifeRes, lifeMon,
                 lifeKey, lifeOpen, lifeLock>>

UserCloses(d) ==
  /\ lifeDlg[d] = "open"
  /\ lifeDlg' = [lifeDlg EXCEPT ![d] = "ending"]
  /\ UNCHANGED <<lifeGate, lifeHandle, lifeCb, lifeOv, lifeRes, lifeMon,
                 lifeKey, lifeOpen, lifeLock>>

\* Mutant: showConfigInterface gives the guard back too, as before 087.
DlgEndReleases(d) ==
  /\ lifeDlg[d] = "ending"
  /\ LfSet("guard", FALSE)
  /\ lifeDlg' = [lifeDlg EXCEPT ![d] = "release"]
  /\ UNCHANGED <<lifeHandle, lifeCb, lifeOv, lifeRes, lifeMon, lifeKey,
                 lifeOpen, lifeLock>>

\* Images released, working copy closed; then the guard.
DlgEnd(d) ==
  /\ lifeDlg[d] = "ending"
  /\ lifeDlg' = [lifeDlg EXCEPT ![d] = "release"]
  /\ UNCHANGED <<lifeGate, lifeHandle, lifeCb, lifeOv, lifeRes, lifeMon,
                 lifeKey, lifeOpen, lifeLock>>

DlgRelease(d) ==
  /\ lifeDlg[d] = "release"
  /\ LfSet("guard", FALSE)
  /\ lifeDlg' = [lifeDlg EXCEPT ![d] = "ended"]
  /\ UNCHANGED <<lifeHandle, lifeCb, lifeOv, lifeRes, lifeMon, lifeKey,
                 lifeOpen, lifeLock>>

DlgStep(d) ==
  DlgEnd(d) \/ DlgRelease(d) \/ \E shown \in BOOLEAN : DlgSetup(d, shown)

-----------------------------------------------------------------------------
(* ts3plugin_shutdown.                                                     *)

ShutFlag(at, flag, value, next) ==
  /\ lifeCb = at
  /\ LfSet(flag, value)
  /\ lifeCb' = next
  /\ UNCHANGED <<lifeHandle, lifeOv, lifeRes, lifeMon, lifeKey, lifeOpen,
                 lifeDlg, lifeLock>>

\* The callback thread is not inside a menu event.
Shutdown ==
  /\ lifeCb = "run" /\ lifeOpen["menu"] = "idle"
  /\ lifeCb' = "mark"
  /\ UNCHANGED <<lifeGate, lifeHandle, lifeOv, lifeRes, lifeMon, lifeKey,
                 lifeOpen, lifeDlg, lifeLock>>

ShutMark == ShutFlag("mark", "shut", TRUE, "disarm")
ShutDisarm == ShutFlag("disarm", "armed", FALSE, "close")
ShutClose == ShutFlag("close", "closed", TRUE, "keyStop")
KeyStop == ShutFlag("keyStop", "keyRun", FALSE, "keyJoin")

KeyJoin ==
  /\ lifeCb = "keyJoin"
  /\ lifeHandle.key => lifeKey = "ended"
  /\ lifeHandle' = [lifeHandle EXCEPT !.key = FALSE]
  /\ lifeCb' = "dlgTake"
  /\ UNCHANGED <<lifeGate, lifeOv, lifeRes, lifeMon, lifeKey, lifeOpen,
                 lifeDlg, lifeLock>>

\* settings_dialog_shutdown takes the handle under the lock ...
DlgTake ==
  /\ lifeCb = "dlgTake" /\ lifeLock = "free"
  /\ lifeCb' = "dlgJoin"
  /\ UNCHANGED <<lifeGate, lifeHandle, lifeOv, lifeRes, lifeMon, lifeKey,
                 lifeOpen, lifeDlg, lifeLock>>

\* ... posts WM_CLOSE to whatever dialog window there is ...
DlgClose(d) ==
  /\ lifeCb = "dlgJoin" /\ lifeHandle.dlg # 0
  /\ lifeDlg[d] = "open"
  /\ lifeDlg' = [lifeDlg EXCEPT ![d] = "ending"]
  /\ UNCHANGED <<lifeGate, lifeHandle, lifeCb, lifeOv, lifeRes, lifeMon,
                 lifeKey, lifeOpen, lifeLock>>

\* ... and waits for the thread.
DlgJoin ==
  /\ lifeCb = "dlgJoin"
  /\ lifeHandle.dlg # 0 => lifeDlg[lifeHandle.dlg] = "ended"
  /\ lifeHandle' = [lifeHandle EXCEPT !.dlg = 0]
  /\ lifeCb' = "startWait"
  /\ UNCHANGED <<lifeGate, lifeOv, lifeRes, lifeMon, lifeKey, lifeOpen,
                 lifeDlg, lifeLock>>

\* Mutant: no wait for a start that has begun.
StopAtOnce(gate) == TRUE

StartDone(gate) == ~gate.inProg

StartWait ==
  /\ lifeCb = "startWait" /\ StartDone(lifeGate)
  /\ lifeCb' = "monStop"
  /\ UNCHANGED <<lifeGate, lifeHandle, lifeOv, lifeRes, lifeMon, lifeKey,
                 lifeOpen, lifeDlg, lifeLock>>

MonStop == ShutFlag("monStop", "monRun", FALSE, "monTake")

\* ui_worker_request_stop: the request, then whatever is published.
MonTake == ShutFlag("monTake", "stop", TRUE, "monJoin")

MonJoin ==
  /\ lifeCb = "monJoin"
  /\ lifeHandle.mon => lifeMon = "ended"
  /\ lifeHandle' = [lifeHandle EXCEPT !.mon = FALSE]
  /\ lifeCb' = "quit"
  /\ UNCHANGED <<lifeGate, lifeOv, lifeRes, lifeMon, lifeKey, lifeOpen,
                 lifeDlg, lifeLock>>

\* PostThreadMessage: lost while the thread has no queue, or no thread is known.
PostQuit == lifeRes' = [lifeRes EXCEPT !.quit = @ \/ (lifeRes.tid /\ lifeRes.queue)]

SignalQuit ==
  /\ lifeCb = "quit"
  /\ PostQuit
  /\ lifeCb' = "ovJoin"
  /\ UNCHANGED <<lifeGate, lifeHandle, lifeOv, lifeMon, lifeKey, lifeOpen,
                 lifeDlg, lifeLock>>

\* Mutant: the quit message is posted once only.
JoinOnly ==
  /\ lifeCb = "ovJoin" /\ lifeHandle.ov /\ lifeOv # "ended"
  /\ UNCHANGED lfvars

\* overlay_join_ui_thread posts again every half second.
SignalQuitAgain ==
  /\ lifeCb = "ovJoin" /\ lifeHandle.ov /\ lifeOv # "ended"
  /\ PostQuit
  /\ UNCHANGED <<lifeGate, lifeHandle, lifeCb, lifeOv, lifeMon, lifeKey,
                 lifeOpen, lifeDlg, lifeLock>>

OvJoin ==
  /\ lifeCb = "ovJoin"
  /\ lifeHandle.ov => lifeOv = "ended"
  /\ lifeHandle' = [lifeHandle EXCEPT !.ov = FALSE]
  /\ lifeCb' = "finalize"
  /\ UNCHANGED <<lifeGate, lifeOv, lifeRes, lifeMon, lifeKey, lifeOpen,
                 lifeDlg, lifeLock>>

Finalize ==
  /\ lifeCb = "finalize"
  /\ lifeRes' = [lifeRes EXCEPT !.textLock = FALSE]
  /\ lifeCb' = "done"
  /\ UNCHANGED <<lifeGate, lifeHandle, lifeOv, lifeMon, lifeKey, lifeOpen,
                 lifeDlg, lifeLock>>

ShutStep ==
  \/ ShutMark \/ ShutDisarm \/ ShutClose \/ KeyStop \/ KeyJoin
  \/ DlgTake \/ DlgJoin \/ \E d \in Dialogs : DlgClose(d)
  \/ StartWait \/ MonStop \/ MonTake \/ MonJoin
  \/ SignalQuit \/ OvJoin \/ Finalize

LfNext ==
  \/ \E ok \in BOOLEAN : Boot(ok) \/ ScheduleOverlay(ok)
  \/ OvStep \/ OvPaint \/ MonEnd \/ KeyStep
  \/ \E o \in Openers : WinGuard(o) \/ OpenStep(o)
  \/ \E d \in Dialogs : DlgStep(d) \/ UserCloses(d)
  \/ Shutdown \/ ShutStep \/ SignalQuitAgain

LfSpec == LfInit /\ [][LfNext]_lfvars

\* Every thread that can run does; the two loops that post a message until the
\* thread is gone post again. Nobody has to close the dialog by hand, and no
\* other window message has to arrive.
LfFairness ==
  /\ WF_lfvars(OvStep) /\ WF_lfvars(MonEnd) /\ WF_lfvars(KeyStep)
  /\ \A o \in Openers : WF_lfvars(OpenStep(o))
  /\ \A d \in Dialogs : WF_lfvars(DlgStep(d))
  /\ WF_lfvars(ShutStep) /\ WF_lfvars(SignalQuitAgain)

LfLiveSpec == LfSpec /\ LfFairness

-----------------------------------------------------------------------------
(* Properties.                                                             *)

Gates == [shut : BOOLEAN, armed : BOOLEAN, closed : BOOLEAN, inProg : BOOLEAN,
          keyRun : BOOLEAN, monRun : BOOLEAN, stop : BOOLEAN, guard : BOOLEAN]
Handles == [ov : BOOLEAN, mon : BOOLEAN, key : BOOLEAN, dlg : Dialogs \cup {0}]
Resources == [window : BOOLEAN, tid : BOOLEAN, queue : BOOLEAN, quit : BOOLEAN,
              textLock : BOOLEAN]

LfTypeOK ==
  /\ lifeGate \in Gates /\ lifeHandle \in Handles /\ lifeRes \in Resources
  /\ lifeCb \in CbStates
  /\ lifeOv \in OvStates
  /\ lifeMon \in {"none", "running", "ended"}
  /\ lifeKey \in {"none", "test", "poll", "ended"}
  /\ lifeOpen \in [Openers -> {"idle", "won", "start", "refuse", "giveBack"}]
  /\ lifeDlg \in [Dialogs -> Alive \cup {"none", "ended"}]
  /\ lifeLock \in Openers \cup {"free"}

\* Step 2 of the shutdown order (ts3_entry.c:416-427): a stage begins only when
\* the threads of the stage before are gone for good, and when the shutdown is
\* done no thread of the plugin, no window and no handle is left, whoever was
\* about to start one, and the text lock was not deleted under a painter.
NothingOutlivesShutdown ==
  /\ Past(lifeCb, "keyJoin") => lifeKey \in {"none", "ended"}
  /\ Past(lifeCb, "dlgJoin") => \A d \in Dialogs : lifeDlg[d] \notin Alive
  /\ Past(lifeCb, "monJoin") => lifeMon # "running"
  /\ Past(lifeCb, "ovJoin")  => lifeOv \in {"none", "ended"} /\ ~lifeRes.window
  /\ lifeOv = "paint" => lifeRes.textLock
  /\ lifeCb = "done" => lifeHandle = [ov |-> FALSE, mon |-> FALSE,
                                      key |-> FALSE, dlg |-> 0]

\* 087 (ui_config_dialog.c:646-651): at most one caller or dialog thread holds
\* the dialog guard, and while one does the guard is set: no second dialog can
\* open over the first, whichever of the three ways it is asked for.
OneDialog ==
  LET holders == Cardinality({o \in Openers : lifeOpen[o] # "idle"})
                   + Cardinality({d \in Dialogs : lifeDlg[d] \in Alive})
  IN holders = IF lifeGate.guard THEN 1 ELSE 0

\* The start gate (ts3_entry.c:59-72): the stop of the monitor never runs
\* before the end of an overlay start, so a start never sees its slot stopped.
StopAfterStart ==
  Past(lifeCb, "startWait") => lifeOv \notin Starting \ {"gate"}

\* What a start and a shutdown may never do.
LifecycleSafe == LfTypeOK /\ NothingOutlivesShutdown /\ OneDialog /\ StopAfterStart

\* A shutdown ends, with a dialog open or still being set up, with the quit
\* message lost before the overlay thread has a queue, and at any point of the
\* overlay's start.
ShuttingDown == lifeCb \notin {"boot", "run", "done"}
ShutdownEnds == []<>~ShuttingDown
=============================================================================
