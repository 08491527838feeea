------------------------------ MODULE Ui_proofs -----------------------------
(***************************************************************************)
(* Proofs about the threads around the windows: start and shutdown         *)
(* (Lifecycle), the HUD (HudSync) and the voice key (VoiceKeys).           *)
(***************************************************************************)
EXTENDS HudSync, VoiceKeys, Lifecycle, FiniteSetTheorems, TLAPS

-----------------------------------------------------------------------------
(* Lifecycle: how far the shutdown is.                                     *)

AfterOvJoin    == {"finalize", "done"}
AfterMonJoin   == {"quit", "ovJoin"} \cup AfterOvJoin
AfterMonTake   == {"monJoin"} \cup AfterMonJoin
AfterStartWait == {"monStop", "monTake"} \cup AfterMonTake
AfterDlgJoin   == {"startWait"} \cup AfterStartWait
AfterDlgTake   == {"dlgJoin"} \cup AfterDlgJoin
AfterKeyJoin   == {"dlgTake"} \cup AfterDlgTake
AfterClose     == {"keyStop", "keyJoin"} \cup AfterKeyJoin
AfterMark      == {"disarm", "close"} \cup AfterClose

LEMMA Stages ==
  /\ CbStates = {"boot", "run", "mark"} \cup AfterMark
  /\ \A c \in CbStates :
       /\ Past(c, "keyJoin") <=> c \in AfterKeyJoin
       /\ Past(c, "dlgJoin") <=> c \in AfterDlgJoin
       /\ Past(c, "startWait") <=> c \in AfterStartWait
       /\ Past(c, "monJoin") <=> c \in AfterMonJoin
       /\ Past(c, "ovJoin") <=> c \in AfterOvJoin
BY DEF CbStates, Past, ShutOrder, AfterMark, AfterClose, AfterKeyJoin, AfterDlgTake,
   AfterDlgJoin, AfterStartWait,
           AfterMonTake, AfterMonJoin, AfterOvJoin

(* The flags follow the shutdown; whoever opens from the menu holds it up. *)
FlagsInv ==
  /\ lifeCb \in AfterMark => lifeGate.shut
  /\ lifeCb \in AfterClose => lifeGate.closed
  /\ lifeGate.stop => lifeCb \in AfterMonTake
  /\ lifeOpen["menu"] # "idle" => lifeCb = "run"

(* The key thread runs only while its handle is kept to be joined, and     *)
(* opens a dialog before it looks at its flags again.                      *)
KeyInv ==
  /\ lifeCb = "boot" => lifeKey = "none"
  /\ lifeKey \in {"test", "poll"} => lifeHandle.key
  /\ lifeOpen["key"] # "idle" => lifeKey = "test"
  /\ lifeCb \in AfterKeyJoin => ~lifeHandle.key

(* The overlay thread and the monitor it starts.                           *)
OverlayInv ==
  /\ lifeOv \notin {"none", "ended"} => lifeHandle.ov
  /\ lifeCb \in AfterOvJoin => ~lifeHandle.ov
  /\ lifeRes.window => lifeOv \notin {"none", "waiting", "gate", "window", "clear", "ended"}
  /\ lifeOv \in Starting => lifeGate.inProg
  /\ lifeCb \in AfterStartWait => lifeOv \notin Starting \ {"gate"}
  /\ lifeOv = "paint" => lifeRes.textLock
  /\ lifeMon = "running" => lifeOv = "publish" \/ lifeHandle.mon
  /\ lifeCb \in AfterMonJoin => ~lifeHandle.mon

(* Dialog numbers are taken in order, and whoever will start one has one   *)
(* left; a start is under the lock and before the shutdown has taken the   *)
(* handle; the handle is that of the dialog thread that lives.             *)
DialogInv ==
  /\ \E n \in 0..LfMaxDialogs : \A d \in Dialogs : lifeDlg[d] = "none" <=> n < d
  /\ \A o \in Openers : lifeOpen[o] \in {"won", "start"} => \E d \in Dialogs : lifeDlg[d] = "none"
  /\ \A o \in Openers : lifeOpen[o] \in {"start", "refuse"} => lifeLock = o
  /\ \A o \in Openers : lifeOpen[o] = "start" => lifeCb \notin AfterDlgTake
  /\ \A d \in Dialogs : lifeDlg[d] \in Alive => lifeHandle.dlg = d
  /\ lifeCb \in AfterDlgJoin => lifeHandle.dlg = 0

(* The guard is set exactly while somebody holds it, and he is the only one. *)
GuardInv ==
  /\ \A o \in Openers : lifeOpen[o] # "idle" =>
       /\ lifeGate.guard
       /\ \A p \in Openers : lifeOpen[p] # "idle" => p = o
       /\ \A d \in Dialogs : lifeDlg[d] \notin Alive
  /\ \A d \in Dialogs : lifeDlg[d] \in Alive =>
       /\ lifeGate.guard
       /\ \A e \in Dialogs : lifeDlg[e] \in Alive => e = d
  /\ lifeGate.guard => \/ \E o \in Openers : lifeOpen[o] # "idle"
                       \/ \E d \in Dialogs : lifeDlg[d] \in Alive

LifeInv == LfTypeOK /\ FlagsInv /\ KeyInv /\ OverlayInv /\ DialogInv /\ GuardInv

LEMMA LifeStart == LfAssumption /\ LfInit => LifeInv
<1> SUFFICES ASSUME LfAssumption, LfInit PROVE LifeInv
  OBVIOUS
<1>1. LfTypeOK
  BY DEF LfInit, LfTypeOK, Gates, Handles, Resources, CbStates, OvStates, Alive
<1>2. FlagsInv /\ KeyInv /\ GuardInv
  <2>1. \A o \in Openers : lifeOpen[o] = "idle"
    BY DEF LfInit
  <2>2. \A d \in Dialogs : lifeDlg[d] \notin Alive
    BY DEF LfInit, Alive
  <2>3. GuardInv
    BY <2>1, <2>2 DEF GuardInv, LfInit
  <2>4. lifeOpen["menu"] = "idle" /\ lifeOpen["key"] = "idle"
    BY <2>1 DEF Openers
  <2>5. lifeCb \notin AfterMark /\ lifeCb \notin AfterClose /\ lifeCb \notin AfterKeyJoin
    BY DEF LfInit, AfterMark, AfterClose, AfterKeyJoin, AfterDlgTake, AfterDlgJoin,
       AfterStartWait,
           AfterMonTake, AfterMonJoin, AfterOvJoin
  <2>6. QED BY <2>3, <2>4, <2>5 DEF LfInit, FlagsInv, KeyInv
<1>3. OverlayInv
  BY DEF LfInit, OverlayInv, Starting, AfterStartWait, AfterMonTake, AfterMonJoin, AfterOvJoin
<1>4. DialogInv
  <2>1. LfMaxDialogs \in 0..LfMaxDialogs /\ \A d \in Dialogs : ~(LfMaxDialogs < d)
    BY DEF LfAssumption, Dialogs
  <2>2. 0 \in 0..LfMaxDialogs /\ \A d \in Dialogs : 0 < d
    BY DEF LfAssumption, Dialogs
  <2>3. \A d \in Dialogs : lifeDlg[d] = "none" <=> 0 < d
    BY <2>2 DEF LfInit
  <2>4. QED
    BY <2>2, <2>3 DEF LfInit, DialogInv, Alive, AfterDlgTake, AfterDlgJoin, AfterStartWait,
         AfterMonTake, AfterMonJoin, AfterOvJoin
<1>5. QED BY <1>1, <1>2, <1>3, <1>4 DEF LifeInv

(* Whatever is set in the flags, the handles and the resources.            *)
RecordsTyped == \A v, w \in BOOLEAN :
  /\ \A f \in {"shut", "armed", "closed", "inProg", "keyRun", "monRun", "stop", "guard"} :
       [lifeGate EXCEPT ![f] = v] \in Gates
  /\ [lifeHandle EXCEPT !.ov = v] \in Handles
  /\ [lifeHandle EXCEPT !.mon = v] \in Handles
  /\ [lifeHandle EXCEPT !.key = v] \in Handles
  /\ \A d \in Dialogs \cup {0} : [lifeHandle EXCEPT !.dlg = d] \in Handles
  /\ [lifeRes EXCEPT !.queue = v] \in Resources
  /\ [lifeRes EXCEPT !.tid = v] \in Resources
  /\ [lifeRes EXCEPT !.quit = v] \in Resources
  /\ [lifeRes EXCEPT !.textLock = v] \in Resources
  /\ [lifeRes EXCEPT !.window = w, !.tid = v] \in Resources
  /\ [lifeRes EXCEPT !.window = w, !.queue = v] \in Resources

LEMMA RecordTypes == LfTypeOK => RecordsTyped
BY DEF RecordsTyped, LfTypeOK, Gates, Handles, Resources

(* What the overlay and monitor threads leave alone.                       *)
OthersKept ==
  /\ UNCHANGED <<lifeCb, lifeKey, lifeOpen, lifeDlg, lifeLock>>
  /\ lifeHandle'.dlg = lifeHandle.dlg /\ lifeHandle'.key = lifeHandle.key
  /\ lifeGate'.shut = lifeGate.shut /\ lifeGate'.closed = lifeGate.closed
  /\ lifeGate'.stop = lifeGate.stop /\ lifeGate'.guard = lifeGate.guard

LEMMA Others ==
  ASSUME LifeInv, OthersKept
  PROVE  FlagsInv' /\ KeyInv' /\ DialogInv' /\ GuardInv'
<1> USE DEF LifeInv, OthersKept
<1>1. FlagsInv' BY DEF FlagsInv
<1>2. KeyInv' BY DEF KeyInv
<1>3. DialogInv' BY DEF DialogInv
<1>4. GuardInv' BY DEF GuardInv
<1>5. QED BY <1>1, <1>2, <1>3, <1>4

(* The overlay thread.                                                     *)
LEMMA OverlaySteps ==
  ASSUME LifeInv, OvStep \/ OvPaint
  PROVE  LifeInv'
<1> SUFFICES LfTypeOK' /\ OthersKept /\ OverlayInv'
  BY Others DEF LifeInv
<1> USE DEF LifeInv, LfSet
<1>0. RecordsTyped
  BY RecordTypes
<1>1. CASE OvAnnounce
  <2>1. LfTypeOK'
    BY <1>1, <1>0 DEF RecordsTyped, OvAnnounce, LfTypeOK, OvStates, Starting
  <2>2. OthersKept
    BY <1>1 DEF OvAnnounce, LfTypeOK, OthersKept, Gates, Handles
  <2>3. OverlayInv'
    BY <1>1 DEF OvAnnounce, OverlayInv, Starting, LfTypeOK, Gates, Handles, Resources,
       FlagsInv, AfterClose, AfterKeyJoin, AfterDlgTake, AfterDlgJoin, AfterStartWait,
            AfterMonTake, AfterMonJoin, AfterOvJoin
  <2>4. QED BY <2>1, <2>2, <2>3
<1>2. CASE OvGate
  <2>1. LfTypeOK'
    BY <1>2, <1>0 DEF RecordsTyped, OvGate, MayStart, LfTypeOK, OvStates, Starting
  <2>2. OthersKept
    BY <1>2 DEF OvGate, MayStart, LfTypeOK, OthersKept, Gates, Handles
  <2>3. OverlayInv'
    BY <1>2 DEF OvGate, MayStart, OverlayInv, Starting, LfTypeOK, Gates, Handles, Resources,
       FlagsInv, AfterClose, AfterKeyJoin, AfterDlgTake, AfterDlgJoin, AfterStartWait,
            AfterMonTake, AfterMonJoin, AfterOvJoin
  <2>4. QED BY <2>1, <2>2, <2>3
<1>3. CASE OvPublish
  <2>1. LfTypeOK'
    BY <1>3, <1>0 DEF RecordsTyped, OvPublish, LfTypeOK, OvStates, Starting
  <2>2. OthersKept
    BY <1>3 DEF OvPublish, LfTypeOK, OthersKept, Gates, Handles
  <2>3. OverlayInv'
    BY <1>3 DEF OvPublish, OverlayInv, Starting, LfTypeOK, Gates, Handles, Resources,
       FlagsInv, AfterClose, AfterKeyJoin, AfterDlgTake, AfterDlgJoin, AfterStartWait,
            AfterMonTake, AfterMonJoin, AfterOvJoin
  <2>4. QED BY <2>1, <2>2, <2>3
<1>4. CASE OvStarted
  <2>1. LfTypeOK'
    BY <1>4, <1>0 DEF RecordsTyped, OvStarted, LfTypeOK, OvStates, Starting
  <2>2. OthersKept
    BY <1>4 DEF OvStarted, LfTypeOK, OthersKept, Gates, Handles
  <2>3. OverlayInv'
    BY <1>4 DEF OvStarted, OverlayInv, Starting, LfTypeOK, Gates, Handles, Resources,
       FlagsInv, AfterClose, AfterKeyJoin, AfterDlgTake, AfterDlgJoin, AfterStartWait,
            AfterMonTake, AfterMonJoin, AfterOvJoin
  <2>4. QED BY <2>1, <2>2, <2>3
<1>5. CASE OvLoopTest
  <2>1. LfTypeOK'
    BY <1>5, <1>0 DEF RecordsTyped, OvLoopTest, LfTypeOK, OvStates, Starting
  <2>2. OthersKept
    BY <1>5 DEF OvLoopTest, LfTypeOK, OthersKept, Gates, Handles
  <2>3. OverlayInv'
    BY <1>5 DEF OvLoopTest, OverlayInv, Starting, LfTypeOK, Gates, Handles, Resources,
       FlagsInv, AfterClose, AfterKeyJoin, AfterDlgTake, AfterDlgJoin, AfterStartWait,
            AfterMonTake, AfterMonJoin, AfterOvJoin
  <2>4. QED BY <2>1, <2>2, <2>3
<1>6. CASE OvGetMessage
  <2>1. LfTypeOK'
    BY <1>6, <1>0 DEF RecordsTyped, OvGetMessage, LfTypeOK, OvStates, Starting
  <2>2. OthersKept
    BY <1>6 DEF OvGetMessage, LfTypeOK, OthersKept, Gates, Handles
  <2>3. OverlayInv'
    BY <1>6 DEF OvGetMessage, OverlayInv, Starting, LfTypeOK, Gates, Handles, Resources,
       FlagsInv, AfterClose, AfterKeyJoin, AfterDlgTake, AfterDlgJoin, AfterStartWait,
            AfterMonTake, AfterMonJoin, AfterOvJoin
  <2>4. QED BY <2>1, <2>2, <2>3
<1>7. CASE OvQuit
  <2>1. LfTypeOK'
    BY <1>7, <1>0 DEF RecordsTyped, OvQuit, LfTypeOK, OvStates, Starting
  <2>2. OthersKept
    BY <1>7 DEF OvQuit, LfTypeOK, OthersKept, Gates, Handles
  <2>3. OverlayInv'
    BY <1>7 DEF OvQuit, OverlayInv, Starting, LfTypeOK, Gates, Handles, Resources, FlagsInv,
       AfterClose, AfterKeyJoin, AfterDlgTake, AfterDlgJoin, AfterStartWait,
            AfterMonTake, AfterMonJoin, AfterOvJoin
  <2>4. QED BY <2>1, <2>2, <2>3
<1>8. CASE OvPainted
  <2>1. LfTypeOK'
    BY <1>8, <1>0 DEF RecordsTyped, OvPainted, LfTypeOK, OvStates, Starting
  <2>2. OthersKept
    BY <1>8 DEF OvPainted, LfTypeOK, OthersKept, Gates, Handles
  <2>3. OverlayInv'
    BY <1>8 DEF OvPainted, OverlayInv, Starting, LfTypeOK, Gates, Handles, Resources,
       FlagsInv, AfterClose, AfterKeyJoin, AfterDlgTake, AfterDlgJoin, AfterStartWait,
            AfterMonTake, AfterMonJoin, AfterOvJoin
  <2>4. QED BY <2>1, <2>2, <2>3
<1>9. CASE OvDestroy
  <2>1. LfTypeOK'
    BY <1>9, <1>0 DEF RecordsTyped, OvDestroy, LfTypeOK, OvStates, Starting
  <2>2. OthersKept
    BY <1>9 DEF OvDestroy, LfTypeOK, OthersKept, Gates, Handles
  <2>3. OverlayInv'
    BY <1>9 DEF OvDestroy, OverlayInv, Starting, LfTypeOK, Gates, Handles, Resources,
       FlagsInv, AfterClose, AfterKeyJoin, AfterDlgTake, AfterDlgJoin, AfterStartWait,
            AfterMonTake, AfterMonJoin, AfterOvJoin
  <2>4. QED BY <2>1, <2>2, <2>3
<1>10. CASE OvEnd
  <2>1. LfTypeOK'
    BY <1>10, <1>0 DEF RecordsTyped, OvEnd, LfTypeOK, OvStates, Starting
  <2>2. OthersKept
    BY <1>10 DEF OvEnd, LfTypeOK, OthersKept, Gates, Handles
  <2>3. OverlayInv'
    BY <1>10 DEF OvEnd, OverlayInv, Starting, LfTypeOK, Gates, Handles, Resources, FlagsInv,
       AfterClose, AfterKeyJoin, AfterDlgTake, AfterDlgJoin, AfterStartWait,
            AfterMonTake, AfterMonJoin, AfterOvJoin
  <2>4. QED BY <2>1, <2>2, <2>3
<1>11. ASSUME NEW on \in BOOLEAN, NEW made \in BOOLEAN, OvWindow(on, made)
      PROVE  LfTypeOK' /\ OthersKept /\ OverlayInv'
  <2>1. LfTypeOK'
    BY <1>11, <1>0 DEF RecordsTyped, OvWindow, LfTypeOK, OvStates, Starting
  <2>2. OthersKept
    BY <1>11 DEF OvWindow, LfTypeOK, OthersKept, Gates, Handles
  <2>3. OverlayInv'
    BY <1>11 DEF OvWindow, OverlayInv, Starting, LfTypeOK, Gates, Handles, Resources,
       FlagsInv, AfterClose, AfterKeyJoin, AfterDlgTake, AfterDlgJoin, AfterStartWait,
            AfterMonTake, AfterMonJoin, AfterOvJoin
  <2>4. QED BY <2>1, <2>2, <2>3
<1>12. ASSUME NEW made \in BOOLEAN, OvMonitor(made) PROVE LfTypeOK' /\ OthersKept /\ OverlayInv'
  <2>1. LfTypeOK'
    BY <1>12, <1>0 DEF RecordsTyped, OvMonitor, LfTypeOK, OvStates, Starting
  <2>2. OthersKept
    BY <1>12 DEF OvMonitor, LfTypeOK, OthersKept, Gates, Handles
  <2>3. OverlayInv'
    BY <1>12 DEF OvMonitor, OverlayInv, Starting, LfTypeOK, Gates, Handles, Resources,
       FlagsInv, AfterClose, AfterKeyJoin, AfterDlgTake, AfterDlgJoin, AfterStartWait,
            AfterMonTake, AfterMonJoin, AfterOvJoin
  <2>4. QED BY <2>1, <2>2, <2>3
<1>13. CASE OvPaint
  <2>1. LfTypeOK'
    BY <1>13, <1>0 DEF RecordsTyped, OvPaint, LfTypeOK, OvStates, Starting
  <2>2. OthersKept
    BY <1>13 DEF OvPaint, LfTypeOK, OthersKept, Gates, Handles
  <2>3. OverlayInv'
    BY <1>13 DEF OvPaint, OverlayInv, Starting, LfTypeOK, Gates, Handles, Resources,
       FlagsInv, AfterClose, AfterKeyJoin, AfterDlgTake, AfterDlgJoin, AfterStartWait,
            AfterMonTake, AfterMonJoin, AfterOvJoin
  <2>4. QED BY <2>1, <2>2, <2>3
<1>14. QED
  BY <1>1, <1>2, <1>3, <1>4, <1>5, <1>6, <1>7, <1>8, <1>9, <1>10, <1>11, <1>12, <1>13 DEF OvStep

(* The other threads and the shutdown.                                    *)

(* Boot, the deferred start, the two polling threads.                      *)
LEMMA StartSteps ==
  ASSUME LifeInv,
         \/ \E ok \in BOOLEAN : Boot(ok) \/ ScheduleOverlay(ok)
         \/ MonEnd \/ KeyStep
  PROVE  LifeInv'
<1> USE DEF LifeInv, LfSet
<1>0. RecordsTyped
  BY RecordTypes
<1>1. ASSUME NEW ok \in BOOLEAN, Boot(ok) PROVE LifeInv'
  <2>1. LfTypeOK'
    BY <1>1, <1>0, Stages DEF Boot, RecordsTyped, LfTypeOK, Alive, AfterMark, AfterClose,
       AfterKeyJoin, AfterDlgTake,
            AfterDlgJoin, AfterStartWait, AfterMonTake, AfterMonJoin, AfterOvJoin
  <2>2. FlagsInv' /\ KeyInv'
    BY <1>1 DEF Boot, FlagsInv, KeyInv, LfTypeOK, Gates, Handles, Resources, AfterMark,
       AfterClose, AfterKeyJoin, AfterDlgTake,
            AfterDlgJoin, AfterStartWait, AfterMonTake, AfterMonJoin, AfterOvJoin
  <2>3. OverlayInv'
    BY <1>1 DEF Boot, OverlayInv, FlagsInv, LfTypeOK, Gates, Handles, Resources, AfterMark,
       AfterClose, AfterKeyJoin, AfterDlgTake,
            AfterDlgJoin, AfterStartWait, AfterMonTake, AfterMonJoin, AfterOvJoin
  <2>4. DialogInv'
    BY <1>1 DEF Boot, DialogInv, FlagsInv, LfTypeOK, Gates, Handles, Resources, AfterMark,
       AfterClose, AfterKeyJoin, AfterDlgTake,
            AfterDlgJoin, AfterStartWait, AfterMonTake, AfterMonJoin, AfterOvJoin
  <2>5. GuardInv'
    BY <1>1 DEF Boot, GuardInv, LfTypeOK, Gates, Handles, Resources
  <2>6. QED BY <2>1, <2>2, <2>3, <2>4, <2>5
<1>2. ASSUME NEW ok \in BOOLEAN, ScheduleOverlay(ok) PROVE LifeInv'
  <2>1. LfTypeOK'
    BY <1>2, <1>0, Stages DEF ScheduleOverlay, OvStates, RecordsTyped, LfTypeOK, Alive,
       AfterMark, AfterClose, AfterKeyJoin, AfterDlgTake,
            AfterDlgJoin, AfterStartWait, AfterMonTake, AfterMonJoin, AfterOvJoin
  <2>2. FlagsInv' /\ KeyInv'
    BY <1>2 DEF ScheduleOverlay, OvStates, FlagsInv, KeyInv, LfTypeOK, Gates, Handles,
       Resources, AfterMark, AfterClose, AfterKeyJoin, AfterDlgTake,
            AfterDlgJoin, AfterStartWait, AfterMonTake, AfterMonJoin, AfterOvJoin
  <2>3. OverlayInv'
    <3>1. lifeCb \notin AfterOvJoin /\ lifeCb \notin AfterStartWait /\ lifeCb \notin AfterMonJoin
      BY <1>2 DEF ScheduleOverlay, AfterMark, AfterClose, AfterKeyJoin, AfterDlgTake,
            AfterDlgJoin, AfterStartWait, AfterMonTake, AfterMonJoin, AfterOvJoin
    <3>2. lifeOv \in {"none", "ended"}
      BY <1>2 DEF ScheduleOverlay, OverlayInv
    <3>3. ~lifeRes.window /\ lifeHandle'.mon = lifeHandle.mon /\ lifeGate'.inProg = lifeGate.inProg
          /\ lifeHandle'.ov = ok /\ lifeOv' = (IF ok THEN "waiting" ELSE lifeOv)
          /\ UNCHANGED <<lifeRes, lifeMon, lifeCb>>
      BY <1>2, <3>2 DEF ScheduleOverlay, OverlayInv, LfTypeOK, Gates, Handles
    <3>4. QED BY <3>1, <3>2, <3>3 DEF OverlayInv, Starting
  <2>4. DialogInv'
    BY <1>2 DEF ScheduleOverlay, OvStates, DialogInv, FlagsInv, LfTypeOK, Gates, Handles,
       Resources, AfterMark, AfterClose, AfterKeyJoin, AfterDlgTake,
            AfterDlgJoin, AfterStartWait, AfterMonTake, AfterMonJoin, AfterOvJoin
  <2>5. GuardInv'
    BY <1>2 DEF ScheduleOverlay, OvStates, GuardInv, LfTypeOK, Gates, Handles, Resources
  <2>6. QED BY <2>1, <2>2, <2>3, <2>4, <2>5
<1>3. CASE MonEnd
  <2>1. LfTypeOK'
    BY <1>3, <1>0 DEF MonEnd, MonitorStays, RecordsTyped, LfTypeOK, Alive
  <2>2. FlagsInv' /\ KeyInv'
    BY <1>3 DEF MonEnd, MonitorStays, FlagsInv, KeyInv, LfTypeOK, Gates, Handles, Resources
  <2>3. OverlayInv'
    BY <1>3 DEF MonEnd, MonitorStays, OverlayInv, FlagsInv, LfTypeOK, Gates, Handles, Resources
  <2>4. DialogInv'
    BY <1>3 DEF MonEnd, MonitorStays, DialogInv, FlagsInv, LfTypeOK, Gates, Handles, Resources
  <2>5. GuardInv'
    BY <1>3 DEF MonEnd, MonitorStays, GuardInv, LfTypeOK, Gates, Handles, Resources
  <2>6. QED BY <2>1, <2>2, <2>3, <2>4, <2>5
<1>4. CASE KeyTest
  <2>1. LfTypeOK'
    BY <1>4, <1>0 DEF KeyTest, KeyStays, RecordsTyped, LfTypeOK, Alive
  <2>2. FlagsInv' /\ KeyInv'
    BY <1>4 DEF KeyTest, KeyStays, FlagsInv, KeyInv, LfTypeOK, Gates, Handles, Resources
  <2>3. OverlayInv'
    BY <1>4 DEF KeyTest, KeyStays, OverlayInv, FlagsInv, LfTypeOK, Gates, Handles, Resources
  <2>4. DialogInv'
    BY <1>4 DEF KeyTest, KeyStays, DialogInv, FlagsInv, LfTypeOK, Gates, Handles, Resources
  <2>5. GuardInv'
    BY <1>4 DEF KeyTest, KeyStays, GuardInv, LfTypeOK, Gates, Handles, Resources
  <2>6. QED BY <2>1, <2>2, <2>3, <2>4, <2>5
<1>5. CASE NoKey
  <2>1. LfTypeOK'
    BY <1>5, <1>0 DEF NoKey, RecordsTyped, LfTypeOK, Alive
  <2>2. FlagsInv' /\ KeyInv'
    BY <1>5 DEF NoKey, FlagsInv, KeyInv, LfTypeOK, Gates, Handles, Resources
  <2>3. OverlayInv'
    BY <1>5 DEF NoKey, OverlayInv, FlagsInv, LfTypeOK, Gates, Handles, Resources
  <2>4. DialogInv'
    BY <1>5 DEF NoKey, DialogInv, FlagsInv, LfTypeOK, Gates, Handles, Resources
  <2>5. GuardInv'
    BY <1>5 DEF NoKey, GuardInv, LfTypeOK, Gates, Handles, Resources
  <2>6. QED BY <2>1, <2>2, <2>3, <2>4, <2>5
<1>6. QED
  BY <1>1, <1>2, <1>3, <1>4, <1>5 DEF KeyStep

(* The shutdown.                                                           *)
LEMMA ShutSteps ==
  ASSUME LifeInv,
         \/ Shutdown \/ ShutMark \/ ShutDisarm \/ ShutClose \/ KeyStop \/ KeyJoin \/ DlgTake
         \/ DlgJoin \/ StartWait \/ MonStop \/ MonTake \/ MonJoin \/ SignalQuit
         \/ OvJoin \/ Finalize \/ SignalQuitAgain
  PROVE  LifeInv'
<1> USE DEF LifeInv, LfSet
<1>0. RecordsTyped
  BY RecordTypes
<1>1. CASE Shutdown
  <2>1. LfTypeOK'
    BY <1>1, <1>0, Stages DEF Shutdown, RecordsTyped, LfTypeOK, Alive, AfterMark,
       AfterClose, AfterKeyJoin, AfterDlgTake,
            AfterDlgJoin, AfterStartWait, AfterMonTake, AfterMonJoin, AfterOvJoin
  <2>2. FlagsInv' /\ KeyInv'
    BY <1>1 DEF Shutdown, FlagsInv, KeyInv, LfTypeOK, Gates, Handles, Resources, AfterMark,
       AfterClose, AfterKeyJoin, AfterDlgTake,
            AfterDlgJoin, AfterStartWait, AfterMonTake, AfterMonJoin, AfterOvJoin
  <2>3. OverlayInv'
    BY <1>1 DEF Shutdown, OverlayInv, FlagsInv, LfTypeOK, Gates, Handles, Resources,
       AfterMark, AfterClose, AfterKeyJoin, AfterDlgTake,
            AfterDlgJoin, AfterStartWait, AfterMonTake, AfterMonJoin, AfterOvJoin
  <2>4. DialogInv'
    BY <1>1 DEF Shutdown, DialogInv, FlagsInv, LfTypeOK, Gates, Handles, Resources,
       AfterMark, AfterClose, AfterKeyJoin, AfterDlgTake,
            AfterDlgJoin, AfterStartWait, AfterMonTake, AfterMonJoin, AfterOvJoin
  <2>5. GuardInv'
    BY <1>1 DEF Shutdown, GuardInv, LfTypeOK, Gates, Handles, Resources
  <2>6. QED BY <2>1, <2>2, <2>3, <2>4, <2>5
<1>2. CASE ShutMark
  <2>1. LfTypeOK'
    BY <1>2, <1>0, Stages DEF ShutMark, ShutFlag, RecordsTyped, LfTypeOK, Alive, AfterMark,
       AfterClose, AfterKeyJoin, AfterDlgTake,
            AfterDlgJoin, AfterStartWait, AfterMonTake, AfterMonJoin, AfterOvJoin
  <2>2. FlagsInv' /\ KeyInv'
    BY <1>2 DEF ShutMark, ShutFlag, FlagsInv, KeyInv, LfTypeOK, Gates, Handles, Resources,
       AfterMark, AfterClose, AfterKeyJoin, AfterDlgTake,
            AfterDlgJoin, AfterStartWait, AfterMonTake, AfterMonJoin, AfterOvJoin
  <2>3. OverlayInv'
    BY <1>2 DEF ShutMark, ShutFlag, OverlayInv, FlagsInv, LfTypeOK, Gates, Handles,
       Resources, AfterMark, AfterClose, AfterKeyJoin, AfterDlgTake,
            AfterDlgJoin, AfterStartWait, AfterMonTake, AfterMonJoin, AfterOvJoin
  <2>4. DialogInv'
    BY <1>2 DEF ShutMark, ShutFlag, DialogInv, FlagsInv, LfTypeOK, Gates, Handles,
       Resources, AfterMark, AfterClose, AfterKeyJoin, AfterDlgTake,
            AfterDlgJoin, AfterStartWait, AfterMonTake, AfterMonJoin, AfterOvJoin
  <2>5. GuardInv'
    BY <1>2 DEF ShutMark, ShutFlag, GuardInv, LfTypeOK, Gates, Handles, Resources
  <2>6. QED BY <2>1, <2>2, <2>3, <2>4, <2>5
<1>3. CASE ShutDisarm
  <2>1. LfTypeOK'
    BY <1>3, <1>0, Stages DEF ShutDisarm, ShutFlag, RecordsTyped, LfTypeOK, Alive,
       AfterMark, AfterClose, AfterKeyJoin, AfterDlgTake,
            AfterDlgJoin, AfterStartWait, AfterMonTake, AfterMonJoin, AfterOvJoin
  <2>2. FlagsInv' /\ KeyInv'
    BY <1>3 DEF ShutDisarm, ShutFlag, FlagsInv, KeyInv, LfTypeOK, Gates, Handles, Resources,
       AfterMark, AfterClose, AfterKeyJoin, AfterDlgTake,
            AfterDlgJoin, AfterStartWait, AfterMonTake, AfterMonJoin, AfterOvJoin
  <2>3. OverlayInv'
    BY <1>3 DEF ShutDisarm, ShutFlag, OverlayInv, FlagsInv, LfTypeOK, Gates, Handles,
       Resources, AfterMark, AfterClose, AfterKeyJoin, AfterDlgTake,
            AfterDlgJoin, AfterStartWait, AfterMonTake, AfterMonJoin, AfterOvJoin
  <2>4. DialogInv'
    BY <1>3 DEF ShutDisarm, ShutFlag, DialogInv, FlagsInv, LfTypeOK, Gates, Handles,
       Resources, AfterMark, AfterClose, AfterKeyJoin, AfterDlgTake,
            AfterDlgJoin, AfterStartWait, AfterMonTake, AfterMonJoin, AfterOvJoin
  <2>5. GuardInv'
    BY <1>3 DEF ShutDisarm, ShutFlag, GuardInv, LfTypeOK, Gates, Handles, Resources
  <2>6. QED BY <2>1, <2>2, <2>3, <2>4, <2>5
<1>4. CASE ShutClose
  <2>1. LfTypeOK'
    BY <1>4, <1>0, Stages DEF ShutClose, ShutFlag, RecordsTyped, LfTypeOK, Alive, AfterMark,
       AfterClose, AfterKeyJoin, AfterDlgTake,
            AfterDlgJoin, AfterStartWait, AfterMonTake, AfterMonJoin, AfterOvJoin
  <2>2. FlagsInv' /\ KeyInv'
    BY <1>4 DEF ShutClose, ShutFlag, FlagsInv, KeyInv, LfTypeOK, Gates, Handles, Resources,
       AfterMark, AfterClose, AfterKeyJoin, AfterDlgTake,
            AfterDlgJoin, AfterStartWait, AfterMonTake, AfterMonJoin, AfterOvJoin
  <2>3. OverlayInv'
    BY <1>4 DEF ShutClose, ShutFlag, OverlayInv, FlagsInv, LfTypeOK, Gates, Handles,
       Resources, AfterMark, AfterClose, AfterKeyJoin, AfterDlgTake,
            AfterDlgJoin, AfterStartWait, AfterMonTake, AfterMonJoin, AfterOvJoin
  <2>4. DialogInv'
    BY <1>4 DEF ShutClose, ShutFlag, DialogInv, FlagsInv, LfTypeOK, Gates, Handles,
       Resources, AfterMark, AfterClose, AfterKeyJoin, AfterDlgTake,
            AfterDlgJoin, AfterStartWait, AfterMonTake, AfterMonJoin, AfterOvJoin
  <2>5. GuardInv'
    BY <1>4 DEF ShutClose, ShutFlag, GuardInv, LfTypeOK, Gates, Handles, Resources
  <2>6. QED BY <2>1, <2>2, <2>3, <2>4, <2>5
<1>5. CASE KeyStop
  <2>1. LfTypeOK'
    BY <1>5, <1>0, Stages DEF KeyStop, ShutFlag, RecordsTyped, LfTypeOK, Alive, AfterMark,
       AfterClose, AfterKeyJoin, AfterDlgTake,
            AfterDlgJoin, AfterStartWait, AfterMonTake, AfterMonJoin, AfterOvJoin
  <2>2. FlagsInv' /\ KeyInv'
    BY <1>5 DEF KeyStop, ShutFlag, FlagsInv, KeyInv, LfTypeOK, Gates, Handles, Resources,
       AfterMark, AfterClose, AfterKeyJoin, AfterDlgTake,
            AfterDlgJoin, AfterStartWait, AfterMonTake, AfterMonJoin, AfterOvJoin
  <2>3. OverlayInv'
    BY <1>5 DEF KeyStop, ShutFlag, OverlayInv, FlagsInv, LfTypeOK, Gates, Handles,
       Resources, AfterMark, AfterClose, AfterKeyJoin, AfterDlgTake,
            AfterDlgJoin, AfterStartWait, AfterMonTake, AfterMonJoin, AfterOvJoin
  <2>4. DialogInv'
    BY <1>5 DEF KeyStop, ShutFlag, DialogInv, FlagsInv, LfTypeOK, Gates, Handles, Resources,
       AfterMark, AfterClose, AfterKeyJoin, AfterDlgTake,
            AfterDlgJoin, AfterStartWait, AfterMonTake, AfterMonJoin, AfterOvJoin
  <2>5. GuardInv'
    BY <1>5 DEF KeyStop, ShutFlag, GuardInv, LfTypeOK, Gates, Handles, Resources
  <2>6. QED BY <2>1, <2>2, <2>3, <2>4, <2>5
<1>6. CASE MonStop
  <2>1. LfTypeOK'
    BY <1>6, <1>0, Stages DEF MonStop, ShutFlag, RecordsTyped, LfTypeOK, Alive, AfterMark,
       AfterClose, AfterKeyJoin, AfterDlgTake,
            AfterDlgJoin, AfterStartWait, AfterMonTake, AfterMonJoin, AfterOvJoin
  <2>2. FlagsInv' /\ KeyInv'
    BY <1>6 DEF MonStop, ShutFlag, FlagsInv, KeyInv, LfTypeOK, Gates, Handles, Resources,
       AfterMark, AfterClose, AfterKeyJoin, AfterDlgTake,
            AfterDlgJoin, AfterStartWait, AfterMonTake, AfterMonJoin, AfterOvJoin
  <2>3. OverlayInv'
    BY <1>6 DEF MonStop, ShutFlag, OverlayInv, FlagsInv, LfTypeOK, Gates, Handles,
       Resources, AfterMark, AfterClose, AfterKeyJoin, AfterDlgTake,
            AfterDlgJoin, AfterStartWait, AfterMonTake, AfterMonJoin, AfterOvJoin
  <2>4. DialogInv'
    BY <1>6 DEF MonStop, ShutFlag, DialogInv, FlagsInv, LfTypeOK, Gates, Handles, Resources,
       AfterMark, AfterClose, AfterKeyJoin, AfterDlgTake,
            AfterDlgJoin, AfterStartWait, AfterMonTake, AfterMonJoin, AfterOvJoin
  <2>5. GuardInv'
    BY <1>6 DEF MonStop, ShutFlag, GuardInv, LfTypeOK, Gates, Handles, Resources
  <2>6. QED BY <2>1, <2>2, <2>3, <2>4, <2>5
<1>7. CASE MonTake
  <2>1. LfTypeOK'
    BY <1>7, <1>0, Stages DEF MonTake, ShutFlag, RecordsTyped, LfTypeOK, Alive, AfterMark,
       AfterClose, AfterKeyJoin, AfterDlgTake,
            AfterDlgJoin, AfterStartWait, AfterMonTake, AfterMonJoin, AfterOvJoin
  <2>2. FlagsInv' /\ KeyInv'
    BY <1>7 DEF MonTake, ShutFlag, FlagsInv, KeyInv, LfTypeOK, Gates, Handles, Resources,
       AfterMark, AfterClose, AfterKeyJoin, AfterDlgTake,
            AfterDlgJoin, AfterStartWait, AfterMonTake, AfterMonJoin, AfterOvJoin
  <2>3. OverlayInv'
    BY <1>7 DEF MonTake, ShutFlag, OverlayInv, FlagsInv, LfTypeOK, Gates, Handles,
       Resources, AfterMark, AfterClose, AfterKeyJoin, AfterDlgTake,
            AfterDlgJoin, AfterStartWait, AfterMonTake, AfterMonJoin, AfterOvJoin
  <2>4. DialogInv'
    BY <1>7 DEF MonTake, ShutFlag, DialogInv, FlagsInv, LfTypeOK, Gates, Handles, Resources,
       AfterMark, AfterClose, AfterKeyJoin, AfterDlgTake,
            AfterDlgJoin, AfterStartWait, AfterMonTake, AfterMonJoin, AfterOvJoin
  <2>5. GuardInv'
    BY <1>7 DEF MonTake, ShutFlag, GuardInv, LfTypeOK, Gates, Handles, Resources
  <2>6. QED BY <2>1, <2>2, <2>3, <2>4, <2>5
<1>8. CASE KeyJoin
  <2>1. LfTypeOK'
    BY <1>8, <1>0, Stages DEF KeyJoin, RecordsTyped, LfTypeOK, Alive, AfterMark, AfterClose,
       AfterKeyJoin, AfterDlgTake,
            AfterDlgJoin, AfterStartWait, AfterMonTake, AfterMonJoin, AfterOvJoin
  <2>2. FlagsInv' /\ KeyInv'
    BY <1>8 DEF KeyJoin, FlagsInv, KeyInv, LfTypeOK, Gates, Handles, Resources, AfterMark,
       AfterClose, AfterKeyJoin, AfterDlgTake,
            AfterDlgJoin, AfterStartWait, AfterMonTake, AfterMonJoin, AfterOvJoin
  <2>3. OverlayInv'
    BY <1>8 DEF KeyJoin, OverlayInv, FlagsInv, LfTypeOK, Gates, Handles, Resources,
       AfterMark, AfterClose, AfterKeyJoin, AfterDlgTake,
            AfterDlgJoin, AfterStartWait, AfterMonTake, AfterMonJoin, AfterOvJoin
  <2>4. DialogInv'
    BY <1>8 DEF KeyJoin, DialogInv, FlagsInv, LfTypeOK, Gates, Handles, Resources,
       AfterMark, AfterClose, AfterKeyJoin, AfterDlgTake,
            AfterDlgJoin, AfterStartWait, AfterMonTake, AfterMonJoin, AfterOvJoin
  <2>5. GuardInv'
    BY <1>8 DEF KeyJoin, GuardInv, LfTypeOK, Gates, Handles, Resources
  <2>6. QED BY <2>1, <2>2, <2>3, <2>4, <2>5
<1>9. CASE DlgTake
  <2>1. LfTypeOK'
    BY <1>9, <1>0, Stages DEF DlgTake, RecordsTyped, LfTypeOK, Alive, AfterMark, AfterClose,
       AfterKeyJoin, AfterDlgTake,
            AfterDlgJoin, AfterStartWait, AfterMonTake, AfterMonJoin, AfterOvJoin
  <2>2. FlagsInv' /\ KeyInv'
    BY <1>9 DEF DlgTake, FlagsInv, KeyInv, LfTypeOK, Gates, Handles, Resources, AfterMark,
       AfterClose, AfterKeyJoin, AfterDlgTake,
            AfterDlgJoin, AfterStartWait, AfterMonTake, AfterMonJoin, AfterOvJoin
  <2>3. OverlayInv'
    BY <1>9 DEF DlgTake, OverlayInv, FlagsInv, LfTypeOK, Gates, Handles, Resources,
       AfterMark, AfterClose, AfterKeyJoin, AfterDlgTake,
            AfterDlgJoin, AfterStartWait, AfterMonTake, AfterMonJoin, AfterOvJoin
  <2>4. DialogInv'
    <3>1. \A o \in Openers : lifeOpen[o] # "start"
      BY <1>9 DEF DlgTake, DialogInv, Openers
    <3>2. lifeCb' \notin AfterDlgJoin
      BY <1>9 DEF DlgTake, AfterDlgJoin, AfterStartWait, AfterMonTake, AfterMonJoin, AfterOvJoin
    <3>3. QED BY <1>9, <3>1, <3>2 DEF DlgTake, DialogInv
  <2>5. GuardInv'
    BY <1>9 DEF DlgTake, GuardInv, LfTypeOK, Gates, Handles, Resources
  <2>6. QED BY <2>1, <2>2, <2>3, <2>4, <2>5
<1>10. CASE DlgJoin
  <2>1. LfTypeOK'
    BY <1>10, <1>0, Stages DEF DlgJoin, RecordsTyped, LfTypeOK, Alive, AfterMark,
       AfterClose, AfterKeyJoin, AfterDlgTake,
            AfterDlgJoin, AfterStartWait, AfterMonTake, AfterMonJoin, AfterOvJoin
  <2>2. FlagsInv' /\ KeyInv'
    BY <1>10 DEF DlgJoin, FlagsInv, KeyInv, LfTypeOK, Gates, Handles, Resources, AfterMark,
       AfterClose, AfterKeyJoin, AfterDlgTake,
            AfterDlgJoin, AfterStartWait, AfterMonTake, AfterMonJoin, AfterOvJoin
  <2>3. OverlayInv'
    BY <1>10 DEF DlgJoin, OverlayInv, FlagsInv, LfTypeOK, Gates, Handles, Resources,
       AfterMark, AfterClose, AfterKeyJoin, AfterDlgTake,
            AfterDlgJoin, AfterStartWait, AfterMonTake, AfterMonJoin, AfterOvJoin
  <2>4. DialogInv'
    <3>1. \A d \in Dialogs : lifeDlg[d] \notin Alive
      BY <1>10 DEF DlgJoin, DialogInv, Dialogs, Alive
    <3>2. \A o \in Openers : lifeOpen[o] # "start"
      BY <1>10 DEF DlgJoin, DialogInv, AfterDlgTake
    <3>3. lifeHandle'.dlg = 0
      BY <1>10 DEF DlgJoin, LfTypeOK, Handles
    <3>4. QED BY <1>10, <3>1, <3>2, <3>3 DEF DlgJoin, DialogInv
  <2>5. GuardInv'
    BY <1>10 DEF DlgJoin, GuardInv, LfTypeOK, Gates, Handles, Resources
  <2>6. QED BY <2>1, <2>2, <2>3, <2>4, <2>5
<1>11. CASE MonJoin
  <2>1. LfTypeOK'
    BY <1>11, <1>0, Stages DEF MonJoin, RecordsTyped, LfTypeOK, Alive, AfterMark,
       AfterClose, AfterKeyJoin, AfterDlgTake,
            AfterDlgJoin, AfterStartWait, AfterMonTake, AfterMonJoin, AfterOvJoin
  <2>2. FlagsInv' /\ KeyInv'
    BY <1>11 DEF MonJoin, FlagsInv, KeyInv, LfTypeOK, Gates, Handles, Resources, AfterMark,
       AfterClose, AfterKeyJoin, AfterDlgTake,
            AfterDlgJoin, AfterStartWait, AfterMonTake, AfterMonJoin, AfterOvJoin
  <2>3. OverlayInv'
    BY <1>11 DEF MonJoin, OverlayInv, FlagsInv, LfTypeOK, Gates, Handles, Resources,
       AfterMark, AfterClose, AfterKeyJoin, AfterDlgTake,
            AfterDlgJoin, AfterStartWait, AfterMonTake, AfterMonJoin, AfterOvJoin
  <2>4. DialogInv'
    BY <1>11 DEF MonJoin, DialogInv, FlagsInv, LfTypeOK, Gates, Handles, Resources,
       AfterMark, AfterClose, AfterKeyJoin, AfterDlgTake,
            AfterDlgJoin, AfterStartWait, AfterMonTake, AfterMonJoin, AfterOvJoin
  <2>5. GuardInv'
    BY <1>11 DEF MonJoin, GuardInv, LfTypeOK, Gates, Handles, Resources
  <2>6. QED BY <2>1, <2>2, <2>3, <2>4, <2>5
<1>12. CASE OvJoin
  <2>1. LfTypeOK'
    BY <1>12, <1>0, Stages DEF OvJoin, RecordsTyped, LfTypeOK, Alive, AfterMark, AfterClose,
       AfterKeyJoin, AfterDlgTake,
            AfterDlgJoin, AfterStartWait, AfterMonTake, AfterMonJoin, AfterOvJoin
  <2>2. FlagsInv' /\ KeyInv'
    BY <1>12 DEF OvJoin, FlagsInv, KeyInv, LfTypeOK, Gates, Handles, Resources, AfterMark,
       AfterClose, AfterKeyJoin, AfterDlgTake,
            AfterDlgJoin, AfterStartWait, AfterMonTake, AfterMonJoin, AfterOvJoin
  <2>3. OverlayInv'
    BY <1>12 DEF OvJoin, OverlayInv, FlagsInv, LfTypeOK, Gates, Handles, Resources,
       AfterMark, AfterClose, AfterKeyJoin, AfterDlgTake,
            AfterDlgJoin, AfterStartWait, AfterMonTake, AfterMonJoin, AfterOvJoin
  <2>4. DialogInv'
    BY <1>12 DEF OvJoin, DialogInv, FlagsInv, LfTypeOK, Gates, Handles, Resources,
       AfterMark, AfterClose, AfterKeyJoin, AfterDlgTake,
            AfterDlgJoin, AfterStartWait, AfterMonTake, AfterMonJoin, AfterOvJoin
  <2>5. GuardInv'
    BY <1>12 DEF OvJoin, GuardInv, LfTypeOK, Gates, Handles, Resources
  <2>6. QED BY <2>1, <2>2, <2>3, <2>4, <2>5
<1>13. CASE Finalize
  <2>1. LfTypeOK'
    BY <1>13, <1>0, Stages DEF Finalize, RecordsTyped, LfTypeOK, Alive, AfterMark,
       AfterClose, AfterKeyJoin, AfterDlgTake,
            AfterDlgJoin, AfterStartWait, AfterMonTake, AfterMonJoin, AfterOvJoin
  <2>2. FlagsInv' /\ KeyInv'
    BY <1>13 DEF Finalize, FlagsInv, KeyInv, LfTypeOK, Gates, Handles, Resources, AfterMark,
       AfterClose, AfterKeyJoin, AfterDlgTake,
            AfterDlgJoin, AfterStartWait, AfterMonTake, AfterMonJoin, AfterOvJoin
  <2>3. OverlayInv'
    BY <1>13 DEF Finalize, OverlayInv, FlagsInv, LfTypeOK, Gates, Handles, Resources,
       AfterMark, AfterClose, AfterKeyJoin, AfterDlgTake,
            AfterDlgJoin, AfterStartWait, AfterMonTake, AfterMonJoin, AfterOvJoin
  <2>4. DialogInv'
    BY <1>13 DEF Finalize, DialogInv, FlagsInv, LfTypeOK, Gates, Handles, Resources,
       AfterMark, AfterClose, AfterKeyJoin, AfterDlgTake,
            AfterDlgJoin, AfterStartWait, AfterMonTake, AfterMonJoin, AfterOvJoin
  <2>5. GuardInv'
    BY <1>13 DEF Finalize, GuardInv, LfTypeOK, Gates, Handles, Resources
  <2>6. QED BY <2>1, <2>2, <2>3, <2>4, <2>5
<1>14. CASE StartWait
  <2>1. LfTypeOK'
    BY <1>14, <1>0, Stages DEF StartWait, StartDone, RecordsTyped, LfTypeOK, Alive,
       AfterMark, AfterClose, AfterKeyJoin, AfterDlgTake,
            AfterDlgJoin, AfterStartWait, AfterMonTake, AfterMonJoin, AfterOvJoin
  <2>2. FlagsInv' /\ KeyInv'
    BY <1>14 DEF StartWait, StartDone, FlagsInv, KeyInv, LfTypeOK, Gates, Handles,
       Resources, AfterMark, AfterClose, AfterKeyJoin, AfterDlgTake,
            AfterDlgJoin, AfterStartWait, AfterMonTake, AfterMonJoin, AfterOvJoin
  <2>3. OverlayInv'
    BY <1>14 DEF StartWait, StartDone, OverlayInv, FlagsInv, LfTypeOK, Gates, Handles,
       Resources, AfterMark, AfterClose, AfterKeyJoin, AfterDlgTake,
            AfterDlgJoin, AfterStartWait, AfterMonTake, AfterMonJoin, AfterOvJoin
  <2>4. DialogInv'
    BY <1>14 DEF StartWait, StartDone, DialogInv, FlagsInv, LfTypeOK, Gates, Handles,
       Resources, AfterMark, AfterClose, AfterKeyJoin, AfterDlgTake,
            AfterDlgJoin, AfterStartWait, AfterMonTake, AfterMonJoin, AfterOvJoin
  <2>5. GuardInv'
    BY <1>14 DEF StartWait, StartDone, GuardInv, LfTypeOK, Gates, Handles, Resources
  <2>6. QED BY <2>1, <2>2, <2>3, <2>4, <2>5
<1>15. CASE SignalQuit
  <2>1. LfTypeOK'
    BY <1>15, <1>0, Stages DEF SignalQuit, PostQuit, RecordsTyped, LfTypeOK, Alive,
       AfterMark, AfterClose, AfterKeyJoin, AfterDlgTake,
            AfterDlgJoin, AfterStartWait, AfterMonTake, AfterMonJoin, AfterOvJoin
  <2>2. FlagsInv' /\ KeyInv'
    BY <1>15 DEF SignalQuit, PostQuit, FlagsInv, KeyInv, LfTypeOK, Gates, Handles,
       Resources, AfterMark, AfterClose, AfterKeyJoin, AfterDlgTake,
            AfterDlgJoin, AfterStartWait, AfterMonTake, AfterMonJoin, AfterOvJoin
  <2>3. OverlayInv'
    BY <1>15 DEF SignalQuit, PostQuit, OverlayInv, FlagsInv, LfTypeOK, Gates, Handles,
       Resources, AfterMark, AfterClose, AfterKeyJoin, AfterDlgTake,
            AfterDlgJoin, AfterStartWait, AfterMonTake, AfterMonJoin, AfterOvJoin
  <2>4. DialogInv'
    BY <1>15 DEF SignalQuit, PostQuit, DialogInv, FlagsInv, LfTypeOK, Gates, Handles,
       Resources, AfterMark, AfterClose, AfterKeyJoin, AfterDlgTake,
            AfterDlgJoin, AfterStartWait, AfterMonTake, AfterMonJoin, AfterOvJoin
  <2>5. GuardInv'
    BY <1>15 DEF SignalQuit, PostQuit, GuardInv, LfTypeOK, Gates, Handles, Resources
  <2>6. QED BY <2>1, <2>2, <2>3, <2>4, <2>5
<1>16. CASE SignalQuitAgain
  <2>1. LfTypeOK'
    BY <1>16, <1>0 DEF SignalQuitAgain, PostQuit, RecordsTyped, LfTypeOK, Alive
  <2>2. FlagsInv' /\ KeyInv'
    BY <1>16 DEF SignalQuitAgain, PostQuit, FlagsInv, KeyInv, LfTypeOK, Gates, Handles,
       Resources
  <2>3. OverlayInv'
    BY <1>16 DEF SignalQuitAgain, PostQuit, OverlayInv, FlagsInv, LfTypeOK, Gates, Handles,
       Resources
  <2>4. DialogInv'
    BY <1>16 DEF SignalQuitAgain, PostQuit, DialogInv, FlagsInv, LfTypeOK, Gates, Handles,
       Resources
  <2>5. GuardInv'
    BY <1>16 DEF SignalQuitAgain, PostQuit, GuardInv, LfTypeOK, Gates, Handles, Resources
  <2>6. QED BY <2>1, <2>2, <2>3, <2>4, <2>5
<1>17. QED
  BY <1>1, <1>2, <1>3, <1>4, <1>5, <1>6, <1>7, <1>8, <1>9, <1>10, <1>11, <1>12, <1>13,
     <1>14, <1>15, <1>16

(* The next dialog number, when there is one left.                         *)
LEMMA NextDialog ==
  ASSUME LfAssumption, DialogInv, \E d \in Dialogs : lifeDlg[d] = "none"
  PROVE  LET d == CHOOSE x \in Dialogs :
                    lifeDlg[x] = "none" /\ \A y \in 1 .. x - 1 : lifeDlg[y] # "none"
         IN d \in Dialogs /\ \A e \in Dialogs : lifeDlg[e] = "none" <=> d <= e
<1> DEFINE First(x) == lifeDlg[x] = "none" /\ \A y \in 1 .. x - 1 : lifeDlg[y] # "none"
           d == CHOOSE x \in Dialogs : First(x)
<1>1. PICK n \in 0..LfMaxDialogs : \A e \in Dialogs : lifeDlg[e] = "none" <=> n < e
  BY DEF DialogInv
<1>2. n \in Nat /\ n + 1 \in Dialogs
  BY <1>1 DEF LfAssumption, Dialogs
<1>3. First(n + 1)
  BY <1>1, <1>2 DEF Dialogs, LfAssumption
<1>4. d \in Dialogs /\ First(d)
  BY <1>2, <1>3
<1>5. d = n + 1
  <2> HIDE DEF d
  <2>1. d \in Nat /\ n < d
    BY <1>1, <1>4 DEF Dialogs, LfAssumption
  <2>2. SUFFICES ASSUME n + 1 < d PROVE FALSE
    BY <1>2, <2>1
  <2>3. n + 1 \in 1 .. d - 1
    BY <1>2, <2>1, <2>2
  <2>4. QED BY <1>3, <1>4, <2>3
<1> HIDE DEF d
<1>6. \A e \in Dialogs : lifeDlg[e] = "none" <=> d <= e
  BY <1>1, <1>2, <1>5 DEF Dialogs, LfAssumption
<1>7. QED BY <1>4, <1>6 DEF d

(* Whoever opens a dialog.                                                 *)
LEMMA OpenSteps ==
  ASSUME LfAssumption, LifeInv,
         NEW o \in Openers, WinGuard(o) \/ OpenStep(o)
  PROVE  LifeInv'
<1> USE DEF LifeInv, LfSet
<1>0. RecordsTyped
  BY RecordTypes
<1>1. CASE WinGuard(o)
  <2>1. LfTypeOK'
    BY <1>1, <1>0, Stages DEF WinGuard, MayCall, RecordsTyped, LfTypeOK, Alive, AfterMark,
       AfterClose, AfterKeyJoin, AfterDlgTake,
            AfterDlgJoin, AfterStartWait, AfterMonTake, AfterMonJoin, AfterOvJoin
  <2>2. FlagsInv' /\ KeyInv'
    <3>1. FlagsInv'
      BY <1>1 DEF WinGuard, MayCall, FlagsInv, LfTypeOK, Gates, Openers
    <3>2. lifeKey' \in {"test", "poll"} => lifeKey \in {"test", "poll"}
      BY <1>1 DEF WinGuard, MayCall
    <3>3. lifeOpen'["key"] # "idle" => lifeKey' = "test"
      BY <1>1 DEF WinGuard, KeyInv, LfTypeOK, Openers
    <3>4. QED BY <1>1, <3>1, <3>2, <3>3 DEF WinGuard, MayCall, KeyInv
  <2>3. OverlayInv'
    BY <1>1 DEF WinGuard, MayCall, OverlayInv, FlagsInv, LfTypeOK, Gates, Handles,
       Resources, AfterMark, AfterClose, AfterKeyJoin, AfterDlgTake,
            AfterDlgJoin, AfterStartWait, AfterMonTake, AfterMonJoin, AfterOvJoin
  <2>4. DialogInv'
    BY <1>1 DEF WinGuard, MayCall, DialogInv, FlagsInv, LfTypeOK, Gates, Handles, Resources,
       AfterMark, AfterClose, AfterKeyJoin, AfterDlgTake,
            AfterDlgJoin, AfterStartWait, AfterMonTake, AfterMonJoin, AfterOvJoin
  <2>5. GuardInv'
    BY <1>1 DEF WinGuard, MayCall, GuardInv, LfTypeOK, Gates, Handles, Resources
  <2>6. QED BY <2>1, <2>2, <2>3, <2>4, <2>5
<1>2. CASE OpenLock(o)
  <2>1. LfTypeOK'
    BY <1>2, <1>0, Stages DEF OpenLock, RecordsTyped, LfTypeOK, Alive, AfterMark,
       AfterClose, AfterKeyJoin, AfterDlgTake,
            AfterDlgJoin, AfterStartWait, AfterMonTake, AfterMonJoin, AfterOvJoin
  <2>2. FlagsInv' /\ KeyInv'
    BY <1>2 DEF OpenLock, FlagsInv, KeyInv, LfTypeOK, Gates, Handles, Resources, AfterMark,
       AfterClose, AfterKeyJoin, AfterDlgTake,
            AfterDlgJoin, AfterStartWait, AfterMonTake, AfterMonJoin, AfterOvJoin
  <2>3. OverlayInv'
    BY <1>2 DEF OpenLock, OverlayInv, FlagsInv, LfTypeOK, Gates, Handles, Resources,
       AfterMark, AfterClose, AfterKeyJoin, AfterDlgTake,
            AfterDlgJoin, AfterStartWait, AfterMonTake, AfterMonJoin, AfterOvJoin
  <2>4. DialogInv'
    <3>1. lifeOpen'[o] = "start" => lifeCb \notin AfterDlgTake
      BY <1>2 DEF OpenLock, FlagsInv, LfTypeOK, AfterMark, AfterClose, AfterKeyJoin
    <3>2. \A q \in Openers : q # o => lifeOpen'[q] = lifeOpen[q]
      BY <1>2 DEF OpenLock, LfTypeOK
    <3>3. \A q \in Openers : lifeOpen[q] \notin {"start", "refuse"}
      BY <1>2 DEF OpenLock, DialogInv, Openers
    <3>4. lifeOpen'[o] \in {"start", "refuse"} /\ \E d \in Dialogs : lifeDlg[d] = "none"
      BY <1>2 DEF OpenLock, DialogInv, LfTypeOK
    <3>5. UNCHANGED <<lifeDlg, lifeHandle, lifeCb>> /\ lifeLock' = o
      BY <1>2 DEF OpenLock
    <3>6. QED BY <3>1, <3>2, <3>3, <3>4, <3>5 DEF DialogInv
  <2>5. GuardInv'
    BY <1>2 DEF OpenLock, GuardInv, LfTypeOK, Gates, Handles, Resources
  <2>6. QED BY <2>1, <2>2, <2>3, <2>4, <2>5
<1>3. CASE OpenRefuse(o)
  <2>1. LfTypeOK'
    BY <1>3, <1>0 DEF OpenRefuse, RecordsTyped, LfTypeOK, Alive
  <2>2. FlagsInv' /\ KeyInv'
    BY <1>3 DEF OpenRefuse, FlagsInv, KeyInv, LfTypeOK, Gates, Handles, Resources
  <2>3. OverlayInv'
    BY <1>3 DEF OpenRefuse, OverlayInv, FlagsInv, LfTypeOK, Gates, Handles, Resources
  <2>4. DialogInv'
    BY <1>3 DEF OpenRefuse, DialogInv, FlagsInv, LfTypeOK, Gates, Handles, Resources
  <2>5. GuardInv'
    BY <1>3 DEF OpenRefuse, GuardInv, LfTypeOK, Gates, Handles, Resources
  <2>6. QED BY <2>1, <2>2, <2>3, <2>4, <2>5
<1>4. CASE GiveBack(o)
  <2>1. LfTypeOK'
    BY <1>4, <1>0 DEF GiveBack, RecordsTyped, LfTypeOK, Alive
  <2>2. FlagsInv' /\ KeyInv'
    BY <1>4 DEF GiveBack, FlagsInv, KeyInv, LfTypeOK, Gates, Handles, Resources
  <2>3. OverlayInv'
    BY <1>4 DEF GiveBack, OverlayInv, FlagsInv, LfTypeOK, Gates, Handles, Resources
  <2>4. DialogInv'
    BY <1>4 DEF GiveBack, DialogInv, FlagsInv, LfTypeOK, Gates, Handles, Resources
  <2>5. GuardInv'
    BY <1>4 DEF GiveBack, GuardInv, LfTypeOK, Gates, Handles, Resources
  <2>6. QED BY <2>1, <2>2, <2>3, <2>4, <2>5
<1>5. ASSUME NEW created \in BOOLEAN, OpenStart(o, created) PROVE LifeInv'
  <2> DEFINE d == CHOOSE x \in Dialogs :
                    lifeDlg[x] = "none" /\ \A y \in 1 .. x - 1 : lifeDlg[y] # "none"
  <2>1. d \in Dialogs /\ \A e \in Dialogs : lifeDlg[e] = "none" <=> d <= e
    BY <1>5, NextDialog DEF OpenStart, DialogInv
  <2>2. /\ lifeOpen[o] = "start"
        /\ lifeHandle.dlg # 0 => lifeDlg[lifeHandle.dlg] = "ended"
        /\ lifeHandle' = [lifeHandle EXCEPT !.dlg = IF created THEN d ELSE 0]
        /\ lifeDlg' = (IF created THEN [lifeDlg EXCEPT ![d] = "setup"] ELSE lifeDlg)
        /\ lifeOpen' = [lifeOpen EXCEPT ![o] = IF created THEN "idle" ELSE "giveBack"]
        /\ lifeLock' = "free"
        /\ UNCHANGED <<lifeGate, lifeCb, lifeOv, lifeRes, lifeMon, lifeKey>>
    BY <1>5 DEF OpenStart
  <2> HIDE DEF d
  <2>3. LfTypeOK'
    BY <1>0, <2>1, <2>2 DEF RecordsTyped, LfTypeOK, Alive
  <2>4. /\ lifeHandle'.dlg = (IF created THEN d ELSE 0)
        /\ lifeHandle'.key = lifeHandle.key /\ lifeHandle'.ov = lifeHandle.ov
        /\ lifeHandle'.mon = lifeHandle.mon
    BY <2>2 DEF LfTypeOK, Handles
  <2>5. lifeOpen'["menu"] # "idle" => lifeOpen["menu"] # "idle"
    BY <2>2 DEF LfTypeOK, Openers
  <2>6. lifeOpen'["key"] # "idle" => lifeOpen["key"] # "idle"
    BY <2>2 DEF LfTypeOK, Openers
  <2>7. FlagsInv' /\ KeyInv' /\ OverlayInv'
    BY <2>2, <2>4, <2>5, <2>6 DEF FlagsInv, KeyInv, OverlayInv
  <2>8. /\ \A q \in Openers : q # o => lifeOpen[q] = "idle" /\ lifeOpen'[q] = "idle"
        /\ lifeOpen'[o] = (IF created THEN "idle" ELSE "giveBack")
    BY <2>2 DEF GuardInv, LfTypeOK
  <2>9. /\ \A e \in Dialogs : lifeDlg[e] \notin Alive
        /\ \A e \in Dialogs : lifeDlg'[e] \in Alive => created /\ e = d
        /\ created => lifeDlg'[d] \in Alive
        /\ \A e \in Dialogs : e # d => lifeDlg'[e] = lifeDlg[e]
    BY <2>1, <2>2 DEF GuardInv, LfTypeOK, Alive
  <2>10. DialogInv'
    <3>1. \E n \in 0..LfMaxDialogs : \A e \in Dialogs : lifeDlg'[e] = "none" <=> n < e
      <4>1. CASE created
        <5>1. \A e \in Dialogs : lifeDlg'[e] = "none" <=> d < e
          BY <2>1, <2>2, <4>1 DEF LfTypeOK, Dialogs, LfAssumption
        <5>2. d \in 0..LfMaxDialogs
          BY <2>1 DEF Dialogs, LfAssumption
        <5>3. QED BY <5>1, <5>2
      <4>2. CASE ~created
        BY <2>2, <4>2 DEF DialogInv
      <4>3. QED BY <4>1, <4>2
    <3>2. \A q \in Openers : lifeOpen'[q] \notin {"won", "start", "refuse"}
      BY <2>8
    <3>3. lifeCb \notin AfterDlgJoin
      BY <2>2 DEF DialogInv, AfterDlgTake
    <3>4. QED BY <2>2, <2>4, <2>9, <3>1, <3>2, <3>3 DEF DialogInv
  <2>11. GuardInv'
    <3>1. lifeGate.guard
      BY <2>2 DEF GuardInv
    <3>2. CASE created
      BY <2>1, <2>2, <2>8, <2>9, <3>1, <3>2 DEF GuardInv
    <3>3. CASE ~created
      BY <2>1, <2>2, <2>8, <2>9, <3>1, <3>3 DEF GuardInv
    <3>4. QED BY <3>2, <3>3
  <2>12. QED BY <2>3, <2>7, <2>10, <2>11
<1>6. QED
  BY <1>1, <1>2, <1>3, <1>4, <1>5 DEF OpenStep

(* The dialog threads.                                                     *)
LEMMA DialogSteps ==
  ASSUME LifeInv,
         NEW d \in Dialogs, DlgStep(d) \/ UserCloses(d) \/ DlgClose(d)
  PROVE  LifeInv'
<1> USE DEF LifeInv, LfSet
<1>0. RecordsTyped
  BY RecordTypes
<1>1. CASE DlgEnd(d)
  <2>1. LfTypeOK'
    BY <1>1, <1>0 DEF DlgEnd, RecordsTyped, LfTypeOK, Alive
  <2>2. FlagsInv' /\ KeyInv'
    BY <1>1 DEF DlgEnd, FlagsInv, KeyInv, LfTypeOK, Gates, Handles, Resources
  <2>3. OverlayInv'
    BY <1>1 DEF DlgEnd, OverlayInv, FlagsInv, LfTypeOK, Gates, Handles, Resources
  <2>4. DialogInv'
    BY <1>1 DEF DlgEnd, DialogInv, FlagsInv, LfTypeOK, Gates, Handles, Resources
  <2>5. GuardInv'
    BY <1>1 DEF DlgEnd, GuardInv, LfTypeOK, Gates, Alive
  <2>6. QED BY <2>1, <2>2, <2>3, <2>4, <2>5
<1>2. CASE DlgRelease(d)
  <2>1. LfTypeOK'
    BY <1>2, <1>0 DEF DlgRelease, RecordsTyped, LfTypeOK, Alive
  <2>2. FlagsInv' /\ KeyInv'
    BY <1>2 DEF DlgRelease, FlagsInv, KeyInv, LfTypeOK, Gates, Handles, Resources
  <2>3. OverlayInv'
    BY <1>2 DEF DlgRelease, OverlayInv, FlagsInv, LfTypeOK, Gates, Handles, Resources
  <2>4. DialogInv'
    BY <1>2 DEF DlgRelease, DialogInv, FlagsInv, LfTypeOK, Gates, Handles, Resources
  <2>5. GuardInv'
    BY <1>2 DEF DlgRelease, GuardInv, LfTypeOK, Gates, Alive
  <2>6. QED BY <2>1, <2>2, <2>3, <2>4, <2>5
<1>3. CASE UserCloses(d)
  <2>1. LfTypeOK'
    BY <1>3, <1>0 DEF UserCloses, RecordsTyped, LfTypeOK, Alive
  <2>2. FlagsInv' /\ KeyInv'
    BY <1>3 DEF UserCloses, FlagsInv, KeyInv, LfTypeOK, Gates, Handles, Resources
  <2>3. OverlayInv'
    BY <1>3 DEF UserCloses, OverlayInv, FlagsInv, LfTypeOK, Gates, Handles, Resources
  <2>4. DialogInv'
    BY <1>3 DEF UserCloses, DialogInv, FlagsInv, LfTypeOK, Gates, Handles, Resources
  <2>5. GuardInv'
    BY <1>3 DEF UserCloses, GuardInv, LfTypeOK, Gates, Alive
  <2>6. QED BY <2>1, <2>2, <2>3, <2>4, <2>5
<1>4. CASE DlgClose(d)
  <2>1. LfTypeOK'
    BY <1>4, <1>0 DEF DlgClose, RecordsTyped, LfTypeOK, Alive
  <2>2. FlagsInv' /\ KeyInv'
    BY <1>4 DEF DlgClose, FlagsInv, KeyInv, LfTypeOK, Gates, Handles, Resources
  <2>3. OverlayInv'
    BY <1>4 DEF DlgClose, OverlayInv, FlagsInv, LfTypeOK, Gates, Handles, Resources
  <2>4. DialogInv'
    BY <1>4 DEF DlgClose, DialogInv, FlagsInv, LfTypeOK, Gates, Handles, Resources
  <2>5. GuardInv'
    BY <1>4 DEF DlgClose, GuardInv, LfTypeOK, Gates, Alive
  <2>6. QED BY <2>1, <2>2, <2>3, <2>4, <2>5
<1>5. ASSUME NEW shown \in BOOLEAN, DlgSetup(d, shown) PROVE LifeInv'
  <2>1. LfTypeOK'
    BY <1>5, <1>0 DEF DlgSetup, RecordsTyped, LfTypeOK, Alive
  <2>2. FlagsInv' /\ KeyInv'
    BY <1>5 DEF DlgSetup, FlagsInv, KeyInv, LfTypeOK, Gates, Handles, Resources
  <2>3. OverlayInv'
    BY <1>5 DEF DlgSetup, OverlayInv, FlagsInv, LfTypeOK, Gates, Handles, Resources
  <2>4. DialogInv'
    BY <1>5 DEF DlgSetup, DialogInv, FlagsInv, LfTypeOK, Gates, Handles, Resources
  <2>5. GuardInv'
    BY <1>5 DEF DlgSetup, GuardInv, LfTypeOK, Gates, Alive
  <2>6. QED BY <2>1, <2>2, <2>3, <2>4, <2>5
<1>6. QED
  BY <1>1, <1>2, <1>3, <1>4, <1>5 DEF DlgStep

(* When the shutdown is done nothing of the plugin is left, for any number *)
(* of dialogs and any number of starts of the overlay before it.           *)
LEMMA LifeIsSafe ==
  ASSUME LifeInv
  PROVE  LifecycleSafe
<1> USE DEF LifeInv, LfTypeOK
<1>1. NothingOutlivesShutdown
  <2>1. Past(lifeCb, "keyJoin") => lifeKey \in {"none", "ended"}
    BY Stages DEF KeyInv
  <2>2. Past(lifeCb, "dlgJoin") => \A d \in Dialogs : lifeDlg[d] \notin Alive
    BY Stages DEF DialogInv, Dialogs
  <2>3. Past(lifeCb, "monJoin") => lifeMon # "running"
    BY Stages DEF OverlayInv, AfterStartWait, AfterMonTake, Starting
  <2>4. Past(lifeCb, "ovJoin") => lifeOv \in {"none", "ended"} /\ ~lifeRes.window
    BY Stages DEF OverlayInv
  <2>5. lifeCb = "done" => lifeHandle = [ov |-> FALSE, mon |-> FALSE, key |-> FALSE, dlg |-> 0]
    BY DEF KeyInv, OverlayInv, DialogInv, Handles, AfterOvJoin, AfterMonJoin, AfterMonTake,
           AfterStartWait, AfterDlgJoin, AfterDlgTake, AfterKeyJoin
  <2>6. QED BY <2>1, <2>2, <2>3, <2>4, <2>5 DEF NothingOutlivesShutdown, OverlayInv
<1>2. OneDialog
  <2> DEFINE Os == {o \in Openers : lifeOpen[o] # "idle"}
             Ds == {d \in Dialogs : lifeDlg[d] \in Alive}
  <2>1. CASE \E o \in Openers : lifeOpen[o] # "idle"
    <3>1. PICK o \in Openers : lifeOpen[o] # "idle"
      BY <2>1
    <3>2. Os = {o} /\ Ds = {} /\ lifeGate.guard
      BY <3>1 DEF GuardInv
    <3>3. Cardinality(Os) = 1 /\ Cardinality(Ds) = 0
      BY <3>2, FS_Singleton, FS_EmptySet
    <3>4. QED BY <3>2, <3>3 DEF OneDialog
  <2>2. CASE \E d \in Dialogs : lifeDlg[d] \in Alive
    <3>1. PICK d \in Dialogs : lifeDlg[d] \in Alive
      BY <2>2
    <3>2. Os = {} /\ Ds = {d} /\ lifeGate.guard
      BY <3>1 DEF GuardInv
    <3>3. Cardinality(Os) = 0 /\ Cardinality(Ds) = 1
      BY <3>2, FS_Singleton, FS_EmptySet
    <3>4. QED BY <3>2, <3>3 DEF OneDialog
  <2>3. CASE /\ ~\E o \in Openers : lifeOpen[o] # "idle"
             /\ ~\E d \in Dialogs : lifeDlg[d] \in Alive
    <3>1. Os = {} /\ Ds = {} /\ ~lifeGate.guard
      BY <2>3 DEF GuardInv
    <3>2. Cardinality(Os) = 0 /\ Cardinality(Ds) = 0
      BY <3>1, FS_EmptySet
    <3>3. QED BY <3>1, <3>2 DEF OneDialog
  <2>4. QED BY <2>1, <2>2, <2>3
<1>3. StopAfterStart
  BY Stages DEF StopAfterStart, OverlayInv
<1>4. QED BY <1>1, <1>2, <1>3 DEF LifecycleSafe

THEOREM LifecycleIsSafe ==
  ASSUME LfAssumption
  PROVE  LfSpec => []LifecycleSafe
<1>1. LfInit => LifeInv
  BY LifeStart
<1>2. LifeInv /\ [LfNext]_lfvars => LifeInv'
  <2> SUFFICES ASSUME LifeInv, [LfNext]_lfvars PROVE LifeInv'
    OBVIOUS
  <2>1. CASE UNCHANGED lfvars
    BY <2>1 DEF lfvars, LifeInv, LfTypeOK, FlagsInv, KeyInv, OverlayInv, DialogInv, GuardInv
  <2>2. CASE \/ \E ok \in BOOLEAN : Boot(ok) \/ ScheduleOverlay(ok)
             \/ MonEnd \/ KeyStep
    BY <2>2, StartSteps
  <2>3. CASE OvStep \/ OvPaint
    BY <2>3, OverlaySteps
  <2>4. CASE \E o \in Openers : WinGuard(o) \/ OpenStep(o)
    BY <2>4, OpenSteps
  <2>5. CASE \E d \in Dialogs : DlgStep(d) \/ UserCloses(d) \/ DlgClose(d)
    BY <2>5, DialogSteps
  <2>6. CASE \/ Shutdown \/ ShutMark \/ ShutDisarm \/ ShutClose \/ KeyStop \/ KeyJoin \/ DlgTake
             \/ DlgJoin \/ StartWait \/ MonStop \/ MonTake \/ MonJoin \/ SignalQuit
             \/ OvJoin \/ Finalize \/ SignalQuitAgain
    BY <2>6, ShutSteps
  <2>7. QED BY <2>1, <2>2, <2>3, <2>4, <2>5, <2>6 DEF LfNext, ShutStep
<1>3. QED BY <1>1, <1>2, LifeIsSafe, PTL DEF LfSpec

-----------------------------------------------------------------------------
(* HudSync: types.  A source counts its changes, so it never exceeds them. *)

HudTyped ==
  /\ HudTypeOK
  /\ hudSrc.pos + hudLeft.changes <= HudMaxChanges
  /\ hudSrc.hub + hudLeft.changes <= HudMaxChanges

(* Whoever still has to copy a new position into the mirrors.              *)
PositionComes ==
  \/ hudFlag.pending
  \/ \E t \in HudTickers : hudTick[t] = "request"

(* A raised flag has somebody on the way to the callback thread.           *)
FlagIsServed ==
  hudFlag.online /\ hudFlag.pending =>
    \/ hudFlag.wake \/ hudCb # "idle"
    \/ \E t \in HudTickers : hudTick[t] = "wake"

(* The mirrors hold the sources, or a sync is still to copy them.          *)
MirrorComes ==
  hudFlag.online =>
    /\ hudMirror.pos = hudSrc.pos \/ PositionComes \/ hudCb \in {"clear", "pos"}
    /\ hudMirror.zone = hudSrc.pos \/ PositionComes \/ hudCb \in {"clear", "pos", "hub", "zone"}
    /\ hudMirror.hub = hudSrc.hub \/ hudCb \in {"clear", "pos", "hub"}

(* The image holds the mirrors, or a paint is still to come.               *)
ImageComes ==
  /\ \/ hudImage.zone = hudMirror.zone
     \/ hudFlag.refresh \/ hudPaint = "zone" \/ hudCb = "show"
  /\ \/ hudImage.pos = hudMirror.pos
     \/ hudFlag.refresh \/ hudPaint # "idle" \/ hudCb \in {"hub", "zone", "show"}
  /\ \/ hudImage.hub = hudMirror.hub
     \/ hudFlag.refresh \/ hudPaint # "idle" \/ hudCb \in {"zone", "show"}

HudInv == FlagIsServed /\ MirrorComes /\ ImageComes

LEMMA HudStart == HudAssumption /\ HudInit => HudTyped
<1> SUFFICES ASSUME HudAssumption, HudInit PROVE HudTyped
  OBVIOUS
<1>1. 0 \in Versions /\ HudMaxChanges \in Versions /\ HudMaxSwitches \in 0 .. HudMaxSwitches
  BY DEF Versions, HudAssumption
<1>2. /\ hudSrc.pos = 0 /\ hudSrc.hub = 0 /\ hudLeft.changes = HudMaxChanges
      /\ hudSrc \in [pos : Versions, hub : Versions]
      /\ hudLeft \in [changes : Versions, switches : 0 .. HudMaxSwitches]
  BY <1>1 DEF HudInit
<1>3. {hudMirror, hudImage} \subseteq [pos : Versions, zone : Versions, hub : Versions]
  BY <1>1 DEF HudInit, Nothing
<1>4. hudFlag \in [pending : BOOLEAN, wake : BOOLEAN, refresh : BOOLEAN, online : BOOLEAN]
  BY DEF HudInit
<1>5. QED BY <1>2, <1>3, <1>4 DEF HudInit, HudTyped, HudTypeOK, HudAssumption

LEMMA HudTypes ==
  ASSUME HudAssumption, HudTyped, HudNext
  PROVE  HudTyped'
<1>1. ASSUME NEW t \in HudTickers, NewPosition(t) PROVE HudTyped'
  BY <1>1 DEF NewPosition, HudTyped, HudTypeOK, Versions, HudAssumption
<1>2. ASSUME NEW t \in HudTickers, RequestSync(t) PROVE HudTyped'
  BY <1>2 DEF RequestSync, HudTyped, HudTypeOK, Versions, HudAssumption
<1>3. ASSUME NEW t \in HudTickers, RequestWakeup(t) PROVE HudTyped'
  BY <1>3 DEF RequestWakeup, HudTyped, HudTypeOK, Versions, HudAssumption
<1>4. ASSUME NEW t \in HudTickers, TickShows(t) PROVE HudTyped'
  BY <1>4 DEF TickShows, HudTyped, HudTypeOK, Versions, HudAssumption
<1>5. CASE Drain
  BY <1>5 DEF Drain, HudTyped, HudTypeOK, Versions, HudAssumption
<1>6. CASE ProfileUpdated
  BY <1>6 DEF ProfileUpdated, HudTyped, HudTypeOK, Versions, HudAssumption
<1>7. CASE Connect
  <2>1. /\ hudLeft' \in [changes : Versions, switches : 0 .. HudMaxSwitches]
        /\ hudLeft'.changes = hudLeft.changes
    BY <1>7 DEF Connect, HudTyped, HudTypeOK, HudAssumption
  <2>2. hudFlag' \in [pending : BOOLEAN, wake : BOOLEAN, refresh : BOOLEAN, online : BOOLEAN]
    BY <1>7 DEF Connect, HudTyped, HudTypeOK
  <2>3. /\ hudSrc' \in [pos : Versions, hub : Versions]
        /\ hudSrc'.pos = hudSrc.pos /\ (hudSrc'.hub = hudSrc.hub \/ hudSrc'.hub = 0)
    BY <1>7 DEF Connect, HudTyped, HudTypeOK, Versions, HudAssumption
  <2>4. hudLeft.changes \in Nat /\ hudLeft.changes <= HudMaxChanges
    BY DEF HudTyped, HudTypeOK, Versions, HudAssumption
  <2>5. QED
    BY <1>7, <2>1, <2>2, <2>3, <2>4 DEF Connect, HudTyped, HudTypeOK, HudAssumption
<1>8. CASE Disconnect
  <2>1. /\ hudLeft' \in [changes : Versions, switches : 0 .. HudMaxSwitches]
        /\ hudLeft'.changes = hudLeft.changes
    BY <1>8 DEF Disconnect, HudTyped, HudTypeOK, HudAssumption
  <2>2. hudFlag' \in [pending : BOOLEAN, wake : BOOLEAN, refresh : BOOLEAN, online : BOOLEAN]
    BY <1>8 DEF Disconnect, HudTyped, HudTypeOK
  <2>3. /\ hudSrc' \in [pos : Versions, hub : Versions]
        /\ hudSrc'.pos = hudSrc.pos /\ (hudSrc'.hub = hudSrc.hub \/ hudSrc'.hub = 0)
    BY <1>8 DEF Disconnect, HudTyped, HudTypeOK, Versions, HudAssumption
  <2>4. hudLeft.changes \in Nat /\ hudLeft.changes <= HudMaxChanges
    BY DEF HudTyped, HudTypeOK, Versions, HudAssumption
  <2>5. QED
    BY <1>8, <2>1, <2>2, <2>3, <2>4 DEF Disconnect, HudTyped, HudTypeOK, HudAssumption
<1>9. CASE DropPending
  BY <1>9 DEF DropPending, HudTyped, HudTypeOK, Versions, HudAssumption
<1>10. CASE CopyPosition
  BY <1>10 DEF CopyPosition, HudTyped, HudTypeOK, Versions, HudAssumption
<1>11. CASE CopyProfile
  BY <1>11 DEF CopyProfile, HudTyped, HudTypeOK, Versions, HudAssumption
<1>12. CASE ResolveZone
  BY <1>12 DEF ResolveZone, HudTyped, HudTypeOK, Versions, HudAssumption
<1>13. CASE ShowAndRewake
  BY <1>13 DEF ShowAndRewake, HudTyped, HudTypeOK, Versions, HudAssumption
<1>14. CASE TakeRefresh
  BY <1>14 DEF TakeRefresh, HudTyped, HudTypeOK, Versions, HudAssumption
<1>15. CASE PaintZone
  BY <1>15 DEF PaintZone, HudTyped, HudTypeOK, Versions, HudAssumption
<1>16. CASE PaintRest
  BY <1>16 DEF PaintRest, HudTyped, HudTypeOK, Versions, HudAssumption
<1>17. QED
  BY <1>1, <1>2, <1>3, <1>4, <1>5, <1>6, <1>7, <1>8, <1>9, <1>10, <1>11, <1>12, <1>13,
     <1>14, <1>15, <1>16 DEF HudNext

LEMMA HudStep ==
  ASSUME HudTyped, HudInv, HudNext
  PROVE  HudInv'
<1>1. ASSUME NEW t \in HudTickers, NewPosition(t) PROVE HudInv'
  BY <1>1 DEF NewPosition, HudTyped, HudTypeOK, HudInv, FlagIsServed, MirrorComes,
     ImageComes, PositionComes
<1>2. ASSUME NEW t \in HudTickers, RequestSync(t) PROVE HudInv'
  BY <1>2 DEF RequestSync, HudTyped, HudTypeOK, HudInv, FlagIsServed, MirrorComes,
     ImageComes, PositionComes
<1>3. ASSUME NEW t \in HudTickers, RequestWakeup(t) PROVE HudInv'
  BY <1>3 DEF RequestWakeup, HudTyped, HudTypeOK, HudInv, FlagIsServed, MirrorComes,
     ImageComes, PositionComes
<1>4. ASSUME NEW t \in HudTickers, TickShows(t) PROVE HudInv'
  BY <1>4 DEF TickShows, HudTyped, HudTypeOK, HudInv, FlagIsServed, MirrorComes, ImageComes,
     PositionComes
<1>5. CASE Drain
  BY <1>5 DEF Drain, HudTyped, HudTypeOK, HudInv, FlagIsServed, MirrorComes, ImageComes,
     PositionComes
<1>6. CASE ProfileUpdated
  BY <1>6 DEF ProfileUpdated, HudTyped, HudTypeOK, HudInv, FlagIsServed, MirrorComes,
     ImageComes, PositionComes
<1>7. CASE Connect
  BY <1>7, SMTT(40) DEF Connect, HudTyped, HudTypeOK, HudInv, FlagIsServed, MirrorComes,
     ImageComes, PositionComes
<1>8. CASE Disconnect
  BY <1>8, SMTT(40) DEF Disconnect, HudTyped, HudTypeOK, HudInv, FlagIsServed, MirrorComes,
     ImageComes, PositionComes
<1>9. CASE DropPending
  BY <1>9 DEF DropPending, HudTyped, HudTypeOK, HudInv, FlagIsServed, MirrorComes,
     ImageComes, PositionComes
<1>10. CASE CopyPosition
  BY <1>10 DEF CopyPosition, HudTyped, HudTypeOK, HudInv, FlagIsServed, MirrorComes,
     ImageComes, PositionComes
<1>11. CASE CopyProfile
  BY <1>11 DEF CopyProfile, HudTyped, HudTypeOK, HudInv, FlagIsServed, MirrorComes,
     ImageComes, PositionComes
<1>12. CASE ResolveZone
  BY <1>12 DEF ResolveZone, HudTyped, HudTypeOK, HudInv, FlagIsServed, MirrorComes,
     ImageComes, PositionComes
<1>13. CASE ShowAndRewake
  BY <1>13 DEF ShowAndRewake, HudTyped, HudTypeOK, HudInv, FlagIsServed, MirrorComes,
     ImageComes, PositionComes
<1>14. CASE TakeRefresh
  BY <1>14 DEF TakeRefresh, HudTyped, HudTypeOK, HudInv, FlagIsServed, MirrorComes,
     ImageComes, PositionComes
<1>15. CASE PaintZone
  BY <1>15 DEF PaintZone, HudTyped, HudTypeOK, HudInv, FlagIsServed, MirrorComes,
     ImageComes, PositionComes
<1>16. CASE PaintRest
  BY <1>16 DEF PaintRest, HudTyped, HudTypeOK, HudInv, FlagIsServed, MirrorComes,
     ImageComes, PositionComes
<1>17. QED
  BY <1>1, <1>2, <1>3, <1>4, <1>5, <1>6, <1>7, <1>8, <1>9, <1>10, <1>11, <1>12, <1>13,
     <1>14, <1>15, <1>16 DEF HudNext

(* The variables keep their types.                                         *)
THEOREM HudTypesHold ==
  ASSUME HudAssumption
  PROVE  HudSpec => []HudTypeOK
<1>1. HudInit => HudTyped
  BY HudStart
<1>2. HudTyped /\ [HudNext]_hudvars => HudTyped'
  <2>1. CASE UNCHANGED hudvars
    BY <2>1 DEF hudvars, HudTyped, HudTypeOK
  <2>2. QED BY <2>1, HudTypes
<1>3. HudTyped => HudTypeOK
  BY DEF HudTyped
<1>4. QED BY <1>1, <1>2, <1>3, PTL DEF HudSpec

(* The coalescing flag loses no tick: when everything has come to rest on  *)
(* a connection, the HUD shows the sources and the flag is down.           *)
THEOREM HudShowsItsSources ==
  ASSUME HudAssumption
  PROVE  HudSpec => []HudIsCurrent
<1>1. HudInit => HudTyped /\ HudInv
  <2>1. HudInit => HudTyped
    BY HudStart
  <2>2. HudInit => HudInv
    BY DEF HudInit, HudInv, FlagIsServed, MirrorComes, ImageComes, Nothing
  <2>3. QED BY <2>1, <2>2
<1>2. HudTyped /\ HudInv /\ [HudNext]_hudvars => HudTyped' /\ HudInv'
  <2>1. CASE UNCHANGED hudvars
    BY <2>1 DEF hudvars, HudTyped, HudTypeOK, HudInv, FlagIsServed, MirrorComes, ImageComes,
                PositionComes
  <2>2. QED BY <2>1, HudTypes, HudStep
<1>3. HudTyped /\ HudInv => HudIsCurrent
  <2> SUFFICES ASSUME HudTyped, HudInv, HudAtRest, hudFlag.online
               PROVE  /\ ~hudFlag.pending
                      /\ hudImage = [pos |-> hudSrc.pos, zone |-> hudSrc.pos, hub |-> hudSrc.hub]
    BY DEF HudIsCurrent
  <2>1. ~hudFlag.pending /\ ~PositionComes
    BY DEF HudAtRest, HudInv, FlagIsServed, PositionComes
  <2>2. hudMirror.pos = hudSrc.pos /\ hudMirror.zone = hudSrc.pos /\ hudMirror.hub = hudSrc.hub
    BY <2>1 DEF HudAtRest, HudInv, MirrorComes
  <2>3. /\ hudImage.pos = hudMirror.pos /\ hudImage.zone = hudMirror.zone
        /\ hudImage.hub = hudMirror.hub
    BY DEF HudAtRest, HudInv, ImageComes
  <2>4. hudImage \in [pos : Versions, zone : Versions, hub : Versions]
    BY DEF HudTyped, HudTypeOK
  <2>5. QED BY <2>1, <2>2, <2>3, <2>4
<1>4. QED BY <1>1, <1>2, <1>3, PTL DEF HudSpec

-----------------------------------------------------------------------------
(* VoiceKeys: unless a reset has armed it again, the key of a press that   *)
(* is held is disarmed from the poller's answer on, and from the moment    *)
(* the poller has taken the flag of its event, which is raised until then; *)
(* a later press has no answer yet and no event.                           *)
HeldDisarmed ==
  LET by == vkBy[vkKey.press]
  IN vkKey.down /\ ~by.rearmed /\ ~by.slipped =>
       /\ by.polls > 0 => ~vkPoll.armed
       /\ vkPoll.told = vkKey.press => ~vkPoll.armed
       /\ vkEvent.done = vkKey.press => vkAsk.notify \/ ~vkPoll.armed

KeysInv ==
  /\ VkTypeOK
  /\ \A p \in 1..VkPresses : vkKey.press < p => vkBy[p] = NoAnswer
  /\ vkKey.down \/ vkPoll.down => vkKey.press > 0
  /\ vkPoll.told <= vkEvent.done /\ vkEvent.done <= vkKey.press
  /\ HeldDisarmed
  /\ KeyIsAnsweredOnce

LEMMA KeysStart == VkAssumption /\ VkInit => KeysInv
<1> SUFFICES ASSUME VkAssumption, VkInit PROVE KeysInv
  OBVIOUS
<1>1. NoAnswer \in VkAnswers /\ NoAnswer.polls = 0 /\ ~NoAnswer.told
  BY DEF NoAnswer, VkAnswers
<1>2. VkTypeOK
  BY <1>1 DEF VkAssumption, VkInit, VkTypeOK, VkModes
<1>3. QED
  BY <1>1, <1>2 DEF VkAssumption, VkInit, KeysInv, KeyIsAnsweredOnce, EventSilencesPoll,
     OneReportPerChange, HeldDisarmed

(* The steps that end a switch of the mode: the change has one reporter.   *)
LEMMA SwitchStep ==
  ASSUME VkTypeOK, OneReportPerChange, NEW old \in VkModes, Applied(old, NextMode(old))
  PROVE  /\ vkMode' \in VkModes /\ vkSwaps' \in Nat /\ vkWon' \in Nat
         /\ OneReportPerChange'
<1>1. NextMode(old) \in VkModes
  BY DEF NextMode, VkModes
<1>2. QED BY <1>1 DEF Applied, VkTypeOK, OneReportPerChange

LEMMA KeysStep == VkAssumption /\ KeysInv /\ [VkNext]_vkvars => KeysInv'
<1> SUFFICES ASSUME VkAssumption, KeysInv, [VkNext]_vkvars PROVE KeysInv'
  OBVIOUS
<1> USE DEF VkAssumption, KeysInv, KeyIsAnsweredOnce
<1>1. CASE UNCHANGED vkvars
  BY <1>1 DEF vkvars, VkTypeOK, EventSilencesPoll, OneReportPerChange, HeldDisarmed
<1>2. CASE Press
  <2>1. VkTypeOK'
    BY <1>2 DEF Press, VkTypeOK
  <2>2. /\ vkKey'.press = vkKey.press + 1 /\ vkKey.press + 1 \in 1..VkPresses
        /\ UNCHANGED <<vkAsk, vkPoll, vkEvent, vkBy, vkSwaps, vkWon>>
    BY <1>2 DEF Press, VkTypeOK
  <2>3. vkBy[vkKey.press + 1].polls = 0
    BY <2>2 DEF NoAnswer, VkTypeOK
  <2>4. HeldDisarmed'
    BY <2>2, <2>3 DEF HeldDisarmed, VkTypeOK
  <2>5. QED
    BY <2>1, <2>2, <2>4 DEF VkTypeOK, EventSilencesPoll, OneReportPerChange
<1>3. CASE Release
  BY <1>3 DEF Release, VkTypeOK, EventSilencesPoll, OneReportPerChange, HeldDisarmed
<1>4. CASE AskReset
  <2>1. vkResets' \in 0..VkResets
    BY <1>4 DEF AskReset, VkTypeOK
  <2>2. vkAsk' \in [reset : BOOLEAN, notify : BOOLEAN] /\ vkAsk'.notify = vkAsk.notify
    BY <1>4 DEF AskReset, VkTypeOK
  <2>3. QED
    BY <1>4, <2>1, <2>2 DEF AskReset, VkTypeOK, EventSilencesPoll, OneReportPerChange,
       HeldDisarmed
<1>5. CASE EventNotifies
  <2>1. vkAsk' \in [reset : BOOLEAN, notify : BOOLEAN] /\ vkAsk'.notify
    BY <1>5 DEF EventNotifies, VkTypeOK
  <2>2. /\ vkEvent' \in [at : {"idle", "notified", "read"}, read : VkModes, done : 0..VkPresses]
        /\ vkEvent'.done = vkEvent.done + 1 /\ vkEvent'.done <= vkKey.press
    <3>1. vkEvent.done + 1 \in 0..VkPresses /\ vkEvent.done + 1 <= vkKey.press
      BY <1>5 DEF EventNotifies, VkTypeOK
    <3>2. vkEvent' = [vkEvent EXCEPT !.at = "notified", !.done = vkEvent.done + 1]
      BY <1>5 DEF EventNotifies
    <3>3. QED BY <3>1, <3>2 DEF VkTypeOK
  <2>3. UNCHANGED <<vkMode, vkKey, vkPoll, vkBy, vkResets, vkSwaps, vkWon>>
    BY <1>5 DEF EventNotifies
  <2>4. VkTypeOK'
    BY <2>1, <2>2, <2>3 DEF VkTypeOK
  <2>5. HeldDisarmed'
    BY <2>1, <2>3 DEF HeldDisarmed
  <2>6. vkPoll'.told <= vkEvent'.done
    BY <2>2, <2>3 DEF VkTypeOK
  <2>7. QED
    BY <2>2, <2>3, <2>4, <2>5, <2>6 DEF EventSilencesPoll, OneReportPerChange
<1>6. CASE EventReads
  BY <1>6 DEF EventReads, VkTypeOK, EventSilencesPoll, OneReportPerChange, HeldDisarmed
<1>7. CASE EventToggles
  <2>1. vkMode' \in VkModes /\ vkSwaps' \in Nat /\ vkWon' \in Nat /\ OneReportPerChange'
    BY <1>7, SwitchStep DEF EventToggles, VkTypeOK
  <2>2. /\ vkEvent' \in [at : {"idle", "notified", "read"}, read : VkModes, done : 0..VkPresses]
        /\ vkEvent'.done = vkEvent.done
        /\ UNCHANGED <<vkKey, vkAsk, vkPoll, vkBy, vkResets>>
    BY <1>7 DEF EventToggles, VkTypeOK
  <2>3. VkTypeOK'
    BY <2>1, <2>2 DEF VkTypeOK
  <2>4. QED
    BY <2>1, <2>2, <2>3 DEF EventSilencesPoll, HeldDisarmed
<1>8. CASE PollResets
  <2>1. /\ vkPoll' \in [at : {"idle", "reset", "notified", "sampled", "pressed", "read"},
                        down : BOOLEAN, read : VkModes, armed : BOOLEAN,
                        quiet : 0..VkSuppress, told : 0..VkPresses]
        /\ vkPoll'.down = vkPoll.down /\ vkPoll'.told = vkPoll.told
        /\ ~vkAsk.reset => vkPoll'.armed = vkPoll.armed
    <3>1. 0 \in 0..VkSuppress
      OBVIOUS
    <3>2. \/ vkAsk.reset /\ vkPoll' = [vkPoll EXCEPT !.at = "reset", !.armed = TRUE, !.quiet = 0]
          \/ vkPoll' = [vkPoll EXCEPT !.at = "reset"]
      BY <1>8 DEF PollResets
    <3>3. QED BY <3>1, <3>2 DEF VkTypeOK
  <2>2. vkAsk' \in [reset : BOOLEAN, notify : BOOLEAN] /\ vkAsk'.notify = vkAsk.notify
    BY <1>8 DEF PollResets, VkTypeOK
  <2>3. UNCHANGED <<vkMode, vkKey, vkEvent, vkResets, vkSwaps, vkWon>>
    BY <1>8 DEF PollResets
  <2>4. \/ vkBy' = vkBy
        \/ vkAsk.reset /\ HeldAnswered /\ vkBy' = [vkBy EXCEPT ![vkKey.press].rearmed = TRUE]
    BY <1>8, Zenon DEF PollResets
  <2>5. /\ vkBy' \in [1..VkPresses -> VkAnswers]
        /\ \A p \in 1..VkPresses : vkKey.press < p => vkBy'[p] = NoAnswer
        /\ EventSilencesPoll'
    <3>1. CASE vkBy' = vkBy
      BY <3>1 DEF VkTypeOK, EventSilencesPoll
    <3>2. CASE HeldAnswered /\ vkBy' = [vkBy EXCEPT ![vkKey.press].rearmed = TRUE]
      <4>1. vkKey.press \in 1..VkPresses
        BY <3>2 DEF HeldAnswered, VkTypeOK
      <4>2. [vkBy[vkKey.press] EXCEPT !.rearmed = TRUE] \in VkAnswers
        BY <4>1 DEF VkTypeOK, VkAnswers
      <4>3. vkBy'[vkKey.press].rearmed
            /\ \A p \in 1..VkPresses : p # vkKey.press => vkBy'[p] = vkBy[p]
        BY <3>2, <4>1 DEF VkTypeOK, VkAnswers
      <4>4. QED BY <3>2, <4>1, <4>2, <4>3 DEF VkTypeOK, EventSilencesPoll
    <3>3. QED BY <2>4, <3>1, <3>2
  <2>6. HeldDisarmed'
    <3>1. CASE ~vkAsk.reset
      BY <2>1, <2>2, <2>3, <2>4, <3>1 DEF HeldDisarmed
    <3>2. CASE vkAsk.reset /\ HeldAnswered
      <4>1. vkBy'[vkKey.press].rearmed
        BY <1>8, <3>2 DEF PollResets, HeldAnswered, VkTypeOK, VkAnswers
      <4>2. QED BY <2>3, <4>1 DEF HeldDisarmed
    <3>3. CASE ~HeldAnswered
      <4>1. vkBy' = vkBy /\ (vkKey.down => vkEvent.done # vkKey.press /\ ~(vkBy[vkKey.press].polls > 0))
        BY <2>4, <3>3 DEF HeldAnswered
      <4>2. vkKey.down => vkPoll.told # vkKey.press
        BY <4>1 DEF VkTypeOK
      <4>3. QED BY <2>1, <2>3, <4>1, <4>2 DEF HeldDisarmed
    <3>4. QED BY <3>1, <3>2, <3>3
  <2>7. VkTypeOK'
    BY <2>1, <2>2, <2>3, <2>5 DEF VkTypeOK
  <2>8. QED BY <2>1, <2>3, <2>5, <2>6, <2>7 DEF OneReportPerChange
<1>9. CASE PollTakesNotify
  <2> DEFINE S == [at : {"idle", "reset", "notified", "sampled", "pressed", "read"},
                   down : BOOLEAN, read : VkModes, armed : BOOLEAN,
                   quiet : 0..VkSuppress, told : 0..VkPresses]
             a == AtNotify(vkPoll)
             poll == [a EXCEPT !.told = vkEvent.done]
  <2>1. /\ a \in S /\ a.down = vkPoll.down
        /\ vkAsk.notify => ~a.armed
        /\ ~vkAsk.notify => a.armed = vkPoll.armed
    <3>1. VkSuppress \in 0..VkSuppress
      OBVIOUS
    <3>2. a = IF vkAsk.notify THEN [vkPoll EXCEPT !.armed = FALSE, !.quiet = VkSuppress]
              ELSE vkPoll
      BY DEF AtNotify
    <3> HIDE DEF a
    <3>3. QED BY <3>1, <3>2 DEF VkTypeOK
  <2>2. /\ poll.quiet > 0 /\ vkPoll' = [poll EXCEPT !.at = "idle", !.quiet = @ - 1]
        \/ vkPoll' = [poll EXCEPT !.at = "notified"]
    BY <1>9 DEF PollTakesNotify
  <2> HIDE DEF a
  <2>3. /\ poll \in S /\ poll.down = a.down /\ poll.armed = a.armed /\ poll.told = vkEvent.done
    BY <2>1 DEF VkTypeOK
  <2> HIDE DEF poll
  <2>4. /\ vkPoll' \in S /\ vkPoll'.down = vkPoll.down /\ vkPoll'.armed = a.armed
        /\ vkPoll'.told = vkEvent.done
    <3>1. poll.quiet > 0 => poll.quiet - 1 \in 0..VkSuppress
      BY <2>3
    <3>2. QED BY <2>1, <2>2, <2>3, <3>1
  <2>5. UNCHANGED <<vkMode, vkKey, vkEvent, vkBy, vkResets, vkSwaps, vkWon>>
    BY <1>9 DEF PollTakesNotify
  <2>6. VkTypeOK'
    <3>1. vkAsk' \in [reset : BOOLEAN, notify : BOOLEAN]
      BY <1>9 DEF PollTakesNotify, VkTypeOK
    <3>2. QED BY <2>4, <2>5, <3>1 DEF VkTypeOK
  <2>7. HeldDisarmed'
    BY <2>1, <2>4, <2>5 DEF HeldDisarmed
  <2>8. QED
    BY <2>4, <2>5, <2>6, <2>7 DEF VkTypeOK, EventSilencesPoll, OneReportPerChange
<1>10. CASE PollSamples
  BY <1>10 DEF PollSamples, VkTypeOK, EventSilencesPoll, OneReportPerChange, HeldDisarmed
<1>11. CASE PollDecides
  <2> DEFINE armed == vkPoll.armed \/ ~vkKey.down
             by == vkBy[vkKey.press]
  <2>1. UNCHANGED <<vkMode, vkKey, vkAsk, vkEvent, vkResets, vkSwaps, vkWon>>
    BY <1>11 DEF PollDecides
  <2>2. CASE vkPoll' = [vkPoll EXCEPT !.at = "idle", !.armed = armed] /\ UNCHANGED vkBy
    <3>1. VkTypeOK'
      BY <2>1, <2>2 DEF VkTypeOK
    <3>2. /\ vkPoll'.down = vkPoll.down /\ vkPoll'.told = vkPoll.told
          /\ vkKey.down => vkPoll'.armed = vkPoll.armed
      BY <2>2 DEF VkTypeOK
    <3>3. HeldDisarmed'
      BY <2>1, <2>2, <3>2 DEF HeldDisarmed
    <3>4. QED
      BY <2>1, <2>2, <3>1, <3>2, <3>3 DEF EventSilencesPoll, OneReportPerChange
  <2>3. ASSUME armed, vkPoll.down \/ vkKey.down,
               vkPoll' = [vkPoll EXCEPT !.at = "pressed", !.armed = FALSE, !.quiet = VkSuppress],
               vkBy' = [vkBy EXCEPT ![vkKey.press] =
                          [polls |-> @.polls + 1,
                           told |-> @.told \/ vkPoll.told = vkKey.press,
                           rearmed |-> @.rearmed,
                           slipped |-> @.slipped \/ ~vkKey.down]]
        PROVE  KeysInv'
    <3>1. vkKey.press \in 1..VkPresses
      BY <2>3 DEF VkTypeOK
    <3>2. by \in VkAnswers
      BY <3>1 DEF VkTypeOK
    <3>3. vkBy'[vkKey.press] = [polls |-> by.polls + 1,
                                told |-> by.told \/ vkPoll.told = vkKey.press,
                                rearmed |-> by.rearmed,
                                slipped |-> by.slipped \/ ~vkKey.down]
      BY <2>3, <3>1 DEF VkTypeOK
    <3>4. \A p \in 1..VkPresses : p # vkKey.press => vkBy'[p] = vkBy[p]
      BY <2>3 DEF VkTypeOK
    <3>5. vkBy'[vkKey.press] \in VkAnswers
      BY <3>2, <3>3 DEF VkAnswers
    <3>6. vkBy' \in [1..VkPresses -> VkAnswers]
      BY <2>3, <3>1, <3>5 DEF VkTypeOK
    <3>7. /\ vkPoll' \in [at : {"idle", "reset", "notified", "sampled", "pressed", "read"},
                          down : BOOLEAN, read : VkModes, armed : BOOLEAN,
                          quiet : 0..VkSuppress, told : 0..VkPresses]
          /\ ~vkPoll'.armed /\ vkPoll'.down = vkPoll.down /\ vkPoll'.told = vkPoll.told
      <4>1. VkSuppress \in 0..VkSuppress
        OBVIOUS
      <4>2. QED BY <2>3, <4>1 DEF VkTypeOK
    <3>8. VkTypeOK'
      BY <2>1, <3>6, <3>7 DEF VkTypeOK
    <3>9. \/ vkBy'[vkKey.press].rearmed \/ vkBy'[vkKey.press].slipped
          \/ vkBy'[vkKey.press].polls <= 1 /\ ~vkBy'[vkKey.press].told
      <4>1. CASE by.rearmed \/ by.slipped \/ ~vkKey.down
        <5> DEFINE now == vkBy'[vkKey.press]
        <5>1. now.rearmed = by.rearmed /\ now.slipped = (by.slipped \/ ~vkKey.down)
          BY <3>3
        <5> HIDE DEF now, by
        <5>2. now.rearmed \/ now.slipped
          BY <4>1, <5>1, Zenon
        <5>3. QED BY <5>2 DEF now
      <4>2. CASE ~by.rearmed /\ ~by.slipped /\ vkKey.down
        <5>1. vkPoll.armed
          BY <2>3, <4>2
        <5>2. ~(by.polls > 0) /\ vkPoll.told # vkKey.press
          BY <4>2, <5>1 DEF HeldDisarmed
        <5>3. by.polls = 0 /\ ~by.told
          BY <3>1, <3>2, <4>2, <5>2 DEF EventSilencesPoll, VkAnswers
        <5>4. QED BY <3>3, <5>2, <5>3
      <4>3. QED BY <4>1, <4>2
    <3>10. EventSilencesPoll'
      BY <3>4, <3>9 DEF EventSilencesPoll
    <3>11. HeldDisarmed'
      BY <3>7 DEF HeldDisarmed
    <3>12. QED
      BY <2>1, <3>1, <3>4, <3>7, <3>8, <3>10, <3>11 DEF VkTypeOK, OneReportPerChange
  <2>4. QED BY <1>11, <2>2, <2>3 DEF PollDecides
<1>12. CASE PollReads
  BY <1>12 DEF PollReads, VkTypeOK, EventSilencesPoll, OneReportPerChange, HeldDisarmed
<1>13. CASE PollToggles
  <2>1. vkMode' \in VkModes /\ vkSwaps' \in Nat /\ vkWon' \in Nat /\ OneReportPerChange'
    BY <1>13, SwitchStep DEF PollToggles, VkTypeOK
  <2>2. /\ vkPoll' = [vkPoll EXCEPT !.at = "idle"]
        /\ UNCHANGED <<vkKey, vkAsk, vkEvent, vkBy, vkResets>>
    BY <1>13 DEF PollToggles
  <2>3. VkTypeOK'
    BY <2>1, <2>2 DEF VkTypeOK
  <2>4. vkPoll'.armed = vkPoll.armed /\ vkPoll'.down = vkPoll.down /\ vkPoll'.told = vkPoll.told
    BY <2>2 DEF VkTypeOK
  <2>5. QED
    BY <2>1, <2>2, <2>3, <2>4 DEF EventSilencesPoll, HeldDisarmed
<1>14. QED
  BY <1>1, <1>2, <1>3, <1>4, <1>5, <1>6, <1>7, <1>8, <1>9, <1>10, <1>11, <1>12, <1>13
     DEF VkNext

(* From the moment the poller has taken the flag of the event for a press, *)
(* it leaves that press alone, and it answers none twice, unless a reset   *)
(* armed the held key or the key went up between its two reads; every      *)
(* change of the mode has one reporter; for any number of presses and      *)
(* resets and any time of suppression, the key bound or not, the event and *)
(* the reset at any step of a poll.                                        *)
THEOREM KeysAreAnsweredOnce ==
  ASSUME VkAssumption
  PROVE  VkSpec => []KeyIsAnsweredOnce
<1>1. KeysInv => KeyIsAnsweredOnce
  BY DEF KeysInv
<1>2. QED BY <1>1, KeysStart, KeysStep, PTL DEF VkSpec

=============================================================================
