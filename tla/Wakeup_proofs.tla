--------------------------- MODULE Wakeup_proofs ----------------------------
(***************************************************************************)
(* Proofs about the control plane, for any number of tabs and producers    *)
(* and any bounds: the types, that no wakeup request is forgotten while    *)
(* the wakeup thread sleeps, that the identity is published whole, and     *)
(* that the thread has ended before its event is closed.                   *)
(***************************************************************************)
EXTENDS Wakeup, TLAPS

PPCs == {"idle", "raised", "urgent", "pending", "signal"}

(* The part of the state the argument about requests needs.                *)
ReqInv == ppc \in [Producers -> PPCs] /\ SignalInv

(* Steps that leave the request and the producers alone and do not put the *)
(* wakeup thread to rest cannot disturb SignalInv.                         *)
LEMMA OtherSteps ==
  ASSUME ReqInv, UNCHANGED <<pending, event, handle, prod>>, AtRest' => AtRest
  PROVE  ReqInv'
BY DEF ReqInv, SignalInv, Signalling, prod

(* The callback thread requests and signals in one step, and closes last. *)
LEMMA CallbackStoreStep == ASSUME ReqInv, CallbackStore PROVE ReqInv'
<1>1. UNCHANGED <<thread, prod>> /\ (event => event')
  BY DEF CallbackStore
<1>2. handle' = "open" => handle = "open"
  BY DEF CallbackStore
<1>3. pending' => pending \/ event'
  BY DEF CallbackStore
<1>4. QED
  BY <1>1, <1>2, <1>3 DEF ReqInv, SignalInv, AtRest, Signalling, thread, prod

(* Steps of the requesting threads: the request is stored before it is     *)
(* signalled, and the requester stands between the two.                    *)
LEMMA ProducerSteps == ASSUME ReqInv, NEW p \in Producers, Request(p) PROVE ReqInv'
<1> USE DEF ReqInv, SignalInv, Signalling, AtRest, ProducerStep, thread, PPCs
<1>1. CASE CheckStop(p)
  BY <1>1 DEF CheckStop, request
<1>2. CASE SetUrgent(p)
  BY <1>2 DEF SetUrgent
<1>3. CASE SetPending(p)
  BY <1>3 DEF SetPending
<1>4. CASE Signal(p)
  BY <1>4 DEF Signal
<1>5. QED BY <1>1, <1>2, <1>3, <1>4 DEF Request

(* Steps of the wakeup thread: it goes to rest only after it consumed the  *)
(* request, signalled itself, or slept without an event.                   *)
LEMMA ThreadSteps == ASSUME ReqInv, WakeupThread PROVE ReqInv'
<1> USE DEF ThreadStep, AtRest, life, prod
<1>1. CASE Wake
  BY <1>1 DEF Wake, ReqInv, SignalInv, Signalling
<1>2. CASE LoopTop
  BY <1>2 DEF LoopTop, ReqInv, SignalInv, Signalling
<1>3. ASSUME NEW from, Retry(from) PROVE ReqInv'
  BY <1>3 DEF Retry, ReqInv, SignalInv, Signalling
<1>4. CASE Gate
  BY <1>3, <1>4, OtherSteps DEF Gate, Proceed, request
<1>5. CASE RateLimit
  BY <1>3, <1>5, OtherSteps DEF RateLimit, Proceed, request
<1>6. CASE Recheck
  BY <1>3, <1>6, OtherSteps DEF Recheck, Proceed, request
<1>7. CASE LoadConn
  BY <1>3, <1>7, OtherSteps DEF LoadConn, Proceed, request
<1>8. CASE LoadLocal
  BY <1>8, OtherSteps DEF LoadLocal, Proceed, request
<1>9. CASE Send
  BY <1>9, OtherSteps DEF Send, request
<1>10. CASE ClearPending
  BY <1>10 DEF ClearPending, ReqInv, SignalInv
<1>11. CASE ClearUrgent
  BY <1>11, OtherSteps DEF ClearUrgent
<1>12. QED
  BY <1>1, <1>2, <1>4, <1>5, <1>6, <1>7, <1>8, <1>9, <1>10, <1>11 DEF WakeupThread

(* Every step of the system keeps the request accounted for. *)
LEMMA RequestStep == ASSUME ReqInv, [Next]_vars PROVE ReqInv'
<1> USE DEF request, life, prod, thread, AtRest
<1>1. ASSUME NEW c \in Conns, TabLost(c) \/ TabEstablished(c) \/ UserSelectsTab(c)
      PROVE  ReqInv'
  BY <1>1, OtherSteps DEF TabLost, TabEstablished, UserSelectsTab
<1>2. CASE CurrentServerChanged
  BY <1>2, OtherSteps DEF CurrentServerChanged
<1>3. CASE Shutdown
  BY <1>3, OtherSteps DEF Shutdown
<1>4. ASSUME NEW c \in Conns, Deliver(c) PROVE ReqInv'
  BY <1>4, OtherSteps DEF Deliver
<1>5. CASE CallbackStore
  BY <1>5, CallbackStoreStep
<1>6. ASSUME NEW p \in Producers, NEW s \in Sources, Raise(p, s) PROVE ReqInv'
  BY <1>6 DEF Raise, ReqInv, SignalInv, Signalling, PPCs
<1>7. ASSUME NEW p \in Producers, Request(p) PROVE ReqInv'
  BY <1>7, ProducerSteps
<1>8. CASE PositionTick
  BY <1>8 DEF PositionTick, ReqInv, SignalInv, Signalling
<1>9. CASE WakeupThread
  BY <1>9, ThreadSteps
<1>10. CASE WindowOpens
  BY <1>10, OtherSteps DEF WindowOpens
<1>11. CASE RunAges
  BY <1>11, OtherSteps DEF RunAges
<1>12. CASE UNCHANGED vars
  BY <1>12, OtherSteps DEF vars
<1>13. QED
  BY <1>1, <1>2, <1>3, <1>4, <1>5, <1>6, <1>7, <1>8, <1>9, <1>10, <1>11, <1>12 DEF Next

(* Whatever the tabs, the producers and the clock do: while the event      *)
(* handle is open, the thread never sleeps on a pending request without    *)
(* its event set or a requester about to set it (ts3_request_wakeup,       *)
(* wakeup_thread).                                                         *)
THEOREM NoForgottenWake == Spec => []WakeNotForgotten
<1>1. Init => ReqInv
  BY DEF Init, ReqInv, SignalInv, PPCs
<1>2. ReqInv /\ [Next]_vars => ReqInv'
  BY RequestStep
<1>3. ReqInv => WakeNotForgotten
  BY DEF ReqInv, SignalInv, AtRest, WakeNotForgotten
<1>4. QED BY <1>1, <1>2, <1>3, PTL DEF Spec
-----------------------------------------------------------------------------
(* Types.  First the handlers: each is a sequence of well-formed stores.   *)

(* The operations a handler is made of. *)
LEMMA OpTypes ==
  /\ \A i \in Ids : Store("conn", i) \in Ops /\ Store("local", i) \in Ops
  /\ \A s \in Sources : Store("flush", s) \in Ops
  /\ \A x \in Calls : Do(x) \in Ops
BY DEF Ops, Store, Do

(* The fixed scripts of the callback thread. *)
LEMMA ScriptTypes ==
  /\ FlushOps \in Seq(Ops) /\ BootstrapOps \in Seq(Ops) /\ RewakeOps \in Seq(Ops)
  /\ StopOps \in Seq(Ops) /\ ClearIdentity \in Seq(Ops)
<1>1. \A x \in Calls : Do(x) \in Ops
  BY OpTypes
<1>2. Store("flush", "chat") \in Ops /\ Store("flush", "dirty") \in Ops
  BY OpTypes DEF Sources
<1>3. Store("local", None) \in Ops /\ Store("conn", None) \in Ops
  BY OpTypes DEF Ids
<1>4. QED
  BY <1>1, <1>2, <1>3
  DEF Calls, FlushOps, BootstrapOps, RewakeOps, StopOps, ClearIdentity

(* The scripts that publish an identity. *)
LEMMA IdentityScriptTypes ==
  ASSUME NEW c \in Conns, NEW k \in BOOLEAN
  PROVE  /\ EstablishIdentity(c, k) \in Seq(Ops)
         /\ SwitchIdentity(c, k) \in Seq(Ops)
<1>1. Do("down") \in Ops /\ Do("up") \in Ops /\ Do("epoch") \in Ops
  BY OpTypes DEF Calls
<1>2. /\ Store("local", None) \in Ops /\ Store("local", c) \in Ops
      /\ Store("conn", c) \in Ops
  BY OpTypes DEF Ids
<1>3. EstablishIdentity(c, k) \in Seq(Ops)
  BY <1>1, <1>2 DEF EstablishIdentity
<1>4. SwitchIdentity(c, k) \in Seq(Ops)
  BY <1>1, <1>2 DEF SwitchIdentity
<1>5. QED BY <1>3, <1>4

(* The decision logic of drain_target.h stays within its state.            *)
LEMMA DrainTypes ==
  ASSUME NEW d \in DrainState, NEW e \in BOOLEAN, NEW h \in BOOLEAN
  PROVE  /\ DrainReset \in DrainState
         /\ CloseRun(d) \in DrainState
         /\ DrainPoll(d, e) \in DrainState
         /\ DrainPick(d, e, h) \in DrainState
<1> USE MinSendsAssumption DEF DrainState, Modes
<1>1. DrainReset \in DrainState
  BY DEF DrainReset, Closed
<1>2. \A x \in DrainState : CloseRun(x) \in DrainState
  BY DEF CloseRun, Closed
<1>3. DrainPoll(d, e) \in DrainState
  BY <1>2 DEF DrainPoll
<1>4. DrainPick(d, e, h) \in DrainState
  <2> DEFINE p == DrainPoll(d, e)
  <2>1. p \in DrainState BY <1>3
  <2> HIDE DEF p
  <2>2. QED BY <2>1 DEF DrainPick, Closed, p
<1>5. QED BY <1>1, <1>2, <1>3, <1>4

(* Tab events queue well-formed scripts. *)
LEMMA TypeTabs ==
  ASSUME TypeOK, NEW c \in Conns, TabLost(c) \/ TabEstablished(c) \/ UserSelectsTab(c)
  PROVE  TypeOK'
<1> USE WakeupAssumption
        DEF TypeOK, world, identity, request, life, thread, prod
<1>1. CASE TabLost(c)
  <2>1. net' \in [Conns -> 0..NetCap]
    BY <1>1 DEF TabLost
  <2>2. cbTodo' \in Seq(Ops)
    <3>1. Do("epoch") \in Ops /\ Do("reset") \in Ops
      BY OpTypes DEF Calls
    <3>2. QED BY <1>1, <3>1, ScriptTypes DEF TabLost
  <2>3. QED BY <1>1, <2>1, <2>2 DEF TabLost
<1>2. CASE TabEstablished(c)
  <2>1. cbTodo' \in Seq(Ops)
    <3>1. PICK k \in BOOLEAN :
            cbTodo' = IF IgnoredConnect(c) THEN <<>>
                      ELSE EstablishIdentity(c, k) \o <<Do("reset")>> \o BootstrapOps
                             \o <<Do("clearChat")>>
      BY <1>2 DEF TabEstablished, GetClientId
    <3>2. Do("clearChat") \in Ops /\ Do("reset") \in Ops
      BY OpTypes DEF Calls
    <3>3. EstablishIdentity(c, k) \in Seq(Ops)
      BY IdentityScriptTypes
    <3>4. QED BY <3>1, <3>2, <3>3, ScriptTypes
  <2>2. QED BY <1>2, <2>1 DEF TabEstablished
<1>3. CASE UserSelectsTab(c)
  BY <1>3 DEF UserSelectsTab
<1>4. QED BY <1>1, <1>2, <1>3

(* The other handlers and the stores they make. *)
LEMMA TypeCallbacks ==
  ASSUME TypeOK,
         CurrentServerChanged \/ Shutdown \/ CallbackStore \/ \E c \in Conns : Deliver(c)
  PROVE  TypeOK'
<1> USE WakeupAssumption DEF TypeOK, world, identity, request, life, thread, prod
<1>1. CASE CurrentServerChanged
  <2>1. PICK k \in BOOLEAN :
          cbTodo' = IF visible = activeConn THEN <<>>
                    ELSE <<Do("reset")>> \o SwitchIdentity(visible, k)
                           \o (IF Up(visible) THEN BootstrapOps ELSE <<>>)
    BY <1>1 DEF CurrentServerChanged, GetClientId
  <2>2. Do("reset") \in Ops
    BY OpTypes DEF Calls
  <2>3. SwitchIdentity(visible, k) \in Seq(Ops)
    BY IdentityScriptTypes
  <2>4. cbTodo' \in Seq(Ops)
    BY <2>1, <2>2, <2>3, ScriptTypes
  <2>5. UNCHANGED <<tab, visible, tabEvents, env, net, identity, epochSeen, echoed,
                    windowOpen, backlog, request, life, thread, prod>>
    BY <1>1 DEF CurrentServerChanged
  <2>6. tabNote' \in BOOLEAN
    BY <1>1 DEF CurrentServerChanged
  <2>7. QED BY <2>4, <2>5, <2>6
<1>2. CASE Shutdown
  <2>1. Do("reset") \in Ops
    BY OpTypes DEF Calls
  <2>2. cbTodo' \in Seq(Ops)
    BY <1>2, <2>1, ScriptTypes DEF Shutdown
  <2>3. QED BY <1>2, <2>2 DEF Shutdown
<1>3. ASSUME NEW c \in Conns, Deliver(c) PROVE TypeOK'
  <2>1. cbTodo' \in Seq(Ops) /\ echoed' \in Echoes
    BY <1>3, ScriptTypes DEF Deliver, Echoes
  <2>2. net' \in [Conns -> 0..NetCap]
    BY <1>3 DEF Deliver
  <2>3. QED BY <1>3, <2>1, <2>2 DEF Deliver
<1>4. CASE CallbackStore
  <2> DEFINE o == Head(cbTodo)
  <2>1. o \in Ops /\ Tail(cbTodo) \in Seq(Ops)
    BY <1>4 DEF CallbackStore
  <2>2. cbTodo' \in Seq(Ops)
    BY <1>4, <2>1, ScriptTypes DEF CallbackStore
  <2>3. /\ o.op \in {"conn", "local"} => o.arg \in Ids
        /\ o.op = "flush" => o.arg \in Sources
    BY <2>1 DEF Ops, Calls
  <2>4. activeConn' \in Ids /\ localId' \in Ids
    BY <1>4, <2>3 DEF CallbackStore
  <2>5. backlog' \in [Sources -> 0..MaxBacklog]
    <3>1. \A s \in Sources : Flushed(s) \in 0..MaxBacklog
      BY DEF Flushed
    <3>2. "dirty" \in Sources /\ "chat" \in Sources
      BY DEF Sources
    <3>3. QED BY <1>4, <2>3, <3>1, <3>2 DEF CallbackStore
  <2>6. /\ connected' \in BOOLEAN /\ epochSeen' \in BOOLEAN /\ urgent' \in BOOLEAN
        /\ pending' \in BOOLEAN /\ event' \in BOOLEAN /\ stop' \in BOOLEAN
        /\ handle' \in {"open", "closed"}
    BY <1>4 DEF CallbackStore
  <2>7. UNCHANGED <<world, net, echoed, windowOpen, badSignal, thread, prod>>
    BY <1>4 DEF CallbackStore
  <2>8. QED BY <2>2, <2>4, <2>5, <2>6, <2>7
<1>5. QED BY <1>1, <1>2, <1>3, <1>4

(* Producers stay in their program. *)
LEMMA TypeProducers ==
  ASSUME TypeOK, NEW p \in Producers, Request(p) \/ \E s \in Sources : Raise(p, s)
  PROVE  TypeOK'
<1> USE WakeupAssumption DEF TypeOK, world, identity, request, thread, prod, ProducerStep
<1>1. ASSUME NEW s \in Sources, Raise(p, s) PROVE TypeOK'
  BY <1>1 DEF Raise, life
<1>2. CASE CheckStop(p)
  BY <1>2 DEF CheckStop
<1>3. CASE SetUrgent(p)
  BY <1>3 DEF SetUrgent
<1>4. CASE SetPending(p)
  BY <1>4 DEF SetPending
<1>5. CASE Signal(p)
  BY <1>5 DEF Signal
<1>6. QED BY <1>1, <1>2, <1>3, <1>4, <1>5 DEF Request

(* A step of the thread that leaves its data alone or only fills wconn.    *)
LEMMA TypeRetry == ASSUME TypeOK, NEW from, Retry(from) PROVE TypeOK'
BY DEF Retry, TypeOK, world, identity, request, life, prod, ThreadStep

(* A check of the wakeup thread that passes changes its place only. *)
LEMMA TypeProceed ==
  ASSUME TypeOK, NEW from, NEW to \in {"rate", "recheck", "conn", "local", "send"},
         Proceed(from, to), wconn' \in Ids, wlocal' \in Ids
  PROVE  TypeOK'
BY DEF Proceed, TypeOK, world, identity, request, life, prod, ThreadStep

(* The top of the loop leaves a well-formed probe. *)
LEMMA TypeLoopTop == ASSUME TypeOK, LoopTop PROVE TypeOK'
<1>1. drain' \in DrainState
  <2>1. drain \in DrainState /\ DrainReset \in DrainState
    BY DrainTypes DEF TypeOK
  <2>2. DrainPoll(drain, Echoed) \in DrainState /\ DrainPoll(DrainReset, Echoed) \in DrainState
    BY <2>1, DrainTypes DEF Echoed
  <2>3. drain' \in {drain, DrainReset, DrainPoll(drain, Echoed), DrainPoll(DrainReset, Echoed)}
    BY DEF LoopTop
  <2>4. QED BY <2>1, <2>2, <2>3
<1>2. /\ wpc' \in {"wait", "gate", "exited"}
      /\ epochSeen' \in BOOLEAN /\ pending' \in BOOLEAN
      /\ UNCHANGED <<world, identity, cbTodo, backlog, life, prod>>
      /\ timedOut' \in BOOLEAN
      /\ UNCHANGED <<net, echoed, windowOpen, urgent, event, wconn, wlocal>>
  BY DEF LoopTop, ThreadStep, TypeOK
<1>3. QED BY <1>1, <1>2 DEF TypeOK, world, identity, life, prod

(* A send picks a target and keeps the number of commands in its bound. *)
LEMMA TypeSend == ASSUME TypeOK, Send PROVE TypeOK'
<1>1. drain' \in DrainState
  BY DrainTypes DEF Send, Echoed, TypeOK
<1>2. echoed' \in Echoes
  BY DEF Send, Echoes, TypeOK
<1>3. net' \in [Conns -> 0..NetCap]
  <2>1. net' = net \/ (net[wconn] < NetCap /\ net' = [net EXCEPT ![wconn] = @ + 1])
    BY DEF Send
  <2>2. CASE wconn \in Conns
    BY <2>1, <2>2, WakeupAssumption DEF TypeOK
  <2>3. CASE wconn \notin Conns
    BY <2>1, <2>3 DEF TypeOK
  <2>4. QED BY <2>2, <2>3
<1>4. /\ wpc' = "clear" /\ windowOpen' = FALSE
      /\ UNCHANGED <<world, identity, cbTodo, backlog, life, prod>>
      /\ UNCHANGED <<epochSeen, request, wconn, wlocal, timedOut>>
  BY DEF Send, ThreadStep
<1>5. QED BY <1>1, <1>2, <1>3, <1>4 DEF TypeOK, world, identity, request, life, prod

(* Every step of the wakeup thread. *)
LEMMA TypeThread == ASSUME TypeOK, WakeupThread PROVE TypeOK'
<1>1. /\ wconn \in Ids /\ wlocal \in Ids /\ activeConn \in Ids /\ localId \in Ids
  BY DEF TypeOK
<1>2. CASE Wake
  <2>1. wpc' = "top" /\ timedOut' \in BOOLEAN /\ event' \in BOOLEAN
    BY <1>2 DEF Wake, ThreadStep
  <2>2. /\ UNCHANGED <<world, identity, cbTodo, backlog, life, prod>>
        /\ UNCHANGED <<net, epochSeen, echoed, windowOpen, pending, urgent, wconn, wlocal, drain>>
    BY <1>2 DEF Wake, ThreadStep
  <2>3. QED BY <2>1, <2>2 DEF TypeOK, world, identity, life, prod
<1>3. CASE Gate \/ RateLimit \/ Recheck
  BY <1>1, <1>3, TypeRetry, TypeProceed DEF Gate, RateLimit, Recheck
<1>4. CASE LoadConn \/ LoadLocal
  BY <1>1, <1>4, TypeRetry, TypeProceed DEF LoadConn, LoadLocal
<1>5. CASE ClearPending
  BY <1>5 DEF ClearPending, TypeOK, world, identity, life, prod, ThreadStep
<1>6. CASE ClearUrgent
  <2>1. wpc' = "wait" /\ urgent' \in BOOLEAN /\ wconn' \in Ids /\ wlocal' \in Ids
    BY <1>6 DEF ClearUrgent, ThreadStep, Ids
  <2>2. /\ UNCHANGED <<world, identity, cbTodo, backlog, life, prod>>
        /\ UNCHANGED <<net, epochSeen, echoed, windowOpen, pending, event, timedOut, drain>>
    BY <1>6 DEF ClearUrgent, ThreadStep
  <2>3. QED BY <2>1, <2>2 DEF TypeOK, world, identity, life, prod
<1>7. QED
  BY <1>2, <1>3, <1>4, <1>5, <1>6, TypeLoopTop, TypeSend DEF WakeupThread

(* The variables keep their types; among them the scripts of the callback  *)
(* thread, which are built and consumed one store at a time.               *)
THEOREM TypeCorrect == Spec => []TypeOK
<1> USE WakeupAssumption DEF TypeOK, world, identity, request, life, thread, prod
<1>1. Init => TypeOK
  <2>1. DrainReset \in DrainState
    BY MinSendsAssumption DEF DrainReset, Closed, DrainState, Modes
  <2> SUFFICES ASSUME Init PROVE TypeOK
    OBVIOUS
  <2>2. /\ tabNote \in BOOLEAN /\ connected \in BOOLEAN /\ timedOut \in BOOLEAN
        /\ epochSeen \in BOOLEAN /\ windowOpen \in BOOLEAN /\ pending \in BOOLEAN
        /\ urgent \in BOOLEAN /\ event \in BOOLEAN /\ stop \in BOOLEAN /\ badSignal \in BOOLEAN
    BY DEF Init
  <2>3. /\ tab \in [Conns -> {"never", "up", "lost"}] /\ visible \in Conns
        /\ tabEvents \in 0..MaxTabEvents /\ net \in [Conns -> 0..NetCap]
        /\ env \in [echo : SelfEcho, named : BOOLEAN]
    BY DEF Init
  <2>4. /\ activeConn \in Ids /\ localId \in Ids /\ wconn \in Ids /\ wlocal \in Ids
        /\ echoed \in Echoes /\ handle = "open" /\ wpc = "wait" /\ drain \in DrainState
    BY <2>1 DEF Init, Ids, Echoes
  <2>5. /\ cbTodo \in Seq(Ops) /\ backlog \in [Sources -> 0..MaxBacklog]
        /\ ppc \in [Producers -> {"idle", "raised", "urgent", "pending", "signal"}]
        /\ psrc \in [Producers -> Sources]
    BY DEF Init, Sources
  <2>6. QED BY <2>2, <2>3, <2>4, <2>5
<1>2. TypeOK /\ [Next]_vars => TypeOK'
  <2> SUFFICES ASSUME TypeOK, [Next]_vars PROVE TypeOK'
    OBVIOUS
  <2>1. CASE PositionTick
    BY <2>1 DEF PositionTick
  <2>2. CASE WindowOpens
    BY <2>2 DEF WindowOpens, Echoes
  <2>3. CASE RunAges
    <3>1. drain' \in DrainState
      BY <2>3 DEF RunAges, DrainState
    <3>2. QED BY <2>3, <3>1 DEF RunAges, Echoes
  <2>4. CASE UNCHANGED vars
    BY <2>4 DEF vars
  <2>5. QED
    BY <2>1, <2>2, <2>3, <2>4, TypeTabs, TypeCallbacks, TypeProducers, TypeThread DEF Next
<1>3. QED BY <1>1, <1>2, PTL DEF Spec
-----------------------------------------------------------------------------
(* The handlers of the callback thread.  A handler is the sequence of the  *)
(* stores it still has to make; the two theorems below say of that         *)
(* sequence where a store may stand relative to the others, which is what  *)
(* every prefix of it leaves true.                                         *)

(* A store of op comes before the i-th.                                    *)
Earlier(i, op) == \E j \in 1..i-1 : cbTodo[j].op = op

(* A connected identity is taken down before an id is stored.              *)
DownFirst ==
  connected => \A i \in 1..Len(cbTodo) :
                 cbTodo[i].op \in {"conn", "local"} => Earlier(i, "down")

(* No id is stored after the identity was put up.                          *)
UpLast ==
  \A i, j \in 1..Len(cbTodo) :
    cbTodo[i].op = "up" /\ i < j => cbTodo[j].op \notin {"conn", "local"}

(* Before it is put up, both ids of tab c are in place or will be, and no  *)
(* other id stays.                                                         *)
ReadyFor(c, i) ==
  /\ activeConn = c \/ \E j \in 1..i-1 : cbTodo[j] = Store("conn", c)
  /\ \A j \in 1..i-1 : cbTodo[j].op = "conn" => cbTodo[j].arg = c
  /\ localId = c \/ \E j \in 1..i-1 : cbTodo[j] = Store("local", c)
  /\ \A j \in 1..i-1 : cbTodo[j].op = "local" /\ cbTodo[j].arg # c =>
                         \E k \in j+1..i-1 : cbTodo[k] = Store("local", c)
UpReady ==
  \A i \in 1..Len(cbTodo) : cbTodo[i].op = "up" => \E c \in Conns : ReadyFor(c, i)

IdentityInv == PublishedIdentity /\ DownFirst /\ UpLast /\ UpReady

(* What a shutdown has still to do.                                        *)
WillClose == \E i \in 1..Len(cbTodo) : cbTodo[i].op = "close"
StopInv ==
  /\ stop /\ handle = "open" => WillClose
  /\ \A i \in 1..Len(cbTodo) : cbTodo[i].op = "stop" =>
       \E j \in i+1..Len(cbTodo) : cbTodo[j].op = "close"
  /\ \A i \in 1..Len(cbTodo) : cbTodo[i].op = "close" => wpc = "exited" \/ Earlier(i, "join")
  /\ handle = "closed" => wpc = "exited"

(* The elements of the scripts that store an id.                           *)
LEMMA EstablishScript ==
  ASSUME NEW c \in Conns, NEW s,
         s = EstablishIdentity(c, TRUE) \o <<Do("reset")>> \o BootstrapOps
               \o <<Do("clearChat")>>
  PROVE  /\ Len(s) = 9
         /\ s[1] = Do("down") /\ s[2] = Store("conn", c) /\ s[3] = Store("local", c)
         /\ s[4] = Do("up")
         /\ \A i \in 5..9 : s[i].op \in {"epoch", "reset", "announce", "request", "clearChat"}
BY DEF EstablishIdentity, BootstrapOps, Do, Store

LEMMA SwitchScript ==
  ASSUME NEW c \in Conns, NEW s,
         s = <<Do("reset")>> \o SwitchIdentity(c, TRUE)
               \o (IF Up(c) THEN BootstrapOps ELSE <<>>)
  PROVE  /\ s[1] = Do("reset") /\ s[2] = Do("down")
         /\ s[3] = Store("local", None) /\ s[4] = Store("conn", c)
         /\ IF Up(c)
            THEN /\ Len(s) = 9 /\ s[5] = Store("local", c) /\ s[6] = Do("up")
                 /\ \A i \in 7..9 : s[i].op \in {"epoch", "announce", "request"}
            ELSE Len(s) = 5 /\ s[5] = Do("epoch")
<1>1. CASE Up(c)
  BY <1>1 DEF SwitchIdentity, BootstrapOps, Do, Store
<1>2. CASE ~Up(c)
  BY <1>2 DEF SwitchIdentity, BootstrapOps, Do, Store
<1>3. QED BY <1>1, <1>2

LEMMA LostScript ==
  ASSUME NEW s, s = ClearIdentity \o <<Do("epoch"), Do("reset")>>
  PROVE  /\ Len(s) = 5 /\ s[1] = Do("down")
         /\ s[2] = Store("local", None) /\ s[3] = Store("conn", None)
         /\ s[4] = Do("epoch") /\ s[5] = Do("reset")
BY DEF ClearIdentity, Do, Store

LEMMA ShutdownScript ==
  ASSUME NEW s, s = <<Do("reset")>> \o StopOps \o ClearIdentity
  PROVE  /\ Len(s) = 8 /\ s[1] = Do("reset") /\ s[2] = Do("stop") /\ s[3] = Do("signal")
         /\ s[4] = Do("join") /\ s[5] = Do("close") /\ s[6] = Do("down")
         /\ s[7] = Store("local", None) /\ s[8] = Store("conn", None)
BY DEF StopOps, ClearIdentity, Do, Store

(* Handlers that store no id can begin whatever the identity is.           *)
LEMMA PlainHandler ==
  ASSUME IdentityInv, UNCHANGED identity,
         \A i \in 1..Len(cbTodo') : cbTodo'[i].op \notin {"conn", "local", "up"}
  PROVE  IdentityInv'
BY DEF IdentityInv, PublishedIdentity, DownFirst, UpLast, UpReady, identity

(* The handlers of tab events and of the shutdown take the identity down   *)
(* before they store an id, and put it up, if at all, after both.          *)
LEMMA IdentityTabs ==
  ASSUME ~IdMayFail, TypeOK, IdentityInv, NEW c \in Conns,
         TabLost(c) \/ TabEstablished(c) \/ UserSelectsTab(c)
  PROVE  IdentityInv'
<1> USE DEF IdentityInv, PublishedIdentity, identity
<1>1. CASE TabLost(c)
  <2>1. CASE IgnoredDisconnect(c)
    BY <1>1, <2>1, PlainHandler DEF TabLost
  <2>2. CASE ~IgnoredDisconnect(c)
    <3>1. cbTodo' = ClearIdentity \o <<Do("epoch"), Do("reset")>> /\ UNCHANGED identity
      BY <1>1, <2>2 DEF TabLost
    <3>2. /\ Len(cbTodo') = 5 /\ cbTodo'[1] = Do("down")
          /\ cbTodo'[2] = Store("local", None) /\ cbTodo'[3] = Store("conn", None)
          /\ cbTodo'[4] = Do("epoch") /\ cbTodo'[5] = Do("reset")
      BY <3>1, LostScript
    <3>3. DownFirst'
      BY <3>2 DEF DownFirst, Earlier, Do, Store
    <3>4. UpLast' /\ UpReady'
      BY <3>2 DEF UpLast, UpReady, Do, Store
    <3>5. QED BY <3>1, <3>3, <3>4
  <2>3. QED BY <2>1, <2>2
<1>2. CASE TabEstablished(c)
  <2>1. CASE IgnoredConnect(c)
    BY <1>2, <2>1, PlainHandler DEF TabEstablished
  <2>2. CASE ~IgnoredConnect(c)
    <3>1. /\ cbTodo' = EstablishIdentity(c, TRUE) \o <<Do("reset")>> \o BootstrapOps
                         \o <<Do("clearChat")>>
          /\ UNCHANGED identity
      BY <1>2, <2>2 DEF TabEstablished, GetClientId
    <3>2. /\ Len(cbTodo') = 9
          /\ cbTodo'[1] = Do("down") /\ cbTodo'[2] = Store("conn", c)
          /\ cbTodo'[3] = Store("local", c) /\ cbTodo'[4] = Do("up")
          /\ \A i \in 5..9 :
               cbTodo'[i].op \in {"epoch", "reset", "announce", "request", "clearChat"}
      BY <3>1, EstablishScript
    <3>3. DownFirst'
      BY <3>2 DEF DownFirst, Earlier, Do, Store
    <3>4. UpLast'
      BY <3>2 DEF UpLast, Do, Store
    <3>5. UpReady'
      <4>1. ReadyFor(c, 4)'
        BY <3>2 DEF ReadyFor, Do, Store
      <4>2. \A i \in 1..Len(cbTodo') : cbTodo'[i].op = "up" => i = 4
        BY <3>2 DEF Do, Store
      <4>3. QED BY <4>1, <4>2 DEF UpReady
    <3>6. QED BY <3>1, <3>3, <3>4, <3>5
  <2>3. QED BY <2>1, <2>2
<1>3. CASE UserSelectsTab(c)
  BY <1>3 DEF UserSelectsTab, DownFirst, Earlier, UpLast, UpReady, ReadyFor
<1>4. QED BY <1>1, <1>2, <1>3

LEMMA IdentityHandlers ==
  ASSUME ~IdMayFail, TypeOK, IdentityInv,
         CurrentServerChanged \/ Shutdown \/ \E c \in Conns : Deliver(c)
  PROVE  IdentityInv'
<1> USE DEF IdentityInv, PublishedIdentity, identity
<1>1. CASE CurrentServerChanged
  <2>1. CASE visible = activeConn
    BY <1>1, <2>1, PlainHandler DEF CurrentServerChanged
  <2>2. CASE visible # activeConn
    <3>0. PICK c \in Conns : c = visible
      BY DEF TypeOK
    <3>1. /\ cbTodo' = <<Do("reset")>> \o SwitchIdentity(c, TRUE)
                         \o (IF Up(c) THEN BootstrapOps ELSE <<>>)
          /\ UNCHANGED identity
      BY <1>1, <2>2, <3>0 DEF CurrentServerChanged, GetClientId
    <3>2. /\ cbTodo'[1] = Do("reset") /\ cbTodo'[2] = Do("down")
          /\ cbTodo'[3] = Store("local", None) /\ cbTodo'[4] = Store("conn", c)
          /\ IF Up(c)
             THEN /\ Len(cbTodo') = 9 /\ cbTodo'[5] = Store("local", c)
                  /\ cbTodo'[6] = Do("up")
                  /\ \A i \in 7..9 : cbTodo'[i].op \in {"epoch", "announce", "request"}
             ELSE Len(cbTodo') = 5 /\ cbTodo'[5] = Do("epoch")
      BY <3>1, SwitchScript
    <3>3. DownFirst'
      BY <3>2 DEF DownFirst, Earlier, Do, Store
    <3>5. CASE Up(c)
      <4>1. /\ Len(cbTodo') = 9 /\ cbTodo'[5] = Store("local", c)
            /\ \A i \in 1..9 : /\ cbTodo'[i].op = "up" => i = 6
                               /\ cbTodo'[i].op = "conn" => i = 4
                               /\ cbTodo'[i].op = "local" => i \in {3, 5}
        BY <3>2, <3>5 DEF Do, Store
      <4>2. ReadyFor(c, 6)'
        <5>1. 4 \in 1..5 /\ cbTodo'[4] = Store("conn", c)
          BY <3>2
        <5>2. \A j \in 1..5 : cbTodo'[j].op = "conn" => cbTodo'[j].arg = c
          BY <4>1, <5>1 DEF Store
        <5>3. 5 \in 1..5 /\ \A j \in 1..5 : cbTodo'[j].op = "local" => j = 5 \/ 5 \in j+1..5
          BY <4>1
        <5>4. QED BY <4>1, <5>1, <5>2, <5>3 DEF ReadyFor, Store
      <4>3. UpReady'
        BY <3>1, <4>1, <4>2 DEF UpReady
      <4>4. UpLast'
        BY <4>1 DEF UpLast
      <4>5. QED BY <3>1, <3>3, <4>3, <4>4
    <3>6. CASE ~Up(c)
      <4>0. Len(cbTodo') = 5 /\ cbTodo'[5] = Do("epoch")
        BY <3>2, <3>6
      <4>1. \A i \in 1..Len(cbTodo') : cbTodo'[i].op # "up"
        BY <3>2, <4>0 DEF Do, Store
      <4>2. UpReady'
        BY <4>1 DEF UpReady
      <4>3. UpLast'
        BY <4>1 DEF UpLast
      <4>4. QED BY <3>1, <3>3, <4>2, <4>3
    <3>7. QED BY <3>5, <3>6
  <2>3. QED BY <2>1, <2>2
<1>2. CASE Shutdown
  <2>1. cbTodo' = <<Do("reset")>> \o StopOps \o ClearIdentity /\ UNCHANGED identity
    BY <1>2 DEF Shutdown
  <2>2. /\ Len(cbTodo') = 8 /\ cbTodo'[6] = Do("down")
        /\ cbTodo'[1] = Do("reset") /\ cbTodo'[2] = Do("stop") /\ cbTodo'[3] = Do("signal")
        /\ cbTodo'[4] = Do("join") /\ cbTodo'[5] = Do("close")
        /\ cbTodo'[7] = Store("local", None) /\ cbTodo'[8] = Store("conn", None)
    BY <2>1, ShutdownScript
  <2>3. DownFirst'
    BY <2>2 DEF DownFirst, Earlier, Do, Store
  <2>4. UpLast' /\ UpReady'
    BY <2>2 DEF UpLast, UpReady, Do, Store
  <2>5. QED BY <2>1, <2>3, <2>4
<1>3. ASSUME NEW c \in Conns, Deliver(c) PROVE IdentityInv'
  <2>1. cbTodo' = FlushOps \/ cbTodo' = <<>>
    BY <1>3 DEF Deliver
  <2>2. \A i \in 1..Len(cbTodo') : cbTodo'[i].op \notin {"conn", "local", "up"}
    BY <2>1 DEF FlushOps, Do, Store
  <2>3. QED BY <1>3, <2>2, PlainHandler DEF Deliver
<1>4. QED BY <1>1, <1>2, <1>3

(* What is left of a script after its next store: the tail, or the script  *)
(* with a request in the place of "rewake".                                *)
LEMMA ScriptAdvances ==
  ASSUME TypeOK, CallbackStore
  PROVE  /\ cbTodo \in Seq(Ops) /\ Len(cbTodo) > 0
         /\ \/ /\ Len(cbTodo') = Len(cbTodo) - 1
               /\ \A i \in 1..Len(cbTodo') : cbTodo'[i] = cbTodo[i+1]
            \/ /\ Len(cbTodo') = Len(cbTodo) /\ cbTodo[1].op = "rewake"
               /\ cbTodo'[1].op \in {"urgent", "request"}
               /\ \A i \in 2..Len(cbTodo') : cbTodo'[i] = cbTodo[i]
<1>1. cbTodo \in Seq(Ops) /\ Len(cbTodo) > 0 /\ Head(cbTodo) = cbTodo[1]
  BY DEF CallbackStore, TypeOK
<1>2. CASE cbTodo' = Tail(cbTodo)
  BY <1>1, <1>2
<1>3. CASE cbTodo[1].op = "rewake" /\ cbTodo' = RewakeOps \o Tail(cbTodo)
  <2>1. RewakeOps \in {<<Do("urgent")>>, <<Do("request")>>, <<>>}
    BY DEF RewakeOps
  <2>2. Do("urgent") \in Ops /\ Do("request") \in Ops
    BY OpTypes DEF Calls
  <2>3. CASE RewakeOps = <<>>
    BY <1>1, <1>3, <2>3
  <2>4. CASE RewakeOps = <<Do("urgent")>>
    BY <1>1, <1>3, <2>2, <2>4 DEF Do
  <2>5. CASE RewakeOps = <<Do("request")>>
    BY <1>1, <1>3, <2>2, <2>5 DEF Do
  <2>6. QED BY <2>1, <2>3, <2>4, <2>5
<1>4. QED BY <1>1, <1>2, <1>3 DEF CallbackStore

(* The next store keeps the order: an id replaces another only while the   *)
(* identity is down, and the identity is put up on the ids that are in     *)
(* place by then.                                                          *)
LEMMA IdentityStore ==
  ASSUME TypeOK, IdentityInv, CallbackStore
  PROVE  IdentityInv'
<1> DEFINE o == cbTodo[1]
<1>1. /\ Len(cbTodo) > 0
      /\ connected' = IF o.op \in {"down", "up"} THEN o.op = "up" ELSE connected
      /\ activeConn' = IF o.op = "conn" THEN o.arg ELSE activeConn
      /\ localId' = IF o.op = "local" THEN o.arg ELSE localId
  BY ScriptAdvances DEF CallbackStore
<1> HIDE DEF o
<1>2. /\ o = cbTodo[1] /\ Len(cbTodo) \in Nat /\ Len(cbTodo') \in Nat
      /\ \A i \in 1..Len(cbTodo) : cbTodo[i] \in Ops
  BY ScriptAdvances DEF o
<1>3. PublishedIdentity'
  <2>1. CASE o.op = "up"
    <3>1. PICK c \in Conns : ReadyFor(c, 1)
      BY <1>1, <1>2, <2>1 DEF IdentityInv, UpReady
    <3>2. activeConn = c /\ localId = c
      BY <3>1 DEF ReadyFor
    <3>3. QED BY <1>1, <2>1, <3>2, WakeupAssumption DEF PublishedIdentity
  <2>2. CASE o.op \in {"conn", "local"}
    <3>1. ~connected
      BY <1>1, <1>2, <2>2 DEF IdentityInv, DownFirst, Earlier
    <3>2. QED BY <1>1, <2>2, <3>1 DEF PublishedIdentity
  <2>3. CASE o.op \notin {"up", "conn", "local"}
    BY <1>1, <2>3 DEF IdentityInv, PublishedIdentity
  <2>4. QED BY <2>1, <2>2, <2>3
<1>4. CASE /\ Len(cbTodo') = Len(cbTodo) - 1
           /\ \A i \in 1..Len(cbTodo') : cbTodo'[i] = cbTodo[i+1]
  <2>1. DownFirst'
    <3> SUFFICES ASSUME connected', NEW i \in 1..Len(cbTodo'),
                        cbTodo'[i].op \in {"conn", "local"}
                 PROVE  Earlier(i, "down")'
      BY DEF DownFirst
    <3>1. i + 1 \in 1..Len(cbTodo) /\ cbTodo[i+1].op \in {"conn", "local"}
      BY <1>2, <1>4
    <3>2. o.op # "up"
      BY <1>1, <1>2, <3>1 DEF IdentityInv, UpLast
    <3>3. connected /\ o.op # "down"
      BY <1>1, <3>2
    <3>4. PICK j \in 1..i : cbTodo[j].op = "down"
      BY <3>1, <3>3 DEF IdentityInv, DownFirst, Earlier
    <3>5. j # 1 /\ j - 1 \in 1..i-1 /\ cbTodo'[j-1] = cbTodo[j]
      BY <1>2, <1>4, <3>3, <3>4
    <3>6. QED BY <3>4, <3>5 DEF Earlier
  <2>2. UpLast'
    <3> SUFFICES ASSUME NEW i \in 1..Len(cbTodo'), NEW j \in 1..Len(cbTodo'),
                        cbTodo'[i].op = "up", i < j
                 PROVE  cbTodo'[j].op \notin {"conn", "local"}
      BY DEF UpLast
    <3>1. /\ i + 1 \in 1..Len(cbTodo) /\ j + 1 \in 1..Len(cbTodo) /\ i + 1 < j + 1
          /\ cbTodo[i+1] = cbTodo'[i] /\ cbTodo[j+1] = cbTodo'[j]
      BY <1>2, <1>4
    <3>2. QED BY <3>1 DEF IdentityInv, UpLast
  <2>3. UpReady'
    <3> SUFFICES ASSUME NEW i \in 1..Len(cbTodo'), cbTodo'[i].op = "up"
                 PROVE  \E c \in Conns : ReadyFor(c, i)'
      BY DEF UpReady
    <3>1. i + 1 \in 1..Len(cbTodo) /\ cbTodo[i+1].op = "up"
      BY <1>2, <1>4
    <3>2. PICK c \in Conns : ReadyFor(c, i+1)
      BY <3>1 DEF IdentityInv, UpReady
    <3>3. \A j \in 1..i : cbTodo[j].op = "conn" => cbTodo[j].arg = c
      BY <3>2 DEF ReadyFor
    <3>4. \A j \in 2..i : j - 1 \in 1..i-1 /\ cbTodo'[j-1] = cbTodo[j]
      BY <1>2, <1>4, <3>1
    <3>5. activeConn' = c \/ \E j \in 1..i-1 : cbTodo'[j] = Store("conn", c)
      <4>1. CASE activeConn = c
        BY <1>1, <1>2, <3>3, <4>1
      <4>2. ASSUME NEW j \in 1..i, cbTodo[j] = Store("conn", c)
            PROVE  activeConn' = c \/ \E k \in 1..i-1 : cbTodo'[k] = Store("conn", c)
        <5>1. CASE j = 1
          BY <1>1, <1>2, <4>2, <5>1 DEF Store
        <5>2. CASE j # 1
          <6>1. j - 1 \in 1..i-1 /\ cbTodo'[j-1] = Store("conn", c)
            BY <3>4, <4>2, <5>2
          <6>2. QED BY <6>1
        <5>3. QED BY <5>1, <5>2
      <4>3. QED BY <3>2, <4>1, <4>2 DEF ReadyFor
    <3>6. \A j \in 1..i-1 : /\ j + 1 \in 1..i /\ cbTodo'[j] = cbTodo[j+1]
      BY <1>2, <1>4
    <3>7. \A j \in 1..i-1 : cbTodo'[j].op = "conn" => cbTodo'[j].arg = c
      BY <3>3, <3>6
    <3>8. \A j \in 1..i : cbTodo[j].op = "local" /\ cbTodo[j].arg # c =>
                            \E k \in j+1..i : cbTodo[k] = Store("local", c)
      BY <3>2 DEF ReadyFor
    <3>9. localId' = c \/ \E j \in 1..i-1 : cbTodo'[j] = Store("local", c)
      <4>1. CASE o.op = "local"
        <5>1. CASE o.arg = c
          BY <1>1, <4>1, <5>1
        <5>2. CASE o.arg # c
          <6>1. PICK k \in 2..i : cbTodo[k] = Store("local", c)
            BY <1>2, <3>8, <4>1, <5>2
          <6>2. QED BY <3>4, <6>1
        <5>3. QED BY <5>1, <5>2
      <4>2. CASE o.op # "local"
        <5>1. CASE localId = c
          BY <1>1, <4>2, <5>1
        <5>2. ASSUME NEW j \in 1..i, cbTodo[j] = Store("local", c)
              PROVE  \E k \in 1..i-1 : cbTodo'[k] = Store("local", c)
          <6>1. j # 1
            BY <1>2, <4>2, <5>2 DEF Store
          <6>2. QED BY <3>4, <5>2, <6>1
        <5>3. QED BY <3>2, <5>1, <5>2 DEF ReadyFor
      <4>3. QED BY <4>1, <4>2
    <3>10. ASSUME NEW j \in 1..i-1, cbTodo'[j].op = "local", cbTodo'[j].arg # c
           PROVE  \E k \in j+1..i-1 : cbTodo'[k] = Store("local", c)
      <4>1. PICK k \in j+2..i : cbTodo[k] = Store("local", c)
        BY <3>6, <3>8, <3>10
      <4>2. k - 1 \in j+1..i-1 /\ cbTodo'[k-1] = Store("local", c)
        BY <3>4, <4>1
      <4>3. QED BY <4>2
    <3>11. ReadyFor(c, i)'
      BY <3>5, <3>7, <3>9, <3>10 DEF ReadyFor
    <3>12. QED BY <3>11
  <2>4. QED BY <1>3, <2>1, <2>2, <2>3 DEF IdentityInv
<1>5. CASE /\ Len(cbTodo') = Len(cbTodo) /\ o.op = "rewake"
           /\ cbTodo'[1].op \in {"urgent", "request"}
           /\ \A i \in 2..Len(cbTodo') : cbTodo'[i] = cbTodo[i]
  <2>1. UNCHANGED identity
    BY <1>1, <1>5 DEF identity
  <2>2. \A i \in 1..Len(cbTodo) :
          i = 1 \/ (cbTodo'[i] = cbTodo[i] /\ i \in 2..Len(cbTodo))
    BY <1>2, <1>5
  <2>3. DownFirst'
    <3> SUFFICES ASSUME connected', NEW i \in 1..Len(cbTodo'),
                        cbTodo'[i].op \in {"conn", "local"}
                 PROVE  Earlier(i, "down")'
      BY DEF DownFirst
    <3>1. cbTodo[i].op \in {"conn", "local"} /\ connected /\ i \in 1..Len(cbTodo)
      BY <1>5, <2>1, <2>2 DEF identity
    <3>2. PICK j \in 1..i-1 : cbTodo[j].op = "down"
      BY <3>1 DEF IdentityInv, DownFirst, Earlier
    <3>3. j # 1 /\ cbTodo'[j] = cbTodo[j]
      BY <1>2, <1>5, <2>2, <3>1, <3>2
    <3>4. QED BY <3>2, <3>3 DEF Earlier
  <2>4. UpLast'
    BY <1>2, <1>5, <2>2 DEF IdentityInv, UpLast
  <2>5. UpReady'
    <3> SUFFICES ASSUME NEW i \in 1..Len(cbTodo'), cbTodo'[i].op = "up"
                 PROVE  \E c \in Conns : ReadyFor(c, i)'
      BY DEF UpReady
    <3>1. cbTodo[i].op = "up" /\ i \in 1..Len(cbTodo)
      BY <1>5, <2>2
    <3>2. PICK c \in Conns : ReadyFor(c, i)
      BY <3>1 DEF IdentityInv, UpReady
    <3>3. \A j \in 1..i-1 : \/ /\ j = 1 /\ cbTodo[j].op = "rewake"
                               /\ cbTodo'[j].op \in {"urgent", "request"}
                            \/ cbTodo'[j] = cbTodo[j]
      BY <1>2, <1>5, <2>2, <3>1
    <3>4. \A j \in 1..i-1 : \A x \in {Store("conn", c), Store("local", c)} :
            cbTodo[j] = x => cbTodo'[j] = x
      BY <3>3 DEF Store
    <3>5. /\ activeConn' = c \/ \E j \in 1..i-1 : cbTodo'[j] = Store("conn", c)
          /\ localId' = c \/ \E j \in 1..i-1 : cbTodo'[j] = Store("local", c)
      BY <2>1, <3>2, <3>4 DEF ReadyFor, identity
    <3>6. \A j \in 1..i-1 : cbTodo'[j].op = "conn" => cbTodo'[j].arg = c
      BY <3>2, <3>3 DEF ReadyFor
    <3>7. ASSUME NEW j \in 1..i-1, cbTodo'[j].op = "local", cbTodo'[j].arg # c
          PROVE  \E k \in j+1..i-1 : cbTodo'[k] = Store("local", c)
      <4>1. PICK k \in j+1..i-1 : cbTodo[k] = Store("local", c)
        BY <3>2, <3>3, <3>7 DEF ReadyFor
      <4>2. cbTodo'[k] = Store("local", c)
        BY <3>4, <4>1
      <4>3. QED BY <4>2
    <3>8. ReadyFor(c, i)'
      BY <3>5, <3>6, <3>7 DEF ReadyFor
    <3>9. QED BY <3>8
  <2>6. QED BY <1>3, <2>3, <2>4, <2>5 DEF IdentityInv
<1>6. QED BY <1>4, <1>5, ScriptAdvances DEF o

(* Every step of the system, while the ids can be read.                    *)
LEMMA IdentityStep ==
  ASSUME ~IdMayFail, TypeOK, IdentityInv, [Next]_vars
  PROVE  IdentityInv'
<1>1. CASE UNCHANGED <<identity, cbTodo>>
  BY <1>1 DEF IdentityInv, PublishedIdentity, DownFirst, Earlier, UpLast, UpReady, ReadyFor,
              identity
<1>2. ASSUME NEW p \in Producers, NEW s \in Sources, Raise(p, s)
      PROVE  UNCHANGED <<identity, cbTodo>>
  BY <1>2 DEF Raise
<1>3. ASSUME NEW p \in Producers, Request(p) PROVE UNCHANGED <<identity, cbTodo>>
  BY <1>3 DEF Request, CheckStop, SetUrgent, SetPending, Signal, ProducerStep
<1>4. PositionTick \/ WindowOpens \/ RunAges \/ UNCHANGED vars
        => UNCHANGED <<identity, cbTodo>>
  BY DEF PositionTick, WindowOpens, RunAges, vars
<1>5. WakeupThread => UNCHANGED <<identity, cbTodo>>
  BY DEF WakeupThread, Wake, LoopTop, Gate, RateLimit, Recheck, LoadConn, LoadLocal, Send,
         ClearPending, ClearUrgent, Retry, Proceed, ThreadStep
<1>6. QED
  BY <1>1, <1>2, <1>3, <1>4, <1>5, IdentityTabs, IdentityHandlers, IdentityStore DEF Next

(* While g_connected is 1, the id and the own client id of one and the     *)
(* same tab are in place, in whatever order tab events come and wherever   *)
(* their stores are interrupted, provided that getClientID answers for a   *)
(* tab that is up (ts3_adapter.c; a failed getClientID leaves the id 0).   *)
THEOREM IdentityIsPublishedWhole ==
  ASSUME ~IdMayFail
  PROVE  Spec => []PublishedIdentity
<1>1. Init => IdentityInv
  BY DEF Init, IdentityInv, PublishedIdentity, DownFirst, UpLast, UpReady
<1>2. TypeOK /\ IdentityInv /\ [Next]_vars => IdentityInv'
  BY IdentityStep
<1>3. IdentityInv => PublishedIdentity
  BY DEF IdentityInv
<1>4. QED BY <1>1, <1>2, <1>3, TypeCorrect, PTL DEF Spec
-----------------------------------------------------------------------------
(* The end.  A script that neither stops nor closes anything.              *)
TabOps == {o \in Ops : o.op \notin {"stop", "close"}}

LEMMA TabScripts ==
  /\ FlushOps \in Seq(TabOps) /\ BootstrapOps \in Seq(TabOps) /\ ClearIdentity \in Seq(TabOps)
  /\ \A c \in Conns : \A k \in BOOLEAN :
       EstablishIdentity(c, k) \in Seq(TabOps) /\ SwitchIdentity(c, k) \in Seq(TabOps)
  /\ \A x \in Calls \ {"stop", "close"} : <<Do(x)>> \in Seq(TabOps)
<1>1. \A x \in Calls \ {"stop", "close"} : Do(x) \in TabOps
  BY OpTypes DEF TabOps, Do
<1>2. \A i \in Ids : Store("conn", i) \in TabOps /\ Store("local", i) \in TabOps
  BY OpTypes DEF TabOps, Store
<1>3. Store("flush", "chat") \in TabOps /\ Store("flush", "dirty") \in TabOps
  BY OpTypes DEF TabOps, Store, Sources
<1>4. /\ Do("down") \in TabOps /\ Do("up") \in TabOps /\ Do("epoch") \in TabOps
      /\ Do("rewake") \in TabOps /\ Do("announce") \in TabOps /\ Do("request") \in TabOps
  BY <1>1 DEF Calls
<1>5. \A c \in Conns : c \in Ids
  BY DEF Ids
<1>6. None \in Ids
  BY DEF Ids
<1>7. \A c \in Conns : \A k \in BOOLEAN : EstablishIdentity(c, k) \in Seq(TabOps)
  BY <1>2, <1>4, <1>5 DEF EstablishIdentity
<1>8. \A c \in Conns : \A k \in BOOLEAN : SwitchIdentity(c, k) \in Seq(TabOps)
  BY <1>2, <1>4, <1>5, <1>6 DEF SwitchIdentity
<1>9. FlushOps \in Seq(TabOps) /\ BootstrapOps \in Seq(TabOps) /\ ClearIdentity \in Seq(TabOps)
  BY <1>2, <1>3, <1>4, <1>6 DEF FlushOps, BootstrapOps, ClearIdentity
<1>10. QED BY <1>1, <1>7, <1>8, <1>9

(* Every handler but the shutdown is such a script.                        *)
LEMMA TabHandlers ==
  ASSUME TypeOK,
         \/ CurrentServerChanged
         \/ \E c \in Conns : TabLost(c) \/ TabEstablished(c) \/ Deliver(c)
  PROVE  cbTodo' \in Seq(TabOps) /\ CallbackIdle /\ UNCHANGED <<stop, handle, wpc>>
<1>1. /\ <<Do("epoch")>> \in Seq(TabOps) /\ <<Do("reset")>> \in Seq(TabOps)
      /\ <<Do("clearChat")>> \in Seq(TabOps)
      /\ Do("epoch") \in TabOps /\ Do("reset") \in TabOps /\ Do("clearChat") \in TabOps
  BY TabScripts, OpTypes DEF Calls, TabOps, Do
<1>2. CallbackIdle /\ UNCHANGED <<stop, handle, wpc>>
  BY DEF CurrentServerChanged, TabLost, TabEstablished, Deliver, life, thread
<1>3. CASE CurrentServerChanged
  <2>1. PICK k \in BOOLEAN :
          cbTodo' = IF visible = activeConn THEN <<>>
                    ELSE <<Do("reset")>> \o SwitchIdentity(visible, k)
                           \o (IF Up(visible) THEN BootstrapOps ELSE <<>>)
    BY <1>3 DEF CurrentServerChanged, GetClientId
  <2>2. SwitchIdentity(visible, k) \in Seq(TabOps)
    BY TabScripts DEF TypeOK
  <2>3. QED BY <1>1, <1>2, <2>1, <2>2, TabScripts
<1>4. ASSUME NEW c \in Conns, TabLost(c) PROVE cbTodo' \in Seq(TabOps)
  BY <1>1, <1>4, TabScripts DEF TabLost
<1>5. ASSUME NEW c \in Conns, TabEstablished(c) PROVE cbTodo' \in Seq(TabOps)
  <2>1. PICK k \in BOOLEAN :
          cbTodo' = IF IgnoredConnect(c) THEN <<>>
                    ELSE EstablishIdentity(c, k) \o <<Do("reset")>> \o BootstrapOps
                           \o <<Do("clearChat")>>
    BY <1>5 DEF TabEstablished, GetClientId
  <2>2. EstablishIdentity(c, k) \in Seq(TabOps)
    BY TabScripts
  <2>3. QED BY <1>1, <2>1, <2>2, TabScripts
<1>6. ASSUME NEW c \in Conns, Deliver(c) PROVE cbTodo' \in Seq(TabOps)
  BY <1>6, TabScripts DEF Deliver
<1>7. QED BY <1>2, <1>3, <1>4, <1>5, <1>6

(* The next store of a shutdown: it closes behind the join.                *)
LEMMA StopStore ==
  ASSUME TypeOK, StopInv, CallbackStore
  PROVE  StopInv'
<1> DEFINE o == cbTodo[1]
<1>1. /\ Len(cbTodo) > 0
      /\ o.op = "join" => wpc = "exited"
      /\ stop' = (stop \/ o.op = "stop")
      /\ handle' = IF o.op = "close" THEN "closed" ELSE handle
      /\ UNCHANGED wpc
  BY ScriptAdvances DEF CallbackStore, thread
<1> HIDE DEF o
<1>2. /\ o = cbTodo[1] /\ Len(cbTodo) \in Nat /\ Len(cbTodo') \in Nat
      /\ \A i \in 1..Len(cbTodo) : cbTodo[i] \in Ops
  BY ScriptAdvances DEF o
<1>3. handle' = "closed" => wpc' = "exited"
  <2>1. CASE o.op = "close"
    BY <1>1, <1>2, <2>1 DEF StopInv, Earlier
  <2>2. QED BY <1>1, <2>1 DEF StopInv
<1>4. CASE /\ Len(cbTodo') = Len(cbTodo) - 1
           /\ \A i \in 1..Len(cbTodo') : cbTodo'[i] = cbTodo[i+1]
  <2>1. \A j \in 2..Len(cbTodo) : j - 1 \in 1..Len(cbTodo') /\ cbTodo'[j-1] = cbTodo[j]
    BY <1>2, <1>4
  <2>2. \A i \in 1..Len(cbTodo') : i + 1 \in 1..Len(cbTodo) /\ cbTodo'[i] = cbTodo[i+1]
    BY <1>2, <1>4
  <2>3. ASSUME stop', handle' = "open" PROVE WillClose'
    <3>1. handle = "open" /\ o.op # "close"
      BY <1>1, <2>3
    <3>2. PICK j \in 1..Len(cbTodo) : cbTodo[j].op = "close"
      <4>1. CASE stop
        BY <3>1, <4>1 DEF StopInv, WillClose
      <4>2. CASE o.op = "stop"
        BY <1>1, <1>2, <4>2 DEF StopInv
      <4>3. QED BY <1>1, <2>3, <4>1, <4>2
    <3>3. j - 1 \in 1..Len(cbTodo') /\ cbTodo'[j-1].op = "close"
      BY <1>2, <2>1, <3>1, <3>2
    <3>4. QED BY <3>3 DEF WillClose
  <2>4. ASSUME NEW i \in 1..Len(cbTodo'), cbTodo'[i].op = "stop"
        PROVE  \E j \in i+1..Len(cbTodo') : cbTodo'[j].op = "close"
    <3>1. PICK j \in i+2..Len(cbTodo) : cbTodo[j].op = "close"
      BY <2>2, <2>4 DEF StopInv
    <3>2. j - 1 \in i+1..Len(cbTodo') /\ cbTodo'[j-1].op = "close"
      BY <1>4, <2>1, <3>1
    <3>3. QED BY <3>2
  <2>5. ASSUME NEW i \in 1..Len(cbTodo'), cbTodo'[i].op = "close", wpc' # "exited"
        PROVE  Earlier(i, "join")'
    <3>1. wpc # "exited" /\ i + 1 \in 1..Len(cbTodo) /\ cbTodo[i+1].op = "close"
      BY <1>1, <2>2, <2>5
    <3>2. Earlier(i + 1, "join")
      BY <3>1 DEF StopInv
    <3>3. PICK j \in 1..i : cbTodo[j].op = "join"
      BY <2>2, <3>2 DEF Earlier
    <3>4. j # 1
      BY <1>1, <1>2, <2>5, <3>3
    <3>5. j \in 2..Len(cbTodo) /\ j - 1 \in 1..i-1
      BY <1>2, <2>2, <3>3, <3>4
    <3>6. cbTodo'[j-1].op = "join"
      BY <2>1, <3>3, <3>5
    <3>7. QED BY <3>5, <3>6 DEF Earlier
  <2>6. QED BY <1>3, <2>3, <2>4, <2>5 DEF StopInv
<1>5. CASE /\ Len(cbTodo') = Len(cbTodo) /\ o.op = "rewake"
           /\ cbTodo'[1].op \in {"urgent", "request"}
           /\ \A i \in 2..Len(cbTodo') : cbTodo'[i] = cbTodo[i]
  <2>1. UNCHANGED <<stop, handle, wpc>>
    <3>1. stop \in BOOLEAN
      BY DEF TypeOK
    <3>2. QED BY <1>1, <1>5, <3>1
  <2>2. ASSUME NEW i \in 1..Len(cbTodo), NEW x \in {"stop", "close", "join"}
        PROVE  cbTodo[i].op = x <=> cbTodo'[i].op = x
    <3>1. CASE i = 1
      BY <1>2, <1>5, <3>1
    <3>2. CASE i # 1
      BY <1>2, <1>5, <3>2
    <3>3. QED BY <3>1, <3>2
  <2>3. WillClose => WillClose'
    BY <1>5, <2>2 DEF WillClose
  <2>4. ASSUME NEW i \in 1..Len(cbTodo'), cbTodo'[i].op = "stop"
        PROVE  \E j \in i+1..Len(cbTodo') : cbTodo'[j].op = "close"
    BY <1>2, <1>5, <2>2, <2>4 DEF StopInv
  <2>5. ASSUME NEW i \in 1..Len(cbTodo'), cbTodo'[i].op = "close", wpc' # "exited"
        PROVE  Earlier(i, "join")'
    BY <1>2, <1>5, <2>1, <2>2, <2>5 DEF StopInv, Earlier
  <2>6. QED BY <1>3, <2>1, <2>3, <2>4, <2>5 DEF StopInv
<1>6. QED BY <1>4, <1>5, ScriptAdvances DEF o

(* Every step of the system; the wakeup thread does not come back.         *)
LEMMA StopStep == ASSUME TypeOK, StopInv, [Next]_vars PROVE StopInv'
<1>1. CASE UNCHANGED <<stop, handle, cbTodo, wpc>>
  BY <1>1 DEF StopInv, WillClose, Earlier
<1>2. CASE WakeupThread
  <2>1. UNCHANGED <<stop, handle, cbTodo>> /\ wpc # "exited"
    BY <1>2 DEF WakeupThread, Wake, LoopTop, Gate, RateLimit, Recheck, LoadConn, LoadLocal,
                Send, ClearPending, ClearUrgent, Retry, Proceed, ThreadStep, life
  <2>2. QED BY <2>1 DEF StopInv, WillClose, Earlier
<1>3. CASE CallbackIdle /\ cbTodo' \in Seq(TabOps) /\ UNCHANGED <<stop, handle, wpc>>
  <2>1. \A i \in 1..Len(cbTodo') : cbTodo'[i].op \notin {"stop", "close"}
    BY <1>3 DEF TabOps
  <2>2. QED BY <1>3, <2>1 DEF StopInv, CallbackIdle
<1>4. CASE Shutdown
  <2>1. cbTodo' = <<Do("reset")>> \o StopOps \o ClearIdentity /\ ~stop /\ handle = "open"
        /\ UNCHANGED <<stop, handle, wpc>>
    BY <1>4 DEF Shutdown, CallbackIdle, life, thread
  <2>2. /\ Len(cbTodo') = 8 /\ cbTodo'[1] = Do("reset") /\ cbTodo'[2] = Do("stop")
        /\ cbTodo'[3] = Do("signal") /\ cbTodo'[4] = Do("join") /\ cbTodo'[5] = Do("close")
        /\ cbTodo'[6] = Do("down")
        /\ cbTodo'[7] = Store("local", None) /\ cbTodo'[8] = Store("conn", None)
    BY <2>1, ShutdownScript
  <2>3. \A i \in 1..8 : /\ cbTodo'[i].op = "stop" => i = 2
                        /\ cbTodo'[i].op = "close" => i = 5
    BY <2>2 DEF Do, Store
  <2>4. cbTodo'[4].op = "join" /\ cbTodo'[5].op = "close"
    BY <2>2 DEF Do
  <2>5. \A i \in 1..Len(cbTodo') :
          /\ cbTodo'[i].op = "stop" => \E j \in i+1..Len(cbTodo') : cbTodo'[j].op = "close"
          /\ cbTodo'[i].op = "close" => Earlier(i, "join")'
    BY <2>2, <2>3, <2>4 DEF Earlier
  <2>6. QED BY <2>1, <2>5 DEF StopInv
<1>5. ASSUME NEW p \in Producers, NEW s \in Sources, Raise(p, s)
      PROVE  UNCHANGED <<stop, handle, cbTodo, wpc>>
  BY <1>5 DEF Raise, life, thread
<1>6. ASSUME NEW p \in Producers, Request(p)
      PROVE  UNCHANGED <<stop, handle, cbTodo, wpc>>
  BY <1>6 DEF Request, CheckStop, SetUrgent, SetPending, Signal, ProducerStep, thread
<1>7. ASSUME PositionTick \/ WindowOpens \/ RunAges \/ UNCHANGED vars
             \/ \E c \in Conns : UserSelectsTab(c)
      PROVE  UNCHANGED <<stop, handle, cbTodo, wpc>>
  BY <1>7 DEF PositionTick, WindowOpens, RunAges, UserSelectsTab, vars, life, thread
<1>8. QED
  BY <1>1, <1>2, <1>3, <1>4, <1>5, <1>6, <1>7, TabHandlers, StopStore DEF Next

(* Once the adapter is torn down, the wakeup thread has ended: the event   *)
(* is closed and the identity cleared only behind the join, wherever the   *)
(* stop finds the thread (ts3_wakeup_stop, ts3_adapter_shutdown).          *)
THEOREM ThreadEndsFirst == Spec => []QuietAfterShutdown
<1>1. Init => StopInv
  BY DEF Init, StopInv
<1>2. TypeOK /\ StopInv /\ [Next]_vars => StopInv'
  BY StopStep
<1>3. TypeOK /\ StopInv => QuietAfterShutdown
  BY DEF TypeOK, StopInv, QuietAfterShutdown, TornDown, WillClose
<1>4. QED BY <1>1, <1>2, <1>3, TypeCorrect, PTL DEF Spec
=============================================================================
