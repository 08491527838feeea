------------------------------- MODULE Wakeup -------------------------------
(***************************************************************************)
(* The control plane of the plugin: producers on any thread raise pending  *)
(* work and ask for a wakeup, the single wakeup thread turns the requests  *)
(* into CEDRAIN plugin commands, TeamSpeak sends them back, and the        *)
(* callback thread dispatches the work.  The callback thread also          *)
(* publishes the connection identity (connected, activeConn, localId) that *)
(* the wakeup thread reads, one store at a time.                           *)
(*                                                                         *)
(* The callback thread runs a handler as cbTodo, the stores it still has   *)
(* to make, so that every other thread runs between two of them.  The      *)
(* wakeup thread has one step per read or write of shared state.           *)
(***************************************************************************)
EXTENDS DrainTarget, Sequences, FiniteSets

CONSTANTS
  Conns,             \* server tabs; the own client id on tab c is written c
  None,              \* the ids 0: no connection, no client
  Producers,         \* threads that raise work (key watcher, dialog, ...)
  PcmThreads,        \* the producers that ts3plugin_shutdown does not join
  PositionFeed,      \* TRUE: the position watcher asks for a wakeup again and again
  IdMayFail,         \* TRUE: getClientID may fail
  MayShutdown,       \* TRUE: ts3plugin_shutdown may run
  Raises,            \* the sources that producers raise
  SelfEcho,          \* may TeamSpeak return a command addressed to the own client
  MaxTabEvents,      \* bound: tab events of a behaviour
  MaxBacklog,        \* bound: dirty clients waiting for a recompute
  NetCap             \* bound: CEDRAINs in flight on a tab

ASSUME WakeupAssumption ==
  /\ None \notin Conns
  /\ PcmThreads \subseteq Producers /\ Raises \subseteq {"chat", "dirty"}
  /\ {PositionFeed, IdMayFail, MayShutdown} \subseteq BOOLEAN /\ SelfEcho \subseteq BOOLEAN
  /\ MaxTabEvents \in Nat /\ MaxBacklog \in Nat \ {0} /\ NetCap \in Nat \ {0}

VARIABLES
  tab, visible, tabNote, tabEvents,  \* TeamSpeak: tab states, shown tab, unreported tab change
  env,                               \* TeamSpeak: what it does to a self-addressed command
  net,                               \* CEDRAINs on their way back, on each tab
  connected, activeConn, localId,    \* the published identity
  epochSeen,                         \* drainEpochSeen = g_drainEpoch
  echoed,                            \* g_drainEchoMs against runStartMs, see Echoes
  windowOpen,                        \* now - s_lastWakeMs >= 30 ms
  cbTodo,                            \* callback thread: stores still to make
  backlog,                           \* pending work of each source
  pending, urgent, event,            \* g_wakeupPending, g_wakeupUrgent, the auto-reset event
  stop, handle,                      \* g_wakeupStop; is g_wakeupEvent open
  badSignal,                         \* SetEvent was called on a closed handle
  wpc, wconn, wlocal, timedOut, drain,  \* wakeup thread
  ppc, psrc                          \* producers

world    == <<tab, visible, tabNote, tabEvents, env>>
identity == <<connected, activeConn, localId>>
thread   == <<wpc, wconn, wlocal, timedOut, drain>>
request  == <<pending, urgent, event>>
life     == <<stop, handle, badSignal>>
prod     == <<ppc, psrc>>
vars == <<world, net, identity, epochSeen, echoed, windowOpen, cbTodo, backlog,
          request, life, thread, prod>>

Sources == {"chat", "dirty"}   \* chat is urgent; dirty has a budget per drain
Ids == Conns \cup {None}

(* Where the newest own echo lies: before the open run or never, in the    *)
(* run, or in the current millisecond (a run opened now still counts it).  *)
Echoes == {"none", "run", "now"}
Echoed == echoed # "none"

Up(c) == c \in Conns /\ tab[c] = "up"

(* The stores and calls a handler is made of.                              *)
Calls == {"down", "up",              \* g_connected := 0, 1
          "request", "urgent",       \* ts3_request_wakeup, ts3_request_wakeup_urgent
          "epoch", "reset", "announce", "clearChat", "rewake",
          "stop", "signal", "join", "close"}
Ops == [op : {"conn", "local"}, arg : Ids] \cup [op : {"flush"}, arg : Sources]
         \cup [op : Calls, arg : {None}]

WorkAny == \E s \in Sources : backlog[s] > 0        \* ts3_pending_work_any

TypeOK ==
  /\ tab \in [Conns -> {"never", "up", "lost"}] /\ visible \in Conns /\ tabNote \in BOOLEAN
  /\ tabEvents \in 0..MaxTabEvents
  /\ env \in [echo : SelfEcho, named : BOOLEAN]
  /\ net \in [Conns -> 0..NetCap]
  /\ connected \in BOOLEAN /\ activeConn \in Ids /\ localId \in Ids
  /\ epochSeen \in BOOLEAN /\ windowOpen \in BOOLEAN /\ timedOut \in BOOLEAN
  /\ pending \in BOOLEAN /\ urgent \in BOOLEAN /\ event \in BOOLEAN
  /\ stop \in BOOLEAN /\ badSignal \in BOOLEAN
  /\ handle \in {"open", "closed"} /\ echoed \in Echoes
  /\ cbTodo \in Seq(Ops) /\ backlog \in [Sources -> 0..MaxBacklog]
  /\ wpc \in {"wait", "top", "gate", "rate", "recheck", "conn", "local", "send",
              "clear", "clearUrgent", "exited"}
  /\ wconn \in Ids /\ wlocal \in Ids /\ drain \in DrainState
  /\ ppc \in [Producers -> {"idle", "raised", "urgent", "pending", "signal"}]
  /\ psrc \in [Producers -> Sources]

Init ==
  /\ tab = [c \in Conns |-> "never"] /\ visible \in Conns /\ tabNote = FALSE /\ tabEvents = 0
  /\ env \in [echo : SelfEcho, named : BOOLEAN]
  /\ net = [c \in Conns |-> 0]
  /\ connected = FALSE /\ activeConn = None /\ localId = None
  /\ epochSeen = TRUE /\ echoed = "none" /\ windowOpen = TRUE
  /\ cbTodo = <<>>
  /\ backlog = [s \in Sources |-> 0]
  /\ pending = FALSE /\ urgent = FALSE /\ event = FALSE
  /\ stop = FALSE /\ handle = "open" /\ badSignal = FALSE
  /\ wpc = "wait" /\ wconn = None /\ wlocal = None /\ timedOut = FALSE
  /\ drain = DrainReset
  /\ ppc = [p \in Producers |-> "idle"] /\ psrc = [p \in Producers |-> "dirty"]

-----------------------------------------------------------------------------
(* Callback thread.  A store is a record with the variable and its value.  *)

Store(var, val) == [op |-> var, arg |-> val]
Do(call) == [op |-> call, arg |-> None]

FlushOps == <<Store("flush", "chat"), Store("flush", "dirty"), Do("rewake")>>

(* ts3_bootstrap_connected_session: arms its announcements and asks for a wakeup *)
BootstrapOps == <<Do("announce"), Do("request")>>

(* The identity stores of ts3_on_connect_status_changed,                   *)
(* ts3_on_active_server_changed and ts3_adapter_shutdown.                  *)
ClearIdentity == <<Do("down"), Store("local", None), Store("conn", None)>>
EstablishUpFirst(c, idOk) ==       \* mutant: connected before the ids are in place
  <<Do("down"), Do("up"), Store("conn", c)>>
    \o (IF idOk THEN <<Store("local", c)>> ELSE <<>>) \o <<Do("epoch")>>
EstablishIdentity(c, idOk) ==
  <<Do("down"), Store("conn", c)>>
    \o (IF idOk THEN <<Store("local", c)>> ELSE <<>>)
    \o <<Do("up"), Do("epoch")>>
SwitchIdentity(c, idOk) ==
  <<Do("down"), Store("local", None), Store("conn", c)>>
    \o (IF Up(c) /\ idOk THEN <<Store("local", c)>> ELSE <<>>)
    \o (IF Up(c) THEN <<Do("up")>> ELSE <<>>)
    \o <<Do("epoch")>>

StopWithoutJoin == <<Do("stop"), Do("signal"), Do("close")>>     \* mutant
StopWithoutSignal == <<Do("stop"), Do("join"), Do("close")>>     \* mutant

(* ts3_wakeup_stop: signal, join, close; the join is the wait of "join".   *)
StopOps == <<Do("stop"), Do("signal"), Do("join"), Do("close")>>

GetClientId == IF IdMayFail THEN BOOLEAN ELSE {TRUE}

IgnoredDisconnect(c) == activeConn # None /\ c # activeConn
IgnoredConnect(c) == activeConn # None /\ c # activeConn /\ connected /\ visible # c

CallbackIdle == cbTodo = <<>> /\ handle = "open" /\ ~stop

TabLost(c) ==                     \* STATUS_DISCONNECTED of tab c
  /\ CallbackIdle /\ tabEvents < MaxTabEvents /\ Up(c)
  /\ tab' = [tab EXCEPT ![c] = "lost"]
  /\ net' = [net EXCEPT ![c] = 0]
  /\ cbTodo' = IF IgnoredDisconnect(c) THEN <<>>
               ELSE ClearIdentity \o <<Do("epoch"), Do("reset")>>
  /\ tabEvents' = tabEvents + 1
  /\ UNCHANGED <<visible, tabNote, env, identity, epochSeen, echoed, windowOpen,
                 backlog, request, life, thread, prod>>

TabEstablished(c) ==              \* STATUS_CONNECTION_ESTABLISHED of tab c
  /\ CallbackIdle /\ tabEvents < MaxTabEvents /\ ~Up(c)
  /\ tab' = [tab EXCEPT ![c] = "up"]
  /\ \E idOk \in GetClientId :
       cbTodo' = IF IgnoredConnect(c) THEN <<>>
                 ELSE EstablishIdentity(c, idOk) \o <<Do("reset")>> \o BootstrapOps
                        \o <<Do("clearChat")>>
  /\ tabEvents' = tabEvents + 1
  /\ UNCHANGED <<visible, tabNote, env, net, identity, epochSeen, echoed, windowOpen,
                 backlog, request, life, thread, prod>>

UserSelectsTab(c) ==              \* the shown tab changes before the plugin is told
  /\ tabEvents < MaxTabEvents /\ c # visible /\ ~stop
  /\ visible' = c /\ tabNote' = TRUE
  /\ tabEvents' = tabEvents + 1
  /\ UNCHANGED <<tab, env, net, identity, epochSeen, echoed, windowOpen, cbTodo,
                 backlog, request, life, thread, prod>>

CurrentServerChanged ==           \* ts3plugin_currentServerConnectionChanged
  /\ CallbackIdle /\ tabNote
  /\ tabNote' = FALSE
  /\ \E idOk \in GetClientId :
       cbTodo' = IF visible = activeConn THEN <<>>
                 ELSE <<Do("reset")>> \o SwitchIdentity(visible, idOk)
                        \o (IF Up(visible) THEN BootstrapOps ELSE <<>>)
  /\ UNCHANGED <<tab, visible, tabEvents, env, net, identity, epochSeen, echoed,
                 windowOpen, backlog, request, life, thread, prod>>

Joined == \A p \in Producers \ PcmThreads : ppc[p] = "idle"

Shutdown ==                       \* ts3plugin_shutdown after joining its threads
  /\ MayShutdown /\ CallbackIdle /\ Joined
  /\ cbTodo' = <<Do("reset")>> \o StopOps \o ClearIdentity
  /\ UNCHANGED <<world, net, identity, epochSeen, echoed, windowOpen, backlog,
                 request, life, thread, prod>>

(* ts3plugin_onPluginCommandEvent for a CEDRAIN that comes back.           *)
Deliver(c) ==
  /\ CallbackIdle /\ net[c] > 0
  /\ net' = [net EXCEPT ![c] = @ - 1]
  /\ LET invoker  == IF env.named THEN c ELSE None
         accepted == c = activeConn /\ AcceptInvoker(localId, invoker, None)
     IN /\ echoed' = IF accepted /\ EchoIsOwn(localId, invoker, None) THEN "now" ELSE echoed
        /\ cbTodo' = IF accepted /\ WorkAny THEN FlushOps ELSE <<>>
  /\ UNCHANGED <<world, identity, epochSeen, windowOpen, backlog, request, life,
                 thread, prod>>

(* What is left of a source after its flush: the recompute budget is 1.    *)
Flushed(s) == IF s = "chat" \/ backlog[s] = 0 THEN 0 ELSE backlog[s] - 1

RewakeOps == IF backlog["chat"] > 0 THEN <<Do("urgent")>>
             ELSE IF WorkAny THEN <<Do("request")>> ELSE <<>>

(* The next store of the running handler.  The callback thread's own       *)
(* request is one step: its stores race with nobody but the wakeup         *)
(* thread's final clears.                                                  *)
CallbackStore ==
  /\ cbTodo # <<>>
  /\ LET op       == Head(cbTodo).op
         arg      == Head(cbTodo).arg
         requests == op \in {"request", "urgent"} /\ ~stop
     IN
     /\ op = "join" => wpc = "exited"
     /\ connected'  = IF op \in {"down", "up"} THEN op = "up" ELSE connected
     /\ activeConn' = IF op = "conn" THEN arg ELSE activeConn
     /\ localId'    = IF op = "local" THEN arg ELSE localId
     /\ epochSeen'  = (epochSeen /\ op # "epoch")
     /\ urgent'     = (urgent \/ (requests /\ op = "urgent"))
     /\ pending'    = (pending \/ requests)
     /\ event'      = (event \/ requests \/ op = "signal")
     /\ stop'       = (stop \/ op = "stop")
     /\ handle'     = IF op = "close" THEN "closed" ELSE handle
     /\ backlog'    = CASE op = "flush"     -> [backlog EXCEPT ![arg] = Flushed(arg)]
                        [] op = "reset"     -> [backlog EXCEPT !["dirty"] = 0]
                        [] op = "clearChat" -> [backlog EXCEPT !["chat"] = 0]
                        [] op = "announce"  -> [backlog EXCEPT !["dirty"] = MaxBacklog]
                        [] OTHER            -> backlog
     /\ cbTodo'     = IF op = "rewake" THEN RewakeOps \o Tail(cbTodo) ELSE Tail(cbTodo)
  /\ UNCHANGED <<world, net, echoed, windowOpen, badSignal, thread, prod>>
-----------------------------------------------------------------------------
(* Producers: raise the work first, then ts3_request_wakeup[_urgent].      *)

Raise(p, s) ==
  /\ ppc[p] = "idle" /\ s \in Raises /\ backlog[s] < MaxBacklog
  /\ p \notin PcmThreads => ~stop /\ cbTodo = <<>>   \* joined before the shutdown stops us
  /\ backlog' = [backlog EXCEPT ![s] = @ + 1]
  /\ ppc' = [ppc EXCEPT ![p] = "raised"]
  /\ psrc' = [psrc EXCEPT ![p] = s]
  /\ UNCHANGED <<world, net, identity, epochSeen, echoed, windowOpen, cbTodo,
                 request, life, thread>>

ProducerStep(p, from, to) ==
  /\ ppc[p] = from
  /\ ppc' = [ppc EXCEPT ![p] = to]
  /\ UNCHANGED <<world, net, identity, epochSeen, echoed, windowOpen, cbTodo, backlog,
                 stop, handle, thread, psrc>>

(* A chat line asks for a wakeup only while connected.                     *)
CheckStop(p) ==
  /\ ProducerStep(p, "raised", IF stop \/ (psrc[p] = "chat" /\ ~connected) THEN "idle"
                               ELSE IF psrc[p] = "chat" THEN "urgent" ELSE "pending")
  /\ UNCHANGED <<request, badSignal>>
SetUrgent(p) ==
  /\ ProducerStep(p, "urgent", "pending")
  /\ urgent' = TRUE
  /\ UNCHANGED <<pending, event, badSignal>>
SetPending(p) ==
  /\ ProducerStep(p, "pending", IF handle = "open" THEN "signal" ELSE "idle")
  /\ pending' = TRUE
  /\ UNCHANGED <<urgent, event, badSignal>>
Signal(p) ==
  /\ ProducerStep(p, "signal", "idle")
  /\ event' = (event \/ handle = "open")
  /\ badSignal' = (badSignal \/ handle = "closed")
  /\ UNCHANGED <<pending, urgent>>

Request(p) == CheckStop(p) \/ SetUrgent(p) \/ SetPending(p) \/ Signal(p)

(* chan_signal_position_update: every position sample asks for a wakeup.   *)
PositionTick ==
  /\ PositionFeed /\ ~stop
  /\ pending' = TRUE /\ event' = TRUE
  /\ UNCHANGED <<world, net, identity, epochSeen, echoed, windowOpen, cbTodo, backlog,
                 urgent, life, thread, prod>>
-----------------------------------------------------------------------------
(* Wakeup thread.                                                          *)

ThreadStep(from, to) ==
  /\ wpc = from
  /\ wpc' = to
  /\ UNCHANGED <<world, identity, cbTodo, backlog, life, prod>>

Wake ==                            \* WaitForSingleObject returns
  /\ \/ event /\ timedOut' = FALSE
     \/ ~event /\ ProbeOpen(drain) /\ timedOut' = TRUE
  /\ ThreadStep("wait", "top")
  /\ event' = FALSE
  /\ UNCHANGED <<net, epochSeen, echoed, windowOpen, pending, urgent, wconn, wlocal, drain>>

(* Stop check, epoch check, watchdog tick and pending check.               *)
LoopTop ==
  LET d0    == IF epochSeen THEN drain ELSE DrainReset
      d1    == IF timedOut THEN DrainPoll(d0, Echoed) ELSE d0
      again == timedOut /\ ProbeOpen(d1)
      quit  == timedOut /\ ~ProbeOpen(d1)
  IN /\ timedOut' = FALSE
     /\ \/ /\ stop
           /\ ThreadStep("top", "exited")
           /\ UNCHANGED <<epochSeen, drain, pending>>
           /\ UNCHANGED <<net, echoed, windowOpen, urgent, event, wconn, wlocal>>
        \/ /\ ~stop
           /\ ThreadStep("top", IF quit \/ ~(pending \/ again) THEN "wait" ELSE "gate")
           /\ epochSeen' = TRUE
           /\ drain' = d1
           /\ pending' = (pending \/ again)
           /\ UNCHANGED <<net, echoed, windowOpen, urgent, event, wconn, wlocal>>

RetryWithoutSignal(from) ==        \* mutant: the request is kept, nobody is woken
  /\ ThreadStep(from, "wait")
  /\ UNCHANGED <<net, epochSeen, echoed, windowOpen, request, wconn, wlocal,
                 timedOut, drain>>

(* Not now: sleep, signal the own event, go back to the wait.              *)
Retry(from) ==
  /\ ThreadStep(from, "wait")
  /\ event' = TRUE
  /\ UNCHANGED <<net, epochSeen, echoed, windowOpen, pending, urgent, wconn, wlocal,
                 timedOut, drain>>

Proceed(from, to) ==
  /\ ThreadStep(from, to)
  /\ UNCHANGED <<net, epochSeen, echoed, windowOpen, request, timedOut, drain>>

Gate ==
  \/ ~connected /\ Retry("gate")
  \/ connected /\ Proceed("gate", "rate") /\ UNCHANGED <<wconn, wlocal>>

RateLimit ==
  \/ ~ShouldSend(windowOpen, urgent) /\ Retry("rate")
  \/ ShouldSend(windowOpen, urgent) /\ Proceed("rate", "recheck") /\ UNCHANGED <<wconn, wlocal>>

Recheck ==
  \/ ~connected /\ Retry("recheck")
  \/ connected /\ Proceed("recheck", "conn") /\ UNCHANGED <<wconn, wlocal>>

LoadConn ==
  \/ activeConn = None /\ Retry("conn")
  \/ activeConn # None /\ Proceed("conn", "local") /\ wconn' = activeConn /\ UNCHANGED wlocal

LoadLocal ==
  Proceed("local", "send") /\ wlocal' = localId /\ UNCHANGED wconn

(* Does a command sent to target on tab wconn come back to us.             *)
ComesBack(target) ==
  /\ Up(wconn)
  /\ target = "SERVER" \/ (wlocal = wconn /\ env.echo)

Send ==
  LET d      == DrainPick(drain, Echoed, wlocal # None)
      back   == ComesBack(PickTarget(d, wlocal # None)) /\ ~stop
  IN /\ back => net[wconn] < NetCap         \* bound: waits for a command in flight
     /\ ThreadStep("send", "clear")
     /\ drain' = d
     /\ net' = IF back THEN [net EXCEPT ![wconn] = @ + 1] ELSE net
     /\ windowOpen' = FALSE
     \* a run that starts now forgets older echoes
     /\ echoed' \in (IF ProbeOpen(d) /\ ~ProbeOpen(DrainPoll(drain, Echoed))
                     THEN {"none"} \cup ({"now"} \cap {echoed}) ELSE {echoed})
     /\ UNCHANGED <<epochSeen, request, wconn, wlocal, timedOut>>

ClearPending ==
  /\ ThreadStep("clear", "clearUrgent")
  /\ pending' = FALSE
  /\ UNCHANGED <<net, epochSeen, echoed, windowOpen, urgent, event, wconn, wlocal, timedOut, drain>>

ClearUrgent ==
  /\ ThreadStep("clearUrgent", "wait")
  /\ urgent' = FALSE
  /\ wconn' = None /\ wlocal' = None
  /\ UNCHANGED <<net, epochSeen, echoed, windowOpen, pending, event, timedOut, drain>>

WakeupThread == Wake \/ LoopTop \/ Gate \/ RateLimit \/ Recheck \/ LoadConn \/ LoadLocal
                  \/ Send \/ ClearPending \/ ClearUrgent
-----------------------------------------------------------------------------
(* Time: the rate window of 30 ms and the probe timeout of 2 s.            *)

WindowOpens ==
  /\ ~windowOpen /\ windowOpen' = TRUE
  /\ echoed' = IF echoed = "now" THEN "run" ELSE echoed
  /\ UNCHANGED <<world, net, identity, epochSeen, cbTodo, backlog, request,
                 life, thread, prod>>

RunAges ==
  /\ ProbeOpen(drain) /\ ~drain.aged
  /\ drain' = [drain EXCEPT !.aged = TRUE]
  /\ echoed' = IF echoed = "now" THEN "run" ELSE echoed
  /\ UNCHANGED <<world, net, identity, epochSeen, windowOpen, cbTodo, backlog,
                 request, life, wpc, wconn, wlocal, timedOut, prod>>

Next ==
  \/ \E c \in Conns : TabLost(c) \/ TabEstablished(c) \/ UserSelectsTab(c) \/ Deliver(c)
  \/ CurrentServerChanged \/ Shutdown \/ CallbackStore
  \/ \E p \in Producers : (\E s \in Sources : Raise(p, s)) \/ Request(p)
  \/ PositionTick
  \/ WakeupThread
  \/ WindowOpens \/ RunAges

Spec == Init /\ [][Next]_vars

(* Threads that are runnable run, commands arrive, clocks advance; nobody  *)
(* is obliged to raise work, change tabs or shut the plugin down.          *)
Fairness ==
  /\ WF_vars(WakeupThread) /\ WF_vars(CallbackStore) /\ WF_vars(CurrentServerChanged)
  /\ (\A c \in Conns : WF_vars(Deliver(c))) /\ WF_vars(WindowOpens) /\ WF_vars(RunAges)
  /\ WF_vars(PositionTick)
  /\ \A p \in Producers : WF_vars(Request(p))

FairSpec == Spec /\ Fairness
-----------------------------------------------------------------------------
(* The identity contract of ts3_adapter.c as a state predicate: while      *)
(* g_connected is 1 the id and the own client id of one and the same tab   *)
(* are in place, whatever order tab events come in.                        *)
PublishedIdentity == connected => activeConn # None /\ localId = activeConn

(* No request is forgotten while the thread sleeps: a pending wakeup always *)
(* has its event set or a requester about to set it.                       *)
Signalling ==
  \/ event
  \/ \E p \in Producers : ppc[p] = "signal"
WakeNotForgotten == pending /\ wpc = "wait" /\ handle = "open" => Signalling

(* Inductive form: the thread is about to sleep, or woke up by its timer.  *)
AtRest == wpc \in {"wait", "clearUrgent"} \/ (wpc = "top" /\ timedOut)
SignalInv == pending /\ AtRest /\ handle = "open" => Signalling

(* After the adapter is torn down the wakeup thread no longer runs: the    *)
(* identity is cleared and the event closed only behind the join.          *)
TornDown == handle = "closed" \/ (stop /\ ~connected /\ activeConn = None /\ cbTodo = <<>>)
QuietAfterShutdown == TornDown => wpc = "exited"

(* The join of ts3_wakeup_stop returns: a stop request, which is never     *)
(* taken back, ends the thread.                                            *)
StopEndsThread == []<>(stop => wpc = "exited")

(* Work raised while connected is dispatched, or the connection is lost.   *)
WorkIsDispatched ==
  \A s \in Sources : []<>(backlog[s] = 0 \/ ~connected)

(* Claims of the sources that the code does not keep.                      *)

(* ts3_adapter.c:163-165: the thread never sends on a tab that was not yet established. *)
SendsOnEstablishedTab == wpc = "send" => tab[wconn] # "never"

(* drain_target.h:130-132: the filter never silences the own drains.       *)
OwnDrainsAccepted ==
  connected /\ cbTodo = <<>> => AcceptInvoker(localId, activeConn, None)

(* ts3_adapter.c:655-656 and 998: a request is safe once shutdown began.   *)
NoSignalAfterClose == ~badSignal
=============================================================================
