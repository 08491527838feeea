-------------------------- MODULE HttpListener --------------------------
(***************************************************************************)
(* The position server on 127.0.0.1 (core/http/pos_http_server.c,          *)
(* http_request.h) and the channel password that comes with a position     *)
(* (core/hub/mod_password.c).                                              *)
(*                                                                         *)
(* One thread owns the listen socket: it opens it, serves one client after *)
(* the other, and opens it again after failures.  The callback thread      *)
(* makes the first socket, and at the stop closes the socket under the     *)
(* thread to wake it.  Both take the socket out of g_listenSocket by an    *)
(* atomic exchange before they close it.  Socket numbers are used again    *)
(* after a close, as Windows does.                                         *)
(*                                                                         *)
(* A request is what decides its way through the handler: how its header   *)
(* and its body arrive and what they hold.  The mod announces the length   *)
(* of every body; a body without a length arrives with its header.         *)
(***************************************************************************)
EXTENDS Integers, FiniteSets

CONSTANTS HlSockets,      \* numbers of sockets
          HlDeadline,     \* receives that fit in HTTP_CONN_DEADLINE_MS
          HlTransientMax, \* HTTP_ACCEPT_TRANSIENT_MAX
          HlStreakMax,    \* failures after which the back-off grows no more
          HlPwTtl,        \* MOD_PASSWORD_TTL_MS in units of the clock
          HlMaxClients,   \* bound on clients
          HlMaxFaults     \* bound on failing socket calls

HlAssumption ==
    /\ HlSockets \subseteq Nat \ {0} /\ IsFiniteSet(HlSockets)
    /\ {HlDeadline, HlTransientMax, HlStreakMax, HlPwTtl} \subseteq Nat \ {0}

VARIABLES hlSock,   \* g_listenSocket, 0: INVALID_SOCKET
          hlOpen,   \* sockets open in the process
          hlTwice,  \* a number was closed that was not open (bookkeeping)
          hlEvent,  \* g_stopEvent is set
          hlOwner,  \* the callback thread: [pc, hand]
          hlPc,     \* the listener thread
          hlHand,   \* the socket it is making or closing
          hlStreak, \* [fail, transient]
          hlReq,    \* the request in the handler
          hlLeft,   \* receives left until its deadline
          hlPw,     \* the stored password [what, age]
          hlOcc,    \* the request whose occlusion values are stored
          hlPos,    \* the request whose position was injected last
          hlStale,  \* a recomputation met a position newer than its occlusion values
          hlLogged, \* a password was in a logged body
          hlThr,    \* the throttle of the error lines
          hlClients,
          hlFaults

hlThread == <<hlPc, hlHand, hlStreak>>
hlRequest == <<hlReq, hlLeft, hlPw, hlOcc, hlPos, hlStale, hlLogged, hlThr, hlClients>>
hlvars == <<hlSock, hlOpen, hlTwice, hlEvent, hlOwner, hlThread, hlRequest, hlFaults>>

HlTell(kind, cl, body, content, pw) ==
    [kind |-> kind, cl |-> cl, body |-> body, content |-> content, pw |-> pw]

\* kind: the header never ends or dies ("drip", "dead"), the guard refuses ("foreign"), or its path.
HlRequests ==
    {HlTell(k, "absent", "whole", "pos", FALSE) : k \in {"drip", "dead", "foreign", "health",
                                                       "other"}}
    \cup {HlTell("post", c, "whole", "pos", TRUE) : c \in {"absent", "bad", "big"}}
    \cup [kind : {"post"}, cl : {"ok"}, body : {"whole", "late", "short"},
          content : {"pos", "zero", "text"}, pw : BOOLEAN]

NoRequest == HlTell("none", "absent", "whole", "pos", FALSE)

\* In the handler: the password is cut off, and the body arrives.
RequestsHeld ==
    {r \in [kind : {"none", "drip", "dead", "foreign", "health", "other", "post"},
            cl : {"absent", "bad", "big", "ok"}, body : {"whole", "late", "short"},
            content : {"pos", "zero", "text"}, pw : BOOLEAN] :
        r.cl = "absent" => r.body = "whole"}

Owners == [pc : {"down", "starting", "up", "close", "closing", "join", "joined", "closing again"},
           hand : HlSockets \cup {0}]
Streaks == [fail : 0..HlStreakMax, transient : 0..HlTransientMax - 1]
Passwords == [what : {"none", "whole", "half"}, age : 0..HlPwTtl + 1]
Throttles == [armed : BOOLEAN, quiet : BOOLEAN, suppressed : Nat, events : Nat, told : Nat]

HlInit ==
    /\ hlSock = 0 /\ hlOpen = {} /\ hlTwice = FALSE /\ hlEvent = FALSE
    /\ hlOwner = [pc |-> "down", hand |-> 0]
    /\ hlPc = "none" /\ hlHand = 0 /\ hlStreak = [fail |-> 0, transient |-> 0]
    /\ hlReq = NoRequest /\ hlLeft = 0
    /\ hlPw = [what |-> "none", age |-> 0]
    /\ hlOcc = 0 /\ hlPos = 0 /\ hlStale = FALSE /\ hlLogged = FALSE
    /\ hlThr = [armed |-> FALSE, quiet |-> FALSE, suppressed |-> 0, events |-> 0, told |-> 0]
    /\ hlClients = 0 /\ hlFaults = 0

(***************************************************************************)
(* Sockets.                                                                *)
(***************************************************************************)
CallFails == hlFaults < HlMaxFaults /\ hlFaults' = hlFaults + 1

(* Mutant: the socket is read, not taken. *)
ReadSocket == hlSock' = hlSock

\* InterlockedExchangePointer with INVALID_SOCKET.
TakeSocket == hlSock' = 0

CloseSocket(s) ==
    /\ hlOpen' = hlOpen \ {s}
    /\ hlTwice' = (hlTwice \/ (s # 0 /\ s \notin hlOpen))

(***************************************************************************)
(* The listener thread.                                                    *)
(***************************************************************************)
Streak(n) == IF n < HlStreakMax THEN n + 1 ELSE n

ThreadGoes(pc) == hlPc' = pc /\ UNCHANGED <<hlHand, hlStreak>>

(* Mutant: the socket is made once, in the start. *)
TopAccepts ==
    /\ hlPc \in {"top", "wait"}
    /\ ThreadGoes(IF hlEvent THEN "end" ELSE IF hlPc = "wait" THEN "top" ELSE "accept")
    /\ UNCHANGED <<hlSock, hlOpen, hlTwice, hlEvent, hlOwner, hlRequest, hlFaults>>

\* The top of the loop, and every wait of the back-off: the stop event first.
TopOfLoop ==
    /\ hlPc \in {"top", "wait"}
    /\ ThreadGoes(IF hlEvent THEN "end" ELSE IF hlPc = "wait" THEN "top"
                  ELSE IF hlSock = 0 THEN "open" ELSE "accept")
    /\ UNCHANGED <<hlSock, hlOpen, hlTwice, hlEvent, hlOwner, hlRequest, hlFaults>>

\* socket, bind and listen; of a failure nothing is left.
OpenListenSocket ==
    /\ hlPc = "open"
    /\ \/ /\ \E s \in HlSockets \ hlOpen :
                hlOpen' = hlOpen \cup {s} /\ hlHand' = s
          /\ hlPc' = "publish" /\ UNCHANGED <<hlStreak, hlFaults>>
       \/ /\ CallFails
          /\ hlStreak' = [hlStreak EXCEPT !.fail = Streak(@)]
          /\ hlPc' = "wait" /\ UNCHANGED <<hlOpen, hlHand>>
    /\ UNCHANGED <<hlSock, hlTwice, hlEvent, hlOwner, hlRequest>>

PublishSocket ==
    /\ hlPc = "publish"
    /\ hlSock' = hlHand /\ hlHand' = 0 /\ hlPc' = "recheck"
    /\ UNCHANGED <<hlOpen, hlTwice, hlEvent, hlOwner, hlStreak, hlRequest, hlFaults>>

(* Mutant: the thread does not look at the stop event again. *)
AcceptAtOnce ==
    /\ hlPc = "recheck"
    /\ ThreadGoes("accept")
    /\ UNCHANGED <<hlSock, hlOpen, hlTwice, hlEvent, hlOwner, hlRequest, hlFaults>>

\* The stop may have closed g_listenSocket before this socket was in it.
RecheckStop ==
    /\ hlPc = "recheck"
    /\ ThreadGoes(IF hlEvent THEN "drop" ELSE "accept")
    /\ UNCHANGED <<hlSock, hlOpen, hlTwice, hlEvent, hlOwner, hlRequest, hlFaults>>

\* accept() fails: what follows depends on the stop event and on the kind of the error.
AcceptError ==
    \E transient \in BOOLEAN :
       IF hlEvent THEN hlPc' = "end" /\ hlStreak' = hlStreak
       ELSE IF transient /\ hlStreak.transient + 1 < HlTransientMax
       THEN hlPc' = "top" /\ hlStreak' = [hlStreak EXCEPT !.transient = @ + 1]
       ELSE /\ hlPc' = "drop"
            /\ hlStreak' = [fail |-> Streak(hlStreak.fail), transient |-> 0]

\* The socket was closed under the thread.
AcceptWoken ==
    /\ hlPc = "accept" /\ hlSock \notin hlOpen
    /\ AcceptError
    /\ UNCHANGED <<hlSock, hlOpen, hlTwice, hlEvent, hlOwner, hlHand, hlRequest, hlFaults>>

AcceptFails ==
    /\ hlPc = "accept" /\ hlSock \in hlOpen
    /\ CallFails /\ AcceptError
    /\ UNCHANGED <<hlSock, hlOpen, hlTwice, hlEvent, hlOwner, hlHand, hlRequest>>

AcceptClient ==
    /\ hlPc = "accept" /\ hlSock \in hlOpen
    /\ hlClients < HlMaxClients
    /\ \E s \in HlSockets \ hlOpen, r \in HlRequests :
          hlOpen' = hlOpen \cup {s} /\ hlHand' = s /\ hlReq' = r
    /\ hlClients' = hlClients + 1 /\ hlLeft' = HlDeadline
    /\ hlPc' = "header" /\ hlStreak' = [fail |-> 0, transient |-> 0]
    /\ UNCHANGED <<hlSock, hlTwice, hlEvent, hlOwner, hlPw, hlOcc, hlPos, hlStale, hlLogged,
                   hlThr, hlFaults>>

\* http_close_listen_socket on this thread, after a hard failure or a late stop.
DropSocket ==
    \/ /\ hlPc = "drop"
       /\ TakeSocket /\ hlHand' = hlSock /\ hlPc' = "dropping"
       /\ UNCHANGED <<hlOpen, hlTwice, hlEvent, hlOwner, hlStreak, hlRequest, hlFaults>>
    \/ /\ hlPc = "dropping"
       /\ CloseSocket(hlHand) /\ hlHand' = 0 /\ hlPc' = "wait"
       /\ UNCHANGED <<hlSock, hlEvent, hlOwner, hlStreak, hlRequest, hlFaults>>

(***************************************************************************)
(* The handler.  A line about an error goes through the throttle: at most  *)
(* one per interval, the next one tells how many were left out.            *)
(***************************************************************************)
(* Mutant: the number is forgotten when it is told and when it is not. *)
ThrottleForgets(t) ==
    IF t.armed /\ t.quiet
    THEN [t EXCEPT !.suppressed = 0, !.events = @ + 1]
    ELSE [t EXCEPT !.armed = TRUE, !.quiet = TRUE, !.suppressed = 0, !.events = @ + 1,
                   !.told = @ + 1 + t.suppressed]

ThrottlePass(t) ==
    IF t.armed /\ t.quiet
    THEN [t EXCEPT !.suppressed = @ + 1, !.events = @ + 1]
    ELSE [t EXCEPT !.armed = TRUE, !.quiet = TRUE, !.suppressed = 0, !.events = @ + 1,
                   !.told = @ + 1 + t.suppressed]

HandlerKeeps == UNCHANGED <<hlSock, hlOpen, hlTwice, hlEvent, hlOwner, hlHand, hlStreak, hlFaults,
                            hlClients>>

\* One receive of the header; a client that dies or drips until the deadline is dropped.
ReceiveHeader ==
    /\ hlPc = "header"
    /\ hlLeft' = hlLeft - 1
    /\ CASE hlReq.kind = "dead" \/ (hlReq.kind = "drip" /\ hlLeft = 1) ->
              hlPc' = "leave" /\ hlThr' = ThrottlePass(hlThr)
         [] hlReq.kind = "drip" /\ hlLeft > 1 -> UNCHANGED <<hlPc, hlThr>>
         [] hlReq.kind \in {"foreign", "other"} -> hlPc' = "leave" /\ hlThr' = ThrottlePass(hlThr)
         [] hlReq.kind = "health" -> hlPc' = "leave" /\ UNCHANGED hlThr
         [] hlReq.kind = "post" /\ hlReq.cl \in {"bad", "big"} ->
              hlPc' = "leave" /\ hlThr' = ThrottlePass(hlThr)
         [] OTHER -> hlPc' = "body" /\ UNCHANGED hlThr
    /\ UNCHANGED <<hlReq, hlPw, hlOcc, hlPos, hlStale, hlLogged>> /\ HandlerKeeps

(* Mutant: what came until the deadline is taken for the body. *)
BodyAsItCame == TRUE
BodyComplete == hlReq.cl = "absent" \/ hlReq.body = "whole"

\* The rest of an announced body: it comes, it does not, or the deadline passes.
ReceiveBody ==
    /\ hlPc = "body"
    /\ UNCHANGED <<hlPw, hlOcc, hlPos, hlStale, hlLogged>> /\ HandlerKeeps
    /\ \/ /\ hlReq.body = "late" /\ hlLeft > 0
          /\ \E b \in {"late", "whole"} : hlReq' = [hlReq EXCEPT !.body = b]
          /\ hlLeft' = hlLeft - 1
          /\ UNCHANGED <<hlPc, hlThr>>
       \/ /\ hlReq.body # "late" \/ hlLeft = 0
          /\ IF BodyComplete
             THEN hlPc' = "password" /\ UNCHANGED hlThr
             ELSE hlPc' = "leave" /\ hlThr' = ThrottlePass(hlThr)
          /\ UNCHANGED <<hlReq, hlLeft>>

\* mod_password_take_from_body cuts the field off the body before anything else reads it.
TakePassword ==
    /\ hlPc = "password"
    /\ hlPw' = IF hlReq.pw
               THEN [what |-> IF hlReq.body = "whole" THEN "whole" ELSE "half", age |-> 0]
               ELSE hlPw
    /\ hlReq' = [hlReq EXCEPT !.pw = FALSE]
    /\ hlPc' = "occlusion"
    /\ UNCHANGED <<hlLeft, hlOcc, hlPos, hlStale, hlLogged, hlThr>> /\ HandlerKeeps

(* Mutant: the occlusion values are not stored before the injection. *)
StoreLater == UNCHANGED hlOcc
StoreOcclusion == hlOcc' = IF hlReq.content # "text" THEN hlClients ELSE hlOcc

OcclusionOfBody ==
    /\ hlPc = "occlusion"
    /\ StoreOcclusion
    /\ hlPc' = "inject"
    /\ UNCHANGED <<hlReq, hlLeft, hlPw, hlPos, hlStale, hlLogged, hlThr>> /\ HandlerKeeps

\* pos_inject_sample refuses the placeholder; a refused POST is answered 400 and its body logged.
InjectBody ==
    /\ hlPc = "inject"
    /\ IF hlReq.content = "pos"
       THEN hlPos' = hlClients /\ UNCHANGED <<hlLogged, hlThr>>
       ELSE /\ hlThr' = ThrottlePass(hlThr)
            /\ hlLogged' = (hlLogged \/ hlReq.pw)
            /\ UNCHANGED hlPos
    /\ hlPc' = "leave"
    /\ UNCHANGED <<hlReq, hlLeft, hlPw, hlOcc, hlStale>> /\ HandlerKeeps

LeaveClient ==
    /\ hlPc = "leave"
    /\ CloseSocket(hlHand) /\ hlHand' = 0 /\ hlReq' = NoRequest /\ hlLeft' = 0
    /\ hlPc' = "top"
    /\ UNCHANGED <<hlSock, hlEvent, hlOwner, hlStreak, hlPw, hlOcc, hlPos, hlStale, hlLogged,
                   hlThr, hlClients, hlFaults>>

(***************************************************************************)
(* The callback thread.  The first socket is made before the thread        *)
(* exists; a failure is left to the thread.  At the stop: the event, the   *)
(* socket, the join, and the socket again.                                 *)
(***************************************************************************)
OwnerGoes(pc, hand) == hlOwner' = [pc |-> pc, hand |-> hand]

HlStart ==
    \/ /\ hlOwner.pc = "down"
       /\ OwnerGoes("starting", 0)
       /\ \/ \E s \in HlSockets \ hlOpen :
                hlOpen' = hlOpen \cup {s} /\ hlSock' = s /\ UNCHANGED hlFaults
          \/ CallFails /\ UNCHANGED <<hlOpen, hlSock>>
       /\ UNCHANGED <<hlTwice, hlEvent, hlThread, hlRequest>>
    \/ /\ hlOwner.pc = "starting"
       /\ OwnerGoes("up", 0) /\ hlPc' = "top" /\ hlStreak' = [fail |-> 0, transient |-> 0]
       /\ UNCHANGED <<hlSock, hlOpen, hlTwice, hlEvent, hlHand, hlRequest, hlFaults>>
    \/ /\ hlOwner.pc = "starting"
       /\ CallFails \* no thread
       /\ OwnerGoes("down", 0) /\ hlSock' = 0 /\ CloseSocket(hlSock)
       /\ UNCHANGED <<hlEvent, hlThread, hlRequest>>

HlStopBegins ==
    /\ hlOwner.pc = "up"
    /\ hlEvent' = TRUE /\ OwnerGoes("close", 0)
    /\ UNCHANGED <<hlSock, hlOpen, hlTwice, hlThread, hlRequest, hlFaults>>

HlStopGoesOn ==
    \/ /\ hlOwner.pc \in {"close", "joined"}
       /\ TakeSocket
       /\ OwnerGoes(IF hlOwner.pc = "close" THEN "closing" ELSE "closing again", hlSock)
       /\ UNCHANGED <<hlOpen, hlTwice, hlEvent, hlThread, hlRequest, hlFaults>>
    \/ /\ hlOwner.pc \in {"closing", "closing again"}
       /\ CloseSocket(hlOwner.hand)
       /\ OwnerGoes(IF hlOwner.pc = "closing" THEN "join" ELSE "down", 0)
       /\ hlEvent' = (hlOwner.pc = "closing")
       /\ UNCHANGED <<hlSock, hlThread, hlRequest, hlFaults>>
    \/ /\ hlOwner.pc = "join" /\ hlPc = "end"
       /\ OwnerGoes("joined", 0) /\ hlPc' = "none"
       /\ UNCHANGED <<hlSock, hlOpen, hlTwice, hlEvent, hlHand, hlStreak, hlRequest, hlFaults>>

(***************************************************************************)
(* Other threads: a recomputation reads the position, then the occlusion   *)
(* values; mod_password_get wipes what is too old; a disconnect wipes all. *)
(***************************************************************************)
OthersKeep == UNCHANGED <<hlSock, hlOpen, hlTwice, hlEvent, hlOwner, hlThread, hlReq, hlLeft,
                          hlOcc, hlPos, hlLogged, hlClients, hlFaults>>

Recompute ==
    /\ hlStale' = (hlStale \/ hlPos > hlOcc)
    /\ UNCHANGED <<hlPw, hlThr>> /\ OthersKeep

GetPassword ==
    /\ hlPw.what # "none" /\ hlPw.age > HlPwTtl
    /\ hlPw' = [what |-> "none", age |-> 0]
    /\ UNCHANGED <<hlStale, hlThr>> /\ OthersKeep

ClearPassword ==
    /\ hlPw' = [what |-> "none", age |-> 0]
    /\ UNCHANGED <<hlStale, hlThr>> /\ OthersKeep

HlTimePasses ==
    /\ hlThr' = [hlThr EXCEPT !.quiet = FALSE]
    /\ hlPw' = IF hlPw.what # "none" /\ hlPw.age <= HlPwTtl THEN [hlPw EXCEPT !.age = @ + 1]
               ELSE hlPw
    /\ UNCHANGED hlStale /\ OthersKeep

ThreadRuns ==
    \/ TopOfLoop \/ OpenListenSocket \/ PublishSocket \/ RecheckStop \/ AcceptWoken \/ DropSocket
    \/ ReceiveHeader \/ ReceiveBody \/ TakePassword \/ OcclusionOfBody \/ InjectBody \/ LeaveClient

HlNext ==
    \/ ThreadRuns \/ AcceptFails \/ AcceptClient
    \/ HlStart \/ HlStopBegins \/ HlStopGoesOn
    \/ Recompute \/ GetPassword \/ ClearPassword \/ HlTimePasses

HlSpec == HlInit /\ [][HlNext]_hlvars

(***************************************************************************)
(* The thread runs unless it waits in accept(), and a stop that began goes *)
(* on.  No client and no failure is ever owed.                             *)
(***************************************************************************)
HlFairness == WF_hlvars(ThreadRuns) /\ WF_hlvars(HlStopGoesOn)

HlLiveSpec == HlSpec /\ HlFairness

HlTypeOK ==
    /\ hlSock \in HlSockets \cup {0} /\ hlHand \in HlSockets \cup {0} /\ hlOpen \subseteq HlSockets
    /\ hlOwner \in Owners /\ hlStreak \in Streaks
    /\ hlPc \in {"none", "top", "wait", "open", "publish", "recheck", "accept", "drop", "dropping",
                 "header", "body", "password", "occlusion", "inject", "leave", "end"}
    /\ hlReq \in RequestsHeld
    /\ hlLeft \in 0..HlDeadline
    /\ hlPw \in Passwords /\ hlThr \in Throttles
    /\ hlOcc \in Nat /\ hlPos \in Nat /\ hlClients \in Nat
    /\ hlTwice \in BOOLEAN /\ hlEvent \in BOOLEAN /\ hlStale \in BOOLEAN /\ hlLogged \in BOOLEAN

(***************************************************************************)
(* Every socket is closed exactly once, although two threads close the     *)
(* listen socket, and a stopped server leaves none open.                   *)
(***************************************************************************)
SocketsClosedOnce ==
    /\ ~hlTwice
    /\ hlOwner.pc = "down" => hlOpen = {} /\ hlSock = 0

(***************************************************************************)
(* A password is stored whole or not at all, and no body is logged while   *)
(* its password is in it.                                                  *)
(***************************************************************************)
PasswordWhole == hlPw.what # "half" /\ ~hlLogged

(***************************************************************************)
(* A recomputation that the position of a request triggers already sees    *)
(* the occlusion values of that request.                                   *)
(***************************************************************************)
OcclusionBeforePosition == ~hlStale

(***************************************************************************)
(* Every error is told, by a line of its own or in the number of a later   *)
(* one, or is still counted for the next line.                             *)
(***************************************************************************)
ErrorsAccounted == hlThr.events = hlThr.told + hlThr.suppressed

HttpIsSafe ==
    SocketsClosedOnce /\ PasswordWhole /\ OcclusionBeforePosition /\ ErrorsAccounted

(***************************************************************************)
(* A stop ends: the thread leaves accept(), the back-off, or a client that *)
(* sends its header for ever.  Without a stop, the server listens again    *)
(* once the failures are over.                                             *)
(***************************************************************************)
Stopping == hlOwner.pc \in {"close", "closing", "join", "joined", "closing again"}
Deaf     == hlOwner.pc = "up" /\ hlSock = 0
StopEnds     == []<>~Stopping
ListensAgain == []<>~Deaf
=============================================================================
