---------------------------- MODULE PeerExchange ----------------------------
(***************************************************************************)
(* What the clients of one server announce to each other once: the voice   *)
(* mode (CEMODE, ts3_cemode.c), the Steam identity (CEAUTH, ts3_ceauth.c)  *)
(* and the plugin version (CEVER, ts3_plugin_version.c).  The three share  *)
(* one scheme: announce on connect, on a tab switch and on a change;       *)
(* answer the first announcement of a peer once; forget who leaves.  They  *)
(* differ in how an announcement is sent, see FlushMode, FlushAuth and     *)
(* FlushVersion; proto says which of the three a behaviour is about.       *)
(*                                                                         *)
(* A client is a record.  The server delivers commands and departures to   *)
(* every client in one order.  The callback thread runs the handlers; the  *)
(* hotkey thread switches the mode in two steps.  Names and values are     *)
(* abstract, and so is how they are written on the wire.                   *)
(***************************************************************************)
EXTENDS Naturals, Sequences

CONSTANTS
  PxClients,
  RetryMax,            \* CEMODE_SEND_RETRY_MAX
  PxMaxEvents,         \* bound: joins, departures, tab switches, mode switches
  PxMaxFaults          \* bound: sends refused by TeamSpeak

PxAssumption == {RetryMax, PxMaxEvents, PxMaxFaults} \subseteq Nat

VARIABLES
  proto,               \* "mode", "auth" or "version"
  client,              \* the state of each client
  mail,                \* what the server has to deliver to each client, in order
  pxEvents, pxFaults   \* bounds

pxvars == <<proto, client, mail, pxEvents, pxFaults>>

Protocols == {"mode", "auth", "version"}
Values    == {0, 1}                          \* 0 in "auth": Steam does not run
Unread    == 2
Unknown   == [known |-> FALSE, val |-> 0, replied |-> FALSE]
Entry     == [known : BOOLEAN, val : Values, replied : BOOLEAN]

ClientState ==
  [status     : {"off", "shown", "hidden"},  \* not connected; active tab; another tab is
   registered : BOOLEAN,                     \* TeamSpeak has given the plugin its id
   val        : Values,                      \* what the client has to announce
   signalling : BOOLEAN,                     \* a mode switch has not signalled yet
   pend       : BOOLEAN,                     \* g_sendPending, g_broadcastRetry
   claimed    : BOOLEAN,                     \* in the flush, the flag taken
   wire       : Values \cup {Unread},        \* the mode it has read
   hot        : BOOLEAN,                     \* less than CEMODE_SEND_MIN_MS since the last send
   fails      : 0..RetryMax,                 \* g_sendFailures
   peers      : [PxClients -> Entry],        \* g_peers, the version map
   dropped    : BOOLEAN,                     \* history: the last announcement was given up
   returned   : BOOLEAN]                     \* history: shown again without a new connection

Mail == [from : PxClients, left : BOOLEAN, val : Values]

PxTypeOK ==
  /\ proto \in Protocols
  /\ client \in [PxClients -> ClientState]
  /\ mail \in [PxClients -> Seq(Mail)]
  /\ pxEvents \in 0..PxMaxEvents /\ pxFaults \in 0..PxMaxFaults
  /\ \A c \in PxClients : client[c].wire # Unread => client[c].claimed
  /\ \A c \in PxClients : proto # "mode" => ~client[c].claimed /\ client[c].fails = 0

PxInit ==
  /\ proto \in Protocols
  /\ \E v \in [PxClients -> Values] :
       /\ proto # "auth" => \A c \in PxClients : v[c] = 0
       /\ client = [c \in PxClients |->
            [status |-> "off", registered |-> TRUE, val |-> v[c], signalling |-> FALSE,
             pend |-> FALSE, claimed |-> FALSE, wire |-> Unread, hot |-> FALSE, fails |-> 0,
             peers |-> [p \in PxClients |-> Unknown], dropped |-> FALSE, returned |-> FALSE]]
  /\ mail = [c \in PxClients |-> <<>>]
  /\ pxEvents = 0 /\ pxFaults = 0
-----------------------------------------------------------------------------
Connected(c) == client[c].status # "off"
Shown(c)     == client[c].status = "shown"
AtRest(c)    == Shown(c) /\ ~client[c].claimed

\* The server hands m to everybody on it, the sender included.
ToAll(box, m) ==
  [c \in PxClients |-> IF Connected(c) \/ c = m.from THEN Append(box[c], m) ELSE box[c]]
Command(c, v) == [from |-> c, left |-> FALSE, val |-> v]

Fault(sent) ==
  /\ pxFaults' = IF sent THEN pxFaults ELSE pxFaults + 1
  /\ pxFaults' <= PxMaxFaults
Happening == pxEvents < PxMaxEvents /\ pxEvents' = pxEvents + 1

\* ts3_cemode_reset, ts3_ceauth_reset, ts3_version_reset.
PxReset(s) ==
  [s EXCEPT !.peers = [p \in PxClients |-> Unknown], !.pend = FALSE, !.hot = FALSE, !.fails = 0]

\* version_send_broadcast: the own version is stored without a reply flag.
VersionSent(c, s) == [s EXCEPT !.peers[c].known = TRUE, !.peers[c].val = s.val, !.dropped = FALSE]

\* What ts3_bootstrap_connected_session does for the protocol, in state s of
\* client c and mailboxes box.
Bootstrap(c, s, box, sent) ==
  CASE proto # "version" ->
         /\ client' = [client EXCEPT ![c] = [s EXCEPT !.pend = TRUE]] /\ mail' = box
    [] proto = "version" /\ s.registered /\ sent ->
         /\ client' = [client EXCEPT ![c] = VersionSent(c, s)]
         /\ mail' = ToAll(box, Command(c, s.val))
    [] OTHER ->    \* refused: worth a retry only while the plugin has no id
         /\ client' = [client EXCEPT ![c] = [s EXCEPT !.pend = ~s.registered, !.dropped = s.registered]]
         /\ mail' = box
-----------------------------------------------------------------------------
(* Connections and tabs.                                                   *)

PxConnect(c) ==
  /\ ~Connected(c) /\ Happening
  /\ \E sent \in BOOLEAN :
       /\ proto # "version" => sent
       /\ Fault(sent)
       /\ Bootstrap(c, [PxReset(client[c]) EXCEPT !.status = "shown", !.returned = FALSE],
                    [mail EXCEPT ![c] = <<>>], sent)
  /\ UNCHANGED proto

\* The client leaves; the others are told with newChannelID 0.
PxDisconnect(c) ==
  /\ Connected(c) /\ ~client[c].claimed /\ Happening
  /\ client' = [client EXCEPT ![c] = [PxReset(@) EXCEPT !.status = "off"]]
  /\ mail' = [p \in PxClients |->
                IF p = c THEN <<>>
                ELSE IF Connected(p) THEN Append(mail[p], [from |-> c, left |-> TRUE, val |-> 0])
                ELSE mail[p]]
  /\ UNCHANGED <<proto, pxFaults>>

\* The user looks at another tab, or disables the plugin.
PxHide(c) ==
  /\ AtRest(c) /\ Happening
  /\ client' = [client EXCEPT ![c] = [PxReset(@) EXCEPT !.status = "hidden"]]
  /\ UNCHANGED <<proto, mail, pxFaults>>

\* He comes back, or enables the plugin, which then has no id at first.
PxShow(c) ==
  /\ client[c].status = "hidden" /\ Happening
  /\ \E sent, registered \in BOOLEAN :
       /\ (proto # "version" \/ ~registered) => sent
       /\ Fault(sent)
       /\ Bootstrap(c, [PxReset(client[c]) EXCEPT !.status = "shown", !.returned = TRUE,
                                                  !.registered = registered], mail, sent)
  /\ UNCHANGED proto

\* ts3plugin_registerPluginID.
PxRegister(c) ==
  /\ ~client[c].registered
  /\ client' = [client EXCEPT ![c].registered = TRUE]
  /\ UNCHANGED <<proto, mail, pxEvents, pxFaults>>
-----------------------------------------------------------------------------
(* The hotkey thread.                                                      *)

SwitchMode(c) ==
  /\ proto = "mode" /\ ~client[c].signalling /\ Happening
  /\ client' = [client EXCEPT ![c].val = 1 - @, ![c].signalling = TRUE]
  /\ UNCHANGED <<proto, mail, pxFaults>>

\* ts3_cemode_signal_send_pending
SignalMode(c) ==
  /\ client[c].signalling
  /\ client' = [client EXCEPT ![c].signalling = FALSE, ![c].pend = TRUE]
  /\ UNCHANGED <<proto, mail, pxEvents, pxFaults>>
-----------------------------------------------------------------------------
(* The CEDRAIN dispatcher.  A drain reaches a client only with an id.      *)

MayFlush(c) == AtRest(c) /\ client[c].registered /\ client[c].pend /\ ~client[c].hot

\* ts3_cemode_flush takes the flag before it reads the mode ...
FlushClaim(c) ==
  /\ proto = "mode" /\ MayFlush(c)
  /\ client' = [client EXCEPT ![c].claimed = TRUE, ![c].pend = FALSE]
  /\ UNCHANGED <<proto, mail, pxEvents, pxFaults>>

AfterSendClears(s, sent) ==       \* mutant: the flag is cleared after the send
  [s EXCEPT !.hot = TRUE, !.fails = 0, !.pend = FALSE, !.dropped = ~sent]

AfterSendForgets(s, sent) ==      \* mutant: a refused send is not tried again
  IF sent THEN [s EXCEPT !.hot = TRUE, !.fails = 0, !.dropped = FALSE] ELSE [s EXCEPT !.hot = TRUE]

\* ... and after a refused send raises it again, RetryMax times in a row.
AfterSend(s, sent) ==
  IF sent THEN [s EXCEPT !.hot = TRUE, !.fails = 0, !.dropped = FALSE]
  ELSE IF s.fails < RetryMax THEN [s EXCEPT !.fails = @ + 1, !.pend = TRUE]
  ELSE [s EXCEPT !.fails = 0, !.dropped = TRUE]

FlushRead(c) ==
  /\ client[c].claimed /\ client[c].wire = Unread
  /\ client' = [client EXCEPT ![c].wire = client[c].val]
  /\ UNCHANGED <<proto, mail, pxEvents, pxFaults>>

FlushMode(c) ==
  /\ client[c].wire # Unread
  /\ \E sent \in BOOLEAN :
       /\ Fault(sent)
       /\ client' = [client EXCEPT ![c] = AfterSend([@ EXCEPT !.claimed = FALSE, !.wire = Unread], sent)]
       /\ mail' = IF sent THEN ToAll(mail, Command(c, client[c].wire)) ELSE mail
  /\ UNCHANGED <<proto, pxEvents>>

\* ts3_ceauth_flush clears the flag whatever became of the send.
FlushAuth(c) ==
  /\ proto = "auth" /\ MayFlush(c)
  /\ LET s == [client[c] EXCEPT !.pend = FALSE]
     IN IF client[c].val = 0
        THEN client' = [client EXCEPT ![c] = s] /\ UNCHANGED <<mail, pxFaults>>
        ELSE \E sent \in BOOLEAN :
               /\ Fault(sent)
               /\ client' = [client EXCEPT ![c] = [s EXCEPT !.hot = sent, !.dropped = ~sent]]
               /\ mail' = IF sent THEN ToAll(mail, Command(c, s.val)) ELSE mail
  /\ UNCHANGED <<proto, pxEvents>>

\* ts3_version_flush_broadcast: one attempt once the id is there.
FlushVersion(c) ==
  /\ proto = "version" /\ MayFlush(c)
  /\ \E sent \in BOOLEAN :
       LET s == [client[c] EXCEPT !.pend = FALSE]
       IN /\ Fault(sent)
          /\ client' = [client EXCEPT ![c] = IF sent THEN VersionSent(c, s) ELSE [s EXCEPT !.dropped = TRUE]]
          /\ mail' = IF sent THEN ToAll(mail, Command(c, s.val)) ELSE mail
  /\ UNCHANGED <<proto, pxEvents>>

RateLimitOver(c) ==
  /\ client[c].hot
  /\ client' = [client EXCEPT ![c].hot = FALSE]
  /\ UNCHANGED <<proto, mail, pxEvents, pxFaults>>
-----------------------------------------------------------------------------
(* Deliveries.  A tab that is not shown ignores everything.                *)

StoreAnswersAlways(s, p, v) ==      \* mutant: the reply flag is not kept
  [s EXCEPT !.peers[p] = [known |-> TRUE, val |-> v, replied |-> FALSE]]

\* g_peers[p] after a command of p.
Store(s, p, v) == [s EXCEPT !.peers[p] = [known |-> TRUE, val |-> v, replied |-> TRUE]]

\* The handlers of ts3plugin_onPluginCommandEvent.  The own command comes
\* back too; only CEVER does not skip it.
Receive(c) ==
  /\ mail[c] # <<>> /\ AtRest(c) /\ client[c].registered /\ ~Head(mail[c]).left
  /\ LET m     == Head(mail[c])
         s     == Store(client[c], m.from, m.val)
         first == ~client[c].peers[m.from].replied
         rest  == [mail EXCEPT ![c] = Tail(@)]
     IN \E sent \in BOOLEAN :
          /\ (proto # "version" \/ ~first) => sent
          /\ Fault(sent)
          /\ client' = [client EXCEPT ![c] =
               CASE proto # "version" /\ m.from = c -> @
                 [] proto # "version" /\ m.from # c -> [s EXCEPT !.pend = @ \/ first]
                 [] proto = "version" /\ ~first     -> s
                 [] OTHER -> IF sent THEN VersionSent(c, s) ELSE [s EXCEPT !.dropped = TRUE]]
          /\ mail' = IF proto = "version" /\ first /\ sent
                     THEN ToAll(rest, Command(c, s.val)) ELSE rest
  /\ UNCHANGED <<proto, pxEvents>>

ForgetNothing(s, p) == s      \* mutant: no clear_client on a departure

\* ts3_version_clear_client, ts3_cemode_clear_client, ts3_ceauth_clear_client.
Forget(s, p) == [s EXCEPT !.peers[p] = Unknown]

PeerLeaves(c) ==
  /\ mail[c] # <<>> /\ AtRest(c) /\ Head(mail[c]).left
  /\ client' = [client EXCEPT ![c] = Forget(@, Head(mail[c]).from)]
  /\ mail' = [mail EXCEPT ![c] = Tail(@)]
  /\ UNCHANGED <<proto, pxEvents, pxFaults>>

NotMine(c) ==
  /\ mail[c] # <<>>
  /\ \/ client[c].status = "hidden"
     \/ AtRest(c) /\ ~client[c].registered /\ ~Head(mail[c]).left
  /\ mail' = [mail EXCEPT ![c] = Tail(@)]
  /\ UNCHANGED <<proto, client, pxEvents, pxFaults>>

PxNext == \E c \in PxClients :
  \/ PxConnect(c) \/ PxDisconnect(c) \/ PxHide(c) \/ PxShow(c) \/ PxRegister(c)
  \/ SwitchMode(c) \/ SignalMode(c)
  \/ FlushClaim(c) \/ FlushRead(c) \/ FlushMode(c) \/ FlushAuth(c) \/ FlushVersion(c)
  \/ RateLimitOver(c)
  \/ Receive(c) \/ PeerLeaves(c) \/ NotMine(c)

(* TeamSpeak delivers, the adapter drains, and the threads go on; the user *)
(* need do nothing.                                                        *)
PxWork(c) ==
  \/ PxRegister(c) \/ SignalMode(c) \/ RateLimitOver(c)
  \/ FlushClaim(c) \/ FlushRead(c) \/ FlushMode(c) \/ FlushAuth(c) \/ FlushVersion(c)
  \/ Receive(c) \/ PeerLeaves(c) \/ NotMine(c)
PxFairness == \A c \in PxClients : WF_pxvars(PxWork(c))

PxSpec == PxInit /\ [][PxNext]_pxvars /\ PxFairness
-----------------------------------------------------------------------------
Settled == \A c \in PxClients :
  mail[c] = <<>> /\ ~client[c].pend /\ ~client[c].claimed /\ ~client[c].signalling

Announces(p) == Shown(p) /\ ~client[p].dropped /\ ~(proto = "auth" /\ client[p].val = 0)

(* When everything raised has been sent and delivered, whoever is on the   *)
(* server for the first time since he connected knows what everybody else  *)
(* announces, whatever order they joined in.  Who announces nothing        *)
(* himself, without Steam or after a send that was given up, gets no       *)
(* answers.                                                                *)
EverybodyKnown ==
  Settled => \A c, p \in PxClients :
    c # p /\ Announces(c) /\ Announces(p) /\ ~client[c].returned => client[c].peers[p].known

(* What is known is what the peer has now: no mode switch is lost between  *)
(* the flag, the read of the mode and the send (ts3_cemode.c:107-113), and *)
(* nothing remains of a peer that has left.                                *)
NothingStale ==
  Settled => \A c, p \in PxClients :
    c # p /\ Shown(c) /\ client[c].peers[p].known =>
      /\ Connected(p)
      /\ Announces(p) => client[c].peers[p].val = client[p].val

(* Both together: the clients know of each other what is the case.         *)
ExchangeSafe == EverybodyKnown /\ NothingStale

(* Announcements come to an end: the answers of the clients do not call    *)
(* for each other for ever, and a send that is refused again and again is  *)
(* given up.                                                               *)
Quiet == \A c \in PxClients : client[c].status # "off" => mail[c] = <<>>
ExchangeEnds == <>[]Quiet

(* "Danach ist der Austausch komplett" (ce-protokoll.md:197): also after a *)
(* look at another tab, on return from which the client announces itself.  *)
ExchangeComplete ==
  Settled => \A c, p \in PxClients :
    c # p /\ Announces(c) /\ Announces(p) => client[c].peers[p].known
=============================================================================
