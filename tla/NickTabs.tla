------------------------------ MODULE NickTabs ------------------------------
(***************************************************************************)
(* The anonymizer over several tabs and servers: one saved name, whichever *)
(* tab is active.  Tabs connect, are shown and are lost in any order, and  *)
(* channel management anonymizes and restores whenever it likes.           *)
(***************************************************************************)
EXTENDS Nickname, Naturals

CONSTANTS
  Handlers, Servers,   \* tabs; servers, and the real names used on them
  MaxConnects          \* bound: connects

NickAssumption ==
  /\ Digits \notin Servers /\ NoName \notin Servers /\ Digits # NoName
  /\ MaxConnects \in Nat

Names == Servers \cup {NoName}
NickTypes == [anon : BOOLEAN, saved : Names,
              bound : [handler : Handlers \cup {NoName}, uid : Names]]

VARIABLES
  nick,          \* the state of the module
  active,        \* the active tab, NoName before the first
  tabServer,     \* the server each tab is connected to, or NoName
  shown,         \* the nickname TeamSpeak shows on each tab
  connects,      \* bound
  blind          \* history: a name went to another server than its own, at a moment
                 \* when the id of one of the two was not known

nvars == <<nick, active, tabServer, shown, connects, blind>>

NickTypeOK ==
  /\ nick \in NickTypes
  /\ active \in Handlers \cup {NoName}
  /\ tabServer \in [Handlers -> Names] /\ shown \in [Handlers -> Names \cup {Digits}]
  /\ connects \in 0..MaxConnects /\ blind \in BOOLEAN

NickInit ==
  /\ nick = NickReset /\ active = NoName
  /\ tabServer = [h \in Handlers |-> NoName] /\ shown = [h \in Handlers |-> NoName]
  /\ connects = 0 /\ blind = FALSE

\* What nick_binding_current yields on tab h, connected to s: getServerVariable of
\* the unique identifier may fail.
Now(h, s) == {Binding(h, u) : u \in {s, NoName}}

TabOnline == active # NoName /\ tabServer[active] # NoName

\* A tab connects and is, or is shown as, the active one.  TeamSpeak keeps
\* the nickname a tab had before, or takes the one of the new server.
NickConnect(h, s) ==
  /\ tabServer[h] = NoName /\ connects < MaxConnects
  /\ connects' = connects + 1
  /\ tabServer' = [tabServer EXCEPT ![h] = s]
  /\ active' = h
  /\ \E name \in {s} \cup ({Digits} \cap {shown[h]}), now \in Now(h, s) :
        /\ shown' = [shown EXCEPT ![h] = name]
        /\ nick' = NickOnConnected(nick, name, now)
  /\ UNCHANGED blind

\* The user shows another tab, connected or not.
NickSwitchTab(h) ==
  /\ h # active /\ active # NoName
  /\ active' = h
  /\ IF tabServer[h] = NoName THEN nick' = nick
     ELSE \E now \in Now(h, tabServer[h]) : nick' = NickOnConnected(nick, shown[h], now)
  /\ UNCHANGED <<tabServer, shown, connects, blind>>

\* A tab loses its connection; the saved name stays.
NickDisconnect(h) ==
  /\ tabServer[h] # NoName
  /\ tabServer' = [tabServer EXCEPT ![h] = NoName]
  /\ UNCHANGED <<nick, active, shown, connects, blind>>

\* Channel management is about to move the player to the game channel.
NickEnter ==
  /\ TabOnline
  /\ \E now \in Now(active, tabServer[active]), renamed \in BOOLEAN :
       LET r == NickBeforeIngame(nick, shown[active], now, renamed)
       IN nick' = r.nick /\ shown' = [shown EXCEPT ![active] = r.name]
  /\ UNCHANGED <<active, tabServer, connects, blind>>

\* The player is outside the game channel, or the move has failed.
NickLeave ==
  /\ TabOnline
  /\ \E now \in Now(active, tabServer[active]), renamed \in BOOLEAN :
       LET r == NickRestore(nick, shown[active], now, renamed)
       IN /\ nick' = r.nick /\ shown' = [shown EXCEPT ![active] = r.name]
          /\ blind' = \/ blind
                      \/ /\ r.name \notin {tabServer[active], Digits}
                         /\ NoName \in {nick.bound.uid, now.uid}
  /\ UNCHANGED <<active, tabServer, connects>>

NickNext ==
  \/ \E h \in Handlers, s \in Servers : NickConnect(h, s)
  \/ \E h \in Handlers : NickSwitchTab(h) \/ NickDisconnect(h)
  \/ NickEnter \/ NickLeave

NickSpec == NickInit /\ [][NickNext]_nvars
-----------------------------------------------------------------------------
(* The names of the tabs are their own: "two tabs (or one tab after a      *)
(* server switch) must never hand each other's name back"                  *)
(* (nick_anonymize.c:22-24).  This fails where the id of a server is not   *)
(* known and one tab has changed its server.                               *)
OwnNamesOnly ==
  \A h \in Handlers : tabServer[h] # NoName => shown[h] \in {tabServer[h], Digits}

(* No tab is given a name of another server, unless the id of one of the   *)
(* two servers was not known when the name was saved or given back.        *)
NoForeignName == blind \/ OwnNamesOnly
=============================================================================
