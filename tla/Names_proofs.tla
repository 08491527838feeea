---------------------------- MODULE Names_proofs ----------------------------
(***************************************************************************)
(* The anonymized nickname: it can always be undone while the plugin runs, *)
(* it goes away with the game channel (ChannelMove), and no tab is handed  *)
(* the name of another one (NickTabs).                                     *)
(***************************************************************************)
EXTENDS ChannelMove, NickTabs, FiniteSetTheorems, TLAPS

-----------------------------------------------------------------------------
(* The tabs.  Beyond the property: the saved name is the one of the server *)
(* it is bound to, if the binding names one, so that a name that matches   *)
(* the connection is its own, unless one of the two ids is not known.      *)

SavedIsBound == nick.saved # NoName => nick.bound.uid \in {nick.saved, NoName}

TabsInv == NickTypeOK /\ (blind \/ (OwnNamesOnly /\ SavedIsBound))

Bindings == [handler : Handlers \cup {NoName}, uid : Names]

\* What every entry point of the module keeps of its state.
Kept(n) == n \in NickTypes /\ (n.saved # NoName => n.bound.uid \in {n.saved, NoName})

(* Types, whatever name is shown.                                          *)
LEMMA TabTypes ==
  ASSUME NEW n \in NickTypes, NEW shows \in Names \cup {Digits}, NEW now \in Bindings,
         NEW renamed \in BOOLEAN
  PROVE  /\ NickOnConnected(n, shows, now) \in NickTypes
         /\ LET r == NickBeforeIngame(n, shows, now, renamed)
            IN r.nick \in NickTypes /\ r.name \in Names \cup {Digits}
         /\ LET r == NickRestore(n, shows, now, renamed)
            IN r.nick \in NickTypes /\ r.name \in Names \cup {Digits}
<1>1. NoBinding \in Bindings /\ NoName \in Names
  BY DEF NoBinding, Binding, Names, Bindings
<1>2. NickReset \in NickTypes
  BY <1>1 DEF NickReset, NickTypes, Bindings
<1>3. \A m \in NickTypes : Forget(m) \in NickTypes /\ CheckSaved(m, now) \in NickTypes
  BY <1>1 DEF Forget, Save, CheckSaved, NickTypes, Bindings
<1>4. \A b \in BOOLEAN : [n EXCEPT !.anon = b] \in NickTypes
                         /\ [Forget(n) EXCEPT !.anon = b] \in NickTypes
  BY <1>3 DEF NickTypes
<1>5. shows # Digits => \A b \in BOOLEAN : [Save(n, shows, now) EXCEPT !.anon = b] \in NickTypes
  BY DEF Save, NickTypes, Bindings
<1>6. NickOnConnected(n, shows, now) \in NickTypes
  BY <1>3, <1>4, <1>5 DEF NickOnConnected
<1>7. LET r == NickBeforeIngame(n, shows, now, renamed)
      IN r.nick \in NickTypes /\ r.name \in Names \cup {Digits}
  BY <1>3, <1>4, <1>5 DEF NickBeforeIngame
<1>8. n.saved \in Names
  BY DEF NickTypes
<1>9. LET r == NickRestore(n, shows, now, renamed)
      IN r.nick \in NickTypes /\ r.name \in Names \cup {Digits}
  BY <1>2, <1>8 DEF NickRestore
<1>10. QED BY <1>6, <1>7, <1>9

LEMMA ForgottenIsKept ==
  ASSUME NEW n, Kept(n), NEW now \in Bindings
  PROVE  /\ Kept(Forget(n)) /\ Kept(CheckSaved(n, now)) /\ Kept([n EXCEPT !.anon = TRUE])
         /\ Kept(NickReset)
<1>1. NoBinding \in Bindings /\ NoName \in Names
  BY DEF NoBinding, Binding, Names, Bindings
<1>2. Kept(Forget(n))
  BY <1>1 DEF Kept, Forget, Save, NickTypes, Bindings
<1>3. Kept([n EXCEPT !.anon = TRUE])
  BY DEF Kept, NickTypes
<1>4. Kept(NickReset)
  BY <1>1 DEF Kept, NickReset, NickTypes, Bindings
<1>5. QED BY <1>2, <1>3, <1>4 DEF CheckSaved

\* The binding that is read on tab h, connected to s.
LEMMA NowIsBinding ==
  ASSUME NEW h \in Handlers, NEW s \in Servers, NEW now \in Now(h, s)
  PROVE  now \in Bindings /\ now.handler = h /\ now.uid \in {s, NoName}
BY DEF Now, Binding, Bindings, Names

LEMMA SavedIsKept ==
  ASSUME NEW n \in NickTypes, NEW h \in Handlers, NEW s \in Servers,
         NEW now \in Now(h, s), NEW b \in BOOLEAN
  PROVE  Kept([Save(n, s, now) EXCEPT !.anon = b])
<1>1. now \in Bindings /\ now.uid \in {s, NoName} /\ s \in Names
  BY NowIsBinding DEF Names
<1>2. QED BY <1>1 DEF Kept, Save, NickTypes, Bindings

LEMMA TabConnected ==
  ASSUME NEW n, Kept(n), NEW h \in Handlers, NEW s \in Servers, NEW now \in Now(h, s),
         NEW shows \in {s, Digits}
  PROVE  Kept(NickOnConnected(n, shows, now))
<1>1. now \in Bindings /\ n \in NickTypes
  BY NowIsBinding DEF Kept
<1>2. CASE shows # Digits
  BY <1>1, <1>2, SavedIsKept DEF NickOnConnected
<1>3. CASE shows = Digits
  <2>1. Kept([n EXCEPT !.anon = TRUE])
    BY <1>1, ForgottenIsKept
  <2>2. Kept(CheckSaved([n EXCEPT !.anon = TRUE], now))
    BY <1>1, <2>1, ForgottenIsKept
  <2>3. QED BY <1>3, <2>2 DEF NickOnConnected
<1>4. QED BY <1>2, <1>3

LEMMA TabEnters ==
  ASSUME NEW n, Kept(n), NEW h \in Handlers, NEW s \in Servers, NEW now \in Now(h, s),
         NEW shows \in {s, Digits}, NEW renamed \in BOOLEAN
  PROVE  LET r == NickBeforeIngame(n, shows, now, renamed)
         IN Kept(r.nick) /\ r.name \in {s, Digits}
<1>1. now \in Bindings /\ n \in NickTypes
  BY NowIsBinding DEF Kept
<1>2. Kept([n EXCEPT !.anon = TRUE])
  BY <1>1, ForgottenIsKept
<1>3. Kept(CheckSaved([n EXCEPT !.anon = TRUE], now))
  BY <1>1, <1>2, ForgottenIsKept
<1>4. Kept([Forget(n) EXCEPT !.anon = FALSE])
  <2>1. Kept(Forget(n))
    BY <1>1, ForgottenIsKept
  <2>2. QED BY <2>1 DEF Kept, NickTypes
<1>5. CASE shows = Digits
  BY <1>3, <1>5 DEF NickBeforeIngame
<1>6. CASE shows # Digits
  BY <1>1, <1>4, <1>6, SavedIsKept DEF NickBeforeIngame
<1>7. QED BY <1>5, <1>6

\* A name that is restored on a tab is the one of its server, if both ids are known.
LEMMA TabLeaves ==
  ASSUME NickAssumption, NEW n, Kept(n), NEW h \in Handlers, NEW s \in Servers,
         NEW now \in Now(h, s), NEW shows \in {s, Digits}, NEW renamed \in BOOLEAN
  PROVE  LET r == NickRestore(n, shows, now, renamed)
         IN /\ Kept(r.nick)
            /\ r.name \in {s, Digits} \/ NoName \in {n.bound.uid, now.uid}
<1>1. now \in Bindings /\ now.uid \in {s, NoName} /\ s # NoName
  BY NowIsBinding DEF NickAssumption
<1>2. Kept(NickReset)
  BY <1>1, ForgottenIsKept
<1>3. SavedUsable(n, now) => n.saved = s \/ NoName \in {n.bound.uid, now.uid}
  BY <1>1 DEF SavedUsable, BindingMatches, Kept
<1>4. QED BY <1>2, <1>3 DEF NickRestore

(* Every step keeps the types.                                             *)
LEMMA TabsTyped ==
  ASSUME NickAssumption, NickTypeOK, [NickNext]_nvars
  PROVE  NickTypeOK'
<1> USE DEF NickTypeOK
<1>1. \A h \in Handlers : tabServer[h] # NoName => tabServer[h] \in Servers
  BY DEF Names
<1>2. ASSUME NEW h \in Handlers, NEW s \in Servers, NickConnect(h, s) PROVE NickTypeOK'
  <2>1. PICK shows \in {s} \cup ({Digits} \cap {shown[h]}), now \in Now(h, s) :
             /\ shown' = [shown EXCEPT ![h] = shows]
             /\ nick' = NickOnConnected(nick, shows, now)
    BY <1>2 DEF NickConnect
  <2>2. shows \in Names \cup {Digits} /\ s \in Names /\ now \in Bindings
    BY NowIsBinding DEF Names
  <2>3. nick' \in NickTypes
    BY <2>1, <2>2, TabTypes
  <2>4. /\ tabServer' = [tabServer EXCEPT ![h] = s] /\ active' = h /\ blind' = blind
        /\ connects' \in 0..MaxConnects
    BY <1>2 DEF NickConnect, NickAssumption
  <2>5. QED BY <2>1, <2>2, <2>3, <2>4
<1>3. ASSUME NEW h \in Handlers, NickSwitchTab(h) PROVE NickTypeOK'
  <2>1. UNCHANGED <<tabServer, shown, connects, blind>> /\ active' = h
    BY <1>3 DEF NickSwitchTab
  <2>2. CASE tabServer[h] = NoName
    <3>1. nick' = nick
      BY <1>3, <2>2 DEF NickSwitchTab
    <3>2. QED BY <2>1, <3>1
  <2>3. CASE tabServer[h] # NoName
    <3>1. PICK now \in Now(h, tabServer[h]) : nick' = NickOnConnected(nick, shown[h], now)
      BY <1>3, <2>3 DEF NickSwitchTab
    <3>2. now \in Bindings
      BY <1>1, <2>3, NowIsBinding
    <3>3. nick' \in NickTypes
      BY <3>1, <3>2, TabTypes
    <3>4. QED BY <2>1, <3>3
  <2>4. QED BY <2>2, <2>3
<1>4. ASSUME NEW h \in Handlers, NickDisconnect(h) PROVE NickTypeOK'
  <2>1. /\ UNCHANGED <<nick, active, shown, connects, blind>>
        /\ tabServer' = [tabServer EXCEPT ![h] = NoName]
    BY <1>4 DEF NickDisconnect
  <2>2. QED BY <2>1 DEF Names
<1>5. TabOnline => /\ active \in Handlers /\ shown[active] \in Names \cup {Digits}
                   /\ \A now \in Now(active, tabServer[active]) : now \in Bindings
  BY <1>1, NowIsBinding DEF TabOnline
<1>6. CASE NickEnter
  <2>1. PICK now \in Now(active, tabServer[active]), renamed \in BOOLEAN :
          LET r == NickBeforeIngame(nick, shown[active], now, renamed)
          IN nick' = r.nick /\ shown' = [shown EXCEPT ![active] = r.name]
    BY <1>6 DEF NickEnter
  <2>2. TabOnline /\ UNCHANGED <<active, tabServer, connects, blind>>
    BY <1>6 DEF NickEnter
  <2>3. LET r == NickBeforeIngame(nick, shown[active], now, renamed)
        IN r.nick \in NickTypes /\ r.name \in Names \cup {Digits}
    BY <1>5, <2>2, TabTypes
  <2>4. QED BY <1>5, <2>1, <2>2, <2>3
<1>7. CASE NickLeave
  <2>1. PICK now \in Now(active, tabServer[active]), renamed \in BOOLEAN :
          LET r == NickRestore(nick, shown[active], now, renamed)
          IN /\ nick' = r.nick /\ shown' = [shown EXCEPT ![active] = r.name]
             /\ blind' \in BOOLEAN
    BY <1>7 DEF NickLeave
  <2>2. TabOnline /\ UNCHANGED <<active, tabServer, connects>>
    BY <1>7 DEF NickLeave
  <2>3. LET r == NickRestore(nick, shown[active], now, renamed)
        IN r.nick \in NickTypes /\ r.name \in Names \cup {Digits}
    BY <1>5, <2>2, TabTypes
  <2>4. QED BY <1>5, <2>1, <2>2, <2>3
<1>8. CASE UNCHANGED nvars
  BY <1>8 DEF nvars
<1>9. QED BY <1>2, <1>3, <1>4, <1>6, <1>7, <1>8 DEF NickNext

LEMMA TabsStep ==
  ASSUME NickAssumption, TabsInv, [NickNext]_nvars
  PROVE  TabsInv'
<1>1. NickTypeOK /\ NickTypeOK'
  BY TabsTyped DEF TabsInv
<1>2. blind => blind'
  <2>1. CASE NickLeave
    <3>1. PICK now \in Now(active, tabServer[active]), renamed \in BOOLEAN :
            LET r == NickRestore(nick, shown[active], now, renamed)
            IN blind' = \/ blind
                        \/ /\ r.name \notin {tabServer[active], Digits}
                           /\ NoName \in {nick.bound.uid, now.uid}
      BY <2>1 DEF NickLeave
    <3>2. QED BY <3>1
  <2>2. CASE UNCHANGED blind
    BY <2>2
  <2>3. NickLeave \/ UNCHANGED blind
    BY DEF NickNext, NickConnect, NickSwitchTab, NickDisconnect, NickEnter, nvars
  <2>4. QED BY <2>1, <2>2, <2>3
<1>3. SUFFICES ASSUME ~blind, ~blind' PROVE OwnNamesOnly' /\ SavedIsBound'
  BY <1>1, <1>2 DEF TabsInv
<1>4. OwnNamesOnly /\ Kept(nick)
  BY <1>1, <1>3 DEF TabsInv, Kept, SavedIsBound, NickTypeOK
<1>5. \A h \in Handlers : tabServer[h] # NoName => tabServer[h] \in Servers
  BY <1>1 DEF NickTypeOK, Names
<1>6. Kept(nick)' => SavedIsBound'
  BY DEF Kept, SavedIsBound
<1>7. ASSUME NEW h \in Handlers, NEW s \in Servers, NickConnect(h, s)
      PROVE  OwnNamesOnly' /\ SavedIsBound'
  <2>1. PICK shows \in {s} \cup ({Digits} \cap {shown[h]}), now \in Now(h, s) :
             /\ shown' = [shown EXCEPT ![h] = shows]
             /\ nick' = NickOnConnected(nick, shows, now)
    BY <1>7 DEF NickConnect
  <2>2. Kept(nick)'
    BY <1>4, <2>1, TabConnected DEF Kept
  <2>3. tabServer' = [tabServer EXCEPT ![h] = s]
    BY <1>7 DEF NickConnect
  <2>4. OwnNamesOnly'
    BY <1>1, <1>4, <2>1, <2>3 DEF OwnNamesOnly, NickTypeOK
  <2>5. QED BY <1>6, <2>2, <2>4
<1>8. ASSUME NEW h \in Handlers, NickSwitchTab(h) PROVE OwnNamesOnly' /\ SavedIsBound'
  <2>1. UNCHANGED <<tabServer, shown>>
    BY <1>8 DEF NickSwitchTab
  <2>2. OwnNamesOnly'
    BY <1>4, <2>1 DEF OwnNamesOnly
  <2>3. CASE tabServer[h] = NoName
    <3>1. nick' = nick
      BY <1>8, <2>3 DEF NickSwitchTab
    <3>2. QED BY <1>4, <1>6, <2>2, <3>1 DEF Kept
  <2>4. CASE tabServer[h] # NoName
    <3>1. PICK now \in Now(h, tabServer[h]) : nick' = NickOnConnected(nick, shown[h], now)
      BY <1>8, <2>4 DEF NickSwitchTab
    <3>2. tabServer[h] \in Servers /\ shown[h] \in {tabServer[h], Digits}
      BY <1>4, <1>5, <2>4 DEF OwnNamesOnly
    <3>3. Kept(nick)'
      BY <1>4, <3>1, <3>2, TabConnected DEF Kept
    <3>4. QED BY <1>6, <2>2, <3>3
  <2>5. QED BY <2>3, <2>4
<1>9. ASSUME NEW h \in Handlers, NickDisconnect(h) PROVE OwnNamesOnly' /\ SavedIsBound'
  <2>1. UNCHANGED <<nick, shown>> /\ tabServer' = [tabServer EXCEPT ![h] = NoName]
    BY <1>9 DEF NickDisconnect
  <2>2. OwnNamesOnly'
    BY <1>1, <1>4, <2>1 DEF OwnNamesOnly, NickTypeOK
  <2>3. QED BY <1>4, <1>6, <2>1, <2>2 DEF Kept
<1>10. ASSUME TabOnline, NEW r, Kept(r.nick), r.name \in {tabServer[active], Digits},
              nick' = r.nick, shown' = [shown EXCEPT ![active] = r.name], tabServer' = tabServer
       PROVE  OwnNamesOnly' /\ SavedIsBound'
  <2>1. Kept(nick)'
    BY <1>10 DEF Kept
  <2>2. OwnNamesOnly'
    BY <1>1, <1>4, <1>10 DEF OwnNamesOnly, NickTypeOK, TabOnline
  <2>3. QED BY <1>6, <2>1, <2>2
<1>11. TabOnline => /\ active \in Handlers /\ tabServer[active] \in Servers
                    /\ shown[active] \in {tabServer[active], Digits}
  BY <1>1, <1>4, <1>5 DEF TabOnline, NickTypeOK, OwnNamesOnly
<1>12. CASE NickEnter
  <2>1. PICK now \in Now(active, tabServer[active]), renamed \in BOOLEAN :
          LET r == NickBeforeIngame(nick, shown[active], now, renamed)
          IN nick' = r.nick /\ shown' = [shown EXCEPT ![active] = r.name]
    BY <1>12 DEF NickEnter
  <2>2. TabOnline /\ tabServer' = tabServer
    BY <1>12 DEF NickEnter
  <2>3. LET r == NickBeforeIngame(nick, shown[active], now, renamed)
        IN Kept(r.nick) /\ r.name \in {tabServer[active], Digits}
    BY <1>4, <1>11, <2>2, TabEnters
  <2>4. QED BY <1>10, <2>1, <2>2, <2>3
<1>13. CASE NickLeave
  <2>1. PICK now \in Now(active, tabServer[active]), renamed \in BOOLEAN :
          LET r == NickRestore(nick, shown[active], now, renamed)
          IN /\ nick' = r.nick /\ shown' = [shown EXCEPT ![active] = r.name]
             /\ blind' = \/ blind
                         \/ /\ r.name \notin {tabServer[active], Digits}
                            /\ NoName \in {nick.bound.uid, now.uid}
    BY <1>13 DEF NickLeave
  <2>2. TabOnline /\ tabServer' = tabServer
    BY <1>13 DEF NickLeave
  <2>3. LET r == NickRestore(nick, shown[active], now, renamed)
        IN Kept(r.nick) /\ r.name \in {tabServer[active], Digits}
    BY <1>3, <1>4, <1>11, <2>1, <2>2, TabLeaves
  <2>4. QED BY <1>10, <2>1, <2>2, <2>3
<1>14. CASE UNCHANGED nvars
  BY <1>4, <1>6, <1>14 DEF nvars, OwnNamesOnly, Kept
<1>15. QED BY <1>7, <1>8, <1>9, <1>12, <1>13, <1>14 DEF NickNext

(* Two tabs, or one tab after a change of the server, never hand each      *)
(* other's real name back, however connects, losses and tab changes follow *)
(* each other, until the id of one of the two servers was not known when   *)
(* the name was saved or given back (nick_anonymize.c:22-24, 43-54).       *)
THEOREM TabsKeepTheirNames ==
  ASSUME NickAssumption
  PROVE  NickSpec => [](NickTypeOK /\ NoForeignName)
<1>1. NickInit => TabsInv
  <2>1. NoName \in Names /\ NoBinding \in Bindings
    BY DEF Names, NoBinding, Binding, Bindings
  <2>2. NickReset \in NickTypes /\ NickReset.saved = NoName
    BY <2>1 DEF NickReset, NickTypes, Bindings
  <2>3. ASSUME NickInit PROVE NickTypeOK
    <3>1. nick \in NickTypes /\ active \in Handlers \cup {NoName} /\ connects \in 0..MaxConnects
      BY <2>2, <2>3 DEF NickInit, NickAssumption
    <3>2. blind \in BOOLEAN
      BY <2>3 DEF NickInit
    <3>3. /\ tabServer \in [Handlers -> Names]
          /\ shown \in [Handlers -> Names \cup {Digits}]
      BY <2>1, <2>3 DEF NickInit
    <3>4. QED BY <3>1, <3>2, <3>3 DEF NickTypeOK
  <2>4. ASSUME NickInit PROVE OwnNamesOnly /\ SavedIsBound
    BY <2>2, <2>4 DEF NickInit, OwnNamesOnly, SavedIsBound
  <2>5. QED BY <2>3, <2>4 DEF TabsInv
<1>2. TabsInv /\ [NickNext]_nvars => TabsInv'
  BY TabsStep
<1>3. TabsInv => NickTypeOK /\ NoForeignName
  BY DEF TabsInv, NoForeignName
<1>4. QED BY <1>1, <1>2, <1>3, PTL DEF NickSpec
-----------------------------------------------------------------------------
(* One connection.  The functions of channel_manage.c work on a record of  *)
(* the module's state, the shown name and the requests.                    *)

Outcome == [send : BOOLEAN, rename : BOOLEAN, list : BOOLEAN]
Shows == {Digits, RealName}

\* While digits are shown, the name of this connection is saved.
Undoable(n, shows) == shows = Digits => n.anon /\ n.saved = RealName /\ n.bound = Conn

Works == [c : ChanStates, name : Shows, out : Seq(Requests)]
Good(s) == s \in Works /\ Linked(s.c) /\ Undoable(s.c.nick, s.name)

\* Outside the game channel: the real name is shown, or a move is under way.
Fit(s) == s.name = RealName \/ s.c.toIngame

LEMMA OutcomesAre ==
  /\ AllWell \in Outcomes /\ Outcomes \subseteq Outcome
  /\ AllWell.send /\ AllWell.rename /\ AllWell.list
<1>1. AllWell \in Outcome /\ AllWell.send /\ AllWell.rename /\ AllWell.list
  BY DEF Outcome, AllWell
<1>2. \A call \in DOMAIN AllWell : [AllWell EXCEPT ![call] = FALSE] \in Outcome
  BY DEF Outcome, AllWell
<1>3. QED BY <1>1, <1>2 DEF Outcomes

LEMMA NamesDiffer ==
  ASSUME ChannelAssumption
  PROVE  /\ RealName # Digits /\ RealName # NoName
         /\ Conn = [handler |-> "tab", uid |-> RealName]
         /\ BindingMatches(Conn, Conn)
BY DEF ChannelAssumption, Conn, Binding, BindingMatches

LEMMA ConnUsable ==
  ASSUME ChannelAssumption, NEW n \in NickStates, n.saved = RealName, n.bound = Conn
  PROVE  SavedUsable(n, Conn)
BY NamesDiffer DEF SavedUsable

LEMMA NickConnected ==
  ASSUME ChannelAssumption, NEW n \in NickStates, NEW shows \in Shows, Undoable(n, shows)
  PROVE  LET r == NickOnConnected(n, shows, Conn) IN r \in NickStates /\ Undoable(r, shows)
<1>1. CASE shows = RealName
  BY <1>1, NamesDiffer DEF NickOnConnected, Save, NickStates, Undoable
<1>2. CASE shows = Digits
  <2>1. [n EXCEPT !.anon = TRUE] = n
    BY <1>2 DEF NickStates, Undoable
  <2>2. SavedUsable(n, Conn)
    BY <1>2, ConnUsable DEF Undoable
  <2>3. QED BY <1>2, <2>1, <2>2 DEF NickOnConnected, CheckSaved
<1>3. QED BY <1>1, <1>2 DEF Shows

LEMMA NickEntered ==
  ASSUME ChannelAssumption, NEW n \in NickStates, NEW shows \in Shows, Undoable(n, shows),
         NEW renamed \in BOOLEAN
  PROVE  LET r == NickBeforeIngame(n, shows, Conn, renamed)
         IN r.nick \in NickStates /\ r.name \in Shows /\ Undoable(r.nick, r.name)
<1>1. CASE shows = RealName
  <2>1. [Save(n, shows, Conn) EXCEPT !.anon = TRUE] \in NickStates
    BY <1>1 DEF Save, NickStates
  <2>2. Undoable([Save(n, shows, Conn) EXCEPT !.anon = TRUE], Digits)
    BY <1>1 DEF Save, NickStates, Undoable
  <2>3. [Forget(n) EXCEPT !.anon = FALSE] \in NickStates
    BY DEF Forget, Save, NickStates
  <2>4. Undoable([Forget(n) EXCEPT !.anon = FALSE], RealName)
    BY NamesDiffer DEF Undoable
  <2>5. QED BY <1>1, <2>1, <2>2, <2>3, <2>4, NamesDiffer DEF NickBeforeIngame, Shows
<1>2. CASE shows = Digits
  <2>1. [n EXCEPT !.anon = TRUE] = n
    BY <1>2 DEF NickStates, Undoable
  <2>2. SavedUsable(n, Conn)
    BY <1>2, ConnUsable DEF Undoable
  <2>3. QED BY <1>2, <2>1, <2>2 DEF NickBeforeIngame, CheckSaved, Shows
<1>3. QED BY <1>1, <1>2 DEF Shows

LEMMA NickRestored ==
  ASSUME ChannelAssumption, NEW n \in NickStates, NEW shows \in Shows, Undoable(n, shows),
         NEW renamed \in BOOLEAN
  PROVE  LET r == NickRestore(n, shows, Conn, renamed)
         IN /\ r.nick \in NickStates /\ r.name \in Shows /\ Undoable(r.nick, r.name)
            /\ renamed => r.name = RealName
            /\ shows = RealName => r.name = RealName
<1>1. SavedUsable(n, Conn) => n.saved = RealName
  BY DEF SavedUsable, NickStates
<1>2. shows = Digits => n.anon /\ SavedUsable(n, Conn)
  BY ConnUsable DEF Undoable
<1>3. NickReset \in NickStates /\ Undoable(NickReset, RealName)
  BY NamesDiffer DEF NickReset, NickStates, Undoable, NoBinding
<1>4. QED BY <1>1, <1>2, <1>3 DEF NickRestore, Shows

\* What an operator that is not about them keeps.
SameGate(s, t) == t.c.mode = s.c.mode /\ t.c.throttled = s.c.throttled

LEMMA Renamed ==
  ASSUME NEW s \in Works, Linked(s.c), NEW n \in NickStates, NEW shows \in Shows,
         Undoable(n, shows)
  PROVE  LET t == [s EXCEPT !.c.nick = n, !.name = shows]
         IN /\ Good(t) /\ SameGate(s, t) /\ t.name = shows
            /\ t.c.toIngame = s.c.toIngame /\ t.c.inFlight = s.c.inFlight
            /\ t.c.target = s.c.target
<1> DEFINE d == [s.c EXCEPT !.nick = n]
           t == [s EXCEPT !.c.nick = n, !.name = shows]
<1>1. s.c \in ChanStates /\ s.name \in Shows /\ s.out \in Seq(Requests)
  BY DEF Works
<1>2. d \in ChanStates /\ d.nick = n
  BY <1>1 DEF ChanStates
<1>3. /\ d.mode = s.c.mode /\ d.throttled = s.c.throttled /\ d.toIngame = s.c.toIngame
      /\ d.inFlight = s.c.inFlight /\ d.target = s.c.target /\ d.rc = s.c.rc
  BY <1>1 DEF ChanStates
<1>4. t.c = d /\ t.name = shows /\ t.out = s.out /\ t \in Works
  BY <1>1, <1>2 DEF Works
<1>5. QED BY <1>2, <1>3, <1>4 DEF Good, Linked, SameGate

LEMMA RestoreKeeps ==
  ASSUME ChannelAssumption, NEW s, Good(s), NEW o \in Outcome
  PROVE  LET t == Restore(s, o)
         IN /\ Good(t) /\ SameGate(s, t)
            /\ t.c.toIngame = s.c.toIngame /\ t.c.inFlight = s.c.inFlight
            /\ t.c.target = s.c.target
            /\ o.rename => t.name = RealName
            /\ s.name = RealName => t.name = RealName
<1> DEFINE r == NickRestore(s.c.nick, s.name, Conn, o.rename)
<1>1. s \in Works /\ Linked(s.c) /\ s.c.nick \in NickStates /\ s.name \in Shows
      /\ Undoable(s.c.nick, s.name) /\ o.rename \in BOOLEAN
  BY DEF Good, Works, ChanStates, Outcome
<1>2. /\ r.nick \in NickStates /\ r.name \in Shows /\ Undoable(r.nick, r.name)
      /\ o.rename => r.name = RealName
      /\ s.name = RealName => r.name = RealName
  BY <1>1, NickRestored
<1> HIDE DEF r
<1>3. Restore(s, o) = [s EXCEPT !.c.nick = r.nick, !.name = r.name]
  BY DEF Restore, r
<1>4. LET t == [s EXCEPT !.c.nick = r.nick, !.name = r.name]
      IN /\ Good(t) /\ SameGate(s, t) /\ t.name = r.name
         /\ t.c.toIngame = s.c.toIngame /\ t.c.inFlight = s.c.inFlight
         /\ t.c.target = s.c.target
  BY <1>1, <1>2, Renamed
<1>5. QED BY <1>2, <1>3, <1>4

LEMMA AnonymizeKeeps ==
  ASSUME ChannelAssumption, NEW s, Good(s), NEW o \in Outcome
  PROVE  LET t == Anonymize(s, o)
         IN /\ Good(t) /\ SameGate(s, t)
            /\ t.c.toIngame = s.c.toIngame /\ t.c.inFlight = s.c.inFlight
            /\ t.c.target = s.c.target
<1> DEFINE r == NickBeforeIngame(s.c.nick, s.name, Conn, o.rename)
<1>1. s \in Works /\ Linked(s.c) /\ s.c.nick \in NickStates /\ s.name \in Shows
      /\ Undoable(s.c.nick, s.name) /\ o.rename \in BOOLEAN
  BY DEF Good, Works, ChanStates, Outcome
<1>2. r.nick \in NickStates /\ r.name \in Shows /\ Undoable(r.nick, r.name)
  BY <1>1, NickEntered
<1> HIDE DEF r
<1>3. Anonymize(s, o) = [s EXCEPT !.c.nick = r.nick, !.name = r.name]
  BY DEF Anonymize, r
<1>4. LET t == [s EXCEPT !.c.nick = r.nick, !.name = r.name]
      IN /\ Good(t) /\ SameGate(s, t) /\ t.name = r.name
         /\ t.c.toIngame = s.c.toIngame /\ t.c.inFlight = s.c.inFlight
         /\ t.c.target = s.c.target
  BY <1>1, <1>2, Renamed
<1>5. QED BY <1>2, <1>3, <1>4

\* Another record of channel state with the same nickname state.
LEMMA Rechanneled ==
  ASSUME NEW s, Good(s), NEW c \in ChanStates, Linked(c), c.nick = s.c.nick
  PROVE  LET t == [s EXCEPT !.c = c]
         IN Good(t) /\ t.c = c /\ t.name = s.name /\ t.out = s.out
BY DEF Good, Works

LEMMA LandedKeeps ==
  ASSUME NEW c \in ChanStates, Linked(c)
  PROVE  /\ Landed(c) \in ChanStates /\ Linked(Landed(c))
         /\ ~Landed(c).inFlight /\ ~Landed(c).toIngame /\ Landed(c).nick = c.nick
         /\ Landed(c).mode = c.mode /\ Landed(c).throttled = c.throttled
<1>1. Nowhere \in Managed \cup {Nowhere} /\ Nowhere \notin Managed
  BY DEF Nowhere, Managed, Hub, Ingame
<1>2. Landed(c) \in ChanStates
  BY <1>1 DEF Landed, ChanStates
<1>3. /\ Landed(c).inFlight = FALSE /\ Landed(c).toIngame = FALSE /\ Landed(c).nick = c.nick
      /\ Landed(c).mode = c.mode /\ Landed(c).throttled = c.throttled
      /\ Landed(c).target = Nowhere /\ Landed(c).rc = c.rc
  BY DEF Landed, ChanStates
<1>4. QED BY <1>1, <1>2, <1>3 DEF Linked

LEMMA BackoffKeeps ==
  ASSUME NEW b \in Backoffs, NEW t \in Managed \cup {Nowhere}
  PROVE  BackoffOnFailure(b, t) \in Backoffs
BY DEF Backoffs, BackoffOnFailure

LEMMA AttemptFailedKeeps ==
  ASSUME ChannelAssumption, NEW s, Good(s), NEW o \in Outcome
  PROVE  LET t == AttemptFailed(s, o)
         IN /\ Good(t) /\ SameGate(s, t) /\ ~t.c.inFlight
            /\ o.rename /\ Fit(s) => t.name = RealName
<1> DEFINE b == BackoffOnFailure(s.c.backoff, s.c.target)
           c == [Landed(s.c) EXCEPT !.backoff = b]
           t == [s EXCEPT !.c = c]
<1>1. s.c \in ChanStates /\ Linked(s.c)
  BY DEF Good, Works
<1>2. b \in Backoffs
  BY <1>1, BackoffKeeps DEF ChanStates
<1> HIDE DEF b
<1>3. /\ Landed(s.c) \in ChanStates /\ Linked(Landed(s.c)) /\ ~Landed(s.c).inFlight
      /\ Landed(s.c).nick = s.c.nick /\ Landed(s.c).mode = s.c.mode
      /\ Landed(s.c).throttled = s.c.throttled
  BY <1>1, LandedKeeps
<1>4. /\ c \in ChanStates /\ c.inFlight = Landed(s.c).inFlight /\ c.nick = Landed(s.c).nick
      /\ c.mode = Landed(s.c).mode /\ c.throttled = Landed(s.c).throttled
      /\ c.target = Landed(s.c).target /\ c.toIngame = Landed(s.c).toIngame
      /\ c.rc = Landed(s.c).rc
  BY <1>2, <1>3 DEF ChanStates
<1>5. Linked(c)
  BY <1>3, <1>4 DEF Linked
<1> HIDE DEF c
<1>6. Good(t) /\ t.c = c /\ t.name = s.name
  BY <1>3, <1>4, <1>5, Rechanneled
<1>7. SameGate(s, t) /\ ~t.c.inFlight
  BY <1>3, <1>4, <1>6 DEF SameGate
<1>8. AttemptFailed(s, o) = IF s.c.toIngame THEN Restore(t, o) ELSE t
  BY DEF AttemptFailed, c, b
<1> HIDE DEF t
<1>9. QED BY <1>6, <1>7, <1>8, RestoreKeeps DEF Fit, SameGate

LEMMA TimeOutKeeps ==
  ASSUME ChannelAssumption, NEW s, Good(s), NEW o \in Outcome
  PROVE  LET t == TimeOut(s, o)
         IN Good(t) /\ SameGate(s, t) /\ (o.rename /\ Fit(s) => Fit(t))
BY AttemptFailedKeeps DEF TimeOut, SameGate, Fit

LEMMA CodeAdded ==
  ASSUME ChannelAssumption, NEW c \in ChanStates, Linked(c), NEW code \in Nat
  PROVE  LET d == RcAdd(c, code)
         IN /\ d \in ChanStates /\ Len(d.rc) <= RcSlots /\ d.nick = c.nick
            /\ d.mode = c.mode /\ d.throttled = c.throttled
<1> DEFINE rc == IF Len(c.rc) < RcSlots THEN Append(c.rc, code) ELSE Append(Tail(c.rc), code)
<1> HIDE DEF rc
<1>1. c.rc \in Seq(Nat) /\ Len(c.rc) <= RcSlots /\ RcSlots \in Nat \ {0}
  BY DEF ChanStates, Linked, ChannelAssumption
<1>2. ASSUME Len(c.rc) < RcSlots PROVE rc \in Seq(Nat) /\ Len(rc) <= RcSlots
  <2>1. Append(c.rc, code) \in Seq(Nat) /\ Len(Append(c.rc, code)) = Len(c.rc) + 1
    BY <1>1
  <2>2. Len(c.rc) \in Nat
    BY <1>1
  <2>3. rc = Append(c.rc, code)
    BY <1>2 DEF rc
  <2>4. \A n, m \in Nat : n < m => n + 1 <= m
    OBVIOUS
  <2>5. Len(Append(c.rc, code)) <= RcSlots
    BY <1>1, <1>2, <2>1, <2>2, <2>4
  <2>6. QED BY <2>1, <2>3, <2>5
<1>3. ASSUME ~(Len(c.rc) < RcSlots) PROVE rc \in Seq(Nat) /\ Len(rc) <= RcSlots
  <2>1. c.rc # <<>> /\ Len(c.rc) = RcSlots
    BY <1>1, <1>3
  <2>2. Tail(c.rc) \in Seq(Nat) /\ Len(Tail(c.rc)) = Len(c.rc) - 1
    BY <1>1, <2>1
  <2>3. Append(Tail(c.rc), code) \in Seq(Nat) /\ Len(Append(Tail(c.rc), code)) = Len(Tail(c.rc)) + 1
    BY <2>2
  <2>4. rc = Append(Tail(c.rc), code)
    BY <1>3 DEF rc
  <2>5. Len(Append(Tail(c.rc), code)) = RcSlots
    BY <1>1, <2>1, <2>2, <2>3
  <2>6. QED BY <1>1, <2>3, <2>4, <2>5
<1>4. rc \in Seq(Nat) /\ Len(rc) <= RcSlots
  BY <1>2, <1>3
<1>5. RcAdd(c, code) = [c EXCEPT !.rc = rc]
  BY DEF RcAdd, rc
<1>6. [c EXCEPT !.rc = rc] \in ChanStates /\ [c EXCEPT !.rc = rc].rc = rc
  BY <1>4 DEF ChanStates
<1>7. /\ [c EXCEPT !.rc = rc].nick = c.nick /\ [c EXCEPT !.rc = rc].mode = c.mode
      /\ [c EXCEPT !.rc = rc].throttled = c.throttled
  BY DEF ChanStates
<1>8. QED BY <1>4, <1>5, <1>6, <1>7

LEMMA RequestMoveKeeps ==
  ASSUME ChannelAssumption, FreshCode \in Nat, NEW s, Good(s), NEW t \in Managed,
         NEW o \in Outcome
  PROVE  LET r == RequestMove(s, t, o)
         IN /\ Good(r.s) /\ SameGate(s, r.s) /\ r.soon \in BOOLEAN
            /\ o.rename /\ o.send /\ Fit(s) => Fit(r.s)
<1> DEFINE u    == TimeOut(s, o)
           anon == IF t = Ingame THEN Anonymize(u, o) ELSE u
           cool == [anon.c EXCEPT !.cooled = FALSE]
           hot  == [anon EXCEPT !.c = cool]
           c    == [RcAdd(cool, FreshCode) EXCEPT
                      !.inFlight = TRUE, !.aged = FALSE, !.target = t, !.toIngame = (t = Ingame)]
           sent == [hot EXCEPT !.c = c, !.out = Append(@, [code |-> FreshCode, target |-> t])]
<1>1. Good(u) /\ SameGate(s, u) /\ (o.rename /\ Fit(s) => Fit(u))
  BY TimeOutKeeps
<1> HIDE DEF u
<1>2. /\ Good(anon) /\ SameGate(u, anon)
      /\ anon.c.toIngame = u.c.toIngame /\ anon.c.inFlight = u.c.inFlight
      /\ anon.c.target = u.c.target
  BY <1>1, AnonymizeKeeps DEF SameGate
<1>3. t # Ingame => anon = u
  OBVIOUS
<1> HIDE DEF anon
<1>4. anon.c \in ChanStates /\ Linked(anon.c) /\ anon.name \in Shows /\ anon.out \in Seq(Requests)
      /\ anon \in Works
  BY <1>2 DEF Good, Works
<1>5. cool \in ChanStates /\ cool.nick = anon.c.nick /\ Linked(cool)
      /\ cool.mode = anon.c.mode /\ cool.throttled = anon.c.throttled
      /\ cool.toIngame = anon.c.toIngame
  BY <1>4 DEF ChanStates, Linked
<1> HIDE DEF cool
<1>6. Good(hot) /\ hot.c = cool /\ hot.name = anon.name /\ hot.out = anon.out
  BY <1>2, <1>5, Rechanneled
<1>7. SameGate(u, hot) /\ hot.c.toIngame = u.c.toIngame
  BY <1>2, <1>5, <1>6 DEF SameGate
<1>8. /\ c \in ChanStates /\ c.nick = cool.nick /\ c.mode = cool.mode
      /\ c.throttled = cool.throttled /\ Linked(c) /\ c.toIngame = (t = Ingame)
  <2>1. LET d == RcAdd(cool, FreshCode)
        IN /\ d \in ChanStates /\ Len(d.rc) <= RcSlots /\ d.nick = cool.nick
           /\ d.mode = cool.mode /\ d.throttled = cool.throttled
    BY <1>5, CodeAdded
  <2>2. /\ c \in ChanStates /\ c.inFlight = TRUE /\ c.target = t /\ c.toIngame = (t = Ingame)
        /\ c.rc = RcAdd(cool, FreshCode).rc /\ c.nick = cool.nick /\ c.mode = cool.mode
        /\ c.throttled = cool.throttled
    BY <2>1 DEF ChanStates
  <2>3. QED BY <2>1, <2>2 DEF Linked
<1> HIDE DEF c
<1>9. Good(sent) /\ SameGate(u, sent) /\ sent.name = anon.name /\ sent.c.toIngame = (t = Ingame)
  <2>1. Append(hot.out, [code |-> FreshCode, target |-> t]) \in Seq(Requests)
    <3>1. [code |-> FreshCode, target |-> t] \in Requests
      BY DEF Requests
    <3>2. hot.out \in Seq(Requests)
      BY <1>4, <1>6
    <3>3. QED BY <3>1, <3>2
  <2>2. sent.c = c /\ sent.name = hot.name /\ sent \in Works
    BY <1>4, <1>6, <1>8, <2>1 DEF Works, Good
  <2>3. Undoable(sent.c.nick, sent.name)
    BY <1>6, <1>8, <2>2 DEF Good
  <2>4. QED BY <1>6, <1>7, <1>8, <2>2, <2>3 DEF Good, SameGate
<1>10. RequestMove(s, t, o) =
         CASE u.c.inFlight \/ ~u.c.cooled -> [s |-> u, soon |-> TRUE]
           [] BackoffBlocks(u.c.backoff, t) /\ ~u.c.inFlight /\ u.c.cooled
                                         -> [s |-> u, soon |-> BackoffKeepsLoop(u.c.backoff)]
           [] OTHER ->
                IF t = Ingame /\ gate # "open" THEN [s |-> u, soon |-> FALSE]
                ELSE IF o.send THEN [s |-> sent, soon |-> TRUE]
                ELSE [s |-> IF t = Ingame THEN Restore(hot, o) ELSE hot, soon |-> FALSE]
  BY DEF RequestMove, u, anon, cool, c
<1>11. Good(Restore(hot, o)) /\ SameGate(hot, Restore(hot, o))
  BY <1>6, RestoreKeeps
<1> DEFINE r == RequestMove(s, t, o)
<1>12. CASE u.c.inFlight \/ ~u.c.cooled
  <2>1. RequestMove(s, t, o) = [s |-> u, soon |-> TRUE]
    BY <1>10, <1>12
  <2>2. QED BY <1>1, <2>1
<1>13. CASE BackoffBlocks(u.c.backoff, t) /\ ~u.c.inFlight /\ u.c.cooled
  <2>1. RequestMove(s, t, o) = [s |-> u, soon |-> BackoffKeepsLoop(u.c.backoff)]
    BY <1>10, <1>13
  <2>2. BackoffKeepsLoop(u.c.backoff) \in BOOLEAN
    BY DEF BackoffKeepsLoop
  <2>3. QED BY <1>1, <2>1, <2>2
<1>14. CASE ~BackoffBlocks(u.c.backoff, t) /\ ~u.c.inFlight /\ u.c.cooled
  <2>1. RequestMove(s, t, o) =
          IF t = Ingame /\ gate # "open" THEN [s |-> u, soon |-> FALSE]
          ELSE IF o.send THEN [s |-> sent, soon |-> TRUE]
          ELSE [s |-> IF t = Ingame THEN Restore(hot, o) ELSE hot, soon |-> FALSE]
    BY <1>10, <1>14
  <2>2. CASE t = Ingame /\ gate # "open"
    BY <1>1, <2>1, <2>2
  <2>3. CASE ~(t = Ingame /\ gate # "open") /\ o.send
    <3>1. r.s = sent /\ r.soon = TRUE
      BY <2>1, <2>3
    <3>2. ~u.c.toIngame
      BY <1>1, <1>14 DEF Good, Linked, Managed, Ingame
    <3>3. o.rename /\ Fit(s) => Fit(sent)
      BY <1>1, <1>3, <1>9, <3>2 DEF Fit
    <3>4. QED BY <1>1, <1>9, <3>1, <3>3 DEF SameGate
  <2>4. CASE ~(t = Ingame /\ gate # "open") /\ ~o.send
    <3>1. r.s = (IF t = Ingame THEN Restore(hot, o) ELSE hot) /\ r.soon = FALSE
      BY <2>1, <2>4
    <3>2. Good(r.s) /\ SameGate(hot, r.s)
      BY <1>6, <1>11, <3>1 DEF SameGate
    <3>3. QED BY <1>1, <1>7, <2>4, <3>1, <3>2 DEF SameGate
  <2>5. QED BY <2>2, <2>3, <2>4
<1>15. QED BY <1>12, <1>13, <1>14

\* The playback gate of a channel.
ModeFor(here) == IF Muting THEN GateOf(here) ELSE "passthrough"

LEMMA ModeIsOne ==
  ASSUME NEW here
  PROVE  /\ ModeFor(here) \in {"passthrough", "proximity", "mute"}
         /\ GateOf(here) \in {"passthrough", "proximity", "mute"}
BY DEF ModeFor, GateOf

LEMMA FindKeeps ==
  ASSUME NEW s, Good(s), NEW o \in Outcome, exists \subseteq Managed
  PROVE  LET t == Find(s, o)
         IN /\ Good(t) /\ SameGate(s, t) /\ t.name = s.name
            /\ t.c.toIngame = s.c.toIngame
<1> DEFINE known == IF o.list THEN exists ELSE s.c.known
           c == [s.c EXCEPT !.listDirty = FALSE, !.known = known, !.findDue = (known = Managed)]
           t == [s EXCEPT !.c = c]
<1>1. s.c \in ChanStates /\ Linked(s.c) /\ s \in Works
  BY DEF Good, Works
<1>2. known \in SUBSET Managed
  BY <1>1 DEF ChanStates
<1> HIDE DEF known
<1>3. /\ c \in ChanStates /\ c.inFlight = s.c.inFlight /\ c.target = s.c.target /\ c.rc = s.c.rc
      /\ c.toIngame = s.c.toIngame /\ c.nick = s.c.nick /\ c.mode = s.c.mode
      /\ c.throttled = s.c.throttled
  BY <1>1, <1>2 DEF ChanStates
<1>4. Linked(c)
  BY <1>1, <1>3 DEF Linked
<1>5. Good(t) /\ t.c = c /\ t.name = s.name
  BY <1>3, <1>4, Rechanneled
<1>6. t = [s EXCEPT !.c.listDirty = FALSE, !.c.known = known, !.c.findDue = (known = Managed)]
  BY <1>1 DEF Works
<1>7. Find(s, o) = t \/ Find(s, o) = s
  BY <1>6 DEF Find, known
<1> HIDE DEF c
<1>8. QED BY <1>3, <1>5, <1>7 DEF SameGate

LEMMA TickRunKeeps ==
  ASSUME ChannelAssumption, FreshCode \in Nat, exists \subseteq Managed,
         NEW s, Good(s), NEW here \in Channels \cup {Nowhere}, NEW o \in Outcome
  PROVE  LET r == TickRun(s, here, o)
         IN /\ Good(r.s) /\ r.s.c.throttled = s.c.throttled /\ r.s.c.mode = ModeFor(here)
            /\ r.soon \in BOOLEAN
            /\ o.rename /\ o.send /\ here # Ingame /\ Fit(s) => Fit(r.s)
<1> DEFINE s0 == TimeOut(s, o)
           s1 == Find(s0, o)
           m  == ModeFor(here)
           c  == [s1.c EXCEPT !.mode = m, !.deafPoll = ForceSpeakers /\ here = Ingame]
           s2 == [s1 EXCEPT !.c = c]
           w  == Wanted(s2.c, here)
           stay == AutoMove /\ here = Ingame /\ ShouldBeIngame(s2.c) /\ ~MutedHere
<1>1. Good(s0) /\ SameGate(s, s0) /\ (o.rename /\ Fit(s) => Fit(s0))
  BY TimeOutKeeps
<1> HIDE DEF s0
<1>2. Good(s1) /\ SameGate(s0, s1) /\ s1.name = s0.name /\ s1.c.toIngame = s0.c.toIngame
  BY <1>1, FindKeeps
<1> HIDE DEF s1
<1>3. s1.c \in ChanStates /\ Linked(s1.c) /\ s1 \in Works
  BY <1>2 DEF Good, Works
<1>4. m \in {"passthrough", "proximity", "mute"} /\ (ForceSpeakers /\ here = Ingame) \in BOOLEAN
  BY ModeIsOne
<1> HIDE DEF m
<1>5. /\ c \in ChanStates /\ c.inFlight = s1.c.inFlight /\ c.target = s1.c.target /\ c.rc = s1.c.rc
      /\ c.toIngame = s1.c.toIngame /\ c.nick = s1.c.nick /\ c.mode = m
      /\ c.throttled = s1.c.throttled
  BY <1>3, <1>4 DEF ChanStates
<1> HIDE DEF c
<1>6. Linked(c)
  BY <1>3, <1>5 DEF Linked
<1>7. Good(s2) /\ s2.c = c /\ s2.name = s1.name
  BY <1>2, <1>5, <1>6, Rechanneled
<1>8. s2 = [s1 EXCEPT !.c.mode = IF Muting THEN GateOf(here) ELSE "passthrough",
                      !.c.deafPoll = ForceSpeakers /\ here = Ingame]
  BY <1>3 DEF Works, c, m, ModeFor
<1>9. /\ s2.c.throttled = s.c.throttled /\ s2.c.mode = m
      /\ o.rename /\ Fit(s) => Fit(s2)
  BY <1>1, <1>2, <1>5, <1>7 DEF SameGate, Fit
<1> HIDE DEF s2
<1>10. w \in Managed \cup {Nowhere}
  BY DEF Wanted, Managed
<1>11. TickRun(s, here, o) =
         IF w # Nowhere /\ w \in s2.c.known THEN RequestMove(s2, w, o)
         ELSE [s |-> IF stay THEN Anonymize(s2, o) ELSE s2, soon |-> FALSE]
  BY <1>8 DEF TickRun, s0, s1
<1> HIDE DEF w
<1>12. CASE w # Nowhere /\ w \in s2.c.known
  <2>1. TickRun(s, here, o) = RequestMove(s2, w, o) /\ w \in Managed
    BY <1>10, <1>11, <1>12
  <2>2. LET r == RequestMove(s2, w, o)
        IN /\ Good(r.s) /\ SameGate(s2, r.s) /\ r.soon \in BOOLEAN
           /\ o.rename /\ o.send /\ Fit(s2) => Fit(r.s)
    BY <1>7, <2>1, RequestMoveKeeps
  <2>3. QED BY <1>9, <2>1, <2>2 DEF SameGate, m
<1>13. CASE ~(w # Nowhere /\ w \in s2.c.known)
  <2>1. TickRun(s, here, o) = [s |-> IF stay THEN Anonymize(s2, o) ELSE s2, soon |-> FALSE]
    BY <1>11, <1>13
  <2>2. Good(Anonymize(s2, o)) /\ SameGate(s2, Anonymize(s2, o))
    BY <1>7, AnonymizeKeeps
  <2>3. here # Ingame => ~stay
    OBVIOUS
  <2>4. QED BY <1>7, <1>9, <2>1, <2>2, <2>3 DEF SameGate, m
<1>14. QED BY <1>12, <1>13

LEMMA TickKeeps ==
  ASSUME ChannelAssumption, FreshCode \in Nat, exists \subseteq Managed,
         NEW s, Good(s), NEW here \in Channels \cup {Nowhere}, NEW o \in Outcome
  PROVE  LET t == Tick(s, here, o)
         IN /\ Good(t)
            /\ s.c.mode = ModeFor(here) \/ ~s.c.throttled => t.c.mode = ModeFor(here)
            /\ o.rename /\ o.send /\ here # Ingame /\ Fit(s) => Fit(t)
<1> DEFINE c == [s.c EXCEPT !.throttled = TRUE, !.posPending = FALSE]
           u == [s EXCEPT !.c = c]
           r == TickRun(u, here, o)
           d == [r.s.c EXCEPT !.moveWanted = r.soon]
           t == [r.s EXCEPT !.c = d]
<1>1. s.c \in ChanStates /\ Linked(s.c) /\ s \in Works /\ s.c.throttled \in BOOLEAN
  BY DEF Good, Works, ChanStates
<1>2. /\ c \in ChanStates /\ c.inFlight = s.c.inFlight /\ c.target = s.c.target /\ c.rc = s.c.rc
      /\ c.toIngame = s.c.toIngame /\ c.nick = s.c.nick
  BY <1>1 DEF ChanStates
<1>3. u = [s EXCEPT !.c.throttled = TRUE, !.c.posPending = FALSE]
  BY <1>1 DEF Works
<1> HIDE DEF c
<1>4. Linked(c)
  BY <1>1, <1>2 DEF Linked
<1>5. Good(u) /\ u.c = c /\ u.name = s.name
  BY <1>2, <1>4, Rechanneled
<1> HIDE DEF u
<1>6. /\ Good(r.s) /\ r.s.c.mode = ModeFor(here) /\ r.soon \in BOOLEAN
      /\ o.rename /\ o.send /\ here # Ingame /\ Fit(u) => Fit(r.s)
  BY <1>5, TickRunKeeps
<1> HIDE DEF r
<1>7. r.s.c \in ChanStates /\ Linked(r.s.c) /\ r.s \in Works
  BY <1>6 DEF Good, Works
<1>8. /\ d \in ChanStates /\ d.inFlight = r.s.c.inFlight /\ d.target = r.s.c.target
      /\ d.rc = r.s.c.rc /\ d.toIngame = r.s.c.toIngame /\ d.nick = r.s.c.nick
      /\ d.mode = r.s.c.mode
  BY <1>6, <1>7 DEF ChanStates
<1>9. t = [r.s EXCEPT !.c.moveWanted = r.soon]
  BY <1>7 DEF Works
<1> HIDE DEF d
<1>10. Linked(d)
  BY <1>7, <1>8 DEF Linked
<1>11. Good(t) /\ t.c = d /\ t.name = r.s.name
  BY <1>6, <1>8, <1>10, Rechanneled
<1>12. Tick(s, here, o) = IF s.c.throttled THEN s ELSE t
  BY <1>3, <1>9 DEF Tick, r
<1> HIDE DEF t
<1>13. t.c.mode = ModeFor(here) /\ (o.rename /\ o.send /\ here # Ingame /\ Fit(s) => Fit(t))
  BY <1>2, <1>5, <1>6, <1>8, <1>11 DEF Fit
<1>14. QED BY <1>1, <1>11, <1>12, <1>13

\* The own move has landed: the throttle is open, and outside of the game
\* channel the real name is back if it can be set.
LEMMA OwnMoveKeeps ==
  ASSUME ChannelAssumption, NEW s, Good(s), NEW to, NEW o \in Outcome
  PROVE  LET t == OnOwnMove(s, to, o)
         IN /\ Good(t) /\ ~t.c.throttled
            /\ o.rename /\ to # Ingame => t.name = RealName
<1> DEFINE m == GateOf(to)
           c == [Landed(s.c) EXCEPT !.backoff = NoBackoff, !.moveWanted = FALSE,
                                    !.throttled = FALSE, !.mode = m, !.dwell = (to = Ingame)]
           t == [s EXCEPT !.c = c]
<1>1. s.c \in ChanStates /\ Linked(s.c) /\ s \in Works
  BY DEF Good, Works
<1>2. /\ Landed(s.c) \in ChanStates /\ Linked(Landed(s.c)) /\ Landed(s.c).nick = s.c.nick
  BY <1>1, LandedKeeps
<1>3. m \in {"passthrough", "proximity", "mute"} /\ NoBackoff \in Backoffs
  BY ModeIsOne DEF NoBackoff, Backoffs
<1> HIDE DEF m
<1>4. /\ c \in ChanStates /\ c.inFlight = Landed(s.c).inFlight /\ c.nick = Landed(s.c).nick
      /\ c.target = Landed(s.c).target /\ c.toIngame = Landed(s.c).toIngame
      /\ c.rc = Landed(s.c).rc /\ c.throttled = FALSE
  BY <1>2, <1>3 DEF ChanStates
<1>5. OnOwnMove(s, to, o) = IF to # Ingame THEN Restore(t, o) ELSE t
  BY DEF OnOwnMove, m
<1> HIDE DEF c
<1>6. Linked(c)
  BY <1>2, <1>4 DEF Linked
<1>7. Good(t) /\ t.c = c
  BY <1>2, <1>4, <1>6, Rechanneled
<1> HIDE DEF t
<1>8. QED BY <1>4, <1>5, <1>7, RestoreKeeps DEF SameGate

LEMMA MoveFailedKeeps ==
  ASSUME ChannelAssumption, NEW s, Good(s), NEW o \in Outcome
  PROVE  LET t == OnMoveFailed(s, o)
         IN /\ Good(t) /\ t.c.mode = s.c.mode
            /\ o.rename /\ Fit(s) => Fit(t)
<1> DEFINE a == AttemptFailed(s, o)
           c == [a.c EXCEPT !.throttled = FALSE]
           t == [a EXCEPT !.c = c]
<1>1. /\ Good(a) /\ SameGate(s, a)
      /\ o.rename /\ Fit(s) => a.name = RealName
  BY AttemptFailedKeeps
<1> HIDE DEF a
<1>2. a.c \in ChanStates /\ Linked(a.c) /\ a \in Works
  BY <1>1 DEF Good, Works
<1>3. /\ c \in ChanStates /\ c.inFlight = a.c.inFlight /\ c.nick = a.c.nick
      /\ c.target = a.c.target /\ c.toIngame = a.c.toIngame /\ c.rc = a.c.rc /\ c.mode = a.c.mode
  BY <1>2 DEF ChanStates
<1>4. t = [a EXCEPT !.c.throttled = FALSE]
  BY <1>2 DEF Works
<1>5. OnMoveFailed(s, o) = IF s.c.inFlight THEN t ELSE s
  BY <1>4 DEF OnMoveFailed, a
<1> HIDE DEF c
<1>6. Linked(c)
  BY <1>2, <1>3 DEF Linked
<1>7. Good(t) /\ t.c = c /\ t.name = a.name
  BY <1>1, <1>3, <1>6, Rechanneled
<1> HIDE DEF t
<1>8. QED BY <1>1, <1>3, <1>5, <1>7 DEF SameGate, Fit

LEMMA TakenKeeps ==
  ASSUME ChannelAssumption, NEW s, Good(s), NEW code
  PROVE  LET c == RcTake(s.c, code)
             t == [s EXCEPT !.c = c]
         IN Good(t) /\ t.c.mode = s.c.mode /\ t.c.toIngame = s.c.toIngame /\ t.name = s.name
<1> DEFINE left == [i \in DOMAIN s.c.rc |-> IF s.c.rc[i] = code THEN 0 ELSE s.c.rc[i]]
           rc == IF \E i \in DOMAIN left : left[i] # 0 THEN left ELSE <<>>
           c == [s.c EXCEPT !.rc = rc]
           t == [s EXCEPT !.c = c]
<1>1. s.c \in ChanStates /\ Linked(s.c) /\ s \in Works /\ s.c.rc \in Seq(Nat)
  BY DEF Good, Works, ChanStates
<1>2. left \in Seq(Nat) /\ Len(left) = Len(s.c.rc)
  <2>1. \A i \in 1..Len(s.c.rc) : s.c.rc[i] \in Nat
    BY <1>1
  <2>2. DOMAIN s.c.rc = 1..Len(s.c.rc) /\ Len(s.c.rc) \in Nat
    BY <1>1
  <2>3. left \in [1..Len(s.c.rc) -> Nat]
    BY <2>1, <2>2
  <2>4. QED BY <2>2, <2>3
<1> HIDE DEF left
<1>3. rc \in Seq(Nat) /\ Len(rc) <= RcSlots
  <2>1. <<>> \in Seq(Nat) /\ Len(<<>>) = 0
    OBVIOUS
  <2>2. RcSlots \in Nat /\ Len(s.c.rc) <= RcSlots
    BY <1>1 DEF Linked, ChannelAssumption
  <2>3. rc = left \/ rc = <<>>
    OBVIOUS
  <2> HIDE DEF rc
  <2>4. CASE rc = left
    BY <1>2, <2>2, <2>4
  <2>5. CASE rc = <<>>
    BY <2>1, <2>2, <2>5
  <2>6. QED BY <2>3, <2>4, <2>5
<1>4. RcTake(s.c, code) = c
  BY DEF RcTake, left
<1> HIDE DEF rc
<1>5. /\ c \in ChanStates /\ c.inFlight = s.c.inFlight /\ c.nick = s.c.nick
      /\ c.target = s.c.target /\ c.toIngame = s.c.toIngame /\ c.rc = rc /\ c.mode = s.c.mode
  BY <1>1, <1>3 DEF ChanStates
<1> HIDE DEF c
<1>6. Linked(c)
  BY <1>1, <1>3, <1>5 DEF Linked
<1>7. Good(t) /\ t.c = c /\ t.name = s.name
  BY <1>5, <1>6, Rechanneled
<1>8. QED BY <1>4, <1>5, <1>7

LEMMA ResetGood ==
  ASSUME ChannelAssumption, NEW n \in NickStates
  PROVE  /\ ChanReset(n) \in ChanStates /\ Linked(ChanReset(n)) /\ ChanReset(n).nick = n
         /\ ~ChanReset(n).throttled /\ ~ChanReset(n).toIngame
<1>1. NoBackoff \in Backoffs
  BY DEF NoBackoff, Backoffs
<1>2. <<>> \in Seq(Nat) /\ Len(<<>>) = 0
  OBVIOUS
<1>3. ChanReset(n) \in ChanStates
  BY <1>1, <1>2 DEF ChanReset, ChanStates
<1>4. Nowhere \notin Managed
  BY DEF Nowhere, Managed, Hub, Ingame
<1>5. /\ ChanReset(n).inFlight = FALSE /\ ChanReset(n).target = Nowhere /\ ChanReset(n).rc = <<>>
      /\ ChanReset(n).nick = n /\ ChanReset(n).throttled = FALSE /\ ChanReset(n).toIngame = FALSE
  BY DEF ChanReset
<1>6. RcSlots \in Nat
  BY DEF ChannelAssumption
<1>7. QED BY <1>2, <1>3, <1>4, <1>5, <1>6 DEF Linked

LEMMA LeaveKeeps ==
  ASSUME ChannelAssumption, FreshCode \in Nat, exists \subseteq Managed, NEW s, Good(s),
         NEW o \in Outcome
  PROVE  Leave(s, o) \in Works
<1> DEFINE r == Restore(s, o)
           t == [r EXCEPT !.out = Append(@, [code |-> FreshCode, target |-> Hub])]
<1>1. r \in Works /\ s \in Works
  BY RestoreKeeps DEF Good
<1> HIDE DEF r
<1>2. r.name \in Shows /\ r.out \in Seq(Requests) /\ s.name \in Shows /\ s.out \in Seq(Requests)
  BY <1>1 DEF Works
<1>3. [code |-> FreshCode, target |-> Hub] \in Requests
  BY DEF Requests, Managed
<1>4. Append(r.out, [code |-> FreshCode, target |-> Hub]) \in Seq(Requests)
  BY <1>2, <1>3
<1>5. t \in Works
  BY <1>1, <1>4 DEF Works
<1>6. Leave(s, o) \in {t, r, s}
  BY DEF Leave, r
<1> HIDE DEF t
<1>7. QED BY <1>1, <1>5, <1>6

(* A fresh code exists: there are fewer codes in use than candidates.      *)
LEMMA ImagesAreFew ==
  ASSUME NEW n \in Nat, NEW f, f = [i \in 1..n |-> f[i]]
  PROVE  LET T == {f[i] : i \in 1..n} IN IsFiniteSet(T) /\ Cardinality(T) <= n /\ Cardinality(T) \in Nat
<1> DEFINE T == {f[i] : i \in 1..n}
<1>1. f \in Surjection(1..n, T)
  BY DEF Surjection
<1>2. IsFiniteSet(1..n) /\ Cardinality(1..n) = n
  BY FS_Interval
<1> HIDE DEF T
<1>3. IsFiniteSet(T) /\ Cardinality(T) <= n
  BY <1>1, <1>2, FS_Surjection
<1>4. Cardinality(T) \in Nat
  BY <1>3, FS_CardinalityType
<1>5. QED BY <1>3, <1>4 DEF T

LEMMA FreshIsCode ==
  ASSUME ChannelAssumption, ChanTypeOK
  PROVE  FreshCode \in Nat
<1> DEFINE A == {ch.rc[i] : i \in DOMAIN ch.rc}
           B == {inbox[i].code : i \in DOMAIN inbox}
           C == {answers[i].code : i \in DOMAIN answers}
           N == RcSlots + Len(inbox) + Len(answers) + 1
<1>1. /\ ch.rc \in Seq(Nat) /\ Len(ch.rc) <= RcSlots /\ inbox \in Seq(Requests)
      /\ answers \in Seq(Events)
  BY DEF ChanTypeOK, ChanStates, Linked
<1>2. RcSlots \in Nat /\ Len(ch.rc) \in Nat /\ Len(inbox) \in Nat /\ Len(answers) \in Nat
  BY <1>1 DEF ChannelAssumption
<1>3. IsFiniteSet(A) /\ Cardinality(A) <= Len(ch.rc) /\ Cardinality(A) \in Nat
  <2>1. ch.rc = [i \in 1..Len(ch.rc) |-> ch.rc[i]] /\ DOMAIN ch.rc = 1..Len(ch.rc)
    BY <1>1
  <2>2. QED BY <1>2, <2>1, ImagesAreFew
<1>4. IsFiniteSet(B) /\ Cardinality(B) <= Len(inbox) /\ Cardinality(B) \in Nat
  <2> DEFINE f == [i \in 1..Len(inbox) |-> inbox[i].code]
  <2>1. f = [i \in 1..Len(inbox) |-> f[i]] /\ DOMAIN inbox = 1..Len(inbox)
    BY <1>1
  <2>2. B = {f[i] : i \in 1..Len(inbox)}
    BY <2>1
  <2> HIDE DEF f, B
  <2>3. QED BY <1>2, <2>1, <2>2, ImagesAreFew
<1>5. IsFiniteSet(C) /\ Cardinality(C) <= Len(answers) /\ Cardinality(C) \in Nat
  <2> DEFINE f == [i \in 1..Len(answers) |-> answers[i].code]
  <2>1. f = [i \in 1..Len(answers) |-> f[i]] /\ DOMAIN answers = 1..Len(answers)
    BY <1>1
  <2>2. C = {f[i] : i \in 1..Len(answers)}
    BY <2>1
  <2> HIDE DEF f, C
  <2>3. QED BY <1>2, <2>1, <2>2, ImagesAreFew
<1>6. UsedCodes = (A \cup B) \cup C
  BY DEF UsedCodes
<1> HIDE DEF A, B, C
<1>7. IsFiniteSet(A \cup B) /\ Cardinality(A \cup B) <= Len(ch.rc) + Len(inbox) /\ Cardinality(A \cup B) \in Nat
  <2>1. IsFiniteSet(A \cup B) /\ Cardinality(A \cup B) = Cardinality(A) + Cardinality(B) - Cardinality(A \cap B)
    BY <1>3, <1>4, FS_Union
  <2>2. Cardinality(A \cap B) \in Nat
    BY <1>3, FS_Intersection, FS_CardinalityType
  <2>3. Cardinality(A \cup B) \in Nat
    BY <2>1, FS_CardinalityType
  <2>4. QED BY <1>2, <1>3, <1>4, <2>1, <2>2, <2>3
<1>8. IsFiniteSet(UsedCodes) /\ Cardinality(UsedCodes) < N
  <2>1. /\ IsFiniteSet(UsedCodes)
        /\ Cardinality(UsedCodes) = Cardinality(A \cup B) + Cardinality(C) - Cardinality((A \cup B) \cap C)
    BY <1>5, <1>6, <1>7, FS_Union
  <2>2. Cardinality((A \cup B) \cap C) \in Nat
    BY <1>7, FS_Intersection, FS_CardinalityType
  <2>3. Cardinality(UsedCodes) \in Nat
    BY <2>1, FS_CardinalityType
  <2>4. QED BY <1>1, <1>2, <1>5, <1>7, <2>1, <2>2, <2>3
<1>9. N \in Nat
  BY <1>2
<1> HIDE DEF N
<1>10. IsFiniteSet(1..N) /\ Cardinality(1..N) = N
  BY <1>9, FS_Interval
<1>11. \E n \in 1..N : n \notin UsedCodes
  <2>1. SUFFICES ASSUME 1..N \in SUBSET UsedCodes PROVE FALSE
    OBVIOUS
  <2>2. Cardinality(1..N) <= Cardinality(UsedCodes)
    BY <1>8, <2>1, FS_Subset
  <2>3. Cardinality(UsedCodes) \in Nat
    BY <1>8, FS_CardinalityType
  <2>4. QED BY <1>8, <1>9, <1>10, <2>2, <2>3
<1>12. FreshCode = CHOOSE n \in 1..N : n \notin UsedCodes
  BY DEF FreshCode, N
<1>13. FreshCode \in 1..N
  BY <1>11, <1>12
<1>14. QED BY <1>9, <1>13

(* The inductive invariant: beyond the types and the property, digits can  *)
(* be undone while the tab is not connected, too, and a tab that is not    *)
(* connected is in no channel and on its way to none.                      *)
NameHeld == phase # "stopped" => Undoable(ch.nick, name)
OutHeld  == phase = "offline" => own = Nowhere /\ ~ch.toIngame
ChanInv  == ChanTypeOK /\ NameHeld /\ OutHeld /\ GateFitsChannel

\* A handler has left the state t.
Took(t) == ch' = t.c /\ name' = t.name /\ inbox' = t.out
Done(t) == Good(t) /\ Took(t) /\ faults' \in 0..MaxFaults

LEMMA HereIsGood ==
  ASSUME ChanInv, phase # "stopped"
  PROVE  Good(Here) /\ Here.c = ch /\ Here.name = name /\ Here.out = inbox
BY DEF ChanInv, ChanTypeOK, NameHeld, Good, Works, Here, Shows

LEMMA DoneTypes ==
  ASSUME NEW t, Done(t)
  PROVE  /\ ch' \in ChanStates /\ Linked(ch)' /\ name' \in {Digits, RealName}
         /\ inbox' \in Seq(Requests) /\ faults' \in 0..MaxFaults /\ Undoable(ch.nick, name)'
BY DEF Done, Took, Good, Works, Shows, Linked, Undoable

LEMMA TickStep ==
  ASSUME ChannelAssumption, ChanInv, Online, Handler(LAMBDA o : Tick(Here, own, o)),
         UNCHANGED <<outside, answers, events>>
  PROVE  ChanInv' /\ NameBackStep
<1>1. PICK o \in Outcomes :
        /\ Took(Tick(Here, own, o)) /\ faults' \in 0..MaxFaults
        /\ faults' = faults => o = AllWell
  <2>1. PICK r \in {Tick(Here, own, o) : o \in Outcomes} :
          /\ ch' = r.c /\ name' = r.name /\ inbox' = r.out
          /\ faults' = IF r = Tick(Here, own, AllWell) THEN faults ELSE faults + 1
          /\ faults' <= MaxFaults
    BY DEF Handler
  <2>2. faults \in 0..MaxFaults /\ MaxFaults \in Nat
    BY DEF ChanInv, ChanTypeOK, ChannelAssumption
  <2>3. CASE r = Tick(Here, own, AllWell)
    BY <2>1, <2>2, <2>3, OutcomesAre DEF Took
  <2>4. CASE r # Tick(Here, own, AllWell)
    BY <2>1, <2>2, <2>4 DEF Took
  <2>5. QED BY <2>3, <2>4
<1> DEFINE t == Tick(Here, own, o)
<1>2. /\ FreshCode \in Nat /\ exists \subseteq Managed /\ own \in Channels \cup {Nowhere}
      /\ Good(Here) /\ Here.c = ch /\ Here.name = name
  BY FreshIsCode, HereIsGood DEF ChanInv, ChanTypeOK, Online
<1>3. o \in Outcome
  BY <1>1, OutcomesAre
<1>4. /\ Good(t)
      /\ Here.c.mode = ModeFor(own) \/ ~Here.c.throttled => t.c.mode = ModeFor(own)
      /\ o.rename /\ o.send /\ own # Ingame /\ Fit(Here) => Fit(t)
  BY <1>2, <1>3, TickKeeps
<1>5. t.c.mode = ModeFor(own)
  BY <1>2, <1>4 DEF ChanInv, GateFitsChannel, ModeFor
<1> HIDE DEF t
<1>6. Done(t)
  BY <1>1, <1>4 DEF Done, t
<1>7. /\ ch' \in ChanStates /\ Linked(ch)' /\ name' \in {Digits, RealName}
      /\ inbox' \in Seq(Requests) /\ faults' \in 0..MaxFaults /\ Undoable(ch.nick, name)'
  BY <1>6, DoneTypes
<1>8. UNCHANGED <<phase, own, coords, speakers, gate, exists, at, answers, events>>
  BY DEF outside
<1>9. ChanTypeOK'
  BY <1>7, <1>8 DEF ChanInv, ChanTypeOK
<1>10. phase = "online" /\ ch' = t.c /\ name' = t.name
  BY <1>6 DEF Online, Done, Took
<1>11. GateFitsChannel' /\ NameHeld' /\ OutHeld'
  BY <1>5, <1>7, <1>8, <1>10 DEF GateFitsChannel, NameHeld, OutHeld, ModeFor, GateOf
<1>12. NameBackStep
  BY <1>1, <1>2, <1>4, <1>8, <1>10, OutcomesAre DEF NameBackStep, LeavesOrFails, Fit, t
<1>13. QED BY <1>9, <1>11, <1>12 DEF ChanInv

LEMMA OwnMoveStep ==
  ASSUME ChannelAssumption, ChanInv, OwnMoveArrives
  PROVE  ChanInv' /\ NameBackStep
<1> DEFINE f(o) == Tick(OnOwnMove(Here, own', o), own', o)
<1>1. PICK o \in Outcomes :
        /\ Took(f(o)) /\ faults' \in 0..MaxFaults
        /\ faults' = faults => o = AllWell
  <2>1. PICK r \in {f(o) : o \in Outcomes} :
          /\ ch' = r.c /\ name' = r.name /\ inbox' = r.out
          /\ faults' = IF r = f(AllWell) THEN faults ELSE faults + 1
          /\ faults' <= MaxFaults
    BY DEF OwnMoveArrives, Handler
  <2>2. faults \in 0..MaxFaults /\ MaxFaults \in Nat
    BY DEF ChanInv, ChanTypeOK, ChannelAssumption
  <2> HIDE DEF f
  <2>3. CASE r = f(AllWell)
    BY <2>1, <2>2, <2>3, OutcomesAre DEF Took
  <2>4. CASE r # f(AllWell)
    BY <2>1, <2>2, <2>4 DEF Took
  <2>5. QED BY <2>3, <2>4
<1> DEFINE u == OnOwnMove(Here, own', o)
           t == Tick(u, own', o)
<1>2. /\ FreshCode \in Nat /\ exists \subseteq Managed
      /\ Good(Here) /\ Here.c = ch /\ Here.name = name
  BY FreshIsCode, HereIsGood DEF ChanInv, ChanTypeOK, OwnMoveArrives, Online
<1>3. o \in Outcome
  BY <1>1, OutcomesAre
<1>4. own' \in Channels \cup {Nowhere} /\ answers' \in Seq(Events)
  <2>1. answers \in Seq(Events) /\ answers # <<>>
    BY DEF ChanInv, ChanTypeOK, OwnMoveArrives
  <2>2. Head(answers) \in Events /\ Tail(answers) \in Seq(Events)
    BY <2>1
  <2>3. QED BY <2>2 DEF Events, OwnMoveArrives
<1>5. /\ Good(u) /\ ~u.c.throttled
      /\ o.rename /\ own' # Ingame => u.name = RealName
  BY <1>2, <1>3, OwnMoveKeeps
<1> HIDE DEF u
<1>6. /\ Good(t) /\ t.c.mode = ModeFor(own')
      /\ o.rename /\ o.send /\ own' # Ingame /\ Fit(u) => Fit(t)
  BY <1>2, <1>3, <1>4, <1>5, TickKeeps
<1>7. Took(t)
  BY <1>1 DEF u
<1> HIDE DEF t
<1>8. Done(t)
  BY <1>1, <1>6, <1>7 DEF Done
<1>9. /\ ch' \in ChanStates /\ Linked(ch)' /\ name' \in {Digits, RealName}
      /\ inbox' \in Seq(Requests) /\ faults' \in 0..MaxFaults /\ Undoable(ch.nick, name)'
  BY <1>8, DoneTypes
<1>10. UNCHANGED <<phase, coords, speakers, gate, exists, at, events>> /\ phase = "online"
  BY DEF OwnMoveArrives, Online
<1>11. ChanTypeOK'
  BY <1>4, <1>9, <1>10 DEF ChanInv, ChanTypeOK
<1>12. GateFitsChannel' /\ NameHeld' /\ OutHeld'
  BY <1>6, <1>7, <1>9, <1>10 DEF GateFitsChannel, NameHeld, OutHeld, ModeFor, GateOf, Took
<1>13. NameBackStep
  BY <1>1, <1>5, <1>6, <1>7, OutcomesAre DEF NameBackStep, LeavesOrFails, Fit, Took
<1>14. QED BY <1>11, <1>12, <1>13 DEF ChanInv

LEMMA AnswerStep ==
  ASSUME ChannelAssumption, ChanInv, AnswerArrives
  PROVE  ChanInv' /\ NameBackStep
<1> DEFINE code  == Head(answers).code
           taken == [Here EXCEPT !.c = RcTake(ch, code)]
           f(o)  == IF ~RcHas(ch, code) THEN Here
                    ELSE IF Head(answers).ok THEN taken ELSE OnMoveFailed(taken, o)
<1>1. PICK o \in Outcomes :
        /\ Took(f(o)) /\ faults' \in 0..MaxFaults
        /\ faults' = faults => o = AllWell
  <2>1. PICK r \in {f(o) : o \in Outcomes} :
          /\ ch' = r.c /\ name' = r.name /\ inbox' = r.out
          /\ faults' = IF r = f(AllWell) THEN faults ELSE faults + 1
          /\ faults' <= MaxFaults
    BY DEF AnswerArrives, Handler
  <2>2. faults \in 0..MaxFaults /\ MaxFaults \in Nat
    BY DEF ChanInv, ChanTypeOK, ChannelAssumption
  <2> HIDE DEF f
  <2>3. CASE r = f(AllWell)
    BY <2>1, <2>2, <2>3, OutcomesAre DEF Took
  <2>4. CASE r # f(AllWell)
    BY <2>1, <2>2, <2>4 DEF Took
  <2>5. QED BY <2>3, <2>4
<1>2. Good(Here) /\ Here.c = ch /\ Here.name = name
  BY HereIsGood DEF AnswerArrives, Online
<1>3. o \in Outcome
  BY <1>1, OutcomesAre
<1>4. Good(taken) /\ taken.c.mode = ch.mode /\ taken.c.toIngame = ch.toIngame /\ taken.name = name
  BY <1>2, TakenKeeps
<1> HIDE DEF taken
<1> DEFINE lost == OnMoveFailed(taken, o)
<1>5. /\ Good(lost) /\ lost.c.mode = ch.mode
      /\ o.rename /\ Fit(taken) => Fit(lost)
  BY <1>3, <1>4, MoveFailedKeeps
<1>6. f(o) \in {Here, taken, lost}
  OBVIOUS
<1> DEFINE t == f(o)
<1> HIDE DEF f, lost
<1>7. Good(t) /\ t.c.mode = ch.mode /\ (o.rename /\ Fit(Here) => Fit(t))
  BY <1>2, <1>4, <1>5, <1>6 DEF Fit
<1> HIDE DEF t
<1>8. Done(t)
  BY <1>1, <1>7 DEF Done, t
<1>9. /\ ch' \in ChanStates /\ Linked(ch)' /\ name' \in {Digits, RealName}
      /\ inbox' \in Seq(Requests) /\ faults' \in 0..MaxFaults /\ Undoable(ch.nick, name)'
  BY <1>8, DoneTypes
<1>10. /\ UNCHANGED <<phase, own, coords, speakers, gate, exists, at, events>>
       /\ phase = "online" /\ answers' = Tail(answers) /\ answers # <<>>
  BY DEF AnswerArrives, Online, outside
<1>11. answers' \in Seq(Events)
  BY <1>10 DEF ChanInv, ChanTypeOK
<1>12. ChanTypeOK'
  BY <1>9, <1>10, <1>11 DEF ChanInv, ChanTypeOK
<1>13. GateFitsChannel' /\ NameHeld' /\ OutHeld'
  BY <1>7, <1>8, <1>9, <1>10
     DEF ChanInv, GateFitsChannel, NameHeld, OutHeld, Done, Took, Online, GateOf
<1>14. NameBackStep
  BY <1>1, <1>2, <1>7, <1>8, <1>10, OutcomesAre DEF NameBackStep, LeavesOrFails, Fit, Done, Took
<1>15. QED BY <1>12, <1>13, <1>14 DEF ChanInv

LEMMA ConnectStep ==
  ASSUME ChannelAssumption, ChanInv, Connect
  PROVE  ChanInv' /\ NameBackStep
<1> DEFINE n    == NickOnConnected(ch.nick, name, Conn)
           s    == [c |-> ChanReset(n), name |-> name, out |-> <<>>]
           f(o) == Tick(s, own', o)
<1>1. PICK o \in Outcomes : Took(f(o)) /\ faults' \in 0..MaxFaults
  <2>1. PICK r \in {f(o) : o \in Outcomes} :
          /\ ch' = r.c /\ name' = r.name /\ inbox' = r.out
          /\ faults' = IF r = f(AllWell) THEN faults ELSE faults + 1
          /\ faults' <= MaxFaults
    BY DEF Connect, Handler
  <2>2. faults \in 0..MaxFaults /\ MaxFaults \in Nat
    BY DEF ChanInv, ChanTypeOK, ChannelAssumption
  <2> HIDE DEF f
  <2>3. QED BY <2>1, <2>2 DEF Took
<1>2. /\ FreshCode \in Nat /\ exists \subseteq Managed /\ phase = "offline"
      /\ ch.nick \in NickStates /\ name \in Shows /\ Undoable(ch.nick, name)
  BY FreshIsCode DEF ChanInv, ChanTypeOK, Connect, NameHeld, Shows, ChanStates
<1>3. n \in NickStates /\ Undoable(n, name)
  BY <1>2, NickConnected
<1> HIDE DEF n
<1>4. /\ ChanReset(n) \in ChanStates /\ Linked(ChanReset(n)) /\ ChanReset(n).nick = n
      /\ ~ChanReset(n).throttled
  BY <1>3, ResetGood
<1>5. <<>> \in Seq(Requests)
  OBVIOUS
<1>6. Good(s) /\ ~s.c.throttled
  BY <1>2, <1>3, <1>4, <1>5 DEF Good, Works
<1>7. own' \in Channels /\ own' = at' /\ phase' = "online" /\ answers' = <<>>
  BY DEF Connect, ChannelAssumption
<1> HIDE DEF s
<1> DEFINE t == f(o)
<1>8. Good(t) /\ t.c.mode = ModeFor(own')
  BY <1>1, <1>2, <1>6, <1>7, TickKeeps, OutcomesAre
<1> HIDE DEF f
<1>9. Done(t)
  BY <1>1, <1>8 DEF Done
<1> HIDE DEF t
<1>10. /\ ch' \in ChanStates /\ Linked(ch)' /\ name' \in {Digits, RealName}
       /\ inbox' \in Seq(Requests) /\ faults' \in 0..MaxFaults /\ Undoable(ch.nick, name)'
  BY <1>9, DoneTypes
<1>11. answers' \in Seq(Events)
  BY <1>7
<1>12. events' \in 0..MaxEvents /\ UNCHANGED <<coords, speakers, gate, exists>>
  BY DEF Connect, ChanInv, ChanTypeOK, ChannelAssumption
<1>13. ChanTypeOK'
  BY <1>7, <1>10, <1>11, <1>12 DEF ChanInv, ChanTypeOK
<1>14. GateFitsChannel' /\ NameHeld' /\ OutHeld'
  BY <1>7, <1>8, <1>9, <1>10
     DEF GateFitsChannel, NameHeld, OutHeld, ModeFor, Done, Took, Online, GateOf
<1>15. ~LeavesOrFails
  BY <1>2 DEF LeavesOrFails, ChanInv, OutHeld, Nowhere, Ingame
<1>16. QED BY <1>13, <1>14, <1>15 DEF ChanInv, NameBackStep

LEMMA ShutdownStep ==
  ASSUME ChannelAssumption, ChanInv, Shutdown
  PROVE  ChanInv' /\ NameBackStep
<1> DEFINE f(o) == [Leave(Here, o) EXCEPT !.c = ChanReset(NickReset)]
<1>1. PICK o \in Outcomes : Took(f(o)) /\ faults' \in 0..MaxFaults
  <2>1. PICK r \in {f(o) : o \in Outcomes} :
          /\ ch' = r.c /\ name' = r.name /\ inbox' = r.out
          /\ faults' = IF r = f(AllWell) THEN faults ELSE faults + 1
          /\ faults' <= MaxFaults
    BY DEF Shutdown, Handler
  <2>2. faults \in 0..MaxFaults /\ MaxFaults \in Nat
    BY DEF ChanInv, ChanTypeOK, ChannelAssumption
  <2> HIDE DEF f
  <2>3. QED BY <2>1, <2>2 DEF Took
<1>2. FreshCode \in Nat /\ exists \subseteq Managed /\ Good(Here)
  BY FreshIsCode, HereIsGood DEF ChanInv, ChanTypeOK, Shutdown, Online
<1>3. Leave(Here, o) \in Works
  BY <1>1, <1>2, LeaveKeeps, OutcomesAre
<1>4. NickReset \in NickStates
  BY NamesDiffer DEF NickReset, NickStates, NoBinding
<1>5. ChanReset(NickReset) \in ChanStates /\ Linked(ChanReset(NickReset))
  BY <1>4, ResetGood
<1>6. f(o).c = ChanReset(NickReset) /\ f(o).name \in Shows /\ f(o).out \in Seq(Requests)
  BY <1>3, <1>5 DEF Works
<1> HIDE DEF f
<1>7. /\ ch' = ChanReset(NickReset) /\ name' \in {Digits, RealName} /\ inbox' \in Seq(Requests)
      /\ faults' \in 0..MaxFaults
  BY <1>1, <1>6 DEF Took, Shows
<1>8. ch' \in ChanStates /\ Linked(ch)'
  BY <1>5, <1>7 DEF Linked
<1>9. phase' = "stopped" /\ UNCHANGED <<own, coords, speakers, gate, exists, at, answers, events>>
  BY DEF Shutdown
<1>10. ChanTypeOK'
  BY <1>7, <1>8, <1>9 DEF ChanInv, ChanTypeOK
<1>11. QED BY <1>9, <1>10
   DEF ChanInv, GateFitsChannel, NameHeld, OutHeld, Online, NameBackStep, LeavesOrFails

LEMMA DisconnectStep ==
  ASSUME ChannelAssumption, ChanInv, Disconnect
  PROVE  ChanInv' /\ NameBackStep
<1>1. ch.nick \in NickStates /\ Undoable(ch.nick, name)
  BY DEF ChanInv, ChanTypeOK, ChanStates, NameHeld, Disconnect, Online
<1>2. /\ ChanReset(ch.nick) \in ChanStates /\ Linked(ChanReset(ch.nick))
      /\ ChanReset(ch.nick).nick = ch.nick /\ ~ChanReset(ch.nick).toIngame
  BY <1>1, ResetGood
<1>3. /\ ch' = ChanReset(ch.nick) /\ phase' = "offline" /\ own' = Nowhere /\ at' = Nowhere
      /\ inbox' = <<>> /\ answers' = <<>> /\ gate' = "profile"
      /\ UNCHANGED <<name, coords, speakers, exists, events, faults>>
  BY DEF Disconnect
<1>4. ch' \in ChanStates /\ Linked(ch)' /\ ch'.nick = ch.nick /\ ~ch'.toIngame
  BY <1>2, <1>3 DEF Linked
<1>5. <<>> \in Seq(Requests) /\ <<>> \in Seq(Events)
  OBVIOUS
<1>6. ChanTypeOK'
  BY <1>3, <1>4, <1>5 DEF ChanInv, ChanTypeOK
<1>7. QED BY <1>1, <1>3, <1>4, <1>6
          DEF ChanInv, GateFitsChannel, NameHeld, OutHeld, Online, NameBackStep, LeavesOrFails, Undoable

\* Steps of others leave the name and the mode of the client alone.
SameChan(c) == c.nick = ch.nick /\ c.mode = ch.mode /\ c.toIngame = ch.toIngame

LEMMA QuietStep ==
  ASSUME ChanInv, ChanTypeOK', SameChan(ch'), UNCHANGED <<name, phase, own>>
  PROVE  ChanInv' /\ NameBackStep
BY DEF ChanInv, SameChan, GateFitsChannel, NameHeld, OutHeld, Online, NameBackStep, LeavesOrFails,
       Undoable, GateOf

LEMMA Grown ==
  ASSUME NEW S, NEW q \in Seq(S), NEW a \in S, NEW b \in S
  PROVE  Append(q, a) \in Seq(S) /\ q \o <<a, b>> \in Seq(S)
OBVIOUS

LEMMA ServerStep ==
  ASSUME ChannelAssumption, ChanInv, Server
  PROVE  ChanInv' /\ NameBackStep
<1>1. /\ inbox \in Seq(Requests) /\ inbox # <<>> /\ answers \in Seq(Events)
      /\ UNCHANGED <<ch, name, phase, own, coords, speakers, gate, exists, events>>
  BY DEF ChanInv, ChanTypeOK, Server, ServerMoves, ServerRefuses, ServerStaysSilent, outside
<1>2. inbox' = Tail(inbox) /\ faults' \in 0..MaxFaults
  <2>1. faults \in 0..MaxFaults /\ MaxFaults \in Nat
    BY DEF ChanInv, ChanTypeOK, ChannelAssumption
  <2>2. CASE ServerMoves
    BY <2>1, <2>2 DEF ServerMoves
  <2>3. CASE ServerRefuses
    <3>1. inbox' = Tail(inbox) /\ faults' \in {faults, faults + 1} /\ faults' <= MaxFaults
      BY <2>3 DEF ServerRefuses
    <3>2. QED BY <2>1, <3>1
  <2>4. CASE ServerStaysSilent
    <3>1. inbox' = Tail(inbox) /\ faults' = faults + 1 /\ faults < MaxFaults
      BY <2>4 DEF ServerStaysSilent
    <3>2. QED BY <2>1, <3>1
  <2>5. QED BY <2>2, <2>3, <2>4 DEF Server
<1>3. Head(inbox) \in Requests /\ Tail(inbox) \in Seq(Requests)
  BY <1>1
<1>4. Head(inbox).target \in Managed /\ Head(inbox).code \in Nat
  BY <1>3 DEF Requests
<1>5. /\ \A ok \in BOOLEAN : Answer(Head(inbox).code, ok) \in Events
      /\ Moved(Head(inbox).target) \in Events
  BY <1>4 DEF Answer, Moved, Events, Channels
<1>6. at' \in Channels \cup {Nowhere} /\ answers' \in Seq(Events)
  <2>1. CASE ServerMoves
    <3>1. at' = Head(inbox).target
          /\ answers' = answers \o <<Moved(Head(inbox).target), Answer(Head(inbox).code, TRUE)>>
      BY <2>1 DEF ServerMoves
    <3>2. Moved(Head(inbox).target) \in Events /\ Answer(Head(inbox).code, TRUE) \in Events
      BY <1>5
    <3>3. answers' \in Seq(Events)
      BY <1>1, <3>1, <3>2, Grown
    <3>4. QED BY <1>4, <3>1, <3>3 DEF Channels
  <2>2. CASE ServerRefuses
    <3>1. at' = at /\ answers' = Append(answers, Answer(Head(inbox).code, FALSE))
      BY <2>2 DEF ServerRefuses, outside
    <3>2. Answer(Head(inbox).code, FALSE) \in Events
      BY <1>5
    <3>3. answers' \in Seq(Events)
      BY <1>1, <3>1, <3>2, Grown
    <3>4. QED BY <3>1, <3>3 DEF ChanInv, ChanTypeOK
  <2>3. CASE ServerStaysSilent
    <3>1. at' = at /\ answers' = answers
      BY <2>3 DEF ServerStaysSilent, outside
    <3>2. QED BY <1>1, <3>1 DEF ChanInv, ChanTypeOK
  <2>4. QED BY <2>1, <2>2, <2>3 DEF Server
<1>7. ChanTypeOK'
  BY <1>1, <1>2, <1>3, <1>6 DEF ChanInv, ChanTypeOK, Linked
<1>8. QED BY <1>1, <1>7, QuietStep DEF SameChan

LEMMA UserStep ==
  ASSUME ChannelAssumption, ChanInv, User
  PROVE  ChanInv' /\ NameBackStep
<1>1. /\ events' \in 0..MaxEvents /\ ch \in ChanStates /\ Linked(ch) /\ answers \in Seq(Events)
      /\ UNCHANGED <<name, phase, own, inbox, faults>>
  <2>1. Happens /\ UNCHANGED <<name, phase, own, inbox, faults>>
    BY DEF User, UserMoves, CoordsChange, SpeakersChange, PasswordExpires, ListChanges
  <2>2. QED BY <2>1 DEF Happens, ChanInv, ChanTypeOK, ChannelAssumption
<1>2. ASSUME NEW c \in Channels, UserMoves(c) PROVE ChanInv' /\ NameBackStep
  <2>1. Moved(c) \in Events /\ answers' = Append(answers, Moved(c))
    BY <1>2 DEF UserMoves, Moved, Events
  <2>2. answers' \in Seq(Events)
    BY <1>1, <2>1
  <2>3. at' = c /\ UNCHANGED <<ch, coords, speakers, gate, exists>>
    BY <1>2 DEF UserMoves
  <2>4. ChanTypeOK'
    BY <1>1, <2>2, <2>3 DEF ChanInv, ChanTypeOK, Linked
  <2>5. QED BY <1>1, <2>3, <2>4, QuietStep DEF SameChan
<1>3. CASE CoordsChange
  <2>1. /\ ch' = [ch EXCEPT !.posPending = TRUE] /\ coords' = ~coords
        /\ UNCHANGED <<speakers, gate, exists, at, answers>>
    BY <1>3 DEF CoordsChange
  <2>2. ch' \in ChanStates /\ Linked(ch)' /\ SameChan(ch')
    BY <1>1, <2>1 DEF ChanStates, Linked, SameChan
  <2>3. ChanTypeOK'
    BY <1>1, <2>1, <2>2 DEF ChanInv, ChanTypeOK
  <2>4. QED BY <1>1, <2>2, <2>3, QuietStep
<1>4. CASE SpeakersChange
  <2>1. speakers' = ~speakers /\ UNCHANGED <<ch, coords, gate, exists, at, answers>>
    BY <1>4 DEF SpeakersChange
  <2>2. ChanTypeOK'
    BY <1>1, <2>1 DEF ChanInv, ChanTypeOK, Linked
  <2>3. QED BY <1>1, <2>1, <2>2, QuietStep DEF SameChan
<1>5. CASE PasswordExpires
  <2>1. gate' = "password" /\ UNCHANGED <<ch, coords, speakers, exists, at, answers>>
    BY <1>5 DEF PasswordExpires
  <2>2. ChanTypeOK'
    BY <1>1, <2>1 DEF ChanInv, ChanTypeOK, Linked
  <2>3. QED BY <1>1, <2>1, <2>2, QuietStep DEF SameChan
<1>6. ASSUME NEW c \in Managed, ListChanges(c) PROVE ChanInv' /\ NameBackStep
  <2>1. /\ ch' = [ch EXCEPT !.listDirty = TRUE] /\ exists' \in {exists \ {c}, exists \cup {c}}
        /\ UNCHANGED <<coords, speakers, gate, at, answers>>
    BY <1>6 DEF ListChanges
  <2>2. ch' \in ChanStates /\ Linked(ch)' /\ SameChan(ch')
    BY <1>1, <2>1 DEF ChanStates, Linked, SameChan
  <2>3. exists' \subseteq Managed
    BY <2>1 DEF ChanInv, ChanTypeOK
  <2>4. ChanTypeOK'
    BY <1>1, <2>1, <2>2, <2>3 DEF ChanInv, ChanTypeOK
  <2>5. QED BY <1>1, <2>2, <2>4, QuietStep
<1>7. QED BY <1>2, <1>3, <1>4, <1>5, <1>6 DEF User

\* The clock and the feed: a flag of the module changes.
LEMMA FlagStep ==
  ASSUME ChannelAssumption, ChanInv, GateOpens \/ Sample \/ Clock
  PROVE  ChanInv' /\ NameBackStep
<1>1. ch \in ChanStates /\ Linked(ch) /\ gate \in {"profile", "password", "open"}
  BY DEF ChanInv, ChanTypeOK
<1>2. UNCHANGED <<name, phase, own, coords, speakers, exists, at, inbox, answers, events>>
  BY DEF GateOpens, Sample, Clock, Unthrottle, Cool, Age, BackoffOver, DwellOver, FindDue, Passes,
         outside
<1>3. faults' \in 0..MaxFaults /\ gate' \in {"profile", "password", "open"}
  <2>1. CASE Age
    BY <2>1 DEF Age, outside, ChanInv, ChanTypeOK, ChannelAssumption
  <2>2. CASE GateOpens
    BY <2>2 DEF GateOpens, ChanInv, ChanTypeOK
  <2>3. CASE Sample \/ (Clock /\ ~Age)
    BY <2>3 DEF Sample, Clock, Unthrottle, Cool, BackoffOver, DwellOver, FindDue, Passes,
                outside, ChanInv, ChanTypeOK
  <2>4. QED BY <2>1, <2>2, <2>3
<1>4. ch' \in ChanStates /\ Linked(ch)' /\ SameChan(ch')
  <2>1. CASE GateOpens
    <3>1. ch' = [ch EXCEPT !.posPending = (ch.posPending \/ gate = "profile")]
      BY <2>1 DEF GateOpens
    <3>2. (ch.posPending \/ gate = "profile") \in BOOLEAN
      OBVIOUS
    <3>3. QED BY <1>1, <3>1, <3>2 DEF ChanStates, Linked, SameChan
  <2>2. CASE Sample
    <3>1. ch' = [ch EXCEPT !.posPending = TRUE]
      BY <2>2 DEF Sample
    <3>2. QED BY <1>1, <3>1 DEF ChanStates, Linked, SameChan
  <2>3. CASE Unthrottle
    <3>1. ch' = [ch EXCEPT !.throttled = FALSE]
      BY <2>3 DEF Unthrottle, Passes
    <3>2. QED BY <1>1, <3>1 DEF ChanStates, Linked, SameChan
  <2>4. CASE Cool
    <3>1. ch' = [ch EXCEPT !.cooled = TRUE]
      BY <2>4 DEF Cool, Passes
    <3>2. QED BY <1>1, <3>1 DEF ChanStates, Linked, SameChan
  <2>5. CASE Age
    <3>1. ch' = [ch EXCEPT !.aged = TRUE]
      BY <2>5 DEF Age
    <3>2. QED BY <1>1, <3>1 DEF ChanStates, Linked, SameChan
  <2>6. CASE BackoffOver
    <3> DEFINE b == [ch.backoff EXCEPT !.wait = FALSE]
    <3>1. ch' = [ch EXCEPT !.backoff = b]
      BY <1>1, <2>6 DEF BackoffOver, Passes, ChanStates
    <3>2. b \in Backoffs
      BY <1>1 DEF ChanStates, Backoffs
    <3> HIDE DEF b
    <3>3. QED BY <1>1, <3>1, <3>2 DEF ChanStates, Linked, SameChan
  <2>7. CASE DwellOver
    <3>1. ch' = [ch EXCEPT !.dwell = FALSE]
      BY <2>7 DEF DwellOver, Passes
    <3>2. QED BY <1>1, <3>1 DEF ChanStates, Linked, SameChan
  <2>8. CASE FindDue
    <3>1. ch' = [ch EXCEPT !.findDue = TRUE]
      BY <2>8 DEF FindDue, Passes
    <3>2. QED BY <1>1, <3>1 DEF ChanStates, Linked, SameChan
  <2>9. QED BY <2>1, <2>2, <2>3, <2>4, <2>5, <2>6, <2>7, <2>8 DEF Clock
<1>5. ChanTypeOK'
  BY <1>2, <1>3, <1>4 DEF ChanInv, ChanTypeOK
<1>6. QED BY <1>2, <1>4, <1>5, QuietStep

LEMMA ChanStep ==
  ASSUME ChannelAssumption, ChanInv, [ChanNext]_cvars
  PROVE  ChanInv' /\ [NameBackStep]_cvars
<1>1. CASE Drain \/ OthersMove
  <2>1. /\ Online /\ Handler(LAMBDA o : Tick(Here, own, o))
        /\ UNCHANGED <<outside, answers, events>>
    BY <1>1 DEF Drain, OthersMove
  <2>2. QED BY <2>1, TickStep
<1>2. CASE UNCHANGED cvars
  BY <1>2 DEF cvars, outside, ChanInv, ChanTypeOK, Linked, GateFitsChannel, NameHeld, OutHeld,
     Online,
              Undoable, GateOf
<1>3. QED BY <1>1, <1>2, OwnMoveStep, AnswerStep, ConnectStep, ShutdownStep, DisconnectStep,
   ServerStep,
             UserStep, FlagStep
          DEF ChanNext

LEMMA ChanStarts ==
  ASSUME ChannelAssumption, ChanInit
  PROVE  ChanInv
<1>1. NickReset \in NickStates
  BY NamesDiffer DEF NickReset, NickStates, NoBinding
<1>2. ch \in ChanStates /\ Linked(ch) /\ ~ch.toIngame
  BY <1>1, ResetGood DEF ChanInit
<1>3. <<>> \in Seq(Requests) /\ <<>> \in Seq(Events)
  OBVIOUS
<1>4. ChanTypeOK
  <2>1. inbox \in Seq(Requests) /\ answers \in Seq(Events)
    BY <1>3 DEF ChanInit
  <2>2. events \in 0..MaxEvents /\ faults \in 0..MaxFaults
    BY DEF ChanInit, ChannelAssumption
  <2>3. /\ phase = "offline" /\ own = Nowhere /\ name = RealName /\ coords \in BOOLEAN
        /\ speakers = FALSE /\ gate = "profile" /\ exists = Managed /\ at = Nowhere
    BY DEF ChanInit
  <2>4. QED BY <1>2, <2>1, <2>2, <2>3 DEF ChanTypeOK
<1>5. NameHeld /\ OutHeld /\ GateFitsChannel
  BY <1>2, NamesDiffer DEF ChanInit, NameHeld, OutHeld, GateFitsChannel, Online, Undoable
<1>6. QED BY <1>4, <1>5 DEF ChanInv

(* While digits are shown, the real name of the connection is saved and    *)
(* the module knows that it has to restore it, and the playback gate fits  *)
(* the channel: through time-outs, refusals, failing calls, back-off,      *)
(* reconnects and return codes that were overwritten (channel_manage.c,    *)
(* nick_anonymize.c), whatever the settings.                               *)
THEOREM NamesStaySafe ==
  ASSUME ChannelAssumption
  PROVE  ChanSpec => [](ChanTypeOK /\ NamesAreSafe)
<1>1. ChanInit => ChanInv
  BY ChanStarts
<1>2. ChanInv /\ [ChanNext]_cvars => ChanInv'
  BY ChanStep
<1>3. ChanInv => ChanTypeOK /\ NamesAreSafe
  <2>1. SUFFICES ASSUME ChanInv, Online, name = Digits
                 PROVE  ch.nick.anon /\ SavedUsable(ch.nick, Conn) /\ ch.nick.saved = RealName
    BY DEF NamesAreSafe, NameRecoverable, ChanInv
  <2>2. ch.nick \in NickStates /\ Undoable(ch.nick, name)
    BY <2>1 DEF ChanInv, ChanTypeOK, ChanStates, NameHeld, Online
  <2>3. QED BY <2>1, <2>2, ConnUsable DEF Undoable
<1>4. QED BY <1>1, <1>2, <1>3, PTL DEF ChanSpec

(* No step on which all calls to TeamSpeak succeed leaves digits outside   *)
(* of the game channel, after an own move out of it or a failed move into  *)
(* it, unless the same step tries again (chan_on_own_move,                 *)
(* chan_move_attempt_failed).                                              *)
THEOREM NameComesBack ==
  ASSUME ChannelAssumption
  PROVE  ChanSpec => NameBackOutside
<1>1. ChanInit => ChanInv
  BY ChanStarts
<1>2. ChanInv /\ [ChanNext]_cvars => ChanInv' /\ [NameBackStep]_cvars
  BY ChanStep
<1>3. QED BY <1>1, <1>2, PTL DEF ChanSpec, NameBackOutside
=============================================================================
