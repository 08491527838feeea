---------------------------- MODULE Session_proofs ---------------------------
(***************************************************************************)
(* Proofs about what belongs to the session of one server: how a client id *)
(* is heard around changes of the tab (RenderSession), the profile of the  *)
(* server (ServerProfile), and the reading of its description              *)
(* (HubDescription).                                                       *)
(***************************************************************************)
EXTENDS RenderSession, ServerProfile, HubDescription, FiniteSetTheorems, WellFoundedInduction, TLAPS

-----------------------------------------------------------------------------
(***************************************************************************)
(* RenderSession: for any tabs and any number of events, the types, and    *)
(* that no block is shaped by a target or a gain of an earlier session,    *)
(* provided that TeamSpeak reports a tab change before the status of the   *)
(* tab that is now shown (~StatusFirst).                                   *)
(*                                                                         *)
(* The argument.  A session begins only when the id is clean: its target   *)
(* is withdrawn, and what the audio thread still holds of it is of another *)
(* generation and will be forgotten with the next block.  The handlers     *)
(* that adopt a tab either have cleaned the id before, or find it clean,   *)
(* as nothing is computed while no connection is there.                    *)
(***************************************************************************)
TodoOps == [op : {"quiesce", "forget", "withdraw", "bump", "down", "up", "conn"},
            arg : Tabs \cup {Offline}]

(* The i-th store adopts a tab.                                            *)
Adopts(i) == todo[i].op = "conn" /\ todo[i].arg # Offline

(* The stores are well formed, and each adoption has its own event.        *)
TodoOK ==
  /\ todo \in Seq(TodoOps)
  /\ session <= tabMoves
  /\ \A i \in 1..Len(todo) : Adopts(i) => session < tabMoves
  /\ \A i, j \in 1..Len(todo) : Adopts(i) /\ Adopts(j) => i = j
  /\ activeConn # Offline => session # 0

(* Nothing of an earlier session is published, and nothing the audio       *)
(* thread holds survives its next look at the generation.                  *)
Clean == snap = 0 /\ (renderGen = gen => cache = 0 /\ gain = 0)

(* The id is clean when the stores before the i-th are made.               *)
CleanBefore(i) ==
  \/ Clean
  \/ snap = 0 /\ \E k \in 1..i-1 : todo[k].op = "bump"
  \/ \E j, k \in 1..i-1 : j < k /\ todo[j].op = "withdraw" /\ todo[k].op = "bump"

(* Adoption finds the id clean, and so does whoever is disconnected.       *)
CleanInv ==
  /\ todo = <<>> => connected \/ Clean
  /\ todo # <<>> => CleanBefore(Len(todo) + 1)
  /\ \A i \in 1..Len(todo) : Adopts(i) => CleanBefore(i)

(* Who is connected is connected to a tab that is up.                      *)
WillGoDown == \E i \in 1..Len(todo) : todo[i].op = "down"
UpInv ==
  /\ connected /\ ~WillGoDown =>
       activeConn \in up /\ \A i \in 1..Len(todo) : todo[i].op # "conn"
  /\ \A i \in 1..Len(todo) : todo[i].op = "up" =>
       \E t \in up :
         /\ activeConn = t \/ \E j \in 1..i-1 : todo[j] = Op("conn", t)
         /\ \A j \in 1..Len(todo) : /\ todo[j].op = "conn" => j < i /\ todo[j].arg = t
                                    /\ todo[j].op = "down" => j < i

(* What is published and held belongs to the session, unless it is of      *)
(* another generation; a block that knows its generation has no older      *)
(* target or gain than its own session.                                    *)
AtLeast(x, s) == x = 0 \/ x >= s
SessionInv ==
  /\ renderGen <= gen /\ bsession <= session
  /\ AtLeast(snap, session)
  /\ renderGen = gen => AtLeast(cache, session) /\ AtLeast(gain, session)
  /\ renderAt \in {"mode", "snap", "shape"} => AtLeast(cache, bsession) /\ AtLeast(gain, bsession)

RenderInv == CleanInv /\ UpInv /\ SessionInv /\ NoOldTarget
-----------------------------------------------------------------------------
(* The scripts of the handlers.  Adopting a tab that is up or not.         *)
AdoptUp(t)   == <<Do("down"), Op("conn", t)>> \o <<Do("up")>>
(* AdoptUp without the last store, the connection of a tab that is not up. *)
AdoptDown(t) == <<Do("down"), Op("conn", t)>> \o <<>>

LEMMA ScriptTypes ==
  /\ ResetOps \in Seq(TodoOps) /\ ClearOps \in Seq(TodoOps)
  /\ \A t \in Tabs : AdoptUp(t) \in Seq(TodoOps) /\ AdoptDown(t) \in Seq(TodoOps)
<1>1. \A x \in {"quiesce", "forget", "withdraw", "bump", "down", "up"} : Do(x) \in TodoOps
  BY DEF TodoOps, Do, Op
<1>2. Op("conn", Offline) \in TodoOps /\ \A t \in Tabs : Op("conn", t) \in TodoOps
  BY DEF TodoOps, Op
<1>3. QED BY <1>1, <1>2 DEF ResetOps, ClearOps, AdoptUp, AdoptDown

(* A tab change: the id is reset before the tab is adopted.                *)
SwitchStores(s, t) ==
  /\ s \in Seq(TodoOps)
  /\ s[1] = Do("quiesce") /\ s[2] = Do("forget") /\ s[3] = Do("withdraw")
  /\ s[4] = Do("bump") /\ s[5] = Do("bump") /\ s[6] = Do("down") /\ s[7] = Op("conn", t)
  /\ \/ Len(s) = 7
     \/ Len(s) = 8 /\ s[8] = Do("up")

(* An established tab: it is adopted, then the id is reset.                *)
EstablishStores(s, t) ==
  /\ s \in Seq(TodoOps) /\ Len(s) = 8
  /\ s[1] = Do("down") /\ s[2] = Op("conn", t) /\ s[3] = Do("up")
  /\ s[4] = Do("quiesce") /\ s[5] = Do("forget") /\ s[6] = Do("withdraw")
  /\ s[7] = Do("bump") /\ s[8] = Do("bump")

(* A lost tab: the identity is cleared, then the id is reset.              *)
ClearStores(s) ==
  /\ s \in Seq(TodoOps) /\ Len(s) = 7
  /\ s[1] = Do("down") /\ s[2] = Op("conn", Offline)
  /\ s[3] = Do("quiesce") /\ s[4] = Do("forget") /\ s[5] = Do("withdraw")
  /\ s[6] = Do("bump") /\ s[7] = Do("bump")

LEMMA SwitchScript ==
  ASSUME NEW t \in Tabs
  PROVE  /\ SwitchStores(ResetOps \o AdoptUp(t), t) /\ Len(ResetOps \o AdoptUp(t)) = 8
         /\ SwitchStores(ResetOps \o AdoptDown(t), t) /\ Len(ResetOps \o AdoptDown(t)) = 7
<1>1. ResetOps \o AdoptUp(t) \in Seq(TodoOps) /\ ResetOps \o AdoptDown(t) \in Seq(TodoOps)
  BY ScriptTypes
<1>2. SwitchStores(ResetOps \o AdoptUp(t), t) /\ Len(ResetOps \o AdoptUp(t)) = 8
  BY <1>1 DEF SwitchStores, ResetOps, AdoptUp
<1>3. SwitchStores(ResetOps \o AdoptDown(t), t) /\ Len(ResetOps \o AdoptDown(t)) = 7
  <2>1. Len(ResetOps \o AdoptDown(t)) = 7
    BY <1>1 DEF ResetOps, AdoptDown
  <2>2. ASSUME NEW s, s = ResetOps \o AdoptDown(t)
        PROVE  /\ s[1] = Do("quiesce") /\ s[2] = Do("forget") /\ s[3] = Do("withdraw")
               /\ s[4] = Do("bump") /\ s[5] = Do("bump") /\ s[6] = Do("down")
               /\ s[7] = Op("conn", t)
    BY <1>1, <2>2 DEF ResetOps, AdoptDown
  <2>3. QED BY <1>1, <2>1, <2>2, Zenon DEF SwitchStores
<1>4. QED BY <1>2, <1>3

LEMMA EstablishScript ==
  ASSUME NEW t \in Tabs
  PROVE  EstablishStores(AdoptUp(t) \o ResetOps, t)
<1>1. AdoptUp(t) \o ResetOps \in Seq(TodoOps)
  BY ScriptTypes
<1>2. QED BY <1>1 DEF EstablishStores, ResetOps, AdoptUp

LEMMA ClearScript == ClearStores(ClearOps \o ResetOps)
<1>1. ClearOps \o ResetOps \in Seq(TodoOps)
  BY ScriptTypes
<1>2. QED BY <1>1 DEF ClearStores, ResetOps, ClearOps

(* What the handlers leave to do.                                          *)
LEMMA SwitchTodo ==
  ASSUME NEW t \in Tabs, SwitchTab(t)
  PROVE  SwitchStores(todo', t) /\ (Len(todo') = 8 => t \in up)
<1>1. CASE t \in up
  <2>1. todo' = ResetOps \o AdoptUp(t)
    BY <1>1 DEF SwitchTab, AdoptOps, AdoptUp
  <2>2. QED BY <1>1, <2>1, SwitchScript
<1>2. CASE t \notin up
  <2>1. todo' = ResetOps \o AdoptDown(t)
    BY <1>2 DEF SwitchTab, AdoptOps, AdoptDown
  <2>2. QED BY <2>1, SwitchScript
<1>3. QED BY <1>1, <1>2

LEMMA EstablishTodo ==
  ASSUME RenderAssumption, NEW t \in Tabs, Established(t)
  PROVE  \/ todo' = <<>>
         \/ /\ EstablishStores(todo', t)
            /\ ~StatusFirst => activeConn \in {Offline, t} \/ ~connected
<1> PICK shown \in {FALSE, StatusFirst} :
       todo' = IF activeConn \notin {Offline, t} /\ connected /\ ~shown THEN <<>>
               ELSE AdoptOps(t, TRUE) \o ResetOps
  BY DEF Established
<1>1. \/ todo' = <<>>
      \/ /\ todo' = AdoptUp(t) \o ResetOps
         /\ ~(activeConn \notin {Offline, t} /\ connected /\ ~shown)
  BY DEF AdoptOps, AdoptUp
<1>2. ~StatusFirst => ~shown
  BY DEF RenderAssumption
<1>3. QED BY <1>1, <1>2, EstablishScript

LEMMA DisconnectTodo ==
  ASSUME NEW t \in Tabs, Disconnected(t)
  PROVE  \/ todo' = <<>> /\ activeConn \notin {Offline, t}
         \/ ClearStores(todo')
<1>1. \/ todo' = <<>> /\ activeConn \notin {Offline, t}
      \/ todo' = ClearOps \o ResetOps
  BY DEF Disconnected
<1>2. QED BY <1>1, ClearScript

LEMMA OpOf == \A x, a : Op(x, a).op = x /\ Op(x, a).arg = a /\ Do(x).op = x /\ Do(x).arg = Offline
BY DEF Do, Op

(* Each script changes the connection once.                                *)
LEMMA SwitchConn ==
  ASSUME NEW t \in Tabs, NEW s, SwitchStores(s, t)
  PROVE  \A i \in 1..Len(s) : s[i].op = "conn" => i = 7
<1>1. /\ s[1].op # "conn" /\ s[2].op # "conn" /\ s[3].op # "conn"
      /\ s[4].op # "conn" /\ s[5].op # "conn" /\ s[6].op # "conn"
  BY OpOf DEF SwitchStores
<1>2. CASE Len(s) = 7
  BY <1>1, <1>2
<1>3. CASE Len(s) = 8 /\ s[8] = Do("up")
  BY <1>1, <1>3, OpOf
<1>4. QED BY <1>2, <1>3 DEF SwitchStores

LEMMA EstablishConn ==
  ASSUME NEW t \in Tabs, NEW s, EstablishStores(s, t)
  PROVE  \A i \in 1..Len(s) : s[i].op = "conn" => i = 2
BY OpOf DEF EstablishStores

LEMMA ClearConn ==
  ASSUME NEW s, ClearStores(s)
  PROVE  \A i \in 1..Len(s) : s[i].op = "conn" => i = 2
BY OpOf DEF ClearStores

(* What is left of a script after its next store.                          *)
LEMMA TailElements ==
  ASSUME NEW S, NEW s \in Seq(S), s # <<>>
  PROVE  /\ Len(s) \in Nat \ {0} /\ Len(Tail(s)) = Len(s) - 1
         /\ Tail(s) \in Seq(S) /\ Head(s) = s[1] /\ s[1] \in S
         /\ \A i \in 1..Len(Tail(s)) : i + 1 \in 1..Len(s) /\ Tail(s)[i] = s[i+1]
         /\ \A i \in 2..Len(s) : i - 1 \in 1..Len(Tail(s)) /\ Tail(s)[i-1] = s[i]
         /\ Tail(s) = <<>> <=> Len(s) = 1
<1>1. Len(s) \in Nat \ {0} /\ Len(Tail(s)) = Len(s) - 1 /\ Tail(s) \in Seq(S)
  OBVIOUS
<1>2. Head(s) = s[1] /\ s[1] \in S
  OBVIOUS
<1>3. \A i \in 1..Len(Tail(s)) : i + 1 \in 1..Len(s) /\ Tail(s)[i] = s[i+1]
  BY <1>1
<1>4. \A i \in 2..Len(s) : i - 1 \in 1..Len(Tail(s)) /\ Tail(s)[i-1] = s[i]
  BY <1>1
<1>5. Tail(s) = <<>> <=> Len(s) = 1
  <2>1. \A r \in Seq(S) : r = <<>> <=> Len(r) = 0
    OBVIOUS
  <2>2. Tail(s) = <<>> <=> Len(Tail(s)) = 0
    BY <1>1, <2>1, Zenon
  <2>3. Len(Tail(s)) = 0 <=> Len(s) = 1
    BY <1>1
  <2>4. QED BY <2>2, <2>3, Zenon
<1>6. QED BY <1>1, <1>2, <1>3, <1>4, <1>5

LEMMA TodoTail ==
  ASSUME TodoOK, todo # <<>>, todo' = Tail(todo)
  PROVE  /\ Len(todo) \in Nat \ {0} /\ Len(todo') = Len(todo) - 1
         /\ todo' \in Seq(TodoOps) /\ Head(todo) = todo[1] /\ todo[1] \in TodoOps
         /\ \A i \in 1..Len(todo') : i + 1 \in 1..Len(todo) /\ todo'[i] = todo[i+1]
         /\ \A i \in 2..Len(todo) : i - 1 \in 1..Len(todo') /\ todo'[i-1] = todo[i]
         /\ todo' = <<>> <=> Len(todo) = 1
<1>1. todo \in Seq(TodoOps)
  BY DEF TodoOK
<1>2. QED BY <1>1, TailElements
-----------------------------------------------------------------------------
(* Types.                                                                  *)

Typed == TypeOK /\ TodoOK

(* A tab event is counted and queues a script with one adoption at most.   *)
LEMMA TypeTabs ==
  ASSUME RenderAssumption, Typed, NEW t \in Tabs, Tab(t)
  PROVE  Typed'
<1> DEFINE Counted == /\ todo = <<>> /\ tabMoves < MaxTabMoves /\ tabMoves' = tabMoves + 1
                      /\ UNCHANGED <<identity, target, audio>> /\ up' \subseteq Tabs
<1>1. ASSUME Counted PROVE TypeOK' /\ tabMoves' \in Nat /\ session' < tabMoves'
  BY <1>1 DEF Typed, TypeOK, TodoOK, Sessions, RenderAssumption, identity, target, audio
<1>2. ASSUME Counted, todo' \in Seq(TodoOps), NEW k \in Nat,
             \A i \in 1..Len(todo') : todo'[i].op = "conn" => i = k
      PROVE  Typed'
  <2>1. activeConn' # Offline => session' # 0
    BY <1>2 DEF Typed, TodoOK, identity
  <2>2. session' <= tabMoves'
    BY <1>1, <1>2 DEF Typed, TypeOK, Sessions, identity
  <2>3. QED BY <1>1, <1>2, <2>1, <2>2 DEF Typed, TodoOK, Adopts
<1>3. ASSUME Counted, todo' = <<>> PROVE Typed'
  <2>1. todo' \in Seq(TodoOps) /\ 1..Len(todo') = {}
    BY <1>3
  <2>2. QED BY <1>2, <1>3, <2>1
<1>4. CASE SwitchTab(t)
  <2>1. Counted /\ SwitchStores(todo', t)
    BY <1>4, SwitchTodo DEF SwitchTab, TabEvent, Typed, TypeOK
  <2>2. QED BY <1>2, <2>1, SwitchConn DEF SwitchStores
<1>5. CASE Established(t)
  <2>1. Counted /\ (todo' = <<>> \/ EstablishStores(todo', t))
    BY <1>5, EstablishTodo DEF Established, TabEvent, Typed, TypeOK
  <2>2. QED BY <1>2, <1>3, <2>1, EstablishConn DEF EstablishStores
<1>6. CASE Disconnected(t)
  <2>1. Counted /\ (todo' = <<>> \/ ClearStores(todo'))
    BY <1>6, DisconnectTodo DEF Disconnected, TabEvent, Typed, TypeOK
  <2>2. QED BY <1>2, <1>3, <2>1, ClearConn DEF ClearStores
<1>7. QED BY <1>4, <1>5, <1>6 DEF Tab

LEMMA TypeStore == ASSUME RenderAssumption, Typed, CallbackStore PROVE Typed'
<1> USE DEF Typed, TypeOK, Sessions, RenderAssumption, audio
<1> DEFINE o == todo[1]
<1>1. /\ todo # <<>> /\ todo' = Tail(todo) /\ Head(todo) = o /\ o \in TodoOps
      /\ UNCHANGED <<up, tabMoves, audio>>
  BY TodoTail DEF CallbackStore
<1>2. /\ session' = IF Adopts(1) THEN session + 1 ELSE session
      /\ activeConn' = IF o.op = "conn" THEN o.arg ELSE activeConn
      /\ mode' \in {"passthrough", mode} /\ snap' \in {0, snap} /\ gen' \in {gen, gen + 1}
      /\ position' \in BOOLEAN /\ connected' \in BOOLEAN
  BY <1>1 DEF CallbackStore, Adopts
<1>3. o.arg \in Tabs \cup {Offline} /\ 1 \in 1..Len(todo)
  BY <1>1, TodoTail DEF TodoOps
<1> HIDE DEF o
<1>4. session' \in Nat /\ session' <= tabMoves /\ (Adopts(1) => session < tabMoves)
  BY <1>2, <1>3 DEF TodoOK
<1>5. TypeOK'
  BY <1>1, <1>2, <1>3, <1>4 DEF Modes
<1>6. \A i \in 1..Len(todo') : Adopts(i)' => i + 1 \in 1..Len(todo) /\ Adopts(i+1)
  BY <1>1, TodoTail DEF Adopts
<1>7. /\ \A i \in 1..Len(todo') : Adopts(i)' => session' < tabMoves'
      /\ \A i, j \in 1..Len(todo') : Adopts(i)' /\ Adopts(j)' => i = j
  <2>1. ASSUME NEW i \in 1..Len(todo'), Adopts(i)' PROVE session' < tabMoves'
    <3>1. i + 1 \in 1..Len(todo) /\ Adopts(i+1) /\ i + 1 # 1
      BY <1>6, <2>1
    <3>2. ~Adopts(1) /\ session < tabMoves
      BY <1>3, <3>1 DEF TodoOK
    <3>3. QED BY <1>1, <1>2, <3>2
  <2>2. ASSUME NEW i \in 1..Len(todo'), NEW j \in 1..Len(todo'), Adopts(i)', Adopts(j)'
        PROVE  i = j
    <3>1. i + 1 \in 1..Len(todo) /\ j + 1 \in 1..Len(todo) /\ Adopts(i+1) /\ Adopts(j+1)
      BY <1>6, <2>2
    <3>2. i + 1 = j + 1
      BY <3>1 DEF TodoOK
    <3>3. QED BY <3>2
  <2>3. QED BY <2>1, <2>2
<1>8. activeConn' # Offline => session' # 0
  BY <1>2, <1>3 DEF TodoOK, Adopts, o
<1>9. todo' \in Seq(TodoOps) /\ session' <= tabMoves'
  BY <1>1, <1>4, TodoTail
<1>10. TodoOK'
  BY <1>7, <1>8, <1>9 DEF TodoOK
<1>11. QED BY <1>5, <1>10

CallbackTypes ==
  /\ up \subseteq Tabs /\ tabMoves \in 0..MaxTabMoves
  /\ activeConn \in Tabs \cup {Offline} /\ connected \in BOOLEAN /\ session \in Sessions
  /\ mode \in Modes /\ position \in BOOLEAN
  /\ snap \in Sessions /\ gen \in Nat
AudioTypes ==
  /\ renderAt \in {"idle", "gen", "mode", "snap", "shape"}
  /\ bsession \in Sessions /\ renderGen \in Nat
  /\ renderAt # "idle" => bsession # 0
  /\ renderAt = "shape" => cache # 0
  /\ cache \in Sessions /\ gain \in Sessions /\ fresh \in BOOLEAN
  /\ heard \in [block : Sessions, target : Sessions, from : Sessions]

LEMMA TypeParts == TypeOK <=> CallbackTypes /\ AudioTypes
BY DEF TypeOK, CallbackTypes, AudioTypes

(* Work on the established tab leaves the audio thread's state alone.      *)
LEMMA TypeWork ==
  ASSUME RenderAssumption, Typed,
         ChannelTick \/ PositionArrives \/ RecomputeOne \/ SpeakerLeaves
  PROVE  Typed'
<1>1. UNCHANGED <<up, activeConn, connected, session, todo, audio>>
  BY DEF ChannelTick, PositionArrives, RecomputeOne, SpeakerLeaves, Working, identity
<1>2. /\ tabMoves' = tabMoves \/ (tabMoves < MaxTabMoves /\ tabMoves' = tabMoves + 1)
      /\ gen' = gen \/ gen' = gen + 1
  BY DEF ChannelTick, PositionArrives, RecomputeOne, SpeakerLeaves
<1>3. mode' \in Modes /\ position' \in BOOLEAN
  BY TypeParts DEF ChannelTick, PositionArrives, RecomputeOne, SpeakerLeaves, Typed, CallbackTypes
<1>4. snap' = snap \/ snap' = session \/ snap' = 0
  BY DEF ChannelTick, PositionArrives, RecomputeOne, SpeakerLeaves
<1>5. AudioTypes'
  BY <1>1, TypeParts DEF Typed, AudioTypes, audio
<1>6. CallbackTypes'
  BY <1>1, <1>2, <1>3, <1>4, TypeParts DEF Typed, CallbackTypes, Sessions, RenderAssumption
<1>7. tabMoves' >= tabMoves
  BY <1>2, TypeParts DEF Typed, CallbackTypes, RenderAssumption
<1>8. TodoOK'
  BY <1>1, <1>7, <1>6, TypeParts
     DEF Typed, TodoOK, Adopts, CallbackTypes, Sessions, RenderAssumption
<1>9. TypeOK' <=> (CallbackTypes /\ AudioTypes)'
  BY TypeParts, PTL
<1>10. QED BY <1>5, <1>6, <1>8, <1>9 DEF Typed

(* A step of the audio thread leaves the callback thread's state alone.    *)
LEMMA TypeAudio ==
  ASSUME RenderAssumption, Typed,
         \/ BlockArrives \/ LoadGeneration \/ LoadMode
         \/ ReadTarget \/ ReadInvalid \/ ReadBusy \/ Render \/ UNCHANGED vars
  PROVE  Typed'
<1>1. UNCHANGED <<up, tabMoves, activeConn, connected, session, mode, position, snap, gen, todo>>
  BY DEF BlockArrives, LoadGeneration, LoadMode, ReadTarget, ReadInvalid, ReadBusy, Render,
         Callback, identity, target, vars
<1>2. CallbackTypes' /\ TodoOK'
  BY <1>1, TypeParts DEF Typed, CallbackTypes, TodoOK, Adopts
<1>3. AudioTypes /\ CallbackTypes /\ 0 \in Sessions
  BY TypeParts DEF Typed, Sessions, RenderAssumption
<1>4. ASSUME BlockArrives PROVE AudioTypes'
  BY <1>3, <1>4 DEF BlockArrives, AudioTypes, CallbackTypes, Typed, TodoOK
<1>5. ASSUME LoadGeneration PROVE AudioTypes'
  BY <1>3, <1>5 DEF LoadGeneration, AudioTypes, CallbackTypes
<1>6. ASSUME LoadMode PROVE AudioTypes'
  BY <1>3, <1>6 DEF LoadMode, Settle, AudioTypes
<1>7. ASSUME ReadTarget \/ ReadInvalid \/ ReadBusy PROVE AudioTypes'
  BY <1>3, <1>7 DEF ReadTarget, ReadInvalid, ReadBusy, Settle, AudioTypes, CallbackTypes
<1>8. ASSUME Render PROVE AudioTypes'
  BY <1>3, <1>8 DEF Render, AudioTypes
<1>9. ASSUME UNCHANGED vars PROVE AudioTypes'
  BY <1>3, <1>9 DEF vars, audio, AudioTypes
<1>10. AudioTypes'
  BY <1>4, <1>5, <1>6, <1>7, <1>8, <1>9
<1>11. TypeOK' <=> (CallbackTypes /\ AudioTypes)'
  BY TypeParts, PTL
<1>12. QED BY <1>2, <1>10, <1>11 DEF Typed

(* The variables keep their types; the stores of the callback thread are   *)
(* well formed, and there are no more sessions than tab events.            *)
THEOREM RenderTypes ==
  ASSUME RenderAssumption
  PROVE  Spec => [](TypeOK /\ TodoOK)
<1>1. Init => Typed
  <2> SUFFICES ASSUME Init PROVE Typed
    OBVIOUS
  <2> 0 \in Sessions /\ 0 \in 0..MaxTabMoves /\ "passthrough" \in Modes
    BY DEF Sessions, RenderAssumption, Modes
  <2>1. CallbackTypes
    BY DEF Init, CallbackTypes
  <2>2. AudioTypes
    BY DEF Init, AudioTypes, Silence
  <2>3. TodoOK
    BY DEF Init, TodoOK
  <2>4. QED BY <2>1, <2>2, <2>3, TypeParts DEF Typed
<1>2. Typed /\ [Next]_vars => Typed'
  BY TypeTabs, TypeStore, TypeWork, TypeAudio DEF Next
<1>3. QED BY <1>1, <1>2, PTL DEF Spec, Typed
-----------------------------------------------------------------------------
(* No old target.                                                          *)

Ordered == RenderAssumption /\ ~StatusFirst /\ Typed /\ RenderInv

(* A tab event leaves the id and what is held of it alone.                 *)
LEMMA EventKeeps ==
  ASSUME NEW t \in Tabs, Tab(t)
  PROVE  /\ todo = <<>> /\ UNCHANGED <<activeConn, connected, session, snap, gen, audio>>
         /\ UNCHANGED <<renderGen, cache, gain, bsession, renderAt, heard>>
         /\ Clean => Clean'
         /\ SessionInv => SessionInv'
         /\ NoOldTarget => NoOldTarget'
<1>1. /\ todo = <<>> /\ UNCHANGED <<activeConn, connected, session, snap, gen, audio>>
      /\ UNCHANGED <<renderGen, cache, gain, bsession, renderAt, heard>>
  BY DEF Tab, SwitchTab, Established, Disconnected, TabEvent, identity, target, audio
<1>2. QED BY <1>1 DEF Clean, SessionInv, NoOldTarget, AtLeast

(* Whoever is connected between two events has a tab that is up, and       *)
(* whoever is not has a clean id.                                          *)
LEMMA BetweenEvents ==
  ASSUME Ordered, todo = <<>>
  PROVE  /\ connected => activeConn \in up /\ activeConn # Offline
         /\ ~connected => Clean
<1>1. ~WillGoDown
  BY DEF WillGoDown
<1>2. connected => activeConn \in up
  BY <1>1 DEF Ordered, RenderInv, UpInv
<1>3. Offline \notin up
  BY DEF Ordered, Typed, TypeOK, RenderAssumption
<1>4. ~connected => Clean
  BY DEF Ordered, RenderInv, CleanInv
<1>5. QED BY <1>2, <1>3, <1>4

LEMMA SwitchOrdered ==
  ASSUME Ordered, NEW t \in Tabs, SwitchTab(t)
  PROVE  CleanInv' /\ UpInv'
<1>1. SwitchStores(todo', t) /\ (Len(todo') = 8 => t \in up') /\ Len(todo') \in {7, 8}
  BY SwitchTodo DEF SwitchTab, SwitchStores
<1>2. todo' # <<>>
  BY <1>1
<1>3. todo'[3].op = "withdraw" /\ todo'[4].op = "bump" /\ todo'[6].op = "down"
  BY <1>1, OpOf DEF SwitchStores
<1>4. ASSUME NEW i \in {7, 8, 9} PROVE CleanBefore(i)'
  <2>1. 3 \in 1..i-1 /\ 4 \in 1..i-1
    OBVIOUS
  <2>2. QED BY <1>3, <2>1 DEF CleanBefore
<1>5. \A i \in 1..Len(todo') : todo'[i].op = "conn" => i = 7
  BY <1>1, SwitchConn
<1>6. CleanInv'
  <2>1. CleanBefore(Len(todo) + 1)'
    <3>1. CASE Len(todo') = 7
      BY <1>4, <3>1
    <3>2. CASE Len(todo') = 8
      BY <1>4, <3>2
    <3>3. QED BY <1>1, <3>1, <3>2
  <2>2. CleanBefore(7)'
    BY <1>4
  <2>3. ASSUME NEW i \in 1..Len(todo'), Adopts(i)' PROVE CleanBefore(i)'
    BY <1>5, <2>2, <2>3 DEF Adopts
  <2>4. QED BY <1>2, <2>1, <2>3 DEF CleanInv
<1>7. WillGoDown'
  BY <1>1, <1>3 DEF WillGoDown
<1>8. ASSUME NEW i \in 1..Len(todo'), todo'[i].op = "up"
      PROVE  i = 8 /\ Len(todo') = 8
  <2>1. \A x \in {"quiesce", "forget", "withdraw", "bump", "down"} : Do(x).op # "up"
    BY OpOf
  <2>2. Op("conn", t).op # "up"
    BY OpOf
  <2>3. todo'[1].op # "up" /\ todo'[2].op # "up" /\ todo'[3].op # "up"
    BY <1>1, <2>1 DEF SwitchStores
  <2>4. todo'[4].op # "up" /\ todo'[5].op # "up" /\ todo'[6].op # "up" /\ todo'[7].op # "up"
    BY <1>1, <2>1, <2>2 DEF SwitchStores
  <2>5. i # 1 /\ i # 2 /\ i # 3
    BY <1>8, <2>3
  <2>6. i # 4 /\ i # 5 /\ i # 6 /\ i # 7
    BY <1>8, <2>4
  <2>7. Len(todo') \in {7, 8}
    BY <1>1
  <2>8. i \in Nat /\ 1 <= i /\ i <= Len(todo')
    BY <2>7
  <2>9. \A n \in {7, 8} : i <= n => i = 8 /\ n = 8
    BY <2>5, <2>6, <2>8
  <2>10. QED BY <2>7, <2>8, <2>9
<1>9. ASSUME NEW i \in 1..Len(todo'), todo'[i].op = "up"
      PROVE  /\ t \in up' /\ 7 \in 1..i-1 /\ todo'[7] = Op("conn", t) /\ todo'[7].arg = t
             /\ \A j \in 1..Len(todo') : /\ todo'[j].op = "conn" => j < i /\ todo'[j].arg = t
                                         /\ todo'[j].op = "down" => j < i
  <2>1. i = 8 /\ Len(todo') = 8 /\ todo'[7] = Op("conn", t) /\ todo'[7].arg = t /\ todo'[8].op = "up"
    BY <1>8, <1>9, <1>1, OpOf DEF SwitchStores
  <2>2. QED BY <1>1, <1>5, <2>1
<1>10. UpInv'
  BY <1>7, <1>9 DEF UpInv
<1>11. QED BY <1>6, <1>10

LEMMA EstablishedOrdered ==
  ASSUME Ordered, NEW t \in Tabs, Established(t)
  PROVE  CleanInv' /\ UpInv'
<1>1. /\ todo = <<>> /\ t \notin up /\ up' = up \cup {t}
      /\ UNCHANGED <<activeConn, connected>> /\ (Clean => Clean')
  BY EventKeeps DEF Established, TabEvent, Tab
<1>2. CASE todo' = <<>>
  <2>1. 1..Len(todo') = {}
    BY <1>2
  <2>2. CleanInv'
    BY <1>1, <1>2, <2>1, BetweenEvents DEF CleanInv
  <2>3. UpInv'
    BY <1>1, <2>1, BetweenEvents DEF UpInv
  <2>4. QED BY <2>2, <2>3
<1>3. CASE EstablishStores(todo', t) /\ (activeConn \in {Offline, t} \/ ~connected)
  <2>1. Clean'
    BY <1>1, <1>3, BetweenEvents
  <2>2. todo' # <<>> /\ Len(todo') = 8
    BY <1>3 DEF EstablishStores
  <2>3. CleanInv'
    BY <2>1, <2>2 DEF CleanInv, CleanBefore
  <2>4. /\ todo'[1].op = "down" /\ todo'[2].op = "conn" /\ todo'[2].arg = t /\ todo'[3].op = "up"
        /\ todo'[4].op = "quiesce" /\ todo'[5].op = "forget" /\ todo'[6].op = "withdraw"
        /\ todo'[7].op = "bump" /\ todo'[8].op = "bump" /\ todo'[2] = Op("conn", t)
    BY <1>3, OpOf DEF EstablishStores
  <2>5. WillGoDown'
    BY <2>2, <2>4 DEF WillGoDown
  <2>6. ASSUME NEW i \in 1..Len(todo')
        PROVE  /\ todo'[i].op = "up" => i = 3
               /\ todo'[i].op = "conn" => i = 2
               /\ todo'[i].op = "down" => i = 1
    BY <2>2, <2>4
  <2>7. UpInv'
    BY <1>1, <2>4, <2>5, <2>6 DEF UpInv
  <2>8. QED BY <2>3, <2>7
<1>4. QED BY <1>2, <1>3, EstablishTodo DEF Ordered

LEMMA DisconnectedOrdered ==
  ASSUME Ordered, NEW t \in Tabs, Disconnected(t)
  PROVE  CleanInv' /\ UpInv'
<1>1. /\ todo = <<>> /\ up' = up \ {t}
      /\ UNCHANGED <<activeConn, connected>> /\ (Clean => Clean')
  BY EventKeeps DEF Disconnected, TabEvent, Tab
<1>2. CASE todo' = <<>> /\ activeConn \notin {Offline, t}
  <2>1. 1..Len(todo') = {}
    BY <1>2
  <2>2. CleanInv'
    BY <1>1, <1>2, <2>1, BetweenEvents DEF CleanInv
  <2>3. UpInv'
    BY <1>1, <1>2, <2>1, BetweenEvents DEF UpInv
  <2>4. QED BY <2>2, <2>3
<1>3. CASE ClearStores(todo')
  <2>1. todo' # <<>> /\ Len(todo') = 7
    <3>1. Len(todo') = 7
      BY <1>3 DEF ClearStores
    <3>2. QED BY <3>1
  <2>2. /\ todo'[1].op = "down" /\ todo'[2].op = "conn" /\ todo'[2].arg = Offline
        /\ todo'[3].op = "quiesce" /\ todo'[4].op = "forget" /\ todo'[5].op = "withdraw"
        /\ todo'[6].op = "bump" /\ todo'[7].op = "bump"
    BY <1>3, OpOf DEF ClearStores
  <2>3. CleanBefore(8)'
    <3>1. 5 \in 1..8-1 /\ 6 \in 1..8-1
      OBVIOUS
    <3>2. QED BY <2>2, <3>1 DEF CleanBefore
  <2>4. ASSUME NEW i \in 1..Len(todo')
        PROVE  todo'[i].op # "up" /\ ~Adopts(i)'
    BY <2>1, <2>2 DEF Adopts
  <2>5. WillGoDown'
    BY <2>1, <2>2 DEF WillGoDown
  <2>6. CleanInv'
    BY <2>1, <2>3, <2>4 DEF CleanInv
  <2>7. UpInv'
    BY <2>4, <2>5 DEF UpInv
  <2>8. QED BY <2>6, <2>7
<1>4. QED BY <1>2, <1>3, DisconnectTodo

LEMMA TabOrdered ==
  ASSUME Ordered, NEW t \in Tabs, Tab(t)
  PROVE  RenderInv'
<1>1. SessionInv' /\ NoOldTarget'
  BY EventKeeps DEF Ordered, RenderInv
<1>2. CleanInv' /\ UpInv'
  BY SwitchOrdered, EstablishedOrdered, DisconnectedOrdered DEF Tab
<1>3. QED BY <1>1, <1>2 DEF RenderInv

(* A store of the callback thread: what was clean stays clean, and what    *)
(* would be clean before the next stores is so with one store less.        *)
LEMMA StoreFacts ==
  ASSUME Ordered, CallbackStore
  PROVE  /\ todo # <<>> /\ todo' = Tail(todo) /\ Head(todo) = todo[1]
         /\ UNCHANGED <<up, tabMoves, renderAt, bsession, renderGen, cache, gain, fresh, heard>>
         /\ snap' = (IF todo[1].op = "withdraw" THEN 0 ELSE snap)
         /\ gen' = (IF todo[1].op = "bump" THEN gen + 1 ELSE gen)
         /\ session' = (IF Adopts(1) THEN session + 1 ELSE session)
         /\ activeConn' = (IF todo[1].op = "conn" THEN todo[1].arg ELSE activeConn)
         /\ todo[1].op = "down" => ~connected'
         /\ todo[1].op \notin {"up", "down"} => connected' = connected
         /\ snap \in Nat /\ gen \in Nat /\ renderGen \in Nat /\ session \in Nat
         /\ renderGen <= gen
<1>1. todo # <<>> /\ todo' = Tail(todo) /\ Head(todo) = todo[1]
  BY TodoTail DEF CallbackStore, Ordered, Typed
<1>2. /\ snap \in Nat /\ gen \in Nat /\ renderGen \in Nat /\ session \in Nat
      /\ renderGen <= gen
  BY DEF Ordered, Typed, TypeOK, RenderAssumption, Sessions, RenderInv, SessionInv
<1>3. UNCHANGED <<up, tabMoves, renderAt, bsession, renderGen, cache, gain, fresh, heard>>
  BY DEF CallbackStore, audio
<1>4. /\ snap' = (IF todo[1].op = "withdraw" THEN 0 ELSE snap)
      /\ gen' = (IF todo[1].op = "bump" THEN gen + 1 ELSE gen)
      /\ session' = (IF Adopts(1) THEN session + 1 ELSE session)
      /\ activeConn' = (IF todo[1].op = "conn" THEN todo[1].arg ELSE activeConn)
      /\ todo[1].op = "down" => ~connected'
      /\ todo[1].op \notin {"up", "down"} => connected' = connected
  BY <1>1 DEF CallbackStore, Adopts
<1>5. QED BY <1>1, <1>2, <1>3, <1>4

LEMMA StoreClean ==
  ASSUME Ordered, CallbackStore
  PROVE  /\ Clean => Clean'
         /\ snap = 0 => snap' = 0
         /\ snap' = 0 /\ todo[1].op = "bump" => Clean'
         /\ todo[1].op = "withdraw" => snap' = 0
  BY StoreFacts DEF Clean

LEMMA StoreCleanBefore ==
  ASSUME Ordered, CallbackStore, NEW i \in 2..Len(todo)+1, CleanBefore(i)
  PROVE  CleanBefore(i-1)'
<1>1. /\ Len(todo) \in Nat \ {0}
      /\ \A k \in 2..Len(todo) : todo'[k-1] = todo[k]
  BY StoreFacts, TodoTail DEF Ordered, Typed
<1>2. CASE Clean
  BY <1>2, StoreClean DEF CleanBefore
<1>3. ASSUME NEW k \in 1..i-1, todo[k].op = "bump", snap' = 0 PROVE CleanBefore(i-1)'
  <2>1. CASE k = 1
    BY <1>3, <2>1, StoreClean DEF CleanBefore
  <2>2. CASE k # 1
    <3>1. k \in 2..Len(todo) /\ k-1 \in 1..(i-1)-1
      BY <1>1, <2>2
    <3>2. todo'[k-1].op = "bump"
      BY <1>1, <1>3, <3>1
    <3>3. QED BY <1>3, <3>1, <3>2 DEF CleanBefore
  <2>3. QED BY <2>1, <2>2
<1>4. ASSUME NEW j \in 1..i-1, NEW k \in 1..i-1, j < k, todo[j].op = "withdraw", todo[k].op = "bump"
      PROVE  CleanBefore(i-1)'
  <2>1. CASE j = 1
    BY <1>3, <1>4, <2>1, StoreClean
  <2>2. CASE j # 1
    <3>1. /\ j \in 2..Len(todo) /\ j-1 \in 1..(i-1)-1 /\ j-1 < k-1
          /\ k \in 2..Len(todo) /\ k-1 \in 1..(i-1)-1
      BY <1>1, <1>4, <2>2
    <3>2. todo'[j-1].op = "withdraw" /\ todo'[k-1].op = "bump"
      BY <1>1, <1>4, <3>1
    <3>3. QED BY <3>1, <3>2 DEF CleanBefore
  <2>3. QED BY <2>1, <2>2
<1>5. QED BY <1>2, <1>3, <1>4, StoreClean DEF CleanBefore

LEMMA StoreCleanInv ==
  ASSUME Ordered, CallbackStore
  PROVE  CleanInv'
<1>1. /\ Len(todo) \in Nat \ {0} /\ Len(todo') = Len(todo) - 1
      /\ \A i \in 1..Len(todo') : i + 1 \in 1..Len(todo) /\ todo'[i] = todo[i+1]
      /\ todo' = <<>> <=> Len(todo) = 1
  BY StoreFacts, TodoTail DEF Ordered, Typed
<1>2. CleanBefore(Len(todo) + 1)
  BY StoreFacts DEF Ordered, RenderInv, CleanInv
<1>3. ASSUME todo' = <<>> PROVE Clean'
  <2> Len(todo) + 1 = 2
    <3>1. Len(todo) = 1
      BY <1>1, <1>3, Zenon
    <3>2. QED BY <3>1
  <2>1. CleanBefore(2) /\ 2 \in 2..Len(todo)+1
    BY <1>2
  <2>2. CleanBefore(2-1)'
    BY <2>1, StoreCleanBefore
  <2>3. 1..(2-1)-1 = {}
    OBVIOUS
  <2>4. QED BY <2>2, <2>3 DEF CleanBefore
<1>4. CleanBefore(Len(todo) + 1)'
  <2>1. PICK n \in Nat : n = Len(todo) + 1
    BY <1>1
  <2>2. CleanBefore(n) /\ n \in 2..Len(todo)+1
    BY <1>1, <1>2, <2>1
  <2>3. CleanBefore(n-1)'
    BY <2>2, StoreCleanBefore
  <2>4. Len(todo') + 1 = n-1
    BY <1>1, <2>1
  <2>5. QED BY <2>3, <2>4
<1>5. ASSUME NEW i \in 1..Len(todo'), Adopts(i)' PROVE CleanBefore(i)'
  <2>1. i + 1 \in 1..Len(todo) /\ i + 1 \in 2..Len(todo)+1 /\ (i + 1) - 1 = i /\ Adopts(i+1)
    BY <1>1, <1>5 DEF Adopts
  <2>2. CleanBefore(i+1)
    BY <2>1 DEF Ordered, RenderInv, CleanInv
  <2>3. CleanBefore((i+1)-1)'
    BY <2>1, <2>2, StoreCleanBefore
  <2>4. QED BY <2>1, <2>3
<1>6. QED BY <1>3, <1>4, <1>5 DEF CleanInv

LEMMA StoreUpInv ==
  ASSUME Ordered, CallbackStore
  PROVE  UpInv'
<1>1. /\ Len(todo) \in Nat \ {0} /\ Len(todo') = Len(todo) - 1
      /\ \A i \in 1..Len(todo') : i + 1 \in 1..Len(todo) /\ todo'[i] = todo[i+1]
      /\ \A i \in 2..Len(todo) : i - 1 \in 1..Len(todo') /\ todo'[i-1] = todo[i]
  BY StoreFacts, TodoTail DEF Ordered, Typed
<1>2. 1 \in 1..Len(todo)
  BY <1>1
<1>3. /\ connected /\ ~WillGoDown =>
            activeConn \in up /\ \A i \in 1..Len(todo) : todo[i].op # "conn"
      /\ \A i \in 1..Len(todo) : todo[i].op = "up" =>
            \E t \in up :
              /\ activeConn = t \/ \E j \in 1..i-1 : todo[j] = Op("conn", t)
              /\ \A j \in 1..Len(todo) : /\ todo[j].op = "conn" => j < i /\ todo[j].arg = t
                                         /\ todo[j].op = "down" => j < i
  BY DEF Ordered, RenderInv, UpInv
<1>4. ASSUME connected', ~WillGoDown'
      PROVE  activeConn' \in up' /\ \A i \in 1..Len(todo') : todo'[i].op # "conn"
  <2>1. todo[1].op # "down"
    BY <1>4, StoreFacts
  <2>2. CASE todo[1].op = "up"
    <3>1. PICK t \in up :
            /\ activeConn = t \/ \E j \in 1..1-1 : todo[j] = Op("conn", t)
            /\ \A j \in 1..Len(todo) : todo[j].op = "conn" => j < 1
      BY <1>2, <1>3, <2>2
    <3>2. activeConn = t
      BY <3>1
    <3>3. \A j \in 1..Len(todo) : todo[j].op # "conn"
      BY <3>1
    <3>4. activeConn' \in up'
      BY <2>2, <3>2, StoreFacts
    <3>5. QED BY <1>1, <3>3, <3>4
  <2>3. CASE todo[1].op # "up"
    <3>1. connected
      BY <1>4, <2>1, <2>3, StoreFacts
    <3>2. ~WillGoDown
      <4>1. SUFFICES ASSUME NEW i \in 1..Len(todo), todo[i].op = "down" PROVE FALSE
        BY DEF WillGoDown
      <4>2. i \in 2..Len(todo)
        BY <1>1, <2>1, <4>1
      <4>3. QED BY <1>1, <1>4, <4>1, <4>2 DEF WillGoDown
    <3>3. activeConn \in up /\ \A i \in 1..Len(todo) : todo[i].op # "conn"
      BY <1>3, <3>1, <3>2
    <3>4. activeConn' \in up'
      BY <1>2, <3>3, StoreFacts
    <3>5. QED BY <1>1, <3>3, <3>4
  <2>4. QED BY <2>2, <2>3
<1>5. ASSUME NEW i \in 1..Len(todo'), todo'[i].op = "up"
      PROVE  \E t \in up' :
               /\ activeConn' = t \/ \E j \in 1..i-1 : todo'[j] = Op("conn", t)
               /\ \A j \in 1..Len(todo') : /\ todo'[j].op = "conn" => j < i /\ todo'[j].arg = t
                                           /\ todo'[j].op = "down" => j < i
  <2>1. i + 1 \in 1..Len(todo) /\ todo[i+1].op = "up" /\ (i+1)-1 = i
    BY <1>1, <1>5
  <2>2. PICK t \in up :
          /\ activeConn = t \/ \E j \in 1..(i+1)-1 : todo[j] = Op("conn", t)
          /\ \A j \in 1..Len(todo) : /\ todo[j].op = "conn" => j < i+1 /\ todo[j].arg = t
                                     /\ todo[j].op = "down" => j < i+1
    BY <1>3, <2>1
  <2>3. \A j \in 1..Len(todo') :
          /\ todo'[j].op = "conn" => j < i /\ todo'[j].arg = t
          /\ todo'[j].op = "down" => j < i
    <3> TAKE j \in 1..Len(todo')
    <3>1. j + 1 \in 1..Len(todo) /\ todo'[j] = todo[j+1] /\ (j + 1 < i + 1 => j < i)
      BY <1>1
    <3>2. /\ todo[j+1].op = "conn" => j + 1 < i + 1 /\ todo[j+1].arg = t
          /\ todo[j+1].op = "down" => j + 1 < i + 1
      BY <2>2, <3>1
    <3>3. QED BY <3>1, <3>2
  <2>4. activeConn' = t \/ \E j \in 1..i-1 : todo'[j] = Op("conn", t)
    <3>1. CASE todo[1].op = "conn"
      BY <1>2, <2>2, <3>1, StoreFacts
    <3>2. CASE todo[1].op # "conn" /\ activeConn = t
      BY <3>2, StoreFacts
    <3>3. ASSUME todo[1].op # "conn", NEW j \in 1..(i+1)-1, todo[j] = Op("conn", t)
          PROVE  \E k \in 1..i-1 : todo'[k] = Op("conn", t)
      <4>1. j # 1
        BY <3>3, OpOf
      <4>2. j \in 2..Len(todo) /\ j-1 \in 1..i-1
        BY <1>1, <2>1, <4>1
      <4>3. QED BY <1>1, <3>3, <4>2
    <3>4. QED BY <2>2, <3>1, <3>2, <3>3
  <2>5. t \in up'
    BY StoreFacts
  <2> WITNESS t \in up'
  <2>6. QED BY <2>3, <2>4
<1>6. QED BY <1>4, <1>5 DEF UpInv

LEMMA StoreOrdered ==
  ASSUME Ordered, CallbackStore
  PROVE  RenderInv'
<1>1. 1 \in 1..Len(todo)
  BY StoreFacts, TodoTail DEF Ordered, Typed
<1>2. SessionInv
  BY DEF Ordered, RenderInv
<1>3. bsession \in Nat
  BY DEF Ordered, Typed, TypeOK, RenderAssumption, Sessions
<1>4. CASE Adopts(1)
  <2>1. Clean
    <3>1. CleanBefore(1)
      BY <1>1, <1>4 DEF Ordered, RenderInv, CleanInv
    <3>2. 1..1-1 = {}
      OBVIOUS
    <3>3. QED BY <3>1, <3>2 DEF CleanBefore
  <2>2. session' = session + 1
    BY <1>4, StoreFacts
  <2>3. SessionInv'
    BY <1>2, <1>3, <1>4, <2>1, <2>2, StoreFacts DEF Clean, SessionInv, AtLeast, Adopts
  <2>4. QED BY <2>3, StoreCleanInv, StoreUpInv, StoreFacts DEF Ordered, RenderInv, NoOldTarget
<1>5. CASE ~Adopts(1)
  <2>1. session' = session
    BY <1>5, StoreFacts
  <2>2. SessionInv'
    BY <1>2, <1>3, <2>1, StoreFacts DEF SessionInv, AtLeast
  <2>3. QED BY <2>2, StoreCleanInv, StoreUpInv, StoreFacts DEF Ordered, RenderInv, NoOldTarget
<1>6. QED BY <1>4, <1>5

(* Work on the established tab computes targets of its own session.        *)
LEMMA WorkOrdered ==
  ASSUME Ordered, ChannelTick \/ PositionArrives \/ RecomputeOne \/ SpeakerLeaves
  PROVE  RenderInv'
<1>1. /\ UNCHANGED <<up, activeConn, connected, session, todo, audio>> /\ todo = <<>> /\ connected
      /\ UNCHANGED <<renderGen, cache, gain, bsession, renderAt, heard>>
  BY DEF ChannelTick, PositionArrives, RecomputeOne, SpeakerLeaves, Working, identity, audio
<1>2. /\ gen' = gen \/ gen' = gen + 1
      /\ snap' = snap \/ snap' = session \/ snap' = 0
  BY DEF ChannelTick, PositionArrives, RecomputeOne, SpeakerLeaves
<1>3. snap \in Nat /\ gen \in Nat /\ renderGen \in Nat /\ session \in Nat
  BY DEF Ordered, Typed, TypeOK, RenderAssumption, Sessions
<1>4. 1..Len(todo) = {} /\ connected' /\ todo' = <<>>
  BY <1>1
<1>5. CleanInv' /\ UpInv'
  <2>1. CleanInv'
    BY <1>4 DEF CleanInv
  <2>2. UpInv'
    BY <1>1 DEF Ordered, RenderInv, UpInv, WillGoDown
  <2>3. QED BY <2>1, <2>2
<1>6. SessionInv'
  BY <1>1, <1>2, <1>3 DEF Ordered, RenderInv, SessionInv, AtLeast
<1>7. QED BY <1>1, <1>5, <1>6 DEF Ordered, RenderInv, NoOldTarget

(* The audio thread forgets what is of another generation, and takes no    *)
(* target that is not published.                                           *)
LEMMA AudioOrdered ==
  ASSUME Ordered, \/ BlockArrives \/ LoadGeneration \/ LoadMode
                  \/ ReadTarget \/ ReadInvalid \/ ReadBusy \/ Render \/ UNCHANGED vars
  PROVE  RenderInv'
<1>1. UNCHANGED <<up, activeConn, connected, session, snap, gen, todo>>
  BY DEF BlockArrives, LoadGeneration, LoadMode, ReadTarget, ReadInvalid, ReadBusy, Render,
         Callback, identity, target, vars
<1>2. /\ snap \in Nat /\ gen \in Nat /\ renderGen \in Nat /\ session \in Nat
      /\ cache \in Nat /\ gain \in Nat /\ bsession \in Nat
      /\ renderAt = "shape" => cache # 0
      /\ renderAt # "idle" => bsession # 0
  BY DEF Ordered, Typed, TypeOK, RenderAssumption, Sessions
<1>3. SessionInv /\ NoOldTarget
  BY DEF Ordered, RenderInv
<1> DEFINE Kept == (Clean => Clean') /\ SessionInv' /\ NoOldTarget'
<1> USE <1>1, <1>2, <1>3 DEF SessionInv, Clean, NoOldTarget, AtLeast
<1>4. ASSUME BlockArrives PROVE Kept
  BY <1>4 DEF BlockArrives
<1>5. ASSUME LoadGeneration PROVE Kept
  BY <1>5 DEF LoadGeneration
<1>6. ASSUME LoadMode PROVE Kept
  BY <1>6 DEF LoadMode, Settle
<1>7. ASSUME ReadTarget PROVE Kept
  BY <1>7 DEF ReadTarget
<1>8. ASSUME ReadInvalid PROVE Kept
  BY <1>8 DEF ReadInvalid, Settle
<1>9. ASSUME ReadBusy PROVE Kept
  BY <1>9 DEF ReadBusy
<1>10. ASSUME Render PROVE Kept
  BY <1>10 DEF Render
<1>11. ASSUME UNCHANGED vars PROVE Kept
  BY <1>11 DEF vars, audio
<1>12. Kept
  BY <1>4, <1>5, <1>6, <1>7, <1>8, <1>9, <1>10, <1>11
<1> HIDE <1>3 DEF SessionInv, Clean, NoOldTarget, AtLeast
<1>13. \A i \in Nat : CleanBefore(i) => CleanBefore(i)'
  BY <1>12 DEF CleanBefore
<1>14. CleanInv'
  <2>1. Len(todo) + 1 \in Nat
    BY DEF Ordered, Typed, TodoOK
  <2>2. QED BY <1>12, <1>13, <2>1 DEF Ordered, RenderInv, CleanInv, Adopts
<1>15. UpInv'
  BY DEF Ordered, RenderInv, UpInv, WillGoDown
<1>16. QED BY <1>12, <1>14, <1>15 DEF RenderInv

(* No block is rendered with a target or from a gain of an earlier tab,    *)
(* whatever the tabs and the events, if the tab change is reported first.  *)
THEOREM NoOldTargetIsHeard ==
  ASSUME RenderAssumption, ~StatusFirst
  PROVE  Spec => []NoOldTarget
<1>1. Init => RenderInv
  <2> SUFFICES ASSUME Init PROVE RenderInv
    OBVIOUS
  <2>1. todo = <<>> /\ 1..Len(todo) = {} /\ ~connected
    BY DEF Init
  <2>2. CleanInv
    BY <2>1 DEF Init, CleanInv, Clean
  <2>3. UpInv
    BY <2>1 DEF UpInv
  <2>4. SessionInv /\ NoOldTarget
    BY DEF Init, SessionInv, AtLeast, NoOldTarget
  <2>5. QED BY <2>2, <2>3, <2>4 DEF RenderInv
<1>2. Typed /\ RenderInv /\ [Next]_vars => RenderInv'
  <2>1. SUFFICES ASSUME Ordered, [Next]_vars PROVE RenderInv'
    BY DEF Ordered
  <2>2. QED BY <2>1, TabOrdered, StoreOrdered, WorkOrdered, AudioOrdered DEF Next
<1>3. Spec => []Typed
  BY RenderTypes DEF Typed
<1>4. RenderInv => NoOldTarget
  BY DEF RenderInv
<1>5. QED BY <1>1, <1>2, <1>3, <1>4, PTL DEF Spec
-----------------------------------------------------------------------------
(* ServerProfile: types.                                                   *)

Messages == [kind : {"text", "edited", "list"}, room : RootRooms,
             text : Descriptions \cup {NoText}, rooms : SUBSET RootRooms]
Requests == [listed : SUBSET RootRooms, root : RootRooms \cup {NoChannel},
             inFlight : BOOLEAN, refresh : BOOLEAN, dirty : BOOLEAN,
             hash : Descriptions \cup {NoText}, findDue : BOOLEAN, aged : BOOLEAN,
             requestDue : BOOLEAN, refreshDue : BOOLEAN, editDue : BOOLEAN]

ProfTypes ==
  /\ prof \in Requests
  /\ rooms \subseteq RootRooms
  /\ text \in [RootRooms -> Descriptions \cup {NoText}]
  /\ described \in [RootRooms -> Descriptions \cup {NoText}]
  /\ wire \in Seq(Messages) /\ asked \in Seq(RootRooms)
  /\ onServer \in BOOLEAN

LEMMA FreshRequests == Fresh \in Requests /\ Fresh.root = NoChannel
BY DEF Fresh, Requests

LEMMA FoundRoot ==
  ASSUME NEW L \in SUBSET RootRooms
  PROVE  FindRoot(L) \in RootRooms \cup {NoChannel}
<1>1. CASE L \cap Tops # {}
  <2>1. (CHOOSE r \in L \cap Tops : TRUE) \in L \cap Tops
    BY <1>1
  <2>2. QED BY <1>1, <2>1 DEF FindRoot
<1>2. CASE L \cap Tops = {}
  BY <1>2 DEF FindRoot, RootRooms
<1>3. QED BY <1>1, <1>2

(* Looking for the Root channel changes neither the profile in use nor,    *)
(* unless the list is stale, a Root that is known.                         *)
LEMMA Resolved ==
  ASSUME NEW p \in Requests, NEW d \in BOOLEAN, NEW ok \in BOOLEAN
  PROVE  /\ ResolveRoot(p, d, ok) \in Requests
         /\ ResolveRoot(p, d, ok).hash = p.hash
         /\ ~d /\ p.root # NoChannel => ResolveRoot(p, d, ok).root = p.root
<1>1. /\ RescanRoot(p, ok) \in Requests
      /\ RescanRoot(p, ok).hash = p.hash
  <2>1. p.listed \in SUBSET RootRooms
    BY DEF Requests
  <2>2. FindRoot(p.listed) \in RootRooms \cup {NoChannel}
    BY <2>1, FoundRoot
  <2> DEFINE f == FindRoot(p.listed)
  <2>3. f \in RootRooms \cup {NoChannel}
    BY <2>2
  <2> HIDE DEF f
  <2>4. QED BY <2>3 DEF RescanRoot, Requests, f
<1>2. QED BY <1>1 DEF ResolveRoot

LEMMA Ticked ==
  ASSUME NEW p \in Requests, NEW o \in Lookups
  PROVE  /\ ProfileTick(p, o).p \in Requests
         /\ ProfileTick(p, o).p.hash = p.hash
         /\ ProfileTick(p, o).ask \in Seq(RootRooms)
<1> DEFINE p1 == ResolveRoot(p, TRUE, o # "no list")
           p2 == IF p1.inFlight /\ p1.aged THEN [p1 EXCEPT !.inFlight = FALSE, !.aged = FALSE]
                 ELSE p1
           p3 == IF inUse.active THEN [p2 EXCEPT !.refreshDue = FALSE] ELSE p2
           p4 == [Requested(p3) EXCEPT !.refresh = FALSE]
<1>1. p1 \in Requests /\ p1.hash = p.hash
  BY Resolved
<1> HIDE DEF p1
<1>2. p2 \in Requests /\ p2.hash = p.hash /\ p2.root = p1.root
  BY <1>1 DEF Requests
<1> HIDE DEF p2
<1>3. p3 \in Requests /\ p3.hash = p.hash /\ p3.root = p1.root
  BY <1>2 DEF Requests
<1> HIDE DEF p3
<1>4. p4 \in Requests /\ p4.hash = p.hash
  BY <1>3 DEF Requests, Requested
<1> HIDE DEF p4
<1>5. p1.root # NoChannel => <<p3.root>> \in Seq(RootRooms)
  BY <1>3 DEF Requests
<1>6. \/ ProfileTick(p, o) = [p |-> p2, ask |-> <<>>]
      \/ ProfileTick(p, o) = [p |-> p3, ask |-> <<>>]
      \/ p1.root # NoChannel /\ ProfileTick(p, o) = [p |-> p4, ask |-> <<p3.root>>]
  BY DEF ProfileTick, p1, p2, p3, p4
<1>7. <<>> \in Seq(RootRooms)
  OBVIOUS
<1>8. CASE ProfileTick(p, o) = [p |-> p2, ask |-> <<>>]
  BY <1>2, <1>7, <1>8
<1>9. CASE ProfileTick(p, o) = [p |-> p3, ask |-> <<>>]
  BY <1>3, <1>7, <1>9
<1>10. CASE p1.root # NoChannel /\ ProfileTick(p, o) = [p |-> p4, ask |-> <<p3.root>>]
  BY <1>4, <1>5, <1>10
<1>11. QED BY <1>6, <1>8, <1>9, <1>10

(* What applying a description leaves: the profile in use is the one whose *)
(* hash is remembered, and the new one if it is valid.                     *)
LEMMA Applied ==
  ASSUME NEW p \in Requests, NEW d \in Descriptions \cup {NoText},
         inUse.active => inUse.profile = p.hash
  PROVE  LET a == TryApply(p, d) IN
         /\ a.p \in Requests /\ a.p.root = p.root
         /\ a.inUse.active => a.inUse.profile = a.p.hash
         /\ d \in Valid => a.inUse.active /\ a.inUse.profile = d
<1>1. CASE d \notin Valid \/ (d = p.hash /\ inUse.active)
  BY <1>1 DEF TryApply
<1>2. CASE ~(d \notin Valid \/ (d = p.hash /\ inUse.active))
  <2> DEFINE q == [p EXCEPT !.hash = d]
  <2>1. q \in Requests /\ q.root = p.root /\ q.hash = d
    BY DEF Requests
  <2>2. TryApply(p, d) = [p |-> q, inUse |-> Apply(d)]
    BY <1>2 DEF TryApply
  <2>3. Apply(d).active /\ Apply(d).profile = d
    BY DEF Apply
  <2> HIDE DEF q
  <2>4. QED BY <2>1, <2>2, <2>3
<1>3. QED BY <1>1, <1>2


Answered(p) == [p EXCEPT !.inFlight = FALSE, !.aged = FALSE]

LEMMA Known ==
  ASSUME prof \in Requests
  PROVE  LET p == Answered(ResolveRoot(prof, FALSE, TRUE)) IN
         /\ p \in Requests /\ p.hash = prof.hash
         /\ p.root = ResolveRoot(prof, FALSE, TRUE).root
         /\ prof.root # NoChannel => p.root = prof.root
<1> DEFINE q == ResolveRoot(prof, FALSE, TRUE)
<1>1. q \in Requests /\ q.hash = prof.hash /\ (prof.root # NoChannel => q.root = prof.root)
  BY Resolved
<1> HIDE DEF q
<1>2. Answered(q) \in Requests /\ Answered(q).hash = q.hash /\ Answered(q).root = q.root
  BY <1>1 DEF Answered, Requests
<1>3. QED BY <1>1, <1>2 DEF q

-----------------------------------------------------------------------------
(* ServerProfile: the profile in use is the one on the server.             *)

Carries(i, kind, r) == wire[i].kind = kind /\ wire[i].room = r
NewestText(i, r) ==
  Carries(i, "text", r) /\ \A j \in i+1..Len(wire) : ~Carries(j, "text", r)

(* On its way to the client: the newest description of a channel is the    *)
(* one the server has, an edit is followed by the description, and of a    *)
(* channel that is not there yet there is nothing.                         *)
WireInv ==
  /\ ~onServer => wire = <<>>
  /\ \A i \in 1..Len(wire) : \A r \in rooms :
       /\ NewestText(i, r) => wire[i].text = text[r]
       /\ Carries(i, "edited", r) => \E j \in i+1..Len(wire) : Carries(j, "text", r)
  /\ \A i \in 1..Len(wire) : \A r \in RootRooms \ rooms :
       text[r] # NoText => ~Carries(i, "text", r) /\ ~Carries(i, "edited", r)

(* The hash that skips a reload is the one of the profile in use, and what *)
(* was handled is the Root in use.                                         *)
HashInv ==
  /\ inUse.active => inUse.profile = prof.hash
  /\ seen \in {NoChannel, prof.root}
  /\ ~onServer => seen = NoChannel
  /\ \A r \in RootRooms \ rooms : text[r] # NoText => seen # r

(* Once the description of the Root was handled, the profile in use is the *)
(* one on the server, or a newer description is on its way.                *)
SeenInv ==
  (seen \in rooms /\ text[seen] \in Valid)
     => \/ inUse.active /\ inUse.profile = text[seen]
        \/ \E i \in 1..Len(wire) : Carries(i, "text", seen)

ProfInv == ProfTypes /\ WireInv /\ HashInv /\ SeenInv

LEMMA TailStep ==
  ASSUME ProfTypes, wire # <<>>, wire' = Tail(wire)
  PROVE  /\ Len(wire) \in Nat \ {0} /\ Len(wire') = Len(wire) - 1
         /\ \A i \in 1..Len(wire') : i + 1 \in 1..Len(wire) /\ wire'[i] = wire[i+1]
         /\ \A i \in 2..Len(wire) : i - 1 \in 1..Len(wire') /\ wire'[i-1] = wire[i]
         /\ Head(wire) = wire[1] /\ Head(wire) \in Messages /\ wire' \in Seq(Messages)
<1> HIDE DEF Messages
<1>1. wire \in Seq(Messages)
  BY DEF ProfTypes
<1>2. Len(wire) \in Nat \ {0} /\ Len(wire') = Len(wire) - 1 /\ wire' \in Seq(Messages)
  BY <1>1
<1>3. \A i \in 1..Len(wire') : i + 1 \in 1..Len(wire) /\ wire'[i] = wire[i+1]
  BY <1>1, <1>2
<1>4. \A i \in 2..Len(wire) : i - 1 \in 1..Len(wire') /\ wire'[i-1] = wire[i]
  BY <1>1, <1>2
<1>5. Head(wire) = wire[1] /\ Head(wire) \in Messages
  BY <1>1, <1>2
<1>6. QED BY <1>2, <1>3, <1>4, <1>5

LEMMA TailKeepsWire ==
  ASSUME ProfTypes, WireInv, wire # <<>>, wire' = Tail(wire), UNCHANGED server, onServer'
  PROVE  WireInv'
<1>1. rooms' = rooms /\ text' = text
  BY DEF server
<1>2. \A i \in 1..Len(wire'), k \in {"text", "edited"}, r \in RootRooms :
        Carries(i, k, r)' <=> Carries(i + 1, k, r)
  BY TailStep DEF Carries
<1>3. \A i \in 1..Len(wire'), r \in RootRooms : NewestText(i, r)' => NewestText(i + 1, r)
  <2> SUFFICES ASSUME NEW i \in 1..Len(wire'), NEW r \in RootRooms, NewestText(i, r)'
               PROVE  NewestText(i + 1, r)
    OBVIOUS
  <2>1. Carries(i + 1, "text", r)
    BY <1>2 DEF NewestText
  <2>2. ASSUME NEW j \in i+1+1..Len(wire) PROVE ~Carries(j, "text", r)
    <3>1. j - 1 \in i+1..Len(wire') /\ j - 1 \in 1..Len(wire') /\ (j - 1) + 1 = j
      BY TailStep
    <3>2. ~Carries(j - 1, "text", r)'
      BY <3>1 DEF NewestText
    <3>3. QED BY <1>2, <3>1, <3>2
  <2>3. QED BY <2>1, <2>2 DEF NewestText
<1>4. rooms \subseteq RootRooms
  BY DEF ProfTypes
<1>5. ASSUME NEW i \in 1..Len(wire'), NEW r \in rooms
      PROVE  /\ NewestText(i, r)' => wire'[i].text = text[r]
             /\ Carries(i, "edited", r)' => \E j \in i+1..Len(wire') : Carries(j, "text", r)'
  <2>1. i + 1 \in 1..Len(wire) /\ wire'[i] = wire[i+1] /\ r \in RootRooms
    BY <1>4, TailStep
  <2>2. NewestText(i, r)' => wire'[i].text = text[r]
    BY <1>3, <2>1 DEF WireInv
  <2>3. ASSUME Carries(i, "edited", r)'
        PROVE  \E j \in i+1..Len(wire') : Carries(j, "text", r)'
    <3>1. Carries(i + 1, "edited", r)
      BY <1>2, <2>1, <2>3
    <3>2. PICK j \in i+1+1..Len(wire) : Carries(j, "text", r)
      BY <2>1, <3>1 DEF WireInv
    <3>3. j - 1 \in i+1..Len(wire') /\ j - 1 \in 1..Len(wire') /\ (j - 1) + 1 = j
      BY <3>2, TailStep
    <3>4. Carries(j - 1, "text", r)'
      BY <1>2, <2>1, <3>2, <3>3
    <3>5. QED BY <3>3, <3>4
  <2>4. QED BY <2>2, <2>3
<1>6. ASSUME NEW i \in 1..Len(wire'), NEW r \in RootRooms \ rooms, text[r] # NoText
      PROVE  ~Carries(i, "text", r)' /\ ~Carries(i, "edited", r)'
  BY <1>2, <1>6, TailStep DEF WireInv
<1>7. QED BY <1>1, <1>5, <1>6 DEF WireInv

(* A description of a channel arrives: server_profile_on_description_update *)
LEMMA TextStep == ASSUME ProfInv, TextArrives PROVE ProfInv'
<1> DEFINE m == Head(wire)
           p == ResolveRoot(prof, FALSE, TRUE)
           q == Answered(p)
           a == TryApply(q, m.text)
<1>1. /\ onServer /\ onServer' /\ wire # <<>> /\ m.kind = "text" /\ wire' = Tail(wire)
      /\ UNCHANGED <<server, asked>> /\ rooms' = rooms /\ text' = text
      /\ described' = [described EXCEPT ![m.room] = m.text]
      /\ \/ m.room = p.root /\ prof' = a.p /\ inUse' = a.inUse /\ seen' = m.room
         \/ m.room # p.root /\ prof' = p /\ UNCHANGED <<inUse, seen>>
  BY DEF TextArrives, Receive, Answered, server
<1>2. /\ m = wire[1] /\ m \in Messages /\ wire' \in Seq(Messages)
      /\ Len(wire) \in Nat \ {0}
      /\ \A i \in 2..Len(wire) : i - 1 \in 1..Len(wire') /\ wire'[i-1] = wire[i]
  BY <1>1, TailStep DEF ProfInv
<1>3. m.room \in RootRooms /\ m.text \in Descriptions \cup {NoText}
  BY <1>2 DEF Messages
<1>4. /\ prof \in Requests /\ (inUse.active => inUse.profile = prof.hash)
      /\ seen \in {NoChannel, prof.root} /\ rooms \subseteq RootRooms
  BY DEF ProfInv, ProfTypes, HashInv
<1>5. /\ p \in Requests /\ p.hash = prof.hash /\ (prof.root # NoChannel => p.root = prof.root)
      /\ q \in Requests /\ q.hash = prof.hash /\ q.root = p.root
  BY <1>4, Known, Resolved
<1>6. /\ a.p \in Requests /\ a.p.root = q.root
      /\ a.inUse.active => a.inUse.profile = a.p.hash
      /\ m.text \in Valid => a.inUse.active /\ a.inUse.profile = m.text
  BY <1>3, <1>4, <1>5, Applied
<1>7. WireInv'
  BY <1>1, TailKeepsWire DEF ProfInv
<1> HIDE DEF m, p, q, a
<1>8. ProfTypes'
  BY <1>1, <1>2, <1>3, <1>5, <1>6 DEF ProfInv, ProfTypes
<1>9. NoChannel \notin RootRooms
  BY DEF NoChannel, RootRooms, Tops, Shadow
<1>10. CASE m.room = p.root
  <2>1. prof' = a.p /\ inUse' = a.inUse /\ seen' = m.room
    BY <1>1, <1>10
  <2>2. \A r \in RootRooms \ rooms : text[r] # NoText => m.room # r
    BY <1>1, <1>2 DEF ProfInv, WireInv, Carries
  <2>3. HashInv'
    BY <1>1, <1>5, <1>6, <1>10, <2>1, <2>2 DEF HashInv
  <2>4. ASSUME m.room \in rooms, text[m.room] \in Valid,
               \A i \in 1..Len(wire') : ~(wire'[i].kind = "text" /\ wire'[i].room = m.room)
        PROVE  a.inUse.active /\ a.inUse.profile = text[m.room]
    <3>1. \A i \in 2..Len(wire) : ~Carries(i, "text", m.room)
      BY <1>2, <2>4 DEF Carries
    <3>2. NewestText(1, m.room)
      BY <1>1, <1>2, <3>1 DEF NewestText, Carries
    <3>3. m.text = text[m.room]
      BY <1>2, <2>4, <3>2 DEF ProfInv, WireInv
    <3>4. QED BY <1>6, <2>4, <3>3
  <2>5. SeenInv'
    BY <1>1, <2>1, <2>4 DEF SeenInv, Carries
  <2>6. QED BY <1>7, <1>8, <2>3, <2>5 DEF ProfInv
<1>11. CASE m.room # p.root
  <2>1. prof' = p /\ inUse' = inUse /\ seen' = seen
    BY <1>1, <1>11
  <2>2. HashInv'
    BY <1>1, <1>4, <1>5, <2>1 DEF ProfInv, HashInv
  <2>3. ASSUME seen \in rooms, NEW i \in 1..Len(wire), Carries(i, "text", seen)
        PROVE  \E j \in 1..Len(wire') : Carries(j, "text", seen)'
    <3>1. seen = p.root
      BY <1>4, <1>5, <1>9, <2>3
    <3>2. i # 1
      BY <1>2, <1>11, <2>3, <3>1 DEF Carries
    <3>3. Carries(i - 1, "text", seen)' /\ i - 1 \in 1..Len(wire')
      BY <1>2, <2>1, <2>3, <3>2 DEF Carries
    <3>4. QED BY <3>3
  <2>4. SeenInv'
    BY <1>1, <2>1, <2>3 DEF ProfInv, SeenInv
  <2>5. QED BY <1>7, <1>8, <2>2, <2>4 DEF ProfInv
<1>12. QED BY <1>10, <1>11

(* A channel was edited: server_profile_on_channel_edited, which applies   *)
(* the description known so far.                                           *)
LEMMA EditStep == ASSUME ProfInv, EditArrives PROVE ProfInv'
<1> DEFINE r == Head(wire).room
           p == ResolveRoot(prof, FALSE, TRUE)
           q == Answered(p)
           d == described[r]
           a == TryApply(q, d)
<1>1. /\ onServer /\ onServer' /\ wire # <<>> /\ Head(wire).kind = "edited" /\ wire' = Tail(wire)
      /\ UNCHANGED <<server, described, seen>> /\ rooms' = rooms /\ text' = text
  BY DEF EditArrives, Receive, server
<1>2. /\ r = wire[1].room /\ wire[1].kind = "edited" /\ r \in RootRooms
      /\ wire' \in Seq(Messages) /\ Len(wire) \in Nat \ {0}
      /\ \A i \in 2..Len(wire) : i - 1 \in 1..Len(wire') /\ wire'[i-1] = wire[i]
  BY <1>1, TailStep DEF ProfInv, Messages
<1>3. d \in Descriptions \cup {NoText}
  BY <1>2 DEF ProfInv, ProfTypes
<1>4. /\ prof \in Requests /\ (inUse.active => inUse.profile = prof.hash)
      /\ seen \in {NoChannel, prof.root} /\ rooms \subseteq RootRooms
      /\ asked \in Seq(RootRooms)
  BY DEF ProfInv, ProfTypes, HashInv
<1>5. /\ p \in Requests /\ p.hash = prof.hash /\ (prof.root # NoChannel => p.root = prof.root)
      /\ q \in Requests /\ q.hash = prof.hash /\ q.root = p.root
  BY <1>4, Known, Resolved
<1>6. WireInv'
  BY <1>1, TailKeepsWire DEF ProfInv
<1>7. \/ /\ r = p.root /\ inUse' = a.inUse
         /\ \/ prof' = [Requested(a.p) EXCEPT !.dirty = TRUE] /\ asked' = Append(asked, r)
            \/ prof' = [a.p EXCEPT !.dirty = TRUE] /\ asked' = asked
      \/ r # p.root /\ prof' = [p EXCEPT !.dirty = TRUE] /\ UNCHANGED <<inUse, asked>>
  BY DEF EditArrives, Answered
<1> HIDE DEF r, p, q, d
<1>8. /\ a.p \in Requests /\ a.p.root = q.root
      /\ a.inUse.active => a.inUse.profile = a.p.hash
  BY <1>3, <1>4, <1>5, Applied
<1> HIDE DEF a
<1>9. NoChannel \notin RootRooms
  BY DEF NoChannel, RootRooms, Tops, Shadow
<1>10. CASE r = p.root
  <2> DEFINE q1 == [Requested(a.p) EXCEPT !.dirty = TRUE]
             q2 == [a.p EXCEPT !.dirty = TRUE]
  <2>1. /\ q1 \in Requests /\ q1.root = p.root /\ q1.hash = a.p.hash
        /\ q2 \in Requests /\ q2.root = p.root /\ q2.hash = a.p.hash
    BY <1>5, <1>8 DEF Requests, Requested
  <2> HIDE DEF q1, q2
  <2>8. /\ inUse' = a.inUse
        /\ (prof' = q1 /\ asked' = Append(asked, r)) \/ (prof' = q2 /\ asked' = asked)
    BY <1>7, <1>10 DEF q1, q2
  <2>2. /\ prof' \in Requests /\ prof'.root = p.root /\ prof'.hash = a.p.hash
        /\ inUse' = a.inUse /\ asked' \in Seq(RootRooms)
    <3>1. asked' \in Seq(RootRooms)
      BY <1>2, <1>4, <2>8
    <3>2. CASE prof' = q1
      BY <2>1, <2>8, <3>1, <3>2
    <3>3. CASE prof' = q2
      BY <2>1, <2>8, <3>1, <3>3
    <3>4. QED BY <2>8, <3>2, <3>3
  <2>3. ProfTypes'
    BY <1>1, <1>2, <2>2 DEF ProfInv, ProfTypes
  <2>4. HashInv'
    BY <1>1, <1>4, <1>5, <1>8, <2>2 DEF ProfInv, HashInv
  <2>5. ASSUME seen \in rooms
        PROVE  \E j \in 1..Len(wire') : Carries(j, "text", seen)'
    <3>1. seen = r
      BY <1>4, <1>5, <1>9, <1>10, <2>5
    <3>5. Carries(1, "edited", seen) /\ 1 \in 1..Len(wire)
      BY <1>2, <3>1 DEF Carries
    <3>2. PICK j \in 1+1..Len(wire) : Carries(j, "text", seen)
      BY <2>5, <3>5 DEF ProfInv, WireInv
    <3>3. Carries(j - 1, "text", seen)' /\ j - 1 \in 1..Len(wire')
      BY <1>1, <1>2, <3>2 DEF Carries
    <3>4. QED BY <3>3
  <2>6. SeenInv'
    BY <1>1, <2>5 DEF SeenInv
  <2>7. QED BY <1>6, <2>3, <2>4, <2>6 DEF ProfInv
<1>11. CASE r # p.root
  <2>1. prof' = [p EXCEPT !.dirty = TRUE] /\ inUse' = inUse /\ asked' = asked
    BY <1>7, <1>11
  <2>2. prof' \in Requests /\ prof'.root = p.root /\ prof'.hash = p.hash
    BY <1>5, <2>1 DEF Requests
  <2>3. ProfTypes'
    BY <1>1, <1>2, <2>1, <2>2 DEF ProfInv, ProfTypes
  <2>4. HashInv'
    BY <1>1, <1>4, <1>5, <2>1, <2>2 DEF ProfInv, HashInv
  <2>5. ASSUME seen \in rooms, NEW i \in 1..Len(wire), Carries(i, "text", seen)
        PROVE  \E j \in 1..Len(wire') : Carries(j, "text", seen)'
    <3>1. i # 1
      BY <1>2, <2>5 DEF Carries
    <3>2. Carries(i - 1, "text", seen)' /\ i - 1 \in 1..Len(wire')
      BY <1>1, <1>2, <2>5, <3>1 DEF Carries
    <3>3. QED BY <3>2
  <2>6. SeenInv'
    BY <1>1, <2>1, <2>5 DEF ProfInv, SeenInv
  <2>7. QED BY <1>6, <2>3, <2>4, <2>6 DEF ProfInv
<1>12. QED BY <1>10, <1>11

(* The tick asks for a description, or looks for the Root again: what was  *)
(* handled is forgotten with the channel it belonged to.                   *)
LEMMA TickStep ==
  ASSUME ProfInv, ProfConnect \/ ProfDrain
  PROVE  ProfInv'
<1>1. /\ UNCHANGED <<server, described, wire, inUse>> /\ rooms' = rooms /\ text' = text
      /\ onServer'
  BY DEF ProfConnect, ProfDrain, server
<1>2. prof \in Requests /\ asked \in Seq(RootRooms) /\ rooms \subseteq RootRooms
  BY DEF ProfInv, ProfTypes
<1>3. /\ prof' \in Requests /\ prof'.hash = prof.hash /\ asked' \in Seq(RootRooms)
      /\ seen' \in {NoChannel, prof'.root} /\ seen' \in {NoChannel, seen}
  <2>1. CASE ProfConnect
    <3> DEFINE p == [prof EXCEPT !.listed = rooms]
               t == ProfileTick(p, "well")
    <3>1. p \in Requests /\ p.hash = prof.hash
      BY <1>2 DEF Requests
    <3> HIDE DEF p
    <3>2. t.p \in Requests /\ t.p.hash = p.hash /\ t.ask \in Seq(RootRooms)
      BY <3>1, Ticked DEF Lookups
    <3>3. prof' = t.p /\ asked' = t.ask /\ seen' = seen /\ seen = NoChannel
      BY <2>1 DEF ProfConnect, p, ProfInv, HashInv
    <3> HIDE DEF t
    <3>4. QED BY <3>1, <3>2, <3>3
  <2>2. CASE ProfDrain
    <3>1. PICK o \in Lookups : /\ prof' = ProfileTick(prof, o).p
                                /\ asked' = asked \o ProfileTick(prof, o).ask
      BY <2>2 DEF ProfDrain
    <3> DEFINE t == ProfileTick(prof, o)
    <3>2. t.p \in Requests /\ t.p.hash = prof.hash /\ t.ask \in Seq(RootRooms)
      BY <1>2, Ticked
    <3> HIDE DEF t
    <3>3. prof' = t.p /\ asked' = asked \o t.ask
      BY <3>1 DEF t
    <3>4. seen' = IF prof'.root = prof.root THEN seen ELSE NoChannel
      BY <2>2 DEF ProfDrain
    <3>5. asked' \in Seq(RootRooms)
      BY <1>2, <3>2, <3>3
    <3>6. seen \in {NoChannel, prof.root}
      BY DEF ProfInv, HashInv
    <3>7. QED BY <3>2, <3>3, <3>4, <3>5, <3>6
  <2>3. QED BY <2>1, <2>2
<1>4. ProfTypes'
  BY <1>1, <1>3 DEF ProfInv, ProfTypes
<1>5. WireInv'
  BY <1>1 DEF ProfInv, WireInv, NewestText, Carries
<1>6. NoChannel \notin RootRooms
  BY DEF NoChannel, RootRooms, Tops, Shadow
<1>7. HashInv'
  BY <1>1, <1>3, <1>6 DEF ProfInv, HashInv
<1>8. SeenInv'
  BY <1>1, <1>2, <1>3, <1>6 DEF ProfInv, SeenInv, Carries
<1>9. QED BY <1>4, <1>5, <1>7, <1>8 DEF ProfInv

(* What the server tells the client goes to the end of the wire.           *)
LEMMA Announced ==
  ASSUME NEW s \in Seq(Messages), NEW t \in Seq(Messages)
  PROVE  /\ s \o t \in Seq(Messages) /\ Len(s \o t) = Len(s) + Len(t)
         /\ \A i \in 1..Len(s) : (s \o t)[i] = s[i] /\ i \in 1..Len(s \o t)
         /\ \A i \in 1..Len(t) : (s \o t)[Len(s) + i] = t[i] /\ Len(s) + i \in 1..Len(s \o t)
         /\ \A i \in 1..Len(s \o t) : i \in 1..Len(s) \/ i - Len(s) \in 1..Len(t)
OBVIOUS

LEMMA ServerStep ==
  ASSUME ProfInv, UNCHANGED <<prof, inUse, described, onServer, seen>>,
         asked' \in Seq(RootRooms), rooms' \subseteq RootRooms,
         text' \in [RootRooms -> Descriptions \cup {NoText}],
         NEW msgs \in Seq(Messages), wire' = IF onServer THEN wire \o msgs ELSE wire,
         \A k \in 1..Len(msgs) : msgs[k].kind # "list" =>
            msgs[k].room \in rooms' /\ msgs[k].text = text'[msgs[k].room],
         \A k \in 1..Len(msgs) : msgs[k].kind = "edited" =>
            \E l \in k+1..Len(msgs) : msgs[l].kind = "text" /\ msgs[l].room = msgs[k].room,
         \A r \in rooms' :
            \/ r \in rooms /\ text'[r] = text[r]
            \/ r \notin rooms /\ text'[r] = text[r] /\ text[r] # NoText
            \/ r \in rooms /\ \E k \in 1..Len(msgs) : msgs[k].kind = "text" /\ msgs[k].room = r,
         \A r \in RootRooms \ rooms' : text'[r] # NoText => r \notin rooms /\ text'[r] = text[r]
  PROVE  ProfInv'
<1>1. wire \in Seq(Messages) /\ rooms \subseteq RootRooms /\ onServer \in BOOLEAN
      /\ (~onServer => wire = <<>>)
  BY DEF ProfInv, ProfTypes, WireInv
<1>2. ProfTypes'
  BY <1>1, Announced DEF ProfInv, ProfTypes
<1>3. CASE ~onServer
  <2>1. wire = <<>> /\ wire' = <<>> /\ seen = NoChannel /\ Len(wire') = 0
    BY <1>1, <1>3 DEF ProfInv, HashInv
  <2>2. NoChannel \notin RootRooms
    BY DEF NoChannel, RootRooms, Tops, Shadow
  <2>3. WireInv'
    BY <2>1 DEF WireInv
  <2>4. HashInv'
    BY <2>1, <2>2 DEF ProfInv, HashInv
  <2>5. SeenInv'
    BY <2>1, <2>2 DEF SeenInv
  <2>6. QED BY <1>2, <2>3, <2>4, <2>5 DEF ProfInv
<1>4. CASE onServer
  <2> DEFINE n == Len(wire)
  <2>1. /\ wire' = wire \o msgs /\ n \in Nat /\ Len(msgs) \in Nat /\ Len(wire') = n + Len(msgs)
        /\ \A i \in 1..n : wire'[i] = wire[i] /\ i \in 1..Len(wire')
        /\ \A k \in 1..Len(msgs) : wire'[n + k] = msgs[k] /\ n + k \in 1..Len(wire')
        /\ \A i \in 1..Len(wire') : i \in 1..n \/ i - n \in 1..Len(msgs)
    BY <1>1, <1>4, Announced
  <2>2. n = Len(wire)
    OBVIOUS
  <2> HIDE DEF n
  <2>3. ASSUME NEW i \in 1..Len(wire'), NEW r \in rooms', NewestText(i, r)'
        PROVE  wire'[i].text = text'[r]
    <3>1. /\ wire'[i].kind = "text" /\ wire'[i].room = r
          /\ \A j \in i+1..Len(wire') : ~(wire'[j].kind = "text" /\ wire'[j].room = r)
      BY <2>3 DEF NewestText, Carries
    <3>2. CASE i \in 1..n
      <4>1. \A k \in 1..Len(msgs) : ~(msgs[k].kind = "text" /\ msgs[k].room = r)
        BY <2>1, <3>1, <3>2
      <4>2. wire[i].kind = "text" /\ wire[i].room = r
        BY <2>1, <3>1, <3>2
      <4>3. r \in rooms /\ text'[r] = text[r]
        <5>1. r \in RootRooms \ rooms => text[r] = NoText
          BY <2>2, <3>2, <4>2 DEF ProfInv, WireInv, Carries
        <5>2. QED BY <4>1, <5>1
      <4>4. NewestText(i, r)
        BY <2>1, <2>2, <3>1, <3>2, <4>2 DEF NewestText, Carries
      <4>5. wire[i].text = text[r]
        BY <2>2, <3>2, <4>3, <4>4 DEF ProfInv, WireInv
      <4>6. QED BY <2>1, <3>2, <4>3, <4>5
    <3>3. CASE i - n \in 1..Len(msgs)
      <4>1. n + (i - n) = i
        BY <2>1
      <4>2. wire'[i] = msgs[i - n]
        BY <2>1, <3>3, <4>1
      <4>3. QED BY <3>1, <3>3, <4>2
    <3>4. QED BY <2>1, <3>2, <3>3
  <2>4. ASSUME NEW i \in 1..Len(wire'), NEW r \in rooms', Carries(i, "edited", r)'
        PROVE  \E j \in i+1..Len(wire') : Carries(j, "text", r)'
    <3>1. wire'[i].kind = "edited" /\ wire'[i].room = r
      BY <2>4 DEF Carries
    <3>2. CASE i \in 1..n
      <4>1. wire[i].kind = "edited" /\ wire[i].room = r
        BY <2>1, <3>1, <3>2
      <4>2. r \in rooms
        BY <2>2, <3>2, <4>1 DEF ProfInv, WireInv, Carries
      <4>3. PICK j \in i+1..n : wire[j].kind = "text" /\ wire[j].room = r
        BY <2>2, <3>2, <4>1, <4>2 DEF ProfInv, WireInv, Carries
      <4>4. j \in i+1..Len(wire') /\ wire'[j] = wire[j]
        BY <2>1, <3>2, <4>3
      <4>5. QED BY <4>3, <4>4 DEF Carries
    <3>3. CASE i - n \in 1..Len(msgs)
      <4>1. n + (i - n) = i
        BY <2>1
      <4>2. wire'[i] = msgs[i - n]
        BY <2>1, <3>3, <4>1
      <4>3. PICK l \in (i-n)+1..Len(msgs) : msgs[l].kind = "text" /\ msgs[l].room = r
        BY <3>1, <3>3, <4>2
      <4>4. n + l \in i+1..Len(wire') /\ wire'[n + l] = msgs[l]
        BY <2>1, <3>3, <4>3
      <4>5. QED BY <4>3, <4>4 DEF Carries
    <3>4. QED BY <2>1, <3>2, <3>3
  <2>5. ASSUME NEW i \in 1..Len(wire'), NEW r \in RootRooms \ rooms', text'[r] # NoText
        PROVE  ~Carries(i, "text", r)' /\ ~Carries(i, "edited", r)'
    <3>1. r \notin rooms /\ text[r] # NoText
      BY <2>5
    <3>2. CASE i \in 1..n
      BY <2>1, <2>2, <3>1, <3>2 DEF ProfInv, WireInv, Carries
    <3>3. CASE i - n \in 1..Len(msgs)
      <4>1. n + (i - n) = i
        BY <2>1
      <4>2. wire'[i] = msgs[i - n]
        BY <2>1, <3>3, <4>1
      <4>3. QED BY <3>3, <4>2 DEF Carries
    <3>4. QED BY <2>1, <3>2, <3>3
  <2>6. WireInv'
    BY <1>4, <2>3, <2>4, <2>5 DEF WireInv
  <2>7. HashInv'
    BY <1>4 DEF ProfInv, HashInv
  <2>8. SeenInv'
    <3> SUFFICES ASSUME seen \in rooms', text'[seen] \in Valid
                 PROVE  \/ inUse.active /\ inUse.profile = text'[seen]
                        \/ \E i \in 1..Len(wire') : wire'[i].kind = "text" /\ wire'[i].room = seen
      BY DEF SeenInv, Carries
    <3>1. CASE \E k \in 1..Len(msgs) : msgs[k].kind = "text" /\ msgs[k].room = seen
      BY <2>1, <3>1
    <3>2. CASE ~\E k \in 1..Len(msgs) : msgs[k].kind = "text" /\ msgs[k].room = seen
      <4>1. seen \in rooms /\ text'[seen] = text[seen]
        BY <3>2 DEF ProfInv, HashInv
      <4>2. CASE inUse.active /\ inUse.profile = text[seen]
        BY <4>1, <4>2
      <4>3. CASE ~(inUse.active /\ inUse.profile = text[seen])
        <5>1. PICK i \in 1..n : wire[i].kind = "text" /\ wire[i].room = seen
          BY <2>2, <4>1, <4>3 DEF ProfInv, SeenInv, Carries
        <5>2. QED BY <2>1, <5>1
      <4>4. QED BY <4>2, <4>3
    <3>3. QED BY <3>1, <3>2
  <2>9. QED BY <1>2, <2>6, <2>7, <2>8 DEF ProfInv
<1>5. QED BY <1>1, <1>3, <1>4

LEMMA TellIs ==
  ASSUME NEW kind \in {"text", "edited", "list"}, NEW r \in RootRooms,
         text' \in [RootRooms -> Descriptions \cup {NoText}], rooms' \subseteq RootRooms
  PROVE  /\ Tell(kind, r) \in Messages /\ Tell(kind, r).kind = kind
         /\ Tell(kind, r).room = r /\ Tell(kind, r).text = text'[r]
BY DEF Tell, Messages

(* The server answers a request, its admin edits, deletes and creates.     *)
LEMMA AnswerStep == ASSUME ProfInv, AnswersRequest PROVE ProfInv'
<1> DEFINE h == Head(asked)
           m == Tell("text", h)
<1>1. /\ onServer /\ asked # <<>> /\ asked' = Tail(asked) /\ rooms' = rooms /\ text' = text
      /\ wire' = IF h \in rooms THEN Append(wire, m) ELSE wire
      /\ UNCHANGED <<prof, inUse, described, onServer, seen>>
  BY DEF AnswersRequest, ServerOnly
<1>2. /\ wire \in Seq(Messages) /\ asked \in Seq(RootRooms) /\ rooms \subseteq RootRooms
      /\ text \in [RootRooms -> Descriptions \cup {NoText}]
  BY DEF ProfInv, ProfTypes
<1>3. asked' \in Seq(RootRooms) /\ h \in RootRooms
  BY <1>1, <1>2
<1>4. m \in Messages /\ m.kind = "text" /\ m.room = h /\ m.text = text'[h]
  BY <1>1, <1>2, <1>3, TellIs
<1> HIDE DEF m, h
<1>5. CASE h \in rooms
  <2> DEFINE msgs == <<m>>
  <2>1. msgs \in Seq(Messages) /\ Len(msgs) = 1 /\ msgs[1] = m
    BY <1>4
  <2> HIDE DEF msgs
  <2>2. wire' = wire \o msgs
    <3>1. Append(wire, m) = wire \o <<m>>
      BY <1>2, <1>4
    <3>2. QED BY <1>1, <1>5, <3>1 DEF msgs
  <2>3. \A k \in 1..Len(msgs) : msgs[k] = m
    BY <2>1
  <2>4. QED BY <1>1, <1>2, <1>3, <1>4, <1>5, <2>1, <2>2, <2>3, ServerStep
<1>6. CASE h \notin rooms
  <2> DEFINE msgs == <<>>
  <2>1. msgs \in Seq(Messages) /\ Len(msgs) = 0 /\ wire \o msgs = wire
    BY <1>2
  <2> HIDE DEF msgs
  <2>2. wire' = IF onServer THEN wire \o msgs ELSE wire
    BY <1>1, <1>6, <2>1
  <2>3. \A k \in 1..Len(msgs) : FALSE
    BY <2>1
  <2>4. QED BY <1>1, <1>2, <1>3, <2>1, <2>2, <2>3, ServerStep
<1>7. QED BY <1>5, <1>6

LEMMA LoseStep == ASSUME ProfInv, LosesRequest PROVE ProfInv'
<1>1. /\ asked # <<>> /\ asked' = Tail(asked) /\ rooms' = rooms /\ text' = text /\ wire' = wire
      /\ UNCHANGED <<prof, inUse, described, onServer, seen>>
  BY DEF LosesRequest, ServerOnly, server
<1>2. asked' \in Seq(RootRooms)
  BY <1>1 DEF ProfInv, ProfTypes
<1>3. ProfTypes'
  BY <1>1, <1>2 DEF ProfInv, ProfTypes
<1>4. WireInv' /\ HashInv' /\ SeenInv'
  BY <1>1 DEF ProfInv, WireInv, HashInv, SeenInv, NewestText, Carries
<1>5. QED BY <1>3, <1>4 DEF ProfInv

LEMMA AdminEditStep == ASSUME ProfInv, AdminEdits PROVE ProfInv'
<1>1. /\ asked' = asked /\ rooms' = rooms
      /\ UNCHANGED <<prof, inUse, described, onServer, seen>>
  BY DEF AdminEdits, ServerOnly
<1>2. /\ wire \in Seq(Messages) /\ asked \in Seq(RootRooms) /\ rooms \subseteq RootRooms
      /\ text \in [RootRooms -> Descriptions \cup {NoText}]
  BY DEF ProfInv, ProfTypes
<1>3. PICK r \in rooms, d \in Descriptions :
        /\ text' = [text EXCEPT ![r] = d]
        /\ wire' = IF onServer THEN wire \o <<Tell("edited", r), Tell("text", r)>> ELSE wire
  BY DEF AdminEdits, Announce
<1>4. r \in RootRooms /\ text' \in [RootRooms -> Descriptions \cup {NoText}]
  BY <1>2, <1>3
<1> DEFINE e == Tell("edited", r)
           m == Tell("text", r)
           msgs == <<e, m>>
<1>5. /\ e \in Messages /\ e.kind = "edited" /\ e.room = r /\ e.text = text'[r]
      /\ m \in Messages /\ m.kind = "text" /\ m.room = r /\ m.text = text'[r]
  BY <1>1, <1>2, <1>4, TellIs
<1>6. wire' = IF onServer THEN wire \o msgs ELSE wire
  BY <1>3
<1> HIDE DEF e, m
<1>7. msgs \in Seq(Messages) /\ Len(msgs) = 2 /\ msgs[1] = e /\ msgs[2] = m
  BY <1>5
<1> HIDE DEF msgs
<1>8. \A k \in 1..Len(msgs) : msgs[k].room = r /\ msgs[k].text = text'[r]
  BY <1>5, <1>7
<1>9. \A k \in 1..Len(msgs) : msgs[k].kind = "edited" =>
        \E l \in k+1..Len(msgs) : msgs[l].kind = "text" /\ msgs[l].room = msgs[k].room
  <2> SUFFICES ASSUME NEW k \in 1..Len(msgs), msgs[k].kind = "edited"
               PROVE  2 \in k+1..Len(msgs)
    BY <1>5, <1>7, <1>8
  <2>1. k # 2
    BY <1>5, <1>7
  <2>2. QED BY <1>7, <2>1
<1>10. \A x \in rooms' :
         \/ x \in rooms /\ text'[x] = text[x]
         \/ x \notin rooms /\ text'[x] = text[x] /\ text[x] # NoText
         \/ x \in rooms /\ \E k \in 1..Len(msgs) : msgs[k].kind = "text" /\ msgs[k].room = x
  <2>1. 2 \in 1..Len(msgs) /\ msgs[2].kind = "text" /\ msgs[2].room = r
    BY <1>5, <1>7
  <2>2. \A x \in rooms : x # r => text'[x] = text[x]
    BY <1>2, <1>3
  <2>3. QED BY <1>1, <2>1, <2>2
<1>11. \A x \in RootRooms \ rooms' : text'[x] # NoText => x \notin rooms /\ text'[x] = text[x]
  BY <1>1, <1>2, <1>3
<1>12. \A k \in 1..Len(msgs) : msgs[k].kind # "list" =>
            msgs[k].room \in rooms' /\ msgs[k].text = text'[msgs[k].room]
  BY <1>1, <1>8
<1>13. QED BY <1>1, <1>2, <1>4, <1>6, <1>7, <1>9, <1>10, <1>11, <1>12, ServerStep

LEMMA AdminListStep == ASSUME ProfInv, AdminChangesList PROVE ProfInv'
<1>1. asked' = asked /\ UNCHANGED <<prof, inUse, described, onServer, seen>>
  BY DEF AdminChangesList, ServerOnly
<1>2. /\ wire \in Seq(Messages) /\ asked \in Seq(RootRooms) /\ rooms \subseteq RootRooms
      /\ text \in [RootRooms -> Descriptions \cup {NoText}]
  BY DEF ProfInv, ProfTypes
<1>3. PICK r \in RootRooms :
        /\ \/ r \in rooms /\ rooms' = rooms \ {r} /\ text' = [text EXCEPT ![r] = NoText]
           \/ r \notin rooms /\ text[r] # NoText /\ rooms' = rooms \cup {r} /\ text' = text
        /\ wire' = IF onServer THEN wire \o <<Tell("list", r)>> ELSE wire
  BY DEF AdminChangesList, Announce
<1>4. text' \in [RootRooms -> Descriptions \cup {NoText}] /\ rooms' \subseteq RootRooms
  BY <1>2, <1>3
<1> DEFINE m == Tell("list", r)
           msgs == <<m>>
<1>5. m \in Messages /\ m.kind = "list"
  BY <1>4, TellIs
<1>6. wire' = IF onServer THEN wire \o msgs ELSE wire
  BY <1>3
<1> HIDE DEF m
<1>7. msgs \in Seq(Messages) /\ Len(msgs) = 1 /\ msgs[1] = m
  BY <1>5
<1> HIDE DEF msgs
<1>8. \A k \in 1..Len(msgs) : msgs[k].kind = "list"
  BY <1>5, <1>7
<1>9. \A x \in rooms' : \/ x \in rooms /\ text'[x] = text[x]
                        \/ x \notin rooms /\ text'[x] = text[x] /\ text[x] # NoText
  BY <1>2, <1>3
<1>10. \A x \in RootRooms \ rooms' : text'[x] # NoText => x \notin rooms /\ text'[x] = text[x]
  BY <1>2, <1>3
<1>11. /\ \A k \in 1..Len(msgs) : msgs[k].kind # "list" =>
            msgs[k].room \in rooms' /\ msgs[k].text = text'[msgs[k].room]
       /\ \A k \in 1..Len(msgs) : msgs[k].kind = "edited" =>
            \E l \in k+1..Len(msgs) : msgs[l].kind = "text" /\ msgs[l].room = msgs[k].room
  BY <1>8
<1>12. QED BY <1>1, <1>2, <1>4, <1>6, <1>7, <1>9, <1>10, <1>11, ServerStep

(* Every step, the first state, and what follows once nothing is under way. *)
LEMMA ProfStep == ASSUME ProfInv, [ProfNext]_pvars PROVE ProfInv'
<1>1. CASE ProfDisconnect
  <2>1. /\ prof' = Fresh /\ inUse' = Inactive /\ onServer' = FALSE
        /\ wire' = <<>> /\ asked' = <<>> /\ seen' = NoChannel
        /\ described' = [r \in RootRooms |-> NoText] /\ rooms' = rooms /\ text' = text
    BY <1>1 DEF ProfDisconnect, ProfileReset, server
  <2>2. NoChannel \notin RootRooms
    BY DEF NoChannel, RootRooms, Tops, Shadow
  <2>3. ProfTypes'
    <3>1. <<>> \in Seq(Messages) /\ <<>> \in Seq(RootRooms)
      OBVIOUS
    <3>2. QED BY <2>1, <3>1, FreshRequests DEF ProfInv, ProfTypes
  <2>4. WireInv'
    BY <2>1 DEF WireInv
  <2>5. HashInv'
    BY <2>1, <2>2 DEF HashInv, Inactive
  <2>6. SeenInv'
    <3>1. rooms \subseteq RootRooms
      BY DEF ProfInv, ProfTypes
    <3>2. QED BY <2>1, <2>2, <3>1 DEF SeenInv
  <2>7. QED BY <2>3, <2>4, <2>5, <2>6 DEF ProfInv
<1>2. CASE ListEventArrives
  <2>1. /\ onServer /\ onServer' /\ wire # <<>> /\ wire' = Tail(wire) /\ Head(wire).kind = "list"
        /\ UNCHANGED server /\ rooms' = rooms /\ text' = text
        /\ UNCHANGED <<inUse, described, asked, seen>>
        /\ prof' = [prof EXCEPT !.dirty = TRUE, !.listed = Head(wire).rooms]
    BY <1>2 DEF ListEventArrives, Receive, server
  <2>2. /\ wire[1].kind = "list" /\ Head(wire).rooms \in SUBSET RootRooms
        /\ wire' \in Seq(Messages) /\ Len(wire) \in Nat \ {0}
        /\ \A i \in 2..Len(wire) : i - 1 \in 1..Len(wire') /\ wire'[i-1] = wire[i]
    BY <2>1, TailStep DEF ProfInv, Messages
  <2>3. prof' \in Requests /\ prof'.root = prof.root /\ prof'.hash = prof.hash
    BY <2>1, <2>2 DEF ProfInv, ProfTypes, Requests
  <2>4. ProfTypes'
    BY <2>1, <2>2, <2>3 DEF ProfInv, ProfTypes
  <2>5. WireInv'
    BY <2>1, TailKeepsWire DEF ProfInv
  <2>6. HashInv'
    BY <2>1, <2>3 DEF ProfInv, HashInv
  <2>7. ASSUME NEW i \in 1..Len(wire), Carries(i, "text", seen)
        PROVE  \E j \in 1..Len(wire') : Carries(j, "text", seen)'
    <3>1. i # 1
      BY <2>2, <2>7 DEF Carries
    <3>2. i - 1 \in 1..Len(wire') /\ Carries(i - 1, "text", seen)'
      BY <2>1, <2>2, <2>7, <3>1 DEF Carries
    <3>3. QED BY <3>2
  <2>8. SeenInv'
    BY <2>1, <2>7 DEF ProfInv, SeenInv
  <2>9. QED BY <2>4, <2>5, <2>6, <2>8 DEF ProfInv
<1>3. CASE ReadIndex \/ CopyRace \/ Return \/ UNCHANGED pvars
  <2>1. /\ UNCHANGED <<prof, inUse, described, wire, asked, onServer, seen>>
        /\ rooms' = rooms /\ text' = text
    BY <1>3 DEF ReadIndex, CopyRace, Return, pvars, server
  <2>2. ProfTypes'
    BY <2>1 DEF ProfInv, ProfTypes
  <2>3. QED
    BY <2>1, <2>2 DEF ProfInv, WireInv, HashInv, SeenInv, NewestText, Carries
<1>4. CASE ProfClock
  <2>1. /\ UNCHANGED <<inUse, described, wire, asked, onServer, seen>>
        /\ rooms' = rooms /\ text' = text
    BY <1>4 DEF ProfClock, server
  <2>2. prof' \in Requests /\ prof'.root = prof.root /\ prof'.hash = prof.hash
    BY <1>4 DEF ProfClock, ProfInv, ProfTypes, Requests
  <2>3. ProfTypes'
    BY <2>1, <2>2 DEF ProfInv, ProfTypes
  <2>4. QED
    BY <2>1, <2>2, <2>3 DEF ProfInv, WireInv, HashInv, SeenInv, NewestText, Carries
<1>5. QED
  BY <1>1, <1>2, <1>3, <1>4, TextStep, EditStep, TickStep, AnswerStep, LoseStep,
     AdminEditStep, AdminListStep DEF ProfNext

(* At rest the profile in use is the one that stands in the description of *)
(* the Root channel, whatever order edits, answers, deletions and changes  *)
(* of the channel list come in: server_profile_on_description_update.      *)
THEOREM ProfileIsTheServers == ProfSpec => []ProfileIsCurrent
<1>1. ProfInit => ProfInv
  <2> SUFFICES ASSUME ProfInit PROVE ProfInv
    OBVIOUS
  <2>1. /\ prof = Fresh /\ inUse = Inactive /\ onServer = FALSE /\ wire = <<>> /\ asked = <<>>
        /\ seen = NoChannel /\ described = [r \in RootRooms |-> NoText]
        /\ text \in [RootRooms -> Descriptions]
    BY DEF ProfInit
  <2>2. rooms \subseteq RootRooms
    BY DEF ProfInit, RootRooms, Tops
  <2>3. NoChannel \notin RootRooms
    BY DEF NoChannel, RootRooms, Tops, Shadow
  <2>4. ProfTypes
    <3>1. <<>> \in Seq(Messages) /\ <<>> \in Seq(RootRooms)
      OBVIOUS
    <3>2. QED BY <2>1, <2>2, <3>1, FreshRequests DEF ProfTypes
  <2>5. WireInv
    BY <2>1 DEF WireInv
  <2>6. HashInv /\ SeenInv
    BY <2>1, <2>2, <2>3 DEF HashInv, SeenInv, Inactive
  <2>7. QED BY <2>4, <2>5, <2>6 DEF ProfInv
<1>2. ProfInv /\ [ProfNext]_pvars => ProfInv'
  BY ProfStep
<1>3. ProfInv => ProfileIsCurrent
  BY DEF ProfInv, SeenInv, ProfileIsCurrent
<1>4. QED BY <1>1, <1>2, <1>3, PTL DEF ProfSpec

-----------------------------------------------------------------------------
(***************************************************************************)
(* HubDescription: for any number of entries, ranges and lines, what the   *)
(* parser makes of a description is what the text says as a whole.         *)
(*                                                                         *)
(* The argument.  Until the end the parser's state is a function of the    *)
(* lines read: the section and the keys are those of the text so far       *)
(* (KeysInv), and each list of entries is the list of blocks that the text *)
(* has, of which at most the current one is still open (EntryInv).  So it  *)
(* is shown what one more line does to each of the notions that Meaning is *)
(* made of, and then that each action does the same.                       *)
(***************************************************************************)
HdLess == {ss \in Nat \X Nat : ss[1] < ss[2]}

LEMMA HdLessWellFounded == IsWellFoundedOn(HdLess, Nat)
BY NatLessThanWellFounded DEF OpToRel, HdLess

\* Line numbers have a least and a greatest one.
LEMMA LeastOf ==
  ASSUME NEW S \in SUBSET Nat, S # {}
  PROVE  Min(S) \in S /\ \A y \in S : Min(S) <= y
<1>1. S \subseteq Nat
  OBVIOUS
<1>2. PICK x \in S : \A y \in S : ~(<<y, x>> \in HdLess)
  BY <1>1, HdLessWellFounded, WFMin, Zenon
<1>3. \A y \in S : x <= y
  <2>1. \A y \in S : ~(y < x)
    BY <1>2 DEF HdLess
  <2> QED BY <1>1, <2>1
<1> QED BY <1>3 DEF Min

LEMMA GreatestOf ==
  ASSUME NEW n \in Nat, NEW S \in SUBSET (1..n), S # {}
  PROVE  Max(S) \in S /\ \A y \in S : y <= Max(S)
<1>0. S \subseteq 1..n
  OBVIOUS
<1> DEFINE T == {n - y : y \in S}
<1>1. T \subseteq Nat /\ T # {}
  <2>1. \A y \in 1..n : n - y \in Nat
    OBVIOUS
  <2>2. \A y \in S : n - y \in Nat
    BY <1>0, <2>1
  <2> QED BY <2>2
<1>2. Min(T) \in T /\ \A z \in T : Min(T) <= z
  BY <1>1, LeastOf
<1>3. PICK x \in S : Min(T) = n - x
  BY <1>2
<1>4. \A y \in S : n - y \in T
  OBVIOUS
<1>5. ASSUME NEW y \in S  PROVE x >= y
  <2>1. n - x <= n - y
    BY <1>2, <1>3, <1>4, <1>5
  <2>2. x \in Int /\ y \in Int
    BY <1>0, <1>5
  <2> QED BY <2>1, <2>2
<1> QED BY <1>5 DEF Max

LEMMA LastOfThem ==
  ASSUME NEW n \in Nat, NEW S \in SUBSET (1..n)
  PROVE  /\ LastOf(S) \in 0..n
         /\ S = {} => LastOf(S) = 0
         /\ S # {} => LastOf(S) \in S /\ LastOf(S) # 0
<1>1. S \subseteq 1..n
  OBVIOUS
<1>2. S # {} => Max(S) \in S
  BY GreatestOf
<1>3. \A x \in 1..n : x \in 0..n /\ x # 0
  OBVIOUS
<1>4. S # {} => Max(S) \in 0..n /\ Max(S) # 0
  BY <1>1, <1>2, <1>3
<1> QED BY <1>2, <1>4 DEF LastOf

LEMMA LastIsNew ==
  ASSUME NEW n \in Nat, NEW S \in SUBSET (1..n)
  PROVE  LastOf(S \cup {n + 1}) = n + 1
<1> DEFINE T == S \cup {n + 1}
<1>0. S \subseteq 1..n /\ n + 1 \in Nat
  OBVIOUS
<1>1. T \subseteq 1..n + 1 /\ n + 1 \in T
  BY <1>0
<1> HIDE DEF T
<1>2. Max(T) \in T /\ \A y \in T : y <= Max(T)
  BY <1>0, <1>1, GreatestOf
<1>3. Max(T) = n + 1
  <2>1. Max(T) \in 1..n + 1 /\ n + 1 <= Max(T)
    BY <1>1, <1>2
  <2> QED BY <1>0, <2>1
<1> QED BY <1>1, <1>3 DEF LastOf, T

-----------------------------------------------------------------------------
\* A text t that is n lines long, and the same with one line more.
LEMMA OneMore ==
  ASSUME NEW t \in Seq(Lines), NEW line \in Lines
  PROVE  LET u == Append(t, line)
             n == Len(t)
         IN /\ u \in Seq(Lines) /\ n \in Nat /\ Len(u) = n + 1 /\ u[n + 1] = line
            /\ DOMAIN t = 1..n /\ DOMAIN u = 1..n + 1 /\ \A i \in 1..n : u[i] = t[i]
  OBVIOUS

LEMMA HeaderStays ==
  ASSUME NEW t \in Seq(Lines), NEW line \in Lines, NEW i \in 0..Len(t)
  PROVE  /\ HeaderOf(Append(t, line), i) = HeaderOf(t, i) /\ HeaderOf(t, i) \in 0..i
         /\ HeaderOf(t, i) # 0 => t[HeaderOf(t, i)].word \in Sections
<1> DEFINE u == Append(t, line)
           S == {h \in 1..i : t[h].word \in Sections}
<1>1. \A h \in 1..i : u[h] = t[h]
  BY OneMore
<1>2. {h \in 1..i : u[h].word \in Sections} = S
  BY <1>1
<1>3. i \in Nat /\ S \in SUBSET (1..i)
  BY OneMore
<1> QED BY <1>2, <1>3, LastOfThem DEF HeaderOf

LEMMA HeaderOfNew ==
  ASSUME NEW t \in Seq(Lines), NEW line \in Lines
  PROVE  HeaderOf(Append(t, line), Len(t) + 1)
           = IF line.word \in Sections THEN Len(t) + 1 ELSE HeaderOf(t, Len(t))
<1> DEFINE u == Append(t, line)
           n == Len(t)
           S == {h \in 1..n : t[h].word \in Sections}
<1>1. n \in Nat /\ u[n + 1] = line /\ \A h \in 1..n : u[h] = t[h]
  BY OneMore
<1>2. {h \in 1..n + 1 : u[h].word \in Sections}
        = IF line.word \in Sections THEN S \cup {n + 1} ELSE S
  <2>1. \A h \in 1..n + 1 : h \in 1..n \/ h = n + 1
    BY <1>1
  <2>2. \A h \in 1..n : h \in 1..n + 1
    BY <1>1
  <2>3. n + 1 \in 1..n + 1 /\ n + 1 \notin 1..n
    BY <1>1
  <2> HIDE DEF u, n
  <2> QED BY <1>1, <2>1, <2>2, <2>3
<1>3. S \in SUBSET (1..n)
  OBVIOUS
<1>4. LastOf(S \cup {n + 1}) = n + 1
  BY <1>1, <1>3, LastIsNew
<1> QED BY <1>2, <1>4 DEF HeaderOf

LEMMA SectionStays ==
  ASSUME NEW t \in Seq(Lines), NEW line \in Lines, NEW i \in 0..Len(t)
  PROVE  SectionOf(Append(t, line), i) = SectionOf(t, i)
<1> DEFINE u == Append(t, line)
           h == HeaderOf(t, i)
<1>1. HeaderOf(u, i) = h /\ h \in 0..i
  BY HeaderStays
<1>2. \A j \in 1..i : u[j] = t[j]
  BY OneMore
<1>3. \A j \in h + 1..i : u[j] = t[j]
  BY <1>1, <1>2, OneMore
<1>4. h # 0 => u[h] = t[h]
  BY <1>1, <1>2, OneMore
<1> HIDE DEF u, h
<1>5. (\E z \in h + 1..i : u[z].word = "beginZone") <=> \E z \in h + 1..i : t[z].word = "beginZone"
  BY <1>3
<1> QED BY <1>1, <1>4, <1>5 DEF SectionOf, u, h

LEMMA SectionOfNew ==
  ASSUME NEW t \in Seq(Lines), NEW line \in Lines
  PROVE  /\ SectionOf(Append(t, line), Len(t) + 1)
              = IF line.word \in Sections THEN line.word
                ELSE IF line.word = "beginZone" /\ SectionOf(t, Len(t)) # "zones" THEN "other"
                ELSE SectionOf(t, Len(t))
         /\ SectionOf(t, Len(t)) \in Sections \cup {"none"}
<1> DEFINE u == Append(t, line)
           n == Len(t)
           h == HeaderOf(t, n)
<1>0. n \in Nat /\ n \in 0..n
  BY OneMore
<1>1. h \in 0..n /\ (h # 0 => t[h].word \in Sections)
  BY <1>0, HeaderStays
<1>2. u[n + 1] = line /\ \A j \in 1..n : u[j] = t[j]
  BY OneMore
<1>3. HeaderOf(u, n + 1) = IF line.word \in Sections THEN n + 1 ELSE h
  BY HeaderOfNew
<1>4. h # 0 => u[h] = t[h] /\ h \in 1..n
  BY <1>0, <1>1, <1>2
<1> HIDE DEF u, n
<1>5. SectionOf(t, n) = IF h # 0 /\ t[h].word = "zones" THEN "zones"
                        ELSE IF \E z \in h + 1..n : t[z].word = "beginZone" THEN "other"
                        ELSE IF h = 0 THEN "none" ELSE t[h].word
  BY DEF SectionOf
<1> HIDE DEF h
<1>6. SectionOf(t, n) \in Sections \cup {"none"}
  BY <1>1, <1>5 DEF Sections
<1>7. (SectionOf(t, n) = "zones") <=> (h # 0 /\ t[h].word = "zones")
  BY <1>1, <1>5
<1>8. CASE line.word \in Sections
  <2>1. HeaderOf(u, n + 1) = n + 1 /\ n + 1 # 0 /\ (n + 1) + 1..n + 1 = {}
    BY <1>0, <1>3, <1>8
  <2>2. SectionOf(u, n + 1) = line.word
    BY <1>2, <2>1 DEF SectionOf
  <2> QED BY <1>6, <1>8, <2>2 DEF u, n
<1>9. CASE line.word \notin Sections
  <2>1. HeaderOf(u, n + 1) = h
    BY <1>3, <1>9
  <2>2. \A z : z \in h + 1..n + 1 <=> z \in h + 1..n \/ z = n + 1
    BY <1>0, <1>1
  <2>3. \A z \in h + 1..n : u[z] = t[z]
    BY <1>0, <1>1, <1>2
  <2>4. (\E z \in h + 1..n + 1 : u[z].word = "beginZone")
          <=> line.word = "beginZone" \/ \E z \in h + 1..n : t[z].word = "beginZone"
    BY <1>2, <2>2, <2>3
  <2>5. SectionOf(u, n + 1) = IF h # 0 /\ t[h].word = "zones" THEN "zones"
                              ELSE IF \E z \in h + 1..n + 1 : u[z].word = "beginZone" THEN "other"
                              ELSE IF h = 0 THEN "none" ELSE t[h].word
    BY <1>4, <2>1 DEF SectionOf
  <2>6. SectionOf(u, n + 1) = IF line.word = "beginZone" /\ SectionOf(t, n) # "zones" THEN "other"
                              ELSE SectionOf(t, n)
    BY <1>5, <1>7, <2>4, <2>5
  <2> QED BY <1>6, <1>9, <2>6 DEF u, n
<1> QED BY <1>8, <1>9

-----------------------------------------------------------------------------
\* The lines of a section, and the ranges it gives.
LEMMA LinesInMore ==
  ASSUME NEW t \in Seq(Lines), NEW line \in Lines, NEW W, NEW sec
  PROVE  /\ LinesIn(Append(t, line), W, sec)
              = IF line.word \in W /\ SectionOf(Append(t, line), Len(t) + 1) = sec
                THEN LinesIn(t, W, sec) \cup {Len(t) + 1} ELSE LinesIn(t, W, sec)
         /\ LinesIn(t, W, sec) \subseteq 1..Len(t)
<1> DEFINE u == Append(t, line)
           n == Len(t)
<1>1. /\ n \in Nat /\ u[n + 1] = line /\ DOMAIN t = 1..n /\ DOMAIN u = 1..n + 1
      /\ \A i \in 1..n : u[i] = t[i]
  BY OneMore
<1>2. \A i \in 1..n : SectionOf(u, i) = SectionOf(t, i)
  <2>1. \A i \in 1..n : i \in 0..n
    BY <1>1
  <2> QED BY <2>1, SectionStays
<1>3. \A i : i \in 1..n + 1 <=> i \in 1..n \/ i = n + 1
  BY <1>1
<1>4. LinesIn(t, W, sec) \subseteq 1..n
  BY <1>1 DEF LinesIn
<1> HIDE DEF u, n
<1>5. LinesIn(u, W, sec) = IF line.word \in W /\ SectionOf(u, n + 1) = sec
                           THEN LinesIn(t, W, sec) \cup {n + 1} ELSE LinesIn(t, W, sec)
  BY <1>1, <1>2, <1>3 DEF LinesIn
<1> QED BY <1>4, <1>5 DEF u, n

LEMMA RangeStays ==
  ASSUME NEW t \in Seq(Lines), NEW line \in Lines, NEW sec, NEW from, NEW to \in 0..Len(t), NEW d
  PROVE  RangeIn(Append(t, line), sec, from, to, d) = RangeIn(t, sec, from, to, d)
<1> DEFINE u == Append(t, line)
           n == Len(t)
           S == LinesIn(t, {"range"}, sec) \cap (from..to)
<1>1. n \in Nat /\ \A i \in 1..n : u[i] = t[i]
  BY OneMore
<1>2. LinesIn(t, {"range"}, sec) \subseteq 1..n
  BY LinesInMore
<1>3. n + 1 \notin from..to
  BY <1>1
<1>4. LinesIn(u, {"range"}, sec) \cap (from..to) = S
  BY <1>3, LinesInMore
<1>5. LastOf(S) \in 0..n
  BY <1>1, <1>2, LastOfThem
<1>6. LastOf(S) # 0 => u[LastOf(S)] = t[LastOf(S)]
  BY <1>1, <1>5
<1> QED BY <1>4, <1>6 DEF RangeIn

LEMMA RangeMore ==
  ASSUME NEW t \in Seq(Lines), NEW line \in Lines, NEW sec, NEW from \in 1..Len(t) + 1, NEW d
  PROVE  RangeIn(Append(t, line), sec, from, Len(t) + 1, d)
           = IF line.word = "range" /\ SectionOf(Append(t, line), Len(t) + 1) = sec
             THEN line.range ELSE RangeIn(t, sec, from, Len(t), d)
<1> DEFINE u == Append(t, line)
           n == Len(t)
           S == LinesIn(t, {"range"}, sec) \cap (from..n)
<1>1. n \in Nat /\ u[n + 1] = line /\ \A i \in 1..n : u[i] = t[i]
  BY OneMore
<1>2. LinesIn(t, {"range"}, sec) \subseteq 1..n
  BY LinesInMore
<1>3. n + 1 \in from..n + 1 /\ \A i \in 1..n : i \in from..n + 1 <=> i \in from..n
  BY <1>1
<1>4. LinesIn(u, {"range"}, sec) \cap (from..n + 1)
        = IF line.word = "range" /\ SectionOf(u, n + 1) = sec THEN S \cup {n + 1} ELSE S
  BY <1>2, <1>3, LinesInMore
<1>5. LastOf(S) \in 0..n /\ LastOf(S \cup {n + 1}) = n + 1
  BY <1>1, <1>2, LastOfThem, LastIsNew
<1>6. LastOf(S) # 0 => u[LastOf(S)] = t[LastOf(S)]
  BY <1>1, <1>5
<1>7. n + 1 # 0
  BY <1>1
<1> HIDE DEF u, n
<1>8. RangeIn(u, sec, from, n + 1, d) = IF line.word = "range" /\ SectionOf(u, n + 1) = sec
                                        THEN line.range ELSE RangeIn(t, sec, from, n, d)
  BY <1>1, <1>4, <1>5, <1>6, <1>7 DEF RangeIn
<1> QED BY <1>8 DEF u, n

LEMMA LimitsStay ==
  ASSUME NEW t \in Seq(Lines), NEW line \in Lines
  PROVE  /\ \A i \in 0..Len(t) : LimitBefore(Append(t, line), i) = LimitBefore(t, i)
         /\ LimitBefore(Append(t, line), Len(t) + 1)
              = IF line.word = "range" /\ SectionOf(Append(t, line), Len(t) + 1) = "global"
                THEN line.range ELSE LimitBefore(t, Len(t))
<1>1. 1 \in 1..Len(t) + 1
  BY OneMore
<1> QED BY <1>1, RangeStays, RangeMore DEF LimitBefore

LEMMA ForcedMore ==
  ASSUME NEW t \in Seq(Lines), NEW line \in Lines
  PROVE  Forced(Append(t, line))
           = IF line.word \in {"forceOn", "forceOff"} /\ SectionOf(Append(t, line), Len(t) + 1) = "global"
             THEN line.word = "forceOn" ELSE Forced(t)
<1> DEFINE u == Append(t, line)
           n == Len(t)
           S == LinesIn(t, {"forceOn", "forceOff"}, "global")
<1>1. n \in Nat /\ u[n + 1] = line /\ \A i \in 1..n : u[i] = t[i]
  BY OneMore
<1>2. S \subseteq 1..n
  BY LinesInMore
<1>3. LinesIn(u, {"forceOn", "forceOff"}, "global")
        = IF line.word \in {"forceOn", "forceOff"} /\ SectionOf(u, n + 1) = "global"
          THEN S \cup {n + 1} ELSE S
  <2> DEFINE W == {"forceOn", "forceOff"}
  <2> HIDE DEF W
  <2>1. LinesIn(u, W, "global") = IF line.word \in W /\ SectionOf(u, n + 1) = "global"
                                  THEN LinesIn(t, W, "global") \cup {n + 1} ELSE LinesIn(t, W, "global")
    BY LinesInMore
  <2> QED BY <2>1 DEF W
<1>4. LastOf(S) \in 0..n /\ LastOf(S \cup {n + 1}) = n + 1
  BY <1>1, <1>2, LastOfThem, LastIsNew
<1>5. LastOf(S) # 0 => u[LastOf(S)] = t[LastOf(S)]
  BY <1>1, <1>4
<1>6. n + 1 # 0
  BY <1>1
<1> HIDE DEF u, n
<1>7. CASE line.word \in {"forceOn", "forceOff"} /\ SectionOf(u, n + 1) = "global"
  <2>1. LastOf(LinesIn(u, {"forceOn", "forceOff"}, "global")) = n + 1
    BY <1>3, <1>4, <1>7
  <2>2. Forced(u) = (line.word = "forceOn")
    BY <1>1, <1>6, <2>1, Zenon DEF Forced
  <2> QED BY <1>7, <2>2 DEF u, n
<1>8. CASE ~(line.word \in {"forceOn", "forceOff"} /\ SectionOf(u, n + 1) = "global")
  <2>1. LinesIn(u, {"forceOn", "forceOff"}, "global") = S
    BY <1>3, <1>8
  <2>2. Forced(u) = Forced(t)
    BY <1>5, <2>1 DEF Forced
  <2> QED BY <1>8, <2>2 DEF u, n
<1> QED BY <1>7, <1>8

-----------------------------------------------------------------------------
\* The lines of an entry.  It is open as long as no line has ended it.
Stops(word) == Sections \cup {word, "beginZone"}
IsOpen(t, i, word) == \A j \in i + 1..Len(t) : t[j].word \notin Stops(word)

LEMMA EndOfBlock ==
  ASSUME NEW t \in Seq(Lines), NEW i \in 1..Len(t), NEW word
  PROVE  /\ IsOpen(t, i, word) => BlockEnd(t, i, word) = Len(t)
         /\ ~IsOpen(t, i, word) => /\ BlockEnd(t, i, word) \in i..Len(t) - 1
                                  /\ t[BlockEnd(t, i, word) + 1].word \in Stops(word)
                                  /\ \A j \in i + 1..BlockEnd(t, i, word) : t[j].word \notin Stops(word)
<1> DEFINE n == Len(t)
           S == {j \in i + 1..n : t[j].word \in Stops(word)}
           T == S \cup {n + 1}
<1>1. n \in Nat /\ i \in Nat /\ T \subseteq Nat /\ T # {} /\ n + 1 \in T
  OBVIOUS
<1>2. Min(T) \in T /\ \A y \in T : Min(T) <= y
  BY <1>1, LeastOf
<1>3. BlockEnd(t, i, word) = Min(T) - 1
  BY DEF BlockEnd, Stops
<1>4. IsOpen(t, i, word) <=> S = {}
  BY DEF IsOpen
<1> HIDE DEF n, S
<1>5. S = {} => Min(T) = n + 1
  BY <1>2
<1>6. S # {} => Min(T) \in i + 1..n
  <2>1. ASSUME NEW j \in S  PROVE Min(T) \in i + 1..n
    <3>1. j \in i + 1..n
      BY DEF S
    <3>2. Min(T) <= j
      BY <1>2
    <3>3. Min(T) \in i + 1..n \/ Min(T) = n + 1
      BY <1>2 DEF S
    <3> QED BY <1>1, <3>1, <3>2, <3>3
  <2> QED BY <2>1
<1>7. S # {} => Min(T) - 1 \in i..n - 1 /\ (Min(T) - 1) + 1 = Min(T)
  BY <1>1, <1>6
<1>9. S # {} => t[Min(T)].word \in Stops(word)
  <2>1. S # {} => Min(T) # n + 1
    BY <1>1, <1>6
  <2> QED BY <1>2, <2>1 DEF S
<1>10. S # {} => \A j \in i + 1..Min(T) - 1 : t[j].word \notin Stops(word)
  <2> SUFFICES ASSUME S # {}, NEW j \in i + 1..Min(T) - 1, t[j].word \in Stops(word)  PROVE FALSE
    OBVIOUS
  <2>1. j \in i + 1..n /\ j < Min(T)
    BY <1>1, <1>6
  <2>2. j \in T
    BY <2>1 DEF S
  <2>3. Min(T) <= j
    BY <1>2, <2>2
  <2> QED BY <1>1, <1>6, <2>1, <2>3
<1>8. S = {} => Min(T) - 1 = n
  BY <1>1, <1>5
<1> QED BY <1>3, <1>4, <1>7, <1>8, <1>9, <1>10 DEF n

LEMMA OpenMore ==
  ASSUME NEW t \in Seq(Lines), NEW line \in Lines, NEW i \in 1..Len(t), NEW word
  PROVE  /\ IsOpen(Append(t, line), i, word) <=> IsOpen(t, i, word) /\ line.word \notin Stops(word)
         /\ IsOpen(Append(t, line), Len(t) + 1, word)
<1> DEFINE u == Append(t, line)
           n == Len(t)
<1>1. n \in Nat /\ Len(u) = n + 1 /\ u[n + 1] = line /\ \A j \in 1..n : u[j] = t[j]
  BY OneMore
<1>2. \A j : j \in i + 1..n + 1 <=> j \in i + 1..n \/ j = n + 1
  BY <1>1
<1>3. \A j \in i + 1..n : u[j] = t[j]
  BY <1>1
<1>4. (n + 1) + 1..n + 1 = {}
  BY <1>1
<1> HIDE DEF u, n
<1>5. (IsOpen(u, i, word) <=> IsOpen(t, i, word) /\ line.word \notin Stops(word)) /\ IsOpen(u, n + 1, word)
  BY <1>1, <1>2, <1>3, <1>4 DEF IsOpen, n
<1> QED BY <1>5 DEF u, n

\* The range of an entry that begins in line i.
RangeOf(t, word, sec, i, d) == RangeIn(t, sec, i, BlockEnd(t, i, word), d)

LEMMA RangeOfMore ==
  ASSUME NEW t \in Seq(Lines), NEW line \in Lines, NEW i \in 1..Len(t), NEW word, NEW sec, NEW d,
         word # "range"
  PROVE  RangeOf(Append(t, line), word, sec, i, d)
           = IF line.word = "range" /\ SectionOf(Append(t, line), Len(t) + 1) = sec /\ IsOpen(t, i, word)
             THEN line.range ELSE RangeOf(t, word, sec, i, d)
<1> DEFINE u == Append(t, line)
           n == Len(t)
<1>1. /\ n \in Nat /\ Len(u) = n + 1 /\ u \in Seq(Lines) /\ i \in 1..n + 1 /\ i \in Nat
      /\ u[n + 1] = line /\ \A j \in 1..n : u[j] = t[j]
  BY OneMore
<1>2. IsOpen(u, i, word) <=> IsOpen(t, i, word) /\ line.word \notin Stops(word)
  BY OpenMore
<1>3. line.word = "range" => line.word \notin Stops(word)
  BY DEF Stops, Sections
<1>4. CASE IsOpen(u, i, word)
  <2>1. BlockEnd(u, i, word) = n + 1 /\ BlockEnd(t, i, word) = n
    BY <1>1, <1>2, <1>4, EndOfBlock
  <2> QED BY <1>1, <1>2, <1>4, <2>1, RangeMore DEF RangeOf
<1>5. CASE ~IsOpen(u, i, word)
  <2> DEFINE e == BlockEnd(u, i, word)
             f == BlockEnd(t, i, word)
  <2>1. /\ e \in i..n /\ u[e + 1].word \in Stops(word)
        /\ \A j \in i + 1..e : u[j].word \notin Stops(word)
    <3>1. (n + 1) - 1 = n
      BY <1>1
    <3> QED BY <1>1, <1>5, <3>1, EndOfBlock
  <2>2. e = f
    <3>1. CASE IsOpen(t, i, word)
      <4>1. f = n
        BY <3>1, EndOfBlock
      <4>2. ASSUME e # n  PROVE FALSE
        <5>1. e + 1 \in i + 1..n /\ e + 1 \in 1..n
          BY <1>1, <2>1, <4>2
        <5> QED BY <1>1, <2>1, <3>1, <5>1 DEF IsOpen
      <4> QED BY <4>1, <4>2
    <3>2. CASE ~IsOpen(t, i, word)
      <4>1. /\ f \in i..n - 1 /\ t[f + 1].word \in Stops(word)
            /\ \A j \in i + 1..f : t[j].word \notin Stops(word)
        BY <3>2, EndOfBlock
      <4> HIDE DEF e, f, u, n
      <4>2. ASSUME e < f  PROVE FALSE
        <5>1. e + 1 \in i + 1..f /\ e + 1 \in 1..n
          BY <1>1, <2>1, <4>1, <4>2
        <5> QED BY <1>1, <2>1, <4>1, <5>1
      <4>3. ASSUME f < e  PROVE FALSE
        <5>1. f + 1 \in i + 1..e /\ f + 1 \in 1..n
          BY <1>1, <2>1, <4>1, <4>3
        <5> QED BY <1>1, <2>1, <4>1, <5>1
      <4> QED BY <1>1, <2>1, <4>1, <4>2, <4>3
    <3> QED BY <3>1, <3>2
  <2>3. BlockEnd(u, i, word) \in 0..n
    BY <1>1, <2>1
  <2>4. ~(line.word = "range" /\ IsOpen(t, i, word))
    BY <1>2, <1>3, <1>5
  <2> QED BY <2>2, <2>3, <2>4, RangeStays DEF RangeOf
<1> QED BY <1>4, <1>5

-----------------------------------------------------------------------------
\* The entries of a section in order: Numbered says that there is an n-th one
\* for every n up to their number.
Upto(S, i) == {j \in S : j <= i}
Numbered(S) == \A k \in 1..Cardinality(S) : \E i \in S : Cardinality(Upto(S, i)) = k

LEMMA LinesAreFinite ==
  ASSUME NEW n \in Nat, NEW S \in SUBSET (1..n)
  PROVE  S \subseteq 1..n /\ S \subseteq Nat /\ IsFiniteSet(S)
<1>1. 0 \in Int /\ 1 \in Int /\ n \in Int /\ 1..n \subseteq Nat /\ S \subseteq 1..n
  OBVIOUS
<1>2. IsFiniteSet(1..n)
  BY <1>1, FS_Interval
<1> QED BY <1>1, <1>2, FS_Subset

LEMMA NthIs ==
  ASSUME NEW n \in Nat, NEW S \in SUBSET (1..n), NEW i \in S
  PROVE  Nth(S, Cardinality(Upto(S, i))) = i
<1> DEFINE k == Cardinality(Upto(S, i))
<1>1. S \subseteq Nat /\ IsFiniteSet(S)
  BY LinesAreFinite
<1>2. ASSUME NEW j \in S, NEW h \in S, j < h  PROVE Cardinality(Upto(S, j)) # Cardinality(Upto(S, h))
  <2>1. Upto(S, j) \subseteq Upto(S, h) /\ h \in Upto(S, h) /\ h \notin Upto(S, j)
    <3>1. j \in Nat /\ h \in Nat /\ j < h
      BY <1>1, <1>2
    <3>2. ASSUME NEW x \in S, x <= j  PROVE x <= h
      <4>1. x \in Nat
        BY <1>1
      <4> QED BY <3>1, <3>2, <4>1
    <3>3. h <= h /\ ~(h <= j)
      BY <3>1
    <3> QED BY <3>2, <3>3 DEF Upto
  <2>2. IsFiniteSet(Upto(S, h))
    BY <1>1, FS_Subset DEF Upto
  <2> QED BY <2>1, <2>2, FS_Subset
<1>3. \A j \in S : Cardinality(Upto(S, j)) = k => j = i
  <2> SUFFICES ASSUME NEW j \in S, Cardinality(Upto(S, j)) = k, j # i  PROVE FALSE
    OBVIOUS
  <2>1. j < i \/ i < j
    BY <1>1
  <2> QED BY <1>2, <2>1
<1>4. \A j \in S : Cardinality({h \in S : h <= j}) = k <=> j = i
  BY <1>3 DEF Upto
<1> HIDE DEF k
<1>5. (CHOOSE j \in S : Cardinality({h \in S : h <= j}) = k) = i
  BY <1>4
<1> QED BY <1>5 DEF Nth, k

LEMMA NthOfMore ==
  ASSUME NEW n \in Nat, NEW S \in SUBSET (1..n), Numbered(S)
  PROVE  LET T == S \cup {n + 1}
         IN /\ Cardinality(S) \in Nat /\ Cardinality(T) = Cardinality(S) + 1 /\ Numbered(T)
            /\ \A k \in 1..Cardinality(S) : Nth(S, k) \in S /\ Nth(T, k) = Nth(S, k)
            /\ Nth(T, Cardinality(S) + 1) = n + 1
<1> DEFINE T == S \cup {n + 1}
           c == Cardinality(S)
<1>1. S \subseteq 1..n /\ IsFiniteSet(S) /\ n + 1 \notin S /\ n + 1 \in Nat
  BY LinesAreFinite
<1>2. c \in Nat /\ Cardinality(T) = c + 1
  BY <1>1, FS_AddElement, FS_CardinalityType
<1>3. T \in SUBSET (1..n + 1) /\ S \subseteq T
  BY <1>1
<1>4. Upto(T, n + 1) = T
  <2>1. \A x \in T : x <= n + 1
    BY <1>1
  <2> QED BY <2>1 DEF Upto
<1>5. \A i \in S : Upto(T, i) = Upto(S, i)
  BY <1>1 DEF Upto
<1>6. Nth(T, c + 1) = n + 1
  <2>1. n + 1 \in T
    OBVIOUS
  <2> HIDE DEF T, c
  <2>2. Nth(T, Cardinality(Upto(T, n + 1))) = n + 1
    BY <1>1, <1>3, <2>1, NthIs
  <2> QED BY <1>2, <1>4, <2>2
<1>7. ASSUME NEW k \in 1..c
      PROVE  Nth(S, k) \in S /\ Nth(T, k) = Nth(S, k) /\ \E i \in T : Cardinality(Upto(T, i)) = k
  <2>1. PICK i \in S : Cardinality(Upto(S, i)) = k
    BY <1>7 DEF Numbered
  <2>2. Nth(S, k) = i
    BY <2>1, NthIs
  <2>3. Cardinality(Upto(T, i)) = k /\ i \in T
    BY <1>3, <1>5, <2>1
  <2> HIDE DEF T, c
  <2>4. Nth(T, k) = i
    BY <1>1, <1>3, <2>3, NthIs
  <2> QED BY <2>1, <2>2, <2>3, <2>4
<1>8. Numbered(T)
  <2> HIDE DEF T, c
  <2>1. \A k \in 1..c + 1 : k \in 1..c \/ k = c + 1
    BY <1>2
  <2>2. n + 1 \in T
    BY DEF T
  <2> QED BY <1>2, <1>4, <1>7, <2>1, <2>2 DEF Numbered
<1> QED BY <1>2, <1>6, <1>7, <1>8

-----------------------------------------------------------------------------
\* The number of entries that have room, and what a list of them is.
CountOf(t, word, sec) ==
  LET c == Cardinality(LinesIn(t, {word}, sec)) IN IF c > HdMaxEntries THEN HdMaxEntries ELSE c
NthOf(t, word, sec, k) == Nth(LinesIn(t, {word}, sec), k)
IsListOf(f, t, word, sec, d) ==
  /\ f = [k \in 1..CountOf(t, word, sec) |-> f[k]]
  /\ \A k \in 1..CountOf(t, word, sec) :
       f[k] = RangeOf(t, word, sec, NthOf(t, word, sec, k), d[NthOf(t, word, sec, k)])

LEMMA CountsUp ==
  ASSUME HdAssumption, NEW t \in Seq(Lines), NEW word, NEW sec
  PROVE  /\ CountOf(t, word, sec) \in Nat /\ CountOf(t, word, sec) <= HdMaxEntries
         /\ LinesIn(t, {word}, sec) \subseteq 1..Len(t)
         /\ Cardinality(LinesIn(t, {word}, sec)) \in Nat
         /\ CountOf(t, word, sec) <= Cardinality(LinesIn(t, {word}, sec))
         /\ CountOf(t, word, sec) < HdMaxEntries =>
              CountOf(t, word, sec) = Cardinality(LinesIn(t, {word}, sec))
<1> DEFINE S == LinesIn(t, {word}, sec)
<1>1. S \subseteq 1..Len(t) /\ Len(t) \in Nat
  BY DEF LinesIn
<1>2. Cardinality(S) \in Nat /\ HdMaxEntries \in Nat
  BY <1>1, LinesAreFinite, FS_CardinalityType DEF HdAssumption
<1> HIDE DEF S
<1>3. CountOf(t, word, sec) = IF Cardinality(S) > HdMaxEntries THEN HdMaxEntries ELSE Cardinality(S)
  BY DEF CountOf, S
<1>4. /\ CountOf(t, word, sec) \in Nat /\ CountOf(t, word, sec) <= HdMaxEntries
      /\ CountOf(t, word, sec) <= Cardinality(S)
      /\ CountOf(t, word, sec) < HdMaxEntries => CountOf(t, word, sec) = Cardinality(S)
  BY <1>2, <1>3
<1> QED BY <1>1, <1>2, <1>4 DEF S

LEMMA EntriesAre ==
  ASSUME HdAssumption, NEW t \in Seq(Lines), NEW word, NEW sec, NEW d
  PROVE  \A f : f = Entries(t, word, sec, d) <=> IsListOf(f, t, word, sec, d)
<1>1. Entries(t, word, sec, d)
        = [k \in 1..CountOf(t, word, sec) |->
             RangeOf(t, word, sec, NthOf(t, word, sec, k), d[NthOf(t, word, sec, k)])]
  BY DEF Entries, RangeOf, CountOf, NthOf
<1> QED BY <1>1 DEF IsListOf

\* Each of them begins in a line of the text; with a line that does not begin
\* one they stay, with one that does there is one more.
LEMMA NthStays ==
  ASSUME HdAssumption, NEW t \in Seq(Lines), NEW line \in Lines, NEW word, NEW sec,
         Numbered(LinesIn(t, {word}, sec))
  PROVE  LET u == Append(t, line)
             m == CountOf(t, word, sec)
         IN /\ \A k \in 1..m : NthOf(t, word, sec, k) \in 1..Len(t) /\ k # 0
            /\ \A k \in 1..m : NthOf(u, word, sec, k) = NthOf(t, word, sec, k)
            /\ Numbered(LinesIn(u, {word}, sec))
            /\ ~(line.word = word /\ SectionOf(u, Len(t) + 1) = sec) => CountOf(u, word, sec) = m
            /\ line.word = word /\ SectionOf(u, Len(t) + 1) = sec =>
                 /\ m = HdMaxEntries => CountOf(u, word, sec) = m
                 /\ m # HdMaxEntries =>
                      CountOf(u, word, sec) = m + 1 /\ NthOf(u, word, sec, m + 1) = Len(t) + 1
<1> DEFINE u == Append(t, line)
           n == Len(t)
           S == LinesIn(t, {word}, sec)
           T == LinesIn(u, {word}, sec)
           c == Cardinality(S)
           m == CountOf(t, word, sec)
<1>1. /\ T = IF line.word = word /\ SectionOf(u, n + 1) = sec THEN S \cup {n + 1} ELSE S
      /\ S \subseteq 1..n /\ n \in Nat /\ u \in Seq(Lines)
  <2> DEFINE W == {word}
  <2>1. line.word \in W <=> line.word = word
    OBVIOUS
  <2> HIDE DEF W
  <2>2. /\ LinesIn(u, W, sec) = IF line.word \in W /\ SectionOf(u, n + 1) = sec
                                 THEN LinesIn(t, W, sec) \cup {n + 1} ELSE LinesIn(t, W, sec)
        /\ LinesIn(t, W, sec) \subseteq 1..n
    BY LinesInMore
  <2>3. n \in Nat /\ u \in Seq(Lines)
    BY OneMore
  <2> QED BY <2>1, <2>2, <2>3 DEF W
<1>2. /\ m \in Nat /\ c \in Nat /\ m <= c /\ m <= HdMaxEntries /\ HdMaxEntries \in Nat
      /\ m < HdMaxEntries => m = c
  BY CountsUp DEF HdAssumption
<1>3. \A k \in 1..m : k \in 1..c /\ k # 0
  BY <1>2
<1>4. \A k \in 1..c : Nth(S, k) \in S
  BY <1>1, NthOfMore
<1>5. CASE ~(line.word = word /\ SectionOf(u, n + 1) = sec)
  <2>1. T = S
    BY <1>1, <1>5
  <2> QED BY <1>1, <1>3, <1>4, <1>5, <2>1 DEF CountOf, NthOf
<1>6. CASE line.word = word /\ SectionOf(u, n + 1) = sec
  <2>1. T = S \cup {n + 1}
    BY <1>1, <1>6
  <2>2. /\ Cardinality(T) = c + 1 /\ Numbered(T) /\ Nth(T, c + 1) = n + 1
        /\ \A k \in 1..c : Nth(T, k) = Nth(S, k)
    <3> HIDE DEF S, T
    <3>1. LET V == S \cup {n + 1}
          IN /\ Cardinality(V) = c + 1 /\ Numbered(V) /\ Nth(V, c + 1) = n + 1
             /\ \A k \in 1..c : Nth(V, k) = Nth(S, k)
      BY <1>1, NthOfMore DEF S
    <3> QED BY <2>1, <3>1
  <2>3. CountOf(u, word, sec) = IF c + 1 > HdMaxEntries THEN HdMaxEntries ELSE c + 1
    BY <2>2 DEF CountOf
  <2>4. m = IF c > HdMaxEntries THEN HdMaxEntries ELSE c
    BY DEF CountOf
  <2>5. /\ m = HdMaxEntries => CountOf(u, word, sec) = m
        /\ m # HdMaxEntries => CountOf(u, word, sec) = m + 1 /\ m = c
    <3> HIDE DEF u, n, S, T, c, m
    <3> QED BY <1>2, <2>3, <2>4
  <2> QED BY <1>1, <1>3, <1>4, <1>6, <2>2, <2>5 DEF NthOf
<1> QED BY <1>5, <1>6

(***************************************************************************)
(* One list of entries against the text: list are the entries of section   *)
(* sec, which lines with word begin, and current is the one that lines go  *)
(* to while here, the section of the last line, is sec.                    *)
(***************************************************************************)
EntryInv(t, word, sec, d, list, current, here) ==
  /\ Numbered(LinesIn(t, {word}, sec))
  /\ IsListOf(list, t, word, sec, d)
  /\ here = sec => \A k \in 1..CountOf(t, word, sec) :
       IsOpen(t, NthOf(t, word, sec, k), word) <=> k = current

\* A line that neither begins an entry nor gives a range.
LEMMA EntryKeeps ==
  ASSUME HdAssumption, NEW t \in Seq(Lines), NEW line \in Lines, NEW word, word # "range", NEW sec,
         NEW d, NEW e, \A i \in 1..Len(t) : e[i] = d[i],
         NEW list, NEW current, NEW here, EntryInv(t, word, sec, d, list, current, here),
         NEW next, NEW there, there = SectionOf(Append(t, line), Len(t) + 1),
         ~(line.word \in {word, "range"} /\ there = sec),
         there = sec => \/ here = sec /\ line.word \notin Stops(word) /\ next = current
                        \/ line.word \in Stops(word) /\ next = 0
  PROVE  EntryInv(Append(t, line), word, sec, e, list, next, there)
<1> DEFINE u == Append(t, line)
           n == Len(t)
           m == CountOf(t, word, sec)
           nth(k) == NthOf(t, word, sec, k)
<1>1. u \in Seq(Lines) /\ n \in Nat
  BY OneMore
<1>2. /\ Numbered(LinesIn(t, {word}, sec)) /\ IsListOf(list, t, word, sec, d)
      /\ here = sec => \A k \in 1..m : IsOpen(t, nth(k), word) <=> k = current
  BY DEF EntryInv
<1>3. /\ \A k \in 1..m : nth(k) \in 1..n /\ k # 0 /\ NthOf(u, word, sec, k) = nth(k)
      /\ Numbered(LinesIn(u, {word}, sec)) /\ CountOf(u, word, sec) = m
  BY <1>2, NthStays
<1>4. ASSUME NEW k \in 1..m
      PROVE  RangeOf(u, word, sec, nth(k), e[nth(k)]) = RangeOf(t, word, sec, nth(k), d[nth(k)])
  <2>1. nth(k) \in 1..n
    BY <1>3
  <2>2. e[nth(k)] = d[nth(k)]
    BY <2>1
  <2> HIDE DEF nth
  <2> QED BY <2>1, <2>2, RangeOfMore
<1>5. IsListOf(list, u, word, sec, e)
  BY <1>2, <1>3, <1>4 DEF IsListOf
<1>6. ASSUME there = sec, NEW k \in 1..m
      PROVE  IsOpen(u, nth(k), word) <=> k = next
  <2>1. nth(k) \in 1..n /\ k # 0
    BY <1>3
  <2>2. IsOpen(u, nth(k), word) <=> IsOpen(t, nth(k), word) /\ line.word \notin Stops(word)
    <3> HIDE DEF nth
    <3> QED BY <2>1, OpenMore
  <2> QED BY <1>2, <1>6, <2>1, <2>2
<1> QED BY <1>3, <1>5, <1>6 DEF EntryInv

\* A range: it goes to the entry that is open, if there is one.
LEMMA EntryGetsRange ==
  ASSUME HdAssumption, NEW t \in Seq(Lines), NEW line \in Lines, NEW word, word # "range", NEW sec,
         NEW d, NEW e, \A i \in 1..Len(t) : e[i] = d[i],
         NEW list, NEW current \in 0..CountOf(t, word, sec),
         EntryInv(t, word, sec, d, list, current, sec),
         line.word = "range", SectionOf(Append(t, line), Len(t) + 1) = sec,
         NEW more, more = IF current = 0 THEN list ELSE [list EXCEPT ![current] = line.range]
  PROVE  EntryInv(Append(t, line), word, sec, e, more, current, sec)
<1> DEFINE u == Append(t, line)
           n == Len(t)
           m == CountOf(t, word, sec)
           nth(k) == NthOf(t, word, sec, k)
<1>1. u \in Seq(Lines) /\ n \in Nat /\ m \in Nat
  BY OneMore, CountsUp
<1>2. /\ Numbered(LinesIn(t, {word}, sec)) /\ IsListOf(list, t, word, sec, d)
      /\ \A k \in 1..m : IsOpen(t, nth(k), word) <=> k = current
  BY DEF EntryInv
<1>3. /\ \A k \in 1..m : nth(k) \in 1..n /\ k # 0 /\ NthOf(u, word, sec, k) = nth(k)
      /\ Numbered(LinesIn(u, {word}, sec)) /\ CountOf(u, word, sec) = m
  BY <1>2, NthStays
<1>4. list = [k \in 1..m |-> list[k]] /\ \A k \in 1..m : list[k] = RangeOf(t, word, sec, nth(k), d[nth(k)])
  BY <1>2 DEF IsListOf
<1>5. /\ more = [k \in 1..m |-> more[k]]
      /\ \A k \in 1..m : more[k] = IF k = current THEN line.range ELSE list[k]
  <2> HIDE DEF m
  <2>1. CASE current = 0
    BY <1>3, <1>4, <2>1
  <2>2. CASE current # 0
    <3>1. current \in 1..m
      BY <1>1, <2>2 DEF m
    <3> QED BY <1>4, <2>2, <3>1
  <2> QED BY <2>1, <2>2
<1>6. ASSUME NEW k \in 1..m  PROVE RangeOf(u, word, sec, nth(k), e[nth(k)]) = more[k]
  <2>1. nth(k) \in 1..n
    BY <1>3
  <2>2. e[nth(k)] = d[nth(k)] /\ (IsOpen(t, nth(k), word) <=> k = current)
    BY <1>2, <2>1
  <2>3. list[k] = RangeOf(t, word, sec, nth(k), d[nth(k)])
    BY <1>4
  <2>4. more[k] = IF k = current THEN line.range ELSE list[k]
    BY <1>5
  <2> HIDE DEF nth, m
  <2> QED BY <2>1, <2>2, <2>3, <2>4, RangeOfMore
<1>7. IsListOf(more, u, word, sec, e)
  BY <1>3, <1>5, <1>6 DEF IsListOf
<1>8. ASSUME NEW k \in 1..m  PROVE IsOpen(u, nth(k), word) <=> k = current
  <2>1. nth(k) \in 1..n
    BY <1>3
  <2>2. line.word \in Stops(word) <=> FALSE
    BY DEF Stops, Sections
  <2>3. IsOpen(u, nth(k), word) <=> IsOpen(t, nth(k), word) /\ line.word \notin Stops(word)
    <3> HIDE DEF nth
    <3> QED BY <2>1, OpenMore
  <2> QED BY <1>2, <2>2, <2>3
<1> QED BY <1>3, <1>7, <1>8 DEF EntryInv

\* A line that begins an entry, if there is room for one.
LEMMA EntryBegins ==
  ASSUME HdAssumption, NEW t \in Seq(Lines), NEW line \in Lines, NEW word, word # "range", NEW sec,
         NEW d, NEW e, \A i \in 1..Len(t) : e[i] = d[i], e[Len(t) + 1] \in Metres,
         NEW list \in Seq(Metres), NEW current, NEW here,
         EntryInv(t, word, sec, d, list, current, here),
         line.word = word, SectionOf(Append(t, line), Len(t) + 1) = sec,
         NEW begun, begun = Begun(list, current, e[Len(t) + 1])
  PROVE  EntryInv(Append(t, line), word, sec, e, begun[1], begun[2], sec)
<1> DEFINE u == Append(t, line)
           n == Len(t)
           m == CountOf(t, word, sec)
           nth(k) == NthOf(t, word, sec, k)
<1>1. /\ u \in Seq(Lines) /\ n \in Nat /\ Len(u) = n + 1 /\ m \in Nat /\ m <= HdMaxEntries
      /\ HdMaxEntries \in Nat
  BY OneMore, CountsUp DEF HdAssumption
<1>2. Numbered(LinesIn(t, {word}, sec)) /\ IsListOf(list, t, word, sec, d)
  BY DEF EntryInv
<1>3. /\ \A k \in 1..m : nth(k) \in 1..n /\ k # 0 /\ NthOf(u, word, sec, k) = nth(k)
      /\ Numbered(LinesIn(u, {word}, sec))
      /\ m = HdMaxEntries => CountOf(u, word, sec) = m
      /\ m # HdMaxEntries => CountOf(u, word, sec) = m + 1 /\ NthOf(u, word, sec, m + 1) = n + 1
  <2>1. LET v == Append(t, line)
            c == CountOf(t, word, sec)
        IN /\ \A k \in 1..c : NthOf(t, word, sec, k) \in 1..Len(t) /\ k # 0
           /\ \A k \in 1..c : NthOf(v, word, sec, k) = NthOf(t, word, sec, k)
           /\ Numbered(LinesIn(v, {word}, sec))
           /\ ~(line.word = word /\ SectionOf(v, Len(t) + 1) = sec) => CountOf(v, word, sec) = c
           /\ line.word = word /\ SectionOf(v, Len(t) + 1) = sec =>
                /\ c = HdMaxEntries => CountOf(v, word, sec) = c
                /\ c # HdMaxEntries =>
                     CountOf(v, word, sec) = c + 1 /\ NthOf(v, word, sec, c + 1) = Len(t) + 1
    BY <1>2, NthStays
  <2> QED BY <2>1
<1>4. list = [k \in 1..m |-> list[k]] /\ \A k \in 1..m : list[k] = RangeOf(t, word, sec, nth(k), d[nth(k)])
  BY <1>2 DEF IsListOf
<1>9. Len(list) = m /\ DOMAIN list = 1..m
  <2>1. DOMAIN list = 1..m /\ DOMAIN list = 1..Len(list) /\ Len(list) \in Nat
    <3>1. DOMAIN [k \in 1..m |-> list[k]] = 1..m
      OBVIOUS
    <3>2. DOMAIN list = 1..m
      BY <1>4, <3>1, Zenon
    <3>3. DOMAIN list = 1..Len(list) /\ Len(list) \in Nat
      OBVIOUS
    <3> QED BY <3>2, <3>3
  <2> HIDE DEF m
  <2> QED BY <1>1, <2>1
<1>5. ASSUME NEW k \in 1..m
      PROVE  RangeOf(u, word, sec, nth(k), e[nth(k)]) = list[k] /\ ~IsOpen(u, nth(k), word)
  <2>1. nth(k) \in 1..n
    BY <1>3
  <2>2. e[nth(k)] = d[nth(k)] /\ list[k] = RangeOf(t, word, sec, nth(k), d[nth(k)])
    BY <1>4, <2>1
  <2>3. line.word \in Stops(word)
    BY DEF Stops
  <2> HIDE DEF nth, m
  <2> QED BY <2>1, <2>2, <2>3, OpenMore, RangeOfMore
<1>6. IsOpen(u, n + 1, word) /\ RangeOf(u, word, sec, n + 1, e[n + 1]) = e[n + 1]
  <2>1. (n + 1) + 1..n + 1 = {} /\ n + 1 \in 1..n + 1 /\ n + 1..n = {}
    BY <1>1
  <2>2. IsOpen(u, n + 1, word)
    BY <1>1, <2>1 DEF IsOpen
  <2>3. BlockEnd(u, n + 1, word) = n + 1
    BY <1>1, <2>1, <2>2, EndOfBlock
  <2>4. RangeIn(t, sec, n + 1, n, e[n + 1]) = e[n + 1]
    <3>1. LinesIn(t, {"range"}, sec) \cap (n + 1..n) = {}
      BY <2>1
    <3> HIDE DEF n
    <3> QED BY <3>1 DEF RangeIn, LastOf
  <2>5. RangeIn(u, sec, n + 1, n + 1, e[n + 1]) = e[n + 1]
    BY <2>1, <2>4, RangeMore
  <2> QED BY <2>2, <2>3, <2>5 DEF RangeOf
<1>7. CASE m = HdMaxEntries
  <2>1. begun = <<list, 0>>
    <3> HIDE DEF m
    <3> QED BY <1>1, <1>7, <1>9 DEF Begun
  <2>2. IsListOf(list, u, word, sec, e)
    BY <1>3, <1>4, <1>5, <1>7 DEF IsListOf
  <2>3. \A k \in 1..m : IsOpen(u, nth(k), word) <=> k = 0
    BY <1>3, <1>5
  <2> QED BY <1>1, <1>3, <1>7, <2>1, <2>2, <2>3 DEF EntryInv
<1>8. CASE m # HdMaxEntries
  <2> DEFINE more == Append(list, e[n + 1])
  <2>1. begun = <<more, m + 1>>
    <3> HIDE DEF m
    <3> QED BY <1>1, <1>8, <1>9 DEF Begun
  <2>2. CountOf(u, word, sec) = m + 1 /\ NthOf(u, word, sec, m + 1) = n + 1
    BY <1>3, <1>8
  <2>3. /\ more = [k \in 1..m + 1 |-> more[k]] /\ more[m + 1] = e[n + 1]
        /\ \A k \in 1..m : more[k] = list[k]
    <3> HIDE DEF m, n
    <3> QED BY <1>1, <1>9
  <2>4. \A k : k \in 1..m + 1 <=> k \in 1..m \/ k = m + 1
    <3> HIDE DEF m
    <3> QED BY <1>1
  <2>5. ASSUME NEW k \in 1..m + 1
        PROVE  /\ more[k] = RangeOf(u, word, sec, NthOf(u, word, sec, k), e[NthOf(u, word, sec, k)])
               /\ IsOpen(u, NthOf(u, word, sec, k), word) <=> k = m + 1
    <3>1. CASE k = m + 1
      BY <1>6, <2>2, <2>3, <3>1
    <3>2. CASE k \in 1..m
      <4>1. k # m + 1
        <5> HIDE DEF m
        <5> QED BY <1>1, <3>2
      <4> QED BY <1>3, <1>5, <2>3, <3>2, <4>1
    <3> QED BY <2>4, <3>1, <3>2
  <2>6. IsListOf(more, u, word, sec, e)
    <3> HIDE DEF more, m, n, u
    <3> QED BY <2>2, <2>3, <2>5 DEF IsListOf
  <2> HIDE DEF more, nth
  <2> QED BY <1>3, <2>1, <2>2, <2>5, <2>6 DEF EntryInv
<1> QED BY <1>1, <1>7, <1>8

(***************************************************************************)
(* The parser's state against the lines read: until the end, the section   *)
(* and the keys are those of the text so far, and so are the two lists.    *)
(***************************************************************************)
KeysInv(t, section, out) ==
  /\ section = SectionOf(t, Len(t))
  /\ out.valid <=> \E i \in DOMAIN t : t[i].word = "global"
  /\ out.limit = LimitBefore(t, Len(t))
  /\ out.force <=> Forced(t)
  /\ out.defaultRange = RangeIn(t, "defaults", 1, Len(t), 0)

Inherited(t) == [i \in DOMAIN t |-> LimitBefore(t, i)]
NoRange(t) == [i \in DOMAIN t |-> 0]

RacesInv == EntryInv(hdLines, "beginRace", "race", Inherited(hdLines), hdOut.races, hdAt.race,
                     hdAt.section)
ZonesInv == EntryInv(hdLines, "beginZone", "zones", NoRange(hdLines), hdOut.zones, hdAt.zone,
                     hdAt.section)

HubInv ==
  /\ HdTypeOK /\ ReadAsWritten
  /\ hdAt.section # "end" => KeysInv(hdLines, hdAt.section, hdOut) /\ RacesInv /\ ZonesInv

LEMMA HubStarts == ASSUME HdAssumption, HdInit  PROVE HubInv
<1> DEFINE e == <<>>
<1>0. e \in Seq(Lines) /\ Len(e) = 0 /\ DOMAIN e = {} /\ 1..0 = {} /\ 0 + 1..0 = {}
  OBVIOUS
<1>1. hdLines = e /\ hdAt = [section |-> "none", race |-> 0, zone |-> 0] /\ hdAt.section = "none"
  BY DEF HdInit
<1>2. hdOut = [valid |-> FALSE, limit |-> 0, force |-> FALSE, races |-> <<>>,
               zones |-> <<>>, defaultRange |-> 0]
  BY DEF HdInit
<1>3. HdTypeOK
  <2>1. <<>> \in Seq(Metres) /\ Len(<<>>) = 0
    OBVIOUS
  <2>2. 0 \in Metres /\ HdMaxEntries \in Nat /\ HdMaxLines \in Nat
    BY DEF HdAssumption, Metres
  <2> HIDE DEF e
  <2>3. hdOut \in HubSettings
    BY <1>2, <2>1, <2>2 DEF HubSettings
  <2>4. hdAt \in [section : Sections \cup {"none", "end"}, race : Nat, zone : Nat]
    BY <1>1
  <2> QED BY <1>0, <1>1, <1>2, <2>1, <2>2, <2>3, <2>4 DEF HdTypeOK
<1>4. \A W, sec : LinesIn(e, W, sec) = {}
  BY <1>0 DEF LinesIn
<1>5. \A S : {} \cap S = {}
  OBVIOUS
<1>6. \A sec : RangeIn(e, sec, 1, 0, 0) = 0
  BY <1>4, <1>5 DEF RangeIn, LastOf
<1>7. ~Forced(e)
  BY <1>4 DEF Forced, LastOf
<1>8. SectionOf(e, 0) = "none"
  <2>1. HeaderOf(e, 0) = 0
    BY <1>0 DEF HeaderOf, LastOf
  <2> HIDE DEF e
  <2> QED BY <1>0, <2>1 DEF SectionOf
<1>9. KeysInv(hdLines, hdAt.section, hdOut)
  <2> HIDE DEF e
  <2> QED BY <1>0, <1>1, <1>2, <1>6, <1>7, <1>8 DEF KeysInv, LimitBefore
<1>10. \A word, sec : CountOf(e, word, sec) = 0 /\ Numbered(LinesIn(e, {word}, sec))
  <2>1. Cardinality({}) = 0 /\ ~(0 > HdMaxEntries)
    BY FS_EmptySet DEF HdAssumption
  <2> HIDE DEF e
  <2>2. \A word, sec : LinesIn(e, {word}, sec) = {}
    BY <1>4
  <2> QED BY <1>0, <2>1, <2>2 DEF CountOf, Numbered
<1>11. \A word, sec, d, current, here : EntryInv(e, word, sec, d, <<>>, current, here)
  <2>1. <<>> = [k \in 1..0 |-> <<>>[k]]
    OBVIOUS
  <2> HIDE DEF e
  <2> QED BY <1>0, <1>10, <2>1 DEF EntryInv, IsListOf
<1>12. RacesInv /\ ZonesInv
  BY <1>1, <1>2, <1>11 DEF RacesInv, ZonesInv
<1> QED BY <1>1, <1>3, <1>9, <1>12 DEF HubInv, ReadAsWritten

LEMMA KeysMore ==
  ASSUME NEW t \in Seq(Lines), NEW line \in Lines, NEW section, NEW out, KeysInv(t, section, out),
         NEW there, there = SectionOf(Append(t, line), Len(t) + 1),
         NEW more,
         more.valid <=> out.valid \/ line.word = "global",
         more.limit = IF line.word = "range" /\ there = "global" THEN line.range ELSE out.limit,
         more.force <=> IF line.word \in {"forceOn", "forceOff"} /\ there = "global"
                        THEN line.word = "forceOn" ELSE out.force,
         more.defaultRange = IF line.word = "range" /\ there = "defaults" THEN line.range
                             ELSE out.defaultRange
  PROVE  KeysInv(Append(t, line), there, more)
<1> DEFINE u == Append(t, line)
           n == Len(t)
<1>1. /\ n \in Nat /\ Len(u) = n + 1 /\ u[n + 1] = line /\ DOMAIN t = 1..n /\ DOMAIN u = 1..n + 1
      /\ (\A i \in 1..n : u[i] = t[i]) /\ 1 \in 1..n + 1
  BY OneMore
<1>2. LimitBefore(u, n + 1) = IF line.word = "range" /\ there = "global" THEN line.range
                              ELSE LimitBefore(t, n)
  BY LimitsStay
<1>3. Forced(u) = IF line.word \in {"forceOn", "forceOff"} /\ there = "global"
                  THEN line.word = "forceOn" ELSE Forced(t)
  BY ForcedMore
<1>4. RangeIn(u, "defaults", 1, n + 1, 0) = IF line.word = "range" /\ there = "defaults" THEN line.range
                                            ELSE RangeIn(t, "defaults", 1, n, 0)
  BY <1>1, RangeMore
<1>5. (\E i \in DOMAIN u : u[i].word = "global")
        <=> line.word = "global" \/ \E i \in DOMAIN t : t[i].word = "global"
  <2>1. \A i : i \in 1..n + 1 <=> i \in 1..n \/ i = n + 1
    BY <1>1
  <2> HIDE DEF u, n
  <2> QED BY <1>1, <2>1
<1>6. /\ out.valid <=> \E i \in DOMAIN t : t[i].word = "global"
      /\ out.limit = LimitBefore(t, n) /\ (out.force <=> Forced(t))
      /\ out.defaultRange = RangeIn(t, "defaults", 1, n, 0)
  BY DEF KeysInv
<1> HIDE DEF u, n
<1>7. more.force <=> Forced(u)
  BY <1>3, <1>6
<1>8. more.limit = LimitBefore(u, n + 1) /\ more.defaultRange = RangeIn(u, "defaults", 1, n + 1, 0)
  BY <1>2, <1>4, <1>6
<1>9. more.valid <=> \E i \in DOMAIN u : u[i].word = "global"
  BY <1>5, <1>6
<1>10. KeysInv(u, there, more)
  BY <1>1, <1>7, <1>8, <1>9 DEF KeysInv, u, n
<1> QED BY <1>10 DEF u

-----------------------------------------------------------------------------
LEMMA InheritedStays ==
  ASSUME NEW t \in Seq(Lines), NEW line \in Lines
  PROVE  LET u == Append(t, line)
         IN /\ \A i \in 1..Len(t) : Inherited(u)[i] = Inherited(t)[i] /\ NoRange(u)[i] = NoRange(t)[i]
            /\ Inherited(u)[Len(t) + 1] = LimitBefore(u, Len(t) + 1) /\ NoRange(u)[Len(t) + 1] = 0
<1> DEFINE u == Append(t, line)
           n == Len(t)
<1>1. n \in Nat /\ DOMAIN t = 1..n /\ DOMAIN u = 1..n + 1 /\ n + 1 \in 1..n + 1
  BY OneMore
<1>2. \A i \in 1..n : i \in 1..n + 1 /\ i \in 0..n
  BY <1>1
<1>3. \A i \in 1..n : LimitBefore(u, i) = LimitBefore(t, i)
  BY <1>2, LimitsStay
<1> HIDE DEF u, n
<1>4. /\ \A i \in 1..n : Inherited(u)[i] = Inherited(t)[i] /\ NoRange(u)[i] = NoRange(t)[i]
      /\ Inherited(u)[n + 1] = LimitBefore(u, n + 1) /\ NoRange(u)[n + 1] = 0
  BY <1>1, <1>2, <1>3 DEF Inherited, NoRange
<1> QED BY <1>4 DEF u, n

\* What every line leaves the two lists and the types to show: a line that is
\* neither of a list's own leaves it.
LEMMA RacesKeep ==
  ASSUME HdAssumption, HdTypeOK, RacesInv, NEW line \in Lines, hdLines' = Append(hdLines, line),
         hdOut'.races = hdOut.races, hdAt'.section = SectionOf(hdLines', Len(hdLines) + 1),
         ~(line.word \in {"beginRace", "range"} /\ hdAt'.section = "race"),
         hdAt'.section = "race" =>
           \/ hdAt.section = "race" /\ line.word \notin Stops("beginRace") /\ hdAt'.race = hdAt.race
           \/ line.word \in Stops("beginRace") /\ hdAt'.race = 0
  PROVE  RacesInv'
<1> DEFINE d == Inherited(hdLines)
           e == Inherited(hdLines')
<1>1. hdLines \in Seq(Lines)
  BY DEF HdTypeOK
<1>2. \A i \in 1..Len(hdLines) : e[i] = d[i]
  BY <1>1, InheritedStays
<1> HIDE DEF d, e
<1>3. EntryInv(Append(hdLines, line), "beginRace", "race", e, hdOut.races, hdAt'.race, hdAt'.section)
  BY <1>1, <1>2, EntryKeeps DEF RacesInv, d
<1> QED BY <1>3 DEF RacesInv, e

LEMMA ZonesKeep ==
  ASSUME HdAssumption, HdTypeOK, ZonesInv, NEW line \in Lines, hdLines' = Append(hdLines, line),
         hdOut'.zones = hdOut.zones, hdAt'.section = SectionOf(hdLines', Len(hdLines) + 1),
         ~(line.word \in {"beginZone", "range"} /\ hdAt'.section = "zones"),
         hdAt'.section = "zones" =>
           \/ hdAt.section = "zones" /\ line.word \notin Stops("beginZone") /\ hdAt'.zone = hdAt.zone
           \/ line.word \in Stops("beginZone") /\ hdAt'.zone = 0
  PROVE  ZonesInv'
<1> DEFINE d == NoRange(hdLines)
           e == NoRange(hdLines')
<1>1. hdLines \in Seq(Lines)
  BY DEF HdTypeOK
<1>2. \A i \in 1..Len(hdLines) : e[i] = d[i]
  BY <1>1, InheritedStays
<1> HIDE DEF d, e
<1>3. EntryInv(Append(hdLines, line), "beginZone", "zones", e, hdOut.zones, hdAt'.zone, hdAt'.section)
  BY <1>1, <1>2, EntryKeeps DEF ZonesInv, d
<1> QED BY <1>3 DEF ZonesInv, e

LEMMA LineRead ==
  ASSUME HdAssumption, HubInv, NEW line \in Lines, Read(line)
  PROVE  /\ hdLines \in Seq(Lines) /\ hdLines' = Append(hdLines, line)
         /\ hdLines' \in Seq(Lines) /\ Len(hdLines') <= HdMaxLines
         /\ HdTypeOK /\ KeysInv(hdLines, hdAt.section, hdOut) /\ RacesInv /\ ZonesInv
         /\ SectionOf(hdLines', Len(hdLines) + 1)
              = IF line.word \in Sections THEN line.word
                ELSE IF line.word = "beginZone" /\ hdAt.section # "zones" THEN "other"
                ELSE hdAt.section
         /\ hdAt.section \in Sections \cup {"none"}
         /\ line.range \in Metres /\ line.word \in Words \cup {"range"}
<1>1. /\ hdLines \in Seq(Lines) /\ hdLines' = Append(hdLines, line) /\ Len(hdLines) < HdMaxLines
      /\ HdTypeOK /\ KeysInv(hdLines, hdAt.section, hdOut) /\ RacesInv /\ ZonesInv
  BY DEF HubInv, HdTypeOK, Read
<1>2. hdLines' \in Seq(Lines) /\ Len(hdLines') <= HdMaxLines
  <2>1. HdMaxLines \in Nat
    BY DEF HdAssumption
  <2> QED BY <1>1, <2>1
<1>3. hdAt.section = SectionOf(hdLines, Len(hdLines))
  BY <1>1 DEF KeysInv
<1>4. line.range \in Metres /\ line.word \in Words \cup {"range"}
  <2>1. HdRanges \subseteq Metres /\ 0 \in Metres
    BY DEF HdAssumption, Metres
  <2> QED BY <2>1 DEF Lines
<1> QED BY <1>1, <1>2, <1>3, <1>4, SectionOfNew

LEMMA AllKept ==
  ASSUME HdAssumption, HubInv, NEW line \in Lines, Read(line),
         hdAt' \in [section : Sections \cup {"none", "end"}, race : Nat, zone : Nat],
         hdAt'.section = SectionOf(hdLines', Len(hdLines) + 1),
         hdOut' \in HubSettings,
         Len(hdOut'.races) <= HdMaxEntries /\ hdAt'.race <= Len(hdOut'.races),
         Len(hdOut'.zones) <= HdMaxEntries /\ hdAt'.zone <= Len(hdOut'.zones),
         hdOut'.valid <=> hdOut.valid \/ line.word = "global",
         hdOut'.limit = IF line.word = "range" /\ hdAt'.section = "global" THEN line.range ELSE hdOut.limit,
         hdOut'.force <=> IF line.word \in {"forceOn", "forceOff"} /\ hdAt'.section = "global"
                          THEN line.word = "forceOn" ELSE hdOut.force,
         hdOut'.defaultRange = IF line.word = "range" /\ hdAt'.section = "defaults" THEN line.range
                               ELSE hdOut.defaultRange,
         RacesInv', ZonesInv'
  PROVE  HubInv'
<1>1. /\ hdLines \in Seq(Lines) /\ hdLines' = Append(hdLines, line)
      /\ hdLines' \in Seq(Lines) /\ Len(hdLines') <= HdMaxLines
      /\ KeysInv(hdLines, hdAt.section, hdOut)
  BY LineRead
<1>2. HdTypeOK'
  BY <1>1 DEF HdTypeOK
<1>3. hdAt'.section # "end"
  <2>1. SectionOf(hdLines', Len(hdLines) + 1) \in Sections \cup {"none"}
    BY LineRead DEF Sections
  <2> QED BY <2>1 DEF Sections
<1>4. KeysInv(hdLines', hdAt'.section, hdOut')
  BY <1>1, KeysMore
<1> QED BY <1>2, <1>3, <1>4 DEF HubInv, ReadAsWritten

LEMMA ListHasCount ==
  ASSUME HdAssumption, NEW t \in Seq(Lines), NEW word, NEW sec, NEW d, NEW list \in Seq(Metres),
         NEW current, NEW here, EntryInv(t, word, sec, d, list, current, here)
  PROVE  Len(list) = CountOf(t, word, sec)
<1> DEFINE m == CountOf(t, word, sec)
<1>1. m \in Nat
  BY CountsUp
<1>2. list = [k \in 1..m |-> list[k]]
  BY DEF EntryInv, IsListOf
<1> HIDE DEF m
<1>3. DOMAIN list = 1..m
  <2>1. DOMAIN [k \in 1..m |-> list[k]] = 1..m
    OBVIOUS
  <2> QED BY <1>2, <2>1, Zenon
<1>4. DOMAIN list = 1..Len(list) /\ Len(list) \in Nat
  OBVIOUS
<1>5. Len(list) = m
  BY <1>1, <1>3, <1>4
<1> QED BY <1>5 DEF m

LEMMA HeaderIsRead ==
  ASSUME HdAssumption, HubInv, NEW line \in Lines, HeaderLine(line)
  PROVE  HubInv'
<1> DEFINE section == SectionOfHeader(line.word)
<1>0. Read(line)
  BY DEF HeaderLine
<1>1. /\ HdTypeOK /\ KeysInv(hdLines, hdAt.section, hdOut) /\ RacesInv /\ ZonesInv
      /\ hdLines' = Append(hdLines, line)
      /\ SectionOf(hdLines', Len(hdLines) + 1)
           = IF line.word \in Sections THEN line.word
             ELSE IF line.word = "beginZone" /\ hdAt.section # "zones" THEN "other"
             ELSE hdAt.section
  BY <1>0, LineRead
<1>2. section \in Sections /\ SectionOf(hdLines', Len(hdLines) + 1) = section
      /\ (line.word = "global" <=> section = "global")
      /\ line.word \notin {"range", "beginRace", "forceOn", "forceOff"}
  BY <1>1 DEF HeaderLine, SectionOfHeader, Sections
<1>3. /\ hdAt' = [section |-> section,
                  race |-> IF section \in {"race", "other"} THEN 0 ELSE hdAt.race,
                  zone |-> IF section \in {"zones", "other"} THEN 0 ELSE hdAt.zone]
      /\ hdOut' = [hdOut EXCEPT !.valid = @ \/ section = "global"]
  BY DEF HeaderLine
<1> HIDE DEF section
<1>4. /\ hdAt \in [section : Sections \cup {"none", "end"}, race : Nat, zone : Nat]
      /\ hdOut \in HubSettings /\ Len(hdOut.races) \in Nat /\ Len(hdOut.zones) \in Nat
      /\ Len(hdOut.races) <= HdMaxEntries /\ hdAt.race <= Len(hdOut.races)
      /\ Len(hdOut.zones) <= HdMaxEntries /\ hdAt.zone <= Len(hdOut.zones)
  BY <1>1 DEF HdTypeOK, HubSettings
<1>5. /\ hdOut' \in HubSettings /\ hdOut'.races = hdOut.races /\ hdOut'.zones = hdOut.zones
      /\ hdOut'.limit = hdOut.limit /\ hdOut'.force = hdOut.force
      /\ hdOut'.defaultRange = hdOut.defaultRange
      /\ (hdOut'.valid <=> hdOut.valid \/ section = "global")
  BY <1>3, <1>4 DEF HubSettings
<1>6. hdAt'.section = section /\ hdAt' \in [section : Sections \cup {"none", "end"}, race : Nat, zone : Nat]
  BY <1>2, <1>3, <1>4
<1>7. hdAt'.race <= Len(hdOut'.races) /\ hdAt'.zone <= Len(hdOut'.zones)
  BY <1>3, <1>4, <1>5
<1>8. RacesInv'
  <2>1. hdAt'.section = "race" => line.word \in Stops("beginRace") /\ hdAt'.race = 0
    BY <1>2, <1>3, <1>6 DEF HeaderLine, SectionOfHeader, Stops
  <2> QED BY <1>1, <1>2, <1>5, <1>6, <2>1, RacesKeep
<1>9. ZonesInv'
  <2>1. hdAt'.section = "zones" => line.word \in Stops("beginZone") /\ hdAt'.zone = 0
    BY <1>2, <1>3, <1>6 DEF HeaderLine, SectionOfHeader, Stops
  <2>2. ~(line.word \in {"beginZone", "range"} /\ hdAt'.section = "zones")
    BY <1>2, <1>6 DEF section, SectionOfHeader
  <2> QED BY <1>1, <1>2, <1>5, <1>6, <2>1, <2>2, ZonesKeep
<1> QED BY <1>0, <1>2, <1>4, <1>5, <1>6, <1>7, <1>8, <1>9, AllKept

LEMMA GlobalIsRead ==
  ASSUME HdAssumption, HubInv, NEW line \in Lines, GlobalLine(line)
  PROVE  HubInv'
<1>0. Read(line)
  BY DEF GlobalLine
<1>1. /\ HdTypeOK /\ KeysInv(hdLines, hdAt.section, hdOut) /\ RacesInv /\ ZonesInv
      /\ hdLines \in Seq(Lines) /\ hdLines' = Append(hdLines, line) /\ line.range \in Metres
      /\ SectionOf(hdLines', Len(hdLines) + 1)
           = IF line.word \in Sections THEN line.word
             ELSE IF line.word = "beginZone" /\ hdAt.section # "zones" THEN "other"
             ELSE hdAt.section
  BY <1>0, LineRead
<1>4. /\ hdAt \in [section : Sections \cup {"none", "end"}, race : Nat, zone : Nat]
      /\ hdOut \in HubSettings /\ hdOut.races \in Seq(Metres) /\ hdOut.zones \in Seq(Metres)
      /\ Len(hdOut.races) \in Nat /\ Len(hdOut.zones) \in Nat
      /\ Len(hdOut.races) <= HdMaxEntries /\ hdAt.race <= Len(hdOut.races)
      /\ Len(hdOut.zones) <= HdMaxEntries /\ hdAt.zone <= Len(hdOut.zones)
  BY <1>1 DEF HdTypeOK, HubSettings
<1>2. /\ hdAt.section = "global" /\ hdAt' = hdAt /\ line.word \in {"range", "forceOn", "forceOff"}
      /\ SectionOf(hdLines', Len(hdLines) + 1) = hdAt'.section
  BY <1>1 DEF GlobalLine, Sections
<1>3. /\ hdOut' \in HubSettings /\ hdOut'.races = hdOut.races /\ hdOut'.zones = hdOut.zones
      /\ hdOut'.limit = IF line.word = "range" THEN line.range ELSE hdOut.limit
      /\ hdOut'.force = IF line.word = "range" THEN hdOut.force ELSE line.word = "forceOn"
      /\ hdOut'.defaultRange = hdOut.defaultRange /\ hdOut'.valid = hdOut.valid
  <2>1. CASE line.word = "range" /\ hdOut' = [hdOut EXCEPT !.limit = line.range]
    BY <1>1, <1>4, <2>1 DEF HubSettings
  <2>2. CASE line.word = "forceOn" /\ hdOut' = [hdOut EXCEPT !.force = TRUE]
    BY <1>4, <2>2 DEF HubSettings
  <2>3. CASE line.word = "forceOff" /\ hdOut' = [hdOut EXCEPT !.force = FALSE]
    BY <1>4, <2>3 DEF HubSettings
  <2> QED BY <2>1, <2>2, <2>3 DEF GlobalLine
<1>5. RacesInv'
  BY <1>1, <1>2, <1>3, RacesKeep
<1>6. ZonesInv'
  BY <1>1, <1>2, <1>3, ZonesKeep
<1> QED BY <1>0, <1>2, <1>3, <1>4, <1>5, <1>6, AllKept

LEMMA DefaultsAreRead ==
  ASSUME HdAssumption, HubInv, NEW line \in Lines, DefaultsLine(line)
  PROVE  HubInv'
<1>0. Read(line)
  BY DEF DefaultsLine
<1>1. /\ HdTypeOK /\ KeysInv(hdLines, hdAt.section, hdOut) /\ RacesInv /\ ZonesInv
      /\ hdLines \in Seq(Lines) /\ hdLines' = Append(hdLines, line) /\ line.range \in Metres
      /\ SectionOf(hdLines', Len(hdLines) + 1)
           = IF line.word \in Sections THEN line.word
             ELSE IF line.word = "beginZone" /\ hdAt.section # "zones" THEN "other"
             ELSE hdAt.section
  BY <1>0, LineRead
<1>4. /\ hdAt \in [section : Sections \cup {"none", "end"}, race : Nat, zone : Nat]
      /\ hdOut \in HubSettings /\ hdOut.races \in Seq(Metres) /\ hdOut.zones \in Seq(Metres)
      /\ Len(hdOut.races) \in Nat /\ Len(hdOut.zones) \in Nat
      /\ Len(hdOut.races) <= HdMaxEntries /\ hdAt.race <= Len(hdOut.races)
      /\ Len(hdOut.zones) <= HdMaxEntries /\ hdAt.zone <= Len(hdOut.zones)
  BY <1>1 DEF HdTypeOK, HubSettings
<1>2. /\ hdAt.section = "defaults" /\ hdAt' = hdAt /\ line.word = "range"
      /\ SectionOf(hdLines', Len(hdLines) + 1) = hdAt'.section
  BY <1>1 DEF DefaultsLine, Sections
<1>3. /\ hdOut' \in HubSettings /\ hdOut'.races = hdOut.races /\ hdOut'.zones = hdOut.zones
      /\ hdOut'.limit = hdOut.limit /\ hdOut'.force = hdOut.force
      /\ hdOut'.defaultRange = line.range /\ hdOut'.valid = hdOut.valid
  BY <1>1, <1>4 DEF DefaultsLine, HubSettings
<1>5. RacesInv'
  BY <1>1, <1>2, <1>3, RacesKeep
<1>6. ZonesInv'
  BY <1>1, <1>2, <1>3, ZonesKeep
<1> QED BY <1>0, <1>2, <1>3, <1>4, <1>5, <1>6, AllKept

LEMMA OtherIsRead ==
  ASSUME HdAssumption, HubInv, NEW line \in Lines, OtherLine(line)
  PROVE  HubInv'
<1>0. Read(line)
  BY DEF OtherLine
<1>1. /\ HdTypeOK /\ KeysInv(hdLines, hdAt.section, hdOut) /\ RacesInv /\ ZonesInv
      /\ hdLines \in Seq(Lines) /\ hdLines' = Append(hdLines, line) /\ line.range \in Metres
      /\ SectionOf(hdLines', Len(hdLines) + 1)
           = IF line.word \in Sections THEN line.word
             ELSE IF line.word = "beginZone" /\ hdAt.section # "zones" THEN "other"
             ELSE hdAt.section
  BY <1>0, LineRead
<1>4. /\ hdAt \in [section : Sections \cup {"none", "end"}, race : Nat, zone : Nat]
      /\ hdOut \in HubSettings /\ hdOut.races \in Seq(Metres) /\ hdOut.zones \in Seq(Metres)
      /\ Len(hdOut.races) \in Nat /\ Len(hdOut.zones) \in Nat
      /\ Len(hdOut.races) <= HdMaxEntries /\ hdAt.race <= Len(hdOut.races)
      /\ Len(hdOut.zones) <= HdMaxEntries /\ hdAt.zone <= Len(hdOut.zones)
  BY <1>1 DEF HdTypeOK, HubSettings
<1>2. hdAt' = hdAt /\ hdOut' = hdOut /\ SectionOf(hdLines', Len(hdLines) + 1) = hdAt'.section
  BY <1>1 DEF OtherLine
<1>3. line.word # "global" /\ line.word \notin Sections
  BY DEF OtherLine, Sections
<1>7. hdAt.section = "global" => line.word = "beginRace"
  BY DEF OtherLine
<1>8. hdAt.section = "race" => line.word \in {"forceOn", "forceOff"}
  BY DEF OtherLine
<1>9. hdAt.section = "zones" => line.word \in {"forceOn", "forceOff", "beginRace"}
  BY DEF OtherLine
<1>10. hdAt.section = "defaults" => line.word \in {"forceOn", "forceOff", "beginRace"}
  BY DEF OtherLine
<1>5. RacesInv'
  <2>1. hdAt.section = "race" => line.word \notin Stops("beginRace") /\ line.word \notin {"beginRace", "range"}
    BY <1>3, <1>8 DEF Stops
  <2> QED BY <1>1, <1>2, <2>1, RacesKeep
<1>6. ZonesInv'
  <2>1. hdAt.section = "zones" => line.word \notin Stops("beginZone") /\ line.word \notin {"beginZone", "range"}
    BY <1>3, <1>9 DEF Stops
  <2> QED BY <1>1, <1>2, <2>1, ZonesKeep
<1> QED BY <1>0, <1>2, <1>3, <1>4, <1>5, <1>6, <1>7, <1>10, AllKept

LEMMA RaceIsRead ==
  ASSUME HdAssumption, HubInv, NEW line \in Lines, RaceLine(line)
  PROVE  HubInv'
<1>0. Read(line)
  BY DEF RaceLine
<1>1. /\ HdTypeOK /\ KeysInv(hdLines, hdAt.section, hdOut) /\ RacesInv /\ ZonesInv
      /\ hdLines \in Seq(Lines) /\ hdLines' = Append(hdLines, line) /\ line.range \in Metres
      /\ SectionOf(hdLines', Len(hdLines) + 1)
           = IF line.word \in Sections THEN line.word
             ELSE IF line.word = "beginZone" /\ hdAt.section # "zones" THEN "other"
             ELSE hdAt.section
  BY <1>0, LineRead
<1>4. /\ hdAt \in [section : Sections \cup {"none", "end"}, race : Nat, zone : Nat]
      /\ hdOut \in HubSettings /\ hdOut.races \in Seq(Metres) /\ hdOut.zones \in Seq(Metres)
      /\ Len(hdOut.races) \in Nat /\ Len(hdOut.zones) \in Nat
      /\ Len(hdOut.races) <= HdMaxEntries /\ hdAt.race <= Len(hdOut.races)
      /\ Len(hdOut.zones) <= HdMaxEntries /\ hdAt.zone <= Len(hdOut.zones)
  BY <1>1 DEF HdTypeOK, HubSettings
<1>2. /\ hdAt.section = "race" /\ hdAt' = hdAt /\ line.word = "range"
      /\ SectionOf(hdLines', Len(hdLines) + 1) = hdAt'.section
  BY <1>1 DEF RaceLine, Sections
<1> DEFINE more == IF hdAt.race = 0 THEN hdOut.races ELSE [hdOut.races EXCEPT ![hdAt.race] = line.range]
<1>3. /\ hdOut' \in HubSettings /\ hdOut'.races = more /\ hdOut'.zones = hdOut.zones
      /\ hdOut'.limit = hdOut.limit /\ hdOut'.force = hdOut.force
      /\ hdOut'.defaultRange = hdOut.defaultRange /\ hdOut'.valid = hdOut.valid
      /\ Len(more) = Len(hdOut.races)
  <2>1. CASE hdAt.race = 0
    BY <1>4, <2>1 DEF RaceLine
  <2>2. CASE hdAt.race # 0
    <3>1. hdOut' = [hdOut EXCEPT !.races[hdAt.race] = line.range]
      BY <2>2 DEF RaceLine
    <3>2. more = [hdOut.races EXCEPT ![hdAt.race] = line.range]
      BY <2>2
    <3>3. more \in Seq(Metres) /\ Len(more) = Len(hdOut.races)
      BY <1>1, <1>4, <3>2
    <3> HIDE DEF more
    <3> QED BY <1>4, <3>1, <3>2, <3>3 DEF HubSettings
  <2> QED BY <2>1, <2>2
<1>5. RacesInv'
  <2> DEFINE d == Inherited(hdLines)
             e == Inherited(hdLines')
  <2>1. \A i \in 1..Len(hdLines) : e[i] = d[i]
    BY <1>1, InheritedStays
  <2> HIDE DEF d, e
  <2>2. EntryInv(hdLines, "beginRace", "race", d, hdOut.races, hdAt.race, "race")
    BY <1>1, <1>2 DEF RacesInv, d
  <2>3. hdAt.race \in 0..CountOf(hdLines, "beginRace", "race")
    BY <1>1, <1>4, <2>2, ListHasCount
  <2> HIDE DEF more
  <2>4. more = IF hdAt.race = 0 THEN hdOut.races ELSE [hdOut.races EXCEPT ![hdAt.race] = line.range]
    BY DEF more
  <2>5. EntryInv(Append(hdLines, line), "beginRace", "race", e, more, hdAt.race, "race")
    BY <1>1, <1>2, <2>1, <2>2, <2>3, <2>4, EntryGetsRange
  <2> QED BY <1>1, <1>2, <1>3, <2>5 DEF RacesInv, e
<1>6. ZonesInv'
  BY <1>1, <1>2, <1>3, ZonesKeep
<1> HIDE DEF more
<1> QED BY <1>0, <1>2, <1>3, <1>4, <1>5, <1>6, AllKept

LEMMA ZoneIsRead ==
  ASSUME HdAssumption, HubInv, NEW line \in Lines, ZoneLine(line)
  PROVE  HubInv'
<1>0. Read(line)
  BY DEF ZoneLine
<1>1. /\ HdTypeOK /\ KeysInv(hdLines, hdAt.section, hdOut) /\ RacesInv /\ ZonesInv
      /\ hdLines \in Seq(Lines) /\ hdLines' = Append(hdLines, line) /\ line.range \in Metres
      /\ SectionOf(hdLines', Len(hdLines) + 1)
           = IF line.word \in Sections THEN line.word
             ELSE IF line.word = "beginZone" /\ hdAt.section # "zones" THEN "other"
             ELSE hdAt.section
  BY <1>0, LineRead
<1>4. /\ hdAt \in [section : Sections \cup {"none", "end"}, race : Nat, zone : Nat]
      /\ hdOut \in HubSettings /\ hdOut.races \in Seq(Metres) /\ hdOut.zones \in Seq(Metres)
      /\ Len(hdOut.races) \in Nat /\ Len(hdOut.zones) \in Nat
      /\ Len(hdOut.races) <= HdMaxEntries /\ hdAt.race <= Len(hdOut.races)
      /\ Len(hdOut.zones) <= HdMaxEntries /\ hdAt.zone <= Len(hdOut.zones)
  BY <1>1 DEF HdTypeOK, HubSettings
<1>2. /\ hdAt.section = "zones" /\ hdAt' = hdAt /\ line.word = "range"
      /\ SectionOf(hdLines', Len(hdLines) + 1) = hdAt'.section
  BY <1>1 DEF ZoneLine, Sections
<1> DEFINE more == IF hdAt.zone = 0 THEN hdOut.zones ELSE [hdOut.zones EXCEPT ![hdAt.zone] = line.range]
<1>3. /\ hdOut' \in HubSettings /\ hdOut'.zones = more /\ hdOut'.races = hdOut.races
      /\ hdOut'.limit = hdOut.limit /\ hdOut'.force = hdOut.force
      /\ hdOut'.defaultRange = hdOut.defaultRange /\ hdOut'.valid = hdOut.valid
      /\ Len(more) = Len(hdOut.zones)
  <2>1. CASE hdAt.zone = 0
    BY <1>4, <2>1 DEF ZoneLine
  <2>2. CASE hdAt.zone # 0
    <3>1. hdOut' = [hdOut EXCEPT !.zones[hdAt.zone] = line.range]
      BY <2>2 DEF ZoneLine
    <3>2. more = [hdOut.zones EXCEPT ![hdAt.zone] = line.range]
      BY <2>2
    <3>3. more \in Seq(Metres) /\ Len(more) = Len(hdOut.zones)
      BY <1>1, <1>4, <3>2
    <3> HIDE DEF more
    <3> QED BY <1>4, <3>1, <3>2, <3>3 DEF HubSettings
  <2> QED BY <2>1, <2>2
<1>5. RacesInv'
  BY <1>1, <1>2, <1>3, RacesKeep
<1>6. ZonesInv'
  <2> DEFINE d == NoRange(hdLines)
             e == NoRange(hdLines')
  <2>1. \A i \in 1..Len(hdLines) : e[i] = d[i]
    BY <1>1, InheritedStays
  <2> HIDE DEF d, e
  <2>2. EntryInv(hdLines, "beginZone", "zones", d, hdOut.zones, hdAt.zone, "zones")
    BY <1>1, <1>2 DEF ZonesInv, d
  <2>3. hdAt.zone \in 0..CountOf(hdLines, "beginZone", "zones")
    BY <1>1, <1>4, <2>2, ListHasCount
  <2> HIDE DEF more
  <2>4. more = IF hdAt.zone = 0 THEN hdOut.zones ELSE [hdOut.zones EXCEPT ![hdAt.zone] = line.range]
    BY DEF more
  <2>5. EntryInv(Append(hdLines, line), "beginZone", "zones", e, more, hdAt.zone, "zones")
    BY <1>1, <1>2, <2>1, <2>2, <2>3, <2>4, EntryGetsRange
  <2> QED BY <1>1, <1>2, <1>3, <2>5 DEF ZonesInv, e
<1> HIDE DEF more
<1> QED BY <1>0, <1>2, <1>3, <1>4, <1>5, <1>6, AllKept

LEMMA BegunIs ==
  ASSUME HdAssumption, NEW list \in Seq(Metres), Len(list) <= HdMaxEntries, NEW current,
         NEW value \in Metres
  PROVE  LET begun == Begun(list, current, value)
         IN /\ begun[1] \in Seq(Metres) /\ Len(begun[1]) <= HdMaxEntries
            /\ begun[2] \in Nat /\ begun[2] <= Len(begun[1])
<1>1. HdMaxEntries \in Nat /\ Len(list) \in Nat
  BY DEF HdAssumption
<1>2. CASE Len(list) >= HdMaxEntries
  BY <1>1, <1>2 DEF Begun
<1>3. CASE ~(Len(list) >= HdMaxEntries)
  <2> DEFINE more == Append(list, value)
  <2>1. more \in Seq(Metres) /\ Len(more) = Len(list) + 1
    OBVIOUS
  <2>2. Begun(list, current, value) = <<more, Len(list) + 1>>
    BY <1>3 DEF Begun
  <2> HIDE DEF more
  <2> QED BY <1>1, <1>3, <2>1, <2>2
<1> QED BY <1>2, <1>3

LEMMA RaceIsBegun ==
  ASSUME HdAssumption, HubInv, NEW line \in Lines, RaceBegins(line)
  PROVE  HubInv'
<1>0. Read(line)
  BY DEF RaceBegins
<1>1. /\ HdTypeOK /\ KeysInv(hdLines, hdAt.section, hdOut) /\ RacesInv /\ ZonesInv
      /\ hdLines \in Seq(Lines) /\ hdLines' = Append(hdLines, line) /\ line.range \in Metres
      /\ SectionOf(hdLines', Len(hdLines) + 1)
           = IF line.word \in Sections THEN line.word
             ELSE IF line.word = "beginZone" /\ hdAt.section # "zones" THEN "other"
             ELSE hdAt.section
  BY <1>0, LineRead
<1>4. /\ hdAt \in [section : Sections \cup {"none", "end"}, race : Nat, zone : Nat]
      /\ hdOut \in HubSettings /\ hdOut.races \in Seq(Metres) /\ hdOut.zones \in Seq(Metres)
      /\ Len(hdOut.races) \in Nat /\ Len(hdOut.zones) \in Nat
      /\ Len(hdOut.races) <= HdMaxEntries /\ hdAt.race <= Len(hdOut.races)
      /\ Len(hdOut.zones) <= HdMaxEntries /\ hdAt.zone <= Len(hdOut.zones)
  BY <1>1 DEF HdTypeOK, HubSettings
<1>2. /\ hdAt.section = "race" /\ line.word = "beginRace"
      /\ SectionOf(hdLines', Len(hdLines) + 1) = "race"
  BY <1>1 DEF RaceBegins, Sections
<1> DEFINE begun == Begun(hdOut.races, hdAt.race, hdOut.limit)
<1>3. hdOut.limit \in Metres /\ hdOut.valid \in BOOLEAN /\ hdOut.force \in BOOLEAN /\ hdOut.defaultRange \in Metres
  BY <1>4 DEF HubSettings
<1>7. /\ begun[1] \in Seq(Metres) /\ Len(begun[1]) <= HdMaxEntries
      /\ begun[2] \in Nat /\ begun[2] <= Len(begun[1])
  BY <1>3, <1>4, BegunIs
<1>8. hdOut' = [hdOut EXCEPT !.races = begun[1]] /\ hdAt' = [hdAt EXCEPT !.race = begun[2]]
  BY DEF RaceBegins
<1> HIDE DEF begun
<1>9. /\ hdOut' \in HubSettings /\ hdOut'.races = begun[1] /\ hdOut'.zones = hdOut.zones
      /\ hdOut'.limit = hdOut.limit /\ hdOut'.force = hdOut.force
      /\ hdOut'.defaultRange = hdOut.defaultRange /\ hdOut'.valid = hdOut.valid
  BY <1>4, <1>7, <1>8 DEF HubSettings
<1>10. /\ hdAt'.section = "race" /\ hdAt'.race = begun[2] /\ hdAt'.zone = hdAt.zone
       /\ hdAt' \in [section : Sections \cup {"none", "end"}, race : Nat, zone : Nat]
  BY <1>2, <1>4, <1>7, <1>8
<1>5. RacesInv'
  <2> DEFINE d == Inherited(hdLines)
             e == Inherited(hdLines')
  <2>1. /\ \A i \in 1..Len(hdLines) : e[i] = d[i]
        /\ e[Len(hdLines) + 1] = LimitBefore(hdLines', Len(hdLines) + 1)
    BY <1>1, InheritedStays
  <2>2. LimitBefore(hdLines', Len(hdLines) + 1) = hdOut.limit
    BY <1>1, <1>2, LimitsStay DEF KeysInv
  <2> HIDE DEF d, e
  <2>3. EntryInv(hdLines, "beginRace", "race", d, hdOut.races, hdAt.race, hdAt.section)
    BY <1>1 DEF RacesInv, d
  <2>4. begun = Begun(hdOut.races, hdAt.race, e[Len(hdLines) + 1])
    BY <2>1, <2>2 DEF begun
  <2>5. EntryInv(Append(hdLines, line), "beginRace", "race", e, begun[1], begun[2], "race")
    BY <1>1, <1>2, <1>3, <1>4, <2>1, <2>2, <2>3, <2>4, EntryBegins
  <2> QED BY <1>1, <1>9, <1>10, <2>5 DEF RacesInv, e
<1>6. ZonesInv'
  BY <1>1, <1>2, <1>9, <1>10, ZonesKeep
<1> QED BY <1>0, <1>2, <1>4, <1>5, <1>6, <1>7, <1>9, <1>10, AllKept

LEMMA ZoneIsBegun ==
  ASSUME HdAssumption, HubInv, NEW line \in Lines, ZoneBegins(line)
  PROVE  HubInv'
<1>0. Read(line)
  BY DEF ZoneBegins
<1>1. /\ HdTypeOK /\ KeysInv(hdLines, hdAt.section, hdOut) /\ RacesInv /\ ZonesInv
      /\ hdLines \in Seq(Lines) /\ hdLines' = Append(hdLines, line) /\ line.range \in Metres
      /\ SectionOf(hdLines', Len(hdLines) + 1)
           = IF line.word \in Sections THEN line.word
             ELSE IF line.word = "beginZone" /\ hdAt.section # "zones" THEN "other"
             ELSE hdAt.section
  BY <1>0, LineRead
<1>4. /\ hdAt \in [section : Sections \cup {"none", "end"}, race : Nat, zone : Nat]
      /\ hdOut \in HubSettings /\ hdOut.races \in Seq(Metres) /\ hdOut.zones \in Seq(Metres)
      /\ Len(hdOut.races) \in Nat /\ Len(hdOut.zones) \in Nat
      /\ Len(hdOut.races) <= HdMaxEntries /\ hdAt.race <= Len(hdOut.races)
      /\ Len(hdOut.zones) <= HdMaxEntries /\ hdAt.zone <= Len(hdOut.zones)
  BY <1>1 DEF HdTypeOK, HubSettings
<1>2. /\ hdAt.section = "zones" /\ line.word = "beginZone"
      /\ SectionOf(hdLines', Len(hdLines) + 1) = "zones"
  BY <1>1 DEF ZoneBegins, Sections
<1> DEFINE begun == Begun(hdOut.zones, hdAt.zone, 0)
<1>3. /\ hdOut.limit \in Metres /\ hdOut.valid \in BOOLEAN /\ hdOut.force \in BOOLEAN
      /\ hdOut.defaultRange \in Metres /\ 0 \in Metres
  BY <1>4 DEF HubSettings, Metres, HdAssumption
<1>7. /\ begun[1] \in Seq(Metres) /\ Len(begun[1]) <= HdMaxEntries
      /\ begun[2] \in Nat /\ begun[2] <= Len(begun[1])
  BY <1>3, <1>4, BegunIs
<1>8. hdOut' = [hdOut EXCEPT !.zones = begun[1]] /\ hdAt' = [hdAt EXCEPT !.zone = begun[2]]
  BY DEF ZoneBegins
<1> HIDE DEF begun
<1>9. /\ hdOut' \in HubSettings /\ hdOut'.zones = begun[1] /\ hdOut'.races = hdOut.races
      /\ hdOut'.limit = hdOut.limit /\ hdOut'.force = hdOut.force
      /\ hdOut'.defaultRange = hdOut.defaultRange /\ hdOut'.valid = hdOut.valid
  BY <1>4, <1>7, <1>8 DEF HubSettings
<1>10. /\ hdAt'.section = "zones" /\ hdAt'.zone = begun[2] /\ hdAt'.race = hdAt.race
       /\ hdAt' \in [section : Sections \cup {"none", "end"}, race : Nat, zone : Nat]
  BY <1>2, <1>4, <1>7, <1>8
<1>5. RacesInv'
  BY <1>1, <1>2, <1>9, <1>10, RacesKeep
<1>6. ZonesInv'
  <2> DEFINE d == NoRange(hdLines)
             e == NoRange(hdLines')
  <2>1. (\A i \in 1..Len(hdLines) : e[i] = d[i]) /\ e[Len(hdLines) + 1] = 0
    BY <1>1, InheritedStays
  <2> HIDE DEF d, e
  <2>3. EntryInv(hdLines, "beginZone", "zones", d, hdOut.zones, hdAt.zone, hdAt.section)
    BY <1>1 DEF ZonesInv, d
  <2>4. begun = Begun(hdOut.zones, hdAt.zone, e[Len(hdLines) + 1])
    BY <2>1 DEF begun
  <2>5. EntryInv(Append(hdLines, line), "beginZone", "zones", e, begun[1], begun[2], "zones")
    BY <1>1, <1>2, <1>3, <1>4, <2>1, <2>3, <2>4, EntryBegins
  <2> QED BY <1>1, <1>9, <1>10, <2>5 DEF ZonesInv, e
<1> QED BY <1>0, <1>2, <1>4, <1>5, <1>6, <1>7, <1>9, <1>10, AllKept

\* At the end the parser holds what the text says before the unit is settled.
LEMMA PlainIsRead ==
  ASSUME HdAssumption, HubInv, hdAt.section # "end"
  PROVE  hdOut = Plain(hdLines)
<1>1. /\ HdTypeOK /\ KeysInv(hdLines, hdAt.section, hdOut) /\ RacesInv /\ ZonesInv
      /\ hdLines \in Seq(Lines) /\ hdOut \in HubSettings
  BY DEF HubInv, HdTypeOK
<1>2. hdOut.races = Entries(hdLines, "beginRace", "race", Inherited(hdLines))
  BY <1>1, EntriesAre DEF RacesInv, EntryInv
<1>3. hdOut.zones = Entries(hdLines, "beginZone", "zones", NoRange(hdLines))
  BY <1>1, EntriesAre DEF ZonesInv, EntryInv
<1>4. /\ hdOut.valid <=> \E i \in DOMAIN hdLines : hdLines[i].word = "global"
      /\ hdOut.limit = LimitBefore(hdLines, Len(hdLines))
      /\ hdOut.force <=> Forced(hdLines)
      /\ hdOut.defaultRange = RangeIn(hdLines, "defaults", 1, Len(hdLines), 0)
  BY <1>1 DEF KeysInv
<1>5. hdOut.valid \in BOOLEAN /\ hdOut.force \in BOOLEAN /\ Forced(hdLines) \in BOOLEAN
  BY <1>1 DEF HubSettings, Forced
<1>6. hdOut = [valid |-> hdOut.valid, limit |-> hdOut.limit, force |-> hdOut.force,
               races |-> hdOut.races, zones |-> hdOut.zones, defaultRange |-> hdOut.defaultRange]
  BY <1>1 DEF HubSettings
<1>7. hdOut.force = Forced(hdLines)
  BY <1>4, <1>5
<1>8. hdOut.valid = \E i \in DOMAIN hdLines : hdLines[i].word = "global"
  BY <1>4, <1>5
<1>9. Plain(hdLines) = [valid |-> \E i \in DOMAIN hdLines : hdLines[i].word = "global",
                        limit |-> LimitBefore(hdLines, Len(hdLines)), force |-> Forced(hdLines),
                        races |-> Entries(hdLines, "beginRace", "race", Inherited(hdLines)),
                        zones |-> Entries(hdLines, "beginZone", "zones", NoRange(hdLines)),
                        defaultRange |-> RangeIn(hdLines, "defaults", 1, Len(hdLines), 0)]
  BY DEF Plain, Inherited, NoRange
<1> QED BY <1>2, <1>3, <1>4, <1>6, <1>7, <1>8, <1>9, Zenon

LEMMA EndIsRead == ASSUME HdAssumption, HubInv, HdEnd  PROVE HubInv'
<1>1. /\ hdAt.section # "end" /\ hdAt' = [section |-> "end", race |-> 0, zone |-> 0]
      /\ hdOut' = (IF hdOut.force THEN Converted(hdOut) ELSE hdOut) /\ hdLines' = hdLines
  BY DEF HdEnd
<1>2. hdOut = Plain(hdLines) /\ HdTypeOK /\ hdOut \in HubSettings
  BY <1>1, PlainIsRead DEF HubInv, HdTypeOK
<1>3. hdOut.force = Forced(hdLines)
  BY <1>2 DEF Plain
<1>4. HdDistMax \in Nat /\ HdMaxEntries \in Nat
  BY DEF HdAssumption
<1>5. \A r \in Metres : InMetres(r) \in Metres
  BY <1>4 DEF InMetres, Metres
<1>6. ASSUME NEW s \in Seq(Metres)
      PROVE  /\ [i \in DOMAIN s |-> InMetres(s[i])] \in Seq(Metres)
             /\ Len([i \in DOMAIN s |-> InMetres(s[i])]) = Len(s)
             /\ [i \in DOMAIN s |-> s[i]] = s
  <2>1. DOMAIN s = 1..Len(s) /\ Len(s) \in Nat
    OBVIOUS
  <2>2. \A i \in 1..Len(s) : s[i] \in Metres
    OBVIOUS
  <2>3. \A i \in 1..Len(s) : InMetres(s[i]) \in Metres
    BY <1>5, <2>2
  <2> DEFINE q == [i \in 1..Len(s) |-> InMetres(s[i])]
  <2>4. q \in Seq(Metres) /\ Len(q) = Len(s)
    BY <2>1, <2>3
  <2>5. s = [i \in DOMAIN s |-> s[i]]
    OBVIOUS
  <2> QED BY <2>1, <2>4, <2>5
<1>7. /\ hdOut.races \in Seq(Metres) /\ hdOut.zones \in Seq(Metres) /\ hdOut.limit \in Metres
      /\ hdOut.defaultRange \in Metres
      /\ Len(hdOut.races) \in Nat /\ Len(hdOut.zones) \in Nat
      /\ Len(hdOut.races) <= HdMaxEntries /\ Len(hdOut.zones) <= HdMaxEntries
  BY <1>2 DEF HdTypeOK, HubSettings
<1>8. CASE hdOut.force
  <2> DEFINE races == [i \in DOMAIN hdOut.races |-> InMetres(hdOut.races[i])]
             zones == [i \in DOMAIN hdOut.zones |-> InMetres(hdOut.zones[i])]
  <2>1. hdOut' = [hdOut EXCEPT !.limit = InMetres(@), !.defaultRange = InMetres(@),
                               !.races = races, !.zones = zones]
    BY <1>1, <1>2, <1>8 DEF Converted, HubSettings
  <2>2. hdOut' = Meaning(hdLines)
    BY <1>2, <1>3, <1>8, <2>1 DEF Meaning, HubSettings
  <2>3. /\ races \in Seq(Metres) /\ zones \in Seq(Metres)
        /\ Len(races) = Len(hdOut.races) /\ Len(zones) = Len(hdOut.zones)
    BY <1>6, <1>7
  <2> HIDE DEF races, zones
  <2>4. hdOut' \in HubSettings /\ hdOut'.races = races /\ hdOut'.zones = zones
    BY <1>2, <1>5, <1>7, <2>1, <2>3 DEF HubSettings
  <2>5. HdTypeOK'
    BY <1>1, <1>2, <1>7, <2>3, <2>4 DEF HdTypeOK
  <2> QED BY <1>1, <2>2, <2>5 DEF HubInv, ReadAsWritten
<1>9. CASE ~hdOut.force
  <2>1. hdOut' = hdOut
    BY <1>1, <1>9
  <2>2. hdOut = Meaning(hdLines)
    <3>1. /\ [n \in DOMAIN hdOut.races |-> hdOut.races[n]] = hdOut.races
          /\ [n \in DOMAIN hdOut.zones |-> hdOut.zones[n]] = hdOut.zones
      BY <1>6, <1>7
    <3>2. ~Forced(hdLines)
      BY <1>3, <1>9
    <3>3. Meaning(hdLines) = [hdOut EXCEPT !.limit = hdOut.limit, !.defaultRange = hdOut.defaultRange,
                                !.races = [n \in DOMAIN hdOut.races |-> hdOut.races[n]],
                                !.zones = [n \in DOMAIN hdOut.zones |-> hdOut.zones[n]]]
      BY <1>2, <3>2 DEF Meaning, HubSettings
    <3>4. hdOut = [hdOut EXCEPT !.limit = hdOut.limit, !.defaultRange = hdOut.defaultRange,
                                !.races = hdOut.races, !.zones = hdOut.zones]
      BY <1>2 DEF HubSettings
    <3> HIDE DEF HubSettings
    <3>5. Meaning(hdLines) = hdOut
      BY <3>1, <3>3, <3>4, Zenon
    <3> QED BY <3>5
  <2>3. HdTypeOK'
    BY <1>1, <1>2, <1>7, <2>1 DEF HdTypeOK
  <2> QED BY <1>1, <2>1, <2>2, <2>3 DEF HubInv, ReadAsWritten
<1> QED BY <1>8, <1>9

(***************************************************************************)
(* What the parser makes of a description is what the description says as  *)
(* a whole, however many headers, races and zones it has and in whatever   *)
(* order (hub_parser.c).                                                   *)
(***************************************************************************)
THEOREM DescriptionIsRead == ASSUME HdAssumption  PROVE HdSpec => [](HdTypeOK /\ ReadAsWritten)
<1>1. HdInit => HubInv
  BY HubStarts
<1>2. ASSUME HubInv, [HdNext]_hdvars  PROVE HubInv'
  <2>1. ASSUME NEW line \in Lines,
               \/ HeaderLine(line) \/ GlobalLine(line) \/ RaceBegins(line) \/ RaceLine(line)
               \/ ZoneBegins(line) \/ ZoneLine(line) \/ DefaultsLine(line) \/ OtherLine(line)
        PROVE  HubInv'
    BY <1>2, <2>1, HeaderIsRead, GlobalIsRead, RaceIsBegun, RaceIsRead, ZoneIsBegun, ZoneIsRead,
       DefaultsAreRead, OtherIsRead
  <2>2. CASE HdEnd
    BY <1>2, <2>2, EndIsRead
  <2>3. CASE UNCHANGED hdvars
    BY <1>2, <2>3 DEF hdvars, HubInv, HdTypeOK, ReadAsWritten, RacesInv, ZonesInv
  <2> QED BY <1>2, <2>1, <2>2, <2>3 DEF HdNext
<1>3. HubInv => HdTypeOK /\ ReadAsWritten
  BY DEF HubInv
<1> QED BY <1>1, <1>2, <1>3, PTL DEF HdSpec
=============================================================================
