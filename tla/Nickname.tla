------------------------------ MODULE Nickname ------------------------------
(***************************************************************************)
(* The nickname anonymizer (ts/nick/nick_anonymize.c): random digits while *)
(* the player is in the game channel, the real name outside of it.         *)
(*                                                                         *)
(* The entry points are operators on the state of the C module, a record   *)
(* with the fields                                                         *)
(*   anon   g_anonymized                                                   *)
(*   saved  g_savedNickname: NoName, or the server whose user has the name *)
(*   bound  g_savedBinding: the connection the name was saved on           *)
(* A nickname is Digits or the server it is the real name for.  Which      *)
(* digits are chosen and whether they are taken is left out: the caller    *)
(* says whether the renaming came through in the end.  ChannelMove uses    *)
(* these operators on one connection, NickTabs on several.                 *)
(***************************************************************************)

CONSTANTS
  Digits, NoName       \* an anonymized nickname; no saved name, no server

\* A NickBinding: the handler, and the server if its identifier is known.
Binding(h, uid) == [handler |-> h, uid |-> uid]
NoBinding == Binding(NoName, NoName)
NickReset == [anon |-> FALSE, saved |-> NoName, bound |-> NoBinding]

MatchesTab(a, b) == a.handler = b.handler   \* mutant: the server is not compared

\* nick_binding_matches
BindingMatches(a, b) ==
  a.handler = b.handler /\ (a.uid = b.uid \/ NoName \in {a.uid, b.uid})

Save(n, name, now)   == [n EXCEPT !.saved = name, !.bound = now]
Forget(n)            == Save(n, NoName, NoBinding)
SavedUsable(n, now)  == n.saved # NoName /\ BindingMatches(n.bound, now)

\* nick_saved_name_usable drops a name of another connection.
CheckSaved(n, now) == IF SavedUsable(n, now) THEN n ELSE Forget(n)

\* nick_on_connected: the state after it.
NickOnConnected(n, current, now) ==
  IF current # Digits THEN [Save(n, current, now) EXCEPT !.anon = FALSE]
  ELSE CheckSaved([n EXCEPT !.anon = TRUE], now)

\* nick_anonymize_before_ingame: state and nickname after it; renamed says
\* whether one of the attempts to set digits succeeded.
NickBeforeIngame(n, current, now, renamed) ==
  IF current = Digits
  THEN [nick |-> CheckSaved([n EXCEPT !.anon = TRUE], now), name |-> Digits]
  ELSE IF renamed
       THEN [nick |-> [Save(n, current, now) EXCEPT !.anon = TRUE], name |-> Digits]
       ELSE [nick |-> [Forget(n) EXCEPT !.anon = FALSE], name |-> current]

\* nick_restore_in_hub, connected.
NickRestore(n, current, now, renamed) ==
  IF ~n.anon THEN [nick |-> n, name |-> current]
  ELSE IF ~SavedUsable(n, now) THEN [nick |-> NickReset, name |-> current]
  ELSE IF renamed THEN [nick |-> NickReset, name |-> n.saved]
  ELSE [nick |-> n, name |-> current]
=============================================================================
