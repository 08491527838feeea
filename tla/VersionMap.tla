----------------------------- MODULE VersionMap -----------------------------
(***************************************************************************)
(* The table of the plugin versions of the other clients: open addressing  *)
(* with linear probing and tombstones (ts3_version_map.h), and what        *)
(* ts3_plugin_version.c does with it under its lock.                       *)
(*                                                                         *)
(* vmMap    the array; a slot is empty, used or a tombstone                *)
(* vmKnown  history: the clients that should be in the table, with the     *)
(*          identity they are known by                                     *)
(* A version text is not kept apart; identity stands for the unique id     *)
(* and the display name, by which a client that came back is recognised.   *)
(***************************************************************************)
EXTENDS Naturals, FiniteSets, FiniteSetsExt

CONSTANTS
  VmSlots,             \* VERSION_MAP_SLOTS
  VmClients,           \* client ids
  VmIdentities         \* a report may come without one

VmAssumption ==
  VmSlots \in Nat \ {0} /\ VmClients \subseteq Nat \ {0} /\ "absent" \notin VmIdentities

VARIABLES vmMap, vmKnown

vmvars == <<vmMap, vmKnown>>

NoIdentity == "none"
Positions  == 0..VmSlots - 1
Slot(s, c, u) == [state |-> s, id |-> c, identity |-> u]
Empty == Slot("empty", 0, NoIdentity)
Tomb  == Slot("tomb", 0, NoIdentity)
Reported == VmIdentities \cup {NoIdentity}

VmTypeOK ==
  /\ vmMap \in [Positions -> {Empty, Tomb} \cup {Slot("used", c, u) : c \in VmClients, u \in Reported}]
  /\ vmKnown \in [VmClients -> Reported \cup {"absent"}]

VmInit ==
  /\ vmMap = [p \in Positions |-> Empty]
  /\ vmKnown = [c \in VmClients |-> "absent"]
-----------------------------------------------------------------------------
\* The i-th position of the probe path of c.
Probe(c, i) == (c + i) % VmSlots

\* vmap_find: how far along the path an empty slot or c itself ends the search;
\* VmSlots when neither does.
Reach(map, c) ==
  Min({i \in Positions : \/ map[Probe(c, i)].state = "empty"
                         \/ map[Probe(c, i)].state = "used" /\ map[Probe(c, i)].id = c}
      \cup {VmSlots})

Finds(map, c) ==
  Reach(map, c) < VmSlots /\ map[Probe(c, Reach(map, c))].state = "used"

Place(map, c) == Probe(c, Reach(map, c))

\* The first slot on the path that is not used.
Vacant(map, c) == {i \in Positions : map[Probe(c, i)].state # "used"}
FirstVacant(map, c) == Probe(c, Min(Vacant(map, c)))

\* Mutant: a deleted slot is wiped.
WipedWhere(map, gone) == [p \in Positions |-> IF p \in gone THEN Empty ELSE map[p]]

\* vmap_remove_entry.
RemovedWhere(map, gone) == [p \in Positions |-> IF p \in gone THEN Tomb ELSE map[p]]

\* version_purge_stale_locked: entries of others with the same identity.
Stale(map, c, u) ==
  {p \in Positions : /\ map[p].state = "used" /\ map[p].id # c
                     /\ u # NoIdentity /\ map[p].identity = u}

\* Mutant: a vacant slot is taken before the client is looked for.
EnteredAtOnce(map, c, u) ==
  IF Vacant(map, c) # {} /\ ~(Finds(map, c) /\ Place(map, c) = Probe(c, 0))
  THEN [map EXCEPT ![FirstVacant(map, c)] = Slot("used", c, u)]
  ELSE map

\* version_store_locked with vmap_get(create): a full table takes nobody new.
Entered(map, c, u) ==
  CASE Finds(map, c)       -> [map EXCEPT ![Place(map, c)].identity =
                                 IF u = NoIdentity THEN @ ELSE u]
    [] ~Finds(map, c) /\ Vacant(map, c) # {} ->
                              [map EXCEPT ![FirstVacant(map, c)] = Slot("used", c, u)]
    [] OTHER               -> map

\* ts3_version_on_plugin_command: purge, then store.
Report(c, u) ==
  LET purged == RemovedWhere(vmMap, Stale(vmMap, c, u))
      others == [d \in VmClients |-> IF d # c /\ u # NoIdentity /\ vmKnown[d] = u
                                     THEN "absent" ELSE vmKnown[d]]
      room   == Cardinality({d \in VmClients : others[d] # "absent"}) < VmSlots
  IN /\ vmMap' = Entered(purged, c, u)
     /\ vmKnown' = IF others[c] = "absent" /\ ~room THEN others
                   ELSE [others EXCEPT ![c] = IF u = NoIdentity /\ @ # "absent" THEN @ ELSE u]

\* ts3_version_clear_client, when somebody leaves.
Leaves(c) ==
  /\ vmMap' = RemovedWhere(vmMap, IF Finds(vmMap, c) THEN {Place(vmMap, c)} ELSE {})
  /\ vmKnown' = [vmKnown EXCEPT ![c] = "absent"]

\* ts3_version_reset, with every connection.
VmReset ==
  /\ vmMap' = [p \in Positions |-> Empty]
  /\ vmKnown' = [c \in VmClients |-> "absent"]

VmNext ==
  \/ \E c \in VmClients : Leaves(c) \/ \E u \in Reported : Report(c, u)
  \/ VmReset

VmSpec == VmInit /\ [][VmNext]_vmvars
-----------------------------------------------------------------------------
\* The table is the map it stands for: a search finds exactly the clients that
\* reported and have neither left nor come back under another id, with what
\* they reported, and nobody is in it twice; whatever was deleted on the way,
\* and however few slots have stayed empty.
TableIsMap ==
  /\ \A c \in VmClients :
       /\ Finds(vmMap, c) <=> vmKnown[c] # "absent"
       /\ Finds(vmMap, c) => vmMap[Place(vmMap, c)] = Slot("used", c, vmKnown[c])
  /\ \A p, q \in Positions :
       vmMap[p].state = "used" /\ vmMap[q].state = "used" /\ vmMap[p].id = vmMap[q].id => p = q
=============================================================================
