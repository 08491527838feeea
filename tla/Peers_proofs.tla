---------------------------- MODULE Peers_proofs ----------------------------
(***************************************************************************)
(* What the plugin knows of the other players: their versions, kept in the *)
(* open-addressing table (VersionMap), their positions and voices          *)
(* (RemotePlayers), the loss of their beats (Heartbeat) and what they      *)
(* announce to each other (PeerExchange), each proved safe for every value *)
(* of its constants.                                                       *)
(***************************************************************************)
EXTENDS VersionMap, RemotePlayers, Heartbeat, PeerExchange,
        FiniteSetTheorems, WellFoundedInduction, TLAPS
-----------------------------------------------------------------------------
(* The least of some numbers.                                              *)

LessThan == {ss \in Nat \X Nat : ss[1] < ss[2]}

LEMMA LessThanWellFounded == IsWellFoundedOn(LessThan, Nat)
BY NatLessThanWellFounded DEF OpToRel, LessThan

LEMMA MinIs ==
  ASSUME NEW S \in SUBSET Nat, S # {}
  PROVE  Min(S) \in S /\ \A y \in S : Min(S) <= y
<1>1. S \subseteq Nat
  OBVIOUS
<1>2. PICK x \in S : \A y \in S : ~(<<y, x>> \in LessThan)
  BY <1>1, LessThanWellFounded, WFMin, Zenon
<1>3. \A y \in S : ~(y < x)
  BY <1>2 DEF LessThan
<1>4. \A y \in S : x <= y
  BY <1>3
<1>5. QED BY <1>4 DEF Min

(* VersionMap: a client's path leads over every slot once.                 *)

LEMMA QuotientIsOne ==
  ASSUME NEW n \in Nat \ {0}, NEW k \in Int, NEW q \in Int, NEW x \in 0..n-1, NEW y \in 0..n-1,
         n * k + x = n * q + y
  PROVE  x = y
<1>1. CASE k > q
  <2>1. n * k >= n * (q + 1) BY <1>1, Z3
  <2>2. n * (q + 1) = n * q + n BY Z3
  <2>3. QED BY <2>1, <2>2
<1>2. CASE k < q
  <2>1. n * q >= n * (k + 1) BY <1>2, Z3
  <2>2. n * (k + 1) = n * k + n BY Z3
  <2>3. QED BY <2>1, <2>2
<1>3. CASE k = q
  BY <1>3
<1>4. QED BY <1>1, <1>2, <1>3

LEMMA Remainder ==
  ASSUME NEW n \in Nat \ {0}, NEW c \in Nat
  PROVE  c = n * (c \div n) + (c % n) /\ c % n \in 0..n-1 /\ c \div n \in Nat
OBVIOUS

LEMMA SumRemainder ==
  ASSUME NEW n \in Nat \ {0}, NEW c \in Nat, NEW i \in 0..n-1
  PROVE  (c + i) % n = IF (c % n) + i < n THEN (c % n) + i ELSE (c % n) + i - n
<1> DEFINE k == c \div n
           r == c % n
           q == (c + i) \div n
           m == (c + i) % n
<1>1. c = n * k + r /\ r \in 0..n-1 /\ k \in Int
  BY Remainder
<1>2. c + i = n * q + m /\ m \in 0..n-1 /\ q \in Int
  BY Remainder
<1> HIDE DEF k, r, q, m
<1>3. CASE r + i < n
  <2>1. n * k + (r + i) = n * q + m /\ r + i \in 0..n-1
    BY <1>1, <1>2, <1>3
  <2>2. QED BY <1>1, <1>2, <1>3, <2>1, QuotientIsOne DEF r, m
<1>4. CASE ~(r + i < n)
  <2>1. n * (k + 1) = n * k + n
    BY <1>1, Z3
  <2>2. n * (k + 1) + (r + i - n) = n * q + m /\ r + i - n \in 0..n-1 /\ k + 1 \in Int
    BY <1>1, <1>2, <1>4, <2>1
  <2>3. r + i - n = m
    BY <1>1, <1>2, <2>2, QuotientIsOne
  <2>4. QED BY <1>4, <2>3 DEF r, m
<1>5. QED BY <1>3, <1>4

LEMMA PathIsFull ==
  ASSUME VmAssumption, NEW c \in VmClients
  PROVE  /\ \A i \in Positions : Probe(c, i) \in Positions
         /\ \A i, j \in Positions : Probe(c, i) = Probe(c, j) => i = j
         /\ \A p \in Positions : \E i \in Positions : Probe(c, i) = p
<1> DEFINE r == c % VmSlots
<1>1. VmSlots \in Nat \ {0} /\ c \in Nat
  BY DEF VmAssumption
<1>2. \A i \in Positions :
        Probe(c, i) = IF r + i < VmSlots THEN r + i ELSE r + i - VmSlots
  BY <1>1, SumRemainder DEF Probe, Positions
<1>3. r \in 0..VmSlots - 1
  BY <1>1, Remainder
<1> HIDE DEF r
<1>4. ASSUME NEW p \in Positions PROVE \E i \in Positions : Probe(c, i) = p
  <2>1. CASE r <= p
    BY <1>1, <1>2, <1>3, <2>1 DEF Positions
  <2>2. CASE p < r
    <3>1. p - r + VmSlots \in Positions /\ Probe(c, p - r + VmSlots) = p
      BY <1>1, <1>2, <1>3, <2>2 DEF Positions
    <3>2. QED BY <3>1
  <2>3. QED BY <1>1, <1>3, <2>1, <2>2 DEF Positions
<1>5. QED BY <1>1, <1>2, <1>3, <1>4 DEF Positions

(* The slots of a table.                                                   *)
SlotSet == {Empty, Tomb} \cup {Slot("used", c, u) : c \in VmClients, u \in Reported}
MapTables  == [Positions -> SlotSet]
HasClient(map, p) == map[p].state = "used"

LEMMA SlotCases ==
  ASSUME NEW e \in SlotSet
  PROVE  /\ e.state \in {"empty", "tomb", "used"}
         /\ e.state = "used" => /\ e.id \in VmClients /\ e.identity \in Reported
                                /\ e = Slot("used", e.id, e.identity)
         /\ e.state = "empty" => e = Empty
BY DEF SlotSet, Empty, Tomb, Slot

(* What the table is at any time: each client in one slot at most, nothing *)
(* empty on his path before it, and exactly those known.                   *)
Unique(map) ==
  \A p, q \in Positions : HasClient(map, p) /\ HasClient(map, q) /\ map[p].id = map[q].id => p = q
Reachable(map) ==
  \A c \in VmClients : \A i, j \in Positions :
    HasClient(map, Probe(c, i)) /\ map[Probe(c, i)].id = c /\ j < i =>
      map[Probe(c, j)].state # "empty"
Holds(map, known) ==
  /\ \A c \in VmClients : known[c] # "absent" =>
       \E p \in Positions : map[p] = Slot("used", c, known[c])
  /\ \A p \in Positions : HasClient(map, p) => known[map[p].id] = map[p].identity
Sound(map, known) ==
  /\ map \in MapTables /\ known \in [VmClients -> Reported \cup {"absent"}]
  /\ Unique(map) /\ Reachable(map) /\ Holds(map, known)

(* How far a search goes.                                                  *)
Stops(map, c, i) ==
  \/ map[Probe(c, i)].state = "empty"
  \/ HasClient(map, Probe(c, i)) /\ map[Probe(c, i)].id = c

LEMMA ReachIs ==
  ASSUME VmAssumption, NEW map, NEW c
  PROVE  \/ Reach(map, c) = VmSlots /\ \A i \in Positions : ~Stops(map, c, i)
         \/ /\ Reach(map, c) \in Positions /\ Stops(map, c, Reach(map, c))
            /\ \A j \in Positions : j < Reach(map, c) => ~Stops(map, c, j)
<1> DEFINE S == {i \in Positions : Stops(map, c, i)} \cup {VmSlots}
<1>1. S \in SUBSET Nat /\ S # {}
  BY DEF VmAssumption, Positions
<1>2. Reach(map, c) = Min(S)
  BY DEF Reach, Stops, HasClient
<1>3. Min(S) \in S /\ \A y \in S : Min(S) <= y
  BY <1>1, MinIs
<1>4. QED BY <1>2, <1>3 DEF Positions, VmAssumption

(* A search finds exactly who is in the table.                             *)
LEMMA SearchFinds ==
  ASSUME VmAssumption, NEW map \in MapTables, Unique(map), Reachable(map), NEW c \in VmClients
  PROVE  /\ Finds(map, c) => /\ Place(map, c) \in Positions /\ HasClient(map, Place(map, c))
                             /\ map[Place(map, c)].id = c
         /\ \A p \in Positions : HasClient(map, p) /\ map[p].id = c =>
              Finds(map, c) /\ Place(map, c) = p
<1> DEFINE r == Reach(map, c)
<1>1. \/ r = VmSlots /\ \A i \in Positions : ~Stops(map, c, i)
      \/ /\ r \in Positions /\ Stops(map, c, r)
         /\ \A j \in Positions : j < r => ~Stops(map, c, j)
  BY ReachIs
<1>2. Finds(map, c) <=> r < VmSlots /\ HasClient(map, Probe(c, r))
  BY DEF Finds, HasClient
<1>3. Place(map, c) = Probe(c, r)
  BY DEF Place
<1> HIDE DEF r
<1>4. ASSUME Finds(map, c)
      PROVE  /\ Place(map, c) \in Positions /\ HasClient(map, Place(map, c))
             /\ map[Place(map, c)].id = c
  <2>1. r \in Positions /\ Stops(map, c, r) /\ HasClient(map, Probe(c, r))
    BY <1>1, <1>2, <1>4 DEF Positions, VmAssumption
  <2>2. QED BY <1>3, <2>1, PathIsFull DEF Stops, HasClient
<1>5. ASSUME NEW p \in Positions, HasClient(map, p), map[p].id = c
      PROVE  Finds(map, c) /\ Place(map, c) = p
  <2>1. PICK i \in Positions : Probe(c, i) = p
    BY PathIsFull
  <2>2. Stops(map, c, i)
    BY <1>5, <2>1 DEF Stops
  <2>3. r \in Positions /\ Stops(map, c, r) /\ ~(i < r)
    BY <1>1, <2>1, <2>2
  <2>4. ~(r < i)
    <3>1. SUFFICES ASSUME r < i PROVE FALSE
      OBVIOUS
    <3>2. map[Probe(c, r)].state # "empty"
      BY <1>5, <2>1, <2>3, <3>1 DEF Reachable
    <3>3. Probe(c, r) = p
      BY <1>5, <2>3, <3>2, PathIsFull DEF Stops, Unique
    <3>4. QED BY <2>1, <2>3, <3>1, <3>3, PathIsFull DEF Positions
  <2>5. r = i
    BY <2>1, <2>3, <2>4 DEF Positions, VmAssumption
  <2>6. QED BY <1>2, <1>3, <1>5, <2>1, <2>5 DEF Positions, VmAssumption
<1>6. QED BY <1>4, <1>5

(* Removing entries removes their clients, and empties nothing.            *)
LEMMA RemovalIsSound ==
  ASSUME VmAssumption, NEW map, NEW known, Sound(map, known), NEW gone \in SUBSET Positions,
         NEW left \in [VmClients -> Reported \cup {"absent"}],
         \A c \in VmClients :
           left[c] = IF \E p \in gone : HasClient(map, p) /\ map[p].id = c
                     THEN "absent" ELSE known[c]
  PROVE  Sound(RemovedWhere(map, gone), left)
<1> DEFINE now == RemovedWhere(map, gone)
<1>1. Tomb \in SlotSet /\ Tomb.state = "tomb"
  BY DEF SlotSet, Tomb, Slot
<1>2. now \in MapTables /\ \A p \in Positions : now[p] = IF p \in gone THEN Tomb ELSE map[p]
  BY <1>1 DEF RemovedWhere, Sound, MapTables
<1> HIDE DEF now
<1>3. Unique(now)
  BY <1>1, <1>2 DEF Unique, HasClient, Sound
<1>4. Reachable(now)
  <2>1. SUFFICES ASSUME NEW c \in VmClients, NEW i \in Positions, NEW j \in Positions,
                        HasClient(now, Probe(c, i)), now[Probe(c, i)].id = c, j < i
                 PROVE  now[Probe(c, j)].state # "empty"
    BY DEF Reachable
  <2>2. Probe(c, i) \in Positions /\ Probe(c, j) \in Positions
    BY PathIsFull
  <2>3. now[Probe(c, i)] = map[Probe(c, i)]
    BY <1>1, <1>2, <2>1, <2>2 DEF HasClient
  <2>4. map[Probe(c, j)].state # "empty"
    BY <2>1, <2>3 DEF Sound, Reachable, HasClient
  <2>5. QED BY <1>1, <1>2, <2>2, <2>4
<1>5. Holds(now, left)
  <2>1. ASSUME NEW c \in VmClients, left[c] # "absent"
        PROVE  \E p \in Positions : now[p] = Slot("used", c, left[c])
    <3>1. left[c] = known[c] /\ ~\E p \in gone : HasClient(map, p) /\ map[p].id = c
      BY <2>1
    <3>2. PICK p \in Positions : map[p] = Slot("used", c, known[c])
      BY <2>1, <3>1 DEF Sound, Holds
    <3>3. p \notin gone
      BY <3>1, <3>2 DEF HasClient, Slot
    <3>4. QED BY <1>2, <3>1, <3>2, <3>3
  <2>2. ASSUME NEW p \in Positions, HasClient(now, p)
        PROVE  left[now[p].id] = now[p].identity
    <3>1. p \notin gone /\ now[p] = map[p] /\ HasClient(map, p)
      BY <1>1, <1>2, <2>2 DEF HasClient
    <3>2. map[p].id \in VmClients
      BY <3>1, SlotCases DEF Sound, MapTables, HasClient
    <3>3. ~\E q \in gone : HasClient(map, q) /\ map[q].id = map[p].id
      BY <3>1 DEF Sound, Unique
    <3>4. QED BY <3>1, <3>2, <3>3 DEF Sound, Holds
  <2>3. QED BY <2>1, <2>2 DEF Holds
<1>6. QED BY <1>2, <1>3, <1>4, <1>5 DEF Sound, now

(* As many slots are used as clients are known, so there is a vacant slot  *)
(* exactly while there is room.                                            *)
LEMMA RoomIsVacancy ==
  ASSUME VmAssumption, NEW map, NEW known, Sound(map, known), NEW c \in VmClients
  PROVE  Cardinality({d \in VmClients : known[d] # "absent"}) < VmSlots <=> Vacant(map, c) # {}
<1> DEFINE K == {d \in VmClients : known[d] # "absent"}
           U == {p \in Positions : HasClient(map, p)}
           f == [p \in U |-> map[p].id]
<1>1. IsFiniteSet(Positions) /\ Cardinality(Positions) = VmSlots
  BY FS_Interval DEF Positions, VmAssumption
<1>2. U \subseteq Positions /\ IsFiniteSet(U) /\ Cardinality(U) \in Nat
  BY <1>1, FS_Subset, FS_CardinalityType
<1>3. f \in Bijection(U, K)
  <2>1. f \in [U -> K]
    <3>1. SUFFICES ASSUME NEW p \in U PROVE map[p].id \in K
      OBVIOUS
    <3>2. map[p].id \in VmClients /\ map[p].identity \in Reported
      BY SlotCases DEF Sound, MapTables, HasClient
    <3>3. known[map[p].id] = map[p].identity
      BY DEF Sound, Holds
    <3>4. "absent" \notin Reported
      BY DEF Reported, NoIdentity, VmAssumption
    <3>5. QED BY <3>2, <3>3, <3>4
  <2>2. \A p, q \in U : f[p] = f[q] => p = q
    BY DEF Sound, Unique
  <2>3. ASSUME NEW d \in K PROVE \E p \in U : f[p] = d
    <3>1. PICK p \in Positions : map[p] = Slot("used", d, known[d])
      BY <2>3 DEF Sound, Holds
    <3>2. p \in U /\ f[p] = d
      BY <3>1 DEF Slot, HasClient
    <3>3. QED BY <3>2
  <2>4. QED BY <2>1, <2>2, <2>3 DEF Bijection, Injection, IsInjective, Surjection
<1>4. Cardinality(K) = Cardinality(U)
  BY <1>2, <1>3, FS_Bijection DEF ExistsBijection
<1> HIDE DEF K, U, f
<1>5. CASE Vacant(map, c) = {}
  <2>1. \A p \in Positions : HasClient(map, p)
    BY <1>5, PathIsFull DEF Vacant, HasClient
  <2>2. U = Positions
    BY <2>1 DEF U
  <2>3. Cardinality(K) = VmSlots
    BY <1>1, <1>4, <2>2
  <2>4. QED BY <1>5, <2>3 DEF VmAssumption, K
<1>6. CASE Vacant(map, c) # {}
  <2>1. \E p \in Positions : ~HasClient(map, p)
    BY <1>6, PathIsFull DEF Vacant, HasClient
  <2>2. U # Positions
    BY <2>1 DEF U
  <2>3. Cardinality(U) <= VmSlots /\ Cardinality(U) # VmSlots
    BY <1>1, <1>2, <2>2, FS_Subset
  <2>4. Cardinality(U) < VmSlots
    BY <1>2, <2>3 DEF VmAssumption
  <2>5. QED BY <1>4, <1>6, <2>4 DEF K
<1>7. QED BY <1>5, <1>6

(* A client that is found keeps his slot.                                  *)
LEMMA RenewalIsSound ==
  ASSUME VmAssumption, NEW map, NEW known, Sound(map, known), NEW c \in VmClients,
         NEW u \in Reported, Finds(map, c)
  PROVE  /\ known[c] # "absent"
         /\ Sound(Entered(map, c, u), [known EXCEPT ![c] = IF u = NoIdentity THEN @ ELSE u])
<1> DEFINE p == Place(map, c)
           w == IF u = NoIdentity THEN map[p].identity ELSE u
           now == [map EXCEPT ![p].identity = w]
           next == [known EXCEPT ![c] = w]
<1>1. p \in Positions /\ HasClient(map, p) /\ map[p].id = c
  BY SearchFinds DEF Sound
<1>2. /\ map[p].identity \in Reported /\ map[p] = Slot("used", c, map[p].identity)
      /\ known[c] = map[p].identity /\ w \in Reported
  BY <1>1, SlotCases DEF Sound, MapTables, HasClient, Holds
<1>3. "absent" \notin Reported
  BY DEF Reported, NoIdentity, VmAssumption
<1>4. Entered(map, c, u) = now /\ [known EXCEPT ![c] = IF u = NoIdentity THEN @ ELSE u] = next
  BY <1>2 DEF Entered
<1> HIDE DEF p, w
<1>5. Slot("used", c, w) \in SlotSet
  BY <1>2 DEF SlotSet
<1>6. [map[p] EXCEPT !.identity = w] = Slot("used", c, w)
  BY <1>2 DEF Slot
<1>7. /\ now \in MapTables
      /\ \A q \in Positions : now[q] = IF q = p THEN Slot("used", c, w) ELSE map[q]
  BY <1>1, <1>5, <1>6 DEF Sound, MapTables
<1>8. next \in [VmClients -> Reported \cup {"absent"}]
      /\ \A d \in VmClients : next[d] = IF d = c THEN w ELSE known[d]
  BY <1>2 DEF Sound
<1> HIDE DEF now, next
<1>9. \A q \in Positions : now[q].state = map[q].state /\ now[q].id = map[q].id
  BY <1>1, <1>7 DEF Slot, HasClient
<1>10. Unique(now)
  BY <1>9 DEF Unique, HasClient, Sound
<1>11. Reachable(now)
  <2>1. \A d \in VmClients : \A i \in Positions : Probe(d, i) \in Positions
    BY PathIsFull
  <2>2. QED BY <1>9, <2>1 DEF Reachable, HasClient, Sound
<1>12. Holds(now, next)
  <2>1. ASSUME NEW d \in VmClients, next[d] # "absent"
        PROVE  \E q \in Positions : now[q] = Slot("used", d, next[d])
    <3>1. CASE d = c
      BY <1>1, <1>7, <1>8, <3>1
    <3>2. CASE d # c
      <4>1. PICK q \in Positions : map[q] = Slot("used", d, known[d])
        BY <1>8, <2>1, <3>2 DEF Sound, Holds
      <4>2. q # p
        BY <1>1, <3>2, <4>1 DEF Slot
      <4>3. QED BY <1>7, <1>8, <3>2, <4>1, <4>2
    <3>3. QED BY <3>1, <3>2
  <2>2. ASSUME NEW q \in Positions, HasClient(now, q)
        PROVE  next[now[q].id] = now[q].identity
    <3>1. CASE q = p
      BY <1>7, <1>8, <3>1 DEF Slot
    <3>2. CASE q # p
      <4>1. now[q] = map[q] /\ HasClient(map, q) /\ map[q].id # c
        BY <1>1, <1>7, <2>2, <3>2 DEF HasClient, Sound, Unique
      <4>2. map[q].id \in VmClients
        BY <4>1, SlotCases DEF Sound, MapTables, HasClient
      <4>3. QED BY <1>8, <4>1, <4>2 DEF Sound, Holds
    <3>3. QED BY <3>1, <3>2
  <2>3. QED BY <2>1, <2>2 DEF Holds
<1>13. QED BY <1>2, <1>3, <1>4, <1>7, <1>8, <1>10, <1>11, <1>12 DEF Sound

(* A client that is not found takes the first slot on his path that is     *)
(* vacant.                                                                 *)
LEMMA UnfoundIsAbsent ==
  ASSUME VmAssumption, NEW map, NEW known, Sound(map, known), NEW c \in VmClients,
         ~Finds(map, c)
  PROVE  known[c] = "absent"
<1>1. SUFFICES ASSUME known[c] # "absent" PROVE FALSE
  OBVIOUS
<1>2. PICK q \in Positions : map[q] = Slot("used", c, known[c])
  BY <1>1 DEF Sound, Holds
<1>3. \A r \in Positions : HasClient(map, r) => map[r].id # c
  BY SearchFinds DEF Sound
<1>4. QED BY <1>2, <1>3 DEF HasClient, Slot

LEMMA EntryIsSound ==
  ASSUME VmAssumption, NEW map, NEW known, Sound(map, known), NEW c \in VmClients,
         NEW u \in Reported, ~Finds(map, c), Vacant(map, c) # {}
  PROVE  known[c] = "absent" /\ Sound(Entered(map, c, u), [known EXCEPT ![c] = u])
<1> DEFINE m == Min(Vacant(map, c))
           p == Probe(c, m)
           now == [map EXCEPT ![p] = Slot("used", c, u)]
           next == [known EXCEPT ![c] = u]
<1>1. Entered(map, c, u) = now
  BY DEF Entered, FirstVacant
<1>2. /\ m \in Positions /\ ~HasClient(map, p)
      /\ \A j \in Positions : j < m => HasClient(map, Probe(c, j))
  <2>1. Vacant(map, c) \in SUBSET Nat
    BY DEF Vacant, Positions, VmAssumption
  <2>2. m \in Vacant(map, c) /\ \A y \in Vacant(map, c) : m <= y
    BY <2>1, MinIs
  <2> HIDE DEF m
  <2>3. QED BY <2>2 DEF Vacant, HasClient, Positions, VmAssumption
<1> HIDE DEF m
<1>3. p \in Positions
  BY <1>2, PathIsFull
<1>4. \A q \in Positions : HasClient(map, q) => map[q].id # c
  BY SearchFinds DEF Sound
<1>5. known[c] = "absent"
  BY UnfoundIsAbsent
<1>6. Slot("used", c, u) \in SlotSet
  BY DEF SlotSet
<1>7. /\ now \in MapTables
      /\ \A q \in Positions : now[q] = IF q = p THEN Slot("used", c, u) ELSE map[q]
  BY <1>3, <1>6 DEF Sound, MapTables
<1>8. next \in [VmClients -> Reported \cup {"absent"}]
      /\ \A d \in VmClients : next[d] = IF d = c THEN u ELSE known[d]
  BY DEF Sound
<1>9. HasClient(now, p) /\ now[p].id = c /\ now[p].identity = u
  BY <1>3, <1>7 DEF Slot, HasClient
<1> HIDE DEF now, next
<1>10. Unique(now)
  BY <1>4, <1>7, <1>9 DEF Unique, HasClient, Sound
<1>11. Reachable(now)
  <2>1. SUFFICES ASSUME NEW d \in VmClients, NEW i \in Positions, NEW j \in Positions,
                        HasClient(now, Probe(d, i)), now[Probe(d, i)].id = d, j < i
                 PROVE  now[Probe(d, j)].state # "empty"
    BY DEF Reachable
  <2>2. Probe(d, i) \in Positions /\ Probe(d, j) \in Positions
    BY PathIsFull
  <2>3. CASE Probe(d, j) = p
    BY <1>9, <2>3 DEF HasClient
  <2>4. CASE Probe(d, j) # p /\ Probe(d, i) # p
    BY <1>7, <2>1, <2>2, <2>4 DEF Sound, Reachable, HasClient
  <2>5. CASE Probe(d, j) # p /\ Probe(d, i) = p
    <3>1. d = c /\ Probe(c, i) = Probe(c, m)
      BY <1>9, <2>1, <2>5
    <3>2. i = m
      BY <1>2, <3>1, PathIsFull
    <3>3. HasClient(map, Probe(c, j))
      BY <1>2, <2>1, <3>2
    <3>4. QED BY <1>7, <2>2, <2>5, <3>1, <3>3 DEF HasClient
  <2>6. QED BY <2>3, <2>4, <2>5
<1>12. Holds(now, next)
  <2>1. ASSUME NEW d \in VmClients, next[d] # "absent"
        PROVE  \E q \in Positions : now[q] = Slot("used", d, next[d])
    <3>1. CASE d = c
      BY <1>3, <1>7, <1>8, <3>1
    <3>2. CASE d # c
      <4>1. PICK q \in Positions : map[q] = Slot("used", d, known[d])
        BY <1>8, <2>1, <3>2 DEF Sound, Holds
      <4>2. q # p
        BY <1>2, <4>1 DEF Slot, HasClient
      <4>3. QED BY <1>7, <1>8, <3>2, <4>1, <4>2
    <3>3. QED BY <3>1, <3>2
  <2>2. ASSUME NEW q \in Positions, HasClient(now, q)
        PROVE  next[now[q].id] = now[q].identity
    <3>1. CASE q = p
      BY <1>8, <1>9, <3>1
    <3>2. CASE q # p
      <4>1. now[q] = map[q] /\ HasClient(map, q) /\ map[q].id # c
        BY <1>4, <1>7, <2>2, <3>2 DEF HasClient
      <4>2. map[q].id \in VmClients
        BY <4>1, SlotCases DEF Sound, MapTables, HasClient
      <4>3. QED BY <1>8, <4>1, <4>2 DEF Sound, Holds
    <3>3. QED BY <3>1, <3>2
  <2>3. QED BY <2>1, <2>2 DEF Holds
<1>13. QED BY <1>1, <1>5, <1>7, <1>8, <1>10, <1>11, <1>12 DEF Sound, next

(* The table stands for what is known: for any size of the table, any      *)
(* clients and any identities.                                             *)
THEOREM TableStandsForMap ==
  ASSUME VmAssumption
  PROVE  VmSpec => []TableIsMap
<1> DEFINE Inv == Sound(vmMap, vmKnown)
<1>1. Empty \in SlotSet /\ Empty.state = "empty" /\ "absent" \notin Reported
  BY DEF SlotSet, Empty, Slot, Reported, NoIdentity, VmAssumption
<1>2. ASSUME NEW map, NEW known, map = [p \in Positions |-> Empty],
             known = [c \in VmClients |-> "absent"]
      PROVE  Sound(map, known)
  <2>1. map \in MapTables /\ known \in [VmClients -> Reported \cup {"absent"}]
    BY <1>1, <1>2 DEF MapTables
  <2>2. \A p \in Positions : ~HasClient(map, p)
    BY <1>1, <1>2 DEF HasClient
  <2>3. QED BY <1>2, <2>1, <2>2, PathIsFull DEF Sound, Unique, Reachable, Holds
<1>3. VmInit => Inv
  BY <1>2 DEF VmInit
<1>4. Inv /\ [VmNext]_vmvars => Inv'
  <2> SUFFICES ASSUME Inv, [VmNext]_vmvars PROVE Inv'
    OBVIOUS
  <2>1. CASE UNCHANGED vmvars
    BY <2>1 DEF vmvars
  <2>2. CASE VmReset
    BY <1>2, <2>2 DEF VmReset
  <2>3. ASSUME NEW c \in VmClients, Leaves(c) PROVE Inv'
    <3> DEFINE gone == IF Finds(vmMap, c) THEN {Place(vmMap, c)} ELSE {}
    <3>1. gone \in SUBSET Positions
      BY SearchFinds DEF Sound
    <3>2. vmKnown' \in [VmClients -> Reported \cup {"absent"}]
          /\ \A d \in VmClients : vmKnown'[d] = IF d = c THEN "absent" ELSE vmKnown[d]
      BY <2>3 DEF Leaves, Sound
    <3>3. ASSUME NEW d \in VmClients
          PROVE  vmKnown'[d] = IF \E p \in gone : HasClient(vmMap, p) /\ vmMap[p].id = d
                               THEN "absent" ELSE vmKnown[d]
      <4>1. CASE d # c
        BY <3>2, <4>1, SearchFinds DEF Sound
      <4>2. CASE d = c /\ Finds(vmMap, c)
        BY <3>2, <4>2, SearchFinds DEF Sound
      <4>3. CASE d = c /\ ~Finds(vmMap, c)
        <5>1. vmKnown[c] = "absent"
          BY <1>1, <4>3, UnfoundIsAbsent
        <5>2. QED BY <3>2, <4>3, <5>1
      <4>4. QED BY <4>1, <4>2, <4>3
    <3>4. vmMap' = RemovedWhere(vmMap, gone)
      BY <2>3 DEF Leaves
    <3> HIDE DEF gone
    <3>5. QED BY <3>1, <3>2, <3>3, <3>4, RemovalIsSound
  <2>4. ASSUME NEW c \in VmClients, NEW u \in Reported, Report(c, u) PROVE Inv'
    <3> DEFINE gone   == Stale(vmMap, c, u)
               purged == RemovedWhere(vmMap, gone)
               others == [d \in VmClients |-> IF d # c /\ u # NoIdentity /\ vmKnown[d] = u
                                              THEN "absent" ELSE vmKnown[d]]
               room   == Cardinality({d \in VmClients : others[d] # "absent"}) < VmSlots
    <3>1. gone \in SUBSET Positions /\ others \in [VmClients -> Reported \cup {"absent"}]
      BY DEF Stale, Sound
    <3>2. ASSUME NEW d \in VmClients
          PROVE  others[d] = IF \E p \in gone : HasClient(vmMap, p) /\ vmMap[p].id = d
                             THEN "absent" ELSE vmKnown[d]
      <4>1. CASE d # c /\ u # NoIdentity /\ vmKnown[d] = u
        <5>1. PICK p \in Positions : vmMap[p] = Slot("used", d, u)
          BY <1>1, <4>1 DEF Sound, Holds
        <5>2. p \in gone /\ HasClient(vmMap, p) /\ vmMap[p].id = d
          BY <4>1, <5>1 DEF Stale, Slot, HasClient
        <5>3. QED BY <4>1, <5>2
      <4>2. CASE ~(d # c /\ u # NoIdentity /\ vmKnown[d] = u)
        <5>1. ASSUME NEW p \in gone, HasClient(vmMap, p), vmMap[p].id = d PROVE FALSE
          BY <4>2, <5>1 DEF Stale, Sound, Holds
        <5>2. QED BY <4>2, <5>1
      <4>3. QED BY <4>1, <4>2
    <3>3. Sound(purged, others)
      <4> HIDE DEF gone, others
      <4>1. QED BY <3>1, <3>2, RemovalIsSound
    <3>4. /\ vmMap' = Entered(purged, c, u)
          /\ vmKnown' = IF others[c] = "absent" /\ ~room THEN others
                        ELSE [others EXCEPT ![c] = IF u = NoIdentity /\ @ # "absent" THEN @ ELSE u]
      BY <2>4 DEF Report
    <3>5. room <=> Vacant(purged, c) # {}
      <4> HIDE DEF purged, others
      <4>1. QED BY <3>3, RoomIsVacancy
    <3> HIDE DEF gone, purged, others, room
    <3>6. CASE Finds(purged, c)
      BY <3>3, <3>4, <3>6, RenewalIsSound
    <3>7. CASE ~Finds(purged, c) /\ Vacant(purged, c) # {}
      BY <3>3, <3>4, <3>5, <3>7, EntryIsSound
    <3>8. CASE ~Finds(purged, c) /\ Vacant(purged, c) = {}
      <4>1. others[c] = "absent"
        BY <1>1, <3>3, <3>8, UnfoundIsAbsent
      <4>2. Entered(purged, c, u) = purged
        BY <3>8 DEF Entered
      <4>3. QED BY <3>3, <3>4, <3>5, <3>8, <4>1, <4>2
    <3>9. QED BY <3>6, <3>7, <3>8
  <2>5. QED BY <2>1, <2>2, <2>3, <2>4 DEF VmNext
<1>5. Inv => TableIsMap
  <2> SUFFICES ASSUME Inv PROVE TableIsMap
    OBVIOUS
  <2>1. ASSUME NEW c \in VmClients
        PROVE  /\ Finds(vmMap, c) <=> vmKnown[c] # "absent"
               /\ Finds(vmMap, c) => vmMap[Place(vmMap, c)] = Slot("used", c, vmKnown[c])
    <3>1. CASE vmKnown[c] # "absent"
      <4>1. PICK p \in Positions : vmMap[p] = Slot("used", c, vmKnown[c])
        BY <3>1 DEF Sound, Holds
      <4>2. HasClient(vmMap, p) /\ vmMap[p].id = c
        BY <4>1 DEF HasClient, Slot
      <4>3. QED BY <3>1, <4>1, <4>2, SearchFinds DEF Sound
    <3>2. CASE vmKnown[c] = "absent"
      <4>1. SUFFICES ASSUME Finds(vmMap, c) PROVE FALSE
        BY <3>2
      <4>2. /\ Place(vmMap, c) \in Positions /\ HasClient(vmMap, Place(vmMap, c))
            /\ vmMap[Place(vmMap, c)].id = c
        BY <4>1, SearchFinds DEF Sound
      <4>3. vmMap[Place(vmMap, c)].identity \in Reported
        BY <4>2, SlotCases DEF Sound, MapTables, HasClient
      <4>4. QED BY <1>1, <3>2, <4>2, <4>3 DEF Sound, Holds
    <3>3. QED BY <3>1, <3>2
  <2>2. Unique(vmMap)
    BY DEF Sound
  <2>3. QED BY <2>1, <2>2 DEF TableIsMap, Unique, HasClient
<1> HIDE DEF Inv
<1>6. QED BY <1>3, <1>4, <1>5, PTL DEF VmSpec
-----------------------------------------------------------------------------
(* RemotePlayers: who has a slot, and what his voice is shaped with.       *)

LEMMA LowestIsIn == ASSUME RpAssumption, NEW S \in SUBSET Slots, S # {} PROVE Lowest(S) \in S
<1>1. S \subseteq Nat
  BY DEF Slots, RpAssumption
<1>2. PICK x \in S : \A y \in S : ~(<<y, x>> \in LessThan)
  BY <1>1, LessThanWellFounded, WFMin, Zenon
<1>3. \A y \in S : ~(y < x)
  BY <1>1, <1>2 DEF LessThan
<1>4. \A y \in S : x <= y
  BY <1>1, <1>3
<1> QED BY <1>4 DEF Lowest

\* A slot that has a player is his, and the only one of his.
SlotInv ==
  \A s \in Slots :
     /\ table.slot[s].fresh => Used(s)
     /\ \A r \in Slots : Used(s) /\ table.slot[r].id = table.slot[s].id => r = s

\* A pass works on the slots as they are, and on where the listener is unless
\* another pass is going to be asked for.
PassInv ==
  pass # NoPass =>
    /\ pass.kind \in {"all", "dirty"} /\ pass.at \in Places \cup {0}
    /\ pass.entries = Snapshot
    /\ \A s \in Slots : Used(s) => table.slot[s].fresh
    /\ pass.at = here \/ noticed \/ allPending

\* What the voice of an entry should be shaped with.
Shaped(e, l, tg, la) ==
  tg[e.id] = IF Class(e.at, l) = "near" \/ (Class(e.at, l) = "band" /\ e.id \in la)
             THEN [at |-> e.at, from |-> l] ELSE Silent

\* Who is not marked is shaped right, save while the listener has moved.
ShapeInv ==
  ~allPending /\ ~noticed /\ here # 0 /\ pass.kind # "all" =>
    \A s \in Slots : table.slot[s].fresh /\ table.slot[s].id \notin dirty =>
                       Shaped(table.slot[s], here, target, latch)

RpInv == RpTypeOK /\ SlotInv /\ NamesAreTheirOwn /\ PassInv /\ ShapeInv

LEMMA EntriesOfTable ==
  ASSUME RpTypeOK
  PROVE  /\ table.slot \in [Slots -> Entries] /\ table.order \in [Slots -> Slots]
         /\ table = [slot |-> table.slot, order |-> table.order]
         /\ \A s \in Slots : /\ table.slot[s] \in Entries
                             /\ table.slot[s].id \in Peers \cup {Nobody}
                             /\ table.slot[s].name \in Peers \cup {Nobody}
                             /\ table.slot[s].at \in Places \cup {0}
                             /\ table.slot[s].fresh \in BOOLEAN
<1>1. table \in Tables
  BY DEF RpTypeOK
<1>2. /\ table.slot \in [Slots -> Entries] /\ table.order \in [Slots -> Slots]
      /\ table = [slot |-> table.slot, order |-> table.order]
  BY <1>1 DEF Tables
<1>3. \A s \in Slots : table.slot[s] \in Entries
  BY <1>2
<1> QED BY <1>2, <1>3 DEF Entries

LEMMA FreeIsAnEntry == Free \in Entries /\ Free.id = Nobody /\ ~Free.fresh /\ Free.name = Nobody
BY DEF Free, Entries

\* The order stays a permutation: the updated slot goes to its end.
LEMMA UpdatedIsOrder ==
  ASSUME RpAssumption, NEW order \in [Slots -> Slots],
         \A s \in Slots : \E i \in Slots : order[i] = s, NEW s \in Slots
  PROVE  /\ Updated(order, s) \in [Slots -> Slots]
         /\ \A r \in Slots : \E i \in Slots : Updated(order, s)[i] = r
<1> DEFINE k == CHOOSE i \in Slots : order[i] = s
           new == [i \in Slots |-> IF i < k THEN order[i]
                                   ELSE IF i < RpSlots THEN order[i + 1] ELSE s]
<1>1. k \in Slots /\ order[k] = s
  OBVIOUS
<1>2. new = Updated(order, s)
  BY DEF Updated
<1> HIDE DEF k
<1>3. RpSlots \in Nat \ {0} /\ RpSlots \in Slots
  BY DEF RpAssumption, Slots
<1>4. \A i \in Slots : i < RpSlots => i + 1 \in Slots
  BY <1>3 DEF Slots
<1>5. new \in [Slots -> Slots]
  BY <1>4
<1>6. ASSUME NEW r \in Slots  PROVE \E i \in Slots : new[i] = r
  <2>1. CASE r = s
    <3>1. ~(RpSlots < k)
      BY <1>1, <1>3 DEF Slots
    <3> QED BY <2>1, <3>1, <1>3 DEF Slots
  <2>2. CASE r # s
    <3>1. PICK i \in Slots : order[i] = r
      OBVIOUS
    <3>2. i # k
      BY <3>1, <2>2, <1>1
    <3>3. CASE i < k
      BY <3>1, <3>3
    <3>4. CASE i > k
      <4>1. i - 1 \in Slots /\ ~(i - 1 < k) /\ i - 1 < RpSlots /\ (i - 1) + 1 = i
        BY <3>4, <1>1, <1>3 DEF Slots
      <4> QED BY <4>1, <3>1
    <3> QED BY <3>2, <3>3, <3>4, <1>1, <1>3 DEF Slots
  <2> QED BY <2>1, <2>2
<1> QED BY <1>2, <1>5, <1>6
-----------------------------------------------------------------------------
\* The slot for a player is his own, if he has one.
LEMMA SlotForIs ==
  ASSUME RpAssumption, RpTypeOK, SlotInv, NEW p \in Peers
  PROVE  /\ SlotFor(p) \in Slots
         /\ \A s \in Slots : table.slot[s].id = p => s = SlotFor(p)
<1>1. SlotsOf(p) \in SUBSET Slots /\ p # Nobody
  BY DEF SlotsOf, RpAssumption
<1>2. CASE SlotsOf(p) # {}
  <2>1. SlotFor(p) \in SlotsOf(p)
    BY <1>1, <1>2, LowestIsIn DEF SlotFor
  <2> QED BY <2>1, <1>1 DEF SlotsOf, SlotInv, Used
<1>3. CASE SlotsOf(p) = {}
  <2> DEFINE reusable == {s \in Slots : ~Used(s) \/ ~table.slot[s].fresh}
  <2>1. reusable \in SUBSET Slots
    OBVIOUS
  <2>2. table.order[1] \in Slots
    BY EntriesOfTable DEF Slots, RpAssumption
  <2>3. SlotFor(p) \in Slots
    BY <1>3, <2>1, <2>2, LowestIsIn DEF SlotFor
  <2> QED BY <2>3, <1>3 DEF SlotsOf
<1> QED BY <1>2, <1>3

\* A player who is displaced has the slot that was silent the longest, and
\* nobody else's could have been taken.
LEMMA PutDisplacesLate ==
  ASSUME RpAssumption, RpInv, NEW q \in Peers, NEW name, NEW at, table' = Put(q, name, at)
  PROVE  DisplacedLate
<1> DEFINE d == SlotFor(q)
           reusable == {s \in Slots : ~Used(s) \/ ~table.slot[s].fresh}
<1>1. d \in Slots /\ \A s \in Slots : table.slot[s].id = q => s = d
  BY SlotForIs DEF RpInv
<1>2. table'.slot = [table.slot EXCEPT ![d] = EntryOf(@, q, name, at)]
  BY DEF Put
<1>3. \A s \in Slots : table'.slot[s] = IF s = d THEN EntryOf(table.slot[s], q, name, at)
                                        ELSE table.slot[s]
  BY <1>1, <1>2, EntriesOfTable DEF RpInv
<1>4. table'.slot[d].id = q
  <2> HIDE DEF d
  <2>1. table'.slot[d] = EntryOf(table.slot[d], q, name, at)
    BY <1>1, <1>3
  <2> QED BY <2>1 DEF EntryOf
<1> SUFFICES ASSUME NEW p \in Peers, NEW u \in Slots, table.slot[u].id = p, table.slot[u].fresh,
                    NEW r \in Peers, r # p, SlotsOf(r) = {}, NEW v \in Slots,
                    table'.slot[v].id = r, \A s \in Slots : table'.slot[s].id # p
             PROVE  /\ \A s \in Slots : table.slot[s].fresh
                    /\ table.slot[table.order[1]].id = p
  BY DEF DisplacedLate
<1>5. u = d
  BY <1>3
<1>6. SlotsOf(q) = {}
  BY <1>1, <1>4, <1>5 DEF SlotsOf
<1>7. reusable = {}
  <2> SUFFICES ASSUME reusable # {}  PROVE FALSE
    OBVIOUS
  <2>1. d = Lowest(reusable)
    BY <1>6 DEF SlotFor
  <2>2. d \in reusable
    BY <2>1, LowestIsIn
  <2> QED BY <2>2, <1>5 DEF Used, RpAssumption
<1>8. d = table.order[1]
  BY <1>6, <1>7 DEF SlotFor
<1> QED BY <1>5, <1>7, <1>8

\* Only a received position puts a player where there was none.
LEMMA FewPut ==
  ASSUME RpAssumption, RpInv, RpNext
  PROVE  DisplacedLate
<1>1. CASE \E p \in Peers, at \in Places : \E name \in {p, Nobody} : CeposReceived(p, name, at)
  BY <1>1, PutDisplacesLate DEF CeposReceived
<1>2. CASE ~\E p \in Peers, at \in Places : \E name \in {p, Nobody} : CeposReceived(p, name, at)
  <2>1. ASSUME NEW s \in Slots  PROVE table'.slot[s].id \in {table.slot[s].id, Nobody}
    <3>1. CASE \E p \in Peers : PeerGone(p)
      <4>1. PICK p \in Peers : PeerGone(p)
        BY <3>1
      <4>2. table'.slot[s] \in {table.slot[s], Free}
        BY <4>1, EntriesOfTable DEF PeerGone, RpInv
      <4> QED BY <4>2, FreeIsAnEntry
    <3>2. CASE SessionReset
      BY <3>2, FreeIsAnEntry DEF SessionReset, EmptyTable
    <3>3. CASE \E r \in Slots : Expire(r)
      <4>1. PICK r \in Slots : Expire(r)
        BY <3>3
      <4>2. table'.slot = [table.slot EXCEPT ![r].fresh = FALSE]
        BY <4>1, EntriesOfTable DEF Expire, RpInv
      <4>3. table.slot[r] \in Entries /\ table.slot[s] \in Entries
        BY EntriesOfTable DEF RpInv
      <4>4. table'.slot[s].id = table.slot[s].id
        BY <4>2, <4>3, EntriesOfTable DEF RpInv, Entries
      <4> QED BY <4>4
    <3>4. CASE DrainBegin
      <4>1. table'.slot[s] \in {table.slot[s], Free}
        BY <3>4, EntriesOfTable DEF DrainBegin, Swept, RpInv
      <4> QED BY <4>1, FreeIsAnEntry
    <3>5. CASE table' = table
      BY <3>5
    <3> QED BY <1>2, <3>1, <3>2, <3>3, <3>4, <3>5
            DEF RpNext, Drain, OwnMove, OwnSample, PassAll, PassDirty
  <2> QED BY <2>1 DEF DisplacedLate, SlotsOf, RpAssumption
<1> QED BY <1>1, <1>2
-----------------------------------------------------------------------------
\* What a pass publishes is right for its entries, and leaves the others.
LEMMA PublishShapes ==
  ASSUME RpAssumption, RpTypeOK, SlotInv, NEW S \in SUBSET Slots,
         \A s \in S : table.slot[s].fresh,
         NEW l \in Places \cup {0}, NEW gone \in SUBSET Peers,
         \A s \in Slots : table.slot[s].id \notin gone,
         Publish([s \in S |-> table.slot[s]], l, gone)
  PROVE  /\ target' \in [Peers -> Targets] /\ latch' \in SUBSET Peers
         /\ l # 0 => \A s \in S : Shaped(table.slot[s], l, target', latch')
         /\ \A s \in Slots \ S : Used(s) /\ Shaped(table.slot[s], l, target, latch)
                                   => Shaped(table.slot[s], l, target', latch')
<1> DEFINE es == [s \in S |-> table.slot[s]]
           ids == {es[i].id : i \in DOMAIN es}
           At(p) == CHOOSE i \in DOMAIN es : es[i].id = p
           audible == {es[i].id : i \in {j \in DOMAIN es : InRange(es[j].id, es[j].at, l)}}
<1>1. DOMAIN es = S /\ \A s \in S : es[s] = table.slot[s]
  OBVIOUS
<1>2. /\ target' = [p \in Peers |->
            IF \E i \in DOMAIN es : es[i].id = p THEN Heard(es[At(p)], l)
            ELSE IF p \in gone THEN Silent ELSE target[p]]
      /\ latch' = IF l = 0 THEN latch \ gone ELSE (latch \ (gone \cup ids)) \cup audible
  BY DEF Publish
<1>3. \A s \in S : Used(s) /\ table.slot[s].id \in Peers
  BY EntriesOfTable DEF SlotInv, Used
<1>4. \A s \in S, r \in Slots : table.slot[r].id = table.slot[s].id => r = s
  BY <1>3 DEF SlotInv
<1>5. \A s \in S : At(table.slot[s].id) = s
  BY <1>1, <1>4
<1>6. \A p : (\E i \in DOMAIN es : es[i].id = p) <=> (\E s \in S : table.slot[s].id = p)
  BY <1>1
<1>7. \A p : p \in audible <=> \E s \in S : /\ table.slot[s].id = p
                                            /\ InRange(table.slot[s].id, table.slot[s].at, l)
  BY <1>1
<1>8. ids = {table.slot[s].id : s \in S}
  BY <1>1
<1> HIDE DEF es, ids, audible
<1>9. Silent \in Targets
  BY DEF Silent, Targets
<1>10. \A s \in S : Heard(es[s], l) \in Targets
  <2> SUFFICES ASSUME NEW s \in S  PROVE Heard(es[s], l) \in Targets
    OBVIOUS
  <2>1. es[s].at \in Places \cup {0}
    BY <1>1, EntriesOfTable
  <2> QED BY <2>1, <1>9 DEF Heard, Targets
<1>11. \A p \in Peers : (\E s \in S : table.slot[s].id = p) => At(p) \in S
  BY <1>1, <1>6
<1>12. target' \in [Peers -> Targets]
  BY <1>2, <1>6, <1>9, <1>10, <1>11 DEF RpTypeOK
<1>13. audible \subseteq Peers
  BY <1>3, <1>7
<1>14. latch' \in SUBSET Peers
  BY <1>2, <1>13 DEF RpTypeOK
<1>15. ASSUME NEW s \in S, l # 0  PROVE Shaped(table.slot[s], l, target', latch')
  <2> DEFINE e == table.slot[s]
  <2>1. target'[e.id] = Heard(e, l)
    BY <1>1, <1>2, <1>3, <1>5, <1>6
  <2>2. e.id \in latch' <=> InRange(e.id, e.at, l)
    <3>1. e.id \in ids
      BY <1>8
    <3>2. e.id \in audible <=> InRange(e.id, e.at, l)
      BY <1>4, <1>7
    <3> QED BY <1>2, <1>15, <3>1, <3>2
  <2> HIDE DEF e
  <2>3. InRange(e.id, e.at, l) <=> Class(e.at, l) = "near"
                                   \/ (Class(e.at, l) = "band" /\ e.id \in latch)
    BY <1>15 DEF InRange
  <2>4. Heard(e, l) = IF InRange(e.id, e.at, l) THEN [at |-> e.at, from |-> l] ELSE Silent
    BY <1>15 DEF Heard
  <2> QED
    BY <2>1, <2>2, <2>3, <2>4 DEF Shaped, e
<1>16. ASSUME NEW s \in Slots \ S, Used(s), Shaped(table.slot[s], l, target, latch)
       PROVE  Shaped(table.slot[s], l, target', latch')
  <2> DEFINE e == table.slot[s]
  <2>1. e.id \in Peers /\ e.id \notin gone
    BY <1>16, EntriesOfTable DEF Used
  <2>2. \A r \in S : table.slot[r].id # e.id
    BY <1>4, <1>16
  <2>3. target'[e.id] = target[e.id]
    BY <1>2, <1>6, <2>1, <2>2
  <2>4. e.id \in latch' <=> e.id \in latch
    BY <1>2, <1>7, <1>8, <2>1, <2>2
  <2> QED BY <2>3, <2>4, <1>16 DEF Shaped
<1> QED BY <1>12, <1>14, <1>15, <1>16
-----------------------------------------------------------------------------
\* A received position.
LEMMA ReceivedKeepsShape ==
  ASSUME RpAssumption, RpInv, NEW p \in Peers, NEW at \in Places, NEW name \in {p, Nobody},
         CeposReceived(p, name, at)
  PROVE  RpInv'
<1> DEFINE d == SlotFor(p)
           gone == Evicted(p)
<1>0. /\ allPending' = allPending /\ here' = here /\ noticed' = noticed /\ pass' = pass
      /\ pass = NoPass /\ rpEvents' = rpEvents
      /\ rpPuts < RpMaxPuts /\ rpPuts' = rpPuts + 1
      /\ table' = Put(p, name, at)
      /\ target' = [q \in Peers |-> IF q \in gone THEN Silent ELSE target[q]]
      /\ latch' = latch \ gone /\ dirty' = (dirty \ gone) \cup {p}
  BY DEF CeposReceived, Resting, Invalidate, Mark
<1>1. d \in Slots /\ \A s \in Slots : table.slot[s].id = p => s = d
  BY SlotForIs DEF RpInv
<1>2. table' = [slot  |-> [table.slot EXCEPT ![d] = EntryOf(@, p, name, at)],
                order |-> Updated(table.order, d)]
  BY <1>0 DEF Put
<1>3. \A s \in Slots : table'.slot[s] = IF s = d THEN EntryOf(table.slot[s], p, name, at)
                                        ELSE table.slot[s]
  BY <1>1, <1>2, EntriesOfTable DEF RpInv
<1>4. gone = IF table.slot[d].id \in {Nobody, p} THEN {} ELSE {table.slot[d].id}
  BY DEF Evicted
<1> HIDE DEF d, gone
<1>5. gone \subseteq Peers
  BY <1>1, <1>4, EntriesOfTable DEF RpInv
<1> DEFINE new == EntryOf(table.slot[d], p, name, at)
<1>6. new.id = p /\ new.fresh = TRUE /\ new.at = at
  BY DEF EntryOf
<1>7. new.name \in {p, Nobody}
  <2>1. table.slot[d].name \in {table.slot[d].id, Nobody}
    BY <1>1 DEF RpInv, NamesAreTheirOwn
  <2>2. new.name = IF name # Nobody THEN name
                   ELSE IF table.slot[d].id = p /\ table.slot[d].fresh THEN table.slot[d].name
                   ELSE Nobody
    BY DEF EntryOf
  <2> HIDE DEF new
  <2> QED BY <2>1, <2>2
<1>8. new \in Entries
  <2>1. new = [id |-> new.id, at |-> new.at, fresh |-> new.fresh, name |-> new.name]
    BY DEF EntryOf
  <2> HIDE DEF new
  <2> QED BY <2>1, <1>6, <1>7 DEF Entries
<1>9. table'.slot[d] = new
  BY <1>1, <1>3
<1> HIDE DEF new
<1>10. RpTypeOK'
  <2>1. table' \in Tables
    <3>1. Updated(table.order, d) \in [Slots -> Slots]
      BY <1>1, UpdatedIsOrder, EntriesOfTable DEF RpInv, RpTypeOK
    <3>2. [table.slot EXCEPT ![d] = new] \in [Slots -> Entries]
      BY <1>8, EntriesOfTable DEF RpInv
    <3> QED BY <1>2, <3>1, <3>2 DEF Tables, new
  <2>2. \A s \in Slots : \E i \in Slots : table'.order[i] = s
    <3>1. table'.order = Updated(table.order, d)
      BY <1>2
    <3>2. \A r \in Slots : \E i \in Slots : Updated(table.order, d)[i] = r
      <4>1. table.order \in [Slots -> Slots] /\ \A s \in Slots : \E i \in Slots : table.order[i] = s
        BY EntriesOfTable DEF RpInv, RpTypeOK
      <4> QED BY <1>1, <4>1, UpdatedIsOrder
    <3> QED BY <3>1, <3>2
  <2>3. target' \in [Peers -> Targets] /\ latch' \subseteq Peers /\ dirty' \subseteq Peers
    BY <1>0, <1>5 DEF RpInv, RpTypeOK, Silent, Targets
  <2>4. rpPuts' \in 0..RpMaxPuts
    BY <1>0 DEF RpInv, RpTypeOK, RpAssumption
  <2> QED BY <1>0, <2>1, <2>2, <2>3, <2>4 DEF RpInv, RpTypeOK
<1>11. SlotInv'
  BY <1>1, <1>3, <1>6, <1>9 DEF RpInv, SlotInv, Used, RpAssumption
<1>12. NamesAreTheirOwn'
  BY <1>1, <1>3, <1>6, <1>7, <1>9 DEF RpInv, NamesAreTheirOwn
<1>13. PassInv'
  BY <1>0 DEF PassInv
<1>14. ShapeInv'
  <2> SUFFICES ASSUME ~allPending, ~noticed, here # 0, NEW s \in Slots,
                      table'.slot[s].fresh, table'.slot[s].id \notin dirty'
               PROVE  Shaped(table'.slot[s], here, target', latch')
    BY <1>0 DEF ShapeInv
  <2>1. s # d
    BY <1>0, <1>6, <1>9
  <2>2. table'.slot[s] = table.slot[s] /\ Used(s) /\ table.slot[s].id \in Peers
    BY <1>3, <2>1, EntriesOfTable DEF RpInv, SlotInv, Used
  <2>3. table.slot[s].id \notin gone
    BY <1>1, <1>4, <2>1, <2>2 DEF RpInv, SlotInv
  <2>4. table.slot[s].id \notin dirty
    BY <1>0, <2>2, <2>3
  <2>5. Shaped(table.slot[s], here, target, latch)
    BY <1>0, <2>2, <2>4 DEF RpInv, ShapeInv, NoPass
  <2> QED BY <1>0, <2>2, <2>3, <2>5 DEF Shaped
<1> QED BY <1>10, <1>11, <1>12, <1>13, <1>14 DEF RpInv
-----------------------------------------------------------------------------
\* Whoever leaves a slot leaves it free.
LEMMA LeavingKeepsShape ==
  ASSUME RpAssumption, RpInv, NEW p \in Peers, PeerGone(p)
  PROVE  RpInv'
<1>0. /\ allPending' = allPending /\ here' = here /\ noticed' = noticed /\ pass' = pass
      /\ pass = NoPass /\ rpPuts' = rpPuts
      /\ rpEvents < RpMaxEvents /\ rpEvents' = rpEvents + 1
      /\ target' = [q \in Peers |-> IF q \in {p} THEN Silent ELSE target[q]]
      /\ latch' = latch \ {p} /\ dirty' = dirty \ {p}
  BY DEF PeerGone, Resting, Invalidate, Happens
<1>1. table' = [slot |-> [s \in Slots |-> IF table.slot[s].id = p THEN Free ELSE table.slot[s]],
                order |-> table.order]
  BY EntriesOfTable DEF PeerGone, RpInv
<1>2. \A s \in Slots : table'.slot[s] = IF table.slot[s].id = p THEN Free ELSE table.slot[s]
  BY <1>1
<1>3. RpTypeOK'
  <2>1. table' \in Tables
    BY <1>1, EntriesOfTable, FreeIsAnEntry DEF RpInv, Tables
  <2>2. \A s \in Slots : \E i \in Slots : table'.order[i] = s
    BY <1>1 DEF RpInv, RpTypeOK
  <2>3. target' \in [Peers -> Targets] /\ latch' \subseteq Peers /\ dirty' \subseteq Peers
    BY <1>0 DEF RpInv, RpTypeOK, Silent, Targets
  <2>4. rpEvents' \in 0..RpMaxEvents
    BY <1>0 DEF RpInv, RpTypeOK, RpAssumption
  <2> QED BY <1>0, <2>1, <2>2, <2>3, <2>4 DEF RpInv, RpTypeOK
<1>4. SlotInv' /\ NamesAreTheirOwn'
  BY <1>2, FreeIsAnEntry DEF RpInv, SlotInv, Used, NamesAreTheirOwn
<1>5. PassInv'
  BY <1>0 DEF PassInv
<1>6. ShapeInv'
  <2> SUFFICES ASSUME ~allPending, ~noticed, here # 0, NEW s \in Slots,
                      table'.slot[s].fresh, table'.slot[s].id \notin dirty'
               PROVE  Shaped(table'.slot[s], here, target', latch')
    BY <1>0 DEF ShapeInv
  <2>1. table'.slot[s] = table.slot[s] /\ table.slot[s].id # p /\ table.slot[s].fresh
    BY <1>2, FreeIsAnEntry
  <2>2. table.slot[s].id \in Peers
    BY <2>1, EntriesOfTable DEF RpInv, SlotInv, Used
  <2>3. Shaped(table.slot[s], here, target, latch)
    BY <1>0, <2>1 DEF RpInv, ShapeInv, NoPass
  <2> QED BY <1>0, <2>1, <2>2, <2>3 DEF Shaped
<1> QED BY <1>3, <1>4, <1>5, <1>6 DEF RpInv

LEMMA ResetKeepsShape == ASSUME RpAssumption, RpInv, SessionReset PROVE RpInv'
<1>0. /\ here' = here /\ noticed' = noticed /\ pass' = pass /\ pass = NoPass
      /\ rpPuts' = rpPuts /\ rpEvents < RpMaxEvents /\ rpEvents' = rpEvents + 1
      /\ target' = [q \in Peers |-> IF q \in Peers THEN Silent ELSE target[q]]
      /\ latch' = latch \ Peers /\ dirty' = {} /\ allPending' = FALSE
  BY DEF SessionReset, Resting, Invalidate, Happens
<1>1. table' = [slot |-> [s \in Slots |-> Free], order |-> table.order]
  BY DEF SessionReset, EmptyTable
<1>2. RpTypeOK'
  <2>1. table' \in Tables
    BY <1>1, EntriesOfTable, FreeIsAnEntry DEF RpInv, Tables
  <2>2. \A s \in Slots : \E i \in Slots : table'.order[i] = s
    BY <1>1 DEF RpInv, RpTypeOK
  <2>3. target' \in [Peers -> Targets] /\ latch' \subseteq Peers /\ dirty' \subseteq Peers
    BY <1>0 DEF RpInv, RpTypeOK, Silent, Targets
  <2>4. rpEvents' \in 0..RpMaxEvents
    BY <1>0 DEF RpInv, RpTypeOK, RpAssumption
  <2> QED BY <1>0, <2>1, <2>2, <2>3, <2>4 DEF RpInv, RpTypeOK
<1>3. \A s \in Slots : table'.slot[s] = Free
  BY <1>1
<1>4. SlotInv' /\ NamesAreTheirOwn'
  BY <1>3, FreeIsAnEntry DEF SlotInv, Used, NamesAreTheirOwn
<1>5. PassInv' /\ ShapeInv'
  BY <1>0, <1>3, FreeIsAnEntry DEF PassInv, ShapeInv
<1> QED BY <1>2, <1>4, <1>5 DEF RpInv

LEMMA ExpiryKeepsShape ==
  ASSUME RpAssumption, RpInv, NEW d \in Slots, Expire(d)
  PROVE  RpInv'
<1>0. /\ dirty' = dirty /\ allPending' = allPending /\ here' = here /\ noticed' = noticed
      /\ pass' = pass /\ pass = NoPass /\ latch' = latch /\ target' = target
      /\ rpPuts' = rpPuts /\ rpEvents < RpMaxEvents /\ rpEvents' = rpEvents + 1
      /\ table' = [table EXCEPT !.slot[d].fresh = FALSE]
  BY DEF Expire, Resting, Happens, sound
<1> DEFINE old == [table.slot[d] EXCEPT !.fresh = FALSE]
<1>1. table' = [slot |-> [table.slot EXCEPT ![d] = old], order |-> table.order]
  BY <1>0, EntriesOfTable DEF RpInv
<1>2. old \in Entries /\ old.id = table.slot[d].id /\ old.name = table.slot[d].name /\ ~old.fresh
  <2>1. table.slot[d] \in Entries
    BY EntriesOfTable DEF RpInv
  <2> QED BY <2>1 DEF Entries
<1> HIDE DEF old
<1>3. \A s \in Slots : table'.slot[s] = IF s = d THEN old ELSE table.slot[s]
  BY <1>1, EntriesOfTable DEF RpInv
<1>4. RpTypeOK'
  <2>1. table' \in Tables
    BY <1>1, <1>2, EntriesOfTable DEF RpInv, Tables
  <2>2. \A s \in Slots : \E i \in Slots : table'.order[i] = s
    BY <1>1 DEF RpInv, RpTypeOK
  <2>4. rpEvents' \in 0..RpMaxEvents
    BY <1>0 DEF RpInv, RpTypeOK, RpAssumption
  <2> QED BY <1>0, <2>1, <2>2, <2>4 DEF RpInv, RpTypeOK
<1>5. SlotInv' /\ NamesAreTheirOwn'
  BY <1>2, <1>3 DEF RpInv, SlotInv, Used, NamesAreTheirOwn
<1>6. PassInv'
  BY <1>0 DEF PassInv
<1>7. ShapeInv'
  BY <1>0, <1>2, <1>3 DEF RpInv, ShapeInv, Shaped, NoPass
<1> QED BY <1>4, <1>5, <1>6, <1>7 DEF RpInv

\* The watcher: whatever it does asks for a pass.
LEMMA WatcherKeepsShape ==
  ASSUME RpAssumption, RpInv, OwnSample \/ \E l \in Places \cup {0} : OwnMove(l)
  PROVE  RpInv'
<1>0. /\ table' = table /\ dirty' = dirty /\ pass' = pass /\ latch' = latch /\ target' = target
      /\ rpPuts' = rpPuts /\ here' \in Places \cup {0}
      /\ noticed' \in BOOLEAN /\ allPending' \in BOOLEAN /\ (noticed' \/ allPending')
  BY DEF OwnSample, OwnMove, sound, bounds, RpInv, RpTypeOK
<1>e. rpEvents' \in 0..RpMaxEvents
  <2>1. rpEvents \in 0..RpMaxEvents /\ RpMaxEvents \in Nat
    BY DEF RpInv, RpTypeOK, RpAssumption
  <2>2. CASE OwnSample
    BY <2>1, <2>2 DEF OwnSample, bounds
  <2>3. CASE \E l \in Places \cup {0} : OwnMove(l)
    BY <2>1, <2>3 DEF OwnMove, Happens
  <2> QED BY <2>2, <2>3
<1>1. RpTypeOK'
  BY <1>0, <1>e DEF RpInv, RpTypeOK
<1>2. SlotInv' /\ NamesAreTheirOwn'
  BY <1>0 DEF RpInv, SlotInv, Used, NamesAreTheirOwn
<1>3. PassInv' /\ ShapeInv'
  BY <1>0 DEF RpInv, PassInv, ShapeInv, Snapshot, Used
<1> QED BY <1>1, <1>2, <1>3 DEF RpInv
-----------------------------------------------------------------------------
\* The beginning of a pass.
LEMMA BeginKeepsShape == ASSUME RpAssumption, RpInv, DrainBegin PROVE RpInv'
<1>0. /\ dirty' = dirty /\ here' = here /\ noticed' = noticed /\ latch' = latch
      /\ target' = target /\ rpPuts' = rpPuts /\ rpEvents' = rpEvents /\ allPending' = FALSE
      /\ pass = NoPass /\ pass'.kind = (IF allPending THEN "all" ELSE "dirty")
      /\ pass'.at = here /\ pass'.entries = Snapshot /\ table' = Swept
  BY DEF DrainBegin, Resting, sound, bounds
<1>1. table' = [slot |-> [s \in Slots |-> IF table.slot[s].fresh THEN table.slot[s] ELSE Free],
                order |-> table.order]
  BY <1>0, EntriesOfTable DEF Swept, RpInv
<1>2. \A s \in Slots : table'.slot[s] = IF table.slot[s].fresh THEN table.slot[s] ELSE Free
  BY <1>1
<1>3. RpTypeOK'
  <2>1. table' \in Tables
    BY <1>1, EntriesOfTable, FreeIsAnEntry DEF RpInv, Tables
  <2>2. \A s \in Slots : \E i \in Slots : table'.order[i] = s
    BY <1>1 DEF RpInv, RpTypeOK
  <2> QED BY <1>0, <2>1, <2>2 DEF RpInv, RpTypeOK
<1>4. SlotInv' /\ NamesAreTheirOwn'
  BY <1>2, FreeIsAnEntry DEF RpInv, SlotInv, Used, NamesAreTheirOwn
<1>5. Snapshot' = Snapshot
  <2>1. {r \in Slots : table'.slot[r].fresh} = {r \in Slots : table.slot[r].fresh}
    BY <1>2, FreeIsAnEntry, EntriesOfTable DEF RpInv
  <2> QED BY <1>2, <2>1 DEF Snapshot
<1>6. PassInv'
  BY <1>0, <1>2, <1>5, FreeIsAnEntry DEF RpInv, RpTypeOK, PassInv, Used
<1>7. ShapeInv'
  BY <1>0, <1>2, FreeIsAnEntry DEF RpInv, ShapeInv, NoPass
<1> QED BY <1>3, <1>4, <1>6, <1>7 DEF RpInv

\* A pass over everybody.
LEMMA AllKeepsShape == ASSUME RpAssumption, RpInv, PassAll PROVE RpInv'
<1> DEFINE S == {r \in Slots : table.slot[r].fresh}
           es == [s \in S |-> table.slot[s]]
           present == {es[i].id : i \in DOMAIN es}
           gone == {p \in Peers \ present : target[p] # Silent}
<1>0. /\ table' = table /\ allPending' = allPending /\ here' = here /\ noticed' = noticed
      /\ rpPuts' = rpPuts /\ rpEvents' = rpEvents /\ pass' = NoPass /\ pass.kind = "all"
  BY DEF PassAll, bounds
<1>1. pass # NoPass
  BY <1>0 DEF NoPass
<1>2. pass.entries = es /\ pass.at \in Places \cup {0} /\ (pass.at = here \/ noticed \/ allPending)
  BY <1>1 DEF RpInv, PassInv, Snapshot
<1>3. dirty' = dirty \ present /\ Publish(es, pass.at, gone)
  BY <1>2 DEF PassAll
<1> HIDE DEF es, present, gone
<1>4. S \in SUBSET Slots /\ gone \in SUBSET Peers
  BY DEF gone
<1>5. \A s \in Slots : table.slot[s].id \in present \/ table.slot[s].id = Nobody
  <2>1. \A s \in Slots : s \in S \/ ~Used(s)
    BY <1>1 DEF RpInv, PassInv
  <2>2. \A s \in S : table.slot[s].id \in present
    BY DEF es, present
  <2> QED BY <2>1, <2>2 DEF Used
<1>6. \A s \in Slots : table.slot[s].id \notin gone
  BY <1>5 DEF gone, RpAssumption
<1>7. /\ target' \in [Peers -> Targets] /\ latch' \in SUBSET Peers
      /\ pass.at # 0 => \A s \in S : Shaped(table.slot[s], pass.at, target', latch')
  BY <1>2, <1>3, <1>4, <1>6, PublishShapes DEF es, RpInv
<1>8. RpTypeOK'
  BY <1>0, <1>3, <1>7 DEF RpInv, RpTypeOK, NoPass
<1>9. SlotInv' /\ NamesAreTheirOwn' /\ PassInv'
  BY <1>0 DEF RpInv, SlotInv, Used, NamesAreTheirOwn, PassInv
<1>10. ShapeInv'
  BY <1>0, <1>2, <1>7 DEF ShapeInv
<1> QED BY <1>8, <1>9, <1>10 DEF RpInv

\* A pass over some of the marked.
LEMMA DirtyKeepsShape == ASSUME RpAssumption, RpInv, PassDirty PROVE RpInv'
<1> DEFINE F == {r \in Slots : table.slot[r].fresh}
           due == {s \in DOMAIN pass.entries : pass.entries[s].id \in dirty}
           S == {d \in due : Cardinality({r \in due : r < d}) < RpBudget}
           es == [s \in S |-> pass.entries[s]]
<1>0. /\ table' = table /\ allPending' = allPending /\ here' = here /\ noticed' = noticed
      /\ rpPuts' = rpPuts /\ rpEvents' = rpEvents /\ pass' = NoPass /\ pass.kind = "dirty"
  BY DEF PassDirty, bounds
<1>1. pass # NoPass
  BY <1>0 DEF NoPass
<1>2. pass.entries = [s \in F |-> table.slot[s]] /\ pass.at \in Places \cup {0}
      /\ (pass.at = here \/ noticed \/ allPending)
  BY <1>1 DEF RpInv, PassInv, Snapshot
<1>3. dirty' = dirty \ {es[i].id : i \in DOMAIN es} /\ Publish(es, pass.at, {})
  BY DEF PassDirty
<1>4. S \subseteq F /\ F \subseteq Slots
  BY <1>2
<1> HIDE DEF S
<1>5. es = [s \in S |-> table.slot[s]]
  BY <1>2, <1>4
<1> HIDE DEF es, due
<1>6. dirty' = dirty \ {table.slot[s].id : s \in S}
  BY <1>3, <1>5
<1>7. /\ target' \in [Peers -> Targets] /\ latch' \in SUBSET Peers
      /\ pass.at # 0 => \A s \in S : Shaped(table.slot[s], pass.at, target', latch')
      /\ \A s \in Slots \ S : Used(s) /\ Shaped(table.slot[s], pass.at, target, latch)
                                => Shaped(table.slot[s], pass.at, target', latch')
  <2>1. \A s \in S : table.slot[s].fresh
    BY <1>4
  <2>2. Publish([s \in S |-> table.slot[s]], pass.at, {})
    BY <1>3, <1>5
  <2>3. S \in SUBSET Slots
    BY <1>4
  <2> HIDE DEF F
  <2>4. {} \in SUBSET Peers /\ \A s \in Slots : table.slot[s].id \notin {}
    OBVIOUS
  <2> QED BY <1>2, <2>1, <2>2, <2>3, <2>4, PublishShapes DEF RpInv
<1>8. RpTypeOK'
  BY <1>0, <1>6, <1>7 DEF RpInv, RpTypeOK, NoPass
<1>9. SlotInv' /\ NamesAreTheirOwn' /\ PassInv'
  BY <1>0 DEF RpInv, SlotInv, Used, NamesAreTheirOwn, PassInv
<1>10. ShapeInv'
  <2> SUFFICES ASSUME ~allPending, ~noticed, here # 0, NEW s \in Slots,
                      table.slot[s].fresh, table.slot[s].id \notin dirty'
               PROVE  Shaped(table.slot[s], here, target', latch')
    BY <1>0 DEF ShapeInv
  <2>1. pass.at = here
    BY <1>2
  <2>2. CASE s \in S
    BY <1>7, <2>1, <2>2
  <2>3. CASE s \notin S
    <3>1. Used(s)
      BY DEF RpInv, SlotInv
    <3>2. table.slot[s].id \notin dirty
      <4> SUFFICES ASSUME table.slot[s].id \in {table.slot[r].id : r \in S}  PROVE FALSE
        BY <1>6
      <4>1. PICK r \in S : table.slot[r].id = table.slot[s].id
        OBVIOUS
      <4> QED BY <4>1, <1>4, <2>3, <3>1 DEF RpInv, SlotInv
    <3>3. Shaped(table.slot[s], here, target, latch)
      BY <1>0, <3>2 DEF RpInv, ShapeInv
    <3> QED BY <1>7, <2>1, <2>3, <3>1, <3>3
  <2> QED BY <2>2, <2>3
<1> QED BY <1>8, <1>9, <1>10 DEF RpInv
-----------------------------------------------------------------------------
LEMMA RpStepInv == ASSUME RpAssumption, RpInv, [RpNext]_rpvars PROVE RpInv'
<1>1. CASE RpNext
  <2>1. CASE \E p \in Peers, at \in Places : \E name \in {p, Nobody} : CeposReceived(p, name, at)
    BY <2>1, ReceivedKeepsShape
  <2>2. CASE \E p \in Peers : PeerGone(p)
    BY <2>2, LeavingKeepsShape
  <2>3. CASE SessionReset
    BY <2>3, ResetKeepsShape
  <2>4. CASE \E s \in Slots : Expire(s)
    BY <2>4, ExpiryKeepsShape
  <2>5. CASE OwnSample \/ \E l \in Places \cup {0} : OwnMove(l)
    BY <2>5, WatcherKeepsShape
  <2>6. CASE Drain
    BY <2>6, BeginKeepsShape, AllKeepsShape, DirtyKeepsShape DEF Drain
  <2> QED BY <1>1, <2>1, <2>2, <2>3, <2>4, <2>5, <2>6 DEF RpNext
<1>2. CASE UNCHANGED rpvars
  <2>0. /\ table' = table /\ dirty' = dirty /\ allPending' = allPending /\ here' = here
        /\ noticed' = noticed /\ pass' = pass /\ latch' = latch /\ target' = target
        /\ rpPuts' = rpPuts /\ rpEvents' = rpEvents
    BY <1>2 DEF rpvars
  <2>1. RpTypeOK'
    BY <2>0 DEF RpInv, RpTypeOK
  <2>2. SlotInv' /\ NamesAreTheirOwn'
    BY <2>0 DEF RpInv, SlotInv, Used, NamesAreTheirOwn
  <2>3. Snapshot' = Snapshot
    BY <2>0 DEF Snapshot
  <2>4. PassInv' /\ ShapeInv'
    BY <2>0, <2>3 DEF RpInv, PassInv, ShapeInv, Used
  <2> QED BY <2>1, <2>2, <2>4 DEF RpInv
<1> QED BY <1>1, <1>2

\* ShapeInv is about every moment, the property about those when nothing is asked for.
LEMMA ShapeMeansShaped == ASSUME RpAssumption, RpInv PROVE ShapedByLastPositions
<1> SUFFICES ASSUME Idle, NEW s \in Slots, Used(s), table.slot[s].fresh,
                    table.slot[s].id \notin dirty, here # 0
             PROVE  target[table.slot[s].id] =
                      CASE Class(table.slot[s].at, here) = "near" ->
                             [at |-> table.slot[s].at, from |-> here]
                        [] Class(table.slot[s].at, here) = "far" -> Silent
                        [] OTHER -> IF table.slot[s].id \in latch
                                    THEN [at |-> table.slot[s].at, from |-> here] ELSE Silent
  BY DEF ShapedByLastPositions
<1> DEFINE e == table.slot[s]
<1>1. Shaped(e, here, target, latch)
  BY DEF RpInv, ShapeInv, Idle, Resting, NoPass
<1>2. Class(e.at, here) \in {"near", "band", "far"}
  BY DEF Class
<1> HIDE DEF e
<1>3. target[e.id] = CASE Class(e.at, here) = "near" -> [at |-> e.at, from |-> here]
                       [] Class(e.at, here) = "far" -> Silent
                       [] OTHER -> IF e.id \in latch THEN [at |-> e.at, from |-> here] ELSE Silent
  BY <1>1, <1>2 DEF Shaped
<1> QED BY <1>3 DEF e

LEMMA RpInitInv == ASSUME RpAssumption, RpInit PROVE RpInv
<1>1. table.slot = [s \in Slots |-> Free] /\ table.order = [s \in Slots |-> s]
      /\ table = [slot |-> table.slot, order |-> table.order]
  BY DEF RpInit, EmptyTable
<1>2. table \in Tables
  BY <1>1, FreeIsAnEntry DEF Tables
<1>3. \A s \in Slots : table.order[s] = s /\ table.slot[s] = Free
  BY <1>1
<1>4. target \in [Peers -> Targets] /\ 0 \in 0..RpMaxPuts /\ 0 \in 0..RpMaxEvents
  BY DEF RpInit, Silent, Targets, RpAssumption
<1>5. RpTypeOK
  BY <1>2, <1>3, <1>4 DEF RpInit, RpTypeOK, NoPass
<1>6. SlotInv /\ NamesAreTheirOwn
  BY <1>3, FreeIsAnEntry DEF SlotInv, Used, NamesAreTheirOwn
<1>7. PassInv /\ ShapeInv
  BY <1>3, FreeIsAnEntry DEF RpInit, PassInv, ShapeInv
<1> QED BY <1>5, <1>6, <1>7 DEF RpInv

\* Whenever no pass is asked for, every voice is shaped by the last positions
\* of its own speaker and of the listener, and no name or position of one
\* player is kept for another: for any number of players and slots, however
\* small the budget of a pass is.
THEOREM VoicesAreShapedRight ==
  ASSUME RpAssumption
  PROVE  RpSpec => [](RpTypeOK /\ PlayersSafe)
<1>1. RpInit => RpInv
  BY RpInitInv
<1>2. RpInv /\ [RpNext]_rpvars => RpInv'
  BY RpStepInv
<1>3. RpInv => RpTypeOK /\ PlayersSafe
  BY ShapeMeansShaped DEF RpInv, PlayersSafe
<1> QED BY <1>1, <1>2, <1>3, PTL DEF RpSpec

\* No player who is heard loses his slot while a free or an expired one could
\* be taken, or while another has been silent longer.
THEOREM NobodyIsDisplacedEarly ==
  ASSUME RpAssumption
  PROVE  RpSpec => NobodyDisplacedEarly
<1>1. RpInit => RpInv
  BY RpInitInv
<1>2. RpInv /\ [RpNext]_rpvars => RpInv'
  BY RpStepInv
<1>3. RpInv /\ [RpNext]_rpvars => [DisplacedLate]_rpvars
  BY FewPut
<1> QED BY <1>1, <1>2, <1>3, PTL DEF RpSpec, NobodyDisplacedEarly
-----------------------------------------------------------------------------
(* Heartbeat: numbers that wrap around.                                    *)

LEMMA WrapOnce ==
  ASSUME NEW n \in Nat \ {0}, NEW c \in 0..2 * n - 1
  PROVE  c % n = IF c < n THEN c ELSE c - n
<1> DEFINE r == IF c < n THEN c ELSE c - n
           k == IF c < n THEN 0 ELSE 1
<1>1. c = n * k + r /\ r \in 0..n-1 /\ k \in Int
  OBVIOUS
<1>2. c = n * (c \div n) + (c % n) /\ c % n \in 0..n-1 /\ c \div n \in Nat
  <2>1. c \in Nat
    OBVIOUS
  <2> QED BY <2>1, Remainder
<1> HIDE DEF k
<1>3. r \in 0..n-1
  BY <1>1
<1> QED BY <1>1, <1>2, QuotientIsOne

LEMMA HalfOf ==
  ASSUME HbAssumption
  PROVE  /\ HbMod \in Nat \ {0} /\ HbMaxBeats \in Nat /\ HbWindow \in Nat /\ HbFloor \in Nat \ {0}
         /\ HbMaxEvents \in Nat /\ HbMod \div 2 \in Nat /\ 2 * (HbMod \div 2) <= HbMod
         /\ HbMaxBeats < HbMod \div 2
BY DEF HbAssumption

\* The numbers of two positions of one run are as far apart as the positions.
LEMMA NumbersApart ==
  ASSUME HbAssumption, HbTypeOK, NEW m \in 0..HbMaxBeats, NEW n \in 0..HbMaxBeats,
         NEW track, track.seq = NumberOf(m)
  PROVE  /\ NumberOf(n) \in 0..HbMod - 1
         /\ n >= m => Ahead(track, NumberOf(n)) = n - m
         /\ n < m  => Ahead(track, NumberOf(n)) = HbMod - (m - n)
         /\ n <= m => Behind(track, NumberOf(n)) = m - n
<1> DEFINE f == hbSelf.from
           N(i) == IF f + i < HbMod THEN f + i ELSE (f + i) - HbMod
<1>1. /\ HbMod \in Nat \ {0} /\ HbMaxBeats \in Nat /\ HbMod \div 2 \in Nat
      /\ 2 * (HbMod \div 2) <= HbMod /\ HbMaxBeats < HbMod \div 2
  BY HalfOf
<1>2. f \in 0..HbMod - 1
  <2>1. f \in HbStarts \cup {0}
    BY DEF HbTypeOK, Senders
  <2>2. HbStarts \subseteq 0..HbMod - 1 /\ 0 \in 0..HbMod - 1
    BY HalfOf DEF HbAssumption
  <2> QED BY <2>1, <2>2
<1> HIDE DEF f
<1>3. ASSUME NEW i \in 0..HbMaxBeats  PROVE NumberOf(i) = N(i) /\ N(i) \in 0..HbMod - 1
  <2>1. f + i \in 0..2 * HbMod - 1
    BY <1>1, <1>2
  <2>2. (f + i) % HbMod = IF f + i < HbMod THEN f + i ELSE (f + i) - HbMod
    <3> DEFINE c == f + i
    <3>1. HbMod \in Nat \ {0} /\ c \in 0..2 * HbMod - 1
      BY <1>1, <2>1
    <3> HIDE DEF c
    <3>2. c % HbMod = IF c < HbMod THEN c ELSE c - HbMod
      BY <3>1, WrapOnce
    <3> QED BY <3>2 DEF c
  <2> QED BY <1>1, <1>2, <2>2 DEF NumberOf, f
<1>4. ASSUME NEW i \in 0..HbMod - 1, NEW j \in 0..HbMod - 1
      PROVE  (i + HbMod - j) % HbMod = IF i >= j THEN i - j ELSE i + HbMod - j
  <2> DEFINE c == i + HbMod - j
  <2>1. HbMod \in Nat \ {0} /\ c \in 0..2 * HbMod - 1
    BY <1>1
  <2>2. c < HbMod <=> i < j
    BY <1>1
  <2>3. c - HbMod = i - j
    BY <1>1
  <2> HIDE DEF c
  <2>4. c % HbMod = IF c < HbMod THEN c ELSE c - HbMod
    BY <2>1, WrapOnce
  <2>5. c % HbMod = IF i >= j THEN i - j ELSE c
    BY <2>2, <2>3, <2>4
  <2> QED BY <2>5 DEF c
<1>5. Ahead(track, NumberOf(n)) = IF N(n) >= N(m) THEN N(n) - N(m) ELSE N(n) + HbMod - N(m)
  BY <1>3, <1>4 DEF Ahead
<1>6. Behind(track, NumberOf(n)) = IF N(m) >= N(n) THEN N(m) - N(n) ELSE N(m) + HbMod - N(n)
  BY <1>3, <1>4 DEF Behind
<1> QED BY <1>1, <1>2, <1>3, <1>5, <1>6

\* What the receiver does with position n when m is the newest it has.
LEMMA Observed ==
  ASSUME HbAssumption, HbTypeOK, NEW m \in 0..HbMaxBeats, NEW n \in 0..HbMaxBeats,
         NEW track \in Tracks, track.has, track.seq = NumberOf(m)
  PROVE  /\ n > m => IsForward(track, NumberOf(n)) /\ Missed(track, NumberOf(n)) = n - m - 1
         /\ n <= m => /\ ~IsForward(track, NumberOf(n)) /\ Missed(track, NumberOf(n)) = 0
                      /\ Rebased(track, NumberOf(n)) => n < m
                      /\ n + HbWindow >= m => ~Rebased(track, NumberOf(n))
<1>1. /\ HbMod \in Nat \ {0} /\ HbMaxBeats \in Nat /\ HbMod \div 2 \in Nat /\ HbWindow \in Nat
      /\ 2 * (HbMod \div 2) <= HbMod /\ HbMaxBeats < HbMod \div 2
  BY HalfOf
<1> DEFINE half == HbMod \div 2
<1> HIDE DEF half
<1>2. CASE n > m
  <2>1. Ahead(track, NumberOf(n)) = n - m
    BY <1>2, <1>1, NumbersApart
  <2>2. n - m \in 1..HbMod \div 2 - 1
    BY <1>1, <1>2
  <2> QED BY <1>2, <2>1, <2>2 DEF IsForward, Missed
<1>3. CASE n = m
  <2>1. Ahead(track, NumberOf(n)) = 0 /\ Behind(track, NumberOf(n)) = 0
    BY <1>3, <1>1, NumbersApart
  <2> QED BY <1>1, <1>3, <2>1 DEF IsForward, Missed, Rebased
<1>4. CASE n < m
  <2>1. Ahead(track, NumberOf(n)) = HbMod - (m - n) /\ Behind(track, NumberOf(n)) = m - n
    BY <1>4, <1>1, NumbersApart
  <2>2. HbMod - (m - n) \notin 1..HbMod \div 2 - 1
    BY <1>1, <1>4
  <2>3. ~IsForward(track, NumberOf(n))
    BY <2>1, <2>2 DEF IsForward
  <2> QED BY <1>1, <1>4, <2>1, <2>3 DEF Missed, Rebased
<1> QED BY <1>1, <1>2, <1>3, <1>4
-----------------------------------------------------------------------------
\* What is known of the position the receiver has come to: it is that of the
\* newest beat, or the last number of a count that was given up.
TrackInv ==
  /\ hbAir \subseteq 1..hbSelf.n
  /\ ~hbTrack.has => hbBase = 0 /\ hbTrack.seq = 0
  /\ hbBase = 0 => hbNewest = 0 /\ (hbTrack.has => hbSelf.from = 0 /\ hbTrack.seq <= HbMaxBeats)
  /\ hbBase > 0 => /\ hbTrack.seq = NumberOf(hbNewest) /\ hbBase <= hbNewest
                    /\ hbFate[hbNewest] # "none"

\* Nothing is known beyond that position, and while the count has not been
\* taken up nothing can arrive from before what has arrived.
FateInv ==
  \A i \in Beats : hbFate[i] # "none" =>
    IF hbBase > 0 THEN i <= hbNewest
    ELSE i <= hbTrack.seq /\ i <= hbSelf.n /\ \A m \in hbAir : m >= i

LossInv == hbLosses = hbTold + hbTrack.suppressed

HbInv == HbTypeOK /\ TrackInv /\ FateInv /\ LossInv /\ LossesAreTrue

LEMMA HbParts ==
  ASSUME HbAssumption, HbTypeOK
  PROVE  /\ hbSelf.from \in HbStarts \cup {0} /\ hbSelf.n \in 0..HbMaxBeats
         /\ hbSelf.pend \in BOOLEAN /\ hbSelf.age \in 0..HbFloor
         /\ hbTrack.has \in BOOLEAN /\ hbTrack.seq \in 0..HbMod - 1
         /\ hbTrack.suppressed \in Nat /\ hbTrack.quiet \in 0..HbFloor
BY DEF HbTypeOK, Senders, Tracks

LEMMA UnseenIsATrack == ASSUME HbAssumption PROVE Unseen \in Tracks
BY HalfOf DEF Unseen, Tracks

LEMMA NoFatesYet ==
  /\ NoFates \in [0..HbMaxBeats -> {"none", "got", "missed", "phantom"}]
  /\ \A n \in 0..HbMaxBeats : NoFates[n] # "phantom"
  /\ \A n \in Beats : NoFates[n] = "none"
BY DEF NoFates, Beats
-----------------------------------------------------------------------------
\* The sender changes nothing of what the receiver has found.
LEMMA SenderKeepsLosses ==
  ASSUME HbAssumption, HbInv, HbTick \/ FlushTooEarly \/ \E ok \in BOOLEAN : FlushBeats(ok)
  PROVE  HbInv'
<1>p. /\ hbSelf \in Senders /\ hbTrack \in Tracks /\ HbFloor \in Nat \ {0} /\ HbMaxBeats \in Nat
      /\ HbMaxEvents \in Nat /\ hbSelf.n \in 0..HbMaxBeats /\ hbEvents \in 0..HbMaxEvents
  BY HalfOf, HbParts DEF HbInv, HbTypeOK
<1>0. /\ hbFate' = hbFate /\ hbBase' = hbBase /\ hbNewest' = hbNewest /\ hbLosses' = hbLosses
      /\ hbTold' = hbTold
  BY DEF HbTick, FlushTooEarly, FlushBeats
<1>1. hbSelf' \in Senders /\ hbSelf'.from = hbSelf.from
      /\ (hbSelf'.n = hbSelf.n \/ hbSelf'.n = hbSelf.n + 1)
  <2>1. CASE HbTick
    <3> DEFINE Later(t) == IF t = HbFloor THEN t ELSE t + 1
    <3>1. Later(hbSelf.age) \in 0..HbFloor
      BY <1>p DEF Senders
    <3>2. hbSelf' = [hbSelf EXCEPT !.pend = TRUE, !.age = Later(hbSelf.age)]
      BY <2>1 DEF HbTick
    <3> HIDE DEF Later
    <3> QED BY <1>p, <3>1, <3>2 DEF Senders
  <2>2. CASE FlushTooEarly
    BY <1>p, <2>2 DEF FlushTooEarly, Senders
  <2>3. CASE \E ok \in BOOLEAN : FlushBeats(ok)
    <3>1. PICK ok \in BOOLEAN : FlushBeats(ok)
      BY <2>3
    <3>2. hbSelf.n + 1 \in 0..HbMaxBeats /\ 0 \in 0..HbFloor
      <4>1. hbSelf.n < HbMaxBeats
        BY <3>1 DEF FlushBeats
      <4> QED BY <1>p, <4>1
    <3>3. PICK a \in {0, hbSelf.age} :
            hbSelf' = [hbSelf EXCEPT !.pend = FALSE, !.n = hbSelf.n + 1, !.age = a]
      BY <3>1 DEF FlushBeats
    <3>4. a \in 0..HbFloor
      BY <1>p, <3>2 DEF Senders
    <3> QED BY <1>p, <3>2, <3>3, <3>4 DEF Senders
  <2> QED BY <2>1, <2>2, <2>3
<1>2. /\ hbTrack' \in Tracks /\ hbTrack'.seq = hbTrack.seq /\ hbTrack'.has = hbTrack.has
      /\ hbTrack'.suppressed = hbTrack.suppressed
  <2>1. CASE HbTick
    <3> DEFINE Later(t) == IF t = HbFloor THEN t ELSE t + 1
    <3>1. Later(hbTrack.quiet) \in 0..HbFloor
      BY <1>p DEF Tracks
    <3>2. hbTrack' = [hbTrack EXCEPT !.quiet = Later(hbTrack.quiet)]
      BY <2>1 DEF HbTick
    <3> HIDE DEF Later
    <3> QED BY <1>p, <3>1, <3>2 DEF Tracks
  <2>2. CASE hbTrack' = hbTrack
    BY <1>p, <2>2
  <2> QED BY <2>1, <2>2 DEF FlushTooEarly, FlushBeats
<1>3. hbAir' \in {hbAir, hbAir \cup {hbSelf'.n}} /\ (hbSelf'.n = hbSelf.n => hbAir' = hbAir)
  <2>1. CASE HbTick \/ FlushTooEarly
    BY <2>1 DEF HbTick, FlushTooEarly
  <2>2. CASE \E ok \in BOOLEAN : FlushBeats(ok)
    <3>1. PICK ok \in BOOLEAN : FlushBeats(ok)
      BY <2>2
    <3>2. hbSelf'.n = hbSelf.n + 1
      BY <1>p, <3>1 DEF FlushBeats, Senders
    <3>3. hbAir' = hbAir \/ hbAir' = hbAir \cup {hbSelf.n + 1}
      BY <3>1 DEF FlushBeats
    <3>4. hbSelf.n + 1 # hbSelf.n
      BY <1>p
    <3> QED BY <3>2, <3>3, <3>4
  <2> QED BY <2>1, <2>2
<1>4. hbEvents' \in 0..HbMaxEvents
  <2>1. hbEvents' = hbEvents \/ (hbEvents < HbMaxEvents /\ hbEvents' = hbEvents + 1)
    BY DEF HbTick, FlushTooEarly, FlushBeats, BeatEvent
  <2> QED BY <1>p, <2>1
<1>5. hbSelf'.n \in 0..HbMaxBeats
  BY <1>1 DEF Senders
<1>6. TrackInv'
  <2>1. hbAir' \subseteq 1..hbSelf'.n
    <3>1. hbAir \subseteq 1..hbSelf'.n
      BY <1>p, <1>1 DEF HbInv, TrackInv
    <3> QED BY <1>p, <1>1, <1>3, <1>5, <3>1
  <2>2. hbBase > 0 => NumberOf(hbNewest)' = NumberOf(hbNewest)
    BY <1>0, <1>1 DEF NumberOf
  <2> QED BY <1>0, <1>1, <1>2, <2>1, <2>2 DEF HbInv, TrackInv
<1>7. HbTypeOK'
  <2>1. hbAir' \subseteq Beats
    BY <1>p, <1>5, <1>6 DEF TrackInv, Beats
  <2> QED BY <1>0, <1>1, <1>2, <1>4, <2>1 DEF HbInv, HbTypeOK
<1>8. FateInv'
  <2> SUFFICES ASSUME NEW i \in Beats, hbFate[i] # "none"
               PROVE  IF hbBase > 0 THEN i <= hbNewest
                      ELSE i <= hbTrack.seq /\ i <= hbSelf'.n /\ \A m \in hbAir' : m >= i
    BY <1>0, <1>2 DEF FateInv
  <2>1. i \in Nat
    BY DEF Beats
  <2> QED BY <1>p, <1>1, <1>3, <2>1 DEF HbInv, FateInv
<1>9. LossInv' /\ LossesAreTrue'
  BY <1>0, <1>2 DEF HbInv, LossInv, LossesAreTrue, NoPhantomLoss, EveryGapIsTold
<1> QED BY <1>6, <1>7, <1>8, <1>9 DEF HbInv

LEMMA RestartKeepsLosses == ASSUME HbAssumption, HbInv, Restart PROVE HbInv'
<1>p. /\ hbSelf \in Senders /\ hbTrack \in Tracks /\ HbFloor \in Nat \ {0} /\ HbMaxBeats \in Nat
      /\ HbMaxEvents \in Nat /\ hbEvents \in 0..HbMaxEvents /\ HbMod \in Nat \ {0}
  BY HalfOf, HbParts DEF HbInv, HbTypeOK
<1>0. /\ hbSelf.from = 0 /\ hbAir' = {} /\ hbFate' = NoFates /\ hbBase' = 0 /\ hbNewest' = 0
      /\ hbSelf' = [from |-> 0, n |-> 0, pend |-> FALSE, age |-> HbFloor]
      /\ hbEvents < HbMaxEvents /\ hbEvents' = hbEvents + 1
      /\ \/ hbTrack' = hbTrack /\ hbLosses' = hbLosses /\ hbTold' = hbTold
         \/ hbTrack' = Unseen /\ hbLosses' = 0 /\ hbTold' = 0
  BY DEF Restart, BeatEvent
<1>1. hbSelf' \in Senders /\ hbSelf'.from = 0 /\ hbSelf'.n = 0
  BY <1>0, <1>p DEF Senders
<1>2. hbTrack.has => hbTrack.seq <= HbMaxBeats
  <2>1. CASE hbBase = 0
    BY <2>1 DEF HbInv, TrackInv
  <2>2. CASE hbBase # 0
    <3>1. hbNewest \in 0..HbMaxBeats /\ hbBase > 0
      BY <2>2, <1>p DEF HbInv, HbTypeOK
    <3>2. hbTrack.seq = NumberOf(hbNewest)
      BY <3>1 DEF HbInv, TrackInv
    <3>3. HbMaxBeats < HbMod /\ hbNewest \in 0..2 * HbMod - 1 /\ hbNewest < HbMod
      BY <1>p, <3>1, HalfOf
    <3>4. NumberOf(hbNewest) = hbNewest % HbMod
      BY <1>0, <3>1 DEF NumberOf
    <3>5. hbNewest % HbMod = hbNewest
      BY <1>p, <3>3, WrapOnce
    <3> QED BY <3>1, <3>2, <3>4, <3>5
  <2> QED BY <2>1, <2>2
<1>3. hbTrack' \in Tracks
  BY <1>0, <1>p, UnseenIsATrack
<1>4. HbTypeOK'
  BY <1>0, <1>1, <1>3, <1>p, NoFatesYet DEF HbInv, HbTypeOK
<1>5. TrackInv'
  BY <1>0, <1>1, <1>2 DEF HbInv, TrackInv, Unseen
<1>6. FateInv'
  BY <1>0, NoFatesYet DEF FateInv
<1>7. LossInv'
  BY <1>0 DEF HbInv, LossInv, Unseen
<1>8. LossesAreTrue'
  BY <1>0, <1>7, NoFatesYet DEF LossesAreTrue, NoPhantomLoss, EveryGapIsTold, LossInv, Beats
<1> QED BY <1>4, <1>5, <1>6, <1>7, <1>8 DEF HbInv
-----------------------------------------------------------------------------
\* The position the receiver has come to, when it knows the peer.
Reached == IF hbBase > 0 THEN hbNewest ELSE hbTrack.seq

LEMMA ReachedIs ==
  ASSUME HbAssumption, HbInv, hbTrack.has
  PROVE  Reached \in 0..HbMaxBeats /\ hbTrack.seq = NumberOf(Reached)
<1>p. /\ HbMod \in Nat \ {0} /\ HbMaxBeats \in Nat /\ hbTrack.seq \in 0..HbMod - 1
      /\ hbBase \in 0..HbMaxBeats /\ hbNewest \in 0..HbMaxBeats
  BY HalfOf, HbParts DEF HbInv, HbTypeOK
<1>1. CASE hbBase > 0
  BY <1>1, <1>p DEF HbInv, TrackInv, Reached
<1>2. CASE hbBase = 0
  <2>1. hbSelf.from = 0 /\ hbTrack.seq <= HbMaxBeats
    BY <1>2 DEF HbInv, TrackInv
  <2>2. hbTrack.seq \in 0..2 * HbMod - 1 /\ hbTrack.seq < HbMod
    BY <1>p
  <2>3. hbTrack.seq % HbMod = hbTrack.seq
    BY <1>p, <2>2, WrapOnce
  <2>4. NumberOf(hbTrack.seq) = hbTrack.seq
    BY <1>p, <2>1, <2>3 DEF NumberOf
  <2> QED BY <1>p, <1>2, <2>1, <2>4 DEF Reached
<1> QED BY <1>p, <1>1, <1>2

\* A beat takes the count up when the peer is new or has restarted, and moves
\* it on when it is newer; the positions between are those that are missed.
LEMMA ArrivalIs ==
  ASSUME HbAssumption, HbInv, NEW n \in Beats, n + HbWindow >= hbNewest
  PROVE  LET seq    == NumberOf(n)
             missed == Missed(hbTrack, seq)
             moves  == ~hbTrack.has \/ IsForward(hbTrack, seq) \/ Rebased(hbTrack, seq)
         IN /\ missed \in Nat /\ seq \in 0..HbMod - 1
            /\ ~hbTrack.has => missed = 0
            /\ hbTrack.has /\ n > Reached => missed = n - Reached - 1
            /\ hbTrack.has /\ n <= Reached => missed = 0
            /\ hbTrack.has /\ hbBase > 0 => (moves <=> n > Reached)
            /\ hbTrack.has /\ n > Reached => moves
<1>p. /\ HbMod \in Nat \ {0} /\ HbMaxBeats \in Nat /\ hbTrack.has \in BOOLEAN
      /\ n \in 0..HbMaxBeats /\ 0 \in 0..HbMaxBeats /\ hbTrack \in Tracks
  BY HalfOf, HbParts DEF HbInv, HbTypeOK, Beats
<1>1. NumberOf(n) \in 0..HbMod - 1
  <2>1. NumberOf(0) = [seq |-> NumberOf(0)].seq
    OBVIOUS
  <2> QED BY <2>1, <1>p, NumbersApart DEF HbInv
<1>2. CASE ~hbTrack.has
  BY <1>1, <1>2, <1>p DEF Missed
<1>3. CASE hbTrack.has
  <2>1. Reached \in 0..HbMaxBeats /\ hbTrack.seq = NumberOf(Reached)
    BY <1>3, ReachedIs
  <2>2. hbBase > 0 => n + HbWindow >= Reached
    BY DEF Reached
  <2>3. /\ n > Reached => /\ IsForward(hbTrack, NumberOf(n))
                          /\ Missed(hbTrack, NumberOf(n)) = n - Reached - 1
        /\ n <= Reached => /\ ~IsForward(hbTrack, NumberOf(n)) /\ Missed(hbTrack, NumberOf(n)) = 0
                           /\ n + HbWindow >= Reached => ~Rebased(hbTrack, NumberOf(n))
    BY <1>p, <1>3, <2>1, Observed DEF HbInv
  <2>4. n - Reached - 1 \in Nat \/ n <= Reached
    BY <1>p, <2>1
  <2>5. n > Reached \/ n <= Reached
    BY <1>p, <2>1
  <2> QED BY <1>1, <1>3, <2>2, <2>3, <2>4, <2>5
<1> QED BY <1>p, <1>2, <1>3

LEMMA ArrivalKeepsLosses ==
  ASSUME HbAssumption, HbInv, NEW n \in Beats, Arrives(n)
  PROVE  HbInv'
<1> DEFINE seq    == NumberOf(n)
           missed == Missed(hbTrack, seq)
           skipped == {i \in 0..HbMaxBeats : i < n /\ (i + missed >= n \/ (i = 0 /\ missed >= n))}
           lines  == missed > 0 /\ hbTrack.quiet = HbFloor
           moves  == ~hbTrack.has \/ IsForward(hbTrack, seq) \/ Rebased(hbTrack, seq)
<1>0. /\ n \in hbAir /\ n + HbWindow >= hbNewest
      /\ hbTrack.has /\ hbBase = 0 => \A m \in hbAir : m >= n
      /\ hbTrack' = Tracked(hbTrack, seq)
      /\ hbFate' = [i \in 0..HbMaxBeats |->
                      IF i = n THEN IF hbFate[i] = "phantom" THEN "phantom" ELSE "got"
                      ELSE IF i \in skipped THEN IF hbFate[i] = "none" THEN "missed" ELSE "phantom"
                      ELSE hbFate[i]]
      /\ hbBase' = (IF moves /\ hbBase = 0 THEN n ELSE hbBase)
      /\ hbNewest' = (IF moves THEN n ELSE hbNewest)
      /\ hbLosses' = (IF missed > 0 THEN hbLosses + 1 ELSE hbLosses)
      /\ hbTold' = (IF lines THEN hbTold + 1 + hbTrack.suppressed ELSE hbTold)
      /\ hbAir' \subseteq hbAir /\ hbSelf' = hbSelf
      /\ hbEvents' = hbEvents \/ (hbEvents < HbMaxEvents /\ hbEvents' = hbEvents + 1)
  BY DEF Arrives, BeatEvent
<1>p. /\ HbMod \in Nat \ {0} /\ HbMaxBeats \in Nat /\ HbFloor \in Nat \ {0} /\ HbMaxEvents \in Nat
      /\ n \in 1..HbMaxBeats /\ hbTrack.has \in BOOLEAN /\ hbTrack.seq \in 0..HbMod - 1
      /\ hbTrack.suppressed \in Nat /\ hbTrack.quiet \in 0..HbFloor
      /\ hbBase \in 0..HbMaxBeats /\ hbNewest \in 0..HbMaxBeats
      /\ hbLosses \in Nat /\ hbTold \in Nat /\ hbEvents \in 0..HbMaxEvents
  BY HalfOf, HbParts DEF HbInv, HbTypeOK, Beats
<1>1. /\ missed \in Nat /\ seq \in 0..HbMod - 1
      /\ ~hbTrack.has => missed = 0
      /\ hbTrack.has /\ n > Reached => missed = n - Reached - 1
      /\ hbTrack.has /\ n <= Reached => missed = 0
      /\ hbTrack.has /\ hbBase > 0 => (moves <=> n > Reached)
      /\ hbTrack.has /\ n > Reached => moves
  BY <1>0, ArrivalIs
<1>2. /\ hbTrack' = [has |-> TRUE, seq |-> hbTrack'.seq, suppressed |-> hbTrack'.suppressed,
                     quiet |-> hbTrack'.quiet]
      /\ hbTrack'.seq = (IF moves THEN seq ELSE hbTrack.seq)
      /\ hbTrack'.quiet = (IF lines THEN 0 ELSE hbTrack.quiet)
      /\ hbTrack'.suppressed = (IF missed = 0 THEN hbTrack.suppressed
                                ELSE IF lines THEN 0 ELSE hbTrack.suppressed + 1)
  <2>1. hbTrack' = Tracked(hbTrack, seq)
    BY <1>0
  <2> HIDE DEF seq
  <2>2. missed = 0 \/ missed > 0
    BY <1>1
  <2> DEFINE s == IF moves THEN seq ELSE hbTrack.seq
             u == IF missed = 0 THEN hbTrack.suppressed
                  ELSE IF hbTrack.quiet = HbFloor THEN 0 ELSE hbTrack.suppressed + 1
             q == IF lines THEN 0 ELSE hbTrack.quiet
  <2>3. hbTrack' = [has |-> TRUE, seq |-> s, suppressed |-> u, quiet |-> q]
    BY <2>1 DEF Tracked
  <2> HIDE DEF missed, moves
  <2>4. u = IF missed = 0 THEN hbTrack.suppressed
            ELSE IF lines THEN 0 ELSE hbTrack.suppressed + 1
    BY <2>2
  <2> HIDE DEF s, u, q
  <2>5. /\ hbTrack' = [has |-> TRUE, seq |-> hbTrack'.seq, suppressed |-> hbTrack'.suppressed,
                       quiet |-> hbTrack'.quiet]
        /\ hbTrack'.seq = s /\ hbTrack'.suppressed = u /\ hbTrack'.quiet = q
    BY <2>3
  <2> QED BY <2>4, <2>5 DEF s, q
<1>3. hbTrack.has => Reached \in 0..HbMaxBeats
  BY ReachedIs
<1> HIDE DEF missed, seq, moves
<1>4. \A i \in 0..HbMaxBeats : i \in skipped <=> hbTrack.has /\ Reached < i /\ i < n
  <2> SUFFICES ASSUME NEW i \in 0..HbMaxBeats
               PROVE  i \in skipped <=> hbTrack.has /\ Reached < i /\ i < n
    OBVIOUS
  <2>1. CASE ~hbTrack.has
    BY <1>1, <1>p, <2>1
  <2>2. CASE hbTrack.has /\ n > Reached
    BY <1>1, <1>3, <1>p, <2>2
  <2>3. CASE hbTrack.has /\ n <= Reached
    BY <1>1, <1>3, <1>p, <2>3
  <2> QED BY <1>3, <1>p, <2>1, <2>2, <2>3
<1> HIDE DEF skipped
\* What has a fate lies no further than the position reached.
<1>5. ASSUME NEW i \in Beats, hbFate[i] # "none"
      PROVE  hbTrack.has /\ i <= Reached /\ (hbBase = 0 => i <= hbSelf.n /\ i <= n)
  <2>1. i \in Nat /\ i > 0
    BY DEF Beats
  <2>2. IF hbBase > 0 THEN i <= hbNewest
        ELSE i <= hbTrack.seq /\ i <= hbSelf.n /\ \A m \in hbAir : m >= i
    BY <1>5 DEF HbInv, FateInv
  <2>3. ~hbTrack.has => hbBase = 0 /\ hbTrack.seq = 0
    BY DEF HbInv, TrackInv
  <2> QED BY <1>0, <1>p, <2>1, <2>2, <2>3 DEF Reached
<1>6. \A i \in 0..HbMaxBeats : i \in skipped => i \in Beats /\ hbFate[i] = "none"
  <2> SUFFICES ASSUME NEW i \in 0..HbMaxBeats, i \in skipped
               PROVE  i \in Beats /\ hbFate[i] = "none"
    OBVIOUS
  <2>1. hbTrack.has /\ Reached < i
    BY <1>4
  <2>2. i \in Beats
    BY <1>3, <2>1 DEF Beats
  <2> QED BY <1>3, <1>5, <2>1, <2>2, <1>p
<1>7. \A i \in 0..HbMaxBeats : hbFate'[i] =
         IF i = n THEN "got" ELSE IF i \in skipped THEN "missed" ELSE hbFate[i]
  BY <1>0, <1>6 DEF HbInv, LossesAreTrue, NoPhantomLoss
<1>8. HbTypeOK'
  <2>1. hbTrack' \in Tracks
    <3>1. hbTrack'.seq \in 0..HbMod - 1 /\ hbTrack'.suppressed \in Nat
          /\ hbTrack'.quiet \in 0..HbFloor
      BY <1>1, <1>2, <1>p
    <3>2. \A s \in 0..HbMod - 1, u \in Nat, q \in 0..HbFloor :
            [has |-> TRUE, seq |-> s, suppressed |-> u, quiet |-> q] \in Tracks
      BY DEF Tracks
    <3> QED BY <1>2, <3>1, <3>2
  <2>2. hbFate' \in [0..HbMaxBeats -> {"none", "got", "missed", "phantom"}]
    BY <1>0 DEF HbInv, HbTypeOK
  <2>3. hbBase' \in 0..HbMaxBeats /\ hbNewest' \in 0..HbMaxBeats /\ hbLosses' \in Nat
        /\ hbTold' \in Nat /\ hbEvents' \in 0..HbMaxEvents
    BY <1>0, <1>p
  <2> QED BY <1>0, <2>1, <2>2, <2>3 DEF HbInv, HbTypeOK
<1>9. hbTrack'.has
  BY <1>2
<1>10. TrackInv'
  <2>1. hbAir' \subseteq 1..hbSelf'.n
    BY <1>0 DEF HbInv, TrackInv
  <2>2. CASE moves
    <3>1. hbBase' > 0 /\ hbBase' <= hbNewest' /\ hbNewest' = n
      BY <1>0, <1>1, <1>3, <1>p, <2>2 DEF HbInv, TrackInv, Reached, moves
    <3>2. NumberOf(hbNewest)' = NumberOf(n)
      BY <1>0, <3>1 DEF NumberOf
    <3>3. hbFate'[hbNewest'] # "none"
      BY <1>7, <1>p, <3>1
    <3> QED BY <1>2, <1>9, <2>1, <2>2, <3>1, <3>2, <3>3 DEF TrackInv, seq
  <2>3. CASE ~moves
    <3>1. hbBase' = hbBase /\ hbNewest' = hbNewest /\ hbTrack'.seq = hbTrack.seq /\ hbTrack.has
      BY <1>0, <1>2, <2>3 DEF moves
    <3>2. NumberOf(hbNewest)' = NumberOf(hbNewest)
      BY <1>0, <3>1 DEF NumberOf
    <3>3. hbFate[hbNewest] # "none" => hbFate'[hbNewest] # "none"
      BY <1>7, <1>p
    <3> QED BY <1>0, <1>9, <2>1, <3>1, <3>2, <3>3 DEF HbInv, TrackInv
  <2> QED BY <2>2, <2>3
<1>11. FateInv'
  <2> SUFFICES ASSUME NEW i \in Beats, hbFate'[i] # "none"
               PROVE  IF hbBase' > 0 THEN i <= hbNewest'
                      ELSE i <= hbTrack'.seq /\ i <= hbSelf'.n /\ \A m \in hbAir' : m >= i
    BY DEF FateInv
  <2>0. i \in 1..HbMaxBeats /\ i \in 0..HbMaxBeats
    BY DEF Beats
  <2>1. i = n \/ (i < n /\ i \in skipped) \/ hbFate[i] # "none"
    BY <1>4, <1>7, <2>0
  <2>2. CASE moves
    <3>1. hbBase' > 0 /\ hbNewest' = n
      BY <1>0, <1>p, <2>2
    <3>2. hbFate[i] # "none" => i <= n
      BY <1>1, <1>3, <1>5, <1>p, <2>0, <2>2
    <3> QED BY <1>p, <2>0, <2>1, <3>1, <3>2
  <2>3. CASE ~moves
    <3>1. hbBase' = hbBase /\ hbNewest' = hbNewest /\ hbTrack'.seq = hbTrack.seq /\ hbTrack.has
      BY <1>0, <1>2, <2>3 DEF moves
    <3>2. n <= Reached
      BY <1>1, <1>3, <1>p, <2>3, <3>1
    <3>3. i \notin skipped
      BY <1>3, <1>4, <1>p, <2>0, <3>2
    <3>4. CASE hbBase > 0
      BY <1>0, <2>1, <3>1, <3>2, <3>3, <3>4 DEF HbInv, FateInv, Reached
    <3>5. CASE hbBase = 0
      <4>1. n <= hbTrack.seq /\ n <= hbSelf.n /\ \A m \in hbAir' : m >= n
        BY <1>0, <1>p, <3>1, <3>2, <3>5 DEF Reached, HbInv, TrackInv
      <4> QED BY <1>0, <2>1, <3>1, <3>3, <3>5, <4>1 DEF HbInv, FateInv
    <3> QED BY <1>p, <3>4, <3>5
  <2> QED BY <2>2, <2>3
<1>12. LossInv'
  BY <1>0, <1>1, <1>2, <1>p DEF HbInv, LossInv
<1>13. NoPhantomLoss'
  BY <1>7 DEF HbInv, LossesAreTrue, NoPhantomLoss
<1>14. ASSUME NEW i \in Beats, hbBase' < i, i < hbNewest'  PROVE hbFate'[i] # "none"
  <2>0. i \in 1..HbMaxBeats /\ i \in 0..HbMaxBeats
    BY DEF Beats
  <2>1. hbBase > 0 /\ hbBase' = hbBase
    BY <1>0, <1>14, <1>p, <2>0 DEF HbInv, TrackInv
  <2>2. hbTrack.has
    BY <2>1, <1>p DEF HbInv, TrackInv
  <2>3. CASE i < hbNewest
    BY <1>7, <1>14, <2>0, <2>1, <2>3 DEF HbInv, LossesAreTrue, EveryGapIsTold
  <2>4. CASE i >= hbNewest
    <3>1. hbNewest' = n /\ n > Reached /\ Reached = hbNewest
      BY <1>0, <1>1, <1>14, <1>p, <2>0, <2>1, <2>2, <2>4 DEF Reached
    <3>2. CASE i > hbNewest
      BY <1>4, <1>7, <1>14, <2>0, <2>2, <3>1, <3>2
    <3>3. CASE i = hbNewest
      <4>1. hbFate[i] # "none"
        BY <2>1, <3>3 DEF HbInv, TrackInv
      <4> QED BY <1>7, <2>0, <4>1
    <3> QED BY <1>p, <2>0, <2>4, <3>2, <3>3
  <2> QED BY <1>p, <2>0, <2>3, <2>4
<1>15. LossesAreTrue'
  BY <1>12, <1>13, <1>14 DEF LossesAreTrue, EveryGapIsTold, LossInv
<1> QED BY <1>8, <1>10, <1>11, <1>12, <1>15 DEF HbInv

LEMMA VanishingKeepsLosses ==
  ASSUME HbAssumption, HbInv, NEW n \in Beats, Vanishes(n)
  PROVE  HbInv'
<1>0. /\ hbSelf' = hbSelf /\ hbTrack' = hbTrack /\ hbFate' = hbFate /\ hbBase' = hbBase
      /\ hbNewest' = hbNewest /\ hbLosses' = hbLosses /\ hbTold' = hbTold /\ hbEvents' = hbEvents
      /\ hbAir' \subseteq hbAir
  BY DEF Vanishes
<1>1. NumberOf(hbNewest)' = NumberOf(hbNewest)
  BY <1>0 DEF NumberOf
<1>2. HbTypeOK' /\ TrackInv'
  BY <1>0, <1>1 DEF HbInv, HbTypeOK, TrackInv
<1>3. FateInv' /\ LossInv' /\ LossesAreTrue'
  BY <1>0 DEF HbInv, FateInv, LossInv, LossesAreTrue, NoPhantomLoss, EveryGapIsTold
<1> QED BY <1>2, <1>3 DEF HbInv

LEMMA HbInitInv == ASSUME HbAssumption, HbInit PROVE HbInv
<1>1. PICK s \in HbStarts : hbSelf = [from |-> s, n |-> 0, pend |-> FALSE, age |-> HbFloor]
  BY DEF HbInit
<1>2. HbMaxBeats \in Nat /\ HbFloor \in Nat \ {0} /\ 0 \in 0..HbMaxEvents /\ 0 \in 0..HbMaxBeats
  BY HalfOf
<1>3. hbSelf \in Senders
  BY <1>1, <1>2 DEF Senders
<1>4. HbTypeOK
  BY <1>2, <1>3, UnseenIsATrack, NoFatesYet DEF HbInit, HbTypeOK
<1>5. TrackInv /\ LossInv
  BY DEF HbInit, TrackInv, LossInv, Unseen
<1>6. FateInv /\ LossesAreTrue
  BY NoFatesYet DEF HbInit, FateInv, LossesAreTrue, NoPhantomLoss, EveryGapIsTold, Unseen, Beats
<1> QED BY <1>4, <1>5, <1>6 DEF HbInv
-----------------------------------------------------------------------------
\* No beat is reported lost that came, that was reported before or that was
\* never sent, and none between the first and the newest goes unreported:
\* for every size of the numbers and of the window, through wraps, restarts,
\* late, repeated and lost beats.
THEOREM LossesAreTold ==
  ASSUME HbAssumption
  PROVE  HbSpec => [](HbTypeOK /\ LossesAreTrue)
<1>1. HbInit => HbInv
  BY HbInitInv
<1>2. ASSUME HbInv, [HbNext]_hbvars  PROVE HbInv'
  <2>1. CASE HbNext
    BY <1>2, <2>1, SenderKeepsLosses, RestartKeepsLosses, ArrivalKeepsLosses,
       VanishingKeepsLosses DEF HbNext
  <2>2. CASE UNCHANGED hbvars
    BY <1>2, <2>2 DEF hbvars, HbInv, HbTypeOK, TrackInv, FateInv, LossInv, LossesAreTrue,
       NoPhantomLoss, EveryGapIsTold, NumberOf
  <2> QED BY <1>2, <2>1, <2>2
<1>3. HbInv => HbTypeOK /\ LossesAreTrue
  BY DEF HbInv
<1> QED BY <1>1, <1>2, <1>3, PTL DEF HbSpec
-----------------------------------------------------------------------------
(* PeerExchange: what a client knows after he has read his box, and what    *)
(* he is going to answer.                                                  *)

\* No message of p is in the box; the last one of p announces v.
NoneFrom(box, p) == \A i \in DOMAIN box : box[i].from # p
LastCmd(box, p, v) ==
  \E i \in DOMAIN box :
     /\ box[i].from = p /\ ~box[i].left /\ box[i].val = v
     /\ \A j \in DOMAIN box : box[j].from = p => j <= i

\* What somebody with the entry e of p knows after he has read his box.
KnowsVal(e, box, p, v) == LastCmd(box, p, v) \/ (NoneFrom(box, p) /\ e.known /\ e.val = v)
Knows(e, box, p)       == \E v \in Values : KnowsVal(e, box, p, v)

\* He will have forgotten c, he would take a command of c for the first one,
\* and he is going to take one for the first.
Leaving(box, c, j)      == box[j].from = c /\ box[j].left
Forgotten(e, box, c) ==
  /\ e.replied => \E j \in DOMAIN box : Leaving(box, c, j)
  /\ \A i \in DOMAIN box : box[i].from = c /\ ~box[i].left =>
       \E j \in DOMAIN box : i < j /\ Leaving(box, c, j)
CanAnswer(e, box, c) == ~e.replied \/ \E j \in DOMAIN box : Leaving(box, c, j)
Answers(e, box, c) ==
  \E i \in DOMAIN box :
     /\ box[i].from = c /\ ~box[i].left
     /\ ~e.replied \/ \E j \in DOMAIN box : j < i /\ Leaving(box, c, j)

\* The client in state s has announced himself, and nothing about him changes.
Told(pr, s) ==
  /\ s.status = "shown" /\ ~s.dropped /\ ~s.pend /\ ~s.claimed
  /\ ~(pr = "auth" /\ s.val = 0)
Current(pr, s) == Told(pr, s) /\ ~s.signalling

\* He has announced nothing since he connected; he could be answered.
Unheard(s) == s.status = "off" \/ (s.status = "shown" /\ ~s.registered /\ ~s.returned)
Joined(s)  == s.status = "shown" /\ s.registered /\ ~s.returned

(* What holds between client c, in state sc with box bc, and another one,  *)
(* p in state sp with box bp: p has forgotten him who announced nothing,   *)
(* what c is about to know of p is right, and when p has announced himself *)
(* c is about to know him, or p to answer c.                               *)
PairOK(pr, sc, bc, sp, bp, c, p) ==
  /\ Unheard(sc) => Forgotten(sp.peers[c], bp, c)
  /\ \A v \in Values : KnowsVal(sc.peers[p], bc, p, v) =>
       sp.status # "off" /\ (Current(pr, sp) => v = sp.val)
  /\ Joined(sc) /\ Told(pr, sp) =>
       \/ Knows(sc.peers[p], bc, p)
       \/ Answers(sp.peers[c], bp, c)
       \/ ~Told(pr, sc) /\ CanAnswer(sp.peers[c], bp, c)

\* What a client in state s with that box owes to himself alone.
Own(pr, s, box, c) ==
  /\ s.status = "off" => box = <<>>
  /\ s.status # "shown" \/ ~s.registered => \A p \in PxClients \ {c} : ~s.peers[p].known
  /\ s.status = "shown" /\ ~s.registered => s.pend
  /\ ~s.registered => ~s.claimed
  /\ s.claimed => s.status = "shown"
  /\ \A p \in PxClients \ {c} : s.peers[p].known = s.peers[p].replied
  /\ s.wire # Unread => s.claimed
  /\ s.wire # Unread /\ ~s.pend /\ ~s.signalling => s.wire = s.val
  /\ pr # "mode" => ~s.signalling /\ ~s.claimed /\ s.fails = 0

OwnInv  == \A c \in PxClients : Own(proto, client[c], mail[c], c)
PairInv == \A c, p \in PxClients :
  c # p => PairOK(proto, client[c], mail[c], client[p], mail[p], c, p)
PxInv   == PxTypeOK /\ OwnInv /\ PairInv
-----------------------------------------------------------------------------
\* What is in a box, and who is known of it.
LEMMA UnknownIs == Unknown.known = FALSE /\ Unknown.replied = FALSE
BY DEF Unknown

LEMMA BoxAppended ==
  ASSUME NEW box \in Seq(Mail), NEW m \in Mail
  PROVE  LET b == Append(box, m)
         IN /\ b \in Seq(Mail) /\ DOMAIN b = 1..Len(box) + 1 /\ DOMAIN box = 1..Len(box)
            /\ Len(box) \in Nat /\ b[Len(box) + 1] = m /\ \A i \in DOMAIN box : b[i] = box[i]
OBVIOUS

LEMMA BoxTaken ==
  ASSUME NEW box \in Seq(Mail), box # <<>>
  PROVE  LET b == Tail(box)
         IN /\ b \in Seq(Mail) /\ DOMAIN b = 1..Len(box) - 1 /\ DOMAIN box = 1..Len(box)
            /\ Len(box) \in Nat \ {0} /\ box[1] = Head(box) /\ Head(box) \in Mail
            /\ \A i \in DOMAIN b : b[i] = box[i + 1]
OBVIOUS

\* A message of p says what is known of p, one of somebody else says nothing.
LEMMA KnowsAfterAppend ==
  ASSUME NEW box \in Seq(Mail), NEW m \in Mail, NEW e \in Entry, NEW p \in PxClients,
         NEW v \in Values
  PROVE  /\ m.from = p => (KnowsVal(e, Append(box, m), p, v) <=> ~m.left /\ m.val = v)
         /\ m.from # p => (KnowsVal(e, Append(box, m), p, v) <=> KnowsVal(e, box, p, v))
<1> DEFINE b == Append(box, m)
           n == Len(box)
<1>1. /\ DOMAIN b = 1..n + 1 /\ DOMAIN box = 1..n /\ n \in Nat /\ b[n + 1] = m
      /\ \A i \in 1..n : b[i] = box[i]
  BY BoxAppended
<1> HIDE DEF b, n
<1>2. CASE m.from = p
  <2>1. ~NoneFrom(b, p)
    BY <1>1, <1>2 DEF NoneFrom
  <2>2. ASSUME LastCmd(b, p, v) PROVE ~m.left /\ m.val = v
    <3>1. PICK i \in DOMAIN b : /\ b[i].from = p /\ ~b[i].left /\ b[i].val = v
                                /\ \A j \in DOMAIN b : b[j].from = p => j <= i
      BY <2>2 DEF LastCmd
    <3>2. i = n + 1
      BY <1>1, <1>2, <3>1
    <3> QED BY <1>1, <3>1, <3>2
  <2>3. ASSUME ~m.left, m.val = v PROVE LastCmd(b, p, v)
    BY <1>1, <1>2, <2>3 DEF LastCmd
  <2> QED BY <1>2, <2>1, <2>2, <2>3 DEF KnowsVal, b
<1>3. CASE m.from # p
  <2>1. NoneFrom(b, p) <=> NoneFrom(box, p)
    BY <1>1, <1>3 DEF NoneFrom
  <2>2. ASSUME LastCmd(b, p, v) PROVE LastCmd(box, p, v)
    <3>1. PICK i \in DOMAIN b : /\ b[i].from = p /\ ~b[i].left /\ b[i].val = v
                                /\ \A j \in DOMAIN b : b[j].from = p => j <= i
      BY <2>2 DEF LastCmd
    <3>2. i \in 1..n
      BY <1>1, <1>3, <3>1
    <3> QED BY <1>1, <3>1, <3>2 DEF LastCmd
  <2>3. ASSUME LastCmd(box, p, v) PROVE LastCmd(b, p, v)
    <3>1. PICK i \in DOMAIN box : /\ box[i].from = p /\ ~box[i].left /\ box[i].val = v
                                  /\ \A j \in DOMAIN box : box[j].from = p => j <= i
      BY <2>3 DEF LastCmd
    <3>2. \A j \in DOMAIN b : b[j].from = p => j <= i
      BY <1>1, <1>3, <3>1
    <3> QED BY <1>1, <3>1, <3>2 DEF LastCmd
  <2> QED BY <1>3, <2>1, <2>2, <2>3 DEF KnowsVal, b
<1> QED BY <1>2, <1>3

\* A message that is taken and handled changes nothing of what will be known.
LEMMA LastAfterTail ==
  ASSUME NEW box \in Seq(Mail), box # <<>>, NEW p \in PxClients, NEW v \in Values
  PROVE  LET m == Head(box)
             b == Tail(box)
         IN /\ NoneFrom(box, p) <=> m.from # p /\ NoneFrom(b, p)
            /\ LastCmd(box, p, v) <=> \/ LastCmd(b, p, v)
                                      \/ NoneFrom(b, p) /\ m.from = p /\ ~m.left /\ m.val = v
<1> DEFINE b == Tail(box)
           n == Len(box)
           m == Head(box)
<1>1. /\ DOMAIN b = 1..n - 1 /\ DOMAIN box = 1..n /\ n \in Nat \ {0} /\ box[1] = m
      /\ \A i \in 1..n-1 : b[i] = box[i + 1]
  BY BoxTaken
<1> HIDE DEF b, n, m
<1>0. \A i \in 1..n : i = 1 \/ (i - 1 \in 1..n-1 /\ box[i] = b[i - 1])
  <2> SUFFICES ASSUME NEW i \in 1..n, i # 1 PROVE i - 1 \in 1..n-1 /\ box[i] = b[i - 1]
    OBVIOUS
  <2>1. i - 1 \in 1..n-1 /\ (i - 1) + 1 = i
    BY <1>1
  <2> QED BY <1>1, <2>1
<1>2. NoneFrom(box, p) <=> m.from # p /\ NoneFrom(b, p)
  <2>1. ASSUME NoneFrom(box, p) PROVE m.from # p /\ NoneFrom(b, p)
    <3>1. \A i \in 1..n-1 : i + 1 \in 1..n
      BY <1>1
    <3> QED BY <1>1, <2>1, <3>1 DEF NoneFrom
  <2>2. ASSUME m.from # p, NoneFrom(b, p), NEW i \in DOMAIN box PROVE box[i].from # p
    BY <1>0, <1>1, <2>2 DEF NoneFrom
  <2> QED BY <2>1, <2>2 DEF NoneFrom
<1>3. ASSUME LastCmd(box, p, v)
      PROVE  LastCmd(b, p, v) \/ (NoneFrom(b, p) /\ m.from = p /\ ~m.left /\ m.val = v)
  <2>1. PICK i \in DOMAIN box : /\ box[i].from = p /\ ~box[i].left /\ box[i].val = v
                                /\ \A j \in DOMAIN box : box[j].from = p => j <= i
    BY <1>3 DEF LastCmd
  <2>2. \A j \in DOMAIN b : b[j].from = p => j + 1 <= i
    BY <1>1, <2>1
  <2>3. CASE i = 1
    <3>1. NoneFrom(b, p)
      BY <1>1, <2>2, <2>3 DEF NoneFrom
    <3> QED BY <1>1, <2>1, <2>3, <3>1
  <2>4. CASE i # 1
    <3>1. i - 1 \in DOMAIN b /\ b[i - 1] = box[i]
      BY <1>0, <1>1, <2>4
    <3>2. \A j \in DOMAIN b : b[j].from = p => j <= i - 1
      BY <1>1, <2>2
    <3> QED BY <2>1, <3>1, <3>2 DEF LastCmd
  <2> QED BY <2>3, <2>4
<1>4. ASSUME LastCmd(b, p, v) PROVE LastCmd(box, p, v)
  <2>1. PICK i \in DOMAIN b : /\ b[i].from = p /\ ~b[i].left /\ b[i].val = v
                              /\ \A j \in DOMAIN b : b[j].from = p => j <= i
    BY <1>4 DEF LastCmd
  <2>2. i + 1 \in DOMAIN box /\ box[i + 1] = b[i]
    BY <1>1
  <2>3. ASSUME NEW j \in DOMAIN box, box[j].from = p PROVE j <= i + 1
    <3>1. CASE j = 1
      BY <1>1, <3>1
    <3>2. CASE j # 1
      <4>1. j - 1 \in DOMAIN b /\ b[j - 1].from = p
        BY <1>0, <1>1, <2>3, <3>2
      <4>2. j - 1 <= i
        BY <2>1, <4>1
      <4> QED BY <1>1, <4>2
    <3> QED BY <3>1, <3>2
  <2> QED BY <2>1, <2>2, <2>3 DEF LastCmd
<1>5. ASSUME NoneFrom(b, p), m.from = p, ~m.left, m.val = v PROVE LastCmd(box, p, v)
  <2>1. ASSUME NEW j \in DOMAIN box, box[j].from = p PROVE j <= 1
    <3>1. CASE j = 1
      BY <3>1
    <3>2. CASE j # 1
      <4>1. j - 1 \in DOMAIN b /\ b[j - 1].from = p
        BY <1>0, <1>1, <2>1, <3>2
      <4> QED BY <1>5, <4>1 DEF NoneFrom
    <3> QED BY <3>1, <3>2
  <2> QED BY <1>1, <1>5, <2>1 DEF LastCmd
<1> QED BY <1>2, <1>3, <1>4, <1>5 DEF b, m

LEMMA KnowsAfterTail ==
  ASSUME NEW box \in Seq(Mail), box # <<>>, NEW p \in PxClients, NEW v \in Values,
         NEW e \in Entry, NEW f \in Entry,
         KnowsVal(f, Tail(box), p, v),
         LET m == Head(box)
         IN IF m.from # p THEN f = e ELSE f.known => ~m.left /\ f.val = m.val
  PROVE  KnowsVal(e, box, p, v)
BY LastAfterTail DEF KnowsVal

LEMMA KnownAfterTail ==
  ASSUME NEW box \in Seq(Mail), box # <<>>, NEW p \in PxClients, NEW v \in Values,
         NEW e \in Entry, NEW f \in Entry,
         KnowsVal(e, box, p, v),
         LET m == Head(box)
         IN IF m.from # p THEN f = e ELSE ~m.left => f.known /\ f.val = m.val
  PROVE  KnowsVal(f, Tail(box), p, v)
BY LastAfterTail DEF KnowsVal

\* The other questions asked of a box.
LEMMA AskedAfterAppend ==
  ASSUME NEW box \in Seq(Mail), NEW m \in Mail, NEW e \in Entry, NEW c \in PxClients
  PROVE  LET b == Append(box, m)
         IN /\ Forgotten(e, box, c) /\ (m.from = c => m.left) => Forgotten(e, b, c)
            /\ m.from = c /\ m.left => Forgotten(e, b, c)
            /\ CanAnswer(e, box, c) => CanAnswer(e, b, c)
            /\ Answers(e, box, c) => Answers(e, b, c)
            /\ CanAnswer(e, box, c) /\ m.from = c /\ ~m.left => Answers(e, b, c)
<1> DEFINE b == Append(box, m)
           n == Len(box)
<1>1. /\ DOMAIN b = 1..n + 1 /\ DOMAIN box = 1..n /\ n \in Nat /\ b[n + 1] = m
      /\ \A i \in 1..n : b[i] = box[i]
  BY BoxAppended
<1> HIDE DEF b, n
<1>2. DOMAIN box \subseteq DOMAIN b /\ n + 1 \in DOMAIN b
  BY <1>1
<1>3. (\E j \in DOMAIN box : Leaving(box, c, j)) => \E j \in DOMAIN b : Leaving(b, c, j)
  BY <1>1, <1>2 DEF Leaving
<1>4. ASSUME m.from = c, m.left PROVE Forgotten(e, b, c)
  <2>1. Leaving(b, c, n + 1)
    BY <1>1, <1>4 DEF Leaving
  <2>2. ASSUME NEW i \in DOMAIN b, b[i].from = c, ~b[i].left PROVE i < n + 1
    BY <1>1, <1>4, <2>2
  <2> QED BY <1>2, <2>1, <2>2 DEF Forgotten
<1>5. ASSUME Forgotten(e, box, c), m.from # c PROVE Forgotten(e, b, c)
  <2>1. ASSUME NEW i \in DOMAIN b, b[i].from = c, ~b[i].left
        PROVE  \E j \in DOMAIN b : i < j /\ Leaving(b, c, j)
    <3>1. i \in DOMAIN box /\ box[i] = b[i]
      BY <1>1, <1>5, <2>1
    <3> QED BY <1>1, <1>2, <1>5, <2>1, <3>1 DEF Forgotten, Leaving
  <2> QED BY <1>3, <1>5, <2>1 DEF Forgotten
<1>6. CanAnswer(e, box, c) => CanAnswer(e, b, c)
  BY <1>3 DEF CanAnswer
<1>7. ASSUME Answers(e, box, c) PROVE Answers(e, b, c)
  <2>1. PICK i \in DOMAIN box :
           /\ box[i].from = c /\ ~box[i].left
           /\ ~e.replied \/ \E j \in DOMAIN box : j < i /\ Leaving(box, c, j)
    BY <1>7 DEF Answers
  <2>2. i \in DOMAIN b /\ b[i] = box[i]
    BY <1>1, <2>1
  <2>3. ~e.replied \/ \E j \in DOMAIN b : j < i /\ Leaving(b, c, j)
    BY <1>1, <1>2, <2>1 DEF Leaving
  <2> QED BY <2>1, <2>2, <2>3 DEF Answers
<1>8. ASSUME CanAnswer(e, box, c), m.from = c, ~m.left PROVE Answers(e, b, c)
  <2>1. ~e.replied \/ \E j \in DOMAIN b : j < n + 1 /\ Leaving(b, c, j)
    BY <1>1, <1>2, <1>8 DEF CanAnswer, Leaving
  <2> QED BY <1>1, <1>2, <1>8, <2>1 DEF Answers
<1> QED BY <1>4, <1>5, <1>6, <1>7, <1>8 DEF b

LEMMA AskedAfterTail ==
  ASSUME NEW box \in Seq(Mail), box # <<>>, NEW c \in PxClients, NEW e \in Entry, NEW f \in Entry,
         LET m == Head(box)
         IN IF m.from # c THEN f = e ELSE m.left => ~f.replied
  PROVE  LET b == Tail(box)
             m == Head(box)
         IN /\ Forgotten(e, box, c) => Forgotten(f, b, c)
            /\ ~(m.from = c /\ ~m.left /\ ~e.replied) =>
                 /\ CanAnswer(e, box, c) => CanAnswer(f, b, c)
                 /\ Answers(e, box, c) => Answers(f, b, c)
<1> DEFINE b == Tail(box)
           n == Len(box)
           m == Head(box)
<1>1. /\ DOMAIN b = 1..n - 1 /\ DOMAIN box = 1..n /\ n \in Nat \ {0} /\ box[1] = m
      /\ \A i \in 1..n-1 : b[i] = box[i + 1]
  BY BoxTaken
<1>0. IF m.from # c THEN f = e ELSE m.left => ~f.replied
  OBVIOUS
<1> HIDE DEF b, n, m
<1>2. \A i \in DOMAIN box : i # 1 => i - 1 \in DOMAIN b /\ b[i - 1] = box[i]
  <2> SUFFICES ASSUME NEW i \in 1..n, i # 1 PROVE i - 1 \in 1..n-1 /\ b[i - 1] = box[i]
    BY <1>1
  <2>1. i - 1 \in 1..n-1 /\ (i - 1) + 1 = i
    BY <1>1
  <2> QED BY <1>1, <2>1
<1>3. \A i \in DOMAIN b : i + 1 \in DOMAIN box /\ box[i + 1] = b[i]
  BY <1>1
<1>4. \A j \in DOMAIN box : j # 1 /\ Leaving(box, c, j) => Leaving(b, c, j - 1)
  BY <1>2 DEF Leaving
<1>5. m.from # c \/ ~m.left => ~Leaving(box, c, 1)
  BY <1>1 DEF Leaving
<1>6. ASSUME Forgotten(e, box, c) PROVE Forgotten(f, b, c)
  <2>1. ASSUME f.replied PROVE \E j \in DOMAIN b : Leaving(b, c, j)
    <3>1. CASE m.from # c
      <4>1. PICK j \in DOMAIN box : Leaving(box, c, j)
        BY <1>0, <1>6, <2>1, <3>1 DEF Forgotten
      <4> QED BY <1>2, <1>4, <1>5, <3>1, <4>1
    <3>2. CASE m.from = c
      <4>1. 1 \in DOMAIN box /\ box[1].from = c /\ ~box[1].left
        BY <1>0, <1>1, <2>1, <3>2
      <4>2. PICK j \in DOMAIN box : 1 < j /\ Leaving(box, c, j)
        BY <1>6, <4>1 DEF Forgotten
      <4> QED BY <1>2, <1>4, <4>2
    <3> QED BY <3>1, <3>2
  <2>2. ASSUME NEW i \in DOMAIN b, b[i].from = c, ~b[i].left
        PROVE  \E j \in DOMAIN b : i < j /\ Leaving(b, c, j)
    <3>1. PICK j \in DOMAIN box : i + 1 < j /\ Leaving(box, c, j)
      BY <1>3, <1>6, <2>2 DEF Forgotten
    <3>2. j # 1 /\ i < j - 1
      BY <1>1, <3>1
    <3> QED BY <1>2, <1>4, <3>1, <3>2
  <2> QED BY <2>1, <2>2 DEF Forgotten
<1>7. ASSUME ~(m.from = c /\ ~m.left /\ ~e.replied), CanAnswer(e, box, c)
      PROVE  CanAnswer(f, b, c)
  <2>1. CASE ~f.replied
    BY <2>1 DEF CanAnswer
  <2>2. CASE f.replied
    <3>1. e.replied /\ (m.from # c \/ ~m.left)
      BY <1>0, <1>7, <2>2
    <3>2. PICK j \in DOMAIN box : Leaving(box, c, j)
      BY <1>7, <3>1 DEF CanAnswer
    <3> QED BY <1>2, <1>4, <1>5, <3>1, <3>2 DEF CanAnswer
  <2> QED BY <2>1, <2>2
<1>8. ASSUME ~(m.from = c /\ ~m.left /\ ~e.replied), Answers(e, box, c)
      PROVE  Answers(f, b, c)
  <2>1. PICK i \in DOMAIN box :
           /\ box[i].from = c /\ ~box[i].left
           /\ ~e.replied \/ \E j \in DOMAIN box : j < i /\ Leaving(box, c, j)
    BY <1>8 DEF Answers
  <2>2. i # 1
    <3> SUFFICES ASSUME i = 1 PROVE FALSE
      OBVIOUS
    <3>1. m.from = c /\ ~m.left
      BY <1>1, <2>1
    <3>2. PICK j \in DOMAIN box : j < 1
      BY <1>8, <2>1, <3>1
    <3> QED BY <1>1, <3>2
  <2>3. i - 1 \in DOMAIN b /\ b[i - 1] = box[i]
    BY <1>2, <2>2
  <2>4. ~f.replied \/ \E j \in DOMAIN b : j < i - 1 /\ Leaving(b, c, j)
    <3> SUFFICES ASSUME f.replied PROVE \E j \in DOMAIN b : j < i - 1 /\ Leaving(b, c, j)
      OBVIOUS
    <3>1. e.replied /\ (m.from # c \/ ~m.left)
      BY <1>0, <1>8
    <3>2. PICK j \in DOMAIN box : j < i /\ Leaving(box, c, j)
      BY <2>1, <3>1
    <3>3. j # 1
      BY <1>5, <3>1, <3>2
    <3>4. j - 1 \in DOMAIN b /\ Leaving(b, c, j - 1)
      BY <1>2, <1>4, <3>2, <3>3
    <3>5. j - 1 < i - 1
      BY <1>1, <3>2
    <3> QED BY <3>4, <3>5
  <2> QED BY <2>1, <2>3, <2>4 DEF Answers
<1> QED BY <1>6, <1>7, <1>8 DEF b, m

\* Who has forgotten p does not know him, and would answer him.
LEMMA ForgottenIsUnknown ==
  ASSUME NEW box \in Seq(Mail), NEW p \in PxClients, NEW e \in Entry, e.known = e.replied,
         Forgotten(e, box, p)
  PROVE  (\A v \in Values : ~KnowsVal(e, box, p, v)) /\ CanAnswer(e, box, p)
<1>1. \A i \in DOMAIN box : i \in Nat
  OBVIOUS
<1>2. CanAnswer(e, box, p)
  BY DEF Forgotten, CanAnswer
<1>3. ASSUME NEW v \in Values, LastCmd(box, p, v) PROVE FALSE
  <2>1. PICK i \in DOMAIN box : /\ box[i].from = p /\ ~box[i].left
                                /\ \A j \in DOMAIN box : box[j].from = p => j <= i
    BY <1>3 DEF LastCmd
  <2>2. PICK j \in DOMAIN box : i < j /\ Leaving(box, p, j)
    BY <2>1 DEF Forgotten
  <2> QED BY <1>1, <2>1, <2>2 DEF Leaving
<1>4. ASSUME NoneFrom(box, p), e.known PROVE FALSE
  BY <1>4 DEF Forgotten, NoneFrom, Leaving
<1> QED BY <1>2, <1>3, <1>4 DEF KnowsVal
-----------------------------------------------------------------------------
(* What the moves of one client a do to a pair.                            *)

\* Nothing: at most a message of a third one arrives.
LEMMA Calm ==
  ASSUME NEW pr \in Protocols, NEW c \in PxClients, NEW p \in PxClients,
         NEW sc \in ClientState, NEW sp \in ClientState, NEW sd \in ClientState,
         NEW sq \in ClientState,
         NEW bc \in Seq(Mail), NEW bp \in Seq(Mail), NEW bd \in Seq(Mail), NEW bq \in Seq(Mail),
         NEW m \in Mail,
         PairOK(pr, sc, bc, sp, bp, c, p),
         bd = bc \/ (bd = Append(bc, m) /\ m.from # p),
         bq = bp \/ (bq = Append(bp, m) /\ m.from # c),
         sd.peers[p] = sc.peers[p], sq.peers[c] = sp.peers[c],
         sc.peers[p].known = sc.peers[p].replied, sp.peers[c].known = sp.peers[c].replied,
         Unheard(sd) => Unheard(sc),
         Joined(sd) => Joined(sc) \/ (Unheard(sc) /\ ~Told(pr, sd)),
         Told(pr, sd) => Told(pr, sc) \/ ~Joined(sd),
         Told(pr, sq) => Told(pr, sp),
         Current(pr, sq) => Current(pr, sp) /\ sq.val = sp.val,
         sp.status # "off" => sq.status # "off"
  PROVE  PairOK(pr, sd, bd, sq, bq, c, p)
<1>0. sc.peers[p] \in Entry /\ sp.peers[c] \in Entry
  BY DEF ClientState
<1> DEFINE e == sc.peers[p]
           f == sp.peers[c]
<1>1. \A v \in Values : KnowsVal(e, bd, p, v) <=> KnowsVal(e, bc, p, v)
  <2>1. CASE bd = bc
    BY <2>1
  <2>2. CASE bd = Append(bc, m) /\ m.from # p
    BY <1>0, <2>2, KnowsAfterAppend
  <2> QED BY <2>1, <2>2
<1>2. /\ Forgotten(f, bp, c) => Forgotten(f, bq, c)
      /\ CanAnswer(f, bp, c) => CanAnswer(f, bq, c)
      /\ Answers(f, bp, c) => Answers(f, bq, c)
  BY <1>0, AskedAfterAppend
<1>3. Forgotten(f, bp, c) => CanAnswer(f, bp, c)
  BY <1>0, ForgottenIsUnknown
<1>4. Unheard(sc) => CanAnswer(f, bp, c)
  BY <1>3 DEF PairOK
<1>5. Joined(sc) /\ Told(pr, sp) => \/ Knows(e, bc, p)
                                    \/ Answers(f, bp, c)
                                    \/ ~Told(pr, sc) /\ CanAnswer(f, bp, c)
  BY DEF PairOK
<1> HIDE DEF e, f
<1>6. sd.peers[p] = e /\ sq.peers[c] = f
  BY DEF e, f
<1>7. Knows(e, bc, p) => Knows(e, bd, p)
  BY <1>1 DEF Knows
<1>8. ASSUME Joined(sd), Told(pr, sq)
      PROVE  \/ Knows(e, bd, p)
             \/ Answers(f, bq, c)
             \/ ~Told(pr, sd) /\ CanAnswer(f, bq, c)
  BY <1>2, <1>4, <1>5, <1>7, <1>8
<1>9. Unheard(sd) => Forgotten(f, bq, c)
  BY <1>2 DEF PairOK, f
<1>10. \A v \in Values : KnowsVal(e, bd, p, v) =>
         sq.status # "off" /\ (Current(pr, sq) => v = sq.val)
  BY <1>1 DEF PairOK, e
<1> QED BY <1>6, <1>8, <1>9, <1>10 DEF PairOK

\* a takes a message: what he knows of p.
LEMMA TakenBy ==
  ASSUME NEW pr \in Protocols, NEW a \in PxClients, NEW p \in PxClients,
         NEW sa \in ClientState, NEW sp \in ClientState, NEW sd \in ClientState,
         NEW ba \in Seq(Mail), NEW bp \in Seq(Mail), ba # <<>>,
         PairOK(pr, sa, ba, sp, bp, a, p),
         LET m == Head(ba)
         IN IF m.from # p THEN sd.peers[p] = sa.peers[p]
            ELSE /\ sd.peers[p].known => ~m.left /\ sd.peers[p].val = m.val
                 /\ Joined(sd) /\ ~m.left => sd.peers[p].known /\ sd.peers[p].val = m.val,
         Unheard(sd) => Unheard(sa), Joined(sd) => Joined(sa), Told(pr, sd) => Told(pr, sa)
  PROVE  PairOK(pr, sd, Tail(ba), sp, bp, a, p)
<1>0. sa.peers[p] \in Entry /\ sd.peers[p] \in Entry /\ Tail(ba) \in Seq(Mail)
  BY DEF ClientState
<1>1. \A v \in Values : KnowsVal(sd.peers[p], Tail(ba), p, v) => KnowsVal(sa.peers[p], ba, p, v)
  <2> SUFFICES ASSUME NEW v \in Values, KnowsVal(sd.peers[p], Tail(ba), p, v)
               PROVE  KnowsVal(sa.peers[p], ba, p, v)
    OBVIOUS
  <2> QED BY <1>0, KnowsAfterTail
<1>2. Joined(sd) => \A v \in Values :
        KnowsVal(sa.peers[p], ba, p, v) => KnowsVal(sd.peers[p], Tail(ba), p, v)
  <2> SUFFICES ASSUME Joined(sd), NEW v \in Values, KnowsVal(sa.peers[p], ba, p, v)
               PROVE  KnowsVal(sd.peers[p], Tail(ba), p, v)
    OBVIOUS
  <2> QED BY <1>0, KnownAfterTail
<1>3. Joined(sd) /\ Knows(sa.peers[p], ba, p) => Knows(sd.peers[p], Tail(ba), p)
  BY <1>2 DEF Knows
<1>4. \A v \in Values : KnowsVal(sd.peers[p], Tail(ba), p, v) =>
        sp.status # "off" /\ (Current(pr, sp) => v = sp.val)
  BY <1>1 DEF PairOK
<1>5. Joined(sd) /\ Told(pr, sp) =>
        \/ Knows(sd.peers[p], Tail(ba), p)
        \/ Answers(sp.peers[a], bp, a)
        \/ ~Told(pr, sd) /\ CanAnswer(sp.peers[a], bp, a)
  BY <1>3 DEF PairOK
<1>6. Unheard(sd) => Forgotten(sp.peers[a], bp, a)
  BY DEF PairOK
<1> QED BY <1>4, <1>5, <1>6 DEF PairOK

\* a takes a message: what he answers to c.
LEMMA TakenFrom ==
  ASSUME NEW pr \in Protocols, NEW a \in PxClients, NEW c \in PxClients,
         NEW sa \in ClientState, NEW sc \in ClientState, NEW sd \in ClientState,
         NEW ba \in Seq(Mail), NEW bc \in Seq(Mail), ba # <<>>,
         PairOK(pr, sc, bc, sa, ba, c, a),
         LET m == Head(ba)
         IN /\ IF m.from # c THEN sd.peers[c] = sa.peers[c] ELSE m.left => ~sd.peers[c].replied
            /\ Told(pr, sd) => Told(pr, sa) /\ ~(m.from = c /\ ~m.left /\ ~sa.peers[c].replied),
         Current(pr, sd) => Current(pr, sa) /\ sd.val = sa.val,
         sa.status # "off" => sd.status # "off"
  PROVE  PairOK(pr, sc, bc, sd, Tail(ba), c, a)
<1>0. sa.peers[c] \in Entry /\ sd.peers[c] \in Entry
  BY DEF ClientState
<1>1. /\ Forgotten(sa.peers[c], ba, c) => Forgotten(sd.peers[c], Tail(ba), c)
      /\ Told(pr, sd) =>
           /\ CanAnswer(sa.peers[c], ba, c) => CanAnswer(sd.peers[c], Tail(ba), c)
           /\ Answers(sa.peers[c], ba, c) => Answers(sd.peers[c], Tail(ba), c)
  BY <1>0, AskedAfterTail
<1>2. Unheard(sc) => Forgotten(sd.peers[c], Tail(ba), c)
  BY <1>1 DEF PairOK
<1>3. Joined(sc) /\ Told(pr, sd) =>
        \/ Knows(sc.peers[a], bc, a)
        \/ Answers(sd.peers[c], Tail(ba), c)
        \/ ~Told(pr, sc) /\ CanAnswer(sd.peers[c], Tail(ba), c)
  BY <1>1 DEF PairOK
<1>4. \A v \in Values : KnowsVal(sc.peers[a], bc, a, v) =>
        sd.status # "off" /\ (Current(pr, sd) => v = sd.val)
  BY DEF PairOK
<1> QED BY <1>2, <1>3, <1>4 DEF PairOK

\* a forgets everybody and stays on the server, behind another tab or not.
LEMMA Blank ==
  ASSUME NEW pr \in Protocols, NEW a \in PxClients, NEW c \in PxClients,
         NEW sa \in ClientState, NEW sc \in ClientState, NEW sd \in ClientState,
         NEW ba \in Seq(Mail), NEW bc \in Seq(Mail),
         PairOK(pr, sc, bc, sa, ba, c, a), PairOK(pr, sa, ba, sc, bc, a, c),
         sd.peers[c] = Unknown, sa.status # "off", sd.status # "off", ~Told(pr, sd),
         ~Unheard(sd), ~Joined(sd)
  PROVE  PairOK(pr, sc, bc, sd, ba, c, a) /\ PairOK(pr, sd, ba, sc, bc, a, c)
<1>1. Forgotten(sa.peers[c], ba, c) => Forgotten(Unknown, ba, c)
  BY DEF Forgotten, Unknown
<1>2. ~Current(pr, sd)
  BY DEF Current
<1>3. PairOK(pr, sc, bc, sd, ba, c, a)
  BY <1>1, <1>2 DEF PairOK
<1>4. \A v \in Values : KnowsVal(Unknown, ba, c, v) => KnowsVal(sa.peers[c], ba, c, v)
  BY DEF KnowsVal, Unknown
<1>5. PairOK(pr, sd, ba, sc, bc, a, c)
  BY <1>4 DEF PairOK
<1> QED BY <1>3, <1>5

LEMMA NothingInEmptyBox ==
  ASSUME NEW c \in PxClients
  PROVE  Forgotten(Unknown, <<>>, c) /\ \A v \in Values : ~KnowsVal(Unknown, <<>>, c, v)
BY DEF Forgotten, KnowsVal, LastCmd, Unknown

\* a connects, and has announced nothing yet.
LEMMA Arrived ==
  ASSUME NEW pr \in Protocols, NEW a \in PxClients, NEW c \in PxClients,
         NEW sa \in ClientState, NEW sc \in ClientState, NEW sd \in ClientState,
         NEW ba \in Seq(Mail), NEW bc \in Seq(Mail),
         PairOK(pr, sc, bc, sa, ba, c, a), PairOK(pr, sa, ba, sc, bc, a, c),
         sc.peers[a].known = sc.peers[a].replied,
         sd.peers[c] = Unknown, sa.status = "off", ~Told(pr, sd)
  PROVE  PairOK(pr, sc, bc, sd, <<>>, c, a) /\ PairOK(pr, sd, <<>>, sc, bc, a, c)
<1>1. ~Current(pr, sd)
  BY DEF Current
<1>2. \A v \in Values : ~KnowsVal(sc.peers[a], bc, a, v)
  BY DEF PairOK
<1>3. PairOK(pr, sc, bc, sd, <<>>, c, a)
  BY <1>2, NothingInEmptyBox DEF PairOK
<1>4. Forgotten(sc.peers[a], bc, a)
  BY DEF PairOK, Unheard
<1>5. CanAnswer(sc.peers[a], bc, a)
  BY <1>4, ForgottenIsUnknown DEF ClientState
<1>6. PairOK(pr, sd, <<>>, sc, bc, a, c)
  BY <1>4, <1>5, NothingInEmptyBox DEF PairOK
<1> QED BY <1>3, <1>6

\* a leaves the server.
LEMMA Departed ==
  ASSUME NEW pr \in Protocols, NEW a \in PxClients, NEW c \in PxClients, a # c,
         NEW sc \in ClientState, NEW sd \in ClientState,
         NEW bc \in Seq(Mail), NEW bd \in Seq(Mail), NEW m \in Mail,
         Own(pr, sc, bc, c), m.from = a, m.left,
         bd = IF sc.status # "off" THEN Append(bc, m) ELSE bc,
         sd.peers[c] = Unknown, sd.status = "off"
  PROVE  PairOK(pr, sc, bd, sd, <<>>, c, a) /\ PairOK(pr, sd, <<>>, sc, bd, a, c)
<1>0. sc.peers[a] \in Entry
  BY DEF ClientState
<1>1. (\A v \in Values : ~KnowsVal(sc.peers[a], bd, a, v)) /\ Forgotten(sc.peers[a], bd, a)
  <2>1. CASE sc.status = "off"
    <3>1. bd = <<>> /\ ~sc.peers[a].known /\ ~sc.peers[a].replied
      BY <2>1 DEF Own
    <3> QED BY <3>1 DEF KnowsVal, LastCmd, Forgotten
  <2>2. CASE sc.status # "off"
    BY <1>0, <2>2, KnowsAfterAppend, AskedAfterAppend
  <2> QED BY <2>1, <2>2
<1>2. ~Told(pr, sd) /\ ~Joined(sd)
  BY DEF Told, Joined
<1> QED BY <1>1, <1>2, NothingInEmptyBox DEF PairOK
-----------------------------------------------------------------------------
(* What they do to the whole.                                              *)

\* One client has state sd now, and the bounds are kept.
Moved(a, sd) == client' = [client EXCEPT ![a] = sd] /\ proto' = proto
Counted      == pxEvents' \in 0..PxMaxEvents /\ pxFaults' \in 0..PxMaxFaults

\* The invariant again, after one client has moved and sent at most m.
LEMMA Whole ==
  ASSUME PxInv, Counted, NEW a \in PxClients, NEW sd \in ClientState, NEW m \in Mail, m.from = a,
         Moved(a, sd), mail' \in [PxClients -> Seq(Mail)],
         \A c \in PxClients \ {a} : mail'[c] = mail[c] \/ mail'[c] = Append(mail[c], m),
         \A c \in PxClients \ {a} : client[c].status = "off" => mail'[c] = mail[c],
         Own(proto, sd, mail'[a], a),
         \A c \in PxClients \ {a} :
           /\ PairOK(proto, client[c], mail'[c], sd, mail'[a], c, a)
           /\ PairOK(proto, sd, mail'[a], client[c], mail'[c], a, c)
  PROVE  PxInv'
<1>0. /\ client \in [PxClients -> ClientState] /\ mail \in [PxClients -> Seq(Mail)]
      /\ proto \in Protocols
  BY DEF PxInv, PxTypeOK
<1>1. /\ client' \in [PxClients -> ClientState] /\ client'[a] = sd
      /\ \A c \in PxClients \ {a} : client'[c] = client[c]
  BY <1>0 DEF Moved
<1>2. OwnInv'
  <2>1. ASSUME NEW c \in PxClients PROVE Own(proto, client'[c], mail'[c], c)
    <3>1. CASE c = a
      BY <1>1, <3>1
    <3>2. CASE c # a
      <4>1. Own(proto, client[c], mail[c], c)
        BY DEF PxInv, OwnInv
      <4> QED BY <1>1, <3>2, <4>1 DEF Own
    <3> QED BY <3>1, <3>2
  <2> QED BY <2>1 DEF OwnInv, Moved
<1>3. PxTypeOK'
  <2>1. \A c \in PxClients : client'[c].wire # Unread => client'[c].claimed
    BY <1>2 DEF OwnInv, Own
  <2>2. \A c \in PxClients : proto' # "mode" => ~client'[c].claimed /\ client'[c].fails = 0
    BY <1>2 DEF OwnInv, Own
  <2> QED BY <1>0, <1>1, <2>1, <2>2 DEF PxTypeOK, Moved, Counted
<1>4. PairInv'
  <2> SUFFICES ASSUME NEW c \in PxClients, NEW p \in PxClients, c # p
               PROVE  PairOK(proto, client'[c], mail'[c], client'[p], mail'[p], c, p)
    BY DEF PairInv, Moved
  <2>1. CASE c = a
    BY <1>1, <2>1
  <2>2. CASE p = a
    BY <1>1, <2>2
  <2>3. CASE c # a /\ p # a
    <3>1. PairOK(proto, client[c], mail[c], client[p], mail[p], c, p)
      BY DEF PxInv, PairInv
    <3>2. /\ client[c].peers[p].known = client[c].peers[p].replied
          /\ client[p].peers[c].known = client[p].peers[c].replied
      BY DEF PxInv, OwnInv, Own
    <3>3. /\ client[c] \in ClientState /\ client[p] \in ClientState /\ mail[c] \in Seq(Mail)
          /\ mail[p] \in Seq(Mail) /\ mail'[c] \in Seq(Mail) /\ mail'[p] \in Seq(Mail)
      BY <1>0
    <3>4. /\ mail'[c] = mail[c] \/ (mail'[c] = Append(mail[c], m) /\ m.from # p)
          /\ mail'[p] = mail[p] \/ (mail'[p] = Append(mail[p], m) /\ m.from # c)
      BY <2>3
    <3>5. PairOK(proto, client[c], mail'[c], client[p], mail'[p], c, p)
      BY <1>0, <3>1, <3>2, <3>3, <3>4, Calm
    <3> QED BY <1>1, <2>3, <3>5
  <2> QED BY <2>1, <2>2, <2>3
<1> QED BY <1>2, <1>3, <1>4 DEF PxInv

\* The invariant, as one client sees it.
LEMMA Pieces ==
  ASSUME PxInv, NEW a \in PxClients
  PROVE  /\ client[a] \in ClientState /\ mail[a] \in Seq(Mail) /\ Own(proto, client[a], mail[a], a)
         /\ client \in [PxClients -> ClientState] /\ mail \in [PxClients -> Seq(Mail)]
         /\ proto \in Protocols /\ pxEvents \in 0..PxMaxEvents /\ pxFaults \in 0..PxMaxFaults
         /\ \A c \in PxClients \ {a} :
              /\ client[c] \in ClientState /\ mail[c] \in Seq(Mail)
              /\ Own(proto, client[c], mail[c], c)
              /\ client[c].peers[a].known = client[c].peers[a].replied
              /\ client[a].peers[c].known = client[a].peers[c].replied
              /\ PairOK(proto, client[c], mail[c], client[a], mail[a], c, a)
              /\ PairOK(proto, client[a], mail[a], client[c], mail[c], a, c)
<1>1. \A c \in PxClients : Own(proto, client[c], mail[c], c)
  BY DEF PxInv, OwnInv
<1>2. \A c \in PxClients \ {a} : /\ client[c].peers[a].known = client[c].peers[a].replied
                                 /\ client[a].peers[c].known = client[a].peers[c].replied
  <2> SUFFICES ASSUME NEW c \in PxClients \ {a}
               PROVE  /\ client[c].peers[a].known = client[c].peers[a].replied
                      /\ client[a].peers[c].known = client[a].peers[c].replied
    OBVIOUS
  <2>1. Own(proto, client[c], mail[c], c) /\ Own(proto, client[a], mail[a], a)
    BY <1>1
  <2>2. a \in PxClients \ {c} /\ c \in PxClients \ {a}
    OBVIOUS
  <2> QED BY <2>1, <2>2 DEF Own
<1> QED BY <1>1, <1>2 DEF PxInv, PxTypeOK, PairInv

\* He says nothing to anybody.
LEMMA Quietly ==
  ASSUME PxInv, Counted, NEW a \in PxClients, NEW sd \in ClientState, Moved(a, sd), mail' = mail,
         Own(proto, sd, mail[a], a),
         LET s == client[a]
         IN /\ sd.peers = s.peers /\ sd.status = s.status
            /\ Unheard(sd) => Unheard(s)
            /\ Joined(sd) => Joined(s) \/ (Unheard(s) /\ ~Told(proto, sd))
            /\ Told(proto, sd) => Told(proto, s)
            /\ Current(proto, sd) => Current(proto, s) /\ sd.val = s.val
  PROVE  PxInv'
<1> DEFINE s == client[a]
<1>0. PICK m \in Mail : m.from = a
  <2>1. Command(a, 0) \in Mail /\ Command(a, 0).from = a
    BY DEF Mail, Command, Values
  <2> QED BY <2>1
<1>1. /\ sd.peers = s.peers /\ sd.status = s.status
      /\ Unheard(sd) => Unheard(s)
      /\ Joined(sd) => Joined(s) \/ (Unheard(s) /\ ~Told(proto, sd))
      /\ Told(proto, sd) => Told(proto, s)
      /\ Current(proto, sd) => Current(proto, s) /\ sd.val = s.val
  OBVIOUS
<1> HIDE DEF s
<1>2. ASSUME NEW c \in PxClients \ {a}
      PROVE  /\ PairOK(proto, client[c], mail[c], sd, mail[a], c, a)
             /\ PairOK(proto, sd, mail[a], client[c], mail[c], a, c)
  <2>1. /\ s \in ClientState /\ mail[a] \in Seq(Mail) /\ client[c] \in ClientState
        /\ mail[c] \in Seq(Mail) /\ proto \in Protocols
        /\ client[c].peers[a].known = client[c].peers[a].replied
        /\ s.peers[c].known = s.peers[c].replied
        /\ PairOK(proto, client[c], mail[c], s, mail[a], c, a)
        /\ PairOK(proto, s, mail[a], client[c], mail[c], a, c)
    BY <1>2, Pieces DEF s
  <2>2. PairOK(proto, client[c], mail[c], sd, mail[a], c, a)
    <3>1. sd.peers[c] = s.peers[c]
      BY <1>1
    <3> QED BY <1>1, <2>1, <3>1 DEF PairOK
  <2>3. PairOK(proto, sd, mail[a], client[c], mail[c], a, c)
    BY <1>0, <1>1, <2>1, Calm
  <2> QED BY <2>2, <2>3
<1>3. mail \in [PxClients -> Seq(Mail)]
  BY Pieces
<1> QED BY <1>0, <1>2, <1>3, Whole

\* In state s, with box b, he announces v.
Mid(a, s, b) ==
  /\ s \in ClientState /\ b \in Seq(Mail)
  /\ \A c \in PxClients \ {a} : /\ PairOK(proto, client[c], mail[c], s, b, c, a)
                                /\ PairOK(proto, s, b, client[c], mail[c], a, c)

LEMMA Announcing ==
  ASSUME PxInv, Counted, NEW a \in PxClients, NEW sd \in ClientState, Moved(a, sd),
         NEW s, NEW b, Mid(a, s, b), NEW v \in Values,
         mail' = ToAll([mail EXCEPT ![a] = b], Command(a, v)),
         sd.status = "shown", sd.registered, Joined(sd) => Joined(s) \/ Unheard(s),
         \A c \in PxClients \ {a} : sd.peers[c] = s.peers[c],
         Current(proto, sd) => v = sd.val,
         Own(proto, sd, mail'[a], a)
  PROVE  PxInv'
<1> DEFINE m == Command(a, v)
<1>0. m \in Mail /\ m.from = a /\ ~m.left /\ m.val = v
  BY DEF Mail, Command
<1>1. s \in ClientState /\ b \in Seq(Mail)
  BY DEF Mid
<1>2. /\ mail'[a] = b \/ mail'[a] = Append(b, m)
      /\ \A c \in PxClients \ {a} :
           mail'[c] = IF client[c].status # "off" THEN Append(mail[c], m) ELSE mail[c]
  BY <1>0, Pieces DEF ToAll, Connected
<1>3. mail' \in [PxClients -> Seq(Mail)]
  <2>1. mail' = [c \in PxClients |-> mail'[c]]
    BY DEF ToAll
  <2>2. ASSUME NEW c \in PxClients PROVE mail'[c] \in Seq(Mail)
    <3>1. mail[c] \in Seq(Mail)
      BY Pieces
    <3>2. m \in Mail /\ Append(mail[c], m) \in Seq(Mail) /\ Append(b, m) \in Seq(Mail)
      BY <1>0, <1>1, <3>1
    <3>3. CASE c = a
      BY <1>1, <1>2, <3>2, <3>3
    <3>4. CASE c # a
      BY <1>2, <3>1, <3>2, <3>4
    <3> QED BY <3>3, <3>4
  <2> QED BY <2>1, <2>2
<1> HIDE DEF m
<1>4. ~Unheard(sd) /\ sd.status # "off"
  BY DEF Unheard
<1>5. ASSUME NEW c \in PxClients \ {a}
      PROVE  /\ PairOK(proto, client[c], mail'[c], sd, mail'[a], c, a)
             /\ PairOK(proto, sd, mail'[a], client[c], mail'[c], a, c)
  <2>1. /\ client[c] \in ClientState /\ mail[c] \in Seq(Mail) /\ proto \in Protocols
        /\ Own(proto, client[c], mail[c], c)
        /\ client[c].peers[a].known = client[c].peers[a].replied
    BY Pieces
  <2>2. mail'[a] \in Seq(Mail) /\ mail'[c] \in Seq(Mail)
    BY <1>3
  <2>3. /\ PairOK(proto, client[c], mail[c], s, b, c, a)
        /\ PairOK(proto, s, b, client[c], mail[c], a, c)
    BY DEF Mid
  <2>4. mail'[c] = IF client[c].status # "off" THEN Append(mail[c], m) ELSE mail[c]
    BY <1>2
  <2>5. Current(proto, sd) => m.val = sd.val
    BY <1>0
  <2>8. c # a /\ sd.peers[c] = s.peers[c] /\ (mail'[a] = b \/ mail'[a] = Append(b, m))
    BY <1>2, <1>5
  <2> DEFINE sc == client[c]
             bc == mail'[c]
             ba == mail'[a]
  <2>0. sc.peers[a] \in Entry /\ s.peers[c] \in Entry
    BY <1>1, <2>1 DEF ClientState
  <2>9. ba \in Seq(Mail) /\ bc \in Seq(Mail) /\ (ba = b \/ ba = Append(b, m))
    BY <2>2, <2>8
  <2>10. bc = IF sc.status # "off" THEN Append(mail[c], m) ELSE mail[c]
    BY <2>4
  <2> HIDE DEF sc, bc, ba
  <2>11. Forgotten(s.peers[c], b, c) => Forgotten(s.peers[c], ba, c)
    BY <1>0, <1>1, <2>0, <2>8, <2>9, AskedAfterAppend
  <2>12. \A w \in Values : KnowsVal(s.peers[c], ba, c, w) <=> KnowsVal(s.peers[c], b, c, w)
    <3>1. CASE ba = b
      BY <3>1
    <3>2. CASE ba = Append(b, m)
      BY <1>0, <1>1, <2>0, <2>8, <3>2, KnowsAfterAppend
    <3> QED BY <2>9, <3>1, <3>2
  <2>6. PairOK(proto, client[c], mail'[c], sd, mail'[a], c, a)
    <3>2. Unheard(sc) => Forgotten(sd.peers[c], ba, c)
      BY <2>3, <2>8, <2>11 DEF PairOK, sc
    <3>3. CASE sc.status = "off"
      <4>1. bc = <<>> /\ ~sc.peers[a].known
        BY <2>1, <2>8, <2>10, <3>3 DEF Own, sc
      <4>2. \A w \in Values : ~KnowsVal(sc.peers[a], bc, a, w)
        BY <4>1 DEF KnowsVal, LastCmd
      <4>3. ~Joined(sc)
        BY <3>3 DEF Joined
      <4>4. PairOK(proto, sc, bc, sd, ba, c, a)
        BY <3>2, <4>2, <4>3 DEF PairOK
      <4> QED BY <4>4 DEF sc, bc, ba
    <3>4. CASE sc.status # "off"
      <4>1. \A w \in Values : KnowsVal(sc.peers[a], bc, a, w) <=> w = m.val
        BY <1>0, <2>0, <2>1, <2>10, <3>4, KnowsAfterAppend
      <4>2. Knows(sc.peers[a], bc, a)
        BY <1>0, <4>1 DEF Knows
      <4>3. PairOK(proto, sc, bc, sd, ba, c, a)
        BY <1>4, <2>5, <3>2, <4>1, <4>2 DEF PairOK
      <4> QED BY <4>3 DEF sc, bc, ba
    <3> QED BY <3>3, <3>4
  <2>7. PairOK(proto, sd, mail'[a], client[c], mail'[c], a, c)
    <3>1. /\ PairOK(proto, s, b, sc, mail[c], a, c)
          /\ sc.peers[a].known = sc.peers[a].replied
      BY <2>1, <2>3 DEF sc
    <3>2. \A w \in Values : KnowsVal(sd.peers[c], ba, c, w) =>
            sc.status # "off" /\ (Current(proto, sc) => w = sc.val)
      BY <2>8, <2>12, <3>1 DEF PairOK
    <3>3. ASSUME Joined(sd), Told(proto, sc)
          PROVE  Knows(sd.peers[c], ba, c) \/ Answers(sc.peers[a], bc, a)
      <4>1. bc = Append(mail[c], m)
        BY <2>10, <3>3 DEF Told
      <4>2. CanAnswer(sc.peers[a], mail[c], a) \/ Answers(sc.peers[a], mail[c], a) =>
              Answers(sc.peers[a], bc, a)
        BY <1>0, <2>0, <2>1, <4>1, AskedAfterAppend
      <4>3. CASE Joined(s)
        <5>1. Knows(s.peers[c], b, c) => Knows(sd.peers[c], ba, c)
          BY <2>8, <2>12 DEF Knows
        <5> QED BY <3>1, <3>3, <4>2, <4>3, <5>1 DEF PairOK
      <4>4. CASE Unheard(s)
        <5>1. Forgotten(sc.peers[a], mail[c], a)
          BY <3>1, <4>4 DEF PairOK
        <5> QED BY <2>0, <2>1, <3>1, <4>2, <5>1, ForgottenIsUnknown
      <4> QED BY <3>3, <4>3, <4>4
    <3>4. PairOK(proto, sd, ba, sc, bc, a, c)
      BY <1>4, <3>2, <3>3 DEF PairOK
    <3> QED BY <3>4 DEF sc, bc, ba
  <2> QED BY <2>6, <2>7
<1>6. \A c \in PxClients \ {a} :
        /\ mail'[c] = mail[c] \/ mail'[c] = Append(mail[c], m)
        /\ client[c].status = "off" => mail'[c] = mail[c]
  BY <1>2
<1> QED BY <1>0, <1>3, <1>5, <1>6, Whole

\* He takes a message out of his box.
LEMMA Taking ==
  ASSUME PxInv, NEW a \in PxClients, NEW sd \in ClientState, mail[a] # <<>>,
         LET m == Head(mail[a])
             s == client[a]
         IN /\ s.status # "off" /\ sd.status = s.status /\ sd.val = s.val
            /\ Unheard(sd) => Unheard(s)
            /\ Joined(sd) => Joined(s)
            /\ Told(proto, sd) => Told(proto, s)
            /\ Current(proto, sd) => Current(proto, s)
            /\ \A c \in PxClients \ {a} :
                 /\ IF m.from # c THEN sd.peers[c] = s.peers[c]
                    ELSE /\ sd.peers[c].known = sd.peers[c].replied
                         /\ sd.peers[c].known => ~m.left /\ sd.peers[c].val = m.val
                         /\ Joined(sd) /\ ~m.left => sd.peers[c].known /\ sd.peers[c].val = m.val
                 /\ Told(proto, sd) => ~(m.from = c /\ ~m.left /\ ~s.peers[c].replied)
  PROVE  Mid(a, sd, Tail(mail[a]))
<1> DEFINE m == Head(mail[a])
           s == client[a]
<1>0. /\ s \in ClientState /\ mail[a] \in Seq(Mail) /\ proto \in Protocols
      /\ Tail(mail[a]) \in Seq(Mail)
  BY Pieces
<1>1. ASSUME NEW c \in PxClients \ {a}
      PROVE  /\ PairOK(proto, client[c], mail[c], sd, Tail(mail[a]), c, a)
             /\ PairOK(proto, sd, Tail(mail[a]), client[c], mail[c], a, c)
  <2>1. /\ client[c] \in ClientState /\ mail[c] \in Seq(Mail) /\ proto \in Protocols
        /\ PairOK(proto, client[c], mail[c], s, mail[a], c, a)
        /\ PairOK(proto, s, mail[a], client[c], mail[c], a, c)
    BY Pieces
  <2>2. IF m.from # c THEN sd.peers[c] = s.peers[c]
        ELSE /\ sd.peers[c].known = sd.peers[c].replied
             /\ sd.peers[c].known => ~m.left /\ sd.peers[c].val = m.val
             /\ Joined(sd) /\ ~m.left => sd.peers[c].known /\ sd.peers[c].val = m.val
    BY <1>1
  <2>3. Told(proto, sd) => Told(proto, s) /\ ~(m.from = c /\ ~m.left /\ ~s.peers[c].replied)
    BY <1>1
  <2>4. /\ Unheard(sd) => Unheard(s)
        /\ Joined(sd) => Joined(s)
        /\ Current(proto, sd) => Current(proto, s) /\ sd.val = s.val
        /\ s.status # "off" => sd.status # "off"
    OBVIOUS
  <2> HIDE DEF s
  <2>5. PairOK(proto, client[c], mail[c], sd, Tail(mail[a]), c, a)
    BY <1>0, <2>1, <2>2, <2>3, <2>4, TakenFrom
  <2>6. PairOK(proto, sd, Tail(mail[a]), client[c], mail[c], a, c)
    BY <1>0, <2>1, <2>2, <2>3, <2>4, TakenBy
  <2> QED BY <2>5, <2>6
<1> QED BY <1>0, <1>1 DEF Mid

\* He says nothing, and has box b from now on.
LEMMA Moving ==
  ASSUME PxInv, Counted, NEW a \in PxClients, NEW sd \in ClientState, Moved(a, sd),
         NEW b, mail' = [mail EXCEPT ![a] = b], Mid(a, sd, b), Own(proto, sd, b, a)
  PROVE  PxInv'
<1>0. PICK m \in Mail : m.from = a
  <2>1. Command(a, 0) \in Mail /\ Command(a, 0).from = a
    BY DEF Mail, Command, Values
  <2> QED BY <2>1
<1>1. /\ mail' \in [PxClients -> Seq(Mail)] /\ mail'[a] = b
      /\ \A c \in PxClients \ {a} : mail'[c] = mail[c]
  BY Pieces DEF Mid
<1> QED BY <1>0, <1>1, Whole DEF Mid

\* The fields of a client that one step leaves alone.
Alike(d, s) ==
  /\ d.status = s.status /\ d.registered = s.registered /\ d.returned = s.returned
  /\ d.val = s.val /\ d.signalling = s.signalling /\ d.claimed = s.claimed /\ d.wire = s.wire
  /\ d.fails = s.fails

LEMMA Pending ==
  ASSUME NEW s \in ClientState, NEW x \in BOOLEAN
  PROVE  LET d == [s EXCEPT !.pend = x]
         IN /\ d \in ClientState /\ d.pend = x /\ d.peers = s.peers /\ d.dropped = s.dropped
            /\ Alike(d, s)
<1> DEFINE d == [s EXCEPT !.pend = x]
<1>1. d \in ClientState
  BY DEF ClientState
<1>2. d.pend = x /\ d.peers = s.peers /\ d.dropped = s.dropped /\ Alike(d, s)
  BY DEF ClientState, Alike
<1> QED BY <1>1, <1>2

LEMMA Refused ==
  ASSUME NEW s \in ClientState, NEW x \in BOOLEAN, NEW y \in BOOLEAN
  PROVE  LET d == [s EXCEPT !.pend = x, !.dropped = y]
         IN /\ d \in ClientState /\ d.pend = x /\ d.peers = s.peers /\ d.dropped = y
            /\ Alike(d, s)
<1> DEFINE d == [s EXCEPT !.pend = x, !.dropped = y]
<1>1. d \in ClientState
  BY DEF ClientState
<1>2. d.pend = x /\ d.peers = s.peers /\ d.dropped = y /\ Alike(d, s)
  BY DEF ClientState, Alike
<1> QED BY <1>1, <1>2

LEMMA Versioned ==
  ASSUME NEW s \in ClientState, NEW a \in PxClients
  PROVE  LET d == VersionSent(a, s)
         IN /\ d \in ClientState /\ d.pend = s.pend /\ d.dropped = FALSE
            /\ \A c \in PxClients \ {a} : d.peers[c] = s.peers[c]
            /\ Alike(d, s)
<1> DEFINE d == VersionSent(a, s)
           e == [s.peers[a] EXCEPT !.known = TRUE, !.val = s.val]
<1>1. s.peers \in [PxClients -> Entry] /\ s.peers[a] \in Entry /\ s.val \in Values
  BY DEF ClientState
<1>2. e \in Entry
  BY <1>1 DEF Entry
<1>3. d = [s EXCEPT !.peers = [s.peers EXCEPT ![a] = e], !.dropped = FALSE]
  BY <1>1 DEF VersionSent, ClientState, Entry
<1> HIDE DEF d, e
<1>4. [s.peers EXCEPT ![a] = e] \in [PxClients -> Entry]
  BY <1>1, <1>2
<1>5. d \in ClientState
  BY <1>3, <1>4 DEF ClientState
<1>6. d.pend = s.pend /\ d.dropped = FALSE /\ Alike(d, s) /\ d.peers = [s.peers EXCEPT ![a] = e]
  BY <1>3 DEF ClientState, Alike
<1> QED BY <1>1, <1>5, <1>6 DEF d

\* What a new connection, or a tab that is shown again, announces.
LEMMA Booted ==
  ASSUME PxInv, Counted, proto' = proto, NEW a \in PxClients, NEW r \in ClientState,
         NEW b \in Seq(Mail), NEW sent \in BOOLEAN,
         r.status = "shown", ~r.claimed, r.wire = Unread, r.fails = 0,
         r.peers = [p \in PxClients |-> Unknown], proto # "mode" => ~r.signalling,
         \A s \in ClientState :
           s.peers = r.peers /\ s.status = "shown" /\ s.registered = r.registered
             /\ s.returned = r.returned /\ ~Told(proto, s) => Mid(a, s, b),
         Bootstrap(a, r, [mail EXCEPT ![a] = b], sent)
  PROVE  PxInv'
<1> DEFINE s == [r EXCEPT !.pend = TRUE]
<1>1. /\ s \in ClientState /\ s.pend /\ s.peers = r.peers /\ s.status = "shown"
      /\ s.registered = r.registered /\ s.returned = r.returned /\ Alike(s, r)
  BY Pending DEF Alike
<1>2. Mid(a, s, b)
  BY <1>1 DEF Told
<1>3. proto \in Protocols /\ client \in [PxClients -> ClientState]
  BY Pieces
<1>4. \A p \in PxClients : r.peers[p].known = FALSE /\ r.peers[p].replied = FALSE
  BY DEF Unknown
<1>5. CASE proto # "version"
  <2>1. Moved(a, s) /\ mail' = [mail EXCEPT ![a] = b]
    BY <1>5 DEF Bootstrap, Moved
  <2>2. Own(proto, s, b, a)
    BY <1>1, <1>4 DEF Own, Alike
  <2> QED BY <1>1, <1>2, <2>1, <2>2, Moving
<1>6. CASE proto = "version" /\ r.registered /\ sent
  <2> DEFINE sd == VersionSent(a, r)
  <2>1. Moved(a, sd) /\ mail' = ToAll([mail EXCEPT ![a] = b], Command(a, r.val))
    BY <1>6 DEF Bootstrap, Moved
  <2>2. /\ sd \in ClientState /\ sd.status = "shown" /\ sd.registered /\ sd.val = r.val
        /\ \A c \in PxClients \ {a} : sd.peers[c] = s.peers[c]
        /\ sd.returned = r.returned /\ ~sd.claimed /\ sd.wire = Unread /\ ~sd.signalling
        /\ sd.fails = 0
    <3>1. /\ sd \in ClientState /\ Alike(sd, r)
          /\ \A c \in PxClients \ {a} : sd.peers[c] = r.peers[c]
      BY Versioned
    <3> QED BY <1>1, <1>6, <3>1 DEF Alike
  <2> HIDE DEF sd, s
  <2>3. Joined(sd) => Joined(s)
    BY <1>1, <1>6, <2>2 DEF Joined
  <2>4. Own(proto, sd, mail'[a], a)
    <3>1. \A c \in PxClients \ {a} : sd.peers[c].known = FALSE /\ sd.peers[c].replied = FALSE
      BY <1>1, <1>4, <2>2
    <3> QED BY <2>2, <3>1 DEF Own
  <2>5. r.val \in Values
    BY DEF ClientState
  <2> QED BY <1>2, <2>1, <2>2, <2>3, <2>4, <2>5, Announcing
<1>7. CASE proto = "version" /\ ~(r.registered /\ sent)
  <2> DEFINE sd == [r EXCEPT !.pend = ~r.registered, !.dropped = r.registered]
  <2>1. Moved(a, sd) /\ mail' = [mail EXCEPT ![a] = b]
    BY <1>7 DEF Bootstrap, Moved
  <2>2. r.registered \in BOOLEAN
    BY DEF ClientState
  <2>3. /\ sd \in ClientState /\ sd.pend = ~r.registered /\ sd.peers = r.peers
        /\ sd.status = "shown" /\ sd.registered = r.registered /\ sd.returned = r.returned
        /\ sd.signalling = r.signalling /\ ~sd.claimed /\ sd.wire = Unread
        /\ sd.fails = 0 /\ sd.dropped = r.registered
    <3> DEFINE x == ~r.registered
    <3>1. x \in BOOLEAN
      OBVIOUS
    <3> HIDE DEF x
    <3>2. LET d == [r EXCEPT !.pend = x, !.dropped = r.registered]
          IN /\ d \in ClientState /\ d.pend = x /\ d.peers = r.peers /\ d.dropped = r.registered
             /\ Alike(d, r)
      BY <2>2, <3>1, Refused
    <3> QED BY <3>2 DEF Alike, x
  <2> HIDE DEF sd
  <2>4. Mid(a, sd, b)
    BY <2>3 DEF Told
  <2>5. Own(proto, sd, b, a)
    BY <1>4, <2>3 DEF Own
  <2> QED BY <2>1, <2>3, <2>4, <2>5, Moving
<1> QED BY <1>5, <1>6, <1>7

\* What is left of a client after a reset.
Emptied(d, s) ==
  /\ d.peers = [p \in PxClients |-> Unknown] /\ d.pend = FALSE /\ d.fails = 0
  /\ d.val = s.val /\ d.signalling = s.signalling /\ d.claimed = s.claimed /\ d.wire = s.wire

LEMMA ResetIs ==
  ASSUME NEW s \in ClientState, PxAssumption
  PROVE  PxReset(s) \in ClientState /\ Emptied(PxReset(s), s)
         /\ PxReset(s).status = s.status /\ PxReset(s).registered = s.registered
         /\ PxReset(s).returned = s.returned
<1>1. [p \in PxClients |-> Unknown] \in [PxClients -> Entry] /\ 0 \in 0..RetryMax
  BY DEF Unknown, Entry, Values, PxAssumption
<1>2. PxReset(s) \in ClientState
  BY <1>1 DEF PxReset, ClientState
<1> QED BY <1>2 DEF PxReset, ClientState, Emptied

LEMMA ResetBack ==
  ASSUME NEW s \in ClientState, PxAssumption, NEW st \in {"off", "shown", "hidden"}
  PROVE  LET d == [PxReset(s) EXCEPT !.status = st]
         IN /\ d \in ClientState /\ d.status = st /\ Emptied(d, s)
            /\ d.registered = s.registered /\ d.returned = s.returned
<1> DEFINE r == PxReset(s)
<1>1. /\ r \in ClientState /\ Emptied(r, s) /\ r.registered = s.registered
      /\ r.returned = s.returned
  BY ResetIs
<1> HIDE DEF r
<1>2. LET d == [r EXCEPT !.status = st]
      IN /\ d \in ClientState /\ d.status = st /\ Emptied(d, s)
         /\ d.registered = s.registered /\ d.returned = s.returned
  BY <1>1 DEF ClientState, Emptied
<1> QED BY <1>2 DEF r

LEMMA ResetToConnect ==
  ASSUME NEW s \in ClientState, PxAssumption, NEW st \in {"off", "shown", "hidden"},
         NEW x \in BOOLEAN
  PROVE  LET d == [PxReset(s) EXCEPT !.status = st, !.returned = x]
         IN /\ d \in ClientState /\ d.status = st /\ Emptied(d, s)
            /\ d.registered = s.registered /\ d.returned = x
<1> DEFINE r == PxReset(s)
<1>1. /\ r \in ClientState /\ Emptied(r, s) /\ r.registered = s.registered
      /\ r.returned = s.returned
  BY ResetIs
<1> HIDE DEF r
<1>2. LET d == [r EXCEPT !.status = st, !.returned = x]
      IN /\ d \in ClientState /\ d.status = st /\ Emptied(d, s)
         /\ d.registered = s.registered /\ d.returned = x
  BY <1>1 DEF ClientState, Emptied
<1> QED BY <1>2 DEF r

LEMMA ResetToShow ==
  ASSUME NEW s \in ClientState, PxAssumption, NEW y \in BOOLEAN
  PROVE  LET d == [PxReset(s) EXCEPT !.status = "shown", !.returned = TRUE, !.registered = y]
         IN /\ d \in ClientState /\ d.status = "shown" /\ Emptied(d, s)
            /\ d.registered = y /\ d.returned = TRUE
<1> DEFINE r == PxReset(s)
<1>1. /\ r \in ClientState /\ Emptied(r, s) /\ r.registered = s.registered
      /\ r.returned = s.returned
  BY ResetIs
<1> HIDE DEF r
<1>2. LET d == [r EXCEPT !.status = "shown", !.returned = TRUE, !.registered = y]
      IN /\ d \in ClientState /\ d.status = "shown" /\ Emptied(d, s)
         /\ d.registered = y /\ d.returned = TRUE
  BY <1>1 DEF ClientState, Emptied
<1> QED BY <1>2 DEF r

LEMMA CountsFit ==
  ASSUME PxAssumption
  PROVE  /\ pxEvents \in 0..PxMaxEvents /\ pxFaults \in 0..PxMaxFaults =>
              /\ Happening /\ UNCHANGED pxFaults => Counted
              /\ UNCHANGED <<pxEvents, pxFaults>> => Counted
              /\ \A sent : Fault(sent) /\ (Happening \/ UNCHANGED pxEvents) => Counted
BY DEF Happening, Fault, Counted, PxAssumption
-----------------------------------------------------------------------------
(* The steps.                                                              *)

LEMMA ConnectStep ==
  ASSUME PxAssumption, PxInv, NEW a \in PxClients, PxConnect(a)
  PROVE  PxInv'
<1> DEFINE s == client[a]
           r == [PxReset(s) EXCEPT !.status = "shown", !.returned = FALSE]
<1>1. PICK sent \in BOOLEAN : Fault(sent) /\ Bootstrap(a, r, [mail EXCEPT ![a] = <<>>], sent)
  BY DEF PxConnect
<1>2. s \in ClientState /\ Own(proto, s, mail[a], a) /\ s.status = "off"
  BY Pieces DEF PxConnect, Connected
<1>3. /\ r \in ClientState /\ r.status = "shown" /\ Emptied(r, s) /\ r.registered = s.registered
      /\ r.returned = FALSE
  BY <1>2, ResetToConnect
<1>4. ~r.claimed /\ r.wire = Unread /\ (proto # "mode" => ~r.signalling)
  BY <1>2, <1>3 DEF Own, Emptied
<1>5. Counted /\ proto' = proto
  BY <1>1, Pieces, CountsFit DEF PxConnect
<1> HIDE DEF r
<1>6. ASSUME NEW d \in ClientState, d.peers = r.peers, ~Told(proto, d)
      PROVE  Mid(a, d, <<>>)
  <2>1. ASSUME NEW c \in PxClients \ {a}
        PROVE  /\ PairOK(proto, client[c], mail[c], d, <<>>, c, a)
               /\ PairOK(proto, d, <<>>, client[c], mail[c], a, c)
    <3>1. d.peers[c] = Unknown
      BY <1>3, <1>6 DEF Emptied
    <3>2. /\ client[c] \in ClientState /\ mail[c] \in Seq(Mail) /\ mail[a] \in Seq(Mail)
          /\ proto \in Protocols /\ client[c].peers[a].known = client[c].peers[a].replied
          /\ PairOK(proto, client[c], mail[c], s, mail[a], c, a)
          /\ PairOK(proto, s, mail[a], client[c], mail[c], a, c)
      BY Pieces
    <3> QED BY <1>2, <1>6, <3>1, <3>2, Arrived
  <2> QED BY <2>1 DEF Mid
<1>7. r.fails = 0 /\ r.peers = [p \in PxClients |-> Unknown] /\ <<>> \in Seq(Mail)
  BY <1>3 DEF Emptied
<1> QED BY <1>1, <1>3, <1>4, <1>5, <1>6, <1>7, Booted

LEMMA ShowStep ==
  ASSUME PxAssumption, PxInv, NEW a \in PxClients, PxShow(a)
  PROVE  PxInv'
<1> DEFINE s == client[a]
<1>1. PICK sent \in BOOLEAN, reg \in BOOLEAN :
        /\ Fault(sent)
        /\ Bootstrap(a, [PxReset(s) EXCEPT !.status = "shown", !.returned = TRUE,
                                           !.registered = reg], mail, sent)
  BY DEF PxShow
<1> DEFINE r == [PxReset(s) EXCEPT !.status = "shown", !.returned = TRUE, !.registered = reg]
<1>2. s \in ClientState /\ Own(proto, s, mail[a], a) /\ s.status = "hidden"
  BY Pieces DEF PxShow
<1>3. /\ r \in ClientState /\ r.status = "shown" /\ Emptied(r, s) /\ r.returned = TRUE
  <2>1. reg \in BOOLEAN
    BY <1>1
  <2> QED BY <1>2, <2>1, ResetToShow
<1>4. ~r.claimed /\ r.wire = Unread /\ (proto # "mode" => ~r.signalling)
  BY <1>2, <1>3 DEF Own, Emptied
<1>5. Counted /\ proto' = proto
  BY <1>1, Pieces, CountsFit DEF PxShow
<1>8. Bootstrap(a, r, [mail EXCEPT ![a] = mail[a]], sent)
  <2>1. [mail EXCEPT ![a] = mail[a]] = mail
    BY Pieces
  <2> QED BY <1>1, <2>1
<1> HIDE DEF r
<1>6. ASSUME NEW d \in ClientState, d.peers = r.peers, ~Told(proto, d), d.status = "shown",
             d.returned = r.returned
      PROVE  Mid(a, d, mail[a])
  <2>0. ~Unheard(d) /\ ~Joined(d)
    BY <1>3, <1>6 DEF Unheard, Joined
  <2>1. ASSUME NEW c \in PxClients \ {a}
        PROVE  /\ PairOK(proto, client[c], mail[c], d, mail[a], c, a)
               /\ PairOK(proto, d, mail[a], client[c], mail[c], a, c)
    <3>1. d.peers[c] = Unknown
      BY <1>3, <1>6 DEF Emptied
    <3>2. /\ client[c] \in ClientState /\ mail[c] \in Seq(Mail) /\ mail[a] \in Seq(Mail)
          /\ proto \in Protocols
          /\ PairOK(proto, client[c], mail[c], s, mail[a], c, a)
          /\ PairOK(proto, s, mail[a], client[c], mail[c], a, c)
      BY Pieces
    <3> QED BY <1>2, <1>6, <2>0, <3>1, <3>2, Blank
  <2>2. mail[a] \in Seq(Mail)
    BY Pieces
  <2> QED BY <1>6, <2>1, <2>2 DEF Mid
<1>7. r.fails = 0 /\ r.peers = [p \in PxClients |-> Unknown] /\ mail[a] \in Seq(Mail)
  BY <1>3, Pieces DEF Emptied
<1> QED BY <1>1, <1>3, <1>4, <1>5, <1>6, <1>7, <1>8, Booted

LEMMA HideStep ==
  ASSUME PxAssumption, PxInv, NEW a \in PxClients, PxHide(a)
  PROVE  PxInv'
<1> DEFINE s == client[a]
           d == [PxReset(s) EXCEPT !.status = "hidden"]
<1>1. /\ s \in ClientState /\ Own(proto, s, mail[a], a) /\ s.status = "shown" /\ ~s.claimed
      /\ mail[a] \in Seq(Mail) /\ mail \in [PxClients -> Seq(Mail)] /\ proto \in Protocols
  BY Pieces DEF PxHide, AtRest, Shown
<1>2. d \in ClientState /\ d.status = "hidden" /\ Emptied(d, s)
  BY <1>1, ResetBack
<1>3. Moved(a, d) /\ mail' = [mail EXCEPT ![a] = mail[a]]
  BY <1>1 DEF PxHide, Moved
<1>4. Counted
  BY Pieces, CountsFit DEF PxHide
<1> HIDE DEF d
<1>5. ~Told(proto, d) /\ ~Unheard(d) /\ ~Joined(d)
  BY <1>2 DEF Told, Unheard, Joined
<1>6. Mid(a, d, mail[a])
  <2>1. ASSUME NEW c \in PxClients \ {a}
        PROVE  /\ PairOK(proto, client[c], mail[c], d, mail[a], c, a)
               /\ PairOK(proto, d, mail[a], client[c], mail[c], a, c)
    <3>1. d.peers[c] = Unknown
      BY <1>2 DEF Emptied
    <3>2. /\ client[c] \in ClientState /\ mail[c] \in Seq(Mail)
          /\ PairOK(proto, client[c], mail[c], s, mail[a], c, a)
          /\ PairOK(proto, s, mail[a], client[c], mail[c], a, c)
      BY Pieces
    <3> QED BY <1>1, <1>2, <1>5, <3>1, <3>2, Blank
  <2> QED BY <1>1, <1>2, <2>1 DEF Mid
<1>7. Own(proto, d, mail[a], a)
  <2>1. \A p \in PxClients : d.peers[p].known = FALSE /\ d.peers[p].replied = FALSE
    BY <1>2, UnknownIs DEF Emptied
  <2> QED BY <1>1, <1>2, <2>1 DEF Own, Emptied
<1> QED BY <1>2, <1>3, <1>4, <1>6, <1>7, Moving

LEMMA DisconnectStep ==
  ASSUME PxAssumption, PxInv, NEW a \in PxClients, PxDisconnect(a)
  PROVE  PxInv'
<1> DEFINE s == client[a]
           d == [PxReset(s) EXCEPT !.status = "off"]
           m == [from |-> a, left |-> TRUE, val |-> 0]
<1>1. /\ s \in ClientState /\ Own(proto, s, mail[a], a) /\ ~s.claimed
      /\ mail[a] \in Seq(Mail) /\ mail \in [PxClients -> Seq(Mail)] /\ proto \in Protocols
  BY Pieces DEF PxDisconnect
<1>2. d \in ClientState /\ d.status = "off" /\ Emptied(d, s)
  BY <1>1, ResetBack
<1>3. Moved(a, d)
  BY DEF PxDisconnect, Moved
<1>4. Counted
  BY Pieces, CountsFit DEF PxDisconnect
<1>5. m \in Mail /\ m.from = a /\ m.left
  BY DEF Mail, Values
<1> HIDE DEF d
<1>6. /\ mail'[a] = <<>>
      /\ \A c \in PxClients \ {a} :
           mail'[c] = IF client[c].status # "off" THEN Append(mail[c], m) ELSE mail[c]
  BY DEF PxDisconnect, Connected
<1>7. mail' \in [PxClients -> Seq(Mail)]
  <2>1. mail' = [c \in PxClients |-> mail'[c]]
    BY DEF PxDisconnect
  <2>2. ASSUME NEW c \in PxClients PROVE mail'[c] \in Seq(Mail)
    <3>1. mail[c] \in Seq(Mail) /\ Append(mail[c], m) \in Seq(Mail) /\ <<>> \in Seq(Mail)
      BY <1>1, <1>5
    <3>2. CASE c = a
      BY <1>6, <3>1, <3>2
    <3>3. CASE c # a
      BY <1>6, <3>1, <3>3
    <3> QED BY <3>2, <3>3
  <2> QED BY <2>1, <2>2
<1> HIDE DEF m
<1>8. ASSUME NEW c \in PxClients \ {a}
      PROVE  /\ PairOK(proto, client[c], mail'[c], d, mail'[a], c, a)
             /\ PairOK(proto, d, mail'[a], client[c], mail'[c], a, c)
  <2>1. d.peers[c] = Unknown
    BY <1>2 DEF Emptied
  <2>2. client[c] \in ClientState /\ mail[c] \in Seq(Mail) /\ Own(proto, client[c], mail[c], c)
    BY Pieces
  <2>3. mail'[c] = IF client[c].status # "off" THEN Append(mail[c], m) ELSE mail[c]
    BY <1>6
  <2>4. mail'[c] \in Seq(Mail) /\ a # c
    BY <1>7
  <2> DEFINE sc == client[c]
             bd == mail'[c]
  <2>5. /\ sc \in ClientState /\ Own(proto, sc, mail[c], c) /\ bd \in Seq(Mail)
        /\ bd = IF sc.status # "off" THEN Append(mail[c], m) ELSE mail[c]
    BY <2>2, <2>3, <2>4
  <2> HIDE DEF sc, bd
  <2>6. PairOK(proto, sc, bd, d, <<>>, c, a) /\ PairOK(proto, d, <<>>, sc, bd, a, c)
    BY <1>1, <1>2, <1>5, <1>8, <2>1, <2>2, <2>4, <2>5, Departed
  <2> QED BY <1>6, <2>6 DEF sc, bd
<1>9. Own(proto, d, mail'[a], a)
  <2>1. \A p \in PxClients : d.peers[p].known = FALSE /\ d.peers[p].replied = FALSE
    BY <1>2, UnknownIs DEF Emptied
  <2> QED BY <1>1, <1>2, <1>6, <2>1 DEF Own, Emptied
<1>10. \A c \in PxClients \ {a} :
         /\ mail'[c] = mail[c] \/ mail'[c] = Append(mail[c], m)
         /\ client[c].status = "off" => mail'[c] = mail[c]
  BY <1>6
<1> QED BY <1>2, <1>3, <1>4, <1>5, <1>7, <1>8, <1>9, <1>10, Whole

\* What a client in state s does without a word, and what it may change.
Calmer(pr, sd, s) ==
  /\ sd.peers = s.peers /\ sd.status = s.status
  /\ Unheard(sd) => Unheard(s)
  /\ Joined(sd) => Joined(s) \/ (Unheard(s) /\ ~Told(pr, sd))
  /\ Told(pr, sd) => Told(pr, s)
  /\ Current(pr, sd) => Current(pr, s) /\ sd.val = s.val

LEMMA Step ==
  ASSUME PxInv, Counted, NEW a \in PxClients, NEW sd \in ClientState, Moved(a, sd), mail' = mail,
         Own(proto, sd, mail[a], a), Calmer(proto, sd, client[a])
  PROVE  PxInv'
BY Quietly DEF Calmer

LEMMA RegisterStep ==
  ASSUME PxAssumption, PxInv, NEW a \in PxClients, PxRegister(a)
  PROVE  PxInv'
<1> DEFINE s == client[a]
           d == [s EXCEPT !.registered = TRUE]
<1>1. s \in ClientState /\ Own(proto, s, mail[a], a) /\ ~s.registered
  BY Pieces DEF PxRegister
<1>2. Moved(a, d) /\ mail' = mail
  BY Pieces DEF PxRegister, Moved
<1>3. Counted
  BY Pieces, CountsFit DEF PxRegister
<1>4. d \in ClientState
  BY <1>1 DEF ClientState
<1>5. /\ d.registered = TRUE /\ d.pend = s.pend /\ d.dropped = s.dropped /\ d.peers = s.peers
      /\ d.status = s.status /\ d.returned = s.returned /\ d.val = s.val
      /\ d.signalling = s.signalling /\ d.claimed = s.claimed /\ d.wire = s.wire
      /\ d.fails = s.fails
  BY <1>1 DEF ClientState
<1> HIDE DEF d, s
<1>6. Calmer(proto, d, s)
  BY <1>1, <1>5 DEF Calmer, Unheard, Joined, Told, Current, Own
<1>7. Own(proto, d, mail[a], a)
  BY <1>1, <1>5 DEF Own
<1> QED BY <1>2, <1>3, <1>4, <1>6, <1>7, Step DEF s

LEMMA SwitchStep ==
  ASSUME PxAssumption, PxInv, NEW a \in PxClients, SwitchMode(a)
  PROVE  PxInv'
<1> DEFINE s == client[a]
           d == [s EXCEPT !.val = 1 - @, !.signalling = TRUE]
<1>1. s \in ClientState /\ Own(proto, s, mail[a], a) /\ proto = "mode"
  BY Pieces DEF SwitchMode
<1>2. Moved(a, d) /\ mail' = mail
  BY Pieces DEF SwitchMode, Moved
<1>3. Counted
  BY Pieces, CountsFit DEF SwitchMode
<1>4. d \in ClientState
  <2> DEFINE w == 1 - s.val
  <2>1. s.val \in {0, 1}
    BY <1>1 DEF ClientState, Values
  <2>2. w \in Values
    BY <2>1 DEF Values
  <2>3. d = [s EXCEPT !.val = w, !.signalling = TRUE]
    OBVIOUS
  <2> HIDE DEF w, d
  <2> QED BY <1>1, <2>2, <2>3 DEF ClientState
<1>5. /\ d.registered = s.registered /\ d.pend = s.pend /\ d.dropped = s.dropped
      /\ d.peers = s.peers /\ d.status = s.status /\ d.returned = s.returned
      /\ d.signalling = TRUE /\ d.claimed = s.claimed /\ d.wire = s.wire /\ d.fails = s.fails
  BY <1>1 DEF ClientState
<1> HIDE DEF d, s
<1>6. Calmer(proto, d, s)
  BY <1>1, <1>5 DEF Calmer, Unheard, Joined, Told, Current
<1>7. Own(proto, d, mail[a], a)
  BY <1>1, <1>5 DEF Own
<1> QED BY <1>2, <1>3, <1>4, <1>6, <1>7, Step DEF s

LEMMA SignalStep ==
  ASSUME PxAssumption, PxInv, NEW a \in PxClients, SignalMode(a)
  PROVE  PxInv'
<1> DEFINE s == client[a]
           d == [s EXCEPT !.signalling = FALSE, !.pend = TRUE]
<1>1. s \in ClientState /\ Own(proto, s, mail[a], a) /\ s.signalling
  BY Pieces DEF SignalMode
<1>2. Moved(a, d) /\ mail' = mail
  BY Pieces DEF SignalMode, Moved
<1>3. Counted
  BY Pieces, CountsFit DEF SignalMode
<1>4. d \in ClientState
  BY <1>1 DEF ClientState
<1>5. /\ d.registered = s.registered /\ d.pend = TRUE
      /\ d.peers = s.peers /\ d.status = s.status /\ d.returned = s.returned
      /\ d.signalling = FALSE /\ d.claimed = s.claimed /\ d.wire = s.wire /\ d.fails = s.fails
  BY <1>1 DEF ClientState
<1> HIDE DEF d, s
<1>6. Calmer(proto, d, s)
  BY <1>1, <1>5 DEF Calmer, Unheard, Joined, Told, Current
<1>7. Own(proto, d, mail[a], a)
  BY <1>1, <1>5 DEF Own
<1> QED BY <1>2, <1>3, <1>4, <1>6, <1>7, Step DEF s

LEMMA ClaimStep ==
  ASSUME PxAssumption, PxInv, NEW a \in PxClients, FlushClaim(a)
  PROVE  PxInv'
<1> DEFINE s == client[a]
           d == [s EXCEPT !.claimed = TRUE, !.pend = FALSE]
<1>1. /\ s \in ClientState /\ Own(proto, s, mail[a], a) /\ proto = "mode" /\ s.status = "shown"
      /\ ~s.claimed /\ s.registered
  BY Pieces DEF FlushClaim, MayFlush, AtRest, Shown
<1>2. Moved(a, d) /\ mail' = mail
  BY Pieces DEF FlushClaim, Moved
<1>3. Counted
  BY Pieces, CountsFit DEF FlushClaim
<1>4. d \in ClientState
  BY <1>1 DEF ClientState
<1>5. /\ d.registered = s.registered /\ d.pend = FALSE
      /\ d.peers = s.peers /\ d.status = s.status /\ d.returned = s.returned
      /\ d.signalling = s.signalling /\ d.claimed = TRUE /\ d.wire = s.wire /\ d.fails = s.fails
  BY <1>1 DEF ClientState
<1> HIDE DEF d, s
<1>6. Calmer(proto, d, s)
  BY <1>1, <1>5 DEF Calmer, Unheard, Joined, Told, Current
<1>7. Own(proto, d, mail[a], a)
  BY <1>1, <1>5 DEF Own
<1> QED BY <1>2, <1>3, <1>4, <1>6, <1>7, Step DEF s

LEMMA ReadStep ==
  ASSUME PxAssumption, PxInv, NEW a \in PxClients, FlushRead(a)
  PROVE  PxInv'
<1> DEFINE s == client[a]
           d == [s EXCEPT !.wire = s.val]
<1>1. s \in ClientState /\ Own(proto, s, mail[a], a) /\ s.claimed
  BY Pieces DEF FlushRead
<1>2. Moved(a, d) /\ mail' = mail
  BY Pieces DEF FlushRead, Moved
<1>3. Counted
  BY Pieces, CountsFit DEF FlushRead
<1>4. d \in ClientState
  BY <1>1 DEF ClientState
<1>5. /\ d.registered = s.registered /\ d.pend = s.pend /\ d.val = s.val
      /\ d.peers = s.peers /\ d.status = s.status /\ d.returned = s.returned
      /\ d.signalling = s.signalling /\ d.claimed = s.claimed /\ d.wire = s.val
      /\ d.fails = s.fails /\ d.dropped = s.dropped
  BY <1>1 DEF ClientState
<1> HIDE DEF d, s
<1>6. Calmer(proto, d, s)
  BY <1>1, <1>5 DEF Calmer, Unheard, Joined, Told, Current
<1>7. Own(proto, d, mail[a], a)
  BY <1>1, <1>5 DEF Own
<1> QED BY <1>2, <1>3, <1>4, <1>6, <1>7, Step DEF s

LEMMA RateStep ==
  ASSUME PxAssumption, PxInv, NEW a \in PxClients, RateLimitOver(a)
  PROVE  PxInv'
<1> DEFINE s == client[a]
           d == [s EXCEPT !.hot = FALSE]
<1>1. s \in ClientState /\ Own(proto, s, mail[a], a)
  BY Pieces
<1>2. Moved(a, d) /\ mail' = mail
  BY Pieces DEF RateLimitOver, Moved
<1>3. Counted
  BY Pieces, CountsFit DEF RateLimitOver
<1>4. d \in ClientState
  BY <1>1 DEF ClientState
<1>5. /\ d.registered = s.registered /\ d.pend = s.pend /\ d.val = s.val
      /\ d.peers = s.peers /\ d.status = s.status /\ d.returned = s.returned
      /\ d.signalling = s.signalling /\ d.claimed = s.claimed /\ d.wire = s.wire
      /\ d.fails = s.fails /\ d.dropped = s.dropped
  BY <1>1 DEF ClientState
<1> HIDE DEF d, s
<1>6. Calmer(proto, d, s)
  BY <1>1, <1>5 DEF Calmer, Unheard, Joined, Told, Current
<1>7. Own(proto, d, mail[a], a)
  BY <1>1, <1>5 DEF Own
<1> QED BY <1>2, <1>3, <1>4, <1>6, <1>7, Step DEF s

LEMMA FlushModeStep ==
  ASSUME PxAssumption, PxInv, NEW a \in PxClients, FlushMode(a)
  PROVE  PxInv'
<1> DEFINE s == client[a]
           f == [s EXCEPT !.claimed = FALSE, !.wire = Unread]
<1>1. /\ s \in ClientState /\ Own(proto, s, mail[a], a) /\ s.wire # Unread
      /\ mail[a] \in Seq(Mail) /\ mail \in [PxClients -> Seq(Mail)]
  BY Pieces DEF FlushMode
<1>2. s.claimed /\ s.status = "shown" /\ s.registered
  BY <1>1 DEF Own, ClientState
<1>3. PICK sent \in BOOLEAN :
        /\ Fault(sent) /\ Moved(a, AfterSend(f, sent))
        /\ mail' = IF sent THEN ToAll(mail, Command(a, s.wire)) ELSE mail
  BY Pieces DEF FlushMode, Moved
<1>4. Counted
  BY <1>3, Pieces, CountsFit DEF FlushMode
<1>5. f \in ClientState
  BY <1>1 DEF ClientState
<1>6. /\ f.registered = s.registered /\ f.pend = s.pend /\ f.val = s.val
      /\ f.peers = s.peers /\ f.status = s.status /\ f.returned = s.returned
      /\ f.signalling = s.signalling /\ f.claimed = FALSE /\ f.wire = Unread
      /\ f.fails = s.fails /\ f.dropped = s.dropped
  BY <1>1 DEF ClientState
<1> HIDE DEF f
<1>7. proto = "mode"
  BY <1>1, <1>2 DEF Own
<1>8. CASE sent
  <2> DEFINE d == [f EXCEPT !.hot = TRUE, !.fails = 0, !.dropped = FALSE]
  <2>1. Moved(a, d) /\ mail' = ToAll([mail EXCEPT ![a] = mail[a]], Command(a, s.wire))
    <3>1. [mail EXCEPT ![a] = mail[a]] = mail
      BY <1>1
    <3> QED BY <1>3, <1>8, <3>1 DEF AfterSend
  <2>2. d \in ClientState
    <3>1. 0 \in 0..RetryMax
      BY DEF PxAssumption
    <3> QED BY <1>5, <3>1 DEF ClientState
  <2>3. /\ d.registered = f.registered /\ d.pend = f.pend /\ d.val = f.val
        /\ d.peers = f.peers /\ d.status = f.status /\ d.returned = f.returned
        /\ d.signalling = f.signalling /\ d.claimed = FALSE /\ d.wire = Unread
    BY <1>5, <1>6 DEF ClientState
  <2> HIDE DEF d, s
  <2>4. Mid(a, s, mail[a])
    BY <1>1, Pieces DEF Mid, s
  <2>5. s.wire \in Values
    BY <1>1 DEF ClientState
  <2>6. Joined(d) => Joined(s)
    BY <1>6, <2>3 DEF Joined
  <2>7. Current(proto, d) => s.wire = d.val
    BY <1>1, <1>6, <2>3 DEF Current, Told, Own
  <2>8. Own(proto, d, mail'[a], a)
    BY <1>1, <1>2, <1>6, <1>7, <2>3 DEF Own
  <2>9. d.status = "shown" /\ d.registered /\ \A c \in PxClients \ {a} : d.peers[c] = s.peers[c]
    BY <1>2, <1>6, <2>3
  <2> QED BY <1>4, <2>1, <2>2, <2>4, <2>5, <2>6, <2>7, <2>8, <2>9, Announcing
<1>9. CASE ~sent
  <2> DEFINE d == AfterSend(f, FALSE)
  <2>1. Moved(a, d) /\ mail' = mail
    BY <1>3, <1>9
  <2>2. /\ d \in ClientState
        /\ d.pend \/ d.dropped
        /\ d.registered = f.registered /\ d.val = f.val
        /\ d.peers = f.peers /\ d.status = f.status /\ d.returned = f.returned
        /\ d.signalling = f.signalling /\ d.claimed = FALSE /\ d.wire = Unread
    <3>1. CASE f.fails < RetryMax
      <4> DEFINE k == f.fails + 1
      <4>1. k \in 0..RetryMax
        BY <1>5, <3>1 DEF ClientState, PxAssumption
      <4>2. d = [f EXCEPT !.fails = k, !.pend = TRUE]
        BY <3>1 DEF AfterSend
      <4> HIDE DEF k, d
      <4>3. d \in ClientState
        BY <1>5, <4>1, <4>2 DEF ClientState
      <4> QED BY <1>5, <1>6, <4>2, <4>3 DEF ClientState
    <3>2. CASE ~(f.fails < RetryMax)
      <4>2. d = [f EXCEPT !.fails = 0, !.dropped = TRUE]
        BY <3>2 DEF AfterSend
      <4> HIDE DEF d
      <4>1. 0 \in 0..RetryMax
        BY DEF PxAssumption
      <4>3. d \in ClientState
        BY <1>5, <4>1, <4>2 DEF ClientState
      <4> QED BY <1>5, <1>6, <4>2, <4>3 DEF ClientState
    <3> QED BY <3>1, <3>2
  <2> HIDE DEF d, s
  <2>3. Calmer(proto, d, s)
    BY <1>6, <2>2 DEF Calmer, Unheard, Joined, Told, Current
  <2>4. Own(proto, d, mail[a], a)
    BY <1>1, <1>2, <1>6, <1>7, <2>2 DEF Own
  <2> QED BY <1>4, <2>1, <2>2, <2>3, <2>4, Step DEF s
<1> QED BY <1>8, <1>9

LEMMA FlushAuthStep ==
  ASSUME PxAssumption, PxInv, NEW a \in PxClients, FlushAuth(a)
  PROVE  PxInv'
<1> DEFINE s == client[a]
           f == [s EXCEPT !.pend = FALSE]
<1>1. /\ s \in ClientState /\ Own(proto, s, mail[a], a) /\ proto = "auth" /\ s.status = "shown"
      /\ s.registered /\ ~s.claimed
      /\ mail[a] \in Seq(Mail) /\ mail \in [PxClients -> Seq(Mail)]
  BY Pieces DEF FlushAuth, MayFlush, AtRest, Shown
<1>2. Counted
  BY Pieces, CountsFit DEF FlushAuth
<1>3. f \in ClientState /\ f.pend = FALSE /\ f.peers = s.peers /\ Alike(f, s)
  BY <1>1, Pending
<1> HIDE DEF f
<1>4. CASE s.val = 0
  <2>1. Moved(a, f) /\ mail' = mail
    BY <1>1, <1>4 DEF FlushAuth, Moved, f
  <2>2. Calmer(proto, f, s)
    BY <1>1, <1>3, <1>4 DEF Calmer, Unheard, Joined, Told, Current, Alike
  <2>3. Own(proto, f, mail[a], a)
    BY <1>1, <1>3 DEF Own, Alike
  <2> QED BY <1>2, <1>3, <2>1, <2>2, <2>3, Step
<1>5. CASE s.val # 0
  <2>1. PICK sent \in BOOLEAN :
          /\ Moved(a, [f EXCEPT !.hot = sent, !.dropped = ~sent])
          /\ mail' = IF sent THEN ToAll(mail, Command(a, f.val)) ELSE mail
    BY <1>1, <1>5 DEF FlushAuth, Moved, f
  <2> DEFINE y == ~sent
             d == [f EXCEPT !.hot = sent, !.dropped = y]
  <2>2. y \in BOOLEAN
    OBVIOUS
  <2>3. y <=> ~sent
    OBVIOUS
  <2>4. Moved(a, d)
    BY <2>1
  <2> HIDE DEF y
  <2>5. d \in ClientState
    BY <1>3, <2>1, <2>2 DEF ClientState
  <2>6. d.dropped = y /\ d.pend = FALSE /\ d.peers = s.peers /\ Alike(d, s)
    BY <1>3, <2>1, <2>2 DEF ClientState, Alike
  <2> HIDE DEF d, s
  <2>7. Own(proto, d, mail[a], a) /\ Own(proto, d, mail'[a], a)
    BY <1>1, <2>6 DEF Own, Alike
  <2>8. CASE sent
    <3>1. mail' = ToAll([mail EXCEPT ![a] = mail[a]], Command(a, d.val))
      <4>1. [mail EXCEPT ![a] = mail[a]] = mail
        BY <1>1
      <4> QED BY <1>3, <2>1, <2>6, <2>8, <4>1 DEF Alike
    <3>2. Mid(a, s, mail[a])
      BY <1>1, Pieces DEF Mid, s
    <3>3. d.val \in Values
      BY <2>5 DEF ClientState
    <3>4. Joined(d) => Joined(s)
      BY <2>6 DEF Joined, Alike
    <3>5. d.status = "shown" /\ d.registered /\ \A c \in PxClients \ {a} : d.peers[c] = s.peers[c]
      BY <1>1, <2>6 DEF Alike
    <3> QED BY <1>2, <2>4, <2>5, <2>7, <3>1, <3>2, <3>3, <3>4, <3>5, Announcing
  <2>9. CASE ~sent
    <3>1. mail' = mail
      BY <2>1, <2>9
    <3>2. Calmer(proto, d, s)
      BY <2>3, <2>6, <2>9 DEF Calmer, Unheard, Joined, Told, Current, Alike
    <3> QED BY <1>2, <2>4, <2>5, <2>7, <3>1, <3>2, Step DEF s
  <2> QED BY <2>8, <2>9
<1> QED BY <1>4, <1>5

LEMMA FlushVersionStep ==
  ASSUME PxAssumption, PxInv, NEW a \in PxClients, FlushVersion(a)
  PROVE  PxInv'
<1> DEFINE s == client[a]
           f == [s EXCEPT !.pend = FALSE]
<1>1. /\ s \in ClientState /\ Own(proto, s, mail[a], a) /\ proto = "version"
      /\ s.status = "shown" /\ s.registered /\ ~s.claimed
      /\ mail[a] \in Seq(Mail) /\ mail \in [PxClients -> Seq(Mail)]
  BY Pieces DEF FlushVersion, MayFlush, AtRest, Shown
<1>2. PICK sent \in BOOLEAN :
        /\ Fault(sent)
        /\ Moved(a, IF sent THEN VersionSent(a, f) ELSE [f EXCEPT !.dropped = TRUE])
        /\ mail' = IF sent THEN ToAll(mail, Command(a, f.val)) ELSE mail
  BY DEF FlushVersion, Moved
<1>3. Counted
  BY <1>2, Pieces, CountsFit DEF FlushVersion
<1>4. f \in ClientState /\ f.pend = FALSE /\ f.peers = s.peers /\ Alike(f, s)
  BY <1>1, Pending
<1> HIDE DEF f
<1>5. CASE sent
  <2> DEFINE d == VersionSent(a, f)
  <2>1. Moved(a, d)
    BY <1>2, <1>5
  <2>2. /\ d \in ClientState /\ Alike(d, f) /\ d.pend = FALSE
        /\ \A c \in PxClients \ {a} : d.peers[c] = s.peers[c]
    <3>1. /\ d \in ClientState /\ Alike(d, f) /\ d.pend = f.pend
          /\ \A c \in PxClients \ {a} : d.peers[c] = f.peers[c]
      BY <1>4, Versioned
    <3> QED BY <1>4, <3>1
  <2> HIDE DEF d
  <2>3. mail' = ToAll([mail EXCEPT ![a] = mail[a]], Command(a, d.val))
    <3>1. [mail EXCEPT ![a] = mail[a]] = mail
      BY <1>1
    <3> QED BY <1>2, <1>5, <2>2, <3>1 DEF Alike
  <2>4. Mid(a, s, mail[a])
    BY <1>1, Pieces DEF Mid
  <2> HIDE DEF s
  <2>5. d.val \in Values
    BY <2>2 DEF ClientState
  <2>6. Joined(d) => Joined(s)
    BY <1>4, <2>2 DEF Joined, Alike
  <2>7. d.status = "shown" /\ d.registered
    BY <1>1, <1>4, <2>2 DEF Alike
  <2>8. Own(proto, d, mail'[a], a)
    BY <1>1, <1>4, <2>2 DEF Own, Alike
  <2> QED BY <1>3, <2>1, <2>2, <2>3, <2>4, <2>5, <2>6, <2>7, <2>8, Announcing
<1>6. CASE ~sent
  <2> DEFINE d == [f EXCEPT !.dropped = TRUE]
  <2>1. Moved(a, d) /\ mail' = mail
    BY <1>2, <1>6
  <2>2. d \in ClientState
    BY <1>4 DEF ClientState
  <2>3. d.dropped = TRUE /\ d.pend = FALSE /\ d.peers = s.peers /\ Alike(d, s)
    BY <1>4 DEF ClientState, Alike
  <2> HIDE DEF d, s
  <2>4. Calmer(proto, d, s)
    BY <2>3 DEF Calmer, Unheard, Joined, Told, Current, Alike
  <2>5. Own(proto, d, mail[a], a)
    BY <1>1, <2>3 DEF Own, Alike
  <2> QED BY <1>3, <2>1, <2>2, <2>4, <2>5, Step DEF s
<1> QED BY <1>5, <1>6

LEMMA Recorded ==
  ASSUME NEW s \in ClientState, NEW p \in PxClients, NEW v \in Values
  PROVE  LET d == Store(s, p, v)
         IN /\ d \in ClientState /\ d.pend = s.pend /\ d.dropped = s.dropped /\ Alike(d, s)
            /\ d.peers[p] = [known |-> TRUE, val |-> v, replied |-> TRUE]
            /\ \A c \in PxClients \ {p} : d.peers[c] = s.peers[c]
<1> DEFINE d == Store(s, p, v)
           e == [known |-> TRUE, val |-> v, replied |-> TRUE]
<1>1. s.peers \in [PxClients -> Entry] /\ e \in Entry
  BY DEF ClientState, Entry
<1>2. d = [s EXCEPT !.peers = [s.peers EXCEPT ![p] = e]]
  BY DEF Store, ClientState
<1> HIDE DEF d, e
<1>3. [s.peers EXCEPT ![p] = e] \in [PxClients -> Entry]
  BY <1>1
<1>4. d \in ClientState
  BY <1>2, <1>3 DEF ClientState
<1>5. /\ d.peers = [s.peers EXCEPT ![p] = e] /\ d.pend = s.pend /\ d.dropped = s.dropped
      /\ Alike(d, s)
  BY <1>2 DEF ClientState, Alike
<1> QED BY <1>1, <1>4, <1>5 DEF d, e

LEMMA LeaveStep ==
  ASSUME PxAssumption, PxInv, NEW a \in PxClients, PeerLeaves(a)
  PROVE  PxInv'
<1> DEFINE s == client[a]
           m == Head(mail[a])
           d == Forget(s, m.from)
<1>1. /\ s \in ClientState /\ Own(proto, s, mail[a], a) /\ s.status = "shown" /\ ~s.claimed
      /\ mail[a] \in Seq(Mail) /\ mail[a] # <<>> /\ m.left
  BY Pieces DEF PeerLeaves, AtRest, Shown
<1>2. m \in Mail /\ m.from \in PxClients
  <2>1. m \in Mail
    BY <1>1, BoxTaken
  <2> QED BY <2>1 DEF Mail
<1>3. Moved(a, d) /\ mail' = [mail EXCEPT ![a] = Tail(@)]
  BY Pieces DEF PeerLeaves, Moved
<1>4. Counted
  BY Pieces, CountsFit DEF PeerLeaves
<1>5. /\ d \in ClientState /\ d.pend = s.pend /\ d.dropped = s.dropped /\ Alike(d, s)
      /\ d.peers[m.from] = Unknown
      /\ \A c \in PxClients \ {m.from} : d.peers[c] = s.peers[c]
  <2>1. s.peers \in [PxClients -> Entry] /\ Unknown \in Entry
    BY <1>1 DEF ClientState, Entry, Unknown, Values
  <2>2. d = [s EXCEPT !.peers = [s.peers EXCEPT ![m.from] = Unknown]]
    BY <1>1 DEF Forget, ClientState
  <2> HIDE DEF d, m, s
  <2>3. [s.peers EXCEPT ![m.from] = Unknown] \in [PxClients -> Entry]
    BY <2>1
  <2>4. d \in ClientState
    BY <1>1, <2>2, <2>3 DEF ClientState
  <2>5. /\ d.peers = [s.peers EXCEPT ![m.from] = Unknown] /\ d.pend = s.pend
        /\ d.dropped = s.dropped /\ Alike(d, s)
    BY <1>1, <2>2 DEF ClientState, Alike
  <2> QED BY <1>2, <2>1, <2>4, <2>5
<1> HIDE DEF d
<1>6. /\ Unheard(d) => Unheard(s)
      /\ Joined(d) => Joined(s)
      /\ Told(proto, d) => Told(proto, s)
      /\ Current(proto, d) => Current(proto, s)
      /\ d.status = s.status /\ d.val = s.val /\ s.status # "off"
  BY <1>1, <1>5 DEF Unheard, Joined, Told, Current, Alike
<1>7. \A c \in PxClients \ {a} :
        /\ IF m.from # c THEN d.peers[c] = s.peers[c]
           ELSE /\ d.peers[c].known = d.peers[c].replied
                /\ d.peers[c].known => ~m.left /\ d.peers[c].val = m.val
                /\ Joined(d) /\ ~m.left => d.peers[c].known /\ d.peers[c].val = m.val
        /\ Told(proto, d) => ~(m.from = c /\ ~m.left /\ ~s.peers[c].replied)
  BY <1>1, <1>2, <1>5, UnknownIs
<1>8. Mid(a, d, Tail(mail[a]))
  BY <1>1, <1>5, <1>6, <1>7, Taking
<1>9. Own(proto, d, Tail(mail[a]), a)
  <2>1. \A p \in PxClients \ {a} : d.peers[p].known = d.peers[p].replied
    <3> TAKE p \in PxClients \ {a}
    <3>1. CASE p = m.from
      BY <1>5, <3>1, UnknownIs
    <3>2. CASE p # m.from
      BY <1>1, <1>5, <3>2 DEF Own
    <3> QED BY <3>1, <3>2
  <2>2. \A p \in PxClients \ {a} : d.peers[p].known => s.peers[p].known
    BY <1>5, UnknownIs
  <2>3. /\ d.status = s.status /\ d.registered = s.registered /\ d.val = s.val
        /\ d.signalling = s.signalling /\ d.claimed = s.claimed /\ d.wire = s.wire
        /\ d.fails = s.fails /\ d.pend = s.pend
    BY <1>5 DEF Alike
  <2>4. Own(proto, s, mail[a], a) /\ s.status = "shown"
    BY <1>1
  <2> QED BY <2>1, <2>2, <2>3, <2>4 DEF Own
<1>10. mail' = [mail EXCEPT ![a] = Tail(mail[a])]
  BY <1>3
<1> QED BY <1>3, <1>4, <1>5, <1>8, <1>9, <1>10, Moving

LEMMA NotMineStep ==
  ASSUME PxAssumption, PxInv, NEW a \in PxClients, NotMine(a)
  PROVE  PxInv'
<1> DEFINE s == client[a]
           m == Head(mail[a])
<1>1. /\ s \in ClientState /\ Own(proto, s, mail[a], a)
      /\ mail[a] \in Seq(Mail) /\ mail[a] # <<>>
      /\ client \in [PxClients -> ClientState] /\ proto \in Protocols
      /\ s.status = "hidden" \/ (s.status = "shown" /\ ~s.registered /\ ~m.left)
  BY Pieces DEF NotMine, AtRest, Shown
<1>2. ~Told(proto, s) /\ ~Joined(s) /\ s.status # "off"
  BY <1>1 DEF Told, Joined, Own
<1>3. Moved(a, s) /\ mail' = [mail EXCEPT ![a] = Tail(mail[a])]
  <2>1. [client EXCEPT ![a] = client[a]] = client
    BY <1>1
  <2> QED BY <2>1 DEF NotMine, Moved
<1>4. Counted
  BY Pieces, CountsFit DEF NotMine
<1>5. \A c \in PxClients \ {a} : s.peers[c].known = FALSE /\ s.peers[c].replied = FALSE
  <2>1. \A c \in PxClients \ {a} : s.peers[c].known = s.peers[c].replied /\ s.peers[c].known \in BOOLEAN
    BY <1>1 DEF Own, ClientState, Entry
  <2> QED BY <1>1, <2>1 DEF Own
<1>6. \A c \in PxClients \ {a} :
        /\ IF m.from # c THEN s.peers[c] = s.peers[c]
           ELSE /\ s.peers[c].known = s.peers[c].replied
                /\ s.peers[c].known => ~m.left /\ s.peers[c].val = m.val
                /\ Joined(s) /\ ~m.left => s.peers[c].known /\ s.peers[c].val = m.val
        /\ Told(proto, s) => ~(m.from = c /\ ~m.left /\ ~s.peers[c].replied)
  BY <1>2, <1>5
<1>7. Mid(a, s, Tail(mail[a]))
  BY <1>1, <1>2, <1>6, Taking
<1>8. Own(proto, s, Tail(mail[a]), a)
  BY <1>1, <1>2 DEF Own
<1> QED BY <1>1, <1>3, <1>4, <1>7, <1>8, Moving

LEMMA ReceiveStep ==
  ASSUME PxAssumption, PxInv, NEW a \in PxClients, Receive(a)
  PROVE  PxInv'
<1> DEFINE s  == client[a]
           m  == Head(mail[a])
           f  == Store(s, m.from, m.val)
           new == ~s.peers[m.from].replied
           b  == Tail(mail[a])
<1>1. /\ s \in ClientState /\ Own(proto, s, mail[a], a) /\ s.status = "shown" /\ ~s.claimed
      /\ s.registered /\ mail[a] \in Seq(Mail) /\ mail[a] # <<>> /\ ~m.left /\ proto \in Protocols
      /\ mail \in [PxClients -> Seq(Mail)] /\ client \in [PxClients -> ClientState]
  BY Pieces DEF Receive, AtRest, Shown
<1>2. m \in Mail /\ m.from \in PxClients /\ m.val \in Values /\ b \in Seq(Mail)
  <2>1. m \in Mail /\ b \in Seq(Mail)
    BY <1>1, BoxTaken
  <2> QED BY <2>1 DEF Mail
<1>3. PICK sent \in BOOLEAN :
        /\ Fault(sent)
        /\ Moved(a, CASE proto # "version" /\ m.from = a -> s
                      [] proto # "version" /\ m.from # a -> [f EXCEPT !.pend = @ \/ new]
                      [] proto = "version" /\ ~new -> f
                      [] OTHER -> IF sent THEN VersionSent(a, f) ELSE [f EXCEPT !.dropped = TRUE])
        /\ mail' = IF proto = "version" /\ new /\ sent
                   THEN ToAll([mail EXCEPT ![a] = b], Command(a, f.val))
                   ELSE [mail EXCEPT ![a] = b]
  BY DEF Receive, Moved
<1>4. Counted
  BY <1>3, Pieces, CountsFit DEF Receive
<1>5. /\ f \in ClientState /\ f.pend = s.pend /\ f.dropped = s.dropped /\ Alike(f, s)
      /\ f.peers[m.from] = [known |-> TRUE, val |-> m.val, replied |-> TRUE]
      /\ \A c \in PxClients \ {m.from} : f.peers[c] = s.peers[c]
  BY <1>1, <1>2, Recorded
<1> HIDE DEF f, new
<1>6. ASSUME NEW d \in ClientState, Alike(d, s),
             \A c \in PxClients \ {a} : d.peers[c] = f.peers[c],
             Told(proto, d) => Told(proto, s) /\ (m.from # a => ~new)
      PROVE  Mid(a, d, b) /\ (~d.signalling \/ proto = "mode")
  <2>1. /\ Unheard(d) => Unheard(s)
        /\ Joined(d) => Joined(s)
        /\ Current(proto, d) => Current(proto, s)
        /\ d.status = s.status /\ d.val = s.val /\ s.status # "off"
    BY <1>1, <1>6 DEF Unheard, Joined, Current, Alike
  <2>2. ASSUME NEW c \in PxClients \ {a}
        PROVE  /\ IF m.from # c THEN d.peers[c] = s.peers[c]
                  ELSE /\ d.peers[c].known = d.peers[c].replied
                       /\ d.peers[c].known => ~m.left /\ d.peers[c].val = m.val
                       /\ Joined(d) /\ ~m.left => d.peers[c].known /\ d.peers[c].val = m.val
               /\ Told(proto, d) => ~(m.from = c /\ ~m.left /\ ~s.peers[c].replied)
    <3>1. CASE m.from = c
      <4>1. /\ d.peers[c].known = TRUE /\ d.peers[c].replied = TRUE /\ d.peers[c].val = m.val
        BY <1>5, <1>6, <2>2, <3>1
      <4>2. Told(proto, d) => s.peers[c].replied
        BY <1>6, <2>2, <3>1 DEF new
      <4> QED BY <1>1, <3>1, <4>1, <4>2
    <3>2. CASE m.from # c
      <4>1. d.peers[c] = s.peers[c]
        BY <1>5, <1>6, <2>2, <3>2
      <4> QED BY <3>2, <4>1
    <3> QED BY <3>1, <3>2
  <2>3. Mid(a, d, b)
    BY <1>1, <1>6, <2>1, <2>2, Taking
  <2> QED BY <1>1, <1>6, <2>3 DEF Own, Alike
<1>7. \A c \in PxClients \ {a} : f.peers[c].known = f.peers[c].replied
  <2> SUFFICES ASSUME NEW c \in PxClients \ {a} PROVE f.peers[c].known = f.peers[c].replied
    OBVIOUS
  <2>1. CASE c = m.from
    <3>1. f.peers[c] = [known |-> TRUE, val |-> m.val, replied |-> TRUE]
      BY <1>5, <2>1
    <3> QED BY <3>1
  <2>2. CASE c # m.from
    <3>1. s.peers[c].known = s.peers[c].replied
      BY <1>1 DEF Own
    <3> QED BY <1>5, <2>2, <3>1
  <2> QED BY <2>1, <2>2
<1>8. ASSUME NEW d \in ClientState, NEW box, Alike(d, s),
             \A c \in PxClients \ {a} : d.peers[c] = f.peers[c]
      PROVE  Own(proto, d, box, a)
  BY <1>1, <1>7, <1>8 DEF Own, Alike
<1>9. CASE proto # "version" /\ m.from = a
  <2>1. Moved(a, s) /\ mail' = [mail EXCEPT ![a] = b]
    BY <1>3, <1>9
  <2>2. \A c \in PxClients \ {a} : s.peers[c] = f.peers[c]
    BY <1>5, <1>9
  <2>3. Alike(s, s)
    BY DEF Alike
  <2> HIDE DEF s, b
  <2> QED BY <1>1, <1>4, <1>6, <1>8, <1>9, <2>1, <2>2, <2>3, Moving
<1>10. CASE proto # "version" /\ m.from # a
  <2> DEFINE x == f.pend \/ new
             d == [f EXCEPT !.pend = x]
  <2>1. x \in BOOLEAN /\ (x <=> f.pend \/ new)
    BY <1>5 DEF ClientState
  <2>2. Moved(a, d) /\ mail' = [mail EXCEPT ![a] = b]
    BY <1>3, <1>10
  <2> HIDE DEF x
  <2>3. /\ d \in ClientState /\ d.pend = x /\ d.peers = f.peers /\ d.dropped = f.dropped
        /\ Alike(d, f)
    BY <1>5, <2>1, Pending
  <2> HIDE DEF d, s, b
  <2>4. Alike(d, s)
    BY <1>5, <2>3 DEF Alike
  <2>5. Told(proto, d) => Told(proto, s) /\ ~new
    BY <1>5, <2>1, <2>3, <2>4 DEF Told, Alike
  <2> QED BY <1>4, <1>6, <1>8, <2>2, <2>3, <2>4, <2>5, Moving
<1>11. CASE proto = "version" /\ ~new
  <2>1. Moved(a, f) /\ mail' = [mail EXCEPT ![a] = b]
    BY <1>3, <1>11
  <2>2. Told(proto, f) => Told(proto, s) /\ ~new
    BY <1>5, <1>11 DEF Told, Alike
  <2> HIDE DEF s, b
  <2> QED BY <1>4, <1>5, <1>6, <1>8, <2>1, <2>2, Moving
<1>12. CASE proto = "version" /\ new /\ ~sent
  <2> DEFINE d == [f EXCEPT !.dropped = TRUE]
  <2>1. Moved(a, d) /\ mail' = [mail EXCEPT ![a] = b]
    BY <1>3, <1>12
  <2>2. d \in ClientState /\ d.peers = f.peers /\ d.dropped = TRUE /\ Alike(d, f)
    BY <1>5 DEF ClientState, Alike
  <2> HIDE DEF d, s, b
  <2>3. Alike(d, s)
    BY <1>5, <2>2 DEF Alike
  <2>4. ~Told(proto, d)
    BY <2>2 DEF Told
  <2> QED BY <1>4, <1>6, <1>8, <2>1, <2>2, <2>3, <2>4, Moving
<1>13. CASE proto = "version" /\ new /\ sent
  <2> DEFINE d == VersionSent(a, f)
             e == [f EXCEPT !.pend = TRUE]
  <2>1. Moved(a, d) /\ mail' = ToAll([mail EXCEPT ![a] = b], Command(a, f.val))
    BY <1>3, <1>13
  <2>2. /\ d \in ClientState /\ Alike(d, f)
        /\ \A c \in PxClients \ {a} : d.peers[c] = f.peers[c]
    BY <1>5, Versioned
  <2>3. e \in ClientState /\ e.pend = TRUE /\ e.peers = f.peers /\ Alike(e, f)
    BY <1>5, Pending
  <2> HIDE DEF d, e, s, b
  <2>4. Alike(d, s) /\ Alike(e, s)
    BY <1>5, <2>2, <2>3 DEF Alike
  <2>5. ~Told(proto, e)
    BY <2>3 DEF Told
  <2>6. Mid(a, e, b)
    BY <1>6, <2>3, <2>4, <2>5
  <2>7. Own(proto, d, mail'[a], a)
    BY <1>8, <2>2, <2>4
  <2>8. f.val = d.val /\ f.val \in Values
    BY <1>5, <2>2 DEF Alike, ClientState
  <2>9. Joined(d) => Joined(e)
    BY <2>4 DEF Joined, Alike
  <2>10. /\ d.status = "shown" /\ d.registered
         /\ \A c \in PxClients \ {a} : d.peers[c] = e.peers[c]
    BY <1>1, <2>2, <2>3, <2>4 DEF Alike, s
  <2> QED BY <1>4, <2>1, <2>2, <2>6, <2>7, <2>8, <2>9, <2>10, Announcing
<1> QED BY <1>9, <1>10, <1>11, <1>12, <1>13

-----------------------------------------------------------------------------
(* When everything raised has been sent and delivered, whoever is on the   *)
(* server for the first time since he connected knows everybody else who   *)
(* announces himself, with what he announces now, and nobody who has left: *)
(* for every number of clients, each of the three commands, every order of *)
(* arrival and every send that is refused.                                 *)
THEOREM ExchangeIsSafe ==
  ASSUME PxAssumption
  PROVE  PxSpec => [](PxTypeOK /\ ExchangeSafe)
<1>1. PxInit => PxInv
  <2> SUFFICES ASSUME PxInit PROVE PxInv
    OBVIOUS
  <2>1. PICK v \in [PxClients -> Values] :
          client = [c \in PxClients |->
            [status |-> "off", registered |-> TRUE, val |-> v[c], signalling |-> FALSE,
             pend |-> FALSE, claimed |-> FALSE, wire |-> Unread, hot |-> FALSE, fails |-> 0,
             peers |-> [p \in PxClients |-> Unknown], dropped |-> FALSE, returned |-> FALSE]]
    BY DEF PxInit
  <2>2. ASSUME NEW c \in PxClients
        PROVE  /\ client[c] \in ClientState /\ client[c].status = "off" /\ mail[c] = <<>>
               /\ client[c].claimed = FALSE /\ client[c].signalling = FALSE
               /\ client[c].wire = Unread /\ client[c].registered = TRUE /\ client[c].fails = 0
               /\ \A p \in PxClients : client[c].peers[p] = Unknown
    <3>1. [p \in PxClients |-> Unknown] \in [PxClients -> Entry]
      BY DEF Entry, Unknown, Values
    <3>2. v[c] \in Values /\ 0 \in 0..RetryMax
      BY DEF PxAssumption
    <3>3. client[c] \in ClientState
      BY <2>1, <3>1, <3>2 DEF ClientState
    <3> QED BY <2>1, <3>3 DEF PxInit
  <2>3. client \in [PxClients -> ClientState] /\ mail \in [PxClients -> Seq(Mail)]
    <3>1. <<>> \in Seq(Mail)
      OBVIOUS
    <3> QED BY <2>1, <2>2, <3>1 DEF PxInit
  <2>4. PxTypeOK
    <3>1. proto \in Protocols /\ pxEvents \in 0..PxMaxEvents /\ pxFaults \in 0..PxMaxFaults
      BY DEF PxInit, PxAssumption
    <3> QED BY <2>2, <2>3, <3>1 DEF PxTypeOK
  <2>5. OwnInv
    <3> SUFFICES ASSUME NEW c \in PxClients PROVE Own(proto, client[c], mail[c], c)
      BY DEF OwnInv
    <3>1. client[c].status = "off" /\ client[c].claimed = FALSE /\ client[c].signalling = FALSE
      BY <2>2
    <3>2. client[c].wire = Unread /\ client[c].registered = TRUE /\ client[c].fails = 0
      BY <2>2
    <3>3. mail[c] = <<>>
      BY <2>2
    <3>4. ASSUME NEW p \in PxClients
          PROVE  client[c].peers[p].known = FALSE /\ client[c].peers[p].replied = FALSE
      <4>1. client[c].peers[p] = Unknown
        BY <2>2
      <4> QED BY <4>1, UnknownIs
    <3> QED BY <3>1, <3>2, <3>3, <3>4 DEF Own
  <2>6. ASSUME NEW c \in PxClients, NEW p \in PxClients
        PROVE  PairOK(proto, client[c], mail[c], client[p], mail[p], c, p)
    <3>1. ~Joined(client[c])
      BY <2>2 DEF Joined
    <3> QED BY <2>2, <3>1, NothingInEmptyBox DEF PairOK
  <2> QED BY <2>4, <2>5, <2>6 DEF PxInv, PairInv
<1>2. PxInv /\ [PxNext]_pxvars => PxInv'
  <2> SUFFICES ASSUME PxInv, [PxNext]_pxvars PROVE PxInv'
    OBVIOUS
  <2>1. CASE UNCHANGED pxvars
    BY <2>1 DEF pxvars, PxInv, PxTypeOK, OwnInv, PairInv
  <2>2. CASE PxNext
    <3>1. PICK a \in PxClients :
            \/ PxConnect(a) \/ PxDisconnect(a) \/ PxHide(a) \/ PxShow(a) \/ PxRegister(a)
            \/ SwitchMode(a) \/ SignalMode(a) \/ FlushClaim(a) \/ FlushRead(a) \/ FlushMode(a)
            \/ FlushAuth(a) \/ FlushVersion(a) \/ RateLimitOver(a)
            \/ Receive(a) \/ PeerLeaves(a) \/ NotMine(a)
      BY <2>2 DEF PxNext
    <3> QED BY <3>1, ConnectStep, DisconnectStep, HideStep, ShowStep, RegisterStep, SwitchStep,
               SignalStep, ClaimStep, ReadStep, FlushModeStep, FlushAuthStep, FlushVersionStep,
               RateStep, ReceiveStep, LeaveStep, NotMineStep
  <2> QED BY <2>1, <2>2
<1>3. PxInv => PxTypeOK /\ ExchangeSafe
  <2> SUFFICES ASSUME PxInv, Settled, NEW c \in PxClients, NEW p \in PxClients, c # p
               PROVE  /\ Announces(c) /\ Announces(p) /\ ~client[c].returned => client[c].peers[p].known
                      /\ Shown(c) /\ client[c].peers[p].known =>
                           /\ Connected(p)
                           /\ Announces(p) => client[c].peers[p].val = client[p].val
    BY DEF PxInv, ExchangeSafe, EverybodyKnown, NothingStale
  <2>1. /\ mail[c] = <<>> /\ mail[p] = <<>> /\ ~client[c].pend /\ ~client[c].claimed
        /\ ~client[p].pend /\ ~client[p].claimed /\ ~client[p].signalling
    BY DEF Settled
  <2>2. PairOK(proto, client[c], <<>>, client[p], <<>>, c, p)
    BY <2>1 DEF PxInv, PairInv
  <2>3. /\ \A v \in Values : KnowsVal(client[c].peers[p], <<>>, p, v) <=>
             client[c].peers[p].known /\ client[c].peers[p].val = v
        /\ ~Answers(client[p].peers[c], <<>>, c)
    BY DEF KnowsVal, LastCmd, NoneFrom, Answers
  <2>4. client[c].peers[p].val \in Values /\ Own(proto, client[c], <<>>, c)
    <3>1. client[c] \in ClientState
      BY DEF PxInv, PxTypeOK
    <3>2. client[c].peers[p] \in Entry
      BY <3>1 DEF ClientState
    <3> QED BY <2>1, <3>2 DEF Entry, PxInv, OwnInv
  <2>5. Announces(p) => Told(proto, client[p]) /\ Current(proto, client[p])
    BY <2>1 DEF Announces, Shown, Told, Current
  <2>6. ASSUME Announces(c), Announces(p), ~client[c].returned PROVE client[c].peers[p].known
    <3>1. Told(proto, client[c]) /\ Joined(client[c])
      BY <2>1, <2>4, <2>6 DEF Announces, Shown, Told, Joined, Own
    <3>2. Knows(client[c].peers[p], <<>>, p)
      BY <2>2, <2>3, <2>5, <2>6, <3>1 DEF PairOK
    <3> QED BY <2>3, <3>2 DEF Knows
  <2>7. ASSUME client[c].peers[p].known
        PROVE  /\ Connected(p)
               /\ Announces(p) => client[c].peers[p].val = client[p].val
    BY <2>2, <2>3, <2>4, <2>5, <2>7 DEF PairOK, Connected
  <2> QED BY <2>6, <2>7
<1> QED BY <1>1, <1>2, <1>3, PTL DEF PxSpec
=============================================================================
