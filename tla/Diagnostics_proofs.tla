------------------------- MODULE Diagnostics_proofs -------------------------
(***************************************************************************)
(* Theorems about Diagnostics, for any number of watchers, sessions and      *)
(* requests: the newest watcher of a running instance is the registered one, *)
(* the ledger of a buffer is what its ring carries, and no entry is left to  *)
(* wait for a body that nobody fetches.                                      *)
(***************************************************************************)
EXTENDS Diagnostics, FiniteSetTheorems, TLAPS

-----------------------------------------------------------------------------
(* The registry.                                                             *)

Born == {w \in Watchers : watcher[w].pc # "unborn"}

WatcherTypes ==
    /\ row \in BOOLEAN /\ watched \in BOOLEAN
    /\ registry \in Watchers \cup {None}
    /\ watcher \in [Watchers -> [pc : Pcs, current : BOOLEAN, conn : {"none", "up", "dead"}]]

\* Watchers are born in their order.
BornInOrder == \A w \in Born, v \in Watchers : v < w => v \in Born

\* The registered watcher is the newest, and of the current generation.
RegistryIsNewest ==
    registry # None =>
        registry \in Born /\ watcher[registry].current /\ \A v \in Born : v <= registry

\* While the instance runs with a watcher, that watcher has no reason to leave.
RegisteredStays ==
    row /\ watched => registry # None /\ watcher[registry].pc \in {"look", "pump", "again"}

RegistryInv == WatcherTypes /\ BornInOrder /\ RegistryIsNewest /\ RegisteredStays

LEMMA InitRegistry == Init => RegistryInv
<1> SUFFICES ASSUME Init PROVE RegistryInv OBVIOUS
<1>1. watcher = [w \in Watchers |-> [pc |-> "unborn", current |-> TRUE, conn |-> "none"]]
      /\ registry = None /\ row = FALSE /\ watched = FALSE
  BY DEF Init
<1>2. WatcherTypes BY <1>1 DEF WatcherTypes, Pcs
<1>3. Born = {} BY <1>1 DEF Born
<1> QED BY <1>1, <1>2, <1>3 DEF RegistryInv, BornInOrder, RegistryIsNewest, RegisteredStays

\* Steps of the connections and the tasks.
LEMMA AsideKeepsRegistry ==
    ASSUME RegistryInv, UNCHANGED <<row, watched, registry, watcher>> PROVE RegistryInv'
BY DEF RegistryInv, WatcherTypes, BornInOrder, RegistryIsNewest, RegisteredStays, Born

\* A watcher that is born and goes on: it leaves only when it does not stay.
LEMMA WatcherMoves ==
    ASSUME RegistryInv, UNCHANGED <<row, watched, registry>>, NEW w \in Born,
           NEW pc \in {"look", "pump", "again", "leave"}, NEW link \in {"none", "up", "dead"},
           watcher' = [watcher EXCEPT ![w].pc = pc, ![w].conn = link],
           pc = "leave" => watcher[w].pc = "leave" \/ ~(watcher[w].current /\ row)
    PROVE  RegistryInv'
<1>1. w \in Watchers /\ watcher[w].pc # "unborn" BY DEF Born
<1>2. watcher' \in [Watchers -> [pc : Pcs, current : BOOLEAN, conn : {"none", "up", "dead"}]]
  BY <1>1 DEF RegistryInv, WatcherTypes, Pcs
<1>3. /\ watcher'[w].pc = pc /\ watcher'[w].current = watcher[w].current
      /\ \A v \in Watchers \ {w} : watcher'[v] = watcher[v]
  BY <1>1 DEF RegistryInv, WatcherTypes
<1>4. Born' = Born BY <1>1, <1>3 DEF Born
<1>5. WatcherTypes' BY <1>2 DEF RegistryInv, WatcherTypes
<1>6. BornInOrder' BY <1>4 DEF RegistryInv, BornInOrder
<1>7. \A v \in Watchers : watcher'[v].current = watcher[v].current BY <1>3
<1>8. RegistryIsNewest' BY <1>4, <1>7 DEF RegistryInv, RegistryIsNewest, WatcherTypes
<1>9. RegisteredStays'
  <2> SUFFICES ASSUME row, watched
               PROVE  registry # None /\ watcher'[registry].pc \in {"look", "pump", "again"}
    BY DEF RegisteredStays
  <2>1. registry \in Watchers /\ registry # None /\ watcher[registry].current
        /\ watcher[registry].pc \in {"look", "pump", "again"}
    BY DEF RegistryInv, RegisteredStays, RegistryIsNewest, WatcherTypes
  <2> QED BY <1>3, <2>1
<1> QED BY <1>5, <1>6, <1>8, <1>9 DEF RegistryInv

LEMMA SpawnKeepsRegistry ==
    ASSUME Watchers \subseteq Nat, None \notin Watchers, RegistryInv, NEW w \in Watchers, Spawn(w)
    PROVE  RegistryInv'
<1>1. /\ watcher[w].pc = "unborn" /\ \A v \in Watchers : v < w => watcher[v].pc # "unborn"
      /\ registry' = w /\ watched' = row /\ row' = row
      /\ watcher' = [v \in Watchers |->
                       IF v = w THEN [pc |-> "look", current |-> TRUE, conn |-> "none"]
                       ELSE IF v = registry THEN [watcher[v] EXCEPT !.current = FALSE]
                       ELSE watcher[v]]
  BY DEF Spawn
<1>2. watcher \in [Watchers -> [pc : Pcs, current : BOOLEAN, conn : {"none", "up", "dead"}]]
  BY DEF RegistryInv, WatcherTypes
<1>3. ASSUME NEW v \in Watchers
      PROVE  /\ watcher'[v] \in [pc : Pcs, current : BOOLEAN, conn : {"none", "up", "dead"}]
             /\ v # w => watcher'[v].pc = watcher[v].pc
  <2>1. CASE v = w BY <1>1, <2>1 DEF Pcs
  <2>2. CASE v # w /\ v = registry
    <3>1. watcher'[v] = [watcher[v] EXCEPT !.current = FALSE] BY <1>1, <2>2
    <3>2. watcher[v] \in [pc : Pcs, current : BOOLEAN, conn : {"none", "up", "dead"}] BY <1>2
    <3> HIDE DEF Pcs
    <3>3. watcher'[v] \in [pc : Pcs, current : BOOLEAN, conn : {"none", "up", "dead"}] BY <3>1, <3>2
    <3>4. watcher'[v].pc = watcher[v].pc BY <3>1, <3>2
    <3> QED BY <3>3, <3>4
  <2>3. CASE v # w /\ v # registry BY <1>1, <1>2, <2>3
  <2> QED BY <2>1, <2>2, <2>3
<1>4. watcher'[w].pc = "look" /\ watcher'[w].current BY <1>1
<1>5. watcher' \in [Watchers -> [pc : Pcs, current : BOOLEAN, conn : {"none", "up", "dead"}]]
  BY <1>1, <1>3
<1>6. Born' = Born \cup {w} BY <1>3, <1>4 DEF Born
<1>7. \A v \in Born : v <= w
  <2> SUFFICES ASSUME NEW v \in Born PROVE v <= w OBVIOUS
  <2>1. v \in Watchers /\ w \notin Born BY <1>1 DEF Born
  <2>2. ~(w < v) BY <2>1 DEF RegistryInv, BornInOrder
  <2> QED BY <2>1, <2>2
<1>8. WatcherTypes' BY <1>1, <1>5 DEF RegistryInv, WatcherTypes
<1>9. BornInOrder' BY <1>1, <1>6 DEF RegistryInv, BornInOrder, Born
<1>10. RegistryIsNewest' BY <1>1, <1>4, <1>6, <1>7 DEF RegistryIsNewest
<1>11. RegisteredStays' BY <1>1, <1>4 DEF RegisteredStays
<1> QED BY <1>8, <1>9, <1>10, <1>11 DEF RegistryInv

LEMMA LeaveKeepsRegistry ==
    ASSUME None \notin Watchers, RegistryInv, NEW w \in Watchers, Leave(w) PROVE RegistryInv'
<1>1. /\ watcher[w].pc = "leave" /\ row' = row /\ watched' = watched
      /\ registry' = (IF registry = w THEN None ELSE registry)
      /\ watcher' = [watcher EXCEPT ![w].pc = "gone"]
  BY DEF Leave, Mine, Goto
<1>2. watcher' \in [Watchers -> [pc : Pcs, current : BOOLEAN, conn : {"none", "up", "dead"}]]
  BY <1>1 DEF RegistryInv, WatcherTypes, Pcs
<1>3. /\ watcher'[w].pc = "gone" /\ \A v \in Watchers : watcher'[v].current = watcher[v].current
      /\ \A v \in Watchers \ {w} : watcher'[v] = watcher[v]
  BY <1>1 DEF RegistryInv, WatcherTypes
<1>4. Born' = Born BY <1>1, <1>3 DEF Born
<1>5. WatcherTypes' BY <1>1, <1>2 DEF RegistryInv, WatcherTypes
<1>6. BornInOrder' BY <1>4 DEF RegistryInv, BornInOrder
<1>7. RegistryIsNewest' BY <1>1, <1>3, <1>4 DEF RegistryInv, RegistryIsNewest, WatcherTypes
<1>8. RegisteredStays' BY <1>1, <1>3 DEF RegistryInv, RegisteredStays, WatcherTypes
<1> QED BY <1>5, <1>6, <1>7, <1>8 DEF RegistryInv

LEMMA StepKeepsRegistry ==
    ASSUME Watchers \subseteq Nat, None \notin Watchers, RegistryInv, [Next]_vars PROVE RegistryInv'
<1> USE DEF RegistryInv
<1>1. ASSUME NEW w \in Watchers, Look(w) PROVE RegistryInv'
  <2>1. /\ w \in Born /\ watcher[w].conn \in {"none", "up", "dead"}
        /\ UNCHANGED <<row, watched, registry>>
    BY <1>1 DEF Look, Born, WatcherTypes
  <2>2. PICK pc \in {"look", "pump", "again", "leave"}, link \in {"none", "up", "dead"} :
           /\ watcher' = [watcher EXCEPT ![w].pc = pc, ![w].conn = link]
           /\ pc = "leave" => ~(watcher[w].current /\ row)
    <3>1. CASE ~Stays(w) /\ Goto(w, "leave")
      <4>1. watcher' = [watcher EXCEPT ![w].pc = "leave", ![w].conn = watcher[w].conn]
        BY <2>1, <3>1 DEF Goto, WatcherTypes
      <4> QED BY <2>1, <3>1, <4>1 DEF Stays
    <3>2. CASE watcher' \in {[watcher EXCEPT ![w].pc = "pump", ![w].conn = "up"],
                             [watcher EXCEPT ![w].pc = "again", ![w].conn = "up"],
                             [watcher EXCEPT ![w].pc = "again"]}
      <4>1. [watcher EXCEPT ![w].pc = "again"]
              = [watcher EXCEPT ![w].pc = "again", ![w].conn = watcher[w].conn]
        BY <2>1 DEF WatcherTypes
      <4> QED BY <2>1, <3>2, <4>1
    <3> QED BY <1>1, <3>1, <3>2 DEF Look
  <2> QED BY <2>1, <2>2, WatcherMoves
<1>2. ASSUME NEW w \in Watchers, Again(w) PROVE RegistryInv'
  <2>1. /\ w \in Born /\ watcher[w].conn \in {"none", "up", "dead"}
        /\ UNCHANGED <<row, watched, registry>>
    BY <1>2 DEF Again, Born, WatcherTypes
  <2> DEFINE pc == IF Stays(w) THEN "look" ELSE "leave"
  <2>2. watcher' = [watcher EXCEPT ![w].pc = pc, ![w].conn = watcher[w].conn]
    BY <1>2 DEF Again, Goto, WatcherTypes
  <2>3. pc \in {"look", "pump", "again", "leave"} /\ (pc = "leave" => ~(watcher[w].current /\ row))
    BY DEF Stays
  <2> HIDE DEF pc
  <2> QED BY <2>1, <2>2, <2>3, WatcherMoves
<1>3. ASSUME NEW w \in Watchers, Lost(w) PROVE RegistryInv'
  <2>1. w \in Born /\ UNCHANGED <<row, watched, registry>>
        /\ watcher' = [watcher EXCEPT ![w].pc = "again", ![w].conn = "none"]
    BY <1>3 DEF Lost, Born, WatcherTypes
  <2> QED BY <2>1, WatcherMoves
<1>4. ASSUME NEW w \in Watchers, ConnectionDies(w) PROVE RegistryInv'
  <2>1. /\ UNCHANGED <<row, watched, registry>>
        /\ watcher' = [watcher EXCEPT ![w].conn = "dead"]
    BY <1>4 DEF ConnectionDies
  <2>2. watcher' \in [Watchers -> [pc : Pcs, current : BOOLEAN, conn : {"none", "up", "dead"}]]
    BY <2>1 DEF WatcherTypes
  <2>3. \A v \in Watchers :
          watcher'[v].pc = watcher[v].pc /\ watcher'[v].current = watcher[v].current
    BY <2>1 DEF WatcherTypes
  <2>4. Born' = Born BY <2>3 DEF Born
  <2> QED BY <2>1, <2>2, <2>3, <2>4 DEF WatcherTypes, BornInOrder, RegistryIsNewest, RegisteredStays
<1>5. ASSUME RowChanges PROVE RegistryInv'
  BY <1>5 DEF RowChanges, WatcherTypes, BornInOrder, RegistryIsNewest, RegisteredStays, Born
<1>6. CASE \E w \in Watchers, s \in Sessions : Attached(w, s) \/ Detached(w, s)
  BY <1>6, AsideKeepsRegistry DEF Attached, Detached
<1>7. CASE \E q \in Requests : \/ WillBeSent(q) \/ LoadingFailed(q) \/ Acquire(q) \/ Fetched(q)
                               \/ \E text \in BOOLEAN : Finished(q, text)
  BY <1>7, AsideKeepsRegistry DEF WillBeSent, LoadingFailed, Acquire, Fetched, Finished
<1>8. CASE UNCHANGED vars BY <1>8, AsideKeepsRegistry DEF vars
<1> QED BY <1>1, <1>2, <1>3, <1>4, <1>5, <1>6, <1>7, <1>8, SpawnKeepsRegistry, LeaveKeepsRegistry
        DEF Next

LEMMA RegistryInvImplies == Watchers \subseteq Nat /\ RegistryInv => NewestIsRegistered
<1> SUFFICES ASSUME Watchers \subseteq Nat, RegistryInv, row, watched PROVE registry = Max(Born)
  BY DEF NewestIsRegistered, Born
<1>1. registry \in Born /\ \A v \in Born : v <= registry
  BY DEF RegistryInv, RegisteredStays, RegistryIsNewest
<1>2. Born \subseteq Nat BY DEF Born
<1>3. \A x \in Born : (\A v \in Born : x >= v) => x = registry BY <1>1, <1>2
<1>4. Max(Born) = CHOOSE x \in Born : \A v \in Born : x >= v BY DEF Max
<1> QED BY <1>1, <1>2, <1>3, <1>4

\* Old watchers that leave late take their own entry along, never that of a newer
\* generation, and the watcher of a running instance has no reason to leave
\* (diagnostics_service.rs, watch_loop).
THEOREM NewestWatcherIsRegistered ==
    Watchers \subseteq Nat /\ None \notin Watchers => (Spec => []NewestIsRegistered)
<1> SUFFICES ASSUME Watchers \subseteq Nat, None \notin Watchers PROVE Spec => []NewestIsRegistered
  OBVIOUS
<1> QED BY InitRegistry, StepKeepsRegistry, RegistryInvImplies, PTL DEF Spec

-----------------------------------------------------------------------------
(* The books: what the entries of a ring carry.  A ledger is a count, and    *)
(* what the ring carries a set: the pairs of an entry and one of its bytes.  *)

Limits == RingCap \in Nat \ {0} /\ {ItemMax, Budget, MaxBody} \subseteq Nat

\* The pairs of an entry and one of its bytes.
Bytes(net) == {p \in (DOMAIN net) \X (1..ItemMax) : p[2] <= net[p[1]].size}

\* Among natural numbers there is a least, and below a bound a greatest.
LEMMA LeastNat == ASSUME NEW S \in SUBSET Nat, S # {} PROVE \E n \in S : \A m \in S : n <= m
<1> DEFINE Less == OpToRel(<, Nat)
<1>1. PICK n \in S : \A m \in S : ~(<<m, n>> \in Less)
  <2>1. IsWellFoundedOn(Less, Nat) BY NatLessThanWellFounded, Zenon
  <2> HIDE DEF Less
  <2> QED BY <2>1, WFMin
<1>2. \A m \in S : ~(m < n) BY <1>1 DEF OpToRel
<1> QED BY <1>2

LEMMA GreatestBelow ==
    ASSUME NEW n \in Nat, NEW S \in SUBSET (1..n), S # {} PROVE \E m \in S : \A k \in S : m >= k
<1> DEFINE R == {r \in 0..n : n - r \in S}
<1>1. \A k \in S : n - k \in R
  <2> TAKE k \in S
  <2>1. k \in 1..n /\ n - k \in 0..n /\ n - (n - k) = k OBVIOUS
  <2> QED BY <2>1
<1>2. R \in SUBSET Nat /\ R # {}
  <2>1. PICK k \in S : TRUE OBVIOUS
  <2>2. n - k \in R BY <1>1, <2>1
  <2>3. R \subseteq 0..n OBVIOUS
  <2> QED BY <2>2, <2>3
<1> HIDE DEF R
<1>3. PICK r \in R : \A x \in R : r <= x BY <1>2, LeastNat
<1>4. r \in 0..n /\ n - r \in S BY DEF R
<1>5. \A k \in S : n - r >= k
  <2> TAKE k \in S
  <2>1. k \in 1..n /\ r <= n - k BY <1>1, <1>3
  <2> QED BY <1>4, <2>1
<1> QED BY <1>4, <1>5

\* The bytes of one entry.
LEMMA Column ==
    ASSUME NEW i, NEW s \in Nat
    PROVE  IsFiniteSet({i} \X (1..s)) /\ Cardinality({i} \X (1..s)) = s
<1>1. IsFiniteSet(1..s) /\ Cardinality(1..s) = s BY FS_Interval
<1>2. IsFiniteSet({i}) /\ Cardinality({i}) = 1 BY FS_Singleton
<1>3. /\ IsFiniteSet({i} \X (1..s))
      /\ Cardinality({i} \X (1..s)) = Cardinality({i}) * Cardinality(1..s)
  BY <1>1, <1>2, FS_Product
<1> QED BY <1>1, <1>2, <1>3

LEMMA BytesFinite ==
    ASSUME Limits, NEW net \in Seq(Entry)
    PROVE  IsFiniteSet(Bytes(net)) /\ Kept(net) = Cardinality(Bytes(net)) /\ Kept(net) \in Nat
<1>1. DOMAIN net = 1..Len(net) /\ Len(net) \in Nat OBVIOUS
<1>2. IsFiniteSet((DOMAIN net) \X (1..ItemMax))
  <2>1. IsFiniteSet(1..Len(net)) BY <1>1, FS_Interval
  <2>2. IsFiniteSet(1..ItemMax) BY FS_Interval DEF Limits
  <2> QED BY <1>1, <2>1, <2>2, FS_Product
<1>3. Bytes(net) \in SUBSET ((DOMAIN net) \X (1..ItemMax)) BY DEF Bytes
<1>4. Kept(net) = Cardinality(Bytes(net)) BY DEF Kept, Bytes
<1> QED BY <1>2, <1>3, <1>4, FS_Subset, FS_CardinalityType

\* The bytes behind the k-th entry are those of the rest of the sequence.
LEMMA BytesBehind ==
    ASSUME Limits, NEW net \in Seq(Entry), NEW rest \in Seq(Entry), NEW k \in Nat,
           Len(net) = Len(rest) + k, \A i \in 1..Len(rest) : net[i + k].size = rest[i].size
    PROVE  /\ IsFiniteSet({p \in Bytes(net) : p[1] > k})
           /\ Cardinality({p \in Bytes(net) : p[1] > k}) = Kept(rest)
<1> DEFINE T == {p \in Bytes(net) : p[1] > k}
           f == [p \in Bytes(rest) |-> <<p[1] + k, p[2]>>]
<1>1. \A p \in Bytes(rest) : /\ p[1] \in 1..Len(rest) /\ p[2] \in 1..ItemMax
                             /\ p[2] <= rest[p[1]].size /\ p = <<p[1], p[2]>>
  BY DEF Bytes
<1>2. ASSUME NEW p \in Bytes(rest) PROVE f[p] \in T
  <2>1. /\ p[1] \in 1..Len(rest) /\ p[2] \in 1..ItemMax /\ p[2] <= rest[p[1]].size BY <1>1
  <2>2. p[1] + k \in DOMAIN net /\ p[1] + k > k BY <2>1
  <2>3. p[2] <= net[p[1] + k].size BY <2>1
  <2> QED BY <2>1, <2>2, <2>3 DEF Bytes
<1>3. f \in [Bytes(rest) -> T] BY <1>2
<1>4. \A p, r \in Bytes(rest) : f[p] = f[r] => p = r
  <2> SUFFICES ASSUME NEW p \in Bytes(rest), NEW r \in Bytes(rest), f[p] = f[r] PROVE p = r
    OBVIOUS
  <2>1. p[1] + k = r[1] + k /\ p[2] = r[2] OBVIOUS
  <2>2. p[1] \in Nat /\ r[1] \in Nat BY <1>1
  <2>3. p[1] = r[1] BY <2>1, <2>2
  <2> QED BY <1>1, <2>1, <2>3
<1>5. \A t \in T : \E p \in Bytes(rest) : f[p] = t
  <2> SUFFICES ASSUME NEW t \in T PROVE \E p \in Bytes(rest) : f[p] = t OBVIOUS
  <2>1. t = <<t[1], t[2]>> /\ t[1] \in 1..Len(net) /\ t[2] \in 1..ItemMax
        /\ t[2] <= net[t[1]].size /\ t[1] > k
    BY DEF Bytes
  <2>2. t[1] - k \in 1..Len(rest) /\ (t[1] - k) + k = t[1] BY <2>1
  <2>3. t[2] <= rest[t[1] - k].size BY <2>1, <2>2
  <2>4. <<t[1] - k, t[2]>> \in Bytes(rest) BY <2>1, <2>2, <2>3 DEF Bytes
  <2>5. f[<<t[1] - k, t[2]>>] = t BY <2>1, <2>2, <2>4
  <2> QED BY <2>4, <2>5
<1>6. ExistsBijection(Bytes(rest), T)
  BY <1>3, <1>4, <1>5 DEF ExistsBijection, Bijection, Injection, Surjection, IsInjective
<1> QED BY <1>6, BytesFinite, FS_Bijection

\* An entry without a body adds nothing.
LEMMA KeptAppend ==
    ASSUME Limits, NEW net \in Seq(Entry), NEW e \in Entry, e.size = 0
    PROVE  Append(net, e) \in Seq(Entry) /\ Kept(Append(net, e)) = Kept(net)
<1>1. Append(net, e) \in Seq(Entry) OBVIOUS
<1>2. Bytes(Append(net, e)) = Bytes(net) BY DEF Bytes
<1> QED BY <1>1, <1>2, BytesFinite

\* The first entry takes its bytes along.
LEMMA KeptTail ==
    ASSUME Limits, NEW net \in Seq(Entry), net # <<>>
    PROVE  /\ Tail(net) \in Seq(Entry) /\ net[1] \in Entry
           /\ Kept(Tail(net)) = Kept(net) - net[1].size /\ net[1].size \in 0..Kept(net)
<1>1. Tail(net) \in Seq(Entry) /\ net[1] \in Entry /\ Len(net) = Len(Tail(net)) + 1
      /\ \A i \in 1..Len(Tail(net)) : net[i + 1] = Tail(net)[i]
  OBVIOUS
<1>2. net[1].size \in 0..ItemMax BY <1>1 DEF Entry
<1> DEFINE A == {1} \X (1..net[1].size)
           B == {p \in Bytes(net) : p[1] > 1}
<1>3. IsFiniteSet(A) /\ Cardinality(A) = net[1].size
  <2>1. net[1].size \in Nat BY <1>2 DEF Limits
  <2> QED BY <2>1, Column
<1>4. IsFiniteSet(B) /\ Cardinality(B) = Kept(Tail(net)) BY <1>1, BytesBehind
<1>5. Bytes(net) = A \cup B
  <2>1. 1 \in DOMAIN net /\ DOMAIN net \subseteq Nat \ {0} OBVIOUS
  <2>2. 1..net[1].size \subseteq 1..ItemMax BY <1>2 DEF Limits
  <2>3. ASSUME NEW p \in A PROVE p \in Bytes(net)
    <3>1. p = <<1, p[2]>> /\ p[2] \in 1..net[1].size OBVIOUS
    <3> QED BY <2>1, <2>2, <3>1, <1>2 DEF Bytes
  <2>4. ASSUME NEW p \in Bytes(net), ~(p[1] > 1) PROVE p \in A
    <3>1. p = <<p[1], p[2]>> /\ p[1] \in DOMAIN net /\ p[2] \in 1..ItemMax /\ p[2] <= net[p[1]].size
      BY DEF Bytes
    <3>2. p[1] = 1 BY <2>1, <2>4, <3>1
    <3> QED BY <3>1, <3>2
  <2> QED BY <2>3, <2>4
<1>6. A \cap B = {} OBVIOUS
<1>7. Cardinality(Bytes(net)) = Cardinality(A) + Cardinality(B)
  <2> HIDE DEF A, B
  <2>1. Cardinality(A \cup B) = Cardinality(A) + Cardinality(B) - Cardinality(A \cap B)
    BY <1>3, <1>4, FS_Union
  <2>2. Cardinality(A \cap B) = 0 BY <1>6, FS_EmptySet
  <2>3. Cardinality(A) \in Nat /\ Cardinality(B) \in Nat BY <1>3, <1>4, FS_CardinalityType
  <2> QED BY <1>5, <2>1, <2>2, <2>3
<1>8. Kept(Tail(net)) \in Nat /\ Kept(net) = Cardinality(Bytes(net)) BY <1>1, BytesFinite
<1> QED BY <1>1, <1>2, <1>3, <1>4, <1>7, <1>8 DEF Limits

\* A body that is stored adds its size.
LEMMA KeptUpdate ==
    ASSUME Limits, NEW net \in Seq(Entry), NEW new \in Seq(Entry), NEW i \in DOMAIN net,
           Len(new) = Len(net), net[i].size = 0,
           \A j \in (DOMAIN net) \ {i} : new[j] = net[j]
    PROVE  Kept(new) = Kept(net) + new[i].size
<1>1. /\ DOMAIN new = DOMAIN net /\ new[i] \in Entry OBVIOUS
<1>2. new[i].size \in 0..ItemMax BY <1>1 DEF Entry
<1> DEFINE A == {i} \X (1..new[i].size)
<1>3. IsFiniteSet(A) /\ Cardinality(A) = new[i].size
  <2>1. new[i].size \in Nat BY <1>2 DEF Limits
  <2> QED BY <2>1, Column
<1>4. Bytes(new) = A \cup Bytes(net)
  <2>1. 1..new[i].size \subseteq 1..ItemMax BY <1>2 DEF Limits
  <2>2. ASSUME NEW p \in A PROVE p \in Bytes(new)
    <3>1. p = <<i, p[2]>> /\ p[2] \in 1..new[i].size OBVIOUS
    <3> QED BY <1>1, <1>2, <2>1, <3>1 DEF Bytes
  <2>3. ASSUME NEW p \in Bytes(net) PROVE p \in Bytes(new)
    <3>1. p = <<p[1], p[2]>> /\ p[1] \in DOMAIN net /\ p[2] \in 1..ItemMax /\ p[2] <= net[p[1]].size
      BY DEF Bytes
    <3>2. p[1] # i BY <3>1
    <3> QED BY <1>1, <3>1, <3>2 DEF Bytes
  <2>4. ASSUME NEW p \in Bytes(new), p \notin Bytes(net) PROVE p \in A
    <3>1. p = <<p[1], p[2]>> /\ p[1] \in DOMAIN new /\ p[2] \in 1..ItemMax /\ p[2] <= new[p[1]].size
      BY DEF Bytes
    <3>2. p[1] = i BY <1>1, <2>4, <3>1 DEF Bytes
    <3> QED BY <3>1, <3>2
  <2> QED BY <2>2, <2>3, <2>4
<1>5. A \cap Bytes(net) = {}
  <2> SUFFICES ASSUME NEW p \in A, p \in Bytes(net) PROVE FALSE OBVIOUS
  <2>1. p[1] = i /\ p[2] \in 1..ItemMax /\ p[2] <= net[p[1]].size BY DEF Bytes
  <2> QED BY <2>1
<1>6. Cardinality(Bytes(new)) = Cardinality(A) + Cardinality(Bytes(net))
  <2> HIDE DEF A
  <2>0. IsFiniteSet(Bytes(net)) BY BytesFinite
  <2>1. Cardinality(A \cup Bytes(net))
          = Cardinality(A) + Cardinality(Bytes(net)) - Cardinality(A \cap Bytes(net))
    BY <1>3, <2>0, FS_Union
  <2>2. Cardinality(A \cap Bytes(net)) = 0 BY <1>5, FS_EmptySet
  <2>3. Cardinality(A) \in Nat /\ Cardinality(Bytes(net)) \in Nat
    BY <1>3, <2>0, FS_CardinalityType
  <2> QED BY <1>4, <2>1, <2>2, <2>3
<1> QED BY <1>2, <1>3, <1>6, BytesFinite DEF Limits

-----------------------------------------------------------------------------
(* The operations of a buffer.                                              *)

Buffer == [sessions : SUBSET Sessions, pending : SUBSET Requests, net : Seq(Entry),
           bytes : Nat, dropped : Nat, settled : Nat]

WaitsAt(net, i) == net[i].state = "not-finished"

\* The books of one buffer; who waits carries nothing yet.
Balanced(b) ==
    /\ b \in Buffer
    /\ b.bytes = Kept(b.net) /\ b.dropped + Len(b.net) = b.settled
    /\ \A i \in DOMAIN b.net : WaitsAt(b.net, i) => b.net[i].size = 0

\* What a buffer shares with one whose entries were settled or evicted.
SameEntries(net, new) ==
    /\ DOMAIN new = DOMAIN net
    /\ \A i \in DOMAIN net :
          /\ new[i].req = net[i].req /\ new[i].text = net[i].text
          /\ WaitsAt(new, i) => WaitsAt(net, i)

\* Settling after evicting is no different.
LEMMA SameEntriesOnward ==
    ASSUME NEW net, NEW mid, NEW new, SameEntries(net, mid), SameEntries(mid, new)
    PROVE  SameEntries(net, new)
<1>1. DOMAIN mid = DOMAIN net /\ DOMAIN new = DOMAIN net BY DEF SameEntries
<1>2. ASSUME NEW i \in DOMAIN net
      PROVE  new[i].req = net[i].req /\ new[i].text = net[i].text
  <2>1. mid[i].req = net[i].req /\ mid[i].text = net[i].text BY DEF SameEntries
  <2>2. new[i].req = mid[i].req /\ new[i].text = mid[i].text BY <1>1 DEF SameEntries
  <2> QED BY <2>1, <2>2
<1>3. ASSUME NEW i \in DOMAIN net, WaitsAt(new, i) PROVE WaitsAt(net, i)
  <2>1. WaitsAt(mid, i) BY <1>1, <1>3 DEF SameEntries
  <2> QED BY <2>1 DEF SameEntries
<1> QED BY <1>1, <1>2, <1>3 DEF SameEntries

\* An entry with its body settled; a buffer with its entries changed, and with one more.
EntryWith(x, state, size) == [x EXCEPT !.state = state, !.size = size]
Rebooked(b, net, bytes) == [b EXCEPT !.net = net, !.bytes = bytes]
Resettled(b, net, bytes, dropped, settled) ==
    [b EXCEPT !.net = net, !.bytes = bytes, !.dropped = dropped, !.settled = settled]
\* How many entries the ring drops for another one.
Shed(b) == IF Len(b.net) >= RingCap THEN 1 ELSE 0

\* They are entries and buffers.
LEMMA EntryUpdate ==
    ASSUME NEW x \in Entry, NEW state \in Reasons \cup {"available", "partial", "evicted"},
           NEW size \in 0..ItemMax
    PROVE  /\ EntryWith(x, state, size) \in Entry
           /\ EntryWith(x, state, size).req = x.req /\ EntryWith(x, state, size).text = x.text
           /\ EntryWith(x, state, size).state = state /\ EntryWith(x, state, size).size = size
BY DEF Entry, EntryWith

LEMMA BufferUpdate ==
    ASSUME NEW b \in Buffer, NEW net \in Seq(Entry), NEW bytes \in Nat
    PROVE  Rebooked(b, net, bytes) \in Buffer
BY DEF Buffer, Rebooked

LEMMA BufferSettled ==
    ASSUME NEW b \in Buffer, NEW net \in Seq(Entry), NEW bytes \in Nat, NEW dropped \in Nat,
           NEW settled \in Nat
    PROVE  Resettled(b, net, bytes, dropped, settled) \in Buffer
BY DEF Buffer, Resettled

\* A body goes to the newest entry of its id that waits.
LEMMA TargetIsNewest ==
    ASSUME NEW b \in Buffer, NEW rid
    PROVE  /\ Target(b, rid) = 0 \/ Target(b, rid) \in DOMAIN b.net
           /\ Target(b, rid) # 0 =>
                WaitsAt(b.net, Target(b, rid)) /\ b.net[Target(b, rid)].req.rid = rid
           /\ \A i \in DOMAIN b.net :
                b.net[i].req.rid = rid /\ WaitsAt(b.net, i) => i <= Target(b, rid)
<1> DEFINE waiting ==
             {i \in DOMAIN b.net : b.net[i].req.rid = rid /\ b.net[i].state = "not-finished"}
<1>1. Target(b, rid) = IF waiting = {} THEN 0 ELSE Max(waiting) BY DEF Target
<1>2. CASE waiting = {} BY <1>1, <1>2 DEF WaitsAt
<1>3. CASE waiting # {}
  <2>1. b.net \in Seq(Entry) BY DEF Buffer
  <2>2. DOMAIN b.net = 1..Len(b.net) /\ Len(b.net) \in Nat BY <2>1
  <2>3. \E m \in waiting : \A k \in waiting : m >= k
    <3>1. waiting \in SUBSET (1..Len(b.net)) BY <2>2
    <3> HIDE DEF waiting
    <3> QED BY <1>3, <2>2, <3>1, GreatestBelow
  <2>4. Max(waiting) \in waiting /\ \A k \in waiting : Max(waiting) >= k
    <3> HIDE DEF waiting
    <3> QED BY <2>3 DEF Max
  <2>5. Target(b, rid) \in waiting /\ \A k \in waiting : Target(b, rid) >= k BY <1>1, <1>3, <2>4
  <2>6. Target(b, rid) \in 1..Len(b.net) BY <2>2, <2>5
  <2> HIDE DEF Target
  <2>7. \A i \in DOMAIN b.net : b.net[i].req.rid = rid /\ WaitsAt(b.net, i) => i <= Target(b, rid)
    BY <2>2, <2>5, <2>6 DEF WaitsAt
  <2> QED BY <2>2, <2>5, <2>6, <2>7 DEF WaitsAt
<1> QED BY <1>2, <1>3

\* Evict keeps the books, and brings them within the budget.
LEMMA EvictBalances ==
    ASSUME Limits, NEW b, Balanced(b)
    PROVE  /\ Balanced(Evict(b)) /\ Evict(b).bytes <= Budget /\ SameEntries(b.net, Evict(b).net)
<1> DEFINE Fits(k) == Kept(SubSeq(b.net, k + 1, Len(b.net))) <= Budget
           n == Len(b.net)
           k == CHOOSE k \in 0..n : Fits(k) /\ \A j \in 0..(k - 1) : ~Fits(j)
           net == [i \in DOMAIN b.net |-> IF i <= k /\ b.net[i].size > 0
                                          THEN [b.net[i] EXCEPT !.size = 0, !.state = "evicted"]
                                          ELSE b.net[i]]
<1>1. Evict(b) = [b EXCEPT !.net = net, !.bytes = @ - (Kept(b.net) - Kept(net))]
  BY DEF Evict
<1>2. /\ b \in Buffer /\ b.net \in Seq(Entry) /\ n \in Nat /\ DOMAIN b.net = 1..n
      /\ b.bytes = Kept(b.net) /\ b.bytes \in Nat
  BY DEF Balanced, Buffer
<1>3. k \in 0..n /\ Fits(k)
  <2> DEFINE S == {j \in 0..n : Fits(j)}
  <2>1. Fits(n)
    <3>1. SubSeq(b.net, n + 1, n) = <<>> BY <1>2
    <3>2. Bytes(<<>>) = {} BY DEF Bytes
    <3>3. Kept(<<>>) = 0 BY <3>2, FS_EmptySet DEF Kept, Bytes
    <3>4. 0 <= Budget BY DEF Limits
    <3>5. Kept(SubSeq(b.net, n + 1, n)) = 0 BY <3>1, <3>3
    <3> QED BY <3>4, <3>5
  <2>2. S \in SUBSET Nat /\ S # {}
    <3>1. S \subseteq 0..n /\ 0..n \subseteq Nat BY <1>2
    <3>2. n \in S BY <1>2, <2>1
    <3> QED BY <3>1, <3>2
  <2>3. PICK m \in S : \A j \in S : m <= j
    <3> HIDE DEF S
    <3> QED BY <2>2, LeastNat
  <2>4. m \in 0..n /\ Fits(m) OBVIOUS
  <2>5. \A j \in 0..(m - 1) : ~Fits(j)
    <3> SUFFICES ASSUME NEW j \in 0..(m - 1), Fits(j) PROVE FALSE OBVIOUS
    <3>1. j \in 0..n /\ j < m BY <1>2, <2>4
    <3>2. j \in S BY <3>1
    <3>3. m <= j BY <2>3, <3>2
    <3> QED BY <2>4, <3>1, <3>3
  <2> HIDE DEF Fits
  <2> QED BY <2>4, <2>5
<1> HIDE DEF k, Fits
<1>4. ASSUME NEW i \in 1..n
      PROVE  /\ net[i] \in Entry /\ net[i].req = b.net[i].req /\ net[i].text = b.net[i].text
             /\ net[i].state = "not-finished" => net[i] = b.net[i]
             /\ i <= k => net[i].size = 0
             /\ i > k => net[i] = b.net[i]
  <2>1. b.net[i] \in Entry /\ k \in Nat BY <1>2, <1>3
  <2>2. b.net[i].size \in 0..ItemMax BY <2>1 DEF Entry
  <2>3. CASE i <= k /\ b.net[i].size > 0
    <3>1. net[i] = [b.net[i] EXCEPT !.size = 0, !.state = "evicted"] BY <1>2, <2>3
    <3> HIDE DEF net
    <3>2. 0 \in 0..ItemMax /\ "evicted" # "not-finished" BY DEF Limits
    <3>3. net[i] \in Entry BY <2>1, <3>1, <3>2 DEF Entry
    <3>4. /\ net[i].req = b.net[i].req /\ net[i].text = b.net[i].text
          /\ net[i].size = 0 /\ net[i].state = "evicted"
      BY <2>1, <3>1 DEF Entry
    <3>5. ~(i > k) BY <2>1, <2>3
    <3> QED BY <3>2, <3>3, <3>4, <3>5
  <2>4. CASE ~(i <= k /\ b.net[i].size > 0)
    <3>1. net[i] = b.net[i] BY <1>2, <2>4
    <3>2. i <= k => b.net[i].size = 0 BY <2>2, <2>4 DEF Limits
    <3> QED BY <2>1, <3>1, <3>2
  <2> QED BY <2>3, <2>4
<1>5. net \in Seq(Entry) /\ Len(net) = n /\ DOMAIN net = 1..n
  <2>1. DOMAIN net = 1..n /\ net = [i \in 1..n |-> net[i]] BY <1>2
  <2> HIDE DEF net
  <2>2. net \in [1..n -> Entry] BY <1>4, <2>1
  <2> QED BY <1>2, <2>2
<1>6. Kept(net) \in Nat /\ Kept(net) <= Budget
  <2> DEFINE rest == SubSeq(b.net, k + 1, n)
  <2>1. k \in Nat /\ k <= n BY <1>2, <1>3
  <2>2. rest \in Seq(Entry) /\ Len(rest) = n - k
        /\ \A i \in 1..(n - k) : rest[i] = b.net[i + k]
    <3>1. \A i \in (k + 1)..n : b.net[i] \in Entry BY <1>2, <2>1
    <3>2. rest \in Seq(Entry) BY <1>2, <2>1
    <3>3. Len(rest) = n - k BY <1>2, <2>1
    <3>4. \A i \in 1..(n - k) : rest[i] = b.net[i + k] BY <1>2, <2>1
    <3> QED BY <3>2, <3>3, <3>4
  <2>3. \A i \in 1..(n - k) : net[i + k].size = rest[i].size
    <3> TAKE i \in 1..(n - k)
    <3>1. i + k \in 1..n /\ i + k > k BY <1>2, <2>1
    <3> HIDE DEF net
    <3> QED BY <1>4, <2>2, <3>1
  <2>4. Kept(rest) <= Budget BY <1>3 DEF Fits
  <2> HIDE DEF net, rest
  <2>5. {p \in Bytes(net) : p[1] > k} = Bytes(net)
    <3> SUFFICES ASSUME NEW p \in Bytes(net) PROVE p[1] > k OBVIOUS
    <3>1. p[1] \in 1..n /\ p[2] \in 1..ItemMax /\ p[2] <= net[p[1]].size BY <1>5 DEF Bytes
    <3>2. p[1] <= k => net[p[1]].size = 0 BY <1>4, <3>1
    <3> QED BY <2>1, <3>1, <3>2
  <2>6. Len(net) = Len(rest) + k BY <1>2, <1>5, <2>1, <2>2
  <2>7. \A i \in 1..Len(rest) : net[i + k].size = rest[i].size BY <2>2, <2>3
  <2>8. Cardinality({p \in Bytes(net) : p[1] > k}) = Kept(rest)
    BY <1>5, <2>1, <2>2, <2>6, <2>7, BytesBehind
  <2>9. Kept(net) = Kept(rest) BY <1>5, <2>5, <2>8, BytesFinite
  <2> QED BY <1>5, <2>4, <2>9, BytesFinite
<1> HIDE DEF net
<1>7. Evict(b).net = net /\ Evict(b).bytes = Kept(net) /\ Evict(b) \in Buffer
      /\ Evict(b).dropped = b.dropped /\ Evict(b).settled = b.settled
  <2>1. Evict(b).bytes = b.bytes - (Kept(b.net) - Kept(net)) BY <1>1, <1>2 DEF Buffer
  <2>2. Evict(b).bytes = Kept(net) BY <1>2, <1>6, <2>1
  <2>3. /\ Evict(b).net = net /\ Evict(b).dropped = b.dropped /\ Evict(b).settled = b.settled
        /\ Evict(b).sessions = b.sessions /\ Evict(b).pending = b.pending
    BY <1>1, <1>2 DEF Buffer
  <2>4. Evict(b) = [b EXCEPT !.net = net, !.bytes = Kept(net)] BY <1>1, <1>2, <2>1, <2>2 DEF Buffer
  <2>5. Evict(b) \in Buffer BY <1>2, <1>5, <1>6, <2>4 DEF Buffer
  <2> QED BY <2>2, <2>3, <2>5
<1>8. SameEntries(b.net, Evict(b).net) BY <1>2, <1>4, <1>5, <1>7 DEF SameEntries, WaitsAt
<1>9. Balanced(Evict(b))
  <2>1. \A i \in 1..n : net[i].state = "not-finished" => net[i].size = 0
    BY <1>2, <1>4 DEF Balanced, WaitsAt
  <2> QED BY <1>2, <1>5, <1>7, <2>1 DEF Balanced, WaitsAt
<1> QED BY <1>6, <1>7, <1>8, <1>9

\* A body that comes back: the books hold, and of the entries of that id only those
\* that a newer one follows may wait on.
LEMMA StoreBalances ==
    ASSUME Limits, NEW b, Balanced(b), b.bytes <= Budget, NEW rid, NEW answer \in 0..MaxBody
    PROVE  LET c == StoreBody(b, rid, answer) IN
           /\ Balanced(c) /\ c.bytes <= Budget /\ SameEntries(b.net, c.net)
           /\ \A i \in DOMAIN b.net :
                 b.net[i].req.rid = rid /\ WaitsAt(c.net, i)
                   => \E j \in DOMAIN b.net : j > i /\ b.net[j].req.rid = rid
<1> DEFINE i == Target(b, rid)
           s == Settled(answer)
           m == [b EXCEPT !.net[i].state = s.state, !.net[i].size = s.size, !.bytes = @ + s.size]
           c == StoreBody(b, rid, answer)
<1>1. /\ b \in Buffer /\ b.net \in Seq(Entry) /\ DOMAIN b.net = 1..Len(b.net) /\ Len(b.net) \in Nat
      /\ b.bytes = Kept(b.net) /\ b.bytes \in Nat
  BY DEF Balanced, Buffer
<1>2. /\ i = 0 \/ i \in DOMAIN b.net
      /\ i # 0 => WaitsAt(b.net, i) /\ b.net[i].req.rid = rid
      /\ \A j \in DOMAIN b.net : b.net[j].req.rid = rid /\ WaitsAt(b.net, j) => j <= i
  BY <1>1, TargetIsNewest
<1>3. c = IF i = 0 THEN b ELSE Evict(m) BY DEF StoreBody
<1>4. s.state \in {"no-body", "partial", "available"} /\ s.size \in 0..ItemMax /\ s.size \in Nat
  BY DEF Settled, Limits
<1> HIDE DEF i, s
<1>5. CASE i = 0
  <2>1. SameEntries(b.net, b.net) BY DEF SameEntries
  <2>2. \A j \in DOMAIN b.net : b.net[j].req.rid = rid => ~WaitsAt(b.net, j) BY <1>1, <1>2, <1>5
  <2> QED BY <1>3, <1>5, <2>1, <2>2
<1>6. CASE i # 0
  <2>1. i \in DOMAIN b.net /\ b.net[i] \in Entry /\ b.net[i].size = 0
    BY <1>1, <1>2, <1>6 DEF Balanced
  <2> DEFINE e == EntryWith(b.net[i], s.state, s.size)
  <2>2. /\ e \in Entry /\ e.req = b.net[i].req /\ e.text = b.net[i].text
        /\ e.state = s.state /\ e.size = s.size
    <3>1. s.state \in Reasons \cup {"available", "partial", "evicted"} BY <1>4 DEF Reasons
    <3> QED BY <1>4, <2>1, <3>1, EntryUpdate
  <2>3. m.net = [b.net EXCEPT ![i] = e] /\ m.bytes = b.bytes + s.size
        /\ m.dropped = b.dropped /\ m.settled = b.settled
        /\ m.sessions = b.sessions /\ m.pending = b.pending
    BY <1>1, <2>1 DEF Buffer, EntryWith
  <2>4. m = Rebooked(b, m.net, b.bytes + s.size) BY <1>1, <2>3 DEF Buffer, Rebooked
  <2> HIDE DEF e, m
  <2>5. /\ m.net \in Seq(Entry) /\ Len(m.net) = Len(b.net) /\ DOMAIN m.net = DOMAIN b.net
        /\ m.net[i] = e /\ \A j \in (DOMAIN b.net) \ {i} : m.net[j] = b.net[j]
    BY <1>1, <2>1, <2>2, <2>3
  <2>6. Kept(m.net) = Kept(b.net) + s.size BY <1>1, <2>1, <2>2, <2>5, KeptUpdate
  <2>7. m \in Buffer
    <3>1. b.bytes + s.size \in Nat BY <1>1, <1>4
    <3>2. Rebooked(b, m.net, b.bytes + s.size) \in Buffer BY <1>1, <2>5, <3>1, BufferUpdate
    <3> QED BY <2>4, <3>2
  <2>8. SameEntries(b.net, m.net) /\ ~WaitsAt(m.net, i)
    BY <1>1, <1>2, <1>4, <1>6, <2>2, <2>5 DEF SameEntries, WaitsAt
  <2>9. \A j \in DOMAIN m.net : WaitsAt(m.net, j) => m.net[j].size = 0
    BY <2>5, <2>8 DEF Balanced, WaitsAt, SameEntries
  <2>10. Balanced(m) BY <1>1, <2>3, <2>5, <2>6, <2>7, <2>9 DEF Balanced
  <2>11. Balanced(c) /\ c.bytes <= Budget /\ SameEntries(m.net, c.net)
    BY <1>3, <1>6, <2>10, EvictBalances
  <2> HIDE DEF c
  <2>12. SameEntries(b.net, c.net) BY <2>8, <2>11, SameEntriesOnward
  <2>13. ASSUME NEW j \in DOMAIN b.net, b.net[j].req.rid = rid, WaitsAt(c.net, j)
         PROVE  \E l \in DOMAIN b.net : l > j /\ b.net[l].req.rid = rid
    <3>1. WaitsAt(m.net, j) /\ WaitsAt(b.net, j) BY <2>8, <2>11, <2>13 DEF SameEntries
    <3>2. j # i /\ j <= i BY <1>2, <2>8, <2>13, <3>1
    <3>3. i > j /\ i \in DOMAIN b.net BY <1>1, <2>1, <3>2
    <3> QED BY <1>2, <1>6, <3>3
  <2> QED BY <2>11, <2>12, <2>13 DEF c
<1> QED BY <1>5, <1>6

\* An entry that is settled goes to the end, and the first may go.
LEMMA SettleBalances ==
    ASSUME Limits, NEW b, Balanced(b), b.bytes <= Budget, NEW e \in Entry, e.size = 0
    PROVE  /\ Balanced(Settle(b, e)) /\ Settle(b, e).bytes <= Budget
           /\ Len(b.net) \in Nat /\ Shed(b) \in {0, 1} /\ Shed(b) <= Len(b.net)
           /\ Len(Settle(b, e).net) = Len(b.net) - Shed(b) + 1
           /\ \A i \in 1..(Len(b.net) - Shed(b)) : Settle(b, e).net[i] = b.net[i + Shed(b)]
           /\ Settle(b, e).net[Len(b.net) - Shed(b) + 1] = e
<1> DEFINE c == Settle(b, e)
           full == Len(b.net) >= RingCap
           rest == IF full THEN Tail(b.net) ELSE b.net
           bytes == IF full THEN b.bytes - b.net[1].size ELSE b.bytes
           dropped == IF full THEN b.dropped + 1 ELSE b.dropped
           d == Shed(b)
<1>1. /\ b \in Buffer /\ b.net \in Seq(Entry) /\ DOMAIN b.net = 1..Len(b.net) /\ Len(b.net) \in Nat
      /\ b.bytes = Kept(b.net) /\ b.bytes \in Nat /\ b.dropped \in Nat /\ b.settled \in Nat
      /\ b.dropped + Len(b.net) = b.settled
  BY DEF Balanced, Buffer
<1>2. c = Resettled(b, Append(rest, e), bytes, dropped, b.settled + 1)
  BY <1>1 DEF Settle, Leaving, Buffer, Resettled
<1>3. full => b.net # <<>> BY <1>1 DEF Limits
<1>4. /\ rest \in Seq(Entry) /\ Len(rest) = Len(b.net) - d /\ d <= Len(b.net)
      /\ \A i \in 1..(Len(b.net) - d) : rest[i] = b.net[i + d]
  <2>1. CASE full BY <1>1, <1>3, <2>1 DEF Shed
  <2>2. CASE ~full BY <1>1, <2>2 DEF Shed
  <2> QED BY <2>1, <2>2
<1>5. bytes = Kept(rest) /\ bytes \in Nat /\ bytes <= b.bytes
  <2>1. CASE full
    <3>1. Kept(Tail(b.net)) = Kept(b.net) - b.net[1].size /\ b.net[1].size \in 0..Kept(b.net)
      BY <1>1, <1>3, <2>1, KeptTail
    <3>2. Kept(b.net) \in Nat BY <1>1
    <3> QED BY <1>1, <2>1, <3>1, <3>2
  <2>2. CASE ~full BY <1>1, <2>2
  <2> QED BY <2>1, <2>2
<1>6. dropped \in Nat /\ dropped = b.dropped + d BY <1>1 DEF Shed
<1>7. d \in {0, 1} BY DEF Shed
<1> HIDE DEF rest, bytes, dropped, d
<1>8. /\ c.net = Append(rest, e) /\ c.bytes = bytes /\ c.dropped = dropped
      /\ c.settled = b.settled + 1
  BY <1>1, <1>2 DEF Buffer, Resettled
<1>9. Append(rest, e) \in Seq(Entry) /\ Kept(Append(rest, e)) = Kept(rest) BY <1>4, KeptAppend
<1>10. c \in Buffer
  <2>1. b.settled + 1 \in Nat BY <1>1
  <2> HIDE DEF c
  <2> QED BY <1>1, <1>2, <1>5, <1>6, <1>9, <2>1, BufferSettled
<1> HIDE DEF c
<1>11. /\ Len(c.net) = Len(rest) + 1 /\ DOMAIN c.net = 1..(Len(rest) + 1)
       /\ c.net[Len(rest) + 1] = e
       /\ \A i \in 1..Len(rest) : c.net[i] = rest[i]
  BY <1>4, <1>8
<1>12. Len(c.net) = Len(b.net) - d + 1 /\ \A i \in 1..(Len(b.net) - d) : c.net[i] = b.net[i + d]
  BY <1>1, <1>4, <1>7, <1>11
<1>13. ASSUME NEW i \in DOMAIN c.net, WaitsAt(c.net, i) PROVE c.net[i].size = 0
  <2>1. CASE i = Len(rest) + 1 BY <1>11, <2>1
  <2>2. CASE i # Len(rest) + 1
    <3>1. i \in 1..(Len(b.net) - d) BY <1>1, <1>4, <1>7, <1>11, <2>2
    <3>2. i + d \in DOMAIN b.net BY <1>1, <1>7, <3>1
    <3>3. WaitsAt(b.net, i + d) BY <1>12, <1>13, <3>1 DEF WaitsAt
    <3> QED BY <1>12, <3>1, <3>2, <3>3 DEF Balanced
  <2> QED BY <2>1, <2>2
<1>14. c.dropped + Len(c.net) = c.settled BY <1>1, <1>6, <1>7, <1>8, <1>12
<1>15. c.bytes <= Budget BY <1>1, <1>5, <1>8 DEF Limits
<1>16. Balanced(c) BY <1>5, <1>8, <1>9, <1>10, <1>13, <1>14 DEF Balanced
<1>17. Len(rest) + 1 = Len(b.net) - d + 1 BY <1>4
<1> QED BY <1>1, <1>4, <1>7, <1>11, <1>12, <1>15, <1>16, <1>17 DEF c, d

-----------------------------------------------------------------------------
(* The entries that wait.                                                   *)

\* An entry of a text that waits, and that no newer one of its id follows, has a task
\* under way.
HangsOnly(net, busy) ==
    \A i \in DOMAIN net :
        /\ net[i].text = TRUE /\ WaitsAt(net, i)
        /\ \A j \in DOMAIN net : j > i => net[j].req.rid # net[i].req.rid
        => net[i].req \in busy

\* The entries are of requests that are done, each of its own.
Own(net, mine) ==
    /\ \A i \in DOMAIN net : net[i].req \in mine
    /\ \A i, j \in DOMAIN net : net[i].req = net[j].req => i = j

\* Settling and evicting leave nobody waiting who did not wait.
LEMMA SameEntriesHang ==
    ASSUME NEW net, NEW new, SameEntries(net, new), NEW busy, NEW mine,
           HangsOnly(net, busy), Own(net, mine)
    PROVE  HangsOnly(new, busy) /\ Own(new, mine)
<1>1. /\ DOMAIN new = DOMAIN net
      /\ \A i \in DOMAIN net : new[i].req = net[i].req /\ new[i].text = net[i].text
      /\ \A i \in DOMAIN net : WaitsAt(new, i) => WaitsAt(net, i)
  BY DEF SameEntries
<1>2. Own(new, mine) BY <1>1 DEF Own
<1>3. ASSUME NEW i \in DOMAIN new, new[i].text = TRUE, WaitsAt(new, i),
             \A j \in DOMAIN new : j > i => new[j].req.rid # new[i].req.rid
      PROVE  new[i].req \in busy
  <2>1. i \in DOMAIN net /\ net[i].text = TRUE /\ WaitsAt(net, i) BY <1>1, <1>3
  <2>2. \A j \in DOMAIN net : j > i => net[j].req.rid # net[i].req.rid BY <1>1, <1>3
  <2>3. net[i].req \in busy BY <2>1, <2>2 DEF HangsOnly
  <2> QED BY <1>1, <2>1, <2>3
<1>4. HangsOnly(new, busy) BY <1>3 DEF HangsOnly
<1> QED BY <1>2, <1>4

\* When a body of an id comes back, nobody of that id counts as being under way.
LEMMA StoreHangs ==
    ASSUME Limits, NEW b, Balanced(b), b.bytes <= Budget, NEW rid, NEW answer \in 0..MaxBody,
           NEW busy, NEW mine, HangsOnly(b.net, busy), Own(b.net, mine)
    PROVE  /\ HangsOnly(StoreBody(b, rid, answer).net, {q \in busy : q.rid # rid})
           /\ Own(StoreBody(b, rid, answer).net, mine)
<1> DEFINE c == StoreBody(b, rid, answer)
<1>1. /\ SameEntries(b.net, c.net)
      /\ \A i \in DOMAIN b.net : b.net[i].req.rid = rid /\ WaitsAt(c.net, i)
            => \E j \in DOMAIN b.net : j > i /\ b.net[j].req.rid = rid
  BY StoreBalances
<1> HIDE DEF c
<1>2. HangsOnly(c.net, busy) /\ Own(c.net, mine) BY <1>1, SameEntriesHang
<1>3. HangsOnly(c.net, {q \in busy : q.rid # rid}) BY <1>1, <1>2 DEF HangsOnly, SameEntries
<1> QED BY <1>2, <1>3 DEF c

\* An entry at the end of the ring waits with a task under way, or not at all; those
\* before it that it follows no longer count.
LEMMA SettleHangs ==
    ASSUME Limits, NEW b, Balanced(b), b.bytes <= Budget, NEW e \in Entry, e.size = 0,
           NEW busy, NEW mine, NEW more, HangsOnly(b.net, busy), Own(b.net, mine),
           e.req \notin mine, busy \subseteq more,
           e.text = TRUE /\ e.state = "not-finished" => e.req \in more
    PROVE  HangsOnly(Settle(b, e).net, more) /\ Own(Settle(b, e).net, mine \cup {e.req})
<1> DEFINE c == Settle(b, e)
           d == Shed(b)
           n == Len(b.net) - d
<1>1. /\ Balanced(c) /\ Len(b.net) \in Nat /\ d \in {0, 1} /\ d <= Len(b.net) /\ Len(c.net) = n + 1
      /\ \A i \in 1..n : c.net[i] = b.net[i + d]
      /\ c.net[n + 1] = e
  BY SettleBalances
<1> HIDE DEF c, d
<1>2. n \in Nat BY <1>1
<1>3. DOMAIN b.net = 1..Len(b.net) /\ DOMAIN c.net = 1..(n + 1)
  <2>1. b.net \in Seq(Entry) /\ c.net \in Seq(Entry) BY <1>1 DEF Balanced, Buffer
  <2> QED BY <1>1, <2>1
<1>4. \A i \in 1..n : i + d \in DOMAIN b.net
  <2>1. \A i \in 1..n : i + d \in 1..Len(b.net) BY <1>1
  <2> QED BY <1>3, <2>1
<1>5. \A i \in DOMAIN c.net : i \in 1..n \/ i = n + 1
  <2> HIDE DEF n
  <2>1. \A i \in 1..(n + 1) : i \in 1..n \/ i = n + 1 BY <1>2
  <2> QED BY <1>3, <2>1
<1> HIDE DEF n
<1>6. Own(c.net, mine \cup {e.req})
  <2>1. \A i \in DOMAIN c.net : c.net[i].req \in mine \cup {e.req} BY <1>1, <1>4, <1>5 DEF Own
  <2>2. ASSUME NEW i \in DOMAIN c.net, NEW j \in DOMAIN c.net, c.net[i].req = c.net[j].req
        PROVE  i = j
    <3>1. CASE i \in 1..n /\ j \in 1..n
      <4>1. i + d = j + d BY <1>1, <1>4, <2>2, <3>1 DEF Own
      <4>2. d \in {0, 1} /\ i \in Nat /\ j \in Nat BY <1>1, <1>2, <3>1
      <4> QED BY <4>1, <4>2
    <3>2. CASE i = n + 1 \/ j = n + 1 BY <1>1, <1>4, <1>5, <2>2, <3>2 DEF Own
    <3> QED BY <1>5, <3>1, <3>2
  <2> QED BY <2>1, <2>2 DEF Own
<1>7. HangsOnly(c.net, more)
  <2> SUFFICES ASSUME NEW i \in DOMAIN c.net, c.net[i].text = TRUE, WaitsAt(c.net, i),
                      \A j \in DOMAIN c.net : j > i => c.net[j].req.rid # c.net[i].req.rid
               PROVE  c.net[i].req \in more
    BY DEF HangsOnly
  <2>1. CASE i = n + 1 BY <1>1, <2>1 DEF WaitsAt
  <2>2. CASE i \in 1..n
    <3>1. i + d \in DOMAIN b.net /\ c.net[i] = b.net[i + d] BY <1>1, <1>4, <2>2
    <3>2. ASSUME NEW j \in DOMAIN b.net, j > i + d
          PROVE  b.net[j].req.rid # b.net[i + d].req.rid
      <4>1. j - d \in 1..n /\ j - d > i /\ (j - d) + d = j
        BY <1>1, <1>2, <1>3, <2>2, <3>2 DEF n
      <4>2. j - d \in DOMAIN c.net
        <5>1. \A l \in 1..n : l \in 1..(n + 1) BY <1>2
        <5> QED BY <1>3, <4>1, <5>1
      <4> QED BY <1>1, <3>1, <4>1, <4>2
    <3>3. WaitsAt(b.net, i + d) BY <3>1 DEF WaitsAt
    <3>4. b.net[i + d].req \in busy BY <3>1, <3>2, <3>3 DEF HangsOnly
    <3> QED BY <3>1, <3>4
  <2> QED BY <1>5, <2>1, <2>2
<1> QED BY <1>6, <1>7 DEF c

-----------------------------------------------------------------------------
(* The buffers and the tasks of a behaviour.                                *)

DiagnosticsAssumption ==
    /\ Limits
    /\ None \notin Watchers
    /\ \A q \in Requests : q.sid \in Sessions

SessionTypes ==
    session \in [Sessions -> [w : Watchers \cup {None}, life : {"new", "attached", "gone"}]]

FetchTypes == fetch \in [Requests -> [pc : {"none", "queued", "fetch", "done"}, linked : BOOLEAN]]

\* A session that has not been attached is on nobody's connection.
NewIsNobodys == \A s \in Sessions : session[s].life = "new" => session[s].w = None

DoneOf(w) == {q \in Requests : Of(q) = w /\ wire[q] = "done"}
Busy == {q \in Requests : fetch[q].pc \in {"queued", "fetch"}}

Sound(b, mine, busy) ==
    Balanced(b) /\ b.bytes <= Budget /\ Own(b.net, mine) /\ HangsOnly(b.net, busy)

BuffersAreSound == \A w \in Watchers : Sound(buf[w], DoneOf(w), Busy)

BodyInv ==
    /\ SessionTypes /\ FetchTypes /\ NewIsNobodys
    /\ wire \in [Requests -> {"none", "sent", "done"}]
    /\ DOMAIN buf = Watchers
    /\ BuffersAreSound

\* Other requests may be done and other tasks may end.
LEMMA SoundStays ==
    ASSUME NEW b, NEW mine, NEW busy, Sound(b, mine, busy), NEW more, NEW left,
           mine \subseteq more, busy \cap mine \subseteq left
    PROVE  Sound(b, more, left)
<1>1. Own(b.net, more)
  <2> DEFINE net == b.net
  <2>1. Own(net, mine) BY DEF Sound
  <2> HIDE DEF net
  <2>2. Own(net, more) BY <2>1 DEF Own
  <2> QED BY <2>2 DEF net
<1>2. HangsOnly(b.net, left)
  <2> DEFINE net == b.net
  <2>1. Own(net, mine) /\ HangsOnly(net, busy) BY DEF Sound
  <2> HIDE DEF net
  <2>2. \A i \in DOMAIN net : net[i].req \in mine BY <2>1 DEF Own
  <2>3. HangsOnly(net, left) BY <2>1, <2>2 DEF HangsOnly
  <2> QED BY <2>3 DEF net
<1> QED BY <1>1, <1>2 DEF Sound

\* The sessions and the requests under way of a buffer play no part.
LEMMA SoundAnyway ==
    ASSUME NEW b, NEW mine, NEW busy, Sound(b, mine, busy),
           NEW here \in SUBSET Sessions, NEW under \in SUBSET Requests
    PROVE  Sound([b EXCEPT !.sessions = here, !.pending = under], mine, busy)
<1> DEFINE c == [b EXCEPT !.sessions = here, !.pending = under]
<1>1. b \in Buffer BY DEF Sound, Balanced
<1>2. /\ c \in Buffer /\ c.net = b.net /\ c.bytes = b.bytes /\ c.dropped = b.dropped
      /\ c.settled = b.settled
  BY <1>1 DEF Buffer
<1> HIDE DEF c
<1>3. Balanced(c) BY <1>2 DEF Balanced, Sound
<1>4. Sound(c, mine, busy) BY <1>2, <1>3 DEF Sound
<1> QED BY <1>4 DEF c

\* A request ends.
LEMMA EndsSoundly ==
    ASSUME Limits, NEW b, NEW mine, NEW busy, Sound(b, mine, busy),
           NEW q \in Requests, q \notin mine,
           NEW text \in BOOLEAN, NEW state \in {"not-finished", "mime"},
           NEW more, busy \subseteq more,
           text = TRUE /\ state = "not-finished" => q \in more
    PROVE  Sound(Ends(b, q, text, state), mine \cup {q}, more)
<1> DEFINE c == [b EXCEPT !.pending = @ \ {q}]
           e == [req |-> q, text |-> text, state |-> state, size |-> 0]
<1>1. b \in Buffer BY DEF Sound, Balanced
<1>2. c = [b EXCEPT !.sessions = b.sessions, !.pending = b.pending \ {q}] BY <1>1 DEF Buffer
<1>3. b.sessions \in SUBSET Sessions /\ b.pending \ {q} \in SUBSET Requests BY <1>1 DEF Buffer
<1>4. Sound(c, mine, busy)
  <2> HIDE DEF c
  <2> QED BY <1>2, <1>3, SoundAnyway
<1>5. e \in Entry /\ e.size = 0 /\ e.req = q /\ e.text = text /\ e.state = state
  <2>1. state \in {"available", "partial", "evicted"} \cup Reasons BY DEF Reasons
  <2>2. 0 \in 0..ItemMax BY DEF Limits
  <2> QED BY <2>1, <2>2 DEF Entry
<1>6. Ends(b, q, text, state) = Settle(c, e) BY DEF Ends
<1> HIDE DEF c, e
<1>7. Balanced(c) /\ c.bytes <= Budget /\ Own(c.net, mine) /\ HangsOnly(c.net, busy)
  BY <1>4 DEF Sound
<1>8. Balanced(Settle(c, e)) /\ Settle(c, e).bytes <= Budget BY <1>5, <1>7, SettleBalances
<1>9. HangsOnly(Settle(c, e).net, more) /\ Own(Settle(c, e).net, mine \cup {q})
  BY <1>5, <1>7, SettleHangs
<1> QED BY <1>6, <1>8, <1>9 DEF Sound

\* A body comes back: who had that id and is under way no longer counts.
LEMMA StoresSoundly ==
    ASSUME Limits, NEW b, NEW mine, NEW busy, Sound(b, mine, busy), NEW q,
           NEW answer \in 0..MaxBody, NEW left, busy \ {q} \subseteq left
    PROVE  Sound(StoreBody(b, q.rid, answer), mine, left)
<1> DEFINE c == StoreBody(b, q.rid, answer)
<1>1. Balanced(c) /\ c.bytes <= Budget BY StoreBalances DEF Sound
<1>2. HangsOnly(c.net, {p \in busy : p.rid # q.rid}) /\ Own(c.net, mine) BY StoreHangs DEF Sound
<1>3. {p \in busy : p.rid # q.rid} \subseteq busy \ {q} OBVIOUS
<1> HIDE DEF c
<1>4. Sound(c, mine, {p \in busy : p.rid # q.rid}) BY <1>1, <1>2 DEF Sound
<1>5. {p \in busy : p.rid # q.rid} \cap mine \subseteq left BY <1>3
<1>6. Sound(c, mine, left) BY <1>4, <1>5, SoundStays
<1> QED BY <1>6 DEF c

LEMMA InitBodies == DiagnosticsAssumption /\ Init => BodyInv
<1> SUFFICES ASSUME DiagnosticsAssumption, Init PROVE BodyInv OBVIOUS
<1>1. /\ session = [s \in Sessions |-> [w |-> None, life |-> "new"]]
      /\ wire = [q \in Requests |-> "none"]
      /\ fetch = [q \in Requests |-> [pc |-> "none", linked |-> FALSE]]
      /\ buf = [w \in Watchers |-> Empty]
  BY DEF Init
<1>2. SessionTypes /\ FetchTypes /\ NewIsNobodys BY <1>1 DEF SessionTypes, FetchTypes, NewIsNobodys
<1>3. wire \in [Requests -> {"none", "sent", "done"}] /\ DOMAIN buf = Watchers BY <1>1
<1>4. ASSUME NEW mine, NEW busy PROVE Sound(Empty, mine, busy)
  <2>1. Empty \in Buffer /\ Empty.net = <<>> /\ Empty.bytes = 0 /\ Empty.dropped = 0
        /\ Empty.settled = 0
    BY DEF Empty, Buffer
  <2>2. Kept(<<>>) = 0
    <3>1. Bytes(<<>>) = {} BY DEF Bytes
    <3> QED BY <3>1, FS_EmptySet DEF Kept, Bytes
  <2>3. DOMAIN <<>> = {} /\ Len(<<>>) = 0 OBVIOUS
  <2>4. 0 <= Budget BY DEF DiagnosticsAssumption, Limits
  <2>5. Balanced(Empty)
    <3>1. Empty.bytes = Kept(Empty.net) /\ Empty.dropped + Len(Empty.net) = Empty.settled
      BY <2>1, <2>2, <2>3
    <3>2. DOMAIN Empty.net = {} BY <2>1, <2>3
    <3> QED BY <2>1, <3>1, <3>2 DEF Balanced
  <2>6. Own(Empty.net, mine) /\ HangsOnly(Empty.net, busy) BY <2>1, <2>3 DEF Own, HangsOnly
  <2> QED BY <2>1, <2>4, <2>5, <2>6 DEF Sound
<1>5. BuffersAreSound BY <1>1, <1>4 DEF BuffersAreSound
<1> QED BY <1>2, <1>3, <1>5 DEF BodyInv

\* Steps of the watchers.
LEMMA AsideKeepsBodies ==
    ASSUME BodyInv, UNCHANGED <<buf, session, wire, fetch>> PROVE BodyInv'
<1>2. \A w \in Watchers : Sound(buf'[w], DoneOf(w)', Busy')
  <2> TAKE w \in Watchers
  <2>1. DoneOf(w)' = DoneOf(w) /\ Busy' = Busy BY DEF DoneOf, Busy, Of
  <2> QED BY <2>1 DEF BodyInv, BuffersAreSound
<1> QED BY <1>2 DEF BodyInv, BuffersAreSound, SessionTypes, FetchTypes, NewIsNobodys

\* One buffer changes, or none: it is sound, and the others stay so.
LEMMA OneBufferChanges ==
    ASSUME BodyInv, NEW w \in Watchers, NEW b, buf' = [buf EXCEPT ![w] = b],
           SessionTypes', FetchTypes', NewIsNobodys',
           wire' \in [Requests -> {"none", "sent", "done"}],
           Sound(b, DoneOf(w)', Busy'),
           \A v \in Watchers \ {w} :
              DoneOf(v) \subseteq DoneOf(v)' /\ Busy \cap DoneOf(v) \subseteq Busy'
    PROVE  BodyInv'
<1>1. DOMAIN buf' = Watchers /\ buf'[w] = b /\ \A v \in Watchers \ {w} : buf'[v] = buf[v]
  BY DEF BodyInv
<1>2. \A v \in Watchers : Sound(buf'[v], DoneOf(v)', Busy')
  <2> TAKE v \in Watchers
  <2>1. CASE v = w BY <1>1, <2>1
  <2>2. CASE v # w
    <3>1. Sound(buf[v], DoneOf(v), Busy) BY DEF BodyInv, BuffersAreSound
    <3>2. Sound(buf[v], DoneOf(v)', Busy') BY <2>2, <3>1, SoundStays
    <3> QED BY <1>1, <2>2, <3>2
  <2> QED BY <2>1, <2>2
<1> QED BY <1>1, <1>2 DEF BodyInv, BuffersAreSound

LEMMA AttachedKeepsBodies ==
    ASSUME DiagnosticsAssumption, BodyInv, NEW w \in Watchers, NEW s \in Sessions, Attached(w, s)
    PROVE  BodyInv'
<1>1. /\ session[s].life = "new" /\ UNCHANGED <<wire, fetch>>
      /\ session' = [session EXCEPT ![s] = [w |-> w, life |-> "attached"]]
      /\ buf' = [buf EXCEPT ![w].sessions = @ \cup {s}]
  BY DEF Attached
<1>2. SessionTypes' BY <1>1 DEF BodyInv, SessionTypes
<1>3. NewIsNobodys' /\ FetchTypes' BY <1>1 DEF BodyInv, SessionTypes, NewIsNobodys, FetchTypes
<1>4. Busy' = Busy BY <1>1 DEF Busy
<1>5. session[s].w = None BY <1>1 DEF BodyInv, NewIsNobodys
<1>6. ASSUME NEW v \in Watchers PROVE DoneOf(v) \subseteq DoneOf(v)'
  <2> SUFFICES ASSUME NEW q \in Requests, Of(q) = v, wire[q] = "done" PROVE q \in DoneOf(v)'
    BY DEF DoneOf
  <2>1. q.sid \in Sessions BY DEF DiagnosticsAssumption
  <2>2. q.sid # s BY <1>5 DEF DiagnosticsAssumption, Of
  <2>3. session'[q.sid] = session[q.sid] BY <1>1, <2>1, <2>2 DEF BodyInv, SessionTypes
  <2> QED BY <1>1, <2>3 DEF DoneOf, Of
<1>7. Sound(buf[w], DoneOf(w), Busy) BY DEF BodyInv, BuffersAreSound
<1> DEFINE b == [buf[w] EXCEPT !.sessions = buf[w].sessions \cup {s}, !.pending = buf[w].pending]
<1>8. buf[w] \in Buffer BY <1>7 DEF Sound, Balanced
<1>9. buf' = [buf EXCEPT ![w] = b]
  <2>1. b = [buf[w] EXCEPT !.sessions = @ \cup {s}] BY <1>8 DEF Buffer
  <2> QED BY <1>1, <2>1 DEF BodyInv
<1>10. Sound(b, DoneOf(w)', Busy')
  <2>1. buf[w].sessions \cup {s} \in SUBSET Sessions /\ buf[w].pending \in SUBSET Requests
    BY <1>8 DEF Buffer
  <2>2. Sound(b, DoneOf(w), Busy) BY <1>7, <2>1, SoundAnyway
  <2> HIDE DEF b
  <2> QED BY <1>4, <1>6, <2>2, SoundStays
<1> HIDE DEF b
<1>11. wire' \in [Requests -> {"none", "sent", "done"}] BY <1>1 DEF BodyInv
<1> QED BY <1>2, <1>3, <1>4, <1>6, <1>9, <1>10, <1>11, OneBufferChanges

LEMMA DetachedKeepsBodies ==
    ASSUME DiagnosticsAssumption, BodyInv, NEW w \in Watchers, NEW s \in Sessions, Detached(w, s)
    PROVE  BodyInv'
<1>1. /\ session[s] = [w |-> w, life |-> "attached"] /\ UNCHANGED <<wire, fetch>>
      /\ session' = [session EXCEPT ![s].life = "gone"]
      /\ buf' = [buf EXCEPT ![w].sessions = @ \ {s}, ![w].pending = {q \in @ : q.sid # s}]
  BY DEF Detached
<1>2. SessionTypes' BY <1>1 DEF BodyInv, SessionTypes
<1>3. NewIsNobodys' /\ FetchTypes' BY <1>1 DEF BodyInv, SessionTypes, NewIsNobodys, FetchTypes
<1>4. Busy' = Busy BY <1>1 DEF Busy
<1>5. \A t \in Sessions : session'[t].w = session[t].w BY <1>1 DEF BodyInv, SessionTypes
<1>6. \A v \in Watchers : DoneOf(v)' = DoneOf(v) BY <1>1, <1>5 DEF DoneOf, Of, DiagnosticsAssumption
<1>7. Sound(buf[w], DoneOf(w), Busy) BY DEF BodyInv, BuffersAreSound
<1> DEFINE here == buf[w].sessions \ {s}
           under == {q \in buf[w].pending : q.sid # s}
           b == [buf[w] EXCEPT !.sessions = here, !.pending = under]
<1>8. buf[w] \in Buffer BY <1>7 DEF Sound, Balanced
<1>9. buf' = [buf EXCEPT ![w] = b] BY <1>1 DEF BodyInv
<1>10. Sound(b, DoneOf(w)', Busy')
  <2>1. here \in SUBSET Sessions /\ under \in SUBSET Requests BY <1>8 DEF Buffer
  <2> HIDE DEF here, under
  <2>2. Sound(b, DoneOf(w), Busy) BY <1>7, <2>1, SoundAnyway
  <2> QED BY <1>4, <1>6, <2>2
<1> HIDE DEF b
<1>11. wire' \in [Requests -> {"none", "sent", "done"}] BY <1>1 DEF BodyInv
<1> QED BY <1>2, <1>3, <1>4, <1>6, <1>9, <1>10, <1>11, OneBufferChanges

LEMMA WillBeSentKeepsBodies ==
    ASSUME DiagnosticsAssumption, BodyInv, NEW q \in Requests, NEW w \in Watchers,
           Of(q) = w, WillBeSent(q)
    PROVE  BodyInv'
<1> DEFINE under == Taken(buf[w], q)
           b == [buf[w] EXCEPT !.sessions = buf[w].sessions, !.pending = under]
<1>1. /\ wire[q] \in {"none", "sent"} /\ wire' = [wire EXCEPT ![q] = "sent"]
      /\ buf' = [buf EXCEPT ![w].pending = under] /\ UNCHANGED <<session, fetch>>
  BY DEF WillBeSent
<1>2. /\ SessionTypes' /\ NewIsNobodys' /\ FetchTypes' /\ Busy' = Busy
      /\ wire' \in [Requests -> {"none", "sent", "done"}]
  BY <1>1 DEF BodyInv, SessionTypes, NewIsNobodys, FetchTypes, Busy
<1>3. \A v \in Watchers : DoneOf(v)' = DoneOf(v) BY <1>1 DEF DoneOf, Of, BodyInv
<1>4. Sound(buf[w], DoneOf(w), Busy) BY <1>1 DEF BodyInv, BuffersAreSound
<1>5. buf[w] \in Buffer BY <1>4 DEF Sound, Balanced
<1>6. under \in SUBSET Requests BY <1>5 DEF Taken, Buffer
<1> HIDE DEF under
<1>7. buf' = [buf EXCEPT ![w] = b]
  <2>1. b = [buf[w] EXCEPT !.pending = under] BY <1>5 DEF Buffer
  <2> QED BY <1>1, <2>1 DEF BodyInv
<1>8. Sound(b, DoneOf(w)', Busy')
  <2>1. buf[w].sessions \in SUBSET Sessions BY <1>5 DEF Buffer
  <2>2. Sound(b, DoneOf(w), Busy) BY <1>4, <1>6, <2>1, SoundAnyway
  <2> QED BY <1>1, <1>2, <1>3, <2>2
<1> HIDE DEF b
<1> QED BY <1>1, <1>2, <1>3, <1>7, <1>8, OneBufferChanges

\* Who is not done yet is done now: the requests of one watcher.
LEMMA DoneOfGrows ==
    ASSUME BodyInv, UNCHANGED session, NEW q \in Requests, wire[q] = "sent",
           wire' = [wire EXCEPT ![q] = "done"]
    PROVE  /\ \A v : DoneOf(v) \subseteq DoneOf(v)' /\ q \notin DoneOf(v)
           /\ \A v : DoneOf(v) \cup (IF Of(q) = v THEN {q} ELSE {}) = DoneOf(v)'
           /\ wire' \in [Requests -> {"none", "sent", "done"}]
<1>1. \A p \in Requests : Of(p)' = Of(p) /\ wire'[p] = IF p = q THEN "done" ELSE wire[p]
  BY DEF Of, BodyInv
<1> QED BY <1>1 DEF DoneOf, BodyInv

LEMMA FinishedKeepsBodies ==
    ASSUME DiagnosticsAssumption, BodyInv, NEW q \in Requests, NEW w \in Watchers, Of(q) = w,
           NEW text \in BOOLEAN, Finished(q, text)
    PROVE  BodyInv'
<1> DEFINE known == q \in buf[w].pending
           state == IF text THEN "not-finished" ELSE "mime"
           b == Ends(buf[w], q, text, state)
           over == Cardinality(Backlog(w)) >= BacklogCap
           new == IF ~known THEN buf[w] ELSE IF text /\ over THEN Overflowed(b, q) ELSE b
           task == [pc |-> "queued", linked |-> watcher[w].conn # "none"]
<1>1. /\ wire[q] = "sent" /\ wire' = [wire EXCEPT ![q] = "done"] /\ UNCHANGED session
      /\ buf' = [buf EXCEPT ![w] = new]
      /\ fetch' = IF known /\ text /\ ~over THEN [fetch EXCEPT ![q] = task] ELSE fetch
  BY DEF Finished, BodyInv
<1>2. SessionTypes' /\ NewIsNobodys' BY <1>1 DEF BodyInv, SessionTypes, NewIsNobodys
<1>3. /\ \A v : DoneOf(v) \subseteq DoneOf(v)' /\ q \notin DoneOf(v)
      /\ DoneOf(w) \cup {q} = DoneOf(w)'
      /\ wire' \in [Requests -> {"none", "sent", "done"}]
  BY <1>1, DoneOfGrows
<1>4. Sound(buf[w], DoneOf(w), Busy) BY DEF BodyInv, BuffersAreSound
<1>5. FetchTypes' /\ Busy' = IF known /\ text /\ ~over THEN Busy \cup {q} ELSE Busy
  <2>1. CASE known /\ text /\ ~over
    <3>1. fetch' = [fetch EXCEPT ![q] = task] BY <1>1, <2>1
    <3>2. /\ task.pc = "queued"
          /\ task \in [pc : {"none", "queued", "fetch", "done"}, linked : BOOLEAN]
      OBVIOUS
    <3> HIDE DEF task
    <3>3. FetchTypes' BY <3>1, <3>2 DEF BodyInv, FetchTypes
    <3>4. Busy' = Busy \cup {q} BY <3>1, <3>2 DEF Busy, BodyInv, FetchTypes
    <3> QED BY <2>1, <3>3, <3>4
  <2>2. CASE ~(known /\ text /\ ~over) BY <1>1, <2>2 DEF BodyInv, FetchTypes, Busy
  <2> QED BY <2>1, <2>2
<1>6. state \in {"not-finished", "mime"} /\ (text = TRUE /\ state = "not-finished" => text = TRUE)
  OBVIOUS
<1>7. Limits BY DEF DiagnosticsAssumption
<1> HIDE DEF known, over
<1>8. Sound(new, DoneOf(w)', Busy')
  <2>1. CASE ~known
    <3>1. new = buf[w] /\ Busy' = Busy BY <1>5, <2>1
    <3> HIDE DEF new
    <3> QED BY <1>3, <1>4, <3>1, SoundStays
  <2>2. CASE known /\ ~text
    <3>1. new = b /\ Busy' = Busy BY <1>5, <2>2
    <3>2. state = "mime" BY <2>2
    <3> HIDE DEF new, state
    <3>3. Sound(b, DoneOf(w) \cup {q}, Busy) BY <1>3, <1>4, <1>6, <1>7, <3>2, EndsSoundly
    <3> HIDE DEF b
    <3> QED BY <1>3, <3>1, <3>3
  <2>3. CASE known /\ text /\ ~over
    <3>1. new = b /\ Busy' = Busy \cup {q} BY <1>5, <2>3
    <3> HIDE DEF new, state
    <3>2. Sound(b, DoneOf(w) \cup {q}, Busy \cup {q}) BY <1>3, <1>4, <1>6, <1>7, EndsSoundly
    <3> HIDE DEF b
    <3> QED BY <1>3, <3>1, <3>2
  <2>4. CASE known /\ text /\ over
    <3>1. new = StoreBody(b, q.rid, 0) /\ Busy' = Busy BY <1>5, <2>4 DEF Overflowed
    <3> HIDE DEF new, state
    <3>2. Sound(b, DoneOf(w) \cup {q}, Busy \cup {q}) BY <1>3, <1>4, <1>6, <1>7, EndsSoundly
    <3> HIDE DEF b
    <3>3. 0 \in 0..MaxBody BY <1>7 DEF Limits
    <3>4. Sound(StoreBody(b, q.rid, 0), DoneOf(w) \cup {q}, Busy)
      BY <1>7, <3>2, <3>3, StoresSoundly
    <3> QED BY <1>3, <3>1, <3>4
  <2> QED BY <2>1, <2>2, <2>3, <2>4
<1>9. Busy \subseteq Busy' BY <1>5
<1> HIDE DEF new
<1> QED BY <1>1, <1>2, <1>3, <1>5, <1>8, <1>9, OneBufferChanges

LEMMA LoadingFailedKeepsBodies ==
    ASSUME DiagnosticsAssumption, BodyInv, NEW q \in Requests, NEW w \in Watchers,
           Of(q) = w, LoadingFailed(q)
    PROVE  BodyInv'
<1> DEFINE b == Ends(buf[w], q, FALSE, "not-finished")
           new == IF q \in buf[w].pending THEN b ELSE buf[w]
<1>1. /\ wire[q] = "sent" /\ wire' = [wire EXCEPT ![q] = "done"] /\ UNCHANGED <<session, fetch>>
      /\ buf' = [buf EXCEPT ![w] = new]
  BY DEF LoadingFailed, BodyInv
<1>2. SessionTypes' /\ NewIsNobodys' /\ FetchTypes' /\ Busy' = Busy
  BY <1>1 DEF BodyInv, SessionTypes, NewIsNobodys, FetchTypes, Busy
<1>3. /\ \A v : DoneOf(v) \subseteq DoneOf(v)' /\ q \notin DoneOf(v)
      /\ DoneOf(w) \cup {q} = DoneOf(w)'
      /\ wire' \in [Requests -> {"none", "sent", "done"}]
  BY <1>1, DoneOfGrows
<1>4. Sound(buf[w], DoneOf(w), Busy) BY DEF BodyInv, BuffersAreSound
<1>5. Sound(new, DoneOf(w)', Busy')
  <2>1. CASE q \notin buf[w].pending
    <3>1. new = buf[w] BY <2>1
    <3> HIDE DEF new
    <3> QED BY <1>2, <1>3, <1>4, <3>1, SoundStays
  <2>2. CASE q \in buf[w].pending
    <3>1. new = b BY <2>2
    <3> HIDE DEF new
    <3>2. Limits BY DEF DiagnosticsAssumption
    <3>3. Sound(b, DoneOf(w) \cup {q}, Busy) BY <1>3, <1>4, <3>2, EndsSoundly
    <3> QED BY <1>2, <1>3, <3>1, <3>3
  <2> QED BY <2>1, <2>2
<1> HIDE DEF new
<1> QED BY <1>1, <1>2, <1>3, <1>5, OneBufferChanges

\* Nobody of that id waits.
LEMMA NobodyWaits ==
    ASSUME NEW b, NEW mine, NEW busy, Sound(b, mine, busy), NEW q, Target(b, q.rid) = 0
    PROVE  Sound(b, mine, busy \ {q})
<1>1. /\ b \in Buffer /\ b.net \in Seq(Entry) /\ Balanced(b) /\ HangsOnly(b.net, busy)
  BY DEF Sound, Balanced, Buffer
<1>2. \A i \in DOMAIN b.net : b.net[i].req.rid = q.rid /\ WaitsAt(b.net, i) => i <= 0
  BY <1>1, TargetIsNewest
<1>3. \A i \in DOMAIN b.net : ~(i <= 0) BY <1>1
<1> DEFINE net == b.net
<1>4. \A i \in DOMAIN net : WaitsAt(net, i) => net[i].req # q BY <1>2, <1>3
<1> HIDE DEF net
<1>5. HangsOnly(net, busy) BY <1>1 DEF net
<1>6. HangsOnly(net, busy \ {q}) BY <1>4, <1>5 DEF HangsOnly
<1> QED BY <1>6 DEF net, Sound

LEMMA AcquireKeepsBodies ==
    ASSUME DiagnosticsAssumption, BodyInv, NEW q \in Requests, Acquire(q) PROVE BodyInv'
<1> DEFINE idle == Target(buf[Of(q)], q.rid) = 0
           pc == IF idle THEN "done" ELSE "fetch"
<1>1. /\ fetch[q].pc = "queued" /\ fetch' = [fetch EXCEPT ![q].pc = pc]
      /\ UNCHANGED <<buf, session, wire>>
  BY DEF Acquire
<1>2. pc \in {"done", "fetch"} OBVIOUS
<1> HIDE DEF idle, pc
<1>3. FetchTypes' BY <1>1, <1>2 DEF BodyInv, FetchTypes
<1>4. Busy' = IF idle THEN Busy \ {q} ELSE Busy
  <2>1. \A p \in Requests : fetch'[p].pc = IF p = q THEN pc ELSE fetch[p].pc
    BY <1>1 DEF BodyInv, FetchTypes
  <2>2. CASE idle
    <3>1. pc = "done" BY <2>2 DEF pc
    <3> QED BY <2>1, <2>2, <3>1 DEF Busy
  <2>3. CASE ~idle
    <3>1. pc = "fetch" BY <2>3 DEF pc
    <3> QED BY <1>1, <2>1, <2>3, <3>1 DEF Busy
  <2> QED BY <2>2, <2>3
<1>5. ASSUME NEW w \in Watchers PROVE Sound(buf'[w], DoneOf(w)', Busy')
  <2>1. Sound(buf[w], DoneOf(w), Busy) BY DEF BodyInv, BuffersAreSound
  <2>2. buf'[w] = buf[w] /\ DoneOf(w)' = DoneOf(w) BY <1>1 DEF DoneOf, Of
  <2>3. CASE ~idle BY <1>4, <2>1, <2>2, <2>3
  <2>4. CASE idle /\ Of(q) = w
    <3>1. Sound(buf[w], DoneOf(w), Busy \ {q}) BY <2>1, <2>4, NobodyWaits DEF idle
    <3> QED BY <1>4, <2>2, <2>4, <3>1
  <2>5. CASE idle /\ Of(q) # w
    <3>1. Busy \cap DoneOf(w) \subseteq Busy \ {q} BY <2>5 DEF DoneOf
    <3>2. Sound(buf[w], DoneOf(w), Busy \ {q}) BY <2>1, <3>1, SoundStays
    <3> QED BY <1>4, <2>2, <2>5, <3>2
  <2> QED BY <2>3, <2>4, <2>5
<1> QED BY <1>1, <1>3, <1>5 DEF BodyInv, BuffersAreSound, SessionTypes, NewIsNobodys

LEMMA FetchedKeepsBodies ==
    ASSUME DiagnosticsAssumption, BodyInv, NEW q \in Requests, Fetched(q) PROVE BodyInv'
<1>1. PICK answer \in (IF fetch[q].linked THEN 0..MaxBody ELSE {0}) :
        buf' = [buf EXCEPT ![Of(q)] = StoreBody(buf[Of(q)], q.rid, answer)]
  BY DEF Fetched, BodyInv
<1>2. /\ fetch[q].pc = "fetch" /\ fetch' = [fetch EXCEPT ![q].pc = "done"]
      /\ UNCHANGED <<session, wire>>
  BY DEF Fetched
<1>3. Limits BY DEF DiagnosticsAssumption
<1>4. answer \in 0..MaxBody
  <2>1. 0 \in 0..MaxBody BY <1>3 DEF Limits
  <2> QED BY <2>1
<1>5. FetchTypes' /\ Busy' = Busy \ {q}
  <2>1. FetchTypes' BY <1>2 DEF BodyInv, FetchTypes
  <2>2. Busy' = Busy \ {q} BY <1>2 DEF BodyInv, FetchTypes, Busy
  <2> QED BY <2>1, <2>2
<1>6. ASSUME NEW w \in Watchers PROVE Sound(buf'[w], DoneOf(w)', Busy')
  <2>1. Sound(buf[w], DoneOf(w), Busy) BY DEF BodyInv, BuffersAreSound
  <2>2. DoneOf(w)' = DoneOf(w) BY <1>2 DEF DoneOf, Of
  <2>3. CASE Of(q) = w
    <3>1. buf'[w] = StoreBody(buf[w], q.rid, answer) BY <1>1, <2>3 DEF BodyInv
    <3>2. Sound(StoreBody(buf[w], q.rid, answer), DoneOf(w), Busy \ {q})
      BY <1>3, <1>4, <2>1, StoresSoundly
    <3> QED BY <1>5, <2>2, <3>1, <3>2
  <2>4. CASE Of(q) # w
    <3>1. buf'[w] = buf[w] BY <1>1, <2>4 DEF BodyInv
    <3>2. Busy \cap DoneOf(w) \subseteq Busy \ {q} BY <2>4 DEF DoneOf
    <3>3. Sound(buf[w], DoneOf(w), Busy \ {q}) BY <2>1, <3>2, SoundStays
    <3> QED BY <1>5, <2>2, <3>1, <3>3
  <2> QED BY <2>3, <2>4
<1>7. DOMAIN buf' = Watchers BY <1>1 DEF BodyInv
<1> QED BY <1>2, <1>5, <1>6, <1>7 DEF BodyInv, BuffersAreSound, SessionTypes, NewIsNobodys

LEMMA LostKeepsBodies ==
    ASSUME DiagnosticsAssumption, BodyInv, NEW w \in Watchers, Lost(w) PROVE BodyInv'
<1>1. /\ session' = [s \in Sessions |-> IF session[s].w = w THEN [session[s] EXCEPT !.life = "gone"]
                                        ELSE session[s]]
      /\ UNCHANGED <<buf, wire, fetch>>
  BY DEF Lost
<1>2. \A s \in Sessions :
        /\ session'[s].w = session[s].w
        /\ session'[s] = session[s] \/ session'[s].life = "gone"
        /\ session'[s] \in [w : Watchers \cup {None}, life : {"new", "attached", "gone"}]
  BY <1>1 DEF BodyInv, SessionTypes
<1>3. SessionTypes' /\ NewIsNobodys'
  <2>1. SessionTypes' BY <1>1, <1>2 DEF SessionTypes
  <2>2. NewIsNobodys' BY <1>2 DEF BodyInv, NewIsNobodys
  <2> QED BY <2>1, <2>2
<1>4. ASSUME NEW v \in Watchers PROVE Sound(buf'[v], DoneOf(v)', Busy')
  <2>1. DoneOf(v)' = DoneOf(v) /\ Busy' = Busy
    BY <1>1, <1>2 DEF DoneOf, Busy, Of, DiagnosticsAssumption
  <2> QED BY <1>1, <2>1 DEF BodyInv, BuffersAreSound
<1> QED BY <1>1, <1>3, <1>4 DEF BodyInv, BuffersAreSound, FetchTypes

LEMMA StepKeepsBodies == DiagnosticsAssumption /\ BodyInv /\ [Next]_vars => BodyInv'
<1> SUFFICES ASSUME DiagnosticsAssumption, BodyInv, [Next]_vars PROVE BodyInv' OBVIOUS
<1>1. CASE UNCHANGED vars BY <1>1, AsideKeepsBodies DEF vars
<1>2. ASSUME NEW w \in Watchers,
             Spawn(w) \/ Look(w) \/ ConnectionDies(w) \/ Again(w) \/ Leave(w)
      PROVE  BodyInv'
  <2>1. UNCHANGED <<buf, session, wire, fetch>>
    BY <1>2 DEF Spawn, Look, ConnectionDies, Again, Leave
  <2> QED BY <2>1, AsideKeepsBodies
<1>3. ASSUME NEW w \in Watchers, Lost(w) PROVE BodyInv' BY <1>3, LostKeepsBodies
<1>4. CASE RowChanges
  <2>1. UNCHANGED <<buf, session, wire, fetch>> BY <1>4 DEF RowChanges
  <2> QED BY <2>1, AsideKeepsBodies
<1>5. ASSUME NEW w \in Watchers, NEW s \in Sessions, Attached(w, s) \/ Detached(w, s) PROVE BodyInv'
  BY <1>5, AttachedKeepsBodies, DetachedKeepsBodies
<1>6. ASSUME NEW q \in Requests, WillBeSent(q) \/ LoadingFailed(q) PROVE BodyInv'
  <2>1. Of(q) \in Watchers BY <1>6 DEF WillBeSent, LoadingFailed, Pumps
  <2> QED BY <1>6, <2>1, WillBeSentKeepsBodies, LoadingFailedKeepsBodies
<1>7. ASSUME NEW q \in Requests, NEW text \in BOOLEAN, Finished(q, text) PROVE BodyInv'
  <2>1. Of(q) \in Watchers BY <1>7 DEF Finished, Pumps
  <2> QED BY <1>7, <2>1, FinishedKeepsBodies
<1>8. ASSUME NEW q \in Requests, Acquire(q) \/ Fetched(q) PROVE BodyInv'
  BY <1>8, AcquireKeepsBodies, FetchedKeepsBodies
<1> QED BY <1>1, <1>2, <1>3, <1>4, <1>5, <1>6, <1>7, <1>8 DEF Next

LEMMA BodyInvImplies == DiagnosticsAssumption /\ BodyInv => BooksBalance /\ NobodyHangs
<1> SUFFICES ASSUME DiagnosticsAssumption, BodyInv PROVE BooksBalance /\ NobodyHangs OBVIOUS
<1>1. \A w \in Watchers : Sound(buf[w], DoneOf(w), Busy) BY DEF BodyInv, BuffersAreSound
<1>2. BooksBalance BY <1>1 DEF BooksBalance, Sound, Balanced
<1>3. ASSUME NEW q \in Requests, Waits(q), ~Twin(q) PROVE q \in Busy
  <2>1. Of(q) # None
    <3> SUFFICES ASSUME Of(q) = None PROVE FALSE OBVIOUS
    <3>1. Ring(q) = <<>> BY DEF Ring
    <3> QED BY <1>3, <3>1 DEF Waits, Range
  <2>2. Of(q) \in Watchers BY <2>1 DEF DiagnosticsAssumption, BodyInv, SessionTypes, Of
  <2> DEFINE net == buf[Of(q)].net
  <2>3. Ring(q) = net BY <2>1 DEF Ring
  <2>4. Own(net, DoneOf(Of(q))) /\ HangsOnly(net, Busy) BY <1>1, <2>2 DEF Sound
  <2>5. DOMAIN net = 1..Len(net) BY <1>1, <2>2 DEF Sound, Balanced, Buffer
  <2> HIDE DEF net
  <2>6. PICK i \in DOMAIN net : net[i].req = q /\ net[i].text /\ net[i].state = "not-finished"
    BY <1>3, <2>3 DEF Waits, Range
  <2>7. net[i].text = TRUE
    BY <2>6
  <2>8. ASSUME NEW j \in DOMAIN net, j > i PROVE net[j].req.rid # net[i].req.rid
    <3> SUFFICES ASSUME net[j].req.rid = q.rid PROVE FALSE BY <2>6
    <3>1. net[j].req = q BY <1>3, <2>3 DEF Twin, Range
    <3>2. j = i BY <2>4, <2>6, <3>1 DEF Own
    <3> QED BY <2>5, <2>8, <3>2
  <2> QED BY <2>4, <2>6, <2>7, <2>8 DEF HangsOnly, WaitsAt
<1>4. NobodyHangs BY <1>3 DEF NobodyHangs, Busy
<1> QED BY <1>2, <1>4

\* The ledger of every buffer is what its ring carries, within the budget, no entry
\* is lost unsaid, and no entry is left to wait for a body that nobody fetches
\* (diagnostics.rs; diagnostics_service.rs, dispatch_body_fetch).
THEOREM BooksAreKept == DiagnosticsAssumption => (Spec => [](BooksBalance /\ NobodyHangs))
<1> SUFFICES ASSUME DiagnosticsAssumption PROVE Spec => [](BooksBalance /\ NobodyHangs) OBVIOUS
<1>1. Init => BodyInv BY InitBodies
<1>2. BodyInv /\ [Next]_vars => BodyInv' BY StepKeepsBodies
<1>3. BodyInv => BooksBalance /\ NobodyHangs BY BodyInvImplies
<1> QED BY <1>1, <1>2, <1>3, PTL DEF Spec
=============================================================================
