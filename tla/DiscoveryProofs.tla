--------------------------- MODULE DiscoveryProofs ---------------------------
(***************************************************************************)
(* Proofs about Discovery for any servers, allocations, page size and      *)
(* number of attempts.                                                     *)
(***************************************************************************)
EXTENDS Discovery, FiniteSetTheorems, WellFoundedInduction, TLAPS

-----------------------------------------------------------------------------
\* Finite sets of numbers in their order.

\* The places in a finite set of n numbers are among 1 to n, and they grow with
\* the numbers.
LEMMA PlaceGrows ==
  ASSUME NEW S \in SUBSET Nat, IsFiniteSet(S)
  PROVE  /\ Cardinality(S) \in Nat
         /\ \A i \in S : Place(S, i) \in 1..Cardinality(S)
         /\ \A i, j \in S : i < j => Place(S, i) < Place(S, j)
         /\ \A i, j \in S : Place(S, i) = Place(S, j) => i = j
<1> DEFINE Upto(i) == {j \in S : j <= i}
<1>1. \A i \in S : /\ IsFiniteSet(Upto(i)) /\ Cardinality(Upto(i)) \in Nat
                   /\ Cardinality(Upto(i)) <= Cardinality(S)
  <2> SUFFICES ASSUME NEW i \in S
               PROVE  /\ IsFiniteSet(Upto(i)) /\ Cardinality(Upto(i)) \in Nat
                      /\ Cardinality(Upto(i)) <= Cardinality(S)
    OBVIOUS
  <2>1. Upto(i) \in SUBSET S
    OBVIOUS
  <2> HIDE DEF Upto
  <2> QED
    BY <2>1, FS_Subset, FS_CardinalityType, Zenon
<1>2. \A i \in S : Cardinality(Upto(i)) # 0
  <2> SUFFICES ASSUME NEW i \in S PROVE Cardinality(Upto(i)) # 0
    OBVIOUS
  <2>1. i \in Upto(i)
    OBVIOUS
  <2> HIDE DEF Upto
  <2> QED
    BY <1>1, <2>1, FS_EmptySet, Zenon
<1>3. Cardinality(S) \in Nat
  BY FS_CardinalityType
<1>4. ASSUME NEW i \in S, NEW j \in S, i < j
      PROVE  Cardinality(Upto(i)) < Cardinality(Upto(j))
  <2>1. i \in Nat /\ j \in Nat
    OBVIOUS
  <2>2. Upto(i) \in SUBSET Upto(j)
    <3>1. \A m \in S : m <= i => m <= j
      BY <1>4
    <3> QED
      BY <3>1, Zenon
  <2>3. j \in Upto(j) /\ j \notin Upto(i)
    BY <1>4, <2>1
  <2>4. Upto(i) # Upto(j)
    BY <2>3
  <2> HIDE DEF Upto
  <2>5. /\ Cardinality(Upto(i)) <= Cardinality(Upto(j))
        /\ Cardinality(Upto(j)) # Cardinality(Upto(i))
    BY <1>1, <2>2, <2>4, FS_Subset, Zenon
  <2> QED
    BY <1>1, <2>5
<1>5. \A i \in S : Place(S, i) = Cardinality(Upto(i))
  BY DEF Place
<1> HIDE DEF Upto
<1>6. \A i \in S : Place(S, i) \in 1..Cardinality(S)
  BY <1>1, <1>2, <1>3, <1>5
<1>7. \A i, j \in S : i < j => Place(S, i) < Place(S, j)
  BY <1>4, <1>5
<1>8. ASSUME NEW i \in S, NEW j \in S, Place(S, i) = Place(S, j)
      PROVE  i = j
  <2>1. i \in Nat /\ j \in Nat /\ Place(S, i) \in Nat
    BY <1>1, <1>5
  <2>2. ~(i < j) /\ ~(j < i)
    BY <1>7, <1>8, <2>1
  <2> QED
    BY <2>1, <2>2
<1> QED
  BY <1>3, <1>6, <1>7, <1>8, Zenon

\* Every place is taken.
LEMMA PlacesAreTaken ==
  ASSUME NEW S \in SUBSET Nat, IsFiniteSet(S)
  PROVE  \A k \in 1..Cardinality(S) : \E i \in S : Place(S, i) = k
<1> DEFINE f == [i \in S |-> Place(S, i)]
<1>1. Cardinality(S) \in Nat
  BY FS_CardinalityType
<1>2. IsFiniteSet(1..Cardinality(S)) /\ Cardinality(1..Cardinality(S)) = Cardinality(S)
  BY <1>1, FS_Interval
<1>3. f \in [S -> 1..Cardinality(S)]
  BY PlaceGrows
<1>4. \A i, j \in S : f[i] = f[j] => i = j
  BY PlaceGrows
<1>5. f \in Injection(S, 1..Cardinality(S))
  BY <1>3, <1>4, Zenon DEF Injection, IsInjective
<1>6. f \in Surjection(S, 1..Cardinality(S))
  BY <1>2, <1>5, FS_Injection
<1> QED
  BY <1>6, Zenon DEF Surjection

\* InOrder(S) lists the numbers of S, each at its place.
LEMMA OrderIsByPlace ==
  ASSUME NEW S \in SUBSET Nat, IsFiniteSet(S)
  PROVE  /\ InOrder(S) \in Seq(S) /\ Len(InOrder(S)) = Cardinality(S)
         /\ DOMAIN InOrder(S) = 1..Cardinality(S)
         /\ \A k \in 1..Cardinality(S) : InOrder(S)[k] \in S /\ Place(S, InOrder(S)[k]) = k
         /\ \A i \in S : Place(S, i) \in 1..Cardinality(S) /\ InOrder(S)[Place(S, i)] = i
<1>1. Cardinality(S) \in Nat
  BY FS_CardinalityType
<1>2. InOrder(S) = [k \in 1..Cardinality(S) |-> CHOOSE i \in S : Place(S, i) = k]
  BY Zenon DEF InOrder
<1>3. \A k \in 1..Cardinality(S) : InOrder(S)[k] \in S /\ Place(S, InOrder(S)[k]) = k
  BY <1>2, PlacesAreTaken, ZenonT(60)
<1>4. InOrder(S) \in [1..Cardinality(S) -> S]
  BY <1>2, <1>3, Zenon
<1>5. InOrder(S) \in Seq(S) /\ Len(InOrder(S)) = Cardinality(S)
  BY <1>1, <1>4
<1>6. \A i \in S : Place(S, i) \in 1..Cardinality(S) /\ InOrder(S)[Place(S, i)] = i
  <2> SUFFICES ASSUME NEW i \in S
               PROVE  Place(S, i) \in 1..Cardinality(S) /\ InOrder(S)[Place(S, i)] = i
    OBVIOUS
  <2>1. Place(S, i) \in 1..Cardinality(S)
    BY PlaceGrows
  <2>2. InOrder(S)[Place(S, i)] \in S /\ Place(S, InOrder(S)[Place(S, i)]) = Place(S, i)
    BY <1>3, <2>1, Zenon
  <2>3. \A l, m \in S : Place(S, l) = Place(S, m) => l = m
    BY PlaceGrows
  <2> QED
    BY <2>1, <2>2, <2>3, Zenon
<1> QED
  BY <1>2, <1>3, <1>5, <1>6, Zenon

\* A number above all the others changes no place.
LEMMA PlaceIsKept ==
  ASSUME NEW S \in SUBSET Nat, NEW i \in S, NEW n \in Nat, i < n
  PROVE  Place(S \cup {n}, i) = Place(S, i)
<1>1. {j \in S \cup {n} : j <= i} = {j \in S : j <= i}
  OBVIOUS
<1> QED
  BY <1>1, Zenon DEF Place

\* Places grow with the numbers and with the set, for numbers outside it too.
LEMMA PlaceIsMonotonic ==
  ASSUME NEW S \in SUBSET Nat, IsFiniteSet(S), NEW T \in SUBSET S, NEW i \in Nat, NEW j \in Nat, i <= j
  PROVE  Place(T, i) \in Nat /\ Place(S, j) \in Nat /\ Place(T, i) <= Place(S, j)
<1> DEFINE low == {k \in T : k <= i}
           high == {k \in S : k <= j}
<1>1. low \in SUBSET high
  <2>1. \A k \in T : k \in Nat /\ k \in S
    OBVIOUS
  <2>2. \A k \in Nat : k <= i => k <= j
    OBVIOUS
  <2> QED
    BY <2>1, <2>2, Zenon
<1>2. high \in SUBSET S
  OBVIOUS
<1>3. Place(T, i) = Cardinality(low) /\ Place(S, j) = Cardinality(high)
  BY Zenon DEF Place
<1> HIDE DEF low, high
<1>4. IsFiniteSet(high)
  BY <1>2, FS_Subset, Zenon, Zenon
<1>5. IsFiniteSet(low) /\ Cardinality(low) <= Cardinality(high)
  BY <1>1, <1>4, FS_Subset
<1> QED
  BY <1>3, <1>4, <1>5, FS_CardinalityType, Zenon

\* Of two numbers of a set, the one with the lower place is the lower one.
LEMMA LowerPlace ==
  ASSUME NEW S \in SUBSET Nat, IsFiniteSet(S), NEW i \in Nat, NEW j \in Nat, Place(S, i) < Place(S, j)
  PROVE  i < j
<1>1. CASE j <= i
  <2>1. Place(S, j) \in Nat /\ Place(S, i) \in Nat /\ Place(S, j) <= Place(S, i)
    BY <1>1, PlaceIsMonotonic
  <2> QED
    BY <2>1
<1> QED
  BY <1>1

\* A set of numbers that is not empty has a least one.
LEMMA LeastNumber ==
  ASSUME NEW S \in SUBSET Nat, S # {}
  PROVE  \E l \in S : \A j \in S : l <= j
<1>1. \E l \in S : \A j \in S : ~(<<j, l>> \in OpToRel(<, Nat))
  BY WFMin, NatLessThanWellFounded, Zenon
<1>2. \A j, l \in Nat : <<j, l>> \in OpToRel(<, Nat) <=> j < l
  BY DEF OpToRel
<1>3. \E l \in S : \A j \in S : ~(j < l)
  BY <1>1, <1>2, Zenon
<1> QED
  BY <1>3

-----------------------------------------------------------------------------
\* The lists.

\* The servers are finitely many numbers.
LEMMA ListedIsFinite ==
  ASSUME NEW table
  PROVE  /\ Listed(table) \in SUBSET Nat /\ Listed(table) \subseteq Id /\ IsFiniteSet(Listed(table))
         /\ Cardinality(Listed(table)) \in Nat /\ Cardinality(Listed(table)) <= Cardinality(Id)
<1>1. Listed(table) \in SUBSET Id
  BY DEF Listed
<1> QED
  BY <1>1, InputAssumption, FS_Subset, FS_CardinalityType, Zenon

\* A list has one row for each server, at its place.
LEMMA RowsByPlace ==
  ASSUME NEW table \in Servers
  PROVE  /\ Rows(table) \in Seq(Item) /\ Len(Rows(table)) = Cardinality(Listed(table))
         /\ \A k \in 1..Cardinality(Listed(table)) :
              /\ Rows(table)[k].id \in Listed(table)
              /\ Place(Listed(table), Rows(table)[k].id) = k
              /\ Rows(table)[k].alloc = table[Rows(table)[k].id]
<1> DEFINE S == Listed(table)
           ids == InOrder(S)
<1>1. S \in SUBSET Nat /\ S \subseteq Id /\ IsFiniteSet(S) /\ Cardinality(S) \in Nat
  BY ListedIsFinite
<1>2. /\ DOMAIN ids = 1..Cardinality(S)
      /\ \A k \in 1..Cardinality(S) : ids[k] \in S /\ Place(S, ids[k]) = k
  BY <1>1, OrderIsByPlace, Zenon
<1>3. Rows(table) = [k \in 1..Cardinality(S) |-> [id |-> ids[k], alloc |-> table[ids[k]]]]
  BY <1>2 DEF Rows
<1>4. \A i \in S : i \in Id /\ table[i] \in Alloc
  BY Zenon DEF Listed, Servers
<1> HIDE DEF S, ids
<1>5. ASSUME NEW k \in 1..Cardinality(S)
      PROVE  Rows(table)[k] \in Item /\ Rows(table)[k].id = ids[k] /\ Rows(table)[k].alloc = table[ids[k]]
  <2>1. Rows(table)[k] = [id |-> ids[k], alloc |-> table[ids[k]]]
    BY <1>3, Zenon
  <2>2. ids[k] \in Id /\ table[ids[k]] \in Alloc
    BY <1>2, <1>4, Zenon
  <2> QED
    BY <2>1, <2>2 DEF Item
<1>6. \A k \in 1..Cardinality(S) : Rows(table)[k] \in Item
  BY <1>5, Zenon
<1>7. Rows(table) \in [1..Cardinality(S) -> Item]
  BY <1>3, <1>6, Zenon
<1>8. Rows(table) \in Seq(Item) /\ Len(Rows(table)) = Cardinality(S)
  BY <1>1, <1>7
<1>9. \A k \in 1..Cardinality(S) : /\ Rows(table)[k].id \in S
                                   /\ Place(S, Rows(table)[k].id) = k
                                   /\ Rows(table)[k].alloc = table[Rows(table)[k].id]
  BY <1>2, <1>5, Zenon
<1> QED
  BY <1>8, <1>9, Zenon DEF S

\* The fields of the rows of a list.
LEMMA ItemFields ==
  ASSUME NEW rows \in Seq(Item)
  PROVE  \A k \in DOMAIN rows : rows[k].id \in Nat /\ rows[k].alloc \in Alloc
<1>1. \A k \in DOMAIN rows : rows[k] \in Item
  OBVIOUS
<1>2. \A r \in Item : r.id \in Id /\ r.alloc \in Alloc
  BY SMT DEF Item
<1>3. \A i \in Id : i \in Nat
  BY InputAssumption, Zenon
<1> QED
  BY <1>1, <1>2, <1>3, Zenon

\* A table is a set of items.
LEMMA EntriesAreItems ==
  ASSUME NEW table \in Servers
  PROVE  Entries(table) \subseteq Item
<1>1. \A i \in Listed(table) : i \in Id /\ table[i] \in Alloc
  BY SMTT(60) DEF Listed, Servers
<1> QED
  BY <1>1 DEF Entries, Item

\* Selected keeps the rows of the Minecraft servers: each of them is found at the
\* place of its row among them.
LEMMA SelectedRows ==
  ASSUME NEW rows \in Seq(Item)
  PROVE  LET kept == {k \in DOMAIN rows : rows[k].id \in Minecraft}
         IN  /\ kept \in SUBSET Nat /\ IsFiniteSet(kept)
             /\ Selected(rows) \in Seq(Item) /\ DOMAIN Selected(rows) = 1..Cardinality(kept)
             /\ \A m \in DOMAIN Selected(rows) :
                  InOrder(kept)[m] \in kept /\ Selected(rows)[m] = rows[InOrder(kept)[m]]
             /\ \A k \in kept : Place(kept, k) \in DOMAIN Selected(rows)
                                /\ Selected(rows)[Place(kept, k)] = rows[k]
<1> DEFINE kept == {k \in DOMAIN rows : rows[k].id \in Minecraft}
<1>1. DOMAIN rows = 1..Len(rows) /\ Len(rows) \in Nat /\ \A k \in DOMAIN rows : rows[k] \in Item
  OBVIOUS
<1>2. kept \in SUBSET (1..Len(rows))
  BY <1>1
<1>3. IsFiniteSet(1..Len(rows))
  BY <1>1, FS_Interval
<1>4. kept \in SUBSET Nat /\ IsFiniteSet(kept)
  BY <1>1, <1>2, <1>3, FS_Subset, SMTT(60)
<1>5. Selected(rows) = [m \in DOMAIN InOrder(kept) |-> rows[InOrder(kept)[m]]]
  BY Zenon DEF Selected
<1>6. \A k \in kept : rows[k] \in Item
  BY <1>1
<1>7. Cardinality(kept) \in Nat
  BY <1>4, FS_CardinalityType
<1> HIDE DEF kept
<1>8. /\ DOMAIN InOrder(kept) = 1..Cardinality(kept)
      /\ \A m \in 1..Cardinality(kept) : InOrder(kept)[m] \in kept
      /\ \A k \in kept : Place(kept, k) \in 1..Cardinality(kept) /\ InOrder(kept)[Place(kept, k)] = k
  BY <1>4, OrderIsByPlace, Zenon
<1>9. /\ DOMAIN Selected(rows) = 1..Cardinality(kept)
      /\ \A m \in 1..Cardinality(kept) : Selected(rows)[m] = rows[InOrder(kept)[m]]
  BY <1>5, <1>8, Zenon
<1>10. Selected(rows) \in [1..Cardinality(kept) -> Item]
  BY <1>5, <1>6, <1>8, Zenon
<1>11. Selected(rows) \in Seq(Item)
  BY <1>7, <1>10
<1>12. \A k \in kept : Place(kept, k) \in DOMAIN Selected(rows)
                       /\ Selected(rows)[Place(kept, k)] = rows[k]
  BY <1>8, <1>9, ZenonT(60)
<1> QED
  BY <1>4, <1>8, <1>9, <1>11, <1>12, ZenonT(60) DEF kept

-----------------------------------------------------------------------------
\* The result of a walk.

\* A walk that is going on, or was refused, has nothing to answer for.
LEMMA NoResultYet ==
  ASSUME outcome' \in {"none", "refused"}
  PROVE  TransientIsTolerated' /\ ExactWhenQuiet' /\ StableServersAreFound' /\ FoundWasThere'
BY DEF TransientIsTolerated, ExactWhenQuiet, StableServersAreFound, FoundWasThere

\* The result of the last walk is judged by what was seen during that walk.
LEMMA ResultIsKept ==
  ASSUME TransientIsTolerated, ExactWhenQuiet, StableServersAreFound, FoundWasThere,
         UNCHANGED <<inventory, outcome, history, failed, ended>>
  PROVE  TransientIsTolerated' /\ ExactWhenQuiet' /\ StableServersAreFound' /\ FoundWasThere'
<1>1. /\ UNCHANGED <<inventory, outcome, failed, ended>>
      /\ UNCHANGED <<began, stable, held, quiet, deleted>>
  BY DEF history
<1>2. TransientIsTolerated'
  BY <1>1, SMTT(60) DEF TransientIsTolerated
<1>3. ExactWhenQuiet'
  BY <1>1, Zenon DEF ExactWhenQuiet
<1>4. StableServersAreFound'
  BY <1>1 DEF StableServersAreFound
<1>5. FoundWasThere'
  BY <1>1, Zenon DEF FoundWasThere
<1> QED
  BY <1>2, <1>3, <1>4, <1>5, Zenon

-----------------------------------------------------------------------------
\* Pelican changes.

\* Between two walks, a change of Pelican touches no history.
LEMMA IdleChange ==
  ASSUME IInv, Pelican, pc = "idle"
  PROVE  /\ UNCHANGED <<walk, history, retryVars>>
         /\ IdleInv' /\ RetryInv' /\ SinceInv' /\ ItemsInv' /\ OrderInv' /\ LookupInv'
         /\ TransientIsTolerated' /\ ExactWhenQuiet' /\ StableServersAreFound' /\ FoundWasThere'
<1>1. deleted \in BOOLEAN /\ quiet \in BOOLEAN
  BY Zenon DEF IInv, TypeOK
<1>2. UNCHANGED <<walk, history, retryVars>>
  BY <1>1, Zenon DEF Pelican, ServerCreated, ServerDeleted, ServerMoved, AllocationsChange, Note, walk, history
<1>3. pc' = "idle" /\ UNCHANGED <<page, items, nodes, lookup, inventory, outcome, attempt, failed, ended>>
  BY <1>2, ZenonT(60) DEF walk, retryVars
<1>4. IdleInv' /\ RetryInv' /\ SinceInv' /\ ItemsInv' /\ OrderInv' /\ LookupInv'
  BY <1>3 DEF IInv, IdleInv, RetryInv, SinceInv, ItemsInv, OrderInv, LookupInv
<1> QED
  BY <1>2, <1>3, <1>4, ResultIsKept, Zenon DEF IInv

\* During a walk, the history knows of every change: the server that changed is
\* no longer a stable one, and no page or place of another one is affected
\* unless a server is deleted.
LEMMA WalkChange ==
  ASSUME IInv, pc # "idle",
         UNCHANGED <<walk, retryVars, began>>, quiet' = FALSE, stable' \subseteq stable,
         deleted' \in BOOLEAN, deleted => deleted',
         \A i \in stable' : servers'[i] = servers[i],
         ~deleted' => \A i \in Listed(servers) :
            i \in Listed(servers') /\ Place(Listed(servers'), i) = Place(Listed(servers), i),
         ~deleted' => Cardinality(Listed(servers)) <= Cardinality(Listed(servers'))
  PROVE  /\ IdleInv' /\ RetryInv' /\ SinceInv' /\ ItemsInv' /\ LookupInv'
         /\ TransientIsTolerated' /\ ExactWhenQuiet' /\ StableServersAreFound' /\ FoundWasThere'
<1>1. UNCHANGED <<pc, page, items, nodes, lookup, inventory, outcome, attempt, failed, ended>>
  BY Zenon DEF walk, retryVars
<1>2. outcome = "none"
  BY Zenon DEF IInv, IdleInv
<1>3. IdleInv' /\ RetryInv' /\ LookupInv'
  BY <1>1, <1>2, Zenon DEF IInv, IdleInv, RetryInv, LookupInv
<1>4. SinceInv'
  BY <1>1, Zenon DEF IInv, SinceInv
<1>5. ItemsInv'
  <2>1. page \in Nat \ {0} /\ PageSize \in Nat \ {0}
    BY InputAssumption, Zenon DEF IInv, TypeOK
  <2>2. (page - 1) * PageSize \in Nat
    BY <2>1
  <2>3. Cardinality(Listed(servers)) \in Nat /\ Cardinality(Listed(servers')) \in Nat
    BY ListedIsFinite
  <2>4. \A k \in DOMAIN items : items[k].id \in stable' => items[k].alloc = began[items[k].id]
    BY Zenon DEF IInv, ItemsInv
  <2>5. ~deleted' => \A k \in DOMAIN items :
          items[k].id \in Listed(servers') /\ Place(Listed(servers'), items[k].id) = k
    BY Zenon DEF IInv, ItemsInv
  <2>6. pc = "servers" /\ ~deleted' => Len(items) = (page - 1) * PageSize
    BY Zenon DEF IInv, ItemsInv
  <2>7. ASSUME pc = "servers", ~deleted', page > 1
        PROVE  (page - 1) * PageSize < Cardinality(Listed(servers'))
    <3>1. (page - 1) * PageSize < Cardinality(Listed(servers))
      BY <2>7, Zenon DEF IInv, ItemsInv
    <3> QED
      BY <2>2, <2>3, <2>7, <3>1, SMTT(60)
  <2>8. pc # "servers" /\ ~deleted' => \A i \in stable' : \E k \in DOMAIN items : items[k].id = i
    BY Zenon DEF IInv, ItemsInv
  <2> QED
    BY <1>1, <2>4, <2>5, <2>6, <2>7, <2>8, ZenonT(60) DEF ItemsInv
<1> QED
  BY <1>1, <1>2, <1>3, <1>4, <1>5, NoResultYet, ZenonT(60)

\* A free allocation is no other server's.
LEMMA StillAlone ==
  ASSUME Alone(servers), NEW i \in Id, NEW a \in Free,
         \A j \in Id : servers'[j] = IF j = i THEN a ELSE servers[j]
  PROVE  Alone(servers')
<1> SUFFICES ASSUME NEW j \in Listed(servers'), NEW k \in Listed(servers'), servers'[j] = servers'[k]
             PROVE  j = k
  BY Zenon DEF Alone
<1>1. j \in Id /\ k \in Id /\ servers'[j] # None /\ servers'[k] # None
  BY DEF Listed
<1>2. \A l \in Id : servers[l] # a
  BY Zenon DEF Free
<1>3. CASE j = i \/ k = i
  BY <1>1, <1>2, <1>3, Zenon
<1>4. CASE j # i /\ k # i
  <2>1. servers[j] = servers[k] /\ j \in Listed(servers) /\ k \in Listed(servers)
    BY <1>1, <1>4, Zenon DEF Listed
  <2> QED
    BY <2>1, Zenon DEF Alone
<1> QED
  BY <1>3, <1>4, Zenon

\* What a new server, which gets the highest number, does to the list.
LEMMA CreatedIsLast ==
  ASSUME IInv, NEW i \in Id, ServerCreated(i)
  PROVE  /\ \A j \in Listed(servers) :
              j \in Listed(servers') /\ Place(Listed(servers'), j) = Place(Listed(servers), j)
         /\ Cardinality(Listed(servers)) <= Cardinality(Listed(servers'))
         /\ Listed(servers') = Listed(servers) \cup {i}
         /\ PelicanInv' /\ Alone(servers') /\ servers' \in Servers /\ newest' \in Nat
         /\ \A j \in Id \ {i} : servers'[j] = servers[j]
<1>1. PICK a \in Free : servers' = [servers EXCEPT ![i] = a]
  BY Zenon DEF ServerCreated
<1>2. a \in Alloc /\ a \in allocs /\ a # None
  BY InputAssumption, Zenon DEF Free, IInv, TypeOK
<1>3. servers \in Servers /\ servers' \in Servers
  BY <1>1, <1>2, Zenon DEF Servers, IInv, TypeOK
<1>4. \A j \in Id : servers'[j] = IF j = i THEN a ELSE servers[j]
  BY <1>1, <1>3, ZenonT(60) DEF Servers
<1>5. i \in Nat /\ newest \in Nat /\ i > newest /\ newest' = i /\ allocs' = allocs
  BY InputAssumption DEF ServerCreated, IInv, TypeOK
<1>6. Listed(servers') = Listed(servers) \cup {i}
  BY <1>2, <1>4, Zenon DEF Listed
<1>7. \A j \in Listed(servers) : j \in Nat /\ j < i
  BY <1>5, ListedIsFinite, SMTT(60) DEF IInv, PelicanInv
<1>8. \A j \in Listed(servers) : Place(Listed(servers) \cup {i}, j) = Place(Listed(servers), j)
  BY <1>5, <1>7, PlaceIsKept, ListedIsFinite, ZenonT(60)
<1>9. Cardinality(Listed(servers)) <= Cardinality(Listed(servers'))
  BY <1>6, FS_Subset, ListedIsFinite, Zenon
<1>10. PelicanInv'
  <2> SUFFICES ASSUME NEW j \in Listed(servers') PROVE j <= i /\ servers'[j] \in allocs
    BY <1>5 DEF PelicanInv
  <2>1. j \in Nat /\ (j = i \/ (j \in Listed(servers) /\ j < i))
    BY <1>5, <1>6, <1>7, Zenon
  <2>2. j \in Id
    BY DEF Listed
  <2> QED
    BY <1>2, <1>4, <1>5, <2>1, <2>2, SMTT(60) DEF IInv, PelicanInv
<1>11. Alone(servers')
  BY <1>1, <1>4, StillAlone, Zenon DEF IInv, AloneInv
<1> QED
  BY <1>3, <1>4, <1>5, <1>6, <1>8, <1>9, <1>10, <1>11, ZenonT(60)

\* A move leaves the numbers as they are.
LEMMA MovedStays ==
  ASSUME IInv, NEW i \in Id, ServerMoved(i)
  PROVE  /\ Listed(servers') = Listed(servers)
         /\ PelicanInv' /\ Alone(servers') /\ servers' \in Servers /\ newest' \in Nat
         /\ \A j \in Id \ {i} : servers'[j] = servers[j]
<1>1. PICK a \in Free : servers' = [servers EXCEPT ![i] = a]
  BY ZenonT(60) DEF ServerMoved
<1>2. a \in Alloc /\ a \in allocs /\ a # None
  BY InputAssumption, Zenon DEF Free, IInv, TypeOK
<1>3. servers \in Servers /\ servers' \in Servers
  BY <1>1, <1>2 DEF Servers, IInv, TypeOK
<1>4. \A j \in Id : servers'[j] = IF j = i THEN a ELSE servers[j]
  BY <1>1, <1>3, Zenon DEF Servers
<1>5. newest \in Nat /\ newest' = newest /\ allocs' = allocs /\ servers[i] # None
  BY DEF ServerMoved, IInv, TypeOK
<1>6. Listed(servers') = Listed(servers)
  BY <1>2, <1>4, <1>5, Zenon DEF Listed
<1>7. PelicanInv'
  BY <1>2, <1>4, <1>5, <1>6, Zenon DEF IInv, PelicanInv, Listed
<1>8. Alone(servers')
  BY <1>1, <1>4, StillAlone, Zenon DEF IInv, AloneInv
<1> QED
  BY <1>3, <1>4, <1>5, <1>6, <1>7, <1>8, ZenonT(60)

\* A change of Pelican keeps the types and what Pelican guarantees.
LEMMA PelicanKeepsPromises ==
  ASSUME IInv, Pelican
  PROVE  /\ servers' \in Servers /\ allocs' \subseteq Alloc /\ newest' \in Nat
         /\ changes' \in 0..MaxChanges /\ PelicanInv' /\ AloneInv'
<1> USE DEF IInv, TypeOK
<1>1. changes' \in 0..MaxChanges
  BY InputAssumption DEF Pelican
<1>2. ASSUME NEW i \in Id, ServerCreated(i)
      PROVE  servers' \in Servers /\ allocs' \subseteq Alloc /\ newest' \in Nat /\ PelicanInv' /\ Alone(servers')
  BY <1>2, CreatedIsLast, Zenon DEF ServerCreated
<1>3. ASSUME NEW i \in Id, ServerMoved(i)
      PROVE  servers' \in Servers /\ allocs' \subseteq Alloc /\ newest' \in Nat /\ PelicanInv' /\ Alone(servers')
  BY <1>3, MovedStays, ZenonT(60) DEF ServerMoved
<1>4. ASSUME NEW i \in Id, ServerDeleted(i)
      PROVE  servers' \in Servers /\ allocs' \subseteq Alloc /\ newest' \in Nat /\ PelicanInv' /\ Alone(servers')
  <2>1. servers' \in Servers /\ allocs' \subseteq Alloc /\ newest' \in Nat /\ PelicanInv'
    BY <1>4, Zenon DEF ServerDeleted, Servers, Listed, PelicanInv
  <2>2. \A j \in Listed(servers') : j \in Listed(servers) /\ servers'[j] = servers[j]
    BY <1>4 DEF ServerDeleted, Servers, Listed
  <2> QED
    BY <2>1, <2>2, Zenon DEF AloneInv, Alone
<1>5. CASE AllocationsChange
  <2>1. UNCHANGED <<servers, newest>> /\ allocs' \subseteq Alloc /\ allocs \ Free \subseteq allocs'
    BY <1>5, Zenon DEF AllocationsChange, Free
  <2>2. \A i \in Listed(servers) : servers[i] \notin Free
    BY Zenon DEF Listed, Free
  <2>3. \A i \in Listed(servers) : i <= newest /\ servers[i] \in allocs'
    BY <2>2, <2>1, Zenon DEF PelicanInv
  <2>4. servers' \in Servers /\ newest' \in Nat
    BY <2>1, Zenon
  <2>5. PelicanInv'
    BY <2>1, <2>3, Zenon DEF PelicanInv
  <2>6. Alone(servers')
    BY <2>1, Zenon DEF AloneInv
  <2>7. began' = began
    BY <1>5, Zenon DEF AllocationsChange
  <2> QED
    BY <1>1, <2>1, <2>4, <2>5, <2>6, <2>7, ZenonT(60) DEF AloneInv
<1>6. began' = began
  BY Zenon DEF Pelican, ServerCreated, ServerDeleted, ServerMoved, AllocationsChange, Note
<1>7. Alone(began)'
  BY <1>6, Zenon DEF AloneInv
<1> QED
  BY <1>1, <1>2, <1>3, <1>4, <1>5, <1>7, ZenonT(60) DEF Pelican, AloneInv

\* A change of Pelican puts no server before one that has been listed: a new one
\* gets the highest number, and a deleted one leaves its place to the next.
LEMMA PelicanOrder ==
  ASSUME IInv, Pelican, pc # "idle"
  PROVE  OrderInv'
<1> DEFINE S == Listed(servers)
           T == Listed(servers')
<1>1. UNCHANGED <<pc, page, items>>
  BY Zenon DEF Pelican, ServerCreated, ServerDeleted, ServerMoved, AllocationsChange, walk
<1>2. newest \in Nat /\ page \in Nat \ {0} /\ PageSize \in Nat /\ items \in Seq(Item)
  BY InputAssumption, Zenon DEF IInv, TypeOK
<1>3. S \in SUBSET Nat /\ IsFiniteSet(S)
  BY ListedIsFinite, Zenon
<1>4. \A k \in DOMAIN items : items[k].id \in Nat
  BY <1>2, ItemFields, Zenon
<1>5. Entries(servers') \subseteq held' /\ held \subseteq held'
  <2>1. CASE AllocationsChange
    BY <2>1, Zenon DEF AllocationsChange, IInv, OrderInv
  <2>2. ASSUME NEW i, Note(i) PROVE held' = held \cup Entries(servers')
    BY <2>2, Zenon DEF Note
  <2>3. AllocationsChange \/ \E i \in Id : Note(i)
    BY Zenon DEF Pelican, ServerCreated, ServerDeleted, ServerMoved
  <2> QED
    BY <2>1, <2>2, <2>3
<1>6. ASSUME NEW x \in Nat, x <= newest
      PROVE  x <= newest' /\ Place(T, x) \in Nat /\ Place(S, x) \in Nat /\ Place(T, x) <= Place(S, x)
  <2>1. ASSUME NEW i \in Id, ServerCreated(i)
        PROVE  x <= newest' /\ T \in SUBSET (S \cup {i}) /\ i > x /\ i \in Nat
    <3>1. newest' = i /\ i > newest /\ i \in Nat
      BY <2>1, InputAssumption DEF ServerCreated
    <3>2. T = S \cup {i}
      BY <2>1, CreatedIsLast, Zenon
    <3> QED
      BY <1>2, <1>6, <3>1, <3>2, SMTT(60)
  <2>2. ASSUME NEW i \in Id, ServerDeleted(i) PROVE newest' = newest /\ T \in SUBSET S
    BY <2>2 DEF ServerDeleted, Listed, IInv, TypeOK, Servers
  <2>3. ASSUME NEW i \in Id, ServerMoved(i) PROVE newest' = newest /\ T \in SUBSET S
    <3>1. newest' = newest
      BY <2>3, Zenon DEF ServerMoved
    <3> QED
      BY <2>3, <3>1, MovedStays
  <2>4. CASE AllocationsChange
    <3>1. newest' = newest /\ servers' = servers
      BY <2>4, Zenon DEF AllocationsChange
    <3>2. T = S
      BY <3>1, Zenon
    <3> QED
      BY <1>3, <1>6, <3>1, <3>2, PlaceIsMonotonic, SMTT(60)
  <2> HIDE DEF S, T
  <2>5. ASSUME T \in SUBSET S, newest' = newest
        PROVE  x <= newest' /\ Place(T, x) \in Nat /\ Place(S, x) \in Nat /\ Place(T, x) <= Place(S, x)
    BY <1>3, <1>6, <2>5, PlaceIsMonotonic
  <2>6. ASSUME NEW i \in Nat, T \in SUBSET (S \cup {i}), i > x
        PROVE  Place(T, x) \in Nat /\ Place(S, x) \in Nat /\ Place(T, x) <= Place(S, x)
    <3> DEFINE U == T \ {i}
    <3>1. U \in SUBSET S
      BY <2>6
    <3>2. {j \in T : j <= x} = {j \in U : j <= x}
      BY <2>6
    <3>3. Place(T, x) = Place(U, x)
      BY <3>2, Zenon DEF Place
    <3> HIDE DEF U
    <3> QED
      BY <1>3, <3>1, <3>3, PlaceIsMonotonic
  <2> QED
    BY <2>1, <2>2, <2>3, <2>4, <2>5, <2>6, ZenonT(60) DEF Pelican
<1> HIDE DEF S, T
<1>7. \A k \in DOMAIN items : items[k] \in held' /\ items[k].id <= newest'
  BY <1>4, <1>5, <1>6, Zenon DEF IInv, OrderInv
<1>8. \A j, k \in DOMAIN items : j < k => items[j].id < items[k].id
  BY Zenon DEF IInv, OrderInv
<1>9. ASSUME pc = "servers", NEW k \in DOMAIN items
      PROVE  Place(T, items[k].id) <= (page - 1) * PageSize
  <2>1. Place(S, items[k].id) <= (page - 1) * PageSize /\ items[k].id <= newest
    BY <1>9, Zenon DEF IInv, OrderInv, S
  <2>2. Place(T, items[k].id) \in Nat /\ Place(S, items[k].id) \in Nat /\ Place(T, items[k].id) <= Place(S, items[k].id)
    BY <1>4, <1>6, <2>1, Zenon
  <2>3. (page - 1) * PageSize \in Nat
    BY <1>2
  <2> QED
    BY <2>1, <2>2, <2>3, SMTT(60)
<1> QED
  BY <1>1, <1>5, <1>7, <1>8, <1>9, Zenon DEF OrderInv, T

\* A change of Pelican keeps IInv.
LEMMA PelicanStep ==
  ASSUME IInv, Pelican
  PROVE  IInv'
<1>1. UNCHANGED <<walk, retryVars>> /\ (began' \in Servers /\ stable' \subseteq Id /\ held' \subseteq Item)
      /\ quiet' \in BOOLEAN /\ deleted' \in BOOLEAN
  <2>1. servers' \in Servers
    BY PelicanKeepsPromises, Zenon
  <2>2. Entries(servers') \subseteq Item
    BY <2>1, EntriesAreItems, Zenon
  <2> QED
    BY <2>2, ZenonT(60) DEF Pelican, ServerCreated, ServerDeleted, ServerMoved, AllocationsChange, Note, IInv, TypeOK
<1>2. TypeOK'
  BY <1>1, PelicanKeepsPromises DEF walk, IInv, TypeOK
<1>3. CASE pc = "idle"
  BY <1>2, <1>3, IdleChange, PelicanKeepsPromises, Zenon DEF IInv
<1>4. CASE pc # "idle"
  <2>1. UNCHANGED <<walk, retryVars, began>> /\ quiet' = FALSE /\ stable' \subseteq stable
    BY <1>1, <1>4, Zenon DEF Pelican, ServerCreated, ServerDeleted, ServerMoved, AllocationsChange, Note
  <2>2. deleted' \in BOOLEAN /\ (deleted => deleted')
    BY <1>1, <1>4 DEF Pelican, ServerCreated, ServerDeleted, ServerMoved, AllocationsChange
  <2>3. stable \subseteq Id
    BY DEF IInv, TypeOK
  <2>4. ASSUME NEW i \in Id, ServerCreated(i)
        PROVE  IInv'
    <3>1. \A j \in stable' : servers'[j] = servers[j]
      BY <1>4, <2>3, <2>4, CreatedIsLast, Zenon DEF ServerCreated, Note
    <3> QED
      BY <1>2, <1>4, <2>1, <2>2, <2>4, <3>1, CreatedIsLast, WalkChange, PelicanKeepsPromises, PelicanOrder, ZenonT(60) DEF IInv
  <2>5. ASSUME NEW i \in Id, ServerMoved(i)
        PROVE  IInv'
    <3>1. \A j \in stable' : servers'[j] = servers[j]
      BY <1>4, <2>3, <2>5, MovedStays, Zenon DEF ServerMoved, Note
    <3>2. Listed(servers') = Listed(servers)
      BY <2>5, MovedStays, Zenon
    <3>3. Cardinality(Listed(servers)) <= Cardinality(Listed(servers'))
      BY <3>2, ListedIsFinite
    <3> QED
      BY <1>2, <1>4, <2>1, <2>2, <3>1, <3>2, <3>3, WalkChange, PelicanKeepsPromises, PelicanOrder, ZenonT(60) DEF IInv
  <2>6. ASSUME NEW i \in Id, ServerDeleted(i)
        PROVE  IInv'
    <3>1. deleted'
      BY <1>4, <2>6, ZenonT(60) DEF ServerDeleted
    <3>2. \A j \in stable' : servers'[j] = servers[j]
      BY <1>4, <2>3, <2>6, Zenon DEF ServerDeleted, Note, IInv, TypeOK, Servers
    <3> QED
      BY <1>2, <1>4, <2>1, <2>2, <3>1, <3>2, WalkChange, PelicanKeepsPromises, PelicanOrder, ZenonT(60) DEF IInv
  <2>7. CASE AllocationsChange
    <3>1. servers' = servers
      BY <2>7, Zenon DEF AllocationsChange
    <3>2. Cardinality(Listed(servers)) <= Cardinality(Listed(servers'))
      BY <3>1, ListedIsFinite, SMTT(60)
    <3> QED
      BY <1>2, <1>4, <2>1, <2>2, <3>1, <3>2, WalkChange, PelicanKeepsPromises, PelicanOrder, ZenonT(60) DEF IInv
  <2> QED
    BY <2>4, <2>5, <2>6, <2>7, ZenonT(60) DEF Pelican
<1> QED
  BY <1>3, <1>4, Zenon

-----------------------------------------------------------------------------
\* The walk.

\* The walk begins with what Pelican has now.
LEMMA RefreshStep ==
  ASSUME IInv, Refresh
  PROVE  IInv'
<1>1. /\ pc = "idle" /\ pc' = "servers" /\ outcome' = "none"
      /\ began' = servers /\ stable' = Listed(servers) /\ held' = Entries(servers) /\ quiet' = TRUE /\ deleted' = FALSE
      /\ attempt' = 1 /\ failed' = 0 /\ ended' = FALSE
      /\ UNCHANGED <<servers, allocs, newest, changes, page, items, nodes, lookup, inventory>>
  BY DEF Refresh, NewContext, pelican
<1>2. page = 1 /\ items = <<>> /\ nodes = {}
  BY <1>1 DEF IInv, IdleInv
<1>3. TypeOK'
  <2>1. held' \subseteq Item
    BY <1>1, EntriesAreItems, Zenon DEF IInv, TypeOK
  <2> QED
    BY <1>1, <1>2, <2>1, InputAssumption, Zenon DEF IInv, TypeOK, Listed
<1>4. RetryInv' /\ IdleInv'
  <2>1. attempt' \in Nat /\ failed' \in Nat /\ attempt' = failed' + 1
    BY <1>1
  <2>2. ended' \in BOOLEAN /\ pc' # "idle"
    BY <1>1, ZenonT(60)
  <2> QED
    BY <1>1, <2>1, <2>2, Zenon DEF RetryInv, IdleInv
<1>5. SinceInv' /\ PelicanInv' /\ LookupInv'
  BY <1>1, <1>2, ZenonT(60) DEF SinceInv, IInv, PelicanInv, LookupInv, Listed
<1>6. ItemsInv'
  BY <1>1, <1>2, InputAssumption, SMTT(60) DEF ItemsInv
<1>7. AloneInv'
  BY <1>1, Zenon DEF IInv, AloneInv
<1>8. OrderInv'
  <2>1. DOMAIN items' = {}
    BY <1>1, <1>2
  <2> QED
    BY <1>1, <2>1, Zenon DEF OrderInv
<1> QED
  BY <1>1, <1>3, <1>4, <1>5, <1>6, <1>7, <1>8, NoResultYet, Zenon DEF IInv

\* A walk that goes on keeps what is known of Pelican.
LEMMA WalkGoesOn ==
  ASSUME IInv, UNCHANGED <<pelican, inventory, outcome, history>>, pc # "idle", pc' # "idle",
         TypeOK', RetryInv', ItemsInv', OrderInv', LookupInv'
  PROVE  IInv'
<1>1. outcome' = "none" /\ UNCHANGED <<servers, allocs, newest>> /\ UNCHANGED <<began, stable, quiet, deleted>>
  BY Zenon DEF IInv, IdleInv, pelican, history
<1>2. IdleInv' /\ SinceInv' /\ PelicanInv'
  BY <1>1, SMTT(60) DEF IInv, IdleInv, SinceInv, PelicanInv
<1>3. AloneInv'
  BY <1>1, Zenon DEF IInv, AloneInv
<1> QED
  BY <1>1, <1>2, <1>3, NoResultYet, Zenon DEF IInv

\* A walk that ends leaves nothing behind but its result.
LEMMA WalkIsOver ==
  ASSUME IInv, UNCHANGED <<pelican, history>>, pc' = "idle", NEW o, Finish(o),
         o \in {"ok", "unresolved", "refused", "error"}, inventory' \in Seq(Item) \cup {None},
         attempt' \in Nat, failed' \in Nat, ended' \in BOOLEAN,
         TransientIsTolerated', ExactWhenQuiet', StableServersAreFound', FoundWasThere'
  PROVE  IInv'
<1>1. page' = 1 /\ items' = <<>> /\ nodes' = {} /\ lookup' = {} /\ outcome' = o
      /\ UNCHANGED <<servers, allocs, newest, changes, began, stable, held, quiet, deleted>>
  BY Zenon DEF Finish, pelican, history
<1>2. TypeOK'
  BY <1>1, SMTT(60) DEF IInv, TypeOK
<1>3. PelicanInv'
  BY <1>1, ZenonT(60) DEF IInv, PelicanInv
<1>4. RetryInv' /\ IdleInv' /\ SinceInv' /\ ItemsInv' /\ OrderInv' /\ LookupInv'
  BY <1>1, ZenonT(60) DEF RetryInv, IdleInv, SinceInv, ItemsInv, OrderInv, LookupInv
<1>5. AloneInv'
  BY <1>1, Zenon DEF IInv, AloneInv
<1> QED
  BY <1>2, <1>3, <1>4, <1>5, ZenonT(60) DEF IInv

\* A page is a part of the list, without rows when it begins past the end.
LEMMA PageOfRows ==
  ASSUME NEW S, NEW rows \in Seq(S), NEW from \in Nat, NEW upto \in 0..Len(rows)
  PROVE  LET part == SubSeq(rows, from + 1, upto)
         IN  /\ part \in Seq(S)
             /\ Len(part) = IF from <= upto THEN upto - from ELSE 0
             /\ \A k \in DOMAIN part : from + k \in DOMAIN rows /\ part[k] = rows[from + k]
<1> DEFINE part == SubSeq(rows, from + 1, upto)
<1>1. CASE from <= upto
  BY <1>1
<1>2. CASE ~(from <= upto)
  <2>1. part = << >>
    BY <1>2, SMTT(60)
  <2> QED
    BY <1>2, <2>1
<1> QED
  BY <1>1, <1>2, Zenon

\* The number of pages is the least that has room for all the rows.
LEMMA PagesHaveRoom ==
  ASSUME NEW n \in Nat, NEW p \in Nat \ {0}
  PROVE  LET pages == (n + PageSize - 1) \div PageSize
         IN  /\ (pages <= 1 \/ p >= pages) => n <= p * PageSize
             /\ ~(pages <= 1 \/ p >= pages) => p * PageSize < n
<1> DEFINE pages == (n + PageSize - 1) \div PageSize
<1>1. PageSize \in Nat \ {0}
  BY InputAssumption
<1>2. pages \in Nat
  BY <1>1
<1>3. p >= pages => n <= p * PageSize
  BY <1>1
<1>4. ~(p >= pages) => p * PageSize < n
  BY <1>1
<1>5. pages <= 1 => p >= pages
  BY <1>2
<1> HIDE DEF pages
<1> QED
  BY <1>3, <1>4, <1>5, Zenon DEF pages

\* An answer ends the attempts of its request.
LEMMA AnswerResets ==
  ASSUME IInv, Answered
  PROVE  RetryInv'
<1>1. attempt' = 1 /\ failed' = 0 /\ ended' = ended /\ ended \in BOOLEAN
  BY DEF Answered, FirstAttempt, IInv, RetryInv
<1>2. attempt' \in Nat /\ failed' \in Nat /\ attempt' = failed' + 1
  BY <1>1
<1> QED
  BY <1>1, <1>2, Zenon DEF RetryInv

\* A page adds the rows that follow those before it, each at its place, and
\* LastPage is the one that brings the last rows.
LEMMA ListPageAdds ==
  ASSUME IInv, ListPage
  PROVE  /\ items' \in Seq(Item)
         /\ \A k \in DOMAIN items' :
              \/ k \in DOMAIN items /\ items'[k] = items[k]
              \/ \E m \in DOMAIN Rows(servers) :
                   items'[k] = Rows(servers)[m] /\ (~deleted => m = k)
         /\ \A k \in DOMAIN items' :
              \/ k \in DOMAIN items /\ items'[k] = items[k]
              \/ \E m \in DOMAIN Rows(servers) :
                   /\ items'[k] = Rows(servers)[m]
                   /\ k > Len(items) /\ m = (page - 1) * PageSize + (k - Len(items)) /\ m <= page * PageSize
         /\ ~deleted => Len(items') = IF LastPage THEN Cardinality(Listed(servers)) ELSE page * PageSize
         /\ ~LastPage => page * PageSize < Cardinality(Listed(servers))
<1> DEFINE n == Cardinality(Listed(servers))
           rows == Rows(servers)
           from == (page - 1) * PageSize
           upto == IF page * PageSize <= n THEN page * PageSize ELSE n
           part == SubSeq(rows, from + 1, upto)
<1>1. page \in Nat \ {0} /\ PageSize \in Nat \ {0} /\ items \in Seq(Item) /\ servers \in Servers
  BY InputAssumption, Zenon DEF IInv, TypeOK
<1>2. n \in Nat /\ rows \in Seq(Item) /\ Len(rows) = n
  BY <1>1, RowsByPlace, ListedIsFinite, ZenonT(60)
<1>3. from \in Nat /\ page * PageSize \in Nat /\ from + PageSize = page * PageSize
  BY <1>1
<1>4. items' = items \o part
  BY <1>2 DEF ListPage, PageRows
<1>5. /\ LastPage => n <= page * PageSize
      /\ ~LastPage => page * PageSize < n
  BY <1>1, <1>2, PagesHaveRoom, Zenon DEF LastPage, TotalPages
<1> HIDE DEF n, rows, from
<1>6. upto \in 0..Len(rows)
  BY <1>2, <1>3
<1>7. /\ part \in Seq(Item)
      /\ Len(part) = IF from <= upto THEN upto - from ELSE 0
      /\ \A k \in DOMAIN part : from + k \in DOMAIN rows /\ part[k] = rows[from + k]
  BY <1>2, <1>3, <1>6, PageOfRows, ZenonT(60)
<1>8. ASSUME ~deleted
      PROVE  Len(items) = from /\ from <= upto
  <2>1. pc = "servers"
    BY DEF ListPage
  <2>2. Len(items) = from /\ (page > 1 => from < n)
    BY <1>8, <2>1 DEF IInv, ItemsInv, from, n
  <2>3. page = 1 => from = 0
    BY <1>1 DEF from
  <2> QED
    BY <1>1, <1>2, <1>3, <2>2, <2>3
<1> HIDE DEF part
<1>9. items' \in Seq(Item)
  BY <1>1, <1>4, <1>7
<1>10. Len(items') = Len(items) + Len(part)
  BY <1>1, <1>4, <1>7, SMTT(60)
<1>11. ~deleted => Len(items') = IF LastPage THEN n ELSE page * PageSize
  BY <1>2, <1>3, <1>5, <1>7, <1>8, <1>10, SMTT(60)
<1>12. ASSUME NEW k \in DOMAIN items'
       PROVE  \/ k \in DOMAIN items /\ items'[k] = items[k]
              \/ \E m \in DOMAIN rows :
                   /\ items'[k] = rows[m] /\ (~deleted => m = k)
                   /\ k > Len(items) /\ m = from + (k - Len(items)) /\ m <= page * PageSize
  <2>1. CASE k \in DOMAIN items
    <3>1. items'[k] = items[k]
      BY <1>1, <1>4, <1>7, <2>1, SMTT(60)
    <3> QED
      BY <2>1, <3>1, Zenon
  <2>2. CASE k \notin DOMAIN items
    <3> DEFINE l == k - Len(items)
    <3>1. l \in DOMAIN part /\ items'[k] = part[l]
      BY <1>1, <1>4, <1>7, <2>2, SMTT(60)
    <3>2. l \in Nat /\ k = Len(items) + l
      BY <1>1, <1>9, <3>1, <1>7
    <3> HIDE DEF l
    <3>3. from + l \in DOMAIN rows /\ items'[k] = rows[from + l]
      BY <1>7, <3>1, Zenon
    <3>4. ~deleted => from + l = k
      BY <1>8, <3>2, Zenon
    <3>5. l > 0 /\ from + l <= upto
      <4>1. DOMAIN part = 1..Len(part) /\ Len(part) \in Nat
        BY <1>7
      <4> QED
        BY <1>2, <1>3, <1>7, <3>1, <3>2, <4>1
    <3>6. Len(items) \in Nat
      BY <1>1
    <3>7. k > Len(items) /\ from + l = from + (k - Len(items)) /\ from + l <= page * PageSize
      BY <1>2, <1>3, <3>2, <3>5, <3>6
    <3> QED
      BY <3>3, <3>4, <3>7, Zenon
  <2> QED
    BY <2>1, <2>2, Zenon
<1> QED
  BY <1>5, <1>9, <1>11, <1>12, ZenonT(60) DEF n, rows, from

\* The rows of the next page come after those of the pages before it, although
\* servers may have been deleted since.
LEMMA ListPageOrder ==
  ASSUME IInv, ListPage
  PROVE  OrderInv'
<1> DEFINE S == Listed(servers)
           n == Cardinality(S)
           rows == Rows(servers)
           from == (page - 1) * PageSize
<1>1. /\ pc = "servers" /\ pc' \in {"servers", "eggs"} /\ (pc' = "servers" => page' = page + 1)
      /\ UNCHANGED <<servers, newest, held>>
  BY DEF ListPage, pelican, history
<1>2. page \in Nat \ {0} /\ PageSize \in Nat \ {0} /\ items \in Seq(Item) /\ newest \in Nat
  BY InputAssumption, Zenon DEF IInv, TypeOK
<1>3. /\ S \in SUBSET Nat /\ S \subseteq Id /\ IsFiniteSet(S) /\ n \in Nat
      /\ rows \in Seq(Item) /\ Len(rows) = n
      /\ \A m \in 1..n : rows[m].id \in S /\ Place(S, rows[m].id) = m /\ rows[m].alloc = servers[rows[m].id]
  <2>1. servers \in Servers
    BY Zenon DEF IInv, TypeOK
  <2> QED
    BY <2>1, ListedIsFinite, RowsByPlace, Zenon
<1>4. /\ items' \in Seq(Item)
      /\ \A k \in DOMAIN items' :
           \/ k \in DOMAIN items /\ items'[k] = items[k]
           \/ \E m \in DOMAIN rows :
                /\ items'[k] = rows[m]
                /\ k > Len(items) /\ m = from + (k - Len(items)) /\ m <= page * PageSize
  BY ListPageAdds, Zenon
<1>5. /\ Entries(servers) \subseteq held
      /\ \A k \in DOMAIN items : items[k] \in held /\ items[k].id <= newest /\ Place(S, items[k].id) <= from
      /\ \A j, k \in DOMAIN items : j < k => items[j].id < items[k].id
  BY <1>1, Zenon DEF IInv, OrderInv
<1>6. \A m \in DOMAIN rows : rows[m] \in held /\ rows[m].id \in Nat /\ rows[m].id <= newest /\ Place(S, rows[m].id) = m
  <2> SUFFICES ASSUME NEW m \in DOMAIN rows
               PROVE  rows[m] \in held /\ rows[m].id \in Nat /\ rows[m].id <= newest /\ Place(S, rows[m].id) = m
    OBVIOUS
  <2>1. m \in 1..n
    BY <1>3
  <2>2. rows[m].id \in S /\ Place(S, rows[m].id) = m /\ rows[m].alloc = servers[rows[m].id]
    BY <1>3, <2>1, Zenon
  <2>3. rows[m].id \in Nat /\ rows[m].id <= newest
    BY <1>3, <2>2, Zenon DEF IInv, PelicanInv
  <2>4. rows[m] = [id |-> rows[m].id, alloc |-> rows[m].alloc]
    <3>1. rows[m] \in Item
      BY <1>3
    <3> QED
      BY <3>1, Zenon DEF Item
  <2>5. rows[m] \in Entries(servers)
    BY <2>2, <2>4, Zenon DEF Entries
  <2> QED
    BY <1>5, <2>2, <2>3, <2>5, Zenon
<1>7. from \in Nat /\ page * PageSize \in Nat /\ from <= page * PageSize /\ (page + 1 - 1) * PageSize = page * PageSize
  BY <1>2
<1>8. \A k \in DOMAIN items : items[k].id \in Nat /\ Place(S, items[k].id) \in Nat
  <2>1. \A k \in DOMAIN items : items[k].id \in Nat
    BY <1>2, ItemFields, Zenon
  <2>2. \A x \in Nat : Place(S, x) \in Nat
    BY <1>3, PlaceIsMonotonic
  <2> QED
    BY <2>1, <2>2, Zenon
<1>9. Len(items) \in Nat /\ DOMAIN items = 1..Len(items) /\ DOMAIN items' \subseteq Nat
  BY <1>2, <1>4
<1> HIDE DEF S, n, rows, from
<1>10. \A k \in DOMAIN items' : items'[k] \in held /\ items'[k].id <= newest
  BY <1>4, <1>5, <1>6, Zenon
<1>11. \A k \in DOMAIN items' : Place(S, items'[k].id) <= page * PageSize
  <2>1. \A k \in DOMAIN items : Place(S, items[k].id) <= page * PageSize
    BY <1>5, <1>7, <1>8
  <2> QED
    BY <1>4, <1>6, <2>1, ZenonT(60)
<1>12. ASSUME NEW j \in DOMAIN items', NEW k \in DOMAIN items', j < k
       PROVE  items'[j].id < items'[k].id
  <2>1. CASE k \in DOMAIN items /\ items'[k] = items[k]
    <3>1. j \in DOMAIN items
      BY <1>9, <1>12, <2>1, SMTT(60)
    <3>2. items'[j] = items[j]
      <4>1. ~(j > Len(items))
        BY <1>9, <3>1
      <4> QED
        BY <1>4, <4>1, Zenon
    <3> QED
      BY <1>5, <1>12, <2>1, <3>1, <3>2, Zenon
  <2>2. ASSUME NEW m \in DOMAIN rows, items'[k] = rows[m], k > Len(items), m = from + (k - Len(items))
        PROVE  items'[j].id < items'[k].id
    <3>1. Place(S, rows[m].id) = m /\ rows[m].id \in Nat
      BY <1>6, Zenon
    <3>2. CASE j \in DOMAIN items /\ items'[j] = items[j]
      <4>1. Place(S, items[j].id) <= from /\ Place(S, items[j].id) \in Nat /\ items[j].id \in Nat
        BY <1>5, <1>8, <3>2, Zenon
      <4>2. m > from
        BY <1>7, <1>9, <2>2
      <4>3. m \in Nat
        BY <1>7, <1>9, <2>2, SMTT(60)
      <4>4. Place(S, items[j].id) < Place(S, rows[m].id)
        BY <1>7, <3>1, <4>1, <4>2, <4>3
      <4>5. items[j].id < rows[m].id
        BY <1>3, <3>1, <4>1, <4>4, LowerPlace, Zenon
      <4> QED
        BY <2>2, <3>2, <4>5, Zenon
    <3>3. ASSUME NEW l \in DOMAIN rows, items'[j] = rows[l], j > Len(items), l = from + (j - Len(items))
          PROVE  items'[j].id < items'[k].id
      <4>1. Place(S, rows[l].id) = l /\ rows[l].id \in Nat
        BY <1>6, Zenon
      <4>2. l < m
        BY <1>7, <1>9, <1>12, <2>2, <3>3
      <4>3. rows[l].id < rows[m].id
        BY <1>3, <3>1, <4>1, <4>2, LowerPlace, Zenon
      <4> QED
        BY <2>2, <3>3, <4>3, Zenon
    <3> QED
      BY <1>4, <3>2, <3>3, Zenon
  <2> QED
    BY <1>4, <2>1, <2>2, Zenon
<1>13. ASSUME pc' = "servers" PROVE \A k \in DOMAIN items' : Place(S, items'[k].id) <= (page' - 1) * PageSize
  <2>1. (page' - 1) * PageSize = page * PageSize
    <3>1. page' - 1 = page
      BY <1>1, <1>2, <1>13
    <3> QED
      BY <3>1, Zenon
  <2> QED
    BY <1>11, <2>1, Zenon
<1> QED
  BY <1>1, <1>5, <1>10, <1>12, <1>13, Zenon DEF OrderInv, S

\* The next page keeps IInv.
LEMMA ListPageStep ==
  ASSUME IInv, ListPage
  PROVE  IInv'
<1> DEFINE S == Listed(servers)
           n == Cardinality(S)
<1>1. /\ pc = "servers" /\ UNCHANGED <<pelican, inventory, outcome, history>>
      /\ UNCHANGED <<servers, allocs, nodes, lookup, began, stable, held, quiet, deleted>>
      /\ Answered
  BY DEF ListPage, pelican, history
<1>2. IF LastPage THEN pc' = "eggs" /\ page' = 1 ELSE page' = page + 1 /\ pc' = pc
  BY SMTT(60) DEF ListPage
<1>3. page \in Nat \ {0} /\ PageSize \in Nat \ {0} /\ servers \in Servers /\ quiet \in BOOLEAN /\ deleted \in BOOLEAN
  BY InputAssumption, Zenon DEF IInv, TypeOK
<1>4. /\ items' \in Seq(Item)
      /\ \A k \in DOMAIN items' :
           \/ k \in DOMAIN items /\ items'[k] = items[k]
           \/ \E m \in DOMAIN Rows(servers) : items'[k] = Rows(servers)[m] /\ (~deleted => m = k)
      /\ ~deleted => Len(items') = IF LastPage THEN n ELSE page * PageSize
      /\ ~LastPage => page * PageSize < n
  BY ListPageAdds
<1>5. /\ n \in Nat /\ n <= Cardinality(Id) /\ Cardinality(Id) \in Nat
      /\ S \in SUBSET Nat /\ S \subseteq Id /\ IsFiniteSet(S)
  BY ListedIsFinite, InputAssumption, FS_CardinalityType, Zenon
<1>6. /\ DOMAIN Rows(servers) = 1..n
      /\ \A m \in 1..n : /\ Rows(servers)[m].id \in S
                         /\ Place(S, Rows(servers)[m].id) = m
                         /\ Rows(servers)[m].alloc = servers[Rows(servers)[m].id]
  BY <1>3, <1>5, RowsByPlace, SMTT(60)
<1> HIDE DEF n, S
<1>7. page' \in Nat \ {0} /\ page * PageSize \in Nat /\ (page' > 1 => (page' - 1) * PageSize < Cardinality(Id))
  BY <1>2, <1>3, <1>4, <1>5, SMTT(60)
<1>8. TypeOK'
  BY <1>1, <1>2, <1>4, <1>7, ZenonT(60) DEF IInv, TypeOK, pelican
<1>9. \A k \in DOMAIN items' : items'[k].id \in stable => items'[k].alloc = began[items'[k].id]
  <2>1. \A k \in DOMAIN items : items[k].id \in stable => items[k].alloc = began[items[k].id]
    BY <1>1, Zenon DEF IInv, ItemsInv
  <2>2. \A i \in stable : servers[i] = began[i]
    BY <1>1 DEF IInv, SinceInv
  <2>3. \A m \in DOMAIN Rows(servers) :
          Rows(servers)[m].id \in stable => Rows(servers)[m].alloc = began[Rows(servers)[m].id]
    BY <1>6, <2>2, Zenon
  <2> SUFFICES ASSUME NEW k \in DOMAIN items', items'[k].id \in stable
               PROVE  items'[k].alloc = began[items'[k].id]
    OBVIOUS
  <2>4. CASE k \in DOMAIN items /\ items'[k] = items[k]
    BY <2>1, <2>4, Zenon
  <2>5. CASE \E m \in DOMAIN Rows(servers) : items'[k] = Rows(servers)[m]
    BY <2>3, <2>5
  <2> QED
    BY <1>4, <2>4, <2>5, ZenonT(60)
<1>10. ASSUME ~deleted
       PROVE  \A k \in DOMAIN items' : items'[k].id \in S /\ Place(S, items'[k].id) = k
  <2>1. \A k \in DOMAIN items : items[k].id \in S /\ Place(S, items[k].id) = k
    BY <1>1, <1>10, ZenonT(60), Zenon DEF IInv, ItemsInv, S
  <2> QED
    BY <1>4, <1>6, <1>10, <2>1, ZenonT(60)
<1>11. ASSUME ~deleted, LastPage, NEW i \in stable
       PROVE  \E k \in DOMAIN items' : items'[k].id = i
  <2>1. i \in S
    BY <1>1, Zenon DEF IInv, SinceInv, Listed, TypeOK, S
  <2>2. DOMAIN items' = 1..n
    BY <1>4, <1>5, <1>11, SMTT(60)
  <2>3. Place(S, i) \in 1..n
    BY <1>5, <2>1, OrderIsByPlace, Zenon DEF n
  <2>4. /\ items'[Place(S, i)].id \in S
        /\ Place(S, items'[Place(S, i)].id) = Place(S, i)
    BY <1>10, <1>11, <2>2, <2>3, ZenonT(60)
  <2>5. \A l, m \in S : Place(S, l) = Place(S, m) => l = m
    BY <1>5, PlaceGrows, Zenon
  <2> QED
    BY <2>1, <2>2, <2>3, <2>4, <2>5, ZenonT(60)
<1>12. quiet => ~deleted
  BY <1>1 DEF IInv, SinceInv
<1>13. ItemsInv'
  <2>1. CASE LastPage
    <3>1. pc' = "eggs"
      BY <1>2, <2>1
    <3>2. quiet => Len(items') = n
      BY <1>4, <1>12, <2>1, Zenon
    <3> QED
      BY <1>1, <1>9, <1>10, <1>11, <2>1, <3>1, <3>2, ZenonT(60) DEF ItemsInv, S, n
  <2>2. CASE ~LastPage
    <3>1. pc' = "servers" /\ (page' - 1) * PageSize = page * PageSize
      BY <1>1, <1>2, <1>3, <2>2, SMTT(60)
    <3>2. ~deleted => Len(items') = (page' - 1) * PageSize /\ (page' - 1) * PageSize < n
      BY <1>4, <2>2, <3>1, Zenon
    <3> QED
      BY <1>1, <1>9, <1>10, <3>1, <3>2, Zenon DEF ItemsInv, S, n
  <2> QED
    BY <2>1, <2>2, Zenon
<1>14. LookupInv'
  BY <1>1, <1>2, Zenon DEF IInv, LookupInv
<1>15. RetryInv' /\ pc # "idle" /\ pc' # "idle"
  BY <1>1, <1>2, AnswerResets
<1> QED
  BY <1>1, <1>8, <1>13, <1>14, <1>15, ListPageOrder, WalkGoesOn, ZenonT(60)

\* Steps of a walk that has all its items and goes on keep IInv.
LEMMA LaterStep ==
  ASSUME IInv, ListEggs \/ ListNodeAllocations
  PROVE  IInv'
<1>1. /\ pc \in {"eggs", "allocations"} /\ pc' = "allocations"
      /\ UNCHANGED <<pelican, inventory, outcome, history>>
      /\ UNCHANGED <<servers, allocs, newest, page, items, began, stable, held, quiet, deleted>>
      /\ Answered
  BY ZenonT(60) DEF ListEggs, ListNodeAllocations, pelican, history
<1>2. ItemsInv'
  BY <1>1, Zenon DEF IInv, ItemsInv
<1>3. TypeOK' /\ LookupInv'
  <2>1. CASE ListEggs
    <3>1. UNCHANGED <<nodes, lookup>>
      BY <2>1 DEF ListEggs
    <3> QED
      BY <1>1, <3>1, ZenonT(60) DEF IInv, TypeOK, LookupInv, pelican
  <2>2. CASE ListNodeAllocations
    <3> DEFINE k == CHOOSE k \in Unvisited : \A j \in Unvisited : k <= j
               n == NodeOf[items[k].alloc]
    <3>1. Unvisited # {} /\ lookup' = lookup \cup {a \in allocs : NodeOf[a] = n} /\ nodes' = nodes \cup {n}
      BY <2>2, Zenon DEF ListNodeAllocations
    <3>2. k \in Unvisited
      <4>1. Unvisited \subseteq Nat
        BY DEF Unvisited, IInv, TypeOK
      <4>2. \E l \in Unvisited : \A j \in Unvisited : l <= j
        BY <3>1, <4>1, LeastNumber, Zenon
      <4> QED
        BY <4>2, Zenon
    <3>3. n \in Node
      <4>1. k \in DOMAIN items
        BY <3>2, Zenon DEF Unvisited
      <4> HIDE DEF k
      <4>2. items[k] \in Item
        BY <4>1 DEF IInv, TypeOK
      <4>3. items[k].alloc \in Alloc
        BY <4>2, Zenon DEF Item
      <4> QED
        BY <4>3, InputAssumption
    <3> HIDE DEF n
    <3>4. TypeOK'
      BY <1>1, <3>1, <3>3, Zenon DEF IInv, TypeOK, pelican
    <3>5. LookupInv'
      BY <1>1, <3>1, Zenon DEF IInv, LookupInv
    <3> QED
      BY <3>4, <3>5
  <2> QED
    BY <2>1, <2>2, Zenon
<1>4. RetryInv' /\ pc # "idle" /\ pc' # "idle"
  BY <1>1, AnswerResets
<1>5. OrderInv'
  <2>1. pc # "idle" /\ pc' # "servers"
    BY <1>1
  <2> QED
    BY <1>1, <2>1, Zenon DEF IInv, OrderInv
<1> QED
  BY <1>1, <1>2, <1>3, <1>4, <1>5, WalkGoesOn, ZenonT(60)

\* Another attempt, or the end of the context, changes nothing but the retry.
LEMMA RetryStep ==
  ASSUME IInv, RequestAgain \/ Cancel
  PROVE  IInv'
<1>1. pc # "idle" /\ UNCHANGED <<pelican, walk, history>>
  BY DEF RequestAgain, Cancel, Asking
<1>2. UNCHANGED <<servers, allocs, newest, changes, pc, page, items, nodes, lookup, inventory, outcome,
                  began, stable, held, quiet, deleted>>
  BY <1>1, Zenon DEF pelican, walk, history
<1>3. TypeOK'
  BY <1>2, Zenon DEF IInv, TypeOK
<1>4. ItemsInv' /\ OrderInv' /\ LookupInv'
  BY <1>2, Zenon DEF IInv, ItemsInv, OrderInv, LookupInv
<1>5. RetryInv'
  <2>1. attempt \in Nat /\ failed \in Nat /\ attempt = failed + 1 /\ ended \in BOOLEAN
    BY <1>1 DEF IInv, RetryInv
  <2>2. attempt' \in Nat /\ failed' \in Nat /\ attempt' = failed' + 1
    BY <2>1 DEF RequestAgain, Cancel, TryAgain, ContextEnds
  <2>3. ended' \in BOOLEAN
    BY <2>1, Zenon DEF RequestAgain, Cancel, TryAgain, ContextEnds
  <2> QED
    BY <2>2, <2>3, Zenon DEF RetryInv
<1> QED
  BY <1>1, <1>2, <1>3, <1>4, <1>5, WalkGoesOn, Zenon

\* A walk that fails or is refused keeps IInv: it has failed as often as it may,
\* or its context has ended.
LEMMA FailStep ==
  ASSUME IInv, WalkFails \/ WalkRefused
  PROVE  IInv'
<1>1. pc # "idle" /\ UNCHANGED <<pelican, history, inventory>>
  BY Zenon DEF WalkFails, WalkRefused, Asking
<1>2. attempt \in Nat /\ failed \in Nat /\ attempt = failed + 1 /\ ended \in BOOLEAN
      /\ inventory' \in Seq(Item) \cup {None}
  BY <1>1, Zenon DEF IInv, RetryInv, TypeOK
<1>3. CASE WalkFails
  <2>1. Finish("error") /\ outcome' = "error" /\ pc' = "idle" /\ GiveUp
    BY <1>3 DEF WalkFails, Finish
  <2>2. attempt' \in Nat /\ failed' \in Nat
    BY <1>2, <2>1, Zenon DEF GiveUp
  <2>3. ended' \in BOOLEAN
    BY <1>2, <2>1 DEF GiveUp
  <2>4. ended' \/ failed' >= Attempts
    BY <1>2, <2>1, AttemptsAssumption, ZenonT(60) DEF GiveUp, Exhausted
  <2>5. TransientIsTolerated' /\ ExactWhenQuiet' /\ StableServersAreFound' /\ FoundWasThere'
    BY <2>1, <2>4, Zenon DEF TransientIsTolerated, ExactWhenQuiet, StableServersAreFound, FoundWasThere
  <2> QED
    BY <1>1, <1>2, <2>1, <2>2, <2>3, <2>5, WalkIsOver, Zenon
<1>4. CASE WalkRefused
  <2>1. Finish("refused") /\ outcome' = "refused" /\ pc' = "idle" /\ Answered
    BY <1>4 DEF WalkRefused, Finish
  <2>2. RetryInv'
    BY <2>1, AnswerResets
  <2> QED
    BY <1>1, <1>2, <2>1, <2>2, NoResultYet, WalkIsOver, Zenon DEF RetryInv
<1> QED
  BY <1>3, <1>4

\* An undisturbed walk has listed exactly what Pelican has, and it knows the
\* allocations.
LEMMA QuietItems ==
  ASSUME IInv, pc = "allocations", quiet
  PROVE  /\ items = Rows(began)
         /\ Unvisited = {} => \A k \in DOMAIN items : items[k].alloc \in lookup
<1> DEFINE S == Listed(servers)
           n == Cardinality(S)
<1>1. servers = began /\ ~deleted /\ stable = S /\ servers \in Servers /\ items \in Seq(Item)
  BY Zenon DEF IInv, SinceInv, TypeOK
<1>2. Len(items) = n /\ \A k \in DOMAIN items : items[k].id \in S /\ Place(S, items[k].id) = k
  BY <1>1 DEF IInv, ItemsInv
<1>3. \A k \in DOMAIN items : items[k].alloc = servers[items[k].id]
  BY <1>1, <1>2, Zenon DEF IInv, ItemsInv
<1>4. S \in SUBSET Nat /\ IsFiniteSet(S) /\ n \in Nat
  BY ListedIsFinite, Zenon
<1>5. /\ Rows(servers) \in Seq(Item) /\ Len(Rows(servers)) = n
      /\ \A k \in 1..n : /\ Rows(servers)[k].id \in S
                         /\ Place(S, Rows(servers)[k].id) = k
                         /\ Rows(servers)[k].alloc = servers[Rows(servers)[k].id]
  BY <1>1, RowsByPlace, Zenon
<1>6. \A l, m \in S : Place(S, l) = Place(S, m) => l = m
  BY <1>4, PlaceGrows
<1>7. \A i \in S : servers[i] \in allocs
  BY Zenon DEF IInv, PelicanInv
<1> HIDE DEF S, n
<1>8. DOMAIN items = 1..n /\ DOMAIN Rows(servers) = 1..n
  BY <1>1, <1>2, <1>4, <1>5, SMTT(60)
<1>9. ASSUME NEW k \in 1..n
      PROVE  items[k] = Rows(servers)[k]
  <2>1. items[k].id = Rows(servers)[k].id
    <3>1. items[k].id \in S /\ Place(S, items[k].id) = k
      BY <1>2, <1>8, Zenon
    <3>2. Rows(servers)[k].id \in S /\ Place(S, Rows(servers)[k].id) = k
      BY <1>5, Zenon
    <3> QED
      BY <1>6, <3>1, <3>2, Zenon
  <2>2. items[k].alloc = Rows(servers)[k].alloc
    BY <1>3, <1>5, <1>8, <2>1, ZenonT(60)
  <2>3. items[k] \in Item /\ Rows(servers)[k] \in Item
    BY <1>1, <1>5, <1>8, SMTT(60)
  <2> QED
    BY <2>1, <2>2, <2>3 DEF Item
<1>10. items = Rows(servers)
  BY <1>1, <1>2, <1>4, <1>5, <1>8, <1>9, SMTT(60)
<1>11. ASSUME Unvisited = {}, NEW k \in DOMAIN items
       PROVE  items[k].alloc \in lookup
  <2>1. NodeOf[items[k].alloc] \in nodes
    BY <1>11, Zenon DEF Unvisited
  <2>2. items[k].alloc \in allocs
    BY <1>2, <1>3, <1>7, Zenon
  <2> QED
    BY <2>1, <2>2 DEF IInv, LookupInv
<1> QED
  BY <1>1, <1>10, <1>11, Zenon

\* The selection of a list without two rows of one server has every Minecraft
\* server of the list once.
LEMMA SelectedOnce ==
  ASSUME NEW rows \in Seq(Item), NEW k \in DOMAIN rows, rows[k].id \in Minecraft,
         \A j \in DOMAIN rows : rows[j].id = rows[k].id => j = k
  PROVE  \E m \in DOMAIN Selected(rows) :
            /\ Selected(rows)[m] = rows[k]
            /\ \A l \in DOMAIN Selected(rows) : Selected(rows)[l].id = rows[k].id => l = m
<1> DEFINE kept == {j \in DOMAIN rows : rows[j].id \in Minecraft}
<1>1. /\ kept \in SUBSET Nat /\ IsFiniteSet(kept) /\ DOMAIN Selected(rows) = 1..Cardinality(kept)
      /\ \A m \in DOMAIN Selected(rows) :
           InOrder(kept)[m] \in kept /\ Selected(rows)[m] = rows[InOrder(kept)[m]]
      /\ \A j \in kept : Place(kept, j) \in DOMAIN Selected(rows)
                         /\ Selected(rows)[Place(kept, j)] = rows[j]
  BY SelectedRows, Zenon
<1>2. k \in kept /\ \A j \in kept : j \in DOMAIN rows
  BY Zenon
<1> HIDE DEF kept
<1>3. \A m \in 1..Cardinality(kept) : Place(kept, InOrder(kept)[m]) = m
  BY <1>1, OrderIsByPlace, Zenon
<1>4. ASSUME NEW l \in DOMAIN Selected(rows), Selected(rows)[l].id = rows[k].id
      PROVE  l = Place(kept, k)
  <2>1. rows[InOrder(kept)[l]].id = rows[k].id /\ InOrder(kept)[l] \in DOMAIN rows
    BY <1>1, <1>2, <1>4, Zenon
  <2>2. InOrder(kept)[l] = k
    BY <2>1, Zenon
  <2> QED
    BY <1>1, <1>3, <2>2, Zenon
<1> QED
  BY <1>1, <1>2, <1>4, Zenon

\* resolveBackendHost refuses just the addresses that cannot be used.
LEMMA ResolvesUsable ==
  ASSUME NEW a \in Alloc
  PROVE  Resolves(a) <=> Usable(AddressOf[a])
<1> DEFINE h == AddressOf[a]
<1>1. h \in Host /\ h # None /\ Fallback # None /\ Empty \notin Unspecified
  BY InputAssumption
<1>2. CASE h \notin Unspecified \cup {Empty}
  BY <1>1, <1>2 DEF Resolves, ResolveBackendHost, Usable
<1>3. CASE h \in Unspecified /\ Fallback \notin Unspecified \cup {Empty}
  BY <1>1, <1>3 DEF Resolves, ResolveBackendHost, Usable
<1>4. CASE h = Empty \/ (h \in Unspecified /\ Fallback \in Unspecified \cup {Empty})
  BY <1>1, <1>4 DEF Resolves, ResolveBackendHost, Usable
<1> QED
  BY <1>2, <1>3, <1>4, Zenon

\* The selection of a list is in the order of the list.
LEMMA SelectedInOrder ==
  ASSUME NEW rows \in Seq(Item)
  PROVE  /\ \A k \in DOMAIN Selected(rows) :
              \E m \in DOMAIN rows : Selected(rows)[k] = rows[m] /\ rows[m].id \in Minecraft
         /\ \A j, k \in DOMAIN Selected(rows) : j < k =>
              \E l, m \in DOMAIN rows : l < m /\ Selected(rows)[j] = rows[l] /\ Selected(rows)[k] = rows[m]
<1> DEFINE kept == {k \in DOMAIN rows : rows[k].id \in Minecraft}
<1>1. /\ kept \in SUBSET Nat /\ IsFiniteSet(kept) /\ DOMAIN Selected(rows) = 1..Cardinality(kept)
      /\ \A m \in DOMAIN Selected(rows) :
           InOrder(kept)[m] \in kept /\ Selected(rows)[m] = rows[InOrder(kept)[m]]
  BY SelectedRows, Zenon
<1>2. \A k \in kept : k \in DOMAIN rows /\ rows[k].id \in Minecraft
  OBVIOUS
<1> HIDE DEF kept
<1>3. \A m \in 1..Cardinality(kept) : Place(kept, InOrder(kept)[m]) = m
  BY <1>1, OrderIsByPlace, Zenon
<1>4. ASSUME NEW j \in DOMAIN Selected(rows), NEW k \in DOMAIN Selected(rows), j < k
      PROVE  InOrder(kept)[j] < InOrder(kept)[k]
  <2>1. InOrder(kept)[j] \in Nat /\ InOrder(kept)[k] \in Nat
    BY <1>1, Zenon, Zenon
  <2>2. Place(kept, InOrder(kept)[j]) < Place(kept, InOrder(kept)[k])
    BY <1>1, <1>3, <1>4, Zenon
  <2> QED
    BY <1>1, <2>1, <2>2, LowerPlace, Zenon
<1> QED
  BY <1>1, <1>2, <1>4, ZenonT(60)

\* Discovered keeps IInv: its result is what the properties promise.
LEMMA DiscoveredStep ==
  ASSUME IInv, Discovered
  PROVE  IInv'
<1> DEFINE found == Selected(items)
           mapped == \A k \in DOMAIN found : found[k].alloc \in lookup /\ Resolves(found[k].alloc)
<1>1. /\ pc = "allocations" /\ Unvisited = {} /\ UNCHANGED <<pelican, history, retryVars>>
      /\ UNCHANGED <<began, stable, held, quiet, deleted, attempt, failed, ended>>
  BY DEF Discovered, history, retryVars
<1>2. IF mapped THEN inventory' = found /\ Finish("ok") ELSE inventory' = inventory /\ Finish("unresolved")
  BY SMTT(60) DEF Discovered
<1>3. items \in Seq(Item) /\ inventory \in Seq(Item) \cup {None}
  BY DEF IInv, TypeOK
<1>4. found \in Seq(Item)
  BY <1>3, SelectedRows, Zenon
<1>5. pc' = "idle" /\ outcome' = (IF mapped THEN "ok" ELSE "unresolved")
      /\ inventory' \in Seq(Item) \cup {None}
  BY <1>2, <1>3, <1>4, Zenon DEF Finish
<1>6. TransientIsTolerated'
  BY <1>5 DEF TransientIsTolerated
<1>7. ExactWhenQuiet'
  <2> SUFFICES ASSUME quiet PROVE ExactWhenQuiet'
    BY <1>1 DEF ExactWhenQuiet
  <2>1. items = Rows(began) /\ \A k \in DOMAIN items : items[k].alloc \in lookup
    BY <1>1, QuietItems, Zenon
  <2>2. \A m \in DOMAIN found : \E k \in DOMAIN items : found[m] = items[k]
    BY <1>3, SelectedRows, Zenon
  <2>3. \A m \in DOMAIN found : found[m].alloc \in lookup
    BY <2>1, <2>2, Zenon
  <2>4. mapped <=> \A k \in DOMAIN found : Usable(AddressOf[found[k].alloc])
    <3>1. \A k \in DOMAIN found : found[k].alloc \in Alloc
      BY <1>4, ItemFields, Zenon
    <3> QED
      BY <2>3, <3>1, ResolvesUsable, Zenon
  <2>5. found = Selected(Rows(began))
    BY <2>1, Zenon
  <2>6. Selected(Rows(began'))  = found
    BY <1>1, <2>5, Zenon
  <2> HIDE DEF found, mapped
  <2>7. /\ mapped => outcome' = "ok" /\ inventory' = found
        /\ ~mapped => outcome' = "unresolved"
    BY <1>2, <1>5
  <2> QED
    BY <2>4, <2>6, <2>7, ZenonT(60) DEF ExactWhenQuiet
<1>8. StableServersAreFound'
  <2> SUFFICES ASSUME outcome' = "ok", ~deleted, NEW i \in stable \cap Minecraft
               PROVE  \E k \in DOMAIN found :
                         /\ found[k] = [id |-> i, alloc |-> began[i]]
                         /\ \A j \in DOMAIN found : found[j].id = i => j = k
    BY <1>1, <1>2, <1>5, ZenonT(60) DEF StableServersAreFound
  <2>1. PICK k \in DOMAIN items : items[k].id = i
    BY <1>1, Zenon DEF IInv, ItemsInv
  <2>2. items[k].alloc = began[i] /\ items[k] \in Item
    <3>1. items[k].alloc = began[i]
      BY <1>1, <2>1, Zenon DEF IInv, ItemsInv
    <3>2. items[k] \in Item
      BY <1>3
    <3> QED
      BY <3>1, <3>2, Zenon
  <2>3. items[k] = [id |-> i, alloc |-> began[i]]
    BY <2>1, <2>2, ZenonT(60) DEF Item
  <2>4. \A j \in DOMAIN items : Place(Listed(servers), items[j].id) = j
    BY <1>1, Zenon DEF IInv, ItemsInv
  <2>5. \A j \in DOMAIN items : items[j].id = items[k].id => j = k
    BY <2>4, Zenon
  <2>6. items[k].id \in Minecraft
    BY <2>1
  <2>7. \E m \in DOMAIN found :
           /\ found[m] = items[k]
           /\ \A l \in DOMAIN found : found[l].id = items[k].id => l = m
    BY <1>3, <2>5, <2>6, SelectedOnce, Zenon
  <2> QED
    BY <2>1, <2>3, <2>7, ZenonT(60)
<1>9. attempt' \in Nat /\ failed' \in Nat /\ ended' \in BOOLEAN
  BY <1>1, Zenon DEF IInv, RetryInv
<1>10. Finish("ok") \/ Finish("unresolved")
  BY <1>2, Zenon
<1>13. FoundWasThere'
  <2> SUFFICES ASSUME outcome' = "ok"
               PROVE  /\ \A k \in DOMAIN found : found[k].id \in Minecraft /\ found[k] \in held
                      /\ \A j, k \in DOMAIN found : j < k =>
                           /\ found[j].id < found[k].id
                           /\ found[j].alloc = found[k].alloc => found[j].id \notin stable \/ found[k].id \notin stable
    BY <1>1, <1>2, <1>5, ZenonT(60) DEF FoundWasThere
  <2>1. /\ \A k \in DOMAIN items : items[k] \in held
        /\ \A k \in DOMAIN items : items[k].id \in stable => items[k].alloc = began[items[k].id]
        /\ \A j, k \in DOMAIN items : j < k => items[j].id < items[k].id
    BY <1>1, Zenon DEF IInv, OrderInv, ItemsInv
  <2>2. /\ \A k \in DOMAIN found :
              \E m \in DOMAIN items : found[k] = items[m] /\ items[m].id \in Minecraft
        /\ \A j, k \in DOMAIN found : j < k =>
              \E l, m \in DOMAIN items : l < m /\ found[j] = items[l] /\ found[k] = items[m]
    BY <1>3, SelectedInOrder, Zenon
  <2>3. \A k \in DOMAIN found : found[k].id \in Minecraft /\ found[k] \in held
    BY <2>1, <2>2, Zenon
  <2>4. \A i \in stable : i \in Listed(began)
    BY <1>1, Zenon DEF IInv, SinceInv, TypeOK, Listed
  <2>5. ASSUME NEW l \in DOMAIN items, NEW m \in DOMAIN items, l < m, items[l].alloc = items[m].alloc,
               items[l].id \in stable, items[m].id \in stable
        PROVE  FALSE
    <3>1. began[items[l].id] = began[items[m].id]
      BY <2>1, <2>5, Zenon
    <3>2. items[l].id = items[m].id
      BY <2>4, <2>5, <3>1, Zenon DEF IInv, AloneInv, Alone
    <3>3. items[l].id < items[m].id /\ items[l].id \in Nat
      <4>1. items[l].id \in Nat
        BY <1>3, <2>5, ItemFields, Zenon
      <4> QED
        BY <2>1, <2>5, <4>1, Zenon
    <3> QED
      BY <3>2, <3>3
  <2> HIDE DEF found
  <2>6. ASSUME NEW j \in DOMAIN found, NEW k \in DOMAIN found, j < k
        PROVE  /\ found[j].id < found[k].id
               /\ found[j].alloc = found[k].alloc => found[j].id \notin stable \/ found[k].id \notin stable
    <3>1. PICK l \in DOMAIN items, m \in DOMAIN items : l < m /\ found[j] = items[l] /\ found[k] = items[m]
      BY <2>2, <2>6, Zenon
    <3> QED
      BY <2>1, <2>5, <3>1, Zenon
  <2> QED
    BY <2>3, <2>6, Zenon
<1> HIDE DEF found, mapped
<1>11. CASE Finish("ok")
  BY <1>1, <1>5, <1>6, <1>7, <1>8, <1>9, <1>11, <1>13, WalkIsOver, ZenonT(60)
<1>12. CASE Finish("unresolved")
  BY <1>1, <1>5, <1>6, <1>7, <1>8, <1>9, <1>12, <1>13, WalkIsOver, ZenonT(60)
<1> QED
  BY <1>10, <1>11, <1>12

-----------------------------------------------------------------------------
\* The theorems.

\* Nothing has been discovered and no walk is going on.
LEMMA InitIInv == Init => IInv
<1> SUFFICES ASSUME Init PROVE IInv
  OBVIOUS
<1>1. TypeOK
  <2>1. newest \in Nat
    BY InputAssumption DEF Init, Listed
  <2>2. changes \in 0..MaxChanges /\ page \in Nat \ {0} /\ ~(page > 1)
    BY InputAssumption DEF Init
  <2>3. began \in Servers /\ items \in Seq(Item) /\ held \subseteq Item
    BY DEF Init, NoServers, Servers
  <2>4. quiet \in BOOLEAN /\ deleted \in BOOLEAN
    BY Zenon DEF Init
  <2> QED
    BY <2>1, <2>2, <2>3, <2>4, Zenon DEF Init, TypeOK
<1>2. PelicanInv
  <2>1. \A i \in Listed(servers) : servers[i] \in Alloc
    BY DEF Init, Servers, Listed
  <2> QED
    BY <2>1, Zenon DEF Init, PelicanInv
<1>3. RetryInv
  BY ZenonT(60) DEF Init, RetryInit, RetryInv
<1>4. IdleInv /\ SinceInv /\ ItemsInv /\ OrderInv /\ LookupInv
  BY ZenonT(60) DEF Init, IdleInv, SinceInv, ItemsInv, OrderInv, LookupInv
<1>5. TransientIsTolerated /\ ExactWhenQuiet /\ StableServersAreFound /\ FoundWasThere
  BY DEF Init, TransientIsTolerated, ExactWhenQuiet, StableServersAreFound, FoundWasThere
<1>6. AloneInv
  <2>1. Listed(began) = {}
    BY DEF Init, NoServers, Listed
  <2> QED
    BY <2>1, Zenon DEF Init, AloneInv, Alone
<1> QED
  BY <1>1, <1>2, <1>3, <1>4, <1>5, <1>6, ZenonT(60) DEF IInv

\* Each step of a walk, and each change of Pelican, keeps IInv.
LEMMA NextStep ==
  ASSUME IInv, [Next]_vars
  PROVE  IInv'
<1>1. CASE UNCHANGED vars
  <2>1. UNCHANGED <<pelican, walk, history, retryVars>>
    BY <1>1, Zenon DEF vars, pelican, walk, history, retryVars
  <2>2. TypeOK' /\ PelicanInv' /\ AloneInv'
    BY <1>1, ZenonT(60) DEF vars, IInv, TypeOK, PelicanInv, AloneInv
  <2>3. RetryInv' /\ IdleInv' /\ SinceInv'
    BY <1>1, Zenon DEF vars, IInv, RetryInv, IdleInv, SinceInv
  <2>4. ItemsInv' /\ OrderInv' /\ LookupInv'
    BY <1>1, ZenonT(60) DEF vars, IInv, ItemsInv, OrderInv, LookupInv
  <2>5. TransientIsTolerated' /\ ExactWhenQuiet' /\ StableServersAreFound' /\ FoundWasThere'
    BY <2>1, ResultIsKept DEF walk, retryVars, IInv
  <2> QED
    BY <2>2, <2>3, <2>4, <2>5, ZenonT(60) DEF IInv
<1> QED
  BY <1>1, RefreshStep, ListPageStep, LaterStep, DiscoveredStep, RetryStep, FailStep, PelicanStep, Zenon
     DEF Next, Walk

\* The state of a walk and of Pelican, and what the walk has found so far, in
\* every reachable state.
THEOREM Inductive == Spec => []IInv
<1>1. IInv /\ [Next]_vars => IInv'
  BY NextStep
<1> QED
  BY <1>1, InitIInv, PTL DEF Spec

\* The walk keeps its types, and listAll asks for no page beyond the longest list
\* that Pelican can have.
THEOREM TypeCorrect == Spec => []TypeOK
<1>1. IInv => TypeOK
  BY DEF IInv
<1> QED
  BY <1>1, Inductive, PTL

\* Discover returns exactly what Pelican has if Pelican did not change, and it
\* refuses only an empty address, or an unspecified one without a usable fallback.
THEOREM QuietWalkIsExact == Spec => []ExactWhenQuiet
<1>1. IInv => ExactWhenQuiet
  BY DEF IInv
<1> QED
  BY <1>1, Inductive, PTL

\* The pages of listAll lose and repeat no server that was there unchanged during
\* the walk unless a server is deleted.
THEOREM PagesKeepServers == Spec => []StableServersAreFound
<1>1. IInv => StableServersAreFound
  BY Zenon DEF IInv
<1> QED
  BY <1>1, Inductive, PTL

\* Whatever Pelican does during the walk, its result repeats no server, invents no
\* allocation, and puts two servers on one only if one of them has changed.
THEOREM NothingIsInvented == Spec => []FoundWasThere
<1>1. IInv => FoundWasThere
  BY Zenon DEF IInv
<1> QED
  BY <1>1, Inductive, PTL

\* A walk fails only when one of its requests has used up its own attempts or the
\* context has ended, however many requests came before.
THEOREM AttemptsPerRequest == Spec => []TransientIsTolerated
<1>1. IInv => TransientIsTolerated
  BY DEF IInv
<1> QED
  BY <1>1, Inductive, PTL

\* Each step of the walk advances it.
LEMMA WalkStepAdvances ==
  ASSUME IInv, Walk
  PROVE  Advances
<1>1. CASE ListPage
  <2>1. pc = "servers" /\ IF LastPage THEN pc' = "eggs" /\ page' = 1 ELSE page' = page + 1 /\ pc' = pc
    BY <1>1 DEF ListPage
  <2>2. ~LastPage => page * PageSize < Cardinality(Listed(servers))
    BY <1>1, ListPageAdds, Zenon
  <2>3. /\ Cardinality(Listed(servers)) \in Nat /\ Cardinality(Listed(servers)) <= Cardinality(Id)
        /\ Cardinality(Id) \in Nat /\ page * PageSize \in Nat
    <3>1. servers \in Servers /\ page \in Nat /\ PageSize \in Nat
      BY InputAssumption, ZenonT(60) DEF IInv, TypeOK
    <3> QED
      BY <3>1, ListedIsFinite, InputAssumption, FS_CardinalityType, SMTT(60)
  <2>4. ~LastPage => page * PageSize < Cardinality(Id)
    BY <2>2, <2>3
  <2> QED
    BY <2>1, <2>4, Zenon DEF Advances
<1>2. CASE ListEggs
  BY <1>2, Zenon DEF ListEggs, Advances
<1>3. CASE ListNodeAllocations
  <2> DEFINE k == CHOOSE k \in Unvisited : \A j \in Unvisited : k <= j
             n == NodeOf[items[k].alloc]
  <2>1. Unvisited # {} /\ nodes' = nodes \cup {n} /\ pc = "allocations" /\ pc' = pc
    BY <1>3, Zenon DEF ListNodeAllocations
  <2>2. k \in Unvisited
    <3>1. Unvisited \subseteq Nat
      BY DEF Unvisited, IInv, TypeOK
    <3>2. \E l \in Unvisited : \A j \in Unvisited : l <= j
      BY <2>1, <3>1, LeastNumber
    <3> QED
      BY <3>2, Zenon
  <2>3. n \notin nodes
    BY <2>2, Zenon DEF Unvisited
  <2>4. nodes' \subseteq Node
    <3>1. IInv'
      BY <1>3, LaterStep, Zenon
    <3> QED
      BY <3>1, Zenon DEF IInv, TypeOK
  <2> HIDE DEF n
  <2>5. nodes \subseteq nodes' /\ nodes' # nodes
    BY <2>1, <2>3
  <2> QED
    BY <2>1, <2>4, <2>5, Zenon DEF Advances
<1>4. CASE Discovered \/ WalkFails \/ WalkRefused
  <2>1. pc' = "idle"
    BY <1>4, Zenon DEF Discovered, WalkFails, WalkRefused, Finish
  <2> QED
    BY <2>1, Zenon DEF Advances
<1>5. CASE RequestAgain
  <2>1. UNCHANGED <<pc, page, nodes>> /\ attempt' = attempt + 1 /\ ~(attempt >= Attempts)
    BY <1>5, Zenon DEF RequestAgain, TryAgain, Exhausted, walk
  <2>2. attempt \in Nat /\ Attempts \in Nat
    BY AttemptsAssumption DEF IInv, RetryInv
  <2>3. attempt' <= Attempts
    BY <2>1, <2>2
  <2> QED
    BY <2>1, <2>3, Zenon DEF Advances
<1> QED
  BY <1>1, <1>2, <1>3, <1>4, <1>5, Zenon DEF Walk

\* listAll, the loop over the nodes and retry.Do make progress with every request,
\* while Pelican changes at will: the walk is bounded in the pages, nodes and
\* attempts of any instance.
THEOREM EveryStepAdvances == Spec => WalkAdvances
<1>1. ASSUME IInv, [Next]_vars
      PROVE  [/\ Walk => Advances
              /\ pc # "idle" => Advances \/ UNCHANGED <<pc, page, nodes, attempt>>]_vars
  <2>1. Walk => Advances
    BY <1>1, WalkStepAdvances, Zenon
  <2>2. Cancel \/ Pelican => UNCHANGED <<pc, page, nodes, attempt>>
    <3>1. Cancel => UNCHANGED <<pc, page, nodes, attempt>>
      BY Zenon DEF Cancel, ContextEnds, walk
    <3>2. Pelican => UNCHANGED walk /\ UNCHANGED retryVars
      BY Zenon DEF Pelican, ServerCreated, ServerDeleted, ServerMoved, AllocationsChange
    <3>3. Pelican => UNCHANGED <<pc, page, nodes, attempt>>
      BY <3>2, Zenon DEF walk, retryVars
    <3> QED
      BY <3>1, <3>3, Zenon
  <2>3. pc # "idle" => ~Refresh
    BY Zenon DEF Refresh
  <2>4. UNCHANGED vars => UNCHANGED <<pc, page, nodes, attempt>>
    BY Zenon DEF vars
  <2> QED
    BY <1>1, <2>1, <2>2, <2>3, <2>4, Zenon DEF Next
<1> QED
  BY <1>1, Inductive, PTL DEF Spec, WalkAdvances

=============================================================================
