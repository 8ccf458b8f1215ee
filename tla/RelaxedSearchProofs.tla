------------------------- MODULE RelaxedSearchProofs -------------------------
(* Proofs about the distributed search with relaxed dependencies, for every set
   of vertices and servers, every graph, every list of queries and every relax. *)
EXTENDS RelaxedSearch, NearestProofs, FunctionTheorems

-----------------------------------------------------------------------------
(* Finite sets of positions *)

(* A set of positions moved by c has as many elements. *)
LEMMA MovedSize ==
  ASSUME NEW S, IsFiniteSet(S), S \subseteq Int, NEW c \in Int, NEW T,
         \A x \in S : x + c \in T, \A y \in T : y \in Int /\ y - c \in S
  PROVE  IsFiniteSet(T) /\ Cardinality(T) = Cardinality(S)
<1> DEFINE f == [x \in S |-> x + c]
<1>1. f \in [S -> T] /\ \A x \in S : f[x] = x + c
  OBVIOUS
<1>2. \A x, y \in S : f[x] = f[y] => x = y
  BY <1>1
<1>3. \A y \in T : \E x \in S : f[x] = y
  <2>1. ASSUME NEW y \in T PROVE f[y - c] = y /\ y - c \in S
    BY <1>1
  <2> QED BY <2>1
<1> HIDE DEF f
<1>4. f \in Injection(S, T)
  BY <1>1, <1>2, Fun_IsInj
<1>5. f \in Surjection(S, T)
  BY <1>1, <1>3, Fun_IsSurj
<1>6. f \in Bijection(S, T)
  BY <1>4, <1>5, Fun_IsBij
<1> QED BY <1>6, FS_Bijection DEF ExistsBijection

(* A set of positions of a list is finite, and no larger than the list. *)
LEMMA FinitePositions ==
  ASSUME NEW n \in Nat, NEW S \in SUBSET (1 .. n)
  PROVE  IsFiniteSet(S) /\ Cardinality(S) \in Nat /\ Cardinality(S) <= n
<1>1. IsFiniteSet(1 .. n) /\ Cardinality(1 .. n) = n
  BY FS_Interval
<1> QED BY <1>1, FS_Subset, FS_CardinalityType

(* The positions below a higher one of a set are more. *)
LEMMA BelowGrows ==
  ASSUME NEW S \in SUBSET Nat, IsFiniteSet(S), NEW i \in S, NEW k \in Nat, i < k
  PROVE  /\ Cardinality({j \in S : j < i}) \in Nat /\ Cardinality({j \in S : j < k}) \in Nat
         /\ Cardinality({j \in S : j < i}) < Cardinality({j \in S : j < k})
<1> DEFINE A == {j \in S : j < i}
           B == {j \in S : j < k}
<1>0. \A j \in S : j \in Nat
  OBVIOUS
<1>1. A \in SUBSET B /\ B \in SUBSET S /\ i \in B /\ i \notin A
  <2>1. \A j \in S : j < i => j < k
    BY <1>0
  <2>2. ~ (i < i)
    BY <1>0
  <2> QED BY <2>1, <2>2
<1> HIDE DEF A, B
<1>2. IsFiniteSet(B) /\ Cardinality(B) \in Nat
  BY <1>1, FS_Subset, FS_CardinalityType
<1>3. Cardinality(A) <= Cardinality(B) /\ (Cardinality(B) = Cardinality(A) => B = A)
      /\ IsFiniteSet(A)
  BY <1>1, <1>2, FS_Subset
<1>4. Cardinality(A) \in Nat /\ Cardinality(A) < Cardinality(B)
  BY <1>1, <1>2, <1>3, FS_CardinalityType
<1> QED BY <1>2, <1>4 DEF A, B

(* InOrder lists a set of positions, each once. *)
LEMMA InOrderLists ==
  ASSUME NEW S \in SUBSET Nat, IsFiniteSet(S)
  PROVE  /\ Cardinality(S) \in Nat
         /\ InOrder(S) \in [1 .. Cardinality(S) -> S]
         /\ InOrder(S) \in Seq(S) /\ Len(InOrder(S)) = Cardinality(S)
         /\ \A m, n \in 1 .. Cardinality(S) : InOrder(S)[m] = InOrder(S)[n] => m = n
         /\ \A i \in S : \E n \in 1 .. Cardinality(S) : InOrder(S)[n] = i
<1> DEFINE k == Cardinality(S)
           below(i) == Cardinality({j \in S : j < i})
           f == [i \in S |-> below(i) + 1]
<1>1. k \in Nat
  BY FS_CardinalityType
<1>2. ASSUME NEW i \in S
      PROVE  below(i) \in Nat /\ below(i) + 1 \in 1 .. k
  <2> DEFINE A == {j \in S : j < i}
  <2>1. A \in SUBSET S /\ i \notin A
    OBVIOUS
  <2> HIDE DEF A
  <2>2. IsFiniteSet(A) /\ Cardinality(A) <= k /\ (k = Cardinality(A) => S = A)
    BY <2>1, FS_Subset
  <2>3. Cardinality(A) \in Nat /\ Cardinality(A) < k
    BY <1>1, <2>1, <2>2, FS_CardinalityType
  <2>4. below(i) = Cardinality(A)
    BY DEF A
  <2> QED BY <1>1, <2>3, <2>4
<1>3. ASSUME NEW i \in S, NEW j \in S, below(i) = below(j)
      PROVE  i = j
  <2>1. i \in Nat /\ j \in Nat
    OBVIOUS
  <2>2. i < j => below(i) < below(j)
    BY <2>1, BelowGrows
  <2>3. j < i => below(j) < below(i)
    BY <2>1, BelowGrows
  <2>4. below(i) \in Nat
    BY <1>2
  <2> HIDE DEF below
  <2> QED BY <2>1, <2>2, <2>3, <2>4, <1>3
<1> HIDE DEF below
<1>4. f \in Injection(S, 1 .. k)
  <2> HIDE DEF k
  <2>1. f \in [S -> 1 .. k]
    BY <1>2
  <2>2. \A i, j \in S : f[i] = f[j] => i = j
    BY <1>2, <1>3
  <2> HIDE DEF f
  <2> QED BY <2>1, <2>2, Fun_IsInj
<1>5. IsFiniteSet(1 .. k) /\ Cardinality(1 .. k) = k
  BY <1>1, FS_Interval
<1>6. \A n \in 1 .. k : \E i \in S : below(i) = n - 1
  <2>1. f \in Surjection(S, 1 .. k)
    <3> HIDE DEF f
    <3> QED BY <1>4, <1>5, FS_Injection
  <2>2. \A n \in 1 .. k : \E i \in S : f[i] = n
    <3> HIDE DEF f, k
    <3> QED BY <2>1, Fun_SurjectionProperties, Zenon
  <2> HIDE DEF k
  <2> QED BY <1>2, <2>2
<1> DEFINE at(n) == CHOOSE i \in S : below(i) = n - 1
<1>7. \A n \in 1 .. k : at(n) \in S /\ below(at(n)) = n - 1
  BY <1>6
<1>8. InOrder(S) = [n \in 1 .. k |-> at(n)]
  BY DEF InOrder, below
<1>9. \A i \in S : at(below(i) + 1) = i
  <2>1. ASSUME NEW i \in S PROVE at(below(i) + 1) = i
    <3>1. at(below(i) + 1) \in S /\ below(at(below(i) + 1)) = below(i)
      <4>1. below(i) + 1 \in 1 .. k /\ (below(i) + 1) - 1 = below(i)
        BY <1>2
      <4> HIDE DEF k, at
      <4> QED BY <4>1, <1>7
    <3> HIDE DEF at
    <3> QED BY <3>1, <1>3
  <2> QED BY <2>1
<1> HIDE DEF k, at, f
<1>10. InOrder(S) \in [1 .. k -> S] /\ \A n \in 1 .. k : InOrder(S)[n] = at(n)
  BY <1>7, <1>8
<1>11. \A m, n \in 1 .. k : InOrder(S)[m] = InOrder(S)[n] => m = n
  <2>1. ASSUME NEW m \in 1 .. k, NEW n \in 1 .. k, InOrder(S)[m] = InOrder(S)[n] PROVE m = n
    <3>1. m - 1 = n - 1
      BY <2>1, <1>7, <1>10
    <3> QED BY <3>1, <1>1
  <2> QED BY <2>1
<1>12. \A i \in S : \E n \in 1 .. k : InOrder(S)[n] = i
  <2>1. ASSUME NEW i \in S PROVE InOrder(S)[below(i) + 1] = i /\ below(i) + 1 \in 1 .. k
    BY <1>2, <1>9, <1>10
  <2> QED BY <2>1
<1>13. InOrder(S) \in Seq(S) /\ Len(InOrder(S)) = k
  BY <1>1, <1>10
<1> QED BY <1>1, <1>10, <1>11, <1>12, <1>13 DEF k

-----------------------------------------------------------------------------
(* Batches *)

(* The vertices not seen, each once. *)
LEMMA UnseenIs ==
  ASSUME NEW list \in Seq(Items), NEW seen
  PROVE  /\ Unseen(list, seen) \in Seq(Items)
         /\ ToSet(Unseen(list, seen)) = ToSet(list) \ seen
         /\ \A m, n \in DOMAIN Unseen(list, seen) :
              Unseen(list, seen)[m] = Unseen(list, seen)[n] => m = n
<1> DEFINE S == {i \in DOMAIN list : /\ list[i] \notin seen
                                     /\ \A j \in 1 .. i - 1 : list[j] # list[i]}
           first == InOrder(S)
           u == [n \in DOMAIN first |-> list[first[n]]]
<1>1. Unseen(list, seen) = u
  BY DEF Unseen
<1>2. DOMAIN list = 1 .. Len(list) /\ Len(list) \in Nat /\ \A i \in 1 .. Len(list) : list[i] \in Items
  OBVIOUS
<1>3. S \in SUBSET (1 .. Len(list)) /\ S \in SUBSET Nat
  BY <1>2
<1>4. \A i : i \in S <=> /\ i \in 1 .. Len(list) /\ list[i] \notin seen
                         /\ \A j \in 1 .. i - 1 : list[j] # list[i]
  BY <1>2
<1> HIDE DEF S
<1>5. IsFiniteSet(S)
  BY <1>2, <1>3, FinitePositions
<1> DEFINE k == Cardinality(S)
<1>6. /\ k \in Nat /\ first \in [1 .. k -> S]
      /\ \A m, n \in 1 .. k : first[m] = first[n] => m = n
      /\ \A i \in S : \E n \in 1 .. k : first[n] = i
  BY <1>3, <1>5, InOrderLists
<1> HIDE DEF first, k
<1>7. u \in [1 .. k -> Items] /\ u \in Seq(Items) /\ DOMAIN u = 1 .. k
      /\ \A n \in 1 .. k : u[n] = list[first[n]]
  <2>1. DOMAIN first = 1 .. k /\ \A n \in 1 .. k : list[first[n]] \in Items
    BY <1>2, <1>3, <1>6
  <2>2. u \in [1 .. k -> Items] /\ \A n \in 1 .. k : u[n] = list[first[n]]
    BY <2>1
  <2> HIDE DEF u
  <2> QED BY <2>2, <1>6
<1> HIDE DEF u
<1>8. ASSUME NEW v PROVE v \in ToSet(u) <=> v \in ToSet(list) \ seen
  <2>1. ASSUME v \in ToSet(u) PROVE v \in ToSet(list) \ seen
    <3>1. PICK n \in 1 .. k : v = list[first[n]]
      BY <2>1, <1>7 DEF ToSet
    <3>2. first[n] \in S
      BY <1>6
    <3> QED BY <3>1, <3>2, <1>2, <1>4 DEF ToSet
  <2>2. ASSUME v \in ToSet(list) \ seen PROVE v \in ToSet(u)
    <3> DEFINE T == {i \in 1 .. Len(list) : list[i] = v}
    <3>1. T # {} /\ T \in SUBSET Nat
      BY <2>2, <1>2 DEF ToSet
    <3>2. PICK i \in T : \A j \in T : i <= j
      BY <3>1, LeastNatural
    <3>3. i \in S
      <4>1. \A j \in 1 .. i - 1 : list[j] # list[i]
        BY <3>2, <1>2
      <4> QED BY <3>2, <4>1, <2>2, <1>4
    <3>4. PICK n \in 1 .. k : first[n] = i
      BY <3>3, <1>6
    <3> QED BY <3>4, <3>2, <1>7 DEF ToSet
  <2> QED BY <2>1, <2>2
<1>9. ASSUME NEW m \in 1 .. k, NEW n \in 1 .. k, u[m] = u[n]
      PROVE  m = n
  <2>1. first[m] \in S /\ first[n] \in S /\ list[first[m]] = list[first[n]]
        /\ first[m] \in Nat /\ first[n] \in Nat
    BY <1>3, <1>6, <1>7, <1>9
  <2>2. ~ (first[m] < first[n]) /\ ~ (first[n] < first[m])
    BY <2>1, <1>3, <1>4
  <2> QED BY <2>1, <2>2, <1>6
<1>10. ToSet(u) = ToSet(list) \ seen
  BY <1>8
<1> QED BY <1>1, <1>7, <1>9, <1>10

(* What SearchAssumption says of the vertices and the slots of the buffer. *)
LEMMA FiniteItems ==
  /\ Items \subseteq Nat /\ IsFiniteSet(Items) /\ Cardinality(Items) \in Nat
  /\ Slots \subseteq Nat
  /\ \A S \in SUBSET Items : IsFiniteSet(S) /\ Cardinality(S) \in Nat
                             /\ Cardinality(S) <= Cardinality(Items)
<1>1. IsFiniteSet(Items) /\ Cardinality(Items) \in Nat
  BY SearchAssumption, FS_CardinalityType
<1>2. \A S \in SUBSET Items : IsFiniteSet(S) /\ Cardinality(S) <= Cardinality(Items)
  BY <1>1, FS_Subset
<1> QED BY <1>1, <1>2, SearchAssumption, FS_CardinalityType DEF Slots

(* The positions of a batch that are read from another server. *)
FetchedAt(items) == {i \in DOMAIN items : Fetched(items[i])}

(* A batch is placed behind what the buffer holds, one vertex after another. *)
LEMMA PlacesAre ==
  ASSUME NEW items \in Seq(Items), bufUsed \in Nat
  PROVE  LET where == Places(items)
             n == Cardinality(FetchedAt(items))
         IN  /\ n \in Nat
             /\ where \in Seq(Int) /\ DOMAIN where = DOMAIN items /\ Len(where) = Len(items)
             /\ \A i \in DOMAIN items : ~ Fetched(items[i]) => where[i] = Stable
             /\ \A i \in DOMAIN items : Fetched(items[i]) =>
                  where[i] \in bufUsed .. bufUsed + n - 1
             /\ \A i, j \in DOMAIN items :
                  Fetched(items[i]) /\ Fetched(items[j]) /\ where[i] = where[j] => i = j
<1> DEFINE F == FetchedAt(items)
           n == Cardinality(F)
           where == Places(items)
           below(i) == Cardinality({j \in F : j < i})
<1>1. DOMAIN items = 1 .. Len(items) /\ Len(items) \in Nat
  OBVIOUS
<1>2. F \in SUBSET (1 .. Len(items)) /\ F \in SUBSET Nat /\ IsFiniteSet(F) /\ n \in Nat
      /\ \A i : i \in F <=> i \in DOMAIN items /\ Fetched(items[i])
  <2>1. F \in SUBSET (1 .. Len(items))
    BY <1>1 DEF FetchedAt
  <2>2. IsFiniteSet(F) /\ n \in Nat
    BY <1>1, <2>1, FinitePositions
  <2>3. F \in SUBSET Nat
    BY <1>1, <2>1
  <2> QED BY <2>1, <2>2, <2>3 DEF FetchedAt
<1>3. ASSUME NEW i \in DOMAIN items
      PROVE  {j \in 1 .. i - 1 : Fetched(items[j])} = {j \in F : j < i}
  BY <1>1, <1>2
<1>4. where = [i \in DOMAIN items |-> IF Fetched(items[i]) THEN bufUsed + below(i) ELSE Stable]
  BY <1>3 DEF Places
<1>5. ASSUME NEW i \in F
      PROVE  below(i) \in Nat /\ below(i) < n
  <2> DEFINE A == {j \in F : j < i}
  <2>1. A \in SUBSET F /\ i \notin A
    BY <1>2
  <2> HIDE DEF A, F
  <2>2. IsFiniteSet(A) /\ Cardinality(A) <= n /\ (n = Cardinality(A) => F = A)
    BY <1>2, <2>1, FS_Subset
  <2>3. Cardinality(A) \in Nat /\ Cardinality(A) < n
    BY <1>2, <2>1, <2>2, FS_CardinalityType
  <2> QED BY <2>3 DEF A
<1>6. ASSUME NEW i \in F, NEW j \in F, below(i) = below(j)
      PROVE  i = j
  <2>1. i \in Nat /\ j \in Nat
    BY <1>2
  <2> HIDE DEF F
  <2>2. i < j => below(i) < below(j)
    BY <1>2, <2>1, BelowGrows
  <2>3. j < i => below(j) < below(i)
    BY <1>2, <2>1, BelowGrows
  <2>4. below(i) \in Nat
    BY <1>5
  <2> HIDE DEF below
  <2> QED BY <2>1, <2>2, <2>3, <2>4, <1>6
<1> HIDE DEF F, below, n, where
<1>7. DOMAIN where = DOMAIN items /\ \A i \in DOMAIN items :
        where[i] = IF Fetched(items[i]) THEN bufUsed + below(i) ELSE Stable
  BY <1>4
<1>8. \A i \in DOMAIN items : where[i] \in Int
  BY <1>2, <1>5, <1>7 DEF Stable
<1>9. where \in Seq(Int) /\ Len(where) = Len(items)
  <2>1. where \in [1 .. Len(items) -> Int]
    BY <1>1, <1>4, <1>8, <1>7
  <2> QED BY <2>1, <1>1
<1>10. \A i \in DOMAIN items : Fetched(items[i]) => where[i] \in bufUsed .. bufUsed + n - 1
  BY <1>2, <1>5, <1>7
<1>11. \A i, j \in DOMAIN items :
         Fetched(items[i]) /\ Fetched(items[j]) /\ where[i] = where[j] => i = j
  <2>1. ASSUME NEW i \in DOMAIN items, NEW j \in DOMAIN items,
               Fetched(items[i]), Fetched(items[j]), where[i] = where[j]
        PROVE  i = j
    <3>1. i \in F /\ j \in F
      BY <2>1, <1>2
    <3>2. below(i) = below(j)
      BY <2>1, <3>1, <1>5, <1>7
    <3> QED BY <3>1, <3>2, <1>6
  <2> QED BY <2>1
<1> QED BY <1>2, <1>7, <1>9, <1>10, <1>11 DEF F, n, where

(* ReadAt lists the positions read from one server. *)
LEMMA ReadAtIs ==
  ASSUME NEW items \in Seq(Items), NEW d
  PROVE  LET at == ReadAt(d, items)
         IN  /\ at \in Seq(DOMAIN items) /\ Len(at) \in Nat /\ DOMAIN at = 1 .. Len(at)
             /\ \A n \in DOMAIN at : /\ at[n] \in DOMAIN items /\ items[at[n]] \in Items
                                     /\ Fetched(items[at[n]]) /\ Home[items[at[n]]] = d
             /\ \A i \in DOMAIN items : Fetched(items[i]) /\ Home[items[i]] = d =>
                  \E n \in DOMAIN at : at[n] = i
<1> DEFINE S == {i \in DOMAIN items : Fetched(items[i]) /\ Home[items[i]] = d}
           at == ReadAt(d, items)
           k == Cardinality(S)
<1>1. DOMAIN items = 1 .. Len(items) /\ Len(items) \in Nat /\ \A i \in DOMAIN items : items[i] \in Items
  OBVIOUS
<1>2. S \in SUBSET (1 .. Len(items)) /\ S \in SUBSET Nat /\ S \in SUBSET (DOMAIN items)
  BY <1>1
<1>3. \A i : i \in S <=> i \in DOMAIN items /\ Fetched(items[i]) /\ Home[items[i]] = d
  OBVIOUS
<1>4. at = InOrder(S)
  BY DEF ReadAt
<1> HIDE DEF S, at
<1>5. IsFiniteSet(S)
  BY <1>1, <1>2, FinitePositions
<1>6. /\ k \in Nat /\ at \in [1 .. k -> S] /\ at \in Seq(S) /\ Len(at) = k
      /\ \A i \in S : \E n \in 1 .. k : at[n] = i
  BY <1>2, <1>4, <1>5, InOrderLists
<1> HIDE DEF k
<1>7. at \in Seq(DOMAIN items)
  <2> DEFINE D == DOMAIN items
  <2>1. at \in [1 .. k -> D]
    BY <1>2, <1>6
  <2> HIDE DEF D
  <2>2. at \in Seq(D)
    BY <2>1, <1>6
  <2> QED BY <2>2 DEF D
<1> QED BY <1>1, <1>3, <1>6, <1>7 DEF at

(* r holds the reads from server d of a batch. *)
NewReads(d, items, where, r) ==
  /\ r \in Seq(Read) /\ Len(r) \in Nat /\ DOMAIN r = 1 .. Len(r)
  /\ Len(r) = Len(ReadAt(d, items))
  /\ \A n \in DOMAIN r : \E i \in DOMAIN items :
       /\ Fetched(items[i]) /\ Home[items[i]] = d
       /\ r[n].slot = where[i] /\ r[n].item = items[i]
  /\ \A i \in DOMAIN items : Fetched(items[i]) /\ Home[items[i]] = d =>
       \E n \in DOMAIN r : r[n].slot = where[i] /\ r[n].item = items[i]

(* RdmaReadBatch posts the reads of a batch behind the others, all signaled. *)
LEMMA SyncReads ==
  ASSUME NEW items \in Seq(Items), NEW d \in Servers, NEW where,
         \A i \in DOMAIN items : Fetched(items[i]) => where[i] \in Slots,
         PostSync(items, where)
  PROVE  \E r : /\ sq'[d] = sq[d] \o r /\ NewReads(d, items, where, r)
                /\ \A n \in DOMAIN r : r[n].signaled
<1> DEFINE at == ReadAt(d, items)
           r == [n \in DOMAIN at |->
                   [slot |-> where[at[n]], item |-> items[at[n]], signaled |-> TRUE]]
<1>1. sq'[d] = sq[d] \o r
  BY DEF PostSync, Post
<1>2. /\ Len(at) \in Nat /\ DOMAIN at = 1 .. Len(at)
      /\ \A n \in DOMAIN at : /\ at[n] \in DOMAIN items /\ items[at[n]] \in Items
                              /\ Fetched(items[at[n]]) /\ Home[items[at[n]]] = d
      /\ \A i \in DOMAIN items : Fetched(items[i]) /\ Home[items[i]] = d =>
           \E n \in DOMAIN at : at[n] = i
  BY ReadAtIs
<1>3. at = ReadAt(d, items)
  OBVIOUS
<1> HIDE DEF at
<1>4. \A n \in DOMAIN r : /\ r[n].slot = where[at[n]] /\ r[n].item = items[at[n]]
                          /\ r[n].signaled = TRUE /\ r[n] \in Read
  BY <1>2 DEF Read
<1>5. DOMAIN r = 1 .. Len(at)
  BY <1>2
<1> HIDE DEF r
<1>6. r \in Seq(Read) /\ Len(r) = Len(at) /\ DOMAIN r = 1 .. Len(r)
  <2>1. r \in [1 .. Len(at) -> Read]
    BY <1>4, <1>5 DEF r
  <2> QED BY <2>1, <1>2
<1>7. NewReads(d, items, where, r)
  BY <1>2, <1>3, <1>4, <1>5, <1>6 DEF NewReads
<1> QED BY <1>1, <1>4, <1>7

(* The reads of an asynchronous batch: only the last is signaled. *)
LastSignaled(d, items, where, r) ==
  /\ sq'[d] = sq[d] \o r
  /\ NewReads(d, items, where, r)
  /\ \A n \in DOMAIN r : r[n].signaled <=> n = Len(r)

(* RdmaReadBatchDoorbellUnsignal_Async_Send posts the reads of a batch behind the
   others, only the last of them signaled. *)
LEMMA AsyncReads ==
  ASSUME NEW items \in Seq(Items), NEW d \in Servers, NEW where,
         \A i \in DOMAIN items : Fetched(items[i]) => where[i] \in Slots,
         PostAsync(items, where)
  PROVE  \E r : LastSignaled(d, items, where, r)
<1> DEFINE at == ReadAt(d, items)
           r == [n \in DOMAIN at |->
                   [slot |-> where[at[n]], item |-> items[at[n]], signaled |-> SignalLast(n, Len(at))]]
<1>1. sq'[d] = sq[d] \o r
  BY DEF PostAsync, Post
<1>2. /\ Len(at) \in Nat /\ DOMAIN at = 1 .. Len(at)
      /\ \A n \in DOMAIN at : /\ at[n] \in DOMAIN items /\ items[at[n]] \in Items
                              /\ Fetched(items[at[n]]) /\ Home[items[at[n]]] = d
      /\ \A i \in DOMAIN items : Fetched(items[i]) /\ Home[items[i]] = d =>
           \E n \in DOMAIN at : at[n] = i
  BY ReadAtIs
<1>3. at = ReadAt(d, items)
  OBVIOUS
<1>0. \A n : SignalLast(n, Len(at)) \in BOOLEAN /\ (SignalLast(n, Len(at)) <=> n = Len(at))
  BY DEF SignalLast
<1> HIDE DEF at
<1>4. \A n \in DOMAIN r : /\ r[n].slot = where[at[n]] /\ r[n].item = items[at[n]]
                          /\ r[n].signaled = SignalLast(n, Len(at)) /\ r[n] \in Read
  BY <1>0, <1>2 DEF Read
<1>5. DOMAIN r = 1 .. Len(at)
  BY <1>2
<1> HIDE DEF r
<1>6. r \in Seq(Read) /\ Len(r) = Len(at) /\ DOMAIN r = 1 .. Len(r)
  <2>1. r \in [1 .. Len(at) -> Read]
    BY <1>4, <1>5 DEF r
  <2> QED BY <2>1, <1>2
<1>7. NewReads(d, items, where, r)
  BY <1>2, <1>3, <1>4, <1>5, <1>6 DEF NewReads
<1>8. \A n \in DOMAIN r : r[n].signaled <=> n = Len(r)
  BY <1>0, <1>4, <1>6
<1> QED BY <1>1, <1>7, <1>8 DEF LastSignaled

-----------------------------------------------------------------------------
(* The pool *)

(* The query being answered is one of the queries. *)
LEMMA QueryType ==
  ASSUME todo \in Nat, todo < Len(Queries)
  PROVE  /\ Query.dist \in [Items -> Int] /\ Query.eps \in Seq(Items)
         /\ todo + 1 \in DOMAIN Queries
<1> DEFINE Q == [dist : [Items -> Int], eps : Seq(Items)]
<1>1. Queries \in Seq(Q)
  BY SearchAssumption
<1>2. todo + 1 \in 1 .. Len(Queries)
  BY <1>1
<1>3. Queries[todo + 1] \in Q /\ todo + 1 \in DOMAIN Queries
  <2> HIDE DEF Q
  <2> QED BY <1>1, <1>2
<1> QED BY <1>3 DEF Query

(* What is among the nearest is among the nearest of fewer. *)
LEMMA NearestOfFewer ==
  ASSUME NEW dist, NEW n \in Nat, NEW T, IsFiniteSet(T), NEW S \in SUBSET T,
         NEW v \in S, v \in Nearest(dist, n, T)
  PROVE  v \in Nearest(dist, n, S)
<1> DEFINE A == {b \in S : Less(dist, b, v)}
           B == {b \in T : Less(dist, b, v)}
<1>1. B \in SUBSET T /\ A \in SUBSET B
  OBVIOUS
<1>2. Cardinality(B) < n
  BY DEF Nearest
<1> HIDE DEF B
<1>3. IsFiniteSet(B) /\ Cardinality(B) \in Nat
  BY <1>1, FS_Subset, FS_CardinalityType
<1> HIDE DEF A
<1>4. Cardinality(A) <= Cardinality(B) /\ Cardinality(A) \in Nat
  BY <1>1, <1>3, FS_Subset, FS_CardinalityType
<1>5. Cardinality(A) < n
  BY <1>2, <1>3, <1>4
<1> QED BY <1>5 DEF A, Nearest

(* Of k items the nearest n are k at least, if k is not more than n. *)
LEMMA NearestSize ==
  ASSUME NEW dist \in [Items -> Int], NEW n \in Nat, NEW S \in SUBSET Items,
         NEW k \in Nat, k <= n, k <= Cardinality(S)
  PROVE  k <= Cardinality(Nearest(dist, n, S))
<1>1. Items \in SUBSET Nat /\ IsFiniteSet(S) /\ Cardinality(S) \in Nat
  BY FiniteItems
<1> DEFINE N == Nearest(dist, n, S)
<1>2. N \in SUBSET S /\ IsFiniteSet(N) /\ Cardinality(N) \in Nat
  <2>1. N \in SUBSET S
    BY DEF Nearest
  <2> HIDE DEF N
  <2> QED BY <1>1, <2>1, FS_Subset, FS_CardinalityType
<1>3. CASE S \ N # {}
  <2>1. Cardinality(N) >= n
    BY <1>1, <1>3, NearestFull
  <2> HIDE DEF N
  <2>2. k <= Cardinality(N)
    BY <2>1, <1>2
  <2> QED BY <2>2 DEF N
<1>4. CASE S \ N = {}
  <2> HIDE DEF N
  <2>1. N = S
    BY <1>2, <1>4
  <2> QED BY <2>1 DEF N
<1> QED BY <1>3, <1>4

(* The nearest of a set that is not empty. *)
LEMMA ClosestIn ==
  ASSUME NEW S \in SUBSET Items, S # {}, todo \in Nat, todo < Len(Queries)
  PROVE  Closest(S) \in S /\ \A w \in S \ {Closest(S)} : Less(Query.dist, Closest(S), w)
<1> DEFINE dist == Query.dist
           T == {Rank(dist, S, v) : v \in S}
<1>1. dist \in [Items -> Int] /\ Items \in SUBSET Nat /\ IsFiniteSet(S)
  BY QueryType, FiniteItems
<1> HIDE DEF dist
<1>2. \A v : Rank(dist, S, v) \in Nat
  BY <1>1, RankType
<1>3. \A a, b \in S : Less(dist, a, b) => Rank(dist, S, a) < Rank(dist, S, b)
  BY <1>1, RankMonotone
<1>4. T \in SUBSET Nat /\ T # {}
  BY <1>2
<1>5. PICK x \in T : \A y \in T : x <= y
  BY <1>4, LeastNatural
<1>6. PICK v \in S : x = Rank(dist, S, v)
  BY <1>5
<1>7. \A w \in S : ~ Less(dist, w, v)
  <2>1. \A w \in S : Rank(dist, S, v) <= Rank(dist, S, w)
    BY <1>5, <1>6
  <2> HIDE DEF T
  <2> QED BY <1>2, <1>3, <2>1
<1>8. \A w \in S \ {v} : Less(dist, v, w)
  <2>1. \A w \in S : w # v => Less(dist, v, w) \/ Less(dist, w, v)
    BY <1>1, LessIsOrder
  <2> QED BY <1>7, <2>1
<1>9. \E u \in S : \A w \in S \ {u} : Less(dist, u, w)
  BY <1>8
<1> QED BY <1>9 DEF Closest, dist

(* A batch has s for v. *)
PutAt(items, where, s, v) == \E i \in DOMAIN items : items[i] = v /\ where[i] = s

(* What an insertion of a batch does to the pool and to thd_cache. *)
LEMMA Inserted ==
  ASSUME todo \in Nat, todo < Len(Queries), pool \in SUBSET Items, cache \in [Items -> Int],
         NEW items \in Seq(Items), NEW where, NEW who, InsertAll(items, where, who)
  PROVE  /\ pool' \subseteq pool \cup (ToSet(items) \cap who)
         /\ pool' = Nearest(Query.dist, Capacity, pool \cup (ToSet(items) \cap who))
         /\ DOMAIN cache' = Items
         /\ \A v \in Items :
              \/ cache'[v] = cache[v]
              \/ v \in who \ Local /\ PutAt(items, where, cache'[v], v)
         /\ \A v \in pool' \ pool : v \in Local \/ PutAt(items, where, cache'[v], v)
<1> DEFINE A(i) == pool \cup ({items[j] : j \in 1 .. i} \cap who)
           entered(v) == {i \in DOMAIN items :
                            /\ items[i] = v
                            /\ v \in PoolAfter(i, items, who) \ PoolAfter(i - 1, items, who)}
<1>1. DOMAIN items = 1 .. Len(items) /\ Len(items) \in Nat /\ \A i \in DOMAIN items : items[i] \in Items
      /\ Capacity \in Nat
  BY SearchAssumption
<1>2. \A i : PoolAfter(i, items, who) = Nearest(Query.dist, Capacity, A(i))
  BY DEF PoolAfter
<1>3. pool' = PoolAfter(Len(items), items, who)
      /\ cache' = [v \in Items |-> IF KeepInCache(v) /\ entered(v) # {}
                                     THEN where[CHOOSE i \in entered(v) : TRUE] ELSE cache[v]]
  BY DEF InsertAll
<1>4. A(Len(items)) = pool \cup (ToSet(items) \cap who)
  BY <1>1 DEF ToSet
<1>5. \A i \in 0 .. Len(items) : A(i) \in SUBSET A(Len(items)) /\ IsFiniteSet(A(Len(items)))
  <2>1. A(Len(items)) \in SUBSET Items
    BY <1>1
  <2>2. \A i \in 0 .. Len(items) : \A j \in 1 .. i : j \in 1 .. Len(items)
    BY <1>1
  <2>3. IsFiniteSet(A(Len(items)))
    <3> HIDE DEF A
    <3> QED BY <2>1, FiniteItems
  <2> QED BY <2>2, <2>3
<1>6. ASSUME NEW i \in DOMAIN items, items[i] \notin who
      PROVE  A(i) = A(i - 1)
  <2>1. i \in Nat /\ \A j \in 1 .. i : j \in 1 .. i - 1 \/ j = i
    BY <1>1
  <2>2. \A j \in 1 .. i - 1 : j \in 1 .. i
    BY <2>1
  <2> QED BY <1>6, <2>1, <2>2
<1>7. ASSUME NEW v \in Items, NEW i \in entered(v)
      PROVE  v \in who
  <2>1. i \in DOMAIN items /\ items[i] = v
        /\ v \in PoolAfter(i, items, who) /\ v \notin PoolAfter(i - 1, items, who)
    OBVIOUS
  <2> HIDE DEF A, entered
  <2> QED BY <2>1, <1>2, <1>6
<1>8. \A v : KeepInCache(v) /\ v \in Items <=> v \in Items \ Local
  BY DEF KeepInCache, Local
<1>9. ASSUME NEW v \in Items
      PROVE  \/ cache'[v] = cache[v]
             \/ /\ v \in who \ Local
                /\ \E i \in DOMAIN items : items[i] = v /\ cache'[v] = where[i]
  <2>1. CASE KeepInCache(v) /\ entered(v) # {}
    <3> DEFINE i == CHOOSE j \in entered(v) : TRUE
    <3>1. i \in entered(v)
      BY <2>1
    <3>2. cache'[v] = where[i]
      BY <1>3, <2>1
    <3>3. i \in DOMAIN items /\ items[i] = v
      BY <3>1
    <3> HIDE DEF i
    <3>4. v \in who
      BY <3>1, <1>7
    <3> QED BY <3>2, <3>3, <3>4, <2>1, <1>8
  <2>2. CASE ~ (KeepInCache(v) /\ entered(v) # {})
    BY <1>3, <2>2
  <2> QED BY <2>1, <2>2
<1>10. pool' \subseteq A(Len(items)) /\ pool' = Nearest(Query.dist, Capacity, A(Len(items)))
  BY <1>2, <1>3 DEF Nearest
<1>11. ASSUME NEW v \in pool' \ pool, v \notin Local
       PROVE  \E i \in DOMAIN items : items[i] = v /\ cache'[v] = where[i]
  <2>1. v \in ToSet(items) /\ v \in who
    BY <1>4, <1>10
  <2> DEFINE T == {i \in DOMAIN items : items[i] = v}
  <2>2. T \in SUBSET Nat /\ T # {}
    BY <1>1, <2>1 DEF ToSet
  <2>3. PICK i \in T : \A j \in T : i <= j
    <3> HIDE DEF T
    <3> QED BY <2>2, LeastNatural
  <2>4. i \in 1 .. Len(items) /\ items[i] = v /\ v \in Items
    BY <1>1
  <2>5. v \in A(i) /\ i \in 0 .. Len(items)
    <3>1. i \in 1 .. i
      BY <2>4
    <3> QED BY <3>1, <2>1, <2>4, <1>1
  <2>6. v \in Nearest(Query.dist, Capacity, A(i))
    <3> HIDE DEF A
    <3> QED BY <1>1, <1>5, <1>10, <2>5, NearestOfFewer
  <2>7. v \notin A(i - 1)
    <3>1. \A j \in 1 .. i - 1 : j \in DOMAIN items /\ ~ (i <= j)
      BY <1>1, <2>4
    <3>2. \A j \in 1 .. i - 1 : items[j] # v
      BY <3>1, <2>3
    <3> QED BY <3>2
  <2>8. v \notin Nearest(Query.dist, Capacity, A(i - 1))
    BY <2>7 DEF Nearest
  <2>9. i \in entered(v)
    <3> HIDE DEF A
    <3> QED BY <1>1, <1>2, <2>4, <2>6, <2>8
  <2> DEFINE k == CHOOSE j \in entered(v) : TRUE
  <2>10. k \in entered(v)
    <3> HIDE DEF entered
    <3> QED BY <2>9
  <2>11. cache'[v] = where[k]
    <3> HIDE DEF entered
    <3> QED BY <1>3, <1>8, <1>11, <2>4, <2>9
  <2>12. k \in DOMAIN items /\ items[k] = v
    BY <2>10
  <2> QED BY <2>11, <2>12
<1>12. DOMAIN cache' = Items
  BY <1>3
<1>13. pool' = Nearest(Query.dist, Capacity, pool \cup (ToSet(items) \cap who))
       /\ pool' \subseteq pool \cup (ToSet(items) \cap who)
  <2> HIDE DEF A
  <2> QED BY <1>4, <1>10
<1> HIDE DEF A, entered
<1> QED BY <1>9, <1>11, <1>12, <1>13 DEF PutAt

-----------------------------------------------------------------------------
(* Counting what is signaled, and what is waited for *)

(* The signaled reads of a queue from position m on. *)
SignalsFrom(queue, m) == {n \in DOMAIN queue : n >= m /\ queue[n].signaled}

(* The waits from the k-th on that poll a completion from server d. *)
WaitsFrom(waits, d, k) == {j \in DOMAIN waits : j >= k /\ waits[j][d] > 0}

(* The signaled reads of a queue can be counted. *)
LEMMA FiniteSignals ==
  ASSUME NEW queue \in Seq(Read), NEW m
  PROVE  /\ SignalsFrom(queue, m) \in SUBSET (1 .. Len(queue))
         /\ IsFiniteSet(SignalsFrom(queue, m))
         /\ Cardinality(SignalsFrom(queue, m)) \in Nat
<1>1. SignalsFrom(queue, m) \in SUBSET (1 .. Len(queue)) /\ Len(queue) \in Nat
  BY DEF SignalsFrom
<1> QED BY <1>1, FinitePositions

(* The waits for a server can be counted. *)
LEMMA FiniteWaits ==
  ASSUME NEW waits \in Seq([Servers -> Nat]), NEW d, NEW k
  PROVE  /\ WaitsFrom(waits, d, k) \in SUBSET (1 .. Len(waits))
         /\ IsFiniteSet(WaitsFrom(waits, d, k))
         /\ Cardinality(WaitsFrom(waits, d, k)) \in Nat
<1>1. WaitsFrom(waits, d, k) \in SUBSET (1 .. Len(waits)) /\ Len(waits) \in Nat
  BY DEF WaitsFrom
<1> QED BY <1>1, FinitePositions

(* The NIC takes a read from a queue: the positions move, and one signal less is
   to come if the read was signaled. *)
LEMMA SignalsOfTail ==
  ASSUME NEW queue \in Seq(Read), queue # << >>
  PROVE  /\ \A m \in Nat \ {0} : Cardinality(SignalsFrom(Tail(queue), m))
                                   = Cardinality(SignalsFrom(queue, m + 1))
         /\ queue[1].signaled =>
              Cardinality(SignalsFrom(queue, 1)) = Cardinality(SignalsFrom(Tail(queue), 1)) + 1
         /\ ~ queue[1].signaled =>
              Cardinality(SignalsFrom(queue, 1)) = Cardinality(SignalsFrom(Tail(queue), 1))
<1>1. /\ Len(queue) \in Nat \ {0} /\ Tail(queue) \in Seq(Read) /\ Len(Tail(queue)) = Len(queue) - 1
      /\ \A n \in 1 .. Len(queue) - 1 : Tail(queue)[n] = queue[n + 1]
  OBVIOUS
<1>2. ASSUME NEW m \in Nat \ {0}
      PROVE  Cardinality(SignalsFrom(Tail(queue), m)) = Cardinality(SignalsFrom(queue, m + 1))
  <2> DEFINE S == SignalsFrom(Tail(queue), m)
             T == SignalsFrom(queue, m + 1)
  <2>1. IsFiniteSet(S) /\ S \in SUBSET (1 .. Len(Tail(queue)))
    BY <1>1, FiniteSignals
  <2>2. \A x \in S : x + 1 \in T
    BY <1>1 DEF SignalsFrom
  <2>3. \A y \in T : y \in Int /\ y - 1 \in S
    <3>1. ASSUME NEW y \in T PROVE y \in Int /\ y - 1 \in S
      <4>1. y \in 1 .. Len(queue) /\ y >= m + 1 /\ queue[y].signaled
        BY <1>1 DEF SignalsFrom
      <4>2. y - 1 \in 1 .. Len(queue) - 1 /\ (y - 1) + 1 = y /\ y - 1 >= m
        BY <4>1, <1>1
      <4> QED BY <4>1, <4>2, <1>1 DEF SignalsFrom
    <3> QED BY <3>1
  <2> HIDE DEF S, T
  <2>0. S \subseteq Int
    BY <1>1, <2>1
  <2>00. 1 \in Int
    OBVIOUS
  <2>4. Cardinality(T) = Cardinality(S)
    BY <2>0, <2>00, <2>1, <2>2, <2>3, MovedSize, Zenon
  <2> QED BY <2>4 DEF S, T
<1> DEFINE S == SignalsFrom(queue, 2)
           T == SignalsFrom(queue, 1)
<1>3. IsFiniteSet(S) /\ Cardinality(S) \in Nat
  BY FiniteSignals
<1>4. /\ \A n : n \in S <=> n \in 1 .. Len(queue) /\ n >= 2 /\ queue[n].signaled
      /\ \A n : n \in T <=> n \in 1 .. Len(queue) /\ n >= 1 /\ queue[n].signaled
  BY <1>1 DEF SignalsFrom
<1>5. Cardinality(SignalsFrom(Tail(queue), 1)) = Cardinality(S)
  BY <1>2
<1> HIDE DEF S, T
<1>6. ASSUME queue[1].signaled PROVE Cardinality(T) = Cardinality(S) + 1
  <2>1. 1 \notin S /\ 1 \in T /\ (\A n \in T : n = 1 \/ n \in S) /\ (\A n \in S : n \in T)
    BY <1>1, <1>4, <1>6
  <2>2. T = S \cup {1}
    BY <2>1
  <2> QED BY <1>3, <2>1, <2>2, FS_AddElement
<1>7. ASSUME ~ queue[1].signaled PROVE Cardinality(T) = Cardinality(S)
  <2>1. (\A n \in T : n \in S) /\ (\A n \in S : n \in T)
    BY <1>1, <1>4, <1>7
  <2>2. T = S
    BY <2>1
  <2> QED BY <2>2
<1> QED BY <1>2, <1>5, <1>6, <1>7 DEF S, T

(* The reads of one more batch, of which the last is signaled. *)
LEMMA SignalsOfMore ==
  ASSUME NEW queue \in Seq(Read), NEW more \in Seq(Read),
         \A n \in DOMAIN more : more[n].signaled <=> n = Len(more)
  PROVE  /\ \A m \in 1 .. Len(queue) + 1 :
              /\ Len(more) > 0 => Cardinality(SignalsFrom(queue \o more, m))
                                    = Cardinality(SignalsFrom(queue, m)) + 1
              /\ Len(more) = 0 => Cardinality(SignalsFrom(queue \o more, m))
                                    = Cardinality(SignalsFrom(queue, m))
         /\ \A m \in Len(queue) + 1 .. Len(queue) + Len(more) :
              Cardinality(SignalsFrom(queue \o more, m)) >= 1
<1> DEFINE all == queue \o more
           last == Len(queue) + Len(more)
<1>1. /\ Len(queue) \in Nat /\ Len(more) \in Nat /\ DOMAIN queue = 1 .. Len(queue)
      /\ DOMAIN more = 1 .. Len(more) /\ all \in Seq(Read) /\ DOMAIN all = 1 .. last
      /\ \A n \in 1 .. Len(queue) : all[n] = queue[n]
      /\ \A n \in Len(queue) + 1 .. last : all[n] = more[n - Len(queue)]
  OBVIOUS
<1> HIDE DEF all
<1>2. \A n \in Len(queue) + 1 .. last : all[n].signaled <=> n = last
  <2>1. ASSUME NEW n \in Len(queue) + 1 .. last
        PROVE  all[n].signaled <=> n = last
    <3>1. n - Len(queue) \in DOMAIN more /\ (n - Len(queue) = Len(more) <=> n = last)
      BY <1>1
    <3>2. more[n - Len(queue)].signaled <=> n - Len(queue) = Len(more)
      BY <3>1
    <3> QED BY <1>1, <3>1, <3>2
  <2> QED BY <2>1
<1>3. ASSUME NEW m \in 1 .. Len(queue) + 1
      PROVE  /\ Len(more) > 0 =>
                  Cardinality(SignalsFrom(all, m)) = Cardinality(SignalsFrom(queue, m)) + 1
             /\ Len(more) = 0 =>
                  Cardinality(SignalsFrom(all, m)) = Cardinality(SignalsFrom(queue, m))
  <2> DEFINE S == SignalsFrom(queue, m)
             T == SignalsFrom(all, m)
  <2>1. IsFiniteSet(S) /\ Cardinality(S) \in Nat /\ S \in SUBSET (1 .. Len(queue))
    BY FiniteSignals
  <2>2. \A n : n \in S <=> n \in 1 .. Len(queue) /\ n >= m /\ queue[n].signaled
    BY <1>1 DEF SignalsFrom
  <2>3. \A n : n \in T <=> n \in 1 .. last /\ n >= m /\ all[n].signaled
    BY <1>1 DEF SignalsFrom
  <2> HIDE DEF S, T
  <2>4. CASE Len(more) > 0
    <3>1. last \notin S /\ T = S \cup {last}
      <4>1. last \notin S
        BY <1>1, <2>1, <2>4
      <4>2. \A n \in T : n \in S \cup {last}
        <5>1. ASSUME NEW n \in T, n # last PROVE n \in S
          <6>1. n \in 1 .. last /\ n >= m /\ all[n].signaled
            BY <2>3
          <6>2. n \in 1 .. Len(queue)
            BY <1>1, <1>2, <6>1, <5>1
          <6> QED BY <1>1, <2>2, <6>1, <6>2
        <5> QED BY <5>1
      <4>3. \A n \in S : n \in T
        BY <1>1, <2>2, <2>3
      <4>4. last \in T
        BY <1>1, <1>2, <2>3, <2>4
      <4> QED BY <4>1, <4>2, <4>3, <4>4
    <3> HIDE DEF last
    <3>2. Cardinality(T) = Cardinality(S) + 1
      BY <2>1, <3>1, FS_AddElement
    <3> QED BY <2>4, <3>2 DEF S, T
  <2>5. CASE Len(more) = 0
    <3>1. last = Len(queue)
      BY <1>1, <2>5
    <3>2. T = S
      BY <1>1, <2>2, <2>3, <3>1
    <3> QED BY <3>2, <2>5 DEF S, T
  <2> QED BY <2>4, <2>5, <1>1
<1>4. ASSUME NEW m \in Len(queue) + 1 .. last
      PROVE  Cardinality(SignalsFrom(all, m)) >= 1
  <2>1. last \in SignalsFrom(all, m)
    BY <1>1, <1>2 DEF SignalsFrom
  <2>2. IsFiniteSet(SignalsFrom(all, m)) /\ Cardinality(SignalsFrom(all, m)) \in Nat
    BY <1>1, FiniteSignals
  <2>3. Cardinality(SignalsFrom(all, m)) # 0
    BY <2>1, <2>2, FS_EmptySet
  <2> QED BY <2>2, <2>3
<1> QED BY <1>3, <1>4 DEF all

(* A queue of signaled reads. *)
LEMMA AllSignaled ==
  ASSUME NEW queue \in Seq(Read), \A n \in DOMAIN queue : queue[n].signaled
  PROVE  Cardinality(SignalsFrom(queue, 1)) = Len(queue)
<1>1. SignalsFrom(queue, 1) = 1 .. Len(queue) /\ Len(queue) \in Nat
  BY DEF SignalsFrom
<1> DEFINE n == Len(queue)
<1> HIDE DEF n
<1>0. n \in Nat
  BY <1>1 DEF n
<1>2. Cardinality(1 .. n) = n
  BY <1>0, FS_Interval
<1> QED BY <1>1, <1>2 DEF n

(* If the last read of a queue is signaled and none is, the queue is empty. *)
LEMMA NoneSignaled ==
  ASSUME NEW queue \in Seq(Read), queue # << >> => queue[Len(queue)].signaled,
         Cardinality(SignalsFrom(queue, 1)) = 0
  PROVE  queue = << >>
<1> SUFFICES ASSUME queue # << >> PROVE FALSE
  OBVIOUS
<1>1. Len(queue) \in SignalsFrom(queue, 1)
  BY DEF SignalsFrom
<1> QED BY <1>1, FiniteSignals, FS_EmptySet

(* A further wait counts for the servers it has reads for. *)
LEMMA WaitsOfMore ==
  ASSUME NEW waits \in Seq([Servers -> Nat]), NEW p \in [Servers -> Nat], NEW d \in Servers,
         NEW k \in 1 .. Len(waits) + 1
  PROVE  /\ p[d] > 0 => Cardinality(WaitsFrom(Append(waits, p), d, k))
                          = Cardinality(WaitsFrom(waits, d, k)) + 1
         /\ p[d] = 0 => Cardinality(WaitsFrom(Append(waits, p), d, k))
                          = Cardinality(WaitsFrom(waits, d, k))
<1> DEFINE all == Append(waits, p)
           last == Len(waits) + 1
           S == WaitsFrom(waits, d, k)
           T == WaitsFrom(all, d, k)
<1>1. /\ Len(waits) \in Nat /\ DOMAIN waits = 1 .. Len(waits)
      /\ DOMAIN all = 1 .. last /\ all[last] = p
      /\ \A n \in 1 .. Len(waits) : all[n] = waits[n]
  OBVIOUS
<1> HIDE DEF all
<1>2. IsFiniteSet(S) /\ Cardinality(S) \in Nat /\ S \in SUBSET (1 .. Len(waits))
  BY FiniteWaits
<1>3. T = S \cup (IF p[d] > 0 THEN {last} ELSE {})
  BY <1>1 DEF WaitsFrom
<1>4. last \notin S
  BY <1>1, <1>2
<1> HIDE DEF S, T, last
<1>5. ASSUME p[d] > 0 PROVE Cardinality(T) = Cardinality(S) + 1
  BY <1>2, <1>3, <1>4, <1>5, FS_AddElement
<1>6. ASSUME p[d] = 0 PROVE Cardinality(T) = Cardinality(S)
  BY <1>3, <1>6
<1> QED BY <1>5, <1>6 DEF S, T, all

(* The oldest wait is over: the others move, and a server it had reads for is
   waited for once less. *)
LEMMA WaitsOfTail ==
  ASSUME NEW waits \in Seq([Servers -> Nat]), NEW d \in Servers, waits # << >>
  PROVE  /\ \A k \in Nat \ {0} : Cardinality(WaitsFrom(Tail(waits), d, k))
                                   = Cardinality(WaitsFrom(waits, d, k + 1))
         /\ waits[1][d] > 0 =>
              Cardinality(WaitsFrom(waits, d, 1)) = Cardinality(WaitsFrom(Tail(waits), d, 1)) + 1
         /\ waits[1][d] = 0 =>
              Cardinality(WaitsFrom(waits, d, 1)) = Cardinality(WaitsFrom(Tail(waits), d, 1))
<1>1. /\ Len(waits) \in Nat \ {0} /\ Tail(waits) \in Seq([Servers -> Nat])
      /\ Len(Tail(waits)) = Len(waits) - 1
      /\ \A n \in 1 .. Len(waits) - 1 : Tail(waits)[n] = waits[n + 1]
  OBVIOUS
<1>2. ASSUME NEW k \in Nat \ {0}
      PROVE  Cardinality(WaitsFrom(Tail(waits), d, k)) = Cardinality(WaitsFrom(waits, d, k + 1))
  <2> DEFINE S == WaitsFrom(Tail(waits), d, k)
             T == WaitsFrom(waits, d, k + 1)
  <2>1. IsFiniteSet(S) /\ S \in SUBSET (1 .. Len(Tail(waits)))
    BY <1>1, FiniteWaits
  <2>2. \A x \in S : x + 1 \in T
    BY <1>1 DEF WaitsFrom
  <2>3. \A y \in T : y \in Int /\ y - 1 \in S
    <3>1. ASSUME NEW y \in T PROVE y \in Int /\ y - 1 \in S
      <4>1. y \in 1 .. Len(waits) /\ y >= k + 1 /\ waits[y][d] > 0
        BY <1>1 DEF WaitsFrom
      <4>2. y - 1 \in 1 .. Len(waits) - 1 /\ (y - 1) + 1 = y /\ y - 1 >= k
        BY <4>1, <1>1
      <4> QED BY <4>1, <4>2, <1>1 DEF WaitsFrom
    <3> QED BY <3>1
  <2> HIDE DEF S, T
  <2>0. S \subseteq Int
    BY <1>1, <2>1
  <2>00. 1 \in Int
    OBVIOUS
  <2>4. Cardinality(T) = Cardinality(S)
    BY <2>0, <2>00, <2>1, <2>2, <2>3, MovedSize, Zenon
  <2> QED BY <2>4 DEF S, T
<1> DEFINE S == WaitsFrom(waits, d, 2)
           T == WaitsFrom(waits, d, 1)
<1>3. IsFiniteSet(S) /\ Cardinality(S) \in Nat
  BY FiniteWaits
<1>4. /\ \A n : n \in S <=> n \in 1 .. Len(waits) /\ n >= 2 /\ waits[n][d] > 0
      /\ \A n : n \in T <=> n \in 1 .. Len(waits) /\ n >= 1 /\ waits[n][d] > 0
  BY <1>1 DEF WaitsFrom
<1>5. Cardinality(WaitsFrom(Tail(waits), d, 1)) = Cardinality(S)
  BY <1>2
<1> HIDE DEF S, T
<1>6. ASSUME waits[1][d] > 0 PROVE Cardinality(T) = Cardinality(S) + 1
  <2>1. 1 \notin S /\ 1 \in T /\ (\A n \in T : n = 1 \/ n \in S) /\ (\A n \in S : n \in T)
    BY <1>1, <1>4, <1>6, SMTT(30)
  <2>2. T = S \cup {1}
    BY <2>1
  <2> QED BY <1>3, <2>1, <2>2, FS_AddElement
<1>7. ASSUME waits[1][d] = 0 PROVE Cardinality(T) = Cardinality(S)
  <2>1. (\A n \in T : n \in S) /\ (\A n \in S : n \in T)
    BY <1>1, <1>4, <1>7
  <2>2. T = S
    BY <2>1
  <2> QED BY <2>2
<1> QED BY <1>2, <1>5, <1>6, <1>7 DEF S, T

-----------------------------------------------------------------------------
(* The invariant *)

(* Where the search stands: how many batches are open. *)
Control ==
  /\ pc # "begin" => todo < Len(Queries)
  /\ pc \in {"begin", "entry", "sync"} => batches = << >>
  /\ pc \in {"entry", "sync"} => relax = Relax
  /\ pc = "entry" => visited = {}
  /\ pc = "sync" => ToSet(scratch.items) = ToSet(Query.eps)
  /\ pc = "expand" => relax + Len(batches) = Relax
  /\ pc = "settle" => relax = 0 /\ Len(batches) = Relax + 1

(* The last read posted to a server is signaled; the entry points' reads all are. *)
Wires ==
  \A d \in Servers :
    /\ sq[d] # << >> => sq[d][Len(sq[d])].signaled
    /\ pc = "sync" => \A m \in DOMAIN sq[d] : sq[d][m].signaled

(* A completion arrives for every wait. *)
Accounted ==
  /\ Len(polls) = Len(batches)
  /\ \A d \in Servers :
       cq[d] + Cardinality(SignalsFrom(sq[d], 1)) =
         Cardinality(WaitsFrom(polls, d, 1)) + (IF pc = "sync" THEN EntryReads(d) ELSE 0)

(* A batch has a slot for each vertex that is read, and for no other. *)
Formed(b) ==
  /\ Len(b.where) = Len(b.items)
  /\ \A i \in DOMAIN b.items : b.where[i] = Stable <=> ~ Fetched(b.items[i])

(* The wait for a batch polls every server the batch was read from. *)
BatchesFormed ==
  /\ pc = "sync" => Formed(scratch)
  /\ \A k \in DOMAIN batches :
       /\ Formed(batches[k])
       /\ \A i \in DOMAIN batches[k].items :
            Fetched(batches[k].items[i]) => polls[k][Home[batches[k].items[i]]] > 0

PostedTo(queue, s, v) == \E m \in DOMAIN queue : queue[m].slot = s /\ queue[m].item = v

PlacedIn(b, s, v) == \E i \in DOMAIN b.items : b.where[i] = s /\ b.items[i] = v

(* Slot s of the buffer is meant for v. *)
Claimed(s, v) ==
  \/ \E d \in Servers : PostedTo(sq[d], s, v)
  \/ \E k \in DOMAIN batches : PlacedIn(batches[k], s, v)
  \/ pc = "sync" /\ PlacedIn(scratch, s, v)
  \/ cache[v] = s

SlotsOwned ==
  \A s \in Slots, v \in Items : Claimed(s, v) =>
    s < bufUsed /\ \A w \in Items : Claimed(s, w) => w = v

(* The read of v into s is in a queue, ahead of so many signaled ones. *)
Expected(queue, s, v, waits) ==
  \E m \in DOMAIN queue : /\ queue[m].slot = s /\ queue[m].item = v
                          /\ waits <= Cardinality(SignalsFrom(queue, m))

(* A slot of a batch is written before the completions of the batch are polled. *)
Arriving ==
  /\ \A k \in DOMAIN batches : \A s \in Slots, v \in Items :
       PlacedIn(batches[k], s, v) =>
         \/ buffer[s] = v
         \/ Expected(sq[Home[v]], s, v, Cardinality(WaitsFrom(polls, Home[v], k)))
  /\ pc = "sync" => \A s \in Slots, v \in Items :
       PlacedIn(scratch, s, v) => buffer[s] = v \/ PostedTo(sq[Home[v]], s, v)

(* The entries of the pool can be read. *)
Held == \A v \in pool : v \in Local \/ cache[v] # NotCached

(* The buffer holds no more than the remote vertices that were seen. *)
Used == bufUsed <= Cardinality({v \in visited : Fetched(v)})

SearchInv ==
  /\ TypeOK /\ Control /\ Wires /\ Accounted /\ BatchesFormed /\ SlotsOwned
  /\ Arriving /\ Held /\ Used /\ CopiesArrived
  /\ pc # "miss"

-----------------------------------------------------------------------------
(* What the invariant says of a state *)

(* The queues and the counts of a state that has its type. *)
LEMMA CountsType ==
  ASSUME TypeOK
  PROVE  \A d \in Servers :
           /\ cq[d] \in Nat /\ sq[d] \in Seq(Read) /\ Len(sq[d]) \in Nat
           /\ DOMAIN sq[d] = 1 .. Len(sq[d])
           /\ \A m : Cardinality(SignalsFrom(sq[d], m)) \in Nat
           /\ \A k : Cardinality(WaitsFrom(polls, d, k)) \in Nat
<1>1. ASSUME NEW d \in Servers
      PROVE  cq[d] \in Nat /\ sq[d] \in Seq(Read) /\ polls \in Seq([Servers -> Nat])
  BY DEF TypeOK
<1> QED BY <1>1, FiniteSignals, FiniteWaits

(* While no batch is open and the entry points are not being read, the queue
   pairs are idle. *)
LEMMA Quiet ==
  ASSUME TypeOK, Wires, Accounted, batches = << >>, pc # "sync"
  PROVE  polls = << >> /\ \A d \in Servers : sq[d] = << >> /\ cq[d] = 0
<1>1. polls = << >> /\ polls \in Seq([Servers -> Nat])
  BY DEF TypeOK, Accounted
<1>2. \A d : WaitsFrom(polls, d, 1) = {}
  BY <1>1 DEF WaitsFrom
<1>3. ASSUME NEW d \in Servers PROVE sq[d] = << >> /\ cq[d] = 0
  <2>1. cq[d] + Cardinality(SignalsFrom(sq[d], 1)) = 0
    BY <1>2, FS_EmptySet DEF Accounted
  <2>2. cq[d] \in Nat /\ sq[d] \in Seq(Read) /\ Cardinality(SignalsFrom(sq[d], 1)) \in Nat
    BY CountsType
  <2>3. cq[d] = 0 /\ Cardinality(SignalsFrom(sq[d], 1)) = 0
    BY <2>1, <2>2
  <2>4. sq[d] # << >> => sq[d][Len(sq[d])].signaled
    BY DEF Wires
  <2> QED BY <2>2, <2>3, <2>4, NoneSignaled
<1> QED BY <1>1, <1>3

(* Slots stay owned when the new claims are those of one batch, behind the old. *)
LEMMA SlotsKept ==
  ASSUME SlotsOwned, bufUsed \in Nat, bufUsed' \in Nat, bufUsed <= bufUsed', NEW b,
         \A s \in Slots, v \in Items : PlacedIn(b, s, v) => bufUsed <= s /\ s < bufUsed',
         \A s \in Slots, v, w \in Items : PlacedIn(b, s, v) /\ PlacedIn(b, s, w) => v = w,
         \A s \in Slots, v \in Items : Claimed(s, v)' => Claimed(s, v) \/ PlacedIn(b, s, v)
  PROVE  SlotsOwned'
<1> SUFFICES ASSUME NEW s \in Slots, NEW v \in Items, Claimed(s, v)',
                    NEW w \in Items
             PROVE  s < bufUsed' /\ (Claimed(s, w)' => w = v)
  BY DEF SlotsOwned, Slots
<1>1. s \in Nat
  BY FiniteItems
<1>2. Claimed(s, v) \/ PlacedIn(b, s, v)
  OBVIOUS
<1>3. Claimed(s, w)' => Claimed(s, w) \/ PlacedIn(b, s, w)
  OBVIOUS
<1>4. /\ Claimed(s, v) => s < bufUsed
      /\ Claimed(s, w) => s < bufUsed
      /\ Claimed(s, v) /\ Claimed(s, w) => w = v
  BY DEF SlotsOwned
<1>5. /\ PlacedIn(b, s, v) => bufUsed <= s /\ s < bufUsed'
      /\ PlacedIn(b, s, w) => bufUsed <= s /\ s < bufUsed'
      /\ PlacedIn(b, s, v) /\ PlacedIn(b, s, w) => v = w
  OBVIOUS
<1>6. s < bufUsed'
  BY <1>1, <1>2, <1>4, <1>5
<1>7. ~ (s < bufUsed /\ bufUsed <= s)
  BY <1>1
<1> QED BY <1>2, <1>3, <1>4, <1>5, <1>6, <1>7

(* A batch of vertices that were not seen has room in the buffer. *)
LEMMA Placed ==
  ASSUME TypeOK, Used, NEW items \in Seq(Items), NEW seen \in SUBSET Items,
         \A m, n \in DOMAIN items : items[m] = items[n] => m = n,
         ToSet(items) \cap visited = {}, visited \cup ToSet(items) \subseteq seen
  PROVE  LET b == [items |-> items, where |-> Places(items)]
             used == bufUsed + Cardinality(FetchedAt(items))
         IN  /\ used \in Nat /\ bufUsed <= used
             /\ used <= Cardinality({v \in seen : Fetched(v)})
             /\ b \in Batch /\ Formed(b)
             /\ \A i \in DOMAIN items : Fetched(items[i]) => Places(items)[i] \in Slots
             /\ \A s \in Slots, v \in Items : PlacedIn(b, s, v) => bufUsed <= s /\ s < used
             /\ \A s \in Slots, v, w \in Items : PlacedIn(b, s, v) /\ PlacedIn(b, s, w) => v = w
<1> DEFINE F == FetchedAt(items)
           n == Cardinality(F)
           A == {v \in visited : Fetched(v)}
           B == {v \in ToSet(items) : Fetched(v)}
           C == {v \in seen : Fetched(v)}
           where == Places(items)
           f == [i \in F |-> items[i]]
<1>0. bufUsed \in Nat /\ visited \in SUBSET Items
  BY DEF TypeOK
<1>1. /\ n \in Nat
      /\ where \in Seq(Int) /\ DOMAIN where = DOMAIN items /\ Len(where) = Len(items)
      /\ \A i \in DOMAIN items : ~ Fetched(items[i]) => where[i] = Stable
      /\ \A i \in DOMAIN items : Fetched(items[i]) =>
           where[i] \in bufUsed .. bufUsed + n - 1
      /\ \A i, j \in DOMAIN items :
           Fetched(items[i]) /\ Fetched(items[j]) /\ where[i] = where[j] => i = j
  BY <1>0, PlacesAre
<1>2. DOMAIN items = 1 .. Len(items) /\ Len(items) \in Nat /\ \A i \in DOMAIN items : items[i] \in Items
  OBVIOUS
<1>3. F \in SUBSET (1 .. Len(items)) /\ IsFiniteSet(F)
      /\ \A i : i \in F <=> i \in DOMAIN items /\ Fetched(items[i])
  <2>1. F \in SUBSET (1 .. Len(items))
    BY <1>2 DEF FetchedAt
  <2> QED BY <1>2, <2>1, FinitePositions DEF FetchedAt
<1>4. B \in SUBSET Items /\ C \in SUBSET Items /\ A \in SUBSET Items
      /\ A \cap B = {} /\ A \cup B \in SUBSET C
  BY <1>0, <1>2 DEF ToSet
<1>5. \A v : v \in B <=> \E i \in F : items[i] = v
  BY <1>2, <1>3 DEF ToSet
<1> HIDE DEF F, A, B, C, n, where
<1>6. IsFiniteSet(B) /\ Cardinality(B) = n
  <2>1. f \in Bijection(F, B)
    <3>1. f \in [F -> B] /\ \A i \in F : f[i] = items[i]
      BY <1>5
    <3>2. \A i, j \in F : f[i] = f[j] => i = j
      BY <3>1, <1>3
    <3>3. \A v \in B : \E i \in F : f[i] = v
      BY <3>1, <1>5
    <3> HIDE DEF f
    <3>4. f \in Injection(F, B)
      BY <3>1, <3>2, Fun_IsInj
    <3>5. f \in Surjection(F, B)
      BY <3>1, <3>3, Fun_IsSurj
    <3> QED BY <3>4, <3>5, Fun_IsBij
  <2> HIDE DEF f
  <2>2. ExistsBijection(F, B)
    BY <2>1 DEF ExistsBijection
  <2> QED BY <2>2, <1>3, FS_Bijection DEF n
<1>7. IsFiniteSet(A) /\ IsFiniteSet(C) /\ Cardinality(A) \in Nat /\ Cardinality(C) \in Nat
      /\ Cardinality(C) <= Cardinality(Items) /\ Cardinality(Items) \in Nat
  BY <1>4, FiniteItems
<1>8. Cardinality(A) + n <= Cardinality(C)
  <2>1. Cardinality(A \cup B) = Cardinality(A) + Cardinality(B)
    <3>1. Cardinality(A \cup B) = Cardinality(A) + Cardinality(B) - Cardinality(A \cap B)
      BY <1>6, <1>7, FS_Union
    <3>2. Cardinality(A \cap B) = 0
      BY <1>4, FS_EmptySet
    <3> QED BY <3>1, <3>2, <1>1, <1>6, <1>7
  <2>2. Cardinality(A \cup B) <= Cardinality(C)
    BY <1>4, <1>7, FS_Subset
  <2> QED BY <2>1, <2>2, <1>6
<1>9. bufUsed <= Cardinality(A)
  BY DEF Used, A
<1> DEFINE used == bufUsed + n
           b == [items |-> items, where |-> where]
<1>10. used \in Nat /\ bufUsed <= used /\ used <= Cardinality(C)
       /\ used <= Cardinality(Items)
  BY <1>0, <1>1, <1>7, <1>8, <1>9
<1>11. \A s \in bufUsed .. used - 1 : s \in Slots
  BY <1>0, <1>7, <1>10 DEF Slots
<1>12. \A i \in DOMAIN items : Fetched(items[i]) => where[i] \in Slots
  <2>1. ASSUME NEW i \in DOMAIN items, Fetched(items[i]) PROVE where[i] \in Slots
    <3>1. where[i] \in bufUsed .. bufUsed + n - 1
      BY <1>1, <2>1
    <3>2. where[i] \in bufUsed .. used - 1
      BY <3>1, <1>0, <1>1
    <3> QED BY <3>2, <1>11
  <2> QED BY <2>1
<1>13. \A i \in DOMAIN items : where[i] \in Slots \cup {Stable}
  BY <1>1, <1>12
<1>14. b \in Batch
  <2>1. where \in Seq(Slots \cup {Stable})
    <3> DEFINE W == Slots \cup {Stable}
    <3>1. \A i \in 1 .. Len(items) : where[i] \in W
      BY <1>13, <1>2
    <3> HIDE DEF W
    <3>2. where \in [1 .. Len(items) -> W]
      BY <1>1, <1>2, <3>1
    <3>3. where \in Seq(W)
      BY <3>2, <1>2
    <3> QED BY <3>3 DEF W
  <2> QED BY <2>1 DEF Batch
<1>15. \A s \in Slots : s \in Nat /\ s # Stable
  BY FiniteItems DEF Stable
<1>16. Formed(b)
  BY <1>1, <1>12, <1>15 DEF Formed
<1>17. ASSUME NEW s \in Slots, NEW v \in Items, PlacedIn(b, s, v)
       PROVE  /\ bufUsed <= s /\ s < used
              /\ \A w \in Items : PlacedIn(b, s, w) => v = w
  <2>1. PICK i \in DOMAIN items : where[i] = s /\ items[i] = v
    BY <1>17 DEF PlacedIn
  <2>2. Fetched(items[i])
    BY <1>1, <1>15, <2>1
  <2>3. s \in bufUsed .. bufUsed + n - 1
    BY <1>1, <2>1, <2>2
  <2>4. ASSUME NEW w \in Items, PlacedIn(b, s, w) PROVE v = w
    <3>1. PICK j \in DOMAIN items : where[j] = s /\ items[j] = w
      BY <2>4 DEF PlacedIn
    <3>2. Fetched(items[j])
      BY <1>1, <1>15, <3>1
    <3>3. i = j
      BY <1>1, <2>1, <2>2, <3>1, <3>2
    <3> QED BY <2>1, <3>1, <3>3
  <2> QED BY <2>3, <2>4, <1>0, <1>1, <1>15
<1> HIDE DEF used, b
<1>18. /\ used \in Nat /\ bufUsed <= used
       /\ used <= Cardinality(C)
       /\ b \in Batch /\ Formed(b)
       /\ \A i \in DOMAIN items : Fetched(items[i]) => where[i] \in Slots
       /\ \A s \in Slots, v \in Items : PlacedIn(b, s, v) => bufUsed <= s /\ s < used
       /\ \A s \in Slots, v, w \in Items : PlacedIn(b, s, v) /\ PlacedIn(b, s, w) => v = w
  BY <1>10, <1>12, <1>14, <1>16, <1>17
<1> QED BY <1>18 DEF used, b, where, n, F, C

-----------------------------------------------------------------------------
(* The NIC *)

(* The fields of a read. *)
LEMMA ReadType ==
  ASSUME NEW r \in Read
  PROVE  r.slot \in Slots /\ r.item \in Items /\ r.signaled \in BOOLEAN
BY DEF Read

(* The first element of a list that is not empty, and the others. *)
LEMMA HeadAndTail ==
  ASSUME NEW S, NEW q \in Seq(S), q # << >>
  PROVE  /\ Len(q) \in Nat \ {0} /\ DOMAIN q = 1 .. Len(q) /\ 1 \in DOMAIN q
         /\ Head(q) = q[1] /\ Head(q) \in S
         /\ Tail(q) \in Seq(S) /\ Len(Tail(q)) = Len(q) - 1 /\ DOMAIN Tail(q) = 1 .. Len(q) - 1
         /\ \A m \in 1 .. Len(q) - 1 : Tail(q)[m] = q[m + 1] /\ m + 1 \in DOMAIN q
OBVIOUS

(* The NIC writes the slot of the read it executes, which is meant for no other
   vertex, and completes what was signaled. *)
LEMMA NicKeeps ==
  ASSUME SearchInv, NEW d \in Servers, Nic(d)
  PROVE  SearchInv'
<1> DEFINE q == sq[d]
           r == Head(q)
<1>0. /\ TypeOK /\ Control /\ Wires /\ Accounted /\ BatchesFormed /\ SlotsOwned
      /\ Arriving /\ Held /\ Used /\ CopiesArrived
      /\ pc # "miss"
  BY DEF SearchInv
<1>1. /\ UNCHANGED <<graph, Relax, todo, pc, pool, expanded, visited, relax, batches>>
      /\ UNCHANGED <<bufUsed, cache, polls, scratch, results>>
  BY DEF Nic, searchVars, storeVars
<1>2. /\ q # << >> /\ q \in Seq(Read) /\ sq \in [Servers -> Seq(Read)] /\ cq \in [Servers -> Nat]
      /\ buffer \in [Slots -> Items \cup {Junk}]
      /\ batches \in Seq(Batch)
  BY <1>0 DEF Nic, TypeOK
<1>3. /\ Len(q) \in Nat \ {0} /\ DOMAIN q = 1 .. Len(q) /\ 1 \in DOMAIN q
      /\ r = q[1] /\ r \in Read /\ Tail(q) \in Seq(Read) /\ Len(Tail(q)) = Len(q) - 1
      /\ DOMAIN Tail(q) = 1 .. Len(q) - 1
      /\ \A m \in 1 .. Len(q) - 1 : Tail(q)[m] = q[m + 1] /\ m + 1 \in DOMAIN q
  BY <1>2, HeadAndTail
<1>4. r.slot \in Slots /\ r.item \in Items /\ r.signaled \in BOOLEAN
  BY <1>3, ReadType
<1>5. /\ sq' = [sq EXCEPT ![d] = Tail(q)]
      /\ buffer' = [buffer EXCEPT ![r.slot] = r.item]
      /\ cq' = IF r.signaled THEN [cq EXCEPT ![d] = cq[d] + 1] ELSE cq
  BY DEF Nic
<1>6. /\ sq'[d] = Tail(q) /\ \A e \in Servers : e # d => sq'[e] = sq[e]
      /\ buffer'[r.slot] = r.item
      /\ \A s \in Slots : s # r.slot => buffer'[s] = buffer[s]
      /\ \A e \in Servers : e # d => cq'[e] = cq[e]
      /\ r.signaled => cq'[d] = cq[d] + 1
      /\ ~ r.signaled => cq'[d] = cq[d]
  BY <1>2, <1>4, <1>5
<1>7. TypeOK'
  <2>1. sq' \in [Servers -> Seq(Read)]
    BY <1>2, <1>3, <1>5
  <2>2. buffer' \in [Slots -> Items \cup {Junk}]
    BY <1>2, <1>4, <1>5
  <2>3. cq' \in [Servers -> Nat]
    <3>1. CASE r.signaled
      <4>1. cq' = [cq EXCEPT ![d] = cq[d] + 1]
        BY <1>5, <3>1
      <4> HIDE DEF r, q
      <4> QED BY <1>2, <4>1
    <3>2. CASE ~ r.signaled
      BY <1>2, <1>5, <3>2
    <3> QED BY <3>1, <3>2
  <2> HIDE DEF q, r
  <2> QED BY <2>1, <2>2, <2>3, <1>0, <1>1 DEF TypeOK
<1> HIDE DEF q, r
<1>8. Control'
  BY <1>0, <1>1 DEF Control, Query
<1>9. Wires'
  <2>1. ASSUME NEW e \in Servers
        PROVE  /\ sq'[e] # << >> => sq'[e][Len(sq'[e])].signaled
               /\ pc = "sync" => \A m \in DOMAIN sq'[e] : sq'[e][m].signaled
    <3>0. /\ sq[e] # << >> => sq[e][Len(sq[e])].signaled
          /\ pc = "sync" => \A m \in DOMAIN sq[e] : sq[e][m].signaled
      BY <1>0 DEF Wires
    <3>1. CASE e # d
      BY <3>0, <3>1, <1>6
    <3>2. CASE e = d
      <4>1. /\ q # << >> => q[Len(q)].signaled
            /\ pc = "sync" => \A m \in DOMAIN q : q[m].signaled
        BY <3>0, <3>2 DEF q
      <4>2. Tail(q) # << >> => Len(Tail(q)) \in 1 .. Len(q) - 1 /\ Len(Tail(q)) + 1 = Len(q)
        BY <1>3
      <4>3. Tail(q) # << >> => Tail(q)[Len(Tail(q))].signaled
        BY <4>1, <4>2, <1>2, <1>3
      <4>4. pc = "sync" => \A m \in DOMAIN Tail(q) : Tail(q)[m].signaled
        BY <4>1, <1>3
      <4> QED BY <4>3, <4>4, <3>2, <1>6
    <3> QED BY <3>1, <3>2
  <2> QED BY <2>1, <1>1 DEF Wires
<1>10. Accounted'
  <2>1. ASSUME NEW e \in Servers
        PROVE  cq'[e] + Cardinality(SignalsFrom(sq'[e], 1))
                 = cq[e] + Cardinality(SignalsFrom(sq[e], 1))
    <3>1. CASE e # d
      BY <3>1, <1>6
    <3>2. CASE e = d
      <4>1. /\ r.signaled => Cardinality(SignalsFrom(q, 1)) = Cardinality(SignalsFrom(Tail(q), 1)) + 1
            /\ ~ r.signaled => Cardinality(SignalsFrom(q, 1)) = Cardinality(SignalsFrom(Tail(q), 1))
        BY <1>2, <1>3, SignalsOfTail
      <4>2. Cardinality(SignalsFrom(Tail(q), 1)) \in Nat /\ cq[d] \in Nat
        BY <1>2, <1>3, FiniteSignals
      <4>3. sq'[e] = Tail(q) /\ sq[e] = q /\ cq[e] = cq[d] /\ cq'[e] = cq'[d]
        BY <3>2, <1>6 DEF q
      <4>4. cq'[d] + Cardinality(SignalsFrom(Tail(q), 1)) = cq[d] + Cardinality(SignalsFrom(q, 1))
        BY <4>1, <4>2, <1>6
      <4> QED BY <4>3, <4>4
    <3> QED BY <3>1, <3>2
  <2> QED BY <2>1, <1>0, <1>1 DEF Accounted, EntryReads, ReadAt, Fetched
<1>11. BatchesFormed'
  BY <1>0, <1>1 DEF BatchesFormed, Formed, Fetched
<1>12. \A e \in Servers, s \in Slots, v \in Items :
         PostedTo(sq'[e], s, v) => PostedTo(sq[e], s, v)
  <2>1. ASSUME NEW e \in Servers, NEW s \in Slots, NEW v \in Items, PostedTo(sq'[e], s, v)
        PROVE  PostedTo(sq[e], s, v)
    <3>1. CASE e # d
      BY <2>1, <3>1, <1>6
    <3>2. CASE e = d
      <4>1. PICK m \in DOMAIN Tail(q) : Tail(q)[m].slot = s /\ Tail(q)[m].item = v
        BY <2>1, <3>2, <1>6 DEF PostedTo
      <4>2. m + 1 \in DOMAIN q /\ q[m + 1].slot = s /\ q[m + 1].item = v
        BY <4>1, <1>3
      <4> QED BY <4>2, <3>2 DEF PostedTo, q
    <3> QED BY <3>1, <3>2
  <2> QED BY <2>1
<1>13. \A s \in Slots, v \in Items : Claimed(s, v)' => Claimed(s, v)
  <2>1. ASSUME NEW s \in Slots, NEW v \in Items, Claimed(s, v)' PROVE Claimed(s, v)
    <3>1. \/ \E e \in Servers : PostedTo(sq'[e], s, v)
          \/ \E k \in DOMAIN batches : PlacedIn(batches[k], s, v)
          \/ pc = "sync" /\ PlacedIn(scratch, s, v)
          \/ cache[v] = s
      BY <2>1, <1>1 DEF Claimed, PostedTo, PlacedIn
    <3> QED BY <3>1, <1>12 DEF Claimed
  <2> QED BY <2>1
<1>14. SlotsOwned'
  BY <1>0, <1>1, <1>13 DEF SlotsOwned
<1>15. Claimed(r.slot, r.item)
  <2>1. PostedTo(sq[d], r.slot, r.item)
    BY <1>3 DEF PostedTo, q
  <2> QED BY <2>1 DEF Claimed
<1>16. \A s \in Slots, v \in Items : Claimed(s, v) /\ buffer[s] = v => buffer'[s] = v
  <2>1. ASSUME NEW s \in Slots, NEW v \in Items, Claimed(s, v), buffer[s] = v
        PROVE  buffer'[s] = v
    <3>1. s = r.slot => v = r.item
      BY <2>1, <1>0, <1>4, <1>15 DEF SlotsOwned
    <3> QED BY <2>1, <3>1, <1>6
  <2> QED BY <2>1
<1>17. Arriving'
  <2>1. ASSUME NEW s \in Slots, NEW v \in Items, NEW n, n \in Nat,
               Expected(sq[Home[v]], s, v, n)
        PROVE  buffer'[s] = v \/ Expected(sq'[Home[v]], s, v, n)
    <3>1. CASE Home[v] # d
      <4>1. Home[v] \in Servers
        BY SearchAssumption
      <4> QED BY <2>1, <3>1, <4>1, <1>6
    <3>2. CASE Home[v] = d
      <4>1. PICK m \in DOMAIN q : q[m].slot = s /\ q[m].item = v /\ n <= Cardinality(SignalsFrom(q, m))
        BY <2>1, <3>2 DEF Expected, q
      <4>2. CASE m = 1
        BY <4>1, <4>2, <1>3, <1>6
      <4>3. CASE m # 1
        <5>1. m - 1 \in 1 .. Len(q) - 1 /\ m - 1 \in Nat \ {0} /\ (m - 1) + 1 = m
          BY <4>3, <1>3
        <5>2. Tail(q)[m - 1] = q[m]
          BY <5>1, <1>3
        <5>3. Cardinality(SignalsFrom(Tail(q), m - 1)) = Cardinality(SignalsFrom(q, m))
          BY <5>1, <1>2, SignalsOfTail
        <5>4. Expected(Tail(q), s, v, n)
          BY <4>1, <5>1, <5>2, <5>3, <1>3 DEF Expected
        <5> QED BY <5>4, <3>2, <1>6
      <4> QED BY <4>2, <4>3
    <3> QED BY <3>1, <3>2
  <2>2. ASSUME NEW k \in DOMAIN batches, NEW s \in Slots, NEW v \in Items, PlacedIn(batches[k], s, v)
        PROVE  \/ buffer'[s] = v
               \/ Expected(sq'[Home[v]], s, v, Cardinality(WaitsFrom(polls, Home[v], k)))
    <3>1. \/ buffer[s] = v
          \/ Expected(sq[Home[v]], s, v, Cardinality(WaitsFrom(polls, Home[v], k)))
      BY <2>2, <1>0 DEF Arriving
    <3>2. Claimed(s, v)
      BY <2>2 DEF Claimed
    <3>3. Cardinality(WaitsFrom(polls, Home[v], k)) \in Nat
      BY <1>0, CountsType, SearchAssumption
    <3> QED BY <2>1, <3>1, <3>2, <3>3, <1>16
  <2>3. ASSUME pc = "sync", NEW s \in Slots, NEW v \in Items, PlacedIn(scratch, s, v)
        PROVE  buffer'[s] = v \/ PostedTo(sq'[Home[v]], s, v)
    <3>0. Claimed(s, v)
      BY <2>3 DEF Claimed
    <3>1. buffer[s] = v \/ PostedTo(sq[Home[v]], s, v)
      BY <2>3, <1>0 DEF Arriving
    <3>2. CASE Home[v] # d
      <4>1. Home[v] \in Servers
        BY SearchAssumption
      <4> QED BY <3>0, <3>1, <3>2, <4>1, <1>6, <1>16
    <3>3. CASE Home[v] = d /\ PostedTo(q, s, v)
      <4>1. PICK m \in DOMAIN q : q[m].slot = s /\ q[m].item = v
        BY <3>3 DEF PostedTo
      <4>2. CASE m = 1
        BY <4>1, <4>2, <1>3, <1>6
      <4>3. CASE m # 1
        <5>1. m - 1 \in 1 .. Len(q) - 1 /\ (m - 1) + 1 = m
          BY <4>3, <1>3
        <5>2. Tail(q)[m - 1] = q[m]
          BY <5>1, <1>3
        <5>3. PostedTo(Tail(q), s, v)
          BY <4>1, <5>1, <5>2, <1>3 DEF PostedTo
        <5> QED BY <5>3, <3>3, <1>6
      <4> QED BY <4>2, <4>3
    <3> QED BY <3>0, <3>1, <3>2, <3>3, <1>16 DEF q
  <2> QED BY <2>2, <2>3, <1>1 DEF Arriving, PlacedIn
<1>18. CopiesArrived'
  <2>1. ASSUME NEW v \in Items, cache[v] \in Slots
        PROVE  buffer'[cache[v]] = v
    <3>1. Claimed(cache[v], v)
      BY DEF Claimed
    <3>2. buffer[cache[v]] = v
      BY <2>1, <1>0 DEF CopiesArrived
    <3> QED BY <2>1, <3>1, <3>2, <1>16
  <2> QED BY <2>1, <1>1 DEF CopiesArrived, Slots
<1>19. Held' /\ Used'
  BY <1>0, <1>1 DEF Held, Used, Local, Fetched
<1>20. pc' # "miss"
  BY <1>0, <1>1
<1> QED BY <1>7, <1>8, <1>9, <1>10, <1>11, <1>14, <1>17, <1>18, <1>19, <1>20 DEF SearchInv

-----------------------------------------------------------------------------
(* Between two queries, and at the end of a loop *)

(* Nothing of the last query is under way when the thread context is reset. *)
LEMMA ResetKeeps ==
  ASSUME SearchInv, Reset
  PROVE  SearchInv'
<1>0. /\ TypeOK /\ Control /\ Wires /\ Accounted
  BY DEF SearchInv
<1>1. pc = "begin" /\ pc' = "entry" /\ todo < Len(Queries) /\ pool' = {} /\ expanded' = {}
      /\ visited' = {} /\ relax' = Relax /\ batches' = << >> /\ bufUsed' = 0
      /\ cache' = [v \in Items |-> NotCached]
      /\ UNCHANGED <<graph, Relax, todo, polls, scratch, buffer, sq, cq, results>>
  BY DEF Reset, BufferReset, nicVars
<1>2. batches = << >> /\ polls = << >> /\ \A d \in Servers : sq[d] = << >> /\ cq[d] = 0
  BY <1>0, <1>1, Quiet DEF Control
<1>3. TypeOK'
  <2>1. Relax \in Nat /\ relax' \in 0 .. Relax
    BY <1>0, <1>1, SearchAssumption DEF TypeOK
  <2> QED BY <2>1, <1>0, <1>1 DEF TypeOK
<1>4. Control'
  BY <1>1 DEF Control
<1>5. Wires'
  BY <1>1, <1>2 DEF Wires
<1>6. Accounted'
  <2>1. \A d \in Servers : SignalsFrom(sq'[d], 1) = {} /\ WaitsFrom(polls', d, 1) = {}
    BY <1>1, <1>2 DEF SignalsFrom, WaitsFrom
  <2>2. Cardinality({}) = 0
    BY FS_EmptySet
  <2> QED BY <1>1, <1>2, <2>1, <2>2 DEF Accounted
<1>7. BatchesFormed'
  BY <1>1 DEF BatchesFormed
<1>8. \A s \in Slots, v \in Items : ~ Claimed(s, v)'
  <2>1. ASSUME NEW s \in Slots, NEW v \in Items PROVE ~ Claimed(s, v)'
    <3>1. cache'[v] # s
      BY <1>1, FiniteItems DEF NotCached
    <3>2. \A d \in Servers : ~ PostedTo(sq'[d], s, v)
      BY <1>1, <1>2 DEF PostedTo
    <3> QED BY <3>1, <3>2, <1>1 DEF Claimed, PostedTo
  <2> QED BY <2>1
<1>9. SlotsOwned' /\ Arriving' /\ CopiesArrived'
  <2>1. SlotsOwned'
    BY <1>8 DEF SlotsOwned
  <2>2. Arriving'
    BY <1>1 DEF Arriving
  <2>3. CopiesArrived'
    BY <1>1, FiniteItems DEF CopiesArrived, NotCached
  <2> QED BY <2>1, <2>2, <2>3
<1>10. Held' /\ Used'
  <2>1. {v \in visited' : Fetched(v)} = {}
    BY <1>1
  <2>2. bufUsed' <= Cardinality({v \in visited' : Fetched(v)})
    BY <2>1, <1>1, FS_EmptySet
  <2> QED BY <2>2, <1>1 DEF Held, Used, Fetched
<1>11. pc' # "miss"
  BY <1>1
<1> QED BY <1>3, <1>4, <1>5, <1>6, <1>7, <1>9, <1>10, <1>11 DEF SearchInv

(* A step that leaves the buffer, the batches and the pool alone, and is not in
   the middle of the entry points. *)
LEMMA Untouched ==
  ASSUME SearchInv, UNCHANGED <<graph, Relax, searchVars, storeVars, nicVars, scratch>>,
         pc \notin {"entry", "sync"}, pc' \notin {"entry", "sync"},
         todo' \in 0 .. Len(Queries), results' \in SUBSET Items,
         pc' \in {"begin", "expand", "settle", "drain", "stale"},
         Control'
  PROVE  SearchInv'
<1>0. /\ TypeOK /\ Control /\ Wires /\ Accounted /\ BatchesFormed /\ SlotsOwned
      /\ Arriving /\ Held /\ Used /\ CopiesArrived
  BY DEF SearchInv
<1>1. UNCHANGED <<graph, Relax, pool, expanded, visited, relax, batches, bufUsed, cache,
                  polls, buffer, sq, cq, scratch>>
  BY DEF searchVars, storeVars, nicVars
<1>2. TypeOK'
  BY <1>0, <1>1 DEF TypeOK
<1>3. Wires' /\ BatchesFormed'
  BY <1>0, <1>1 DEF Wires, BatchesFormed, Formed, Fetched
<1>4. Accounted'
  BY <1>0, <1>1 DEF Accounted
<1>5. SlotsOwned'
  <2>1. \A s \in Slots, v \in Items : Claimed(s, v)' => Claimed(s, v)
    BY <1>1 DEF Claimed, PostedTo, PlacedIn
  <2> QED BY <2>1, <1>0, <1>1 DEF SlotsOwned
<1>6. Arriving'
  BY <1>0, <1>1 DEF Arriving, PlacedIn
<1>7. Held' /\ Used' /\ CopiesArrived'
  BY <1>0, <1>1 DEF Held, Used, CopiesArrived, Local, Fetched, Slots
<1> QED BY <1>2, <1>3, <1>4, <1>5, <1>6, <1>7 DEF SearchInv

(* The loop ends when the pool has no unexpanded entry; batches may be open. *)
LEMMA LeaveLoopKeeps ==
  ASSUME SearchInv, LeaveLoop
  PROVE  SearchInv'
<1>1. /\ pc = "expand" /\ pc' = "drain" /\ todo' = todo /\ results' = results
      /\ UNCHANGED <<graph, Relax, searchVars, storeVars, nicVars, scratch>>
      /\ UNCHANGED <<batches, pool>>
  BY DEF LeaveLoop, searchVars
<1>2. todo' \in 0 .. Len(Queries) /\ results' \in SUBSET Items
  BY <1>1 DEF SearchInv, TypeOK
<1>3. Control'
  BY <1>1 DEF SearchInv, Control
<1> QED BY <1>1, <1>2, <1>3, Untouched

(* The entries of the answer can be read, so Output never misses one. *)
LEMMA OutputKeeps ==
  ASSUME SearchInv, Output
  PROVE  SearchInv'
<1>1. /\ pc = "drain" /\ batches = << >>
      /\ UNCHANGED <<graph, Relax, searchVars, storeVars, nicVars, scratch>>
      /\ UNCHANGED <<batches, pool>>
  BY DEF Output, searchVars
<1>2. TypeOK /\ todo \in 0 .. Len(Queries) /\ todo < Len(Queries) /\ pool \in SUBSET Items
      /\ results \in SUBSET Items /\ K \in Nat /\ Capacity \in Nat
  BY <1>1, SearchAssumption DEF SearchInv, TypeOK, Control
<1>3. \A v \in pool : Readable(v)
  BY DEF SearchInv, Held, Readable, Local
<1>4. NearestK \in SUBSET pool
  BY DEF NearestK, Nearest
<1>5. CASE Cardinality(pool) < K
  <2>1. pc' = "stale" /\ todo' = todo /\ results' = results
    BY <1>1, <1>5 DEF Output
  <2>2. Control'
    BY <1>2, <1>1, <2>1 DEF Control
  <2> QED BY <1>1, <1>2, <2>1, <2>2, Untouched
<1>6. CASE ~ (Cardinality(pool) < K)
  <2>1. pc' = "begin" /\ todo' = todo + 1 /\ results' = NearestK
    BY <1>1, <1>3, <1>6 DEF Output
  <2>2. todo' \in 0 .. Len(Queries)
    <3>1. Len(Queries) \in Nat
      BY SearchAssumption
    <3> QED BY <2>1, <1>2, <3>1
  <2>3. Control'
    BY <1>1, <2>1 DEF Control
  <2> QED BY <1>1, <1>2, <1>4, <2>1, <2>2, <2>3, Untouched
<1> QED BY <1>5, <1>6

(* A step that changes nothing. *)
LEMMA StutterKeeps ==
  ASSUME SearchInv, UNCHANGED vars
  PROVE  SearchInv'
<1>0. /\ TypeOK /\ Control /\ Wires /\ Accounted /\ BatchesFormed /\ SlotsOwned
      /\ Arriving /\ Held /\ Used /\ CopiesArrived
      /\ pc # "miss"
  BY DEF SearchInv
<1>1. UNCHANGED <<graph, Relax, todo, pc, pool, expanded, visited, relax, batches, bufUsed,
                  cache, polls, buffer, sq, cq, scratch, results>>
  BY DEF vars, searchVars, storeVars, nicVars
<1>2. TypeOK' /\ Control' /\ Wires' /\ BatchesFormed'
  <2>1. TypeOK'
    BY <1>0, <1>1 DEF TypeOK
  <2>2. Control'
    BY <1>0, <1>1 DEF Control, Query
  <2>3. Wires' /\ BatchesFormed'
    BY <1>0, <1>1 DEF Wires, BatchesFormed, Formed, Fetched
  <2> QED BY <2>1, <2>2, <2>3
<1>3. Accounted'
  BY <1>0, <1>1 DEF Accounted, EntryReads, ReadAt, Fetched
<1>4. SlotsOwned'
  <2>1. \A s \in Slots, v \in Items : Claimed(s, v)' => Claimed(s, v)
    BY <1>1 DEF Claimed, PostedTo, PlacedIn
  <2> QED BY <2>1, <1>0, <1>1 DEF SlotsOwned
<1>5. Arriving'
  BY <1>0, <1>1 DEF Arriving, PlacedIn, PostedTo
<1>6. Held' /\ Used' /\ CopiesArrived'
  BY <1>0, <1>1 DEF Held, Used, CopiesArrived, Local, Fetched, Slots
<1>7. pc' # "miss"
  BY <1>0, <1>1
<1> QED BY <1>2, <1>3, <1>4, <1>5, <1>6, <1>7 DEF SearchInv

(* The invariant holds before the first query. *)
LEMMA InitKeeps ==
  ASSUME Init
  PROVE  SearchInv
<1>1. TypeOK
  <2>1. graph \in [Items -> Seq(Items)] /\ Relax \in Nat /\ relax \in 0 .. Relax
    BY SearchAssumption DEF Init
  <2>2. scratch \in Batch
    BY DEF Init, Batch
  <2>3. 0 \in 0 .. Len(Queries)
    BY SearchAssumption
  <2>4. sq \in [Servers -> Seq(Read)] /\ cq \in [Servers -> Nat]
        /\ batches \in Seq(Batch) /\ polls \in Seq([Servers -> Nat])
    BY DEF Init
  <2>5. buffer \in [Slots -> Items \cup {Junk}]
        /\ cache \in [Items -> Slots \cup {Stable, NotCached}]
    BY DEF Init
  <2> QED BY <2>1, <2>2, <2>3, <2>4, <2>5 DEF Init, TypeOK
<1>2. Control /\ Wires /\ BatchesFormed /\ Arriving /\ Held
      /\ pc # "miss"
  BY DEF Init, Control, Wires, BatchesFormed, Arriving, Held
<1>3. Accounted
  <2>1. \A d \in Servers : SignalsFrom(sq[d], 1) = {} /\ WaitsFrom(polls, d, 1) = {}
    BY DEF Init, SignalsFrom, WaitsFrom
  <2>2. Cardinality({}) = 0
    BY FS_EmptySet
  <2> QED BY <2>1, <2>2 DEF Init, Accounted
<1>4. \A s \in Slots, v \in Items : cache[v] # s
  BY FiniteItems DEF Init, NotCached
<1>5. SlotsOwned /\ CopiesArrived
  <2>1. \A s \in Slots, v \in Items : ~ Claimed(s, v)
    BY <1>4 DEF Init, Claimed, PostedTo
  <2> QED BY <2>1, <1>4 DEF SlotsOwned, CopiesArrived
<1>6. Used
  <2>1. {v \in visited : Fetched(v)} = {}
    BY DEF Init
  <2> QED BY <2>1, FS_EmptySet DEF Used, Init
<1> QED BY <1>1, <1>2, <1>3, <1>5, <1>6 DEF SearchInv

-----------------------------------------------------------------------------
(* The entry points *)

(* What was posted to a queue that got more reads. *)
LEMMA PostedMore ==
  ASSUME NEW q \in Seq(Read), NEW more \in Seq(Read), NEW s, NEW v
  PROVE  PostedTo(q \o more, s, v) <=> PostedTo(q, s, v) \/ PostedTo(more, s, v)
<1> DEFINE all == q \o more
<1>1. /\ Len(q) \in Nat /\ Len(more) \in Nat /\ DOMAIN q = 1 .. Len(q)
      /\ DOMAIN more = 1 .. Len(more) /\ DOMAIN all = 1 .. Len(q) + Len(more)
      /\ \A n \in 1 .. Len(q) : all[n] = q[n]
      /\ \A n \in 1 .. Len(more) : all[Len(q) + n] = more[n]
  OBVIOUS
<1> HIDE DEF all
<1>2. ASSUME PostedTo(all, s, v) PROVE PostedTo(q, s, v) \/ PostedTo(more, s, v)
  <2>1. PICK m \in DOMAIN all : all[m].slot = s /\ all[m].item = v
    BY <1>2 DEF PostedTo
  <2>2. CASE m \in 1 .. Len(q)
    BY <2>1, <2>2, <1>1 DEF PostedTo
  <2>3. CASE m \notin 1 .. Len(q)
    <3>1. m - Len(q) \in 1 .. Len(more) /\ Len(q) + (m - Len(q)) = m
      BY <2>3, <1>1
    <3> QED BY <3>1, <2>1, <1>1 DEF PostedTo
  <2> QED BY <2>2, <2>3
<1>3. ASSUME PostedTo(q, s, v) PROVE PostedTo(all, s, v)
  <2>1. PICK m \in DOMAIN q : q[m].slot = s /\ q[m].item = v
    BY <1>3 DEF PostedTo
  <2>2. m \in DOMAIN all /\ all[m] = q[m]
    BY <1>1
  <2> QED BY <2>1, <2>2 DEF PostedTo
<1>4. ASSUME PostedTo(more, s, v) PROVE PostedTo(all, s, v)
  <2>1. PICK m \in DOMAIN more : more[m].slot = s /\ more[m].item = v
    BY <1>4 DEF PostedTo
  <2>2. Len(q) + m \in DOMAIN all /\ all[Len(q) + m] = more[m]
    BY <1>1
  <2> QED BY <2>1, <2>2 DEF PostedTo
<1> QED BY <1>2, <1>3, <1>4 DEF all

(* New reads are of the batch, and every vertex with a slot is read. *)
LEMMA PostedNew ==
  ASSUME NEW items \in Seq(Items), NEW where, Formed([items |-> items, where |-> where]),
         NEW d \in Servers, NEW r, NewReads(d, items, where, r),
         NEW s \in Slots, NEW v
  PROVE  /\ PostedTo(r, s, v) => PlacedIn([items |-> items, where |-> where], s, v)
         /\ PlacedIn([items |-> items, where |-> where], s, v) /\ Home[v] = d => PostedTo(r, s, v)
<1>1. s # Stable
  BY FiniteItems DEF Stable
<1>2. \A i \in DOMAIN items : where[i] = Stable <=> ~ Fetched(items[i])
  BY DEF Formed
<1>3. ASSUME PostedTo(r, s, v) PROVE PlacedIn([items |-> items, where |-> where], s, v)
  BY <1>3 DEF PostedTo, PlacedIn, NewReads
<1>4. ASSUME PlacedIn([items |-> items, where |-> where], s, v), Home[v] = d
      PROVE  PostedTo(r, s, v)
  <2>1. PICK i \in DOMAIN items : where[i] = s /\ items[i] = v
    BY <1>4 DEF PlacedIn
  <2>2. Fetched(items[i]) /\ Home[items[i]] = d
    BY <2>1, <1>1, <1>2, <1>4
  <2> QED BY <2>1, <2>2 DEF NewReads, PostedTo
<1> QED BY <1>3, <1>4

(* The entry points get slots of the buffer that nothing else claims. *)
LEMMA ReadEntriesKeeps ==
  ASSUME SearchInv, ReadEntries
  PROVE  SearchInv'
<1> DEFINE items == Unseen(Query.eps, visited)
           where == Places(items)
           b == [items |-> items, where |-> where]
<1>0. /\ TypeOK /\ Control /\ Wires /\ Accounted /\ BatchesFormed /\ SlotsOwned
      /\ Arriving /\ Held /\ Used /\ CopiesArrived
  BY DEF SearchInv
<1>1. /\ pc = "entry" /\ pc' = "sync" /\ visited' = visited \cup ToSet(items)
      /\ scratch' = b /\ PostSync(items, where)
      /\ UNCHANGED <<graph, Relax, todo, pool, expanded, relax, batches, cache, polls,
                     buffer, cq, results>>
  BY DEF ReadEntries
<1>2. batches = << >> /\ polls = << >> /\ visited = {} /\ relax = Relax /\ todo < Len(Queries)
      /\ \A d \in Servers : sq[d] = << >> /\ cq[d] = 0
  BY <1>0, <1>1, Quiet DEF Control
<1>3. todo \in Nat /\ Query.eps \in Seq(Items) /\ visited \in SUBSET Items /\ bufUsed \in Nat
  <2>1. todo \in Nat
    BY <1>0, SearchAssumption DEF TypeOK
  <2> QED BY <2>1, <1>0, <1>2, QueryType DEF TypeOK
<1>4. /\ items \in Seq(Items) /\ ToSet(items) = ToSet(Query.eps) \ visited
      /\ \A m, n \in DOMAIN items : items[m] = items[n] => m = n
  BY <1>3, UnseenIs
<1> HIDE DEF items
<1>5. visited' \in SUBSET Items /\ ToSet(items) \in SUBSET Items
  BY <1>1, <1>3, <1>4 DEF ToSet
<1>6. bufUsed' = bufUsed + Cardinality(FetchedAt(items))
  BY <1>1 DEF PostSync, Post, FetchedAt
<1>7. /\ bufUsed' \in Nat /\ bufUsed <= bufUsed'
      /\ bufUsed' <= Cardinality({v \in visited' : Fetched(v)})
      /\ b \in Batch /\ Formed(b)
      /\ \A i \in DOMAIN items : Fetched(items[i]) => where[i] \in Slots
      /\ \A s \in Slots, v \in Items : PlacedIn(b, s, v) => bufUsed <= s /\ s < bufUsed'
      /\ \A s \in Slots, v, w \in Items : PlacedIn(b, s, v) /\ PlacedIn(b, s, w) => v = w
  <2>1. ToSet(items) \cap visited = {} /\ visited \cup ToSet(items) \subseteq visited'
    BY <1>1, <1>4
  <2> QED BY <2>1, <1>0, <1>4, <1>5, <1>6, Placed
<1> HIDE DEF where
<1>8. ASSUME NEW d \in Servers
      PROVE  /\ NewReads(d, items, where, sq'[d])
             /\ \A n \in DOMAIN sq'[d] : sq'[d][n].signaled
  <2>1. PICK r : /\ sq'[d] = sq[d] \o r /\ NewReads(d, items, where, r)
                 /\ \A n \in DOMAIN r : r[n].signaled
    BY <1>1, <1>4, <1>7, SyncReads
  <2>2. r \in Seq(Read) /\ sq'[d] = << >> \o r
    BY <2>1, <1>2 DEF NewReads
  <2>3. sq'[d] = r
    BY <2>2
  <2> QED BY <2>1, <2>3
<1>9. sq' \in [Servers -> Seq(Read)]
  <2>1. \A d \in Servers : sq'[d] \in Seq(Read)
    BY <1>8 DEF NewReads
  <2>2. sq' = [d \in Servers |-> sq'[d]]
    BY <1>1 DEF PostSync, Post
  <2> QED BY <2>1, <2>2
<1>10. b = [items |-> items, where |-> where] /\ b.items = items /\ b.where = where
       /\ scratch'.items = items
  BY <1>1
<1> HIDE DEF b
<1>11. TypeOK'
  BY <1>0, <1>1, <1>5, <1>7, <1>9 DEF TypeOK
<1>12. Control'
  <2>1. ToSet(scratch'.items) = ToSet(Query.eps)
    BY <1>2, <1>4, <1>10
  <2> QED BY <2>1, <1>1, <1>2 DEF Control, Query
<1>13. Wires'
  <2>1. ASSUME NEW d \in Servers, sq'[d] # << >> PROVE sq'[d][Len(sq'[d])].signaled
    <3>1. Len(sq'[d]) \in DOMAIN sq'[d]
      BY <2>1, <1>9
    <3> QED BY <3>1, <1>8
  <2> QED BY <2>1, <1>8 DEF Wires
<1>14. Accounted'
  <2>1. ASSUME NEW d \in Servers
        PROVE  cq'[d] + Cardinality(SignalsFrom(sq'[d], 1))
                 = Cardinality(WaitsFrom(polls', d, 1)) + Len(ReadAt(d, items))
    <3>1. sq'[d] \in Seq(Read) /\ Len(sq'[d]) = Len(ReadAt(d, items)) /\ Len(sq'[d]) \in Nat
      BY <1>8 DEF NewReads
    <3>2. Cardinality(SignalsFrom(sq'[d], 1)) = Len(sq'[d])
      BY <3>1, <1>8, AllSignaled
    <3>3. Cardinality(WaitsFrom(polls', d, 1)) = 0
      <4>1. WaitsFrom(polls', d, 1) = {}
        BY <1>1, <1>2 DEF WaitsFrom
      <4> QED BY <4>1, FS_EmptySet
    <3>4. cq'[d] = 0
      BY <1>1, <1>2
    <3> QED BY <3>1, <3>2, <3>3, <3>4
  <2>2. \A d : EntryReads(d)' = Len(ReadAt(d, items))
    BY <1>10 DEF EntryReads, ReadAt, Fetched
  <2> QED BY <2>1, <2>2, <1>1, <1>2 DEF Accounted
<1>15. BatchesFormed'
  <2>1. Formed(scratch')
    BY <1>1, <1>7
  <2> QED BY <2>1, <1>1, <1>2 DEF BatchesFormed, Formed, Fetched
<1>16. \A d \in Servers, s \in Slots, v \in Items : PostedTo(sq'[d], s, v) => PlacedIn(b, s, v)
  BY <1>4, <1>7, <1>8, <1>10, PostedNew
<1>17. SlotsOwned'
  <2>1. ASSUME NEW s \in Slots, NEW v \in Items, Claimed(s, v)'
        PROVE  Claimed(s, v) \/ PlacedIn(b, s, v)
    <3>1. \/ \E d \in Servers : PostedTo(sq'[d], s, v)
          \/ PlacedIn(b, s, v)
          \/ cache[v] = s
      BY <2>1, <1>1, <1>2 DEF Claimed, PostedTo, PlacedIn
    <3> QED BY <3>1, <1>16 DEF Claimed
  <2> QED BY <2>1, <1>0, <1>3, <1>7, SlotsKept
<1>18. Arriving'
  <2>1. ASSUME NEW s \in Slots, NEW v \in Items, PlacedIn(b, s, v)
        PROVE  PostedTo(sq'[Home[v]], s, v)
    <3>1. Home[v] \in Servers
      BY SearchAssumption
    <3> QED BY <2>1, <3>1, <1>4, <1>7, <1>8, <1>10, PostedNew
  <2> QED BY <2>1, <1>1, <1>2 DEF Arriving, PostedTo, PlacedIn
<1>19. Held' /\ Used' /\ CopiesArrived'
  BY <1>0, <1>1, <1>7 DEF Held, Used, CopiesArrived, Local, Fetched, Slots
<1>20. pc' # "miss"
  BY <1>1
<1> QED BY <1>11, <1>12, <1>13, <1>14, <1>15, <1>17, <1>18, <1>19, <1>20 DEF SearchInv

-----------------------------------------------------------------------------
(* Insertions *)

(* Inserting a batch that has arrived: what thd_cache then points to is there. *)
LEMMA InsertKeeps ==
  ASSUME SearchInv, todo < Len(Queries), NEW b \in Batch, Formed(b), NEW who,
         InsertAll(b.items, b.where, who), buffer' = buffer,
         \A s \in Slots, v \in Items : PlacedIn(b, s, v) /\ v \in who \ Local =>
           buffer[s] = v /\ Claimed(s, v)
  PROVE  /\ pool' \in SUBSET Items /\ cache' \in [Items -> Slots \cup {Stable, NotCached}]
         /\ Held' /\ CopiesArrived'
         /\ \A s \in Slots, v \in Items : cache'[v] = s => Claimed(s, v)
<1>0. /\ TypeOK /\ Held /\ CopiesArrived
  BY DEF SearchInv
<1>1. todo \in Nat /\ pool \in SUBSET Items /\ cache \in [Items -> Slots \cup {Stable, NotCached}]
      /\ buffer \in [Slots -> Items \cup {Junk}]
  BY <1>0, SearchAssumption DEF TypeOK
<1> DEFINE l == b.items
           w == b.where
<1>2. l \in Seq(Items) /\ w \in Seq(Slots \cup {Stable}) /\ Len(w) = Len(l)
      /\ InsertAll(l, w, who)
      /\ \A s, v : PlacedIn(b, s, v) <=> \E i \in DOMAIN l : w[i] = s /\ l[i] = v
  BY DEF Batch, Formed, PlacedIn
<1> HIDE DEF l, w
<1>3. \A i \in DOMAIN l : w[i] \in Slots \cup {Stable}
  <2> DEFINE W == Slots \cup {Stable}
  <2>1. w \in Seq(W) /\ l \in Seq(Items) /\ Len(w) = Len(l)
    BY <1>2
  <2> HIDE DEF W
  <2>2. \A i \in DOMAIN l : w[i] \in W
    BY <2>1
  <2> QED BY <2>2 DEF W
<1>4. \A s \in Slots : s \in Nat /\ s # NotCached
  BY FiniteItems DEF NotCached
<1>5. cache \in [Items -> Int]
  BY <1>1, <1>4 DEF Stable, NotCached
<1>6. /\ pool' \subseteq pool \cup (ToSet(l) \cap who)
      /\ pool' = Nearest(Query.dist, Capacity, pool \cup (ToSet(l) \cap who))
      /\ DOMAIN cache' = Items
      /\ \A v \in Items :
           \/ cache'[v] = cache[v]
           \/ v \in who \ Local /\ PutAt(l, w, cache'[v], v)
      /\ \A v \in pool' \ pool : v \in Local \/ PutAt(l, w, cache'[v], v)
  <2>1. InsertAll(l, w, who) /\ l \in Seq(Items)
    BY <1>2
  <2>2. pool \in SUBSET Items /\ cache \in [Items -> Int] /\ todo \in Nat
    BY <1>1, <1>5
  <2> QED BY ONLY <2>1, <2>2, Inserted, todo < Len(Queries), Zenon
<1>7. ToSet(l) \in SUBSET Items /\ pool' \in SUBSET Items
  BY <1>1, <1>2, <1>6 DEF ToSet
<1>8. \A v \in Items : cache'[v] \in Slots \cup {Stable, NotCached}
  BY <1>1, <1>3, <1>6 DEF PutAt
<1>9. cache' \in [Items -> Slots \cup {Stable, NotCached}]
  <2>1. cache' = [v \in Items |-> cache'[v]]
    BY DEF InsertAll
  <2> QED BY <2>1, <1>8
<1>10. Held'
  <2>1. ASSUME NEW v \in pool' PROVE v \in Local \/ cache'[v] # NotCached
    <3>0. \A i \in DOMAIN l : w[i] # NotCached
      BY <1>3, <1>4 DEF Stable, NotCached
    <3>1. v \in Items
      BY <1>7
    <3>2. CASE v \in pool
      <4>1. v \in Local \/ cache[v] # NotCached
        BY <3>2, <1>0 DEF Held
      <4> QED BY <4>1, <3>0, <3>1, <1>6 DEF PutAt
    <3>3. CASE v \notin pool
      <4>1. v \in Local \/ PutAt(l, w, cache'[v], v)
        BY <3>3, <1>6
      <4> QED BY <3>0, <4>1 DEF PutAt
    <3> QED BY <3>2, <3>3
  <2> QED BY <2>1 DEF Held, Local
<1>11. ASSUME NEW s \in Slots, NEW v \in Items, cache'[v] = s
       PROVE  Claimed(s, v) /\ buffer[s] = v
  <2>1. CASE cache'[v] = cache[v]
    <3>1. cache[v] = s
      BY <2>1, <1>11
    <3> QED BY <3>1, <1>0 DEF CopiesArrived, Claimed
  <2>2. CASE cache'[v] # cache[v]
    <3>1. PICK i \in DOMAIN l : l[i] = v /\ cache'[v] = w[i]
      BY <2>2, <1>6 DEF PutAt
    <3>2. PlacedIn(b, s, v) /\ v \in who \ Local
      BY <3>1, <2>2, <1>2, <1>6, <1>11
    <3> QED BY <3>2
  <2> QED BY <2>1, <2>2
<1>12. CopiesArrived'
  BY <1>11 DEF CopiesArrived, Slots
<1> QED BY <1>7, <1>9, <1>10, <1>11, <1>12 DEF l

(* When the completions of the entry points' reads are there, so are the vertices. *)
LEMMA InsertEntriesKeeps ==
  ASSUME SearchInv, InsertEntries
  PROVE  SearchInv'
<1>0. /\ TypeOK /\ Control /\ Wires /\ Accounted /\ BatchesFormed /\ SlotsOwned
      /\ Arriving /\ Held /\ Used /\ CopiesArrived
  BY DEF SearchInv
<1>1. /\ pc = "sync" /\ pc' = "expand" /\ EntriesComplete
      /\ cq' = [d \in Servers |-> cq[d] - EntryReads(d)]
      /\ InsertAll(scratch.items, scratch.where, Items)
      /\ UNCHANGED <<graph, Relax, todo, expanded, visited, relax, batches, bufUsed,
                     polls, buffer, sq, scratch, results>>
  BY DEF InsertEntries
<1>2. /\ batches = << >> /\ relax = Relax /\ todo < Len(Queries) /\ Relax \in Nat
      /\ ToSet(scratch.items) = ToSet(Query.eps)
      /\ scratch \in Batch /\ scratch.items \in Seq(Items) /\ Formed(scratch)
      /\ batches' = << >>
  BY <1>0, <1>1, SearchAssumption DEF Control, TypeOK, Batch, BatchesFormed
<1>3. ASSUME NEW d \in Servers
      PROVE  sq[d] = << >> /\ cq'[d] = 0 /\ WaitsFrom(polls, d, 1) = {}
  <2>1. WaitsFrom(polls, d, 1) = {}
    <3>1. polls = << >>
      BY <1>0, <1>2 DEF Accounted, TypeOK
    <3> QED BY <3>1 DEF WaitsFrom
  <2>2. EntryReads(d) \in Nat
    BY <1>2, ReadAtIs DEF EntryReads
  <2>3. cq[d] + Cardinality(SignalsFrom(sq[d], 1)) = EntryReads(d)
    <3>1. cq[d] + Cardinality(SignalsFrom(sq[d], 1)) = 0 + EntryReads(d)
      BY <2>1, <1>0, <1>1, FS_EmptySet DEF Accounted
    <3> QED BY <3>1, <2>2
  <2>4. cq[d] >= EntryReads(d)
    BY <1>1 DEF EntriesComplete
  <2>5. cq[d] \in Nat /\ Cardinality(SignalsFrom(sq[d], 1)) \in Nat /\ sq[d] \in Seq(Read)
    BY <1>0, CountsType
  <2>6. Cardinality(SignalsFrom(sq[d], 1)) = 0 /\ cq[d] = EntryReads(d)
    BY <2>2, <2>3, <2>4, <2>5
  <2>7. sq[d] = << >>
    BY <2>5, <2>6, <1>0, NoneSignaled DEF Wires
  <2>8. cq'[d] = cq[d] - EntryReads(d)
    BY <1>1
  <2> QED BY <2>1, <2>5, <2>6, <2>7, <2>8
<1>4. ASSUME NEW s \in Slots, NEW v \in Items, PlacedIn(scratch, s, v)
      PROVE  buffer[s] = v /\ Claimed(s, v)
  <2>1. buffer[s] = v \/ PostedTo(sq[Home[v]], s, v)
    BY <1>4, <1>0, <1>1 DEF Arriving
  <2>2. Home[v] \in Servers
    BY SearchAssumption
  <2>3. sq[Home[v]] = << >>
    BY <2>2, <1>3
  <2>4. ~ PostedTo(sq[Home[v]], s, v)
    BY <2>3 DEF PostedTo
  <2> QED BY <2>1, <2>4, <1>1, <1>4 DEF Claimed
<1>5. /\ pool' \in SUBSET Items /\ cache' \in [Items -> Slots \cup {Stable, NotCached}]
      /\ Held' /\ CopiesArrived'
      /\ \A s \in Slots, v \in Items : cache'[v] = s => Claimed(s, v)
  BY <1>1, <1>2, <1>4, InsertKeeps
<1>6. TypeOK'
  <2>1. cq' \in [Servers -> Nat]
    BY <1>1, <1>3
  <2> QED BY <2>1, <1>0, <1>1, <1>5 DEF TypeOK
<1>7. Control'
  <2>1. relax' + Len(batches') = Relax'
    <3>1. Len(batches') = 0
      BY <1>2
    <3> QED BY <3>1, <1>1, <1>2
  <2> QED BY <2>1, <1>1, <1>2 DEF Control
<1>8. Wires' /\ BatchesFormed'
  BY <1>0, <1>1, <1>2, <1>3 DEF Wires, BatchesFormed
<1>9. Accounted'
  <2>1. ASSUME NEW d \in Servers
        PROVE  cq'[d] + Cardinality(SignalsFrom(sq'[d], 1)) = Cardinality(WaitsFrom(polls', d, 1)) + 0
    <3>1. SignalsFrom(sq'[d], 1) = {} /\ WaitsFrom(polls', d, 1) = {} /\ cq'[d] = 0
      BY <1>1, <1>3 DEF SignalsFrom
    <3> QED BY <3>1, FS_EmptySet
  <2> QED BY <2>1, <1>0, <1>1 DEF Accounted
<1>10. SlotsOwned'
  <2>1. ASSUME NEW s \in Slots, NEW v \in Items, Claimed(s, v)'
        PROVE  Claimed(s, v)
    <3>1. \/ \E d \in Servers : PostedTo(sq'[d], s, v)
          \/ cache'[v] = s
      BY <2>1, <1>1, <1>2 DEF Claimed, PostedTo
    <3>2. \A d \in Servers : ~ PostedTo(sq'[d], s, v)
      BY <1>1, <1>3 DEF PostedTo
    <3> QED BY <3>1, <3>2, <1>5
  <2> QED BY <2>1, <1>0, <1>1 DEF SlotsOwned
<1>11. Arriving' /\ Used'
  BY <1>0, <1>1, <1>2 DEF Arriving, Used, Fetched
<1>12. pc' # "miss"
  BY <1>1
<1> QED BY <1>5, <1>6, <1>7, <1>8, <1>9, <1>10, <1>11, <1>12 DEF SearchInv

-----------------------------------------------------------------------------
(* Settling a batch *)

(* The completions of the oldest batch cannot be those of a later one: when each
   server has one to poll, all vertices of the batch have been written. *)
LEMMA SettleKeeps ==
  ASSUME SearchInv, Settle, batches # << >>, pc \in {"settle", "drain"},
         pc' \in {"expand", "drain"}, Control'
  PROVE  SearchInv'
<1> DEFINE b == Head(batches)
<1>0. /\ TypeOK /\ Control /\ Wires /\ Accounted /\ BatchesFormed /\ SlotsOwned
      /\ Arriving /\ Held /\ Used /\ CopiesArrived
  BY DEF SearchInv
<1>1. /\ FrontComplete
      /\ cq' = [d \in Servers |-> IF Pending(d) THEN cq[d] - 1 ELSE cq[d]]
      /\ polls' = Tail(polls) /\ batches' = Tail(batches)
      /\ InsertAll(b.items, b.where, Items \ Local)
      /\ expanded' = expanded \cap pool'
      /\ UNCHANGED <<graph, Relax, todo, visited, relax, bufUsed, buffer, sq, scratch,
                     results>>
  BY DEF Settle
<1>2. /\ batches \in Seq(Batch) /\ polls \in Seq([Servers -> Nat]) /\ Len(polls) = Len(batches)
      /\ polls # << >> /\ todo < Len(Queries)
  BY <1>0 DEF TypeOK, Accounted, Control
<1>3. /\ Len(batches) \in Nat \ {0} /\ DOMAIN batches = 1 .. Len(batches) /\ 1 \in DOMAIN batches
      /\ b = batches[1] /\ b \in Batch
      /\ Tail(batches) \in Seq(Batch) /\ Len(Tail(batches)) = Len(batches) - 1
      /\ DOMAIN Tail(batches) = 1 .. Len(batches) - 1
      /\ \A m \in 1 .. Len(batches) - 1 :
           Tail(batches)[m] = batches[m + 1] /\ m + 1 \in DOMAIN batches
  BY <1>2, HeadAndTail
<1>4. /\ Head(polls) = polls[1] /\ Head(polls) \in [Servers -> Nat]
      /\ Tail(polls) \in Seq([Servers -> Nat]) /\ Len(Tail(polls)) = Len(polls) - 1
      /\ DOMAIN Tail(polls) = 1 .. Len(polls) - 1
      /\ \A m \in 1 .. Len(polls) - 1 : Tail(polls)[m] = polls[m + 1]
  BY <1>2, HeadAndTail
<1> HIDE DEF b
<1>5. Formed(b) /\ \A i \in DOMAIN b.items : Fetched(b.items[i]) => polls[1][Home[b.items[i]]] > 0
  BY <1>0, <1>3 DEF BatchesFormed
<1>6. ASSUME NEW d \in Servers
      PROVE  /\ polls[1][d] \in Nat /\ cq[d] \in Nat
             /\ polls[1][d] > 0 => cq[d] > 0 /\ cq'[d] = cq[d] - 1
             /\ polls[1][d] = 0 => cq'[d] = cq[d]
  <2>1. polls[1][d] \in Nat /\ cq[d] \in Nat
    BY <1>0, <1>4 DEF TypeOK
  <2>2. Pending(d) <=> polls[1][d] > 0
    BY <1>4 DEF Pending
  <2>3. Pending(d) => cq[d] > 0
    BY <1>1 DEF FrontComplete
  <2>4. cq'[d] = IF Pending(d) THEN cq[d] - 1 ELSE cq[d]
    BY <1>1
  <2> QED BY <2>1, <2>2, <2>3, <2>4
<1>7. ASSUME NEW s \in Slots, NEW v \in Items, PlacedIn(b, s, v)
      PROVE  buffer[s] = v /\ Claimed(s, v)
  <2> DEFINE d == Home[v]
             q == sq[d]
             waits == Cardinality(WaitsFrom(polls, d, 1))
  <2>0. d \in Servers
    BY SearchAssumption
  <2>1. buffer[s] = v \/ Expected(q, s, v, waits)
    BY <1>7, <1>0, <1>3 DEF Arriving
  <2>2. polls[1][d] > 0
    <3>1. PICK i \in DOMAIN b.items : b.where[i] = s /\ b.items[i] = v
      BY <1>7 DEF PlacedIn
    <3>2. Fetched(b.items[i])
      BY <3>1, <1>5, FiniteItems DEF Formed, Stable
    <3> QED BY <3>1, <3>2, <1>5
  <2>3. cq[d] > 0 /\ cq[d] \in Nat
    BY <2>0, <2>2, <1>6
  <2>4. cq[d] + Cardinality(SignalsFrom(q, 1)) = waits
    <3>1. cq[d] + Cardinality(SignalsFrom(q, 1)) = waits + 0
      BY <2>0, <1>0 DEF Accounted
    <3>2. waits \in Nat
      BY <2>0, <1>0, CountsType
    <3> QED BY <3>1, <3>2
  <2>5. q \in Seq(Read)
    BY <2>0, <1>0, CountsType
  <2> HIDE DEF waits, q
  <2>6. ASSUME NEW m \in DOMAIN q
        PROVE  ~ (waits <= Cardinality(SignalsFrom(q, m)))
    <3> DEFINE S == SignalsFrom(q, m)
               T == SignalsFrom(q, 1)
    <3>1. S \in SUBSET T
      BY <2>5 DEF SignalsFrom
    <3>2. IsFiniteSet(T) /\ Cardinality(T) \in Nat /\ Cardinality(S) \in Nat
      BY <2>5, FiniteSignals
    <3>3. cq[d] + Cardinality(T) = waits
      BY <2>4
    <3> HIDE DEF S, T, d
    <3>4. Cardinality(S) <= Cardinality(T)
      BY <3>1, <3>2, FS_Subset
    <3>5. ~ (waits <= Cardinality(S))
      BY <3>2, <3>3, <3>4, <2>3
    <3> QED BY <3>5 DEF S
  <2>7. buffer[s] = v
    BY <2>1, <2>6 DEF Expected
  <2>8. Claimed(s, v)
    BY <1>3, <1>7 DEF Claimed
  <2> QED BY <2>7, <2>8
<1>8. /\ pool' \in SUBSET Items /\ cache' \in [Items -> Slots \cup {Stable, NotCached}]
      /\ Held' /\ CopiesArrived'
      /\ \A s \in Slots, v \in Items : cache'[v] = s => Claimed(s, v)
  BY <1>1, <1>2, <1>3, <1>5, <1>7, InsertKeeps
<1>9. TypeOK'
  <2>1. cq' \in [Servers -> Nat]
    <3>1. \A d \in Servers : cq'[d] \in Nat
      BY <1>6
    <3> QED BY <3>1, <1>1
  <2>2. expanded' \in SUBSET Items
    BY <1>1, <1>8
  <2>3. polls' \in Seq([Servers -> Nat]) /\ batches' \in Seq(Batch)
    BY <1>1, <1>3, <1>4
  <2> QED BY <2>1, <2>2, <2>3, <1>0, <1>1, <1>8 DEF TypeOK
<1>10. Wires'
  BY <1>0, <1>1 DEF Wires
<1>11. \A d \in Servers, k \in Nat \ {0} :
         Cardinality(WaitsFrom(polls', d, k)) = Cardinality(WaitsFrom(polls, d, k + 1))
  BY <1>1, <1>2, WaitsOfTail
<1>12. Accounted'
  <2>1. ASSUME NEW d \in Servers
        PROVE  cq'[d] + Cardinality(SignalsFrom(sq[d], 1)) = Cardinality(WaitsFrom(polls', d, 1)) + 0
    <3>1. cq[d] + Cardinality(SignalsFrom(sq[d], 1)) = Cardinality(WaitsFrom(polls, d, 1)) + 0
      BY <1>0 DEF Accounted
    <3>2. /\ polls[1][d] > 0 =>
               Cardinality(WaitsFrom(polls, d, 1)) = Cardinality(WaitsFrom(Tail(polls), d, 1)) + 1
          /\ polls[1][d] = 0 =>
               Cardinality(WaitsFrom(polls, d, 1)) = Cardinality(WaitsFrom(Tail(polls), d, 1))
      BY <1>2, WaitsOfTail
    <3>3. Cardinality(WaitsFrom(Tail(polls), d, 1)) \in Nat
          /\ Cardinality(SignalsFrom(sq[d], 1)) \in Nat
      BY <1>0, <1>4, FiniteWaits, CountsType
    <3>4. polls' = Tail(polls)
      BY <1>1
    <3> QED BY <3>1, <3>2, <3>3, <3>4, <1>6
  <2>2. Len(polls') = Len(batches')
    BY <1>1, <1>2, <1>3, <1>4
  <2> QED BY <2>1, <2>2, <1>1 DEF Accounted
<1>13. \A k \in DOMAIN batches' :
         /\ k \in Nat \ {0} /\ k + 1 \in DOMAIN batches /\ k + 1 # 1
         /\ batches'[k] = batches[k + 1] /\ polls'[k] = polls[k + 1]
  BY <1>1, <1>2, <1>3, <1>4
<1>14. BatchesFormed'
  <2>1. ASSUME NEW k \in DOMAIN batches'
        PROVE  /\ Formed(batches'[k])
               /\ \A i \in DOMAIN batches'[k].items : Fetched(batches'[k].items[i]) =>
                    polls'[k][Home[batches'[k].items[i]]] > 0
    BY <1>0, <1>13 DEF BatchesFormed
  <2> QED BY <2>1, <1>1 DEF BatchesFormed, Formed, Fetched
<1>15. SlotsOwned'
  <2>1. ASSUME NEW s \in Slots, NEW v \in Items, Claimed(s, v)' PROVE Claimed(s, v)
    <3>1. \/ \E d \in Servers : PostedTo(sq[d], s, v)
          \/ \E k \in DOMAIN batches' : PlacedIn(batches'[k], s, v)
          \/ cache'[v] = s
      BY <2>1, <1>1 DEF Claimed, PostedTo, PlacedIn
    <3>2. \A k \in DOMAIN batches' : PlacedIn(batches'[k], s, v) => Claimed(s, v)
      BY <1>13 DEF Claimed
    <3>3. \A d \in Servers : PostedTo(sq[d], s, v) => Claimed(s, v)
      BY DEF Claimed
    <3> QED BY <3>1, <3>2, <3>3, <1>8
  <2> QED BY <2>1, <1>0, <1>1 DEF SlotsOwned
<1>16. Arriving'
  <2>1. ASSUME NEW k \in DOMAIN batches', NEW s \in Slots, NEW v \in Items,
               PlacedIn(batches'[k], s, v)
        PROVE  \/ buffer[s] = v
               \/ Expected(sq[Home[v]], s, v, Cardinality(WaitsFrom(polls', Home[v], k)))
    <3>1. \/ buffer[s] = v
          \/ Expected(sq[Home[v]], s, v, Cardinality(WaitsFrom(polls, Home[v], k + 1)))
      BY <2>1, <1>0, <1>13 DEF Arriving
    <3>2. Home[v] \in Servers
      BY SearchAssumption
    <3>3. Cardinality(WaitsFrom(polls', Home[v], k)) = Cardinality(WaitsFrom(polls, Home[v], k + 1))
      BY <3>2, <1>11, <1>13
    <3> QED BY <3>1, <3>3
  <2> QED BY <2>1, <1>1 DEF Arriving, PlacedIn
<1>17. Used'
  BY <1>0, <1>1 DEF Used, Fetched
<1>18. pc' # "miss"
  BY <1>0
<1> QED BY <1>8, <1>9, <1>10, <1>12, <1>14, <1>15, <1>16, <1>17, <1>18 DEF SearchInv

(* A batch settled in the loop leaves room for one expansion. *)
LEMMA SettleInLoopKeeps ==
  ASSUME SearchInv, SettleInLoop
  PROVE  SearchInv'
<1>1. pc = "settle" /\ pc' = "expand" /\ Settle
  BY DEF SettleInLoop
<1>2. /\ relax = 0 /\ Len(batches) = Relax + 1 /\ todo < Len(Queries) /\ Relax \in Nat
      /\ batches \in Seq(Batch)
  BY <1>1, SearchAssumption DEF SearchInv, Control, TypeOK
<1>3. batches # << >> /\ Len(Tail(batches)) = Relax
  BY <1>2
<1>4. Control'
  BY <1>1, <1>2, <1>3 DEF Control, Settle
<1> QED BY <1>1, <1>3, <1>4, SettleKeeps

(* After the loop the open batches are settled, one after the other. *)
LEMMA DrainKeeps ==
  ASSUME SearchInv, Drain
  PROVE  SearchInv'
<1>1. pc = "drain" /\ pc' = "drain" /\ Settle /\ batches # << >>
  BY DEF Drain
<1>2. Control'
  BY <1>1 DEF SearchInv, Control, Settle
<1> QED BY <1>1, <1>2, SettleKeeps

-----------------------------------------------------------------------------
(* An expansion *)

(* The vertices an expansion reads were not seen before. *)
LEMMA NeighborsAreNew ==
  ASSUME NEW n \in Items, graph \in [Items -> Seq(Items)], NEW items \in NewNeighbors(n)
  PROVE  /\ items \in Seq(Items)
         /\ ToSet(items) \cap visited = {} /\ ToSet(items) \subseteq ToSet(graph[n])
         /\ ToSet(graph[n]) \in SUBSET Items
         /\ \A i, j \in DOMAIN items : items[i] = items[j] => i = j
<1>1. PICK dropped : items = Unseen(graph[n], visited \cup dropped)
  BY DEF NewNeighbors
<1>2. graph[n] \in Seq(Items)
  OBVIOUS
<1>3. /\ items \in Seq(Items) /\ ToSet(items) = ToSet(graph[n]) \ (visited \cup dropped)
      /\ \A i, j \in DOMAIN items : items[i] = items[j] => i = j
  BY <1>1, <1>2, UnseenIs
<1>4. ToSet(graph[n]) \in SUBSET Items
  BY <1>2 DEF ToSet
<1> QED BY <1>3, <1>4

(* An expansion opens one batch: its reads are posted behind the others, in slots
   that nothing claims, with a wait per server that has one signaled read. *)
LEMMA ExpandVertexKeeps ==
  ASSUME SearchInv, pc = "expand", NEW n \in Items, ExpandVertex(n),
         UNCHANGED <<graph, Relax, todo, buffer, cq, scratch, results>>
  PROVE  SearchInv'
<1>0. /\ TypeOK /\ Control /\ Wires /\ Accounted /\ BatchesFormed /\ SlotsOwned
      /\ Arriving /\ Held /\ Used /\ CopiesArrived
  BY DEF SearchInv
<1>1. PICK items \in NewNeighbors(n) :
        /\ PostAsync(items, Places(items))
        /\ polls' = Append(polls, [d \in Servers |-> Len(ReadAt(d, items))])
        /\ batches' = PushBatch([items |-> items, where |-> Places(items)])
        /\ InsertAll(items, Places(items), Local)
  BY DEF ExpandVertex
<1> DEFINE where == Places(items)
           b == [items |-> items, where |-> where]
           p == [d \in Servers |-> Len(ReadAt(d, items))]
           new == Len(batches) + 1
<1>2. /\ visited' = visited \cup ToSet(graph[n]) /\ expanded' = (expanded \cup {n}) \cap pool'
      /\ \/ relax > 0 /\ relax' = relax - 1 /\ pc' = "expand"
         \/ ~ (relax > 0) /\ relax' = relax /\ pc' = "settle"
      /\ UNCHANGED <<graph, Relax, todo, buffer, cq, scratch, results>>
  BY DEF ExpandVertex, MayRelax
<1>3. /\ relax + Len(batches) = Relax /\ todo < Len(Queries) /\ Relax \in Nat /\ relax \in 0 .. Relax
      /\ batches \in Seq(Batch) /\ Len(batches) \in Nat /\ DOMAIN batches = 1 .. Len(batches)
      /\ polls \in Seq([Servers -> Nat]) /\ Len(polls) = Len(batches)
      /\ bufUsed \in Nat /\ visited \in SUBSET Items
  BY <1>0, SearchAssumption DEF Control, TypeOK, Accounted
<1>4. /\ items \in Seq(Items)
      /\ ToSet(items) \cap visited = {} /\ ToSet(items) \subseteq ToSet(graph[n])
      /\ ToSet(graph[n]) \in SUBSET Items
      /\ \A i, j \in DOMAIN items : items[i] = items[j] => i = j
  BY <1>0, NeighborsAreNew DEF TypeOK
<1>5. visited' \in SUBSET Items /\ visited \cup ToSet(items) \subseteq visited'
  BY <1>2, <1>3, <1>4
<1>6. bufUsed' = bufUsed + Cardinality(FetchedAt(items))
  BY <1>1 DEF PostAsync, Post, FetchedAt
<1>7. /\ bufUsed' \in Nat /\ bufUsed <= bufUsed'
      /\ bufUsed' <= Cardinality({v \in visited' : Fetched(v)})
      /\ b \in Batch /\ Formed(b)
      /\ \A i \in DOMAIN items : Fetched(items[i]) => where[i] \in Slots
      /\ \A s \in Slots, v \in Items : PlacedIn(b, s, v) => bufUsed <= s /\ s < bufUsed'
      /\ \A s \in Slots, v, w \in Items : PlacedIn(b, s, v) /\ PlacedIn(b, s, w) => v = w
  BY <1>0, <1>4, <1>5, <1>6, Placed
<1>8. /\ batches' = Append(batches, b) /\ batches' \in Seq(Batch) /\ Len(batches') = new
      /\ DOMAIN batches' = 1 .. new /\ batches'[new] = b
      /\ \A k \in 1 .. Len(batches) : batches'[k] = batches[k] /\ k \in DOMAIN batches'
  <2>1. batches' = Append(batches, b)
    <3>1. Len(batches) < Relax + 1
      BY <1>3
    <3> QED BY <3>1, <1>1 DEF PushBatch
  <2> HIDE DEF b
  <2> QED BY <2>1, <1>3, <1>7
<1>9. /\ polls' = Append(polls, p) /\ p \in [Servers -> Nat] /\ polls' \in Seq([Servers -> Nat])
      /\ Len(polls') = new /\ polls'[new] = p
      /\ \A k \in 1 .. Len(batches) : polls'[k] = polls[k]
  <2>1. p \in [Servers -> Nat]
    BY <1>4, ReadAtIs
  <2>2. polls' = Append(polls, p)
    BY <1>1
  <2> HIDE DEF p
  <2> QED BY <2>1, <2>2, <1>3
<1>10. ASSUME NEW d \in Servers
       PROVE  \E r : LastSignaled(d, items, Places(items), r)
  BY <1>1, <1>4, <1>7, AsyncReads
<1>11. \A d \in Servers : p[d] = Len(ReadAt(d, items))
  OBVIOUS
<1>12. b.items = items /\ b = [items |-> items, where |-> Places(items)]
  OBVIOUS
<1> HIDE DEF b, p, where
<1>13. \A d \in Servers : \A r : LastSignaled(d, items, Places(items), r) =>
         /\ r \in Seq(Read) /\ Len(r) \in Nat /\ DOMAIN r = 1 .. Len(r) /\ Len(r) = p[d]
         /\ sq'[d] = sq[d] \o r /\ NewReads(d, items, Places(items), r)
         /\ \A m \in DOMAIN r : r[m].signaled <=> m = Len(r)
  BY <1>11 DEF LastSignaled, NewReads
<1>14. \A d \in Servers : sq[d] \in Seq(Read) /\ Len(sq[d]) \in Nat /\ DOMAIN sq[d] = 1 .. Len(sq[d])
  BY <1>0, CountsType
<1>15. sq' \in [Servers -> Seq(Read)]
  <2>1. \A d \in Servers : sq'[d] \in Seq(Read)
    <3>1. ASSUME NEW d \in Servers PROVE sq'[d] \in Seq(Read)
      <4>1. PICK r : LastSignaled(d, items, Places(items), r)
        BY <1>10
      <4>2. r \in Seq(Read) /\ sq'[d] = sq[d] \o r /\ sq[d] \in Seq(Read)
        BY <4>1, <1>13, <1>14
      <4> QED BY <4>2
    <3> QED BY <3>1
  <2>2. sq' = [d \in Servers |-> sq'[d]]
    BY <1>1 DEF PostAsync, Post
  <2> QED BY <2>1, <2>2
<1>16. /\ pool' \in SUBSET Items /\ cache' \in [Items -> Slots \cup {Stable, NotCached}]
       /\ Held' /\ CopiesArrived'
       /\ \A s \in Slots, v \in Items : cache'[v] = s => Claimed(s, v)
  <2>1. InsertAll(b.items, b.where, Local)
    BY <1>1 DEF b, where
  <2>2. \A v : ~ (v \in Local \ Local)
    OBVIOUS
  <2> QED BY <2>1, <2>2, <1>2, <1>3, <1>7, InsertKeeps
<1>17. TypeOK'
  <2>1. relax' \in 0 .. Relax'
    BY <1>2, <1>3
  <2>2. expanded' \in SUBSET Items
    BY <1>2, <1>16
  <2>3. pc' \in {"expand", "settle"}
    BY <1>2
  <2> QED BY <2>1, <2>2, <2>3, <1>0, <1>2, <1>5, <1>7, <1>8, <1>9, <1>15, <1>16 DEF TypeOK
<1>18. Control'
  <2>1. pc' = "expand" => relax' + Len(batches') = Relax'
    <3>1. ASSUME pc' = "expand" PROVE relax' + Len(batches') = Relax'
      <4>1. relax > 0 /\ relax' = relax - 1 /\ Relax' = Relax
        BY <3>1, <1>2
      <4>2. Len(batches') = Len(batches) + 1
        BY <1>8
      <4>3. relax \in Nat /\ relax + Len(batches) = Relax /\ Len(batches) \in Nat
        BY <1>3
      <4> HIDE DEF new
      <4> QED BY <4>1, <4>2, <4>3
    <3> QED BY <3>1
  <2>2. pc' = "settle" => relax' = 0 /\ Len(batches') = Relax' + 1
    BY <1>2, <1>3, <1>8
  <2> QED BY <2>1, <2>2, <1>2, <1>3 DEF Control
<1>19. Wires'
  <2>1. ASSUME NEW d \in Servers, sq'[d] # << >> PROVE sq'[d][Len(sq'[d])].signaled
    <3>1. PICK r : LastSignaled(d, items, Places(items), r)
      BY <1>10
    <3>2. /\ r \in Seq(Read) /\ Len(r) \in Nat /\ DOMAIN r = 1 .. Len(r) /\ sq'[d] = sq[d] \o r
          /\ sq[d] \in Seq(Read) /\ Len(sq[d]) \in Nat
      BY <3>1, <1>13, <1>14
    <3>3. CASE Len(r) = 0
      <4>1. sq'[d] = sq[d]
        BY <3>2, <3>3
      <4> QED BY <4>1, <2>1, <1>0 DEF Wires
    <3>4. CASE Len(r) > 0
      <4>1. sq'[d][Len(sq'[d])] = r[Len(r)] /\ Len(r) \in DOMAIN r
        <5>1. ASSUME NEW q \in Seq(Read), NEW t \in Seq(Read), Len(t) > 0
              PROVE  (q \o t)[Len(q \o t)] = t[Len(t)] /\ Len(t) \in DOMAIN t
          BY <5>1
        <5>2. sq'[d] = sq[d] \o r /\ sq[d] \in Seq(Read) /\ r \in Seq(Read) /\ Len(r) > 0
          BY <3>2, <3>4
        <5>3. (sq[d] \o r)[Len(sq[d] \o r)] = r[Len(r)] /\ Len(r) \in DOMAIN r
          BY <5>1, <5>2
        <5> QED BY <5>2, <5>3
      <4>2. r[Len(r)].signaled
        BY <4>1, <3>1, <1>13
      <4> QED BY <4>1, <4>2
    <3>5. Len(r) = 0 \/ Len(r) > 0
      BY <3>2
    <3> QED BY <3>3, <3>4, <3>5
  <2>2. pc' # "sync"
    BY <1>2
  <2> QED BY <2>1, <2>2 DEF Wires
\* One more wait and one more signaled read, or neither.
<1>20. ASSUME NEW d \in Servers, NEW k \in 1 .. new, NEW m \in 1 .. Len(sq[d]) + 1
       PROVE  \E x \in {0, 1} :
                /\ Cardinality(SignalsFrom(sq'[d], m)) = Cardinality(SignalsFrom(sq[d], m)) + x
                /\ Cardinality(WaitsFrom(polls', d, k)) = Cardinality(WaitsFrom(polls, d, k)) + x
  <2>1. PICK r : LastSignaled(d, items, Places(items), r)
    BY <1>10
  <2>2. /\ r \in Seq(Read) /\ Len(r) \in Nat /\ Len(r) = p[d] /\ sq'[d] = sq[d] \o r
        /\ sq[d] \in Seq(Read)
        /\ \A i \in DOMAIN r : r[i].signaled <=> i = Len(r)
    BY <2>1, <1>13, <1>14
  <2>3. /\ Len(r) > 0 => Cardinality(SignalsFrom(sq[d] \o r, m)) = Cardinality(SignalsFrom(sq[d], m)) + 1
        /\ Len(r) = 0 => Cardinality(SignalsFrom(sq[d] \o r, m)) = Cardinality(SignalsFrom(sq[d], m))
    BY <2>2, SignalsOfMore
  <2>4. k \in 1 .. Len(polls) + 1
    BY <1>3
  <2>5. /\ p[d] > 0 => Cardinality(WaitsFrom(Append(polls, p), d, k))
                         = Cardinality(WaitsFrom(polls, d, k)) + 1
        /\ p[d] = 0 => Cardinality(WaitsFrom(Append(polls, p), d, k))
                         = Cardinality(WaitsFrom(polls, d, k))
    BY <2>4, <1>3, <1>9, WaitsOfMore
  <2>6. Cardinality(SignalsFrom(sq[d], m)) \in Nat /\ Cardinality(WaitsFrom(polls, d, k)) \in Nat
    BY <1>0, CountsType
  <2>7. CASE Len(r) > 0
    BY <2>2, <2>3, <2>5, <2>7, <1>9
  <2>8. CASE Len(r) = 0
    BY <2>2, <2>3, <2>5, <2>6, <2>8, <1>9
  <2> QED BY <2>2, <2>7, <2>8
<1>21. Accounted'
  <2>1. ASSUME NEW d \in Servers
        PROVE  cq'[d] + Cardinality(SignalsFrom(sq'[d], 1)) = Cardinality(WaitsFrom(polls', d, 1)) + 0
    <3>1. 1 \in 1 .. new /\ 1 \in 1 .. Len(sq[d]) + 1
      BY <1>3, <1>14
    <3>2. PICK x \in {0, 1} :
            /\ Cardinality(SignalsFrom(sq'[d], 1)) = Cardinality(SignalsFrom(sq[d], 1)) + x
            /\ Cardinality(WaitsFrom(polls', d, 1)) = Cardinality(WaitsFrom(polls, d, 1)) + x
      BY <3>1, <1>20
    <3>3. cq[d] + Cardinality(SignalsFrom(sq[d], 1)) = Cardinality(WaitsFrom(polls, d, 1)) + 0
      BY <1>0 DEF Accounted
    <3>4. cq[d] \in Nat /\ cq'[d] = cq[d] /\ Cardinality(SignalsFrom(sq[d], 1)) \in Nat
          /\ Cardinality(WaitsFrom(polls, d, 1)) \in Nat
      BY <1>0, <1>2, CountsType
    <3> QED BY <3>2, <3>3, <3>4
  <2>2. Len(polls') = Len(batches') /\ pc' # "sync"
    BY <1>2, <1>8, <1>9
  <2> QED BY <2>1, <2>2 DEF Accounted
<1>22. BatchesFormed'
  <2>1. ASSUME NEW k \in DOMAIN batches'
        PROVE  /\ Formed(batches'[k])
               /\ \A i \in DOMAIN batches'[k].items : Fetched(batches'[k].items[i]) =>
                    polls'[k][Home[batches'[k].items[i]]] > 0
    <3>1. CASE k \in 1 .. Len(batches)
      BY <3>1, <1>0, <1>3, <1>8, <1>9 DEF BatchesFormed
    <3>2. CASE k = new
      <4>1. ASSUME NEW i \in DOMAIN items, Fetched(items[i]) PROVE p[Home[items[i]]] > 0
        <5>0. items \in Seq(Items)
          BY <1>4
        <5>1. items[i] \in Items /\ Home[items[i]] \in Servers
          <6>1. items[i] \in Items
            BY <5>0
          <6>2. Home \in [Items -> Servers]
            BY SearchAssumption
          <6> QED BY <6>1, <6>2
        <5> DEFINE d == Home[items[i]]
        <5>2. /\ Len(ReadAt(d, items)) \in Nat
              /\ DOMAIN ReadAt(d, items) = 1 .. Len(ReadAt(d, items))
              /\ \E j \in DOMAIN ReadAt(d, items) : ReadAt(d, items)[j] = i
          <6>1. LET at == ReadAt(d, items)
                IN  /\ at \in Seq(DOMAIN items) /\ Len(at) \in Nat /\ DOMAIN at = 1 .. Len(at)
                    /\ \A j \in DOMAIN items : Fetched(items[j]) /\ Home[items[j]] = d =>
                         \E m \in DOMAIN at : at[m] = j
            <7> HIDE DEF d
            <7> QED BY <5>0, ReadAtIs
          <6> QED BY <4>1, <6>1
        <5>3. Len(ReadAt(d, items)) > 0
          BY <5>2
        <5> QED BY <5>1, <5>3, <1>11
      <4>2. batches'[k] = b /\ polls'[k] = p
        BY <3>2, <1>8, <1>9
      <4>3. Formed(b) /\ b.items = items
        BY <1>7, <1>12
      <4>4. batches'[k].items = items /\ Formed(batches'[k])
        BY <4>2, <4>3
      <4>5. ASSUME NEW i \in DOMAIN batches'[k].items, Fetched(batches'[k].items[i])
            PROVE  polls'[k][Home[batches'[k].items[i]]] > 0
        <5>1. i \in DOMAIN items /\ Fetched(items[i]) /\ batches'[k].items[i] = items[i]
          BY <4>4, <4>5
        <5> QED BY <4>1, <4>2, <5>1
      <4> QED BY <4>4, <4>5
    <3>3. k \in 1 .. Len(batches) \/ k = new
      BY <1>3, <1>8
    <3> QED BY <3>1, <3>2, <3>3
  <2>2. pc' # "sync"
    BY <1>2
  <2> QED BY <2>1, <2>2 DEF BatchesFormed, Formed, Fetched
<1>23. ASSUME NEW d \in Servers, NEW s \in Slots, NEW v \in Items, PostedTo(sq'[d], s, v)
       PROVE  PostedTo(sq[d], s, v) \/ PlacedIn(b, s, v)
  <2>1. PICK r : LastSignaled(d, items, Places(items), r)
    BY <1>10
  <2>2. r \in Seq(Read) /\ sq'[d] = sq[d] \o r /\ sq[d] \in Seq(Read)
        /\ NewReads(d, items, Places(items), r)
    BY <2>1, <1>13, <1>14
  <2>3. PostedTo(sq[d], s, v) \/ PostedTo(r, s, v)
    BY <2>2, <1>23, PostedMore
  <2>4. PostedTo(r, s, v) => PlacedIn(b, s, v)
    BY <2>2, <1>4, <1>7, <1>12, PostedNew
  <2> QED BY <2>3, <2>4
<1>24. SlotsOwned'
  <2>1. ASSUME NEW s \in Slots, NEW v \in Items, Claimed(s, v)'
        PROVE  Claimed(s, v) \/ PlacedIn(b, s, v)
    <3>1. \/ \E d \in Servers : PostedTo(sq'[d], s, v)
          \/ \E k \in DOMAIN batches' : PlacedIn(batches'[k], s, v)
          \/ cache'[v] = s
      BY <2>1, <1>2 DEF Claimed, PostedTo, PlacedIn
    <3>2. \A k \in DOMAIN batches' : PlacedIn(batches'[k], s, v) =>
            Claimed(s, v) \/ PlacedIn(b, s, v)
      <4>1. \A k \in DOMAIN batches' : k = new \/ (k \in DOMAIN batches /\ batches'[k] = batches[k])
        BY <1>3, <1>8
      <4> QED BY <4>1, <1>8 DEF Claimed
    <3>3. \A d \in Servers : PostedTo(sq'[d], s, v) => Claimed(s, v) \/ PlacedIn(b, s, v)
      BY <1>23 DEF Claimed
    <3> QED BY <3>1, <3>2, <3>3, <1>16
  <2> QED BY <2>1, <1>0, <1>3, <1>7, SlotsKept
<1>25. ASSUME NEW k \in DOMAIN batches', NEW s \in Slots, NEW v \in Items,
              PlacedIn(batches'[k], s, v)
       PROVE  \/ buffer[s] = v
              \/ Expected(sq'[Home[v]], s, v, Cardinality(WaitsFrom(polls', Home[v], k)))
  <2> DEFINE d == Home[v]
  <2>0. d \in Servers
    BY SearchAssumption
  <2> HIDE DEF d
  <2>1. PICK r : LastSignaled(d, items, Places(items), r)
    BY <2>0, <1>10
  <2>2. /\ r \in Seq(Read) /\ Len(r) \in Nat /\ DOMAIN r = 1 .. Len(r) /\ Len(r) = p[d]
        /\ sq'[d] = sq[d] \o r
        /\ NewReads(d, items, Places(items), r)
        /\ sq[d] \in Seq(Read) /\ Len(sq[d]) \in Nat /\ DOMAIN sq[d] = 1 .. Len(sq[d])
        /\ \A i \in DOMAIN r : r[i].signaled <=> i = Len(r)
    BY <2>0, <2>1, <1>13, <1>14
  <2>3. /\ DOMAIN sq'[d] = 1 .. Len(sq[d]) + Len(r)
        /\ \A m \in 1 .. Len(sq[d]) : sq'[d][m] = sq[d][m]
        /\ \A m \in 1 .. Len(r) : sq'[d][Len(sq[d]) + m] = r[m]
    BY <2>2
  <2>4. CASE k \in 1 .. Len(batches)
    <3>1. PlacedIn(batches[k], s, v)
      BY <2>4, <1>8, <1>25
    <3>2. \/ buffer[s] = v
          \/ Expected(sq[d], s, v, Cardinality(WaitsFrom(polls, d, k)))
      BY <2>4, <3>1, <1>0, <1>3 DEF Arriving, d
    <3>3. ASSUME Expected(sq[d], s, v, Cardinality(WaitsFrom(polls, d, k)))
          PROVE  Expected(sq'[d], s, v, Cardinality(WaitsFrom(polls', d, k)))
      <4>1. PICK m \in DOMAIN sq[d] :
              /\ sq[d][m].slot = s /\ sq[d][m].item = v
              /\ Cardinality(WaitsFrom(polls, d, k)) <= Cardinality(SignalsFrom(sq[d], m))
        BY <3>3 DEF Expected
      <4>2. m \in 1 .. Len(sq[d]) + 1 /\ k \in 1 .. new /\ m \in DOMAIN sq'[d]
            /\ sq'[d][m] = sq[d][m]
        BY <2>2, <2>3, <2>4, <1>3
      <4>3. PICK x \in {0, 1} :
              /\ Cardinality(SignalsFrom(sq'[d], m)) = Cardinality(SignalsFrom(sq[d], m)) + x
              /\ Cardinality(WaitsFrom(polls', d, k)) = Cardinality(WaitsFrom(polls, d, k)) + x
        BY <2>0, <4>2, <1>20
      <4>4. Cardinality(SignalsFrom(sq[d], m)) \in Nat /\ Cardinality(WaitsFrom(polls, d, k)) \in Nat
        BY <2>0, <1>0, CountsType
      <4>5. Cardinality(WaitsFrom(polls', d, k)) <= Cardinality(SignalsFrom(sq'[d], m))
        BY <4>1, <4>3, <4>4
      <4> QED BY <4>1, <4>2, <4>5 DEF Expected
    <3> QED BY <3>2, <3>3 DEF d
  <2>5. CASE k = new
    <3>1. PlacedIn(b, s, v)
      BY <2>5, <1>8, <1>25
    <3>2. PostedTo(r, s, v)
      BY <3>1, <2>0, <2>2, <1>4, <1>7, <1>12, PostedNew DEF d
    <3>3. PICK i \in DOMAIN r : r[i].slot = s /\ r[i].item = v
      BY <3>2 DEF PostedTo
    <3>4. Len(sq[d]) + i \in DOMAIN sq'[d] /\ sq'[d][Len(sq[d]) + i] = r[i]
          /\ Len(sq[d]) + i \in Len(sq[d]) + 1 .. Len(sq[d]) + Len(r)
      BY <3>3, <2>2, <2>3, SMTT(30)
    <3>5. Cardinality(SignalsFrom(sq'[d], Len(sq[d]) + i)) >= 1
      BY <3>4, <2>2, SignalsOfMore
    <3>6. Cardinality(WaitsFrom(polls', d, k)) <= 1
      <4>1. new \in 1 .. new /\ 1 \in 1 .. Len(sq[d]) + 1
        BY <1>3, <2>2
      <4>2. PICK x \in {0, 1} :
              Cardinality(WaitsFrom(polls', d, new)) = Cardinality(WaitsFrom(polls, d, new)) + x
        BY <4>1, <2>0, <1>20
      <4>3. WaitsFrom(polls, d, new) = {}
        BY <1>3 DEF WaitsFrom
      <4>4. Cardinality(WaitsFrom(polls, d, new)) = 0
        BY <4>3, FS_EmptySet
      <4> QED BY <4>2, <4>4, <2>5
    <3>7. Cardinality(WaitsFrom(polls', d, k)) <= Cardinality(SignalsFrom(sq'[d], Len(sq[d]) + i))
      <4>1. Cardinality(WaitsFrom(polls', d, k)) \in Nat
            /\ Cardinality(SignalsFrom(sq'[d], Len(sq[d]) + i)) \in Nat
        BY <2>0, <1>9, <1>15, FiniteWaits, FiniteSignals
      <4> QED BY <4>1, <3>5, <3>6
    <3>8. Expected(sq'[d], s, v, Cardinality(WaitsFrom(polls', d, k)))
      BY <3>3, <3>4, <3>7 DEF Expected
    <3> QED BY <3>8 DEF d
  <2> QED BY <2>4, <2>5, <1>3, <1>8
<1>26. Arriving'
  BY <1>2, <1>25 DEF Arriving, PlacedIn
<1>27. Used'
  BY <1>7 DEF Used, Fetched
<1>28. pc' # "miss"
  BY <1>2
<1> QED BY <1>16, <1>17, <1>18, <1>19, <1>21, <1>22, <1>24, <1>26, <1>27, <1>28 DEF SearchInv

(* The vertex that is expanded is in the pool, so it can be read. *)
LEMMA ExpandKeeps ==
  ASSUME SearchInv, Expand
  PROVE  SearchInv'
<1> DEFINE n == Closest(Unexpanded)
<1>1. pc = "expand" /\ Unexpanded # {} /\ (IF Readable(n) THEN ExpandVertex(n) ELSE Miss)
      /\ UNCHANGED <<graph, Relax, todo, buffer, cq, scratch, results>>
  BY DEF Expand
<1>2. pool \in SUBSET Items /\ todo < Len(Queries) /\ todo \in Nat
  BY <1>1, SearchAssumption DEF SearchInv, TypeOK, Control
<1>3. Unexpanded \in SUBSET Items /\ Unexpanded \in SUBSET pool
  BY <1>2 DEF Unexpanded
<1>4. n \in pool /\ n \in Items
  BY <1>1, <1>2, <1>3, ClosestIn
<1> HIDE DEF n
<1>5. Readable(n)
  BY <1>4 DEF SearchInv, Held, Readable, Local
<1> QED BY <1>1, <1>4, <1>5, ExpandVertexKeeps

-----------------------------------------------------------------------------

(* Every step keeps the invariant. *)
LEMMA NextKeeps == SearchInv /\ [Next]_vars => SearchInv'
<1> SUFFICES ASSUME SearchInv, [Next]_vars PROVE SearchInv'
  OBVIOUS
<1>1. CASE Reset
  BY <1>1, ResetKeeps
<1>2. CASE ReadEntries
  BY <1>2, ReadEntriesKeeps
<1>3. CASE InsertEntries
  BY <1>3, InsertEntriesKeeps
<1>4. CASE Expand
  BY <1>4, ExpandKeeps
<1>5. CASE SettleInLoop
  BY <1>5, SettleInLoopKeeps
<1>6. CASE LeaveLoop
  BY <1>6, LeaveLoopKeeps
<1>7. CASE Drain
  BY <1>7, DrainKeeps
<1>8. CASE Output
  BY <1>8, OutputKeeps
<1>9. ASSUME NEW d \in Servers, Nic(d) PROVE SearchInv'
  BY <1>9, NicKeeps
<1>10. CASE UNCHANGED vars
  BY <1>10, StutterKeeps
<1> QED BY <1>1, <1>2, <1>3, <1>4, <1>5, <1>6, <1>7, <1>8, <1>9, <1>10 DEF Next, Thread

(* The invariant holds in every reachable state (search_base_index_distributed,
   get_vertex_batch and the waits of src/index.cpp, lines 1076-1264). *)
THEOREM SearchInvariance == Spec => []SearchInv
<1>1. Init => SearchInv
  BY InitKeeps
<1> QED BY <1>1, NextKeeps, PTL DEF Spec

(* The state always has its type; in particular a batch is given slots of the
   thread's buffer only, as get_vertex_batch asserts (gstore.hpp, line 306). *)
THEOREM TypeCorrect == Spec => []TypeOK
<1>1. SearchInv => TypeOK
  BY DEF SearchInv
<1> QED BY <1>1, SearchInvariance, PTL

(* Every open batch owns exactly the completions it will poll, across queries too:
   a wait of the thread (RdmaReadBatchUnsignal_Async_Wait) neither takes those of
   another batch nor polls for one that never comes. *)
THEOREM CompletionsMatchPollsHolds == Spec => []CompletionsMatchPolls
<1>1. SearchInv => CompletionsMatchPolls
  <2>1. \A d : SignalsFrom(sq[d], 1) = Signals(d) \/ d \notin Servers \/ ~ SearchInv
    BY DEF SearchInv, TypeOK, SignalsFrom, Signals
  <2>2. SearchInv => \A d : WaitsFrom(polls, d, 1) = {i \in DOMAIN polls : polls[i][d] > 0}
    BY DEF SearchInv, TypeOK, WaitsFrom
  <2> QED BY <2>1, <2>2 DEF SearchInv, Accounted, CompletionsMatchPolls
<1> QED BY <1>1, SearchInvariance, PTL

(* What thd_cache points to was written by the NIC before update_thd_cache, and is
   not written again for the rest of the query. *)
THEOREM CopiesArrivedHolds == Spec => []CopiesArrived
<1>1. SearchInv => CopiesArrived
  BY DEF SearchInv
<1> QED BY <1>1, SearchInvariance, PTL

(* A query reads a vertex at most once, so that it uses no more of the thread's
   buffer than there are remote vertices without a copy (thd_buf_used_sz). *)
THEOREM FetchedOnceHolds == Spec => []FetchedOnce
<1>1. SearchInv => FetchedOnce
  <2> SUFFICES ASSUME SearchInv PROVE FetchedOnce
    OBVIOUS
  <2> DEFINE A == {v \in visited : Fetched(v)}
             B == {v \in Items : Fetched(v)}
  <2>1. A \in SUBSET B /\ B \in SUBSET Items /\ A \in SUBSET Items
    BY DEF SearchInv, TypeOK
  <2>2. bufUsed <= Cardinality(A) /\ bufUsed \in Nat
    BY DEF SearchInv, TypeOK, Used
  <2> HIDE DEF A, B
  <2>3. Cardinality(A) <= Cardinality(B) /\ Cardinality(A) \in Nat /\ Cardinality(B) \in Nat
    BY <2>1, FiniteItems, FS_Subset
  <2>4. bufUsed <= Cardinality(B)
    BY <2>2, <2>3
  <2> QED BY <2>4 DEF FetchedOnce, B
<1> QED BY <1>1, SearchInvariance, PTL

(* get_vertex never throws "thd_cache miss" in the search (gstore.hpp, line 192):
   whatever it is asked for is local or was kept when it entered the pool. *)
THEOREM NeverMissesHolds == Spec => []NeverMisses
<1>1. SearchInv => NeverMisses
  BY DEF SearchInv, NeverMisses
<1> QED BY <1>1, SearchInvariance, PTL

-----------------------------------------------------------------------------
(* Without relaxation: a best-first search *)

(* The pool holds no more than it may, and of the expanded entries those that
   are still in it.  It is empty until the entry points are inserted, and, if
   nothing is relaxed, the loop is left when all of it is expanded and no batch
   is open. *)
PoolInv ==
  /\ Cardinality(pool) <= Capacity
  /\ expanded \subseteq pool
  /\ pc \in {"entry", "sync"} => pool = {} /\ expanded = {}
  /\ pc = "sync" => visited = ToSet(Query.eps)
  /\ pc = "drain" /\ Relax = 0 => batches = << >> /\ pool \subseteq expanded

RInv == SearchInv /\ PoolInv

LEMMA InitRInv == Init => RInv
<1> SUFFICES ASSUME Init
             PROVE  RInv
  OBVIOUS
<1>1. Cardinality(pool) = 0 /\ Capacity \in Nat
  BY SearchAssumption, FS_EmptySet DEF Init
<1> QED BY <1>1, InitKeeps DEF RInv, PoolInv, Init

LEMMA NearestFits ==
  ASSUME NEW dist \in [Items -> Int], NEW S \in SUBSET Items, NEW n \in Nat
  PROVE  Nearest(dist, n, S) \in SUBSET Items /\ Cardinality(Nearest(dist, n, S)) <= n
<1>1. Items \in SUBSET Nat /\ IsFiniteSet(S)
  BY FiniteItems
<1>2. Cardinality(Nearest(dist, n, S)) \in 0 .. n
  BY <1>1, NearestAtMost
<1>3. Nearest(dist, n, S) \in SUBSET S
  BY DEF Nearest
<1> QED BY <1>2, <1>3

(* An insertion of a batch, as a set. *)
LEMMA InsertedPool ==
  ASSUME TypeOK, todo < Len(Queries), NEW items \in Seq(Items), NEW where, NEW who,
         InsertAll(items, where, who)
  PROVE  /\ pool' = Nearest(Query.dist, Capacity, pool \cup (ToSet(items) \cap who))
         /\ Cardinality(pool') <= Capacity
<1>1. /\ todo \in Nat /\ pool \in SUBSET Items /\ Capacity \in Nat
      /\ cache \in [Items -> Int]
  <2>1. \A s \in Slots \cup {Stable, NotCached} : s \in Int
    BY FiniteItems DEF Stable, NotCached
  <2> QED BY <2>1, SearchAssumption DEF TypeOK
<1>2. pool' = Nearest(Query.dist, Capacity, pool \cup (ToSet(items) \cap who))
  BY <1>1, Inserted
<1>3. pool \cup (ToSet(items) \cap who) \in SUBSET Items
  <2>1. ToSet(items) \in SUBSET Items
    BY DEF ToSet
  <2> QED BY <1>1, <2>1
<1>4. Query.dist \in [Items -> Int]
  BY <1>1, QueryType
<1> QED BY <1>1, <1>2, <1>3, <1>4, NearestFits

LEMMA BatchType ==
  ASSUME TypeOK, batches # << >>
  PROVE  /\ Head(batches).items \in Seq(Items) /\ Len(batches) \in Nat \ {0}
         /\ Len(batches) = 1 => batches = <<Head(batches)>> /\ Tail(batches) = << >>
<1>1. batches \in Seq(Batch)
  BY DEF TypeOK
<1>2. Head(batches) \in Batch /\ Len(batches) \in Nat \ {0}
  BY <1>1
<1>3. ASSUME Len(batches) = 1
      PROVE  batches = <<Head(batches)>> /\ Tail(batches) = << >>
  <2>1. Tail(batches) \in Seq(Batch) /\ Len(Tail(batches)) = 0 /\ Head(batches) = batches[1]
    BY <1>1, <1>3, HeadAndTail
  <2>2. \A i \in 1 .. 1 : batches[i] = <<batches[1]>>[i]
    OBVIOUS
  <2>3. DOMAIN batches = 1 .. 1
    BY <1>1, <1>3
  <2>4. batches = [i \in 1 .. 1 |-> batches[i]]
    BY <1>1, <2>3
  <2>5. batches = <<batches[1]>>
    BY <2>4
  <2>6. Tail(batches) = << >>
    <3> DEFINE t == Tail(batches)
    <3>1. t \in Seq(Batch) /\ Len(t) = 0
      BY <2>1
    <3> HIDE DEF t
    <3>2. t = << >>
      BY <3>1
    <3> QED BY <3>2 DEF t
  <2> QED BY <2>1, <2>5, <2>6
<1> QED BY <1>2, <1>3 DEF Batch

LEMMA PoolInvKeeps ==
  ASSUME SearchInv, PoolInv, [Next]_vars
  PROVE  PoolInv'
<1>0. TypeOK /\ Control /\ pc # "miss"
  BY DEF SearchInv
<1>1. Capacity \in Nat /\ pool \in SUBSET Items /\ Relax \in Nat
  BY <1>0, SearchAssumption DEF TypeOK
<1>2. CASE Reset
  <2>1. pool' = {} /\ expanded' = {} /\ pc' = "entry"
    BY <1>2 DEF Reset
  <2>2. Cardinality(pool') <= Capacity
    BY <1>1, <2>1, FS_EmptySet
  <2> QED BY <2>1, <2>2 DEF PoolInv
<1>3. CASE ReadEntries
  <2>1. /\ pc = "entry" /\ pc' = "sync" /\ UNCHANGED <<pool, expanded, todo>>
        /\ visited = {} /\ todo < Len(Queries) /\ todo \in Nat
        /\ visited' = visited \cup ToSet(Unseen(Query.eps, visited))
    BY <1>0, <1>3 DEF ReadEntries, Control, TypeOK
  <2>2. Query.eps \in Seq(Items)
    BY <2>1, QueryType
  <2>3. ToSet(Unseen(Query.eps, visited)) = ToSet(Query.eps) \ visited
    BY <2>2, UnseenIs
  <2>4. visited' = ToSet(Query.eps) /\ Query' = Query
    BY <2>1, <2>3 DEF Query
  <2> QED BY <2>1, <2>4 DEF PoolInv
<1>4. CASE InsertEntries
  <2>1. /\ pc = "sync" /\ pc' = "expand" /\ expanded' = expanded
        /\ InsertAll(scratch.items, scratch.where, Items) /\ todo < Len(Queries)
    BY <1>0, <1>4 DEF InsertEntries, Control
  <2>2. scratch.items \in Seq(Items)
    BY <1>0 DEF TypeOK, Batch
  <2>3. Cardinality(pool') <= Capacity
    BY <1>0, <2>1, <2>2, InsertedPool
  <2> QED BY <2>1, <2>3 DEF PoolInv
<1>5. CASE Expand
  <2> DEFINE n == Closest(Unexpanded)
  <2>1. pc = "expand" /\ todo < Len(Queries)
    BY <1>0, <1>5 DEF Expand, Control
  <2>2. CASE ExpandVertex(n)
    <3>1. n \in Items
      <4>1. Unexpanded \in SUBSET Items /\ Unexpanded # {} /\ todo \in Nat
        BY <1>0, <1>1, <1>5 DEF Expand, Unexpanded, TypeOK
      <4> QED BY <2>1, <4>1, ClosestIn
    <3>2. PICK items \in NewNeighbors(n) : InsertAll(items, Places(items), Local)
      BY <2>2 DEF ExpandVertex
    <3>3. items \in Seq(Items)
      BY <1>0, <3>1, NeighborsAreNew DEF TypeOK
    <3>4. Cardinality(pool') <= Capacity
      BY <1>0, <2>1, <3>2, <3>3, InsertedPool
    <3>5. expanded' \subseteq pool' /\ pc' \in {"expand", "settle"}
      BY <2>2 DEF ExpandVertex
    <3> QED BY <3>4, <3>5 DEF PoolInv
  <2>3. CASE Miss
    <3>1. SearchInv'
      BY <1>5, ExpandKeeps
    <3> QED BY <2>3, <3>1 DEF Miss, SearchInv
  <2> QED BY <1>5, <2>2, <2>3 DEF Expand
<1>6. CASE SettleInLoop \/ Drain
  <2>1. /\ Settle /\ batches # << >> /\ pc' \in {"expand", "drain"}
        /\ (pc' = "drain" => pc = "drain") /\ todo < Len(Queries)
    <3>1. CASE SettleInLoop
      <4>1. Len(batches) = Relax + 1 /\ pc = "settle"
        BY <1>0, <3>1 DEF SettleInLoop, Control
      <4> QED BY <1>0, <1>1, <3>1, <4>1 DEF SettleInLoop, Control
    <3>2. CASE Drain
      BY <1>0, <3>2 DEF Drain, Control
    <3> QED BY <1>6, <3>1, <3>2
  <2>2. Head(batches).items \in Seq(Items)
    BY <1>0, <2>1, BatchType
  <2>3. Cardinality(pool') <= Capacity
    BY <1>0, <2>1, <2>2, InsertedPool DEF Settle
  <2>4. expanded' \subseteq pool' /\ Relax' = Relax
    BY <2>1 DEF Settle
  <2>5. ~ (pc' = "drain" /\ Relax = 0)
    BY <2>1 DEF PoolInv
  <2> QED BY <2>1, <2>3, <2>4, <2>5 DEF PoolInv
<1>7. CASE LeaveLoop
  <2>1. /\ pc = "expand" /\ pc' = "drain" /\ Unexpanded = {}
        /\ UNCHANGED <<pool, expanded, batches, Relax>>
    BY <1>7 DEF LeaveLoop, searchVars
  <2>2. Relax = 0 => batches = << >>
    <3>1. relax \in Nat /\ relax + Len(batches) = Relax /\ batches \in Seq(Batch)
      BY <1>0, <1>1, <2>1 DEF Control, TypeOK
    <3> QED BY <3>1
  <2> QED BY <2>1, <2>2 DEF PoolInv, Unexpanded
<1>8. CASE Output
  BY <1>8 DEF Output, PoolInv, searchVars
<1>9. ASSUME NEW d \in Servers, Nic(d)
      PROVE  PoolInv'
  BY <1>9 DEF Nic, PoolInv, searchVars, Query
<1>10. CASE UNCHANGED vars
  BY <1>10 DEF vars, PoolInv, searchVars, Query
<1> QED BY <1>2, <1>3, <1>4, <1>5, <1>6, <1>7, <1>8, <1>9, <1>10 DEF Next, Thread

-----------------------------------------------------------------------------
(* What was looked at and is not in the pool *)

(* The entry points and the neighbors of the expanded vertices were looked at,
   and what was looked at is in the pool or in an open batch as long as the pool
   has room.  When the loop is left all local entries of the pool are expanded. *)
CutInv ==
  /\ pc \in {"expand", "settle", "drain", "stale"} =>
       /\ ToSet(Query.eps) \subseteq visited
       /\ \A v \in expanded : ToSet(graph[v]) \subseteq visited
       /\ Cardinality(pool) < Capacity => visited \subseteq pool \cup Outstanding
  /\ pc = "stale" => batches = << >> /\ Cardinality(pool) < K
  /\ pc \in {"drain", "stale"} =>
       /\ pool \cap Local \subseteq expanded
       /\ Relax = 0 => pool \subseteq expanded

(* A pool with room has taken everything that was offered, and had room before. *)
LEMMA TakesAll ==
  ASSUME TypeOK, todo < Len(Queries), NEW items \in Seq(Items), NEW where, NEW who,
         InsertAll(items, where, who), Cardinality(pool') < Capacity
  PROVE  /\ pool' = pool \cup (ToSet(items) \cap who)
         /\ Cardinality(pool) < Capacity
<1> DEFINE P == pool \cup (ToSet(items) \cap who)
<1>1. todo \in Nat /\ pool \in SUBSET Items /\ Capacity \in Nat
  BY SearchAssumption DEF TypeOK
<1>2. pool' = Nearest(Query.dist, Capacity, P)
  BY InsertedPool
<1>3. P \in SUBSET Items /\ pool \in SUBSET P
  <2>1. ToSet(items) \in SUBSET Items
    BY DEF ToSet
  <2> QED BY <1>1, <2>1
<1>4. Query.dist \in [Items -> Int]
  BY <1>1, QueryType
<1> HIDE DEF P
<1>5. /\ Cardinality(pool) <= Cardinality(P) /\ Cardinality(pool) \in Nat
      /\ Cardinality(P) \in Nat /\ IsFiniteSet(P) /\ Items \in SUBSET Nat
  BY <1>1, <1>3, FiniteItems, FS_Subset
<1>6. Cardinality(P) < Capacity
  <2>1. pool' \in SUBSET Items
    BY <1>1, <1>2, <1>3, <1>4, NearestFits
  <2>2. Cardinality(pool') \in Nat
    BY <2>1, FiniteItems
  <2>3. Capacity <= Cardinality(P) => Capacity <= Cardinality(pool')
    BY <1>1, <1>2, <1>3, <1>4, NearestSize
  <2> QED BY <1>1, <1>5, <2>2, <2>3
<1>7. Cardinality(P) <= Capacity /\ Cardinality(pool) < Capacity
  BY <1>1, <1>5, <1>6
<1>8. Nearest(Query.dist, Capacity, P) = P
  BY <1>1, <1>3, <1>4, <1>5, <1>7, NearestAll
<1> QED BY <1>2, <1>7, <1>8 DEF P

(* What an expansion does not read was dropped for a full pool, or seen before. *)
LEMMA ReadsAllNew ==
  ASSUME TypeOK, NEW n \in Items, NEW items \in NewNeighbors(n), Cardinality(pool) < Capacity
  PROVE  ToSet(items) = ToSet(graph[n]) \ visited
<1>1. items = Unseen(graph[n], visited \cup {})
  BY DEF NewNeighbors
<1>2. graph[n] \in Seq(Items)
  BY DEF TypeOK
<1> QED BY <1>1, <1>2, UnseenIs

(* An expansion adds to what is outstanding, settling a batch takes from it. *)
LEMMA OutstandingMore ==
  ASSUME TypeOK, Len(batches) <= Relax, NEW items \in Seq(Items), NEW where,
         batches' = PushBatch([items |-> items, where |-> where])
  PROVE  Outstanding' = Outstanding \cup (ToSet(items) \ Local)
<1> DEFINE b == [items |-> items, where |-> where]
<1>1. batches \in Seq(Batch) /\ Len(batches) \in Nat /\ Relax \in Nat
  BY SearchAssumption DEF TypeOK
<1>2. batches' = Append(batches, b) /\ b.items = items
  BY <1>1 DEF PushBatch
<1> HIDE DEF b
<1>3. /\ DOMAIN batches' = 1 .. Len(batches) + 1 /\ DOMAIN batches = 1 .. Len(batches)
      /\ batches'[Len(batches) + 1] = b
      /\ \A i \in 1 .. Len(batches) : batches'[i] = batches[i]
  BY <1>1, <1>2
<1>4. \A v : (\E i \in DOMAIN batches' : v \in ToSet(batches'[i].items)) <=>
             (\E i \in DOMAIN batches : v \in ToSet(batches[i].items)) \/ v \in ToSet(items)
  BY <1>1, <1>2, <1>3
<1>5. ToSet(items) \in SUBSET Items
  BY DEF ToSet
<1> QED BY <1>4, <1>5 DEF Outstanding, Local

LEMMA OutstandingLess ==
  ASSUME TypeOK, batches # << >>, batches' = Tail(batches)
  PROVE  Outstanding \subseteq Outstanding' \cup (ToSet(Head(batches).items) \cap (Items \ Local))
<1>1. batches \in Seq(Batch) /\ Head(batches).items \in Seq(Items)
  BY BatchType DEF TypeOK
<1>2. /\ DOMAIN batches = 1 .. Len(batches) /\ Len(batches) \in Nat \ {0}
      /\ Head(batches) = batches[1] /\ DOMAIN batches' = 1 .. Len(batches) - 1
      /\ \A m \in 1 .. Len(batches) - 1 : batches'[m] = batches[m + 1]
  BY <1>1, HeadAndTail
<1>3. ASSUME NEW i \in DOMAIN batches, i # 1 PROVE i - 1 \in DOMAIN batches' /\ batches'[i - 1] = batches[i]
  BY <1>2, <1>3
<1>4. ToSet(Head(batches).items) \in SUBSET Items
  BY <1>1 DEF ToSet
<1>5. ASSUME NEW v \in Outstanding
      PROVE  v \in Outstanding' \/ v \in ToSet(Head(batches).items) \cap (Items \ Local)
  <2>1. PICK i \in DOMAIN batches : v \in ToSet(batches[i].items) /\ Home[v] # Self
    BY DEF Outstanding
  <2>2. v \in Items \ Local
    <3>1. batches[i] \in Batch
      BY <1>1
    <3>2. batches[i].items \in Seq(Items)
      BY <3>1 DEF Batch
    <3> QED BY <2>1, <3>2 DEF ToSet, Local
  <2>3. CASE i = 1
    BY <1>2, <2>1, <2>2, <2>3
  <2>4. CASE i # 1
    <3>1. i - 1 \in DOMAIN batches' /\ v \in ToSet(batches'[i - 1].items)
      BY <1>3, <2>1, <2>4
    <3> QED BY <2>1, <3>1 DEF Outstanding
  <2> QED BY <2>3, <2>4
<1> QED BY <1>5

LEMMA CutInvKeeps ==
  ASSUME RInv, CutInv, [Next]_vars
  PROVE  CutInv'
<1>0. /\ SearchInv /\ TypeOK /\ Control /\ PoolInv /\ SearchInv' /\ pc # "miss" /\ pc' # "miss"
      /\ pool \in SUBSET Items /\ visited \in SUBSET Items /\ Relax \in Nat
      /\ batches \in Seq(Batch) /\ graph \in [Items -> Seq(Items)]
  BY NextKeeps, SearchAssumption DEF RInv, SearchInv, TypeOK
<1>1. CASE Reset
  BY <1>1 DEF Reset, CutInv
<1>2. CASE ReadEntries
  BY <1>2 DEF ReadEntries, CutInv
<1>3. CASE InsertEntries
  <2>1. /\ pc = "sync" /\ pc' = "expand" /\ todo < Len(Queries) /\ scratch.items \in Seq(Items)
        /\ InsertAll(scratch.items, scratch.where, Items)
        /\ ToSet(scratch.items) = ToSet(Query.eps) /\ visited = ToSet(Query.eps) /\ expanded = {}
        /\ UNCHANGED <<graph, todo, expanded, visited>>
    BY <1>0, <1>3 DEF InsertEntries, Control, PoolInv, TypeOK, Batch
  <2>2. ASSUME Cardinality(pool') < Capacity PROVE visited' \subseteq pool'
    <3>1. pool' = pool \cup (ToSet(scratch.items) \cap Items)
      BY <1>0, <2>1, <2>2, TakesAll
    <3> QED BY <1>0, <2>1, <3>1
  <2>3. Query' = Query
    BY <2>1 DEF Query
  <2> QED BY <2>1, <2>2, <2>3 DEF CutInv
<1>4. CASE Expand
  <2> DEFINE n == Closest(Unexpanded)
  <2>1. pc = "expand" /\ todo < Len(Queries) /\ todo \in Nat /\ UNCHANGED <<graph, todo, Relax>>
    BY <1>0, <1>4 DEF Expand, Control, TypeOK
  <2>2. n \in Items
    <3>1. Unexpanded \in SUBSET Items /\ Unexpanded # {}
      BY <1>0, <1>4 DEF Expand, Unexpanded
    <3> QED BY <2>1, <3>1, ClosestIn
  <2>3. ExpandVertex(n)
    BY <1>0, <1>4 DEF Expand, Miss
  <2> HIDE DEF n
  <2>4. PICK items \in NewNeighbors(n) :
          /\ InsertAll(items, Places(items), Local)
          /\ batches' = PushBatch([items |-> items, where |-> Places(items)])
    BY <2>3 DEF ExpandVertex
  <2>5. /\ visited' = visited \cup ToSet(graph[n])
        /\ expanded' = (expanded \cup {n}) \cap pool' /\ pc' \in {"expand", "settle"}
    BY <2>3 DEF ExpandVertex
  <2>6. items \in Seq(Items) /\ ToSet(graph[n]) \in SUBSET Items
    BY <1>0, <2>2, NeighborsAreNew
  <2>7. /\ ToSet(Query.eps) \subseteq visited /\ Query' = Query
        /\ \A v \in expanded : ToSet(graph[v]) \subseteq visited
    BY <2>1 DEF CutInv, Query
  <2>8. ASSUME Cardinality(pool') < Capacity
        PROVE  visited' \subseteq pool' \cup Outstanding'
    <3>1. pool' = pool \cup (ToSet(items) \cap Local) /\ Cardinality(pool) < Capacity
      BY <1>0, <2>1, <2>4, <2>6, <2>8, TakesAll
    <3>2. ToSet(items) = ToSet(graph[n]) \ visited
      BY <1>0, <2>2, <3>1, ReadsAllNew
    <3>3. Outstanding' = Outstanding \cup (ToSet(items) \ Local)
      <4>1. relax + Len(batches) = Relax /\ relax \in Nat /\ Len(batches) \in Nat
        BY <1>0, <2>1 DEF Control, TypeOK
      <4>2. Len(batches) <= Relax
        BY <1>0, <4>1
      <4> QED BY <1>0, <2>4, <2>6, <4>2, OutstandingMore
    <3>4. visited \subseteq pool \cup Outstanding
      BY <2>1, <3>1 DEF CutInv
    <3> QED BY <2>5, <3>1, <3>2, <3>3, <3>4
  <2> QED BY <2>1, <2>5, <2>7, <2>8 DEF CutInv
<1>5. CASE SettleInLoop \/ Drain
  <2>1. /\ Settle /\ batches # << >> /\ todo < Len(Queries) /\ pc \in {"settle", "drain"}
        /\ pc' \in {"expand", "drain"} /\ (pc' = "drain" => pc = "drain")
    <3>1. CASE SettleInLoop
      <4>1. Len(batches) = Relax + 1 /\ pc = "settle"
        BY <1>0, <3>1 DEF SettleInLoop, Control
      <4> QED BY <1>0, <3>1, <4>1 DEF SettleInLoop, Control
    <3>2. CASE Drain
      BY <1>0, <3>2 DEF Drain, Control
    <3> QED BY <1>5, <3>1, <3>2
  <2>2. /\ InsertAll(Head(batches).items, Head(batches).where, Items \ Local)
        /\ batches' = Tail(batches) /\ expanded' = expanded \cap pool'
        /\ UNCHANGED <<graph, Relax, todo, visited>>
    BY <2>1 DEF Settle
  <2>3. Head(batches).items \in Seq(Items)
    BY <1>0, <2>1, BatchType
  <2>4. pool' \subseteq pool \cup (Items \ Local)
    <3>1. pool' = Nearest(Query.dist, Capacity,
                          pool \cup (ToSet(Head(batches).items) \cap (Items \ Local)))
      BY <1>0, <2>1, <2>2, <2>3, InsertedPool
    <3> QED BY <3>1 DEF Nearest
  <2>5. ASSUME Cardinality(pool') < Capacity
        PROVE  visited' \subseteq pool' \cup Outstanding'
    <3>1. /\ pool' = pool \cup (ToSet(Head(batches).items) \cap (Items \ Local))
          /\ Cardinality(pool) < Capacity
      BY <1>0, <2>1, <2>2, <2>3, <2>5, TakesAll
    <3>2. Outstanding \subseteq Outstanding' \cup (ToSet(Head(batches).items) \cap (Items \ Local))
      BY <1>0, <2>1, <2>2, OutstandingLess
    <3>3. visited \subseteq pool \cup Outstanding
      BY <2>1, <3>1 DEF CutInv
    <3> QED BY <2>2, <3>1, <3>2, <3>3
  <2>6. ASSUME pc' = "drain"
        PROVE  pool' \cap Local \subseteq expanded' /\ Relax' # 0
    <3>1. pc = "drain" /\ pool \cap Local \subseteq expanded
      BY <2>1, <2>6 DEF CutInv
    <3>2. Relax # 0
      BY <1>0, <2>1, <3>1 DEF PoolInv
    <3> QED BY <2>2, <2>4, <3>1, <3>2
  <2>7. /\ ToSet(Query.eps) \subseteq visited /\ Query' = Query /\ Local' = Local
        /\ \A v \in expanded : ToSet(graph[v]) \subseteq visited
    BY <2>1, <2>2 DEF CutInv, Query, Local
  <2> QED BY <2>1, <2>2, <2>5, <2>6, <2>7 DEF CutInv
<1>6. CASE LeaveLoop
  <2>1. /\ pc = "expand" /\ pc' = "drain" /\ pool \subseteq expanded
        /\ UNCHANGED <<graph, Relax, todo, pool, expanded, visited, batches>>
    BY <1>6 DEF LeaveLoop, searchVars, Unexpanded
  <2> QED BY <2>1 DEF CutInv, Query, Outstanding, Local
<1>7. CASE Output
  <2>1. /\ pc = "drain" /\ batches = << >>
        /\ UNCHANGED <<graph, Relax, pool, expanded, visited, batches>>
        /\ \/ pc' = "stale" /\ Cardinality(pool) < K /\ todo' = todo
           \/ pc' = "begin"
    BY <1>0, <1>7 DEF Output, searchVars
  <2> QED BY <2>1 DEF CutInv, Query, Outstanding, Local
<1>8. ASSUME NEW d \in Servers, Nic(d)
      PROVE  CutInv'
  BY <1>8 DEF Nic, CutInv, searchVars, Query, Outstanding, Local
<1>9. CASE UNCHANGED vars
  BY <1>9 DEF vars, CutInv, searchVars, Query, Outstanding, Local
<1> QED BY <1>1, <1>2, <1>3, <1>4, <1>5, <1>6, <1>7, <1>8, <1>9 DEF Next, Thread

(* The result loop reads past the pool only if the search has taken in all that
   it looked at, and stopped short of nothing but vertices of other servers that
   it inserted after its last expansion (index.cpp, lines 1156-1264). *)
THEOREM StaleOnlyIfCutOffHolds == Spec => []StaleOnlyIfCutOff
<1>1. Init => RInv /\ CutInv
  BY InitRInv DEF Init, CutInv
<1>2. RInv /\ CutInv /\ [Next]_vars => (RInv /\ CutInv)'
  <2>1. SearchInv /\ [Next]_vars => SearchInv'
    BY NextKeeps
  <2> QED BY <2>1, PoolInvKeeps, CutInvKeeps DEF RInv
<1>3. RInv /\ CutInv => StaleOnlyIfCutOff
  <2> SUFFICES ASSUME RInv, CutInv, pc = "stale"
               PROVE  StaleOnlyIfCutOff
    BY DEF StaleOnlyIfCutOff
  <2>1. Cardinality(pool) < Capacity
    <3>1. Cardinality(pool) \in Nat
      BY FiniteItems DEF RInv, SearchInv, TypeOK
    <3> QED BY <3>1, SearchAssumption DEF CutInv
  <2>2. Outstanding = {}
    BY DEF CutInv, Outstanding
  <2>3. Relax \in Nat
    BY SearchAssumption DEF RInv, SearchInv, TypeOK
  <2> QED BY <2>1, <2>2, <2>3 DEF CutInv, StaleOnlyIfCutOff
<1> QED BY <1>1, <1>2, <1>3, PTL DEF Spec

-----------------------------------------------------------------------------
(* The best-first search that an unrelaxed search is *)

LEMMA SameOrder ==
  /\ \A dist, a, b : BestFirst!Less(dist, a, b) = Less(dist, a, b)
  /\ \A dist, c, S : BestFirst!Nearest(dist, c, S) = Nearest(dist, c, S)
  /\ \A S : BestFirst!Cardinality(S) = Cardinality(S)
<1>1. \A dist, a, b : BestFirst!Less(dist, a, b) = Less(dist, a, b)
  BY DEF BestFirst!Less, Less
<1>2. \A S : BestFirst!Cardinality(S) = Cardinality(S)
  BY DEF BestFirst!Cardinality, Cardinality
<1>3. \A dist, c, S : BestFirst!Nearest(dist, c, S) = Nearest(dist, c, S)
  BY <1>1, <1>2 DEF BestFirst!Nearest, Nearest
<1> QED BY <1>1, <1>2, <1>3

(* While no batch is open the pool of the best-first search is the pool. *)
LEMMA PoolSettled ==
  RInv /\ batches = << >> => SettledPool = pool
<1> SUFFICES ASSUME RInv, batches = << >>
             PROVE  SettledPool = pool
  OBVIOUS
<1>1. TypeOK /\ pool \in SUBSET Items /\ Cardinality(pool) <= Capacity
  BY DEF RInv, SearchInv, PoolInv, TypeOK
<1>2. UNION {ToSet(batches[i].items) : i \in DOMAIN batches} = {}
  OBVIOUS
<1>3. Outstanding = {}
  BY <1>2 DEF Outstanding
<1>4. ASSUME todo < Len(Queries)
      PROVE  Nearest(Query.dist, Capacity, pool \cup {}) = pool
  <2>1. Query.dist \in [Items -> Int] /\ Capacity \in Nat
    BY <1>1, <1>4, QueryType, SearchAssumption DEF TypeOK
  <2>2. Items \in SUBSET Nat /\ IsFiniteSet(pool) /\ pool \cup {} = pool
    BY <1>1, FiniteItems
  <2> QED BY <1>1, <2>1, <2>2, NearestAll
<1> QED BY <1>3, <1>4 DEF SettledPool

(* With one batch open the pool is what it will be when the batch is settled. *)
LEMMA PoolOpen ==
  RInv /\ Len(batches) = 1 /\ todo < Len(Queries) =>
    SettledPool = Nearest(Query.dist, Capacity,
                          pool \cup (ToSet(Head(batches).items) \cap (Items \ Local)))
<1> SUFFICES ASSUME RInv, Len(batches) = 1, todo < Len(Queries)
             PROVE  SettledPool = Nearest(Query.dist, Capacity,
                          pool \cup (ToSet(Head(batches).items) \cap (Items \ Local)))
  OBVIOUS
<1>1. TypeOK /\ batches \in Seq(Batch) /\ batches # << >>
  <2>1. TypeOK /\ batches \in Seq(Batch)
    BY DEF RInv, SearchInv, TypeOK
  <2>2. batches # << >>
    BY <2>1
  <2> QED BY <2>1, <2>2
<1>2. Head(batches).items \in Seq(Items)
  BY <1>1, BatchType
<1>3. DOMAIN batches = {1} /\ Head(batches) = batches[1]
  BY <1>1
<1>4. UNION {ToSet(batches[i].items) : i \in DOMAIN batches} = ToSet(Head(batches).items)
  BY <1>3
<1>5. ToSet(Head(batches).items) \in SUBSET Items
  BY <1>2 DEF ToSet
<1>6. Outstanding = ToSet(Head(batches).items) \cap (Items \ Local)
  BY <1>4, <1>5 DEF Outstanding, Local
<1> QED BY <1>6 DEF SettledPool

(* The pc of the best-first search. *)
BPc == CASE pc = "begin" -> "idle"
         [] pc \in {"entry", "sync"} -> "cleared"
         [] pc \in {"expand", "settle", "drain"} -> "search"
         [] OTHER -> pc

LEMMA InitMaps == Init => BestFirst!Init
<1> SUFFICES ASSUME Init
             PROVE  BestFirst!Init
  OBVIOUS
<1>1. RInv
  BY InitRInv
<1>2. SettledPool = {}
  BY <1>1, PoolSettled DEF Init
<1> QED BY <1>2 DEF Init, BestFirst!Init

LEMMA ResetMaps == ASSUME RInv, Reset PROVE BestFirst!Clear
<1>1. RInv /\ RInv' /\ pc = "begin" /\ todo < Len(Queries) /\ pool' = {} /\ expanded' = {}
      /\ visited' = {} /\ pc' = "entry" /\ UNCHANGED <<graph, todo, results>>
  BY ResetKeeps, PoolInvKeeps DEF RInv, Next, Thread, Reset
<1>2. (batches = << >>)'
  BY DEF Reset
<1>3. (SettledPool = pool)'
  BY <1>1, <1>2, PoolSettled, PTL
<1> QED BY <1>1, <1>3 DEF BestFirst!Clear

LEMMA ReadEntriesMaps == ASSUME RInv, ReadEntries PROVE UNCHANGED BestFirst!vars
<1>1. /\ pc = "entry" /\ pc' = "sync" /\ visited = {}
      /\ UNCHANGED <<graph, todo, pool, expanded, batches, results>>
  BY DEF ReadEntries, RInv, SearchInv, Control
<1>2. SettledPool' = SettledPool
  BY <1>1 DEF SettledPool, Outstanding, Query
<1> QED BY <1>1, <1>2 DEF BestFirst!vars, BestFirst!searchVars

LEMMA InsertEntriesMaps == ASSUME RInv, InsertEntries PROVE BestFirst!Enter
<1>1. /\ RInv /\ RInv' /\ TypeOK /\ pc = "sync" /\ pc' = "expand" /\ todo < Len(Queries)
      /\ batches = << >> /\ pool = {} /\ expanded = {} /\ visited = ToSet(Query.eps)
      /\ ToSet(scratch.items) = ToSet(Query.eps)
      /\ InsertAll(scratch.items, scratch.where, Items)
      /\ UNCHANGED <<graph, todo, expanded, visited, batches, results>>
  BY InsertEntriesKeeps, PoolInvKeeps
     DEF RInv, SearchInv, Control, PoolInv, Next, Thread, InsertEntries
<1>2. (batches = << >>)'
  BY <1>1
<1>3. (SettledPool = pool)'
  BY <1>1, <1>2, PoolSettled, PTL
<1>4. SettledPool = pool
  BY <1>1, PoolSettled
<1>5. scratch.items \in Seq(Items)
  BY <1>1 DEF TypeOK, Batch
<1>6. pool' = Nearest(Query.dist, Capacity, ToSet(Query.eps))
  <2>1. pool' = Nearest(Query.dist, Capacity, pool \cup (ToSet(scratch.items) \cap Items))
    BY <1>1, <1>5, InsertedPool
  <2>2. ToSet(scratch.items) \in SUBSET Items
    BY <1>5 DEF ToSet
  <2>3. pool \cup (ToSet(scratch.items) \cap Items) = ToSet(Query.eps)
    BY <1>1, <2>2
  <2> QED BY <2>1, <2>3
<1>7. BestFirst!Query = Query /\ BestFirst!Entries(BestFirst!Query) = ToSet(Query.eps)
  BY DEF BestFirst!Query, Query, BestFirst!Entries, ToSet
<1>8. BestFirst!PoolWith(ToSet(Query.eps)) = pool'
  <2>1. SettledPool \cup ToSet(Query.eps) = ToSet(Query.eps)
    BY <1>1, <1>4
  <2> QED BY <1>6, <1>7, <2>1, SameOrder DEF BestFirst!PoolWith
<1> QED BY <1>1, <1>3, <1>4, <1>7, <1>8 DEF BestFirst!Enter


LEMMA ExpandMaps ==
  ASSUME RInv, Relax = 0, Expand
  PROVE  \E x \in BestFirst!Unexpanded : BestFirst!Expand(x)
<1>0. PICK n : n = Closest(Unexpanded)
  OBVIOUS
<1>1. /\ RInv /\ SearchInv /\ TypeOK /\ SearchInv' /\ PoolInv /\ PoolInv' /\ RInv'
      /\ pc = "expand" /\ todo < Len(Queries) /\ todo \in Nat /\ Capacity \in Nat
      /\ pool \in SUBSET Items /\ visited \in SUBSET Items
      /\ Unexpanded # {} /\ relax \in 0 .. 0 /\ relax + Len(batches) = 0 /\ batches \in Seq(Batch)
      /\ UNCHANGED <<graph, todo, results>>
  <2>1. RInv /\ SearchInv /\ TypeOK /\ PoolInv /\ SearchInv' /\ PoolInv'
    BY ExpandKeeps, PoolInvKeeps DEF RInv, SearchInv, Next, Thread
  <2>2. RInv'
    BY <2>1 DEF RInv
  <2>3. pc = "expand" /\ Unexpanded # {} /\ UNCHANGED <<graph, todo, results>>
    BY DEF Expand
  <2>4. todo < Len(Queries) /\ relax + Len(batches) = 0
    BY <2>1, <2>3 DEF SearchInv, Control
  <2>5. /\ todo \in Nat /\ Capacity \in Nat /\ pool \in SUBSET Items /\ visited \in SUBSET Items
        /\ relax \in 0 .. 0 /\ batches \in Seq(Batch)
    BY <2>1, SearchAssumption DEF TypeOK
  <2> QED BY <2>1, <2>2, <2>3, <2>4, <2>5
<1>2. relax = 0 /\ batches = << >>
  BY <1>1
<1>3. SettledPool = pool
  BY <1>1, <1>2, PoolSettled
<1>4. n \in pool \ expanded /\ n \in Items /\ \A w \in (pool \ expanded) \ {n} : Less(Query.dist, n, w)
  <2>1. Unexpanded \in SUBSET Items
    BY <1>1 DEF Unexpanded
  <2> QED BY <1>0, <1>1, <2>1, ClosestIn DEF Unexpanded
<1>5. ExpandVertex(n)
  <2>1. pc' # "miss"
    BY <1>1 DEF SearchInv
  <2> QED BY <1>0, <2>1 DEF Expand, Miss
<1>6. PICK items \in NewNeighbors(n) :
        /\ batches' = PushBatch([items |-> items, where |-> Places(items)])
        /\ InsertAll(items, Places(items), Local)
  BY <1>5 DEF ExpandVertex
<1>7. /\ visited' = visited \cup ToSet(graph[n]) /\ expanded' = (expanded \cup {n}) \cap pool'
      /\ pc' = "settle"
  BY <1>2, <1>5 DEF ExpandVertex, MayRelax
<1>8. PICK dropped :
        /\ items = Unseen(graph[n], visited \cup dropped)
        /\ dropped \in IF Cardinality(pool) < Capacity THEN {{}}
                       ELSE SUBSET (ToSet(graph[n]) \ (visited \cup Local))
  BY DEF NewNeighbors
<1>9. graph[n] \in Seq(Items)
  BY <1>1, <1>4 DEF TypeOK
<1>10. items \in Seq(Items) /\ ToSet(items) = ToSet(graph[n]) \ (visited \cup dropped)
       /\ ToSet(graph[n]) \in SUBSET Items
  <2>1. ToSet(graph[n]) \in SUBSET Items
    BY <1>9 DEF ToSet
  <2> QED BY <1>8, <1>9, <2>1, UnseenIs
<1> DEFINE d == Query.dist
           X == ToSet(items) \cap Local
           Y == ToSet(items) \cap (Items \ Local)
<1>11. d \in [Items -> Int] /\ Items \in SUBSET Nat
  BY <1>1, QueryType, FiniteItems
<1>12. pool' = Nearest(d, Capacity, pool \cup X)
  BY <1>1, <1>6, <1>10, InsertedPool
<1>13. SettledPool' = Nearest(d, Capacity, pool' \cup Y)
  <2>1. batches' = <<[items |-> items, where |-> Places(items)]>>
    BY <1>1, <1>2, <1>6 DEF PushBatch
  <2>2. (Len(batches) = 1)' /\ Head(batches').items = items
    BY <2>1
  <2>3. (todo < Len(Queries))'
    BY <1>1
  <2>4. (SettledPool = Nearest(Query.dist, Capacity,
                         pool \cup (ToSet(Head(batches).items) \cap (Items \ Local))))'
    BY <1>1, <2>2, <2>3, PoolOpen, PTL
  <2>5. Query' = Query
    BY <1>1 DEF Query
  <2>6. Local' = Local
    BY DEF Local
  <2> QED BY <2>2, <2>4, <2>5, <2>6
<1>14. SettledPool' = Nearest(d, Capacity, pool \cup ToSet(items))
  <2> DEFINE P == pool \cup X
  <2>1. P \in SUBSET Items /\ Y \in SUBSET Items
    BY <1>1, <1>10
  <2>2. IsFiniteSet(P) /\ IsFiniteSet(Y)
    BY <2>1, FiniteItems
  <2>3. P \cup Y = pool \cup ToSet(items)
    BY <1>10
  <2> HIDE DEF P, Y, d, X
  <2>4. Nearest(d, Capacity, Nearest(d, Capacity, P) \cup Y) = Nearest(d, Capacity, P \cup Y)
    BY <1>1, <1>11, <2>1, <2>2, NearestTwice
  <2>5. pool' = Nearest(d, Capacity, P)
    BY <1>12 DEF P
  <2> QED BY <1>13, <2>3, <2>4, <2>5
<1>15. (pool \cup X) \cap SettledPool' \subseteq pool'
  <2>1. pool \cup ToSet(items) \in SUBSET Items
    BY <1>1, <1>10
  <2>2. IsFiniteSet(pool \cup ToSet(items)) /\ pool \cup X \in SUBSET (pool \cup ToSet(items))
    BY <2>1, FiniteItems
  <2>3. ASSUME NEW v \in pool \cup X, v \in SettledPool'
        PROVE  v \in pool'
    <3> HIDE DEF X, d
    <3> QED BY <1>1, <1>12, <1>14, <2>2, <2>3, NearestOfFewer
  <2> QED BY <2>3
<1>16. expanded' \cap SettledPool' = ((expanded \cap SettledPool) \cup {n}) \cap SettledPool'
  <2>1. expanded \cup {n} \subseteq pool
    BY <1>1, <1>4 DEF PoolInv
  <2>2. (expanded \cup {n}) \cap SettledPool' \subseteq pool'
    BY <1>15, <2>1
  <2> QED BY <1>3, <1>7, <2>1, <2>2
<1> HIDE DEF d, X, Y
<1>17. BestFirst!New(n) = ToSet(graph[n]) \ visited
  BY <1>1 DEF BestFirst!New, BestFirst!NeighborsOf, ToSet
<1>18. BestFirst!Unexpanded = pool \ expanded
  BY <1>3 DEF BestFirst!Unexpanded
<1>19. BestFirst!Query = Query
  BY DEF BestFirst!Query, Query
<1>20. BestFirst!PoolWith(BestFirst!New(n) \ dropped) = SettledPool'
  <2>1. BestFirst!New(n) \ dropped = ToSet(items)
    BY <1>10, <1>17
  <2> QED BY <1>3, <1>14, <1>19, <2>1, SameOrder DEF BestFirst!PoolWith, d
<1>21. dropped \in IF BestFirst!Cardinality(SettledPool) < Capacity THEN {{}}
                   ELSE SUBSET (BestFirst!New(n) \cap {v \in Items : Home[v] # Self})
  <2>1. BestFirst!Cardinality(SettledPool) = Cardinality(pool)
    BY <1>3, SameOrder
  <2>2. ToSet(graph[n]) \ (visited \cup Local)
          \subseteq BestFirst!New(n) \cap {v \in Items : Home[v] # Self}
    BY <1>10, <1>17 DEF Local
  <2> QED BY <1>8, <2>1, <2>2
<1>22. BestFirst!Expand(n)
  <2>1. \A w \in BestFirst!Unexpanded \ {n} : BestFirst!Less(BestFirst!Query.dist, n, w)
    BY <1>4, <1>18, <1>19, SameOrder
  <2>2. BPc = "search" /\ (BPc = "search")'
    BY <1>1, <1>7 DEF BPc
  <2>3. visited' = visited \cup BestFirst!New(n)
    BY <1>7, <1>17
  <2> QED BY <1>1, <1>7, <1>16, <1>20, <1>21, <2>1, <2>2, <2>3
          DEF BestFirst!Expand, BestFirst!Marked, BPc
<1> QED BY <1>4, <1>18, <1>22

LEMMA SettleMaps ==
  ASSUME RInv, Relax = 0, SettleInLoop
  PROVE  UNCHANGED BestFirst!vars
<1>1. /\ RInv /\ RInv' /\ TypeOK /\ pc = "settle" /\ pc' = "expand" /\ todo < Len(Queries)
      /\ Len(batches) = 1 /\ batches \in Seq(Batch) /\ batches' = Tail(batches)
      /\ InsertAll(Head(batches).items, Head(batches).where, Items \ Local)
      /\ expanded' = expanded \cap pool'
      /\ UNCHANGED <<graph, todo, visited, results>>
  <2>1. RInv /\ RInv'
    BY SettleInLoopKeeps, PoolInvKeeps DEF RInv, Next, Thread
  <2> QED BY <2>1 DEF RInv, SearchInv, Control, TypeOK, SettleInLoop, Settle
<1>2. batches # << >>
  <2>1. Len(batches) = 1
    BY <1>1
  <2> QED BY <2>1
<1>3. Head(batches).items \in Seq(Items) /\ Tail(batches) = << >>
  BY <1>1, <1>2, BatchType
<1>4. (batches = << >>)'
  BY <1>1, <1>3
<1>5. (SettledPool = pool)'
  BY <1>1, <1>4, PoolSettled, PTL
<1>6. SettledPool = Nearest(Query.dist, Capacity,
                      pool \cup (ToSet(Head(batches).items) \cap (Items \ Local)))
  BY <1>1, PoolOpen
<1>7. pool' = SettledPool
  BY <1>1, <1>3, <1>6, InsertedPool
<1> QED BY <1>1, <1>5, <1>7 DEF BestFirst!vars, BestFirst!searchVars

LEMMA LeaveLoopMaps == ASSUME LeaveLoop PROVE UNCHANGED BestFirst!vars
<1>1. /\ pc = "expand" /\ pc' = "drain"
      /\ UNCHANGED <<graph, todo, pool, expanded, visited, batches, results>>
  BY DEF LeaveLoop, searchVars
<1>2. SettledPool' = SettledPool
  BY <1>1 DEF SettledPool, Outstanding, Query
<1> QED BY <1>1, <1>2 DEF BestFirst!vars, BestFirst!searchVars

LEMMA OutputMaps == ASSUME RInv, Relax = 0, Output PROVE BestFirst!Output
<1>1. /\ RInv /\ RInv' /\ pc = "drain" /\ batches = << >> /\ pool \subseteq expanded
      /\ pc' # "miss" /\ UNCHANGED <<graph, pool, expanded, visited, batches>>
  <2>1. RInv /\ RInv'
    BY OutputKeeps, PoolInvKeeps DEF RInv, Next, Thread
  <2> QED BY <2>1 DEF RInv, SearchInv, PoolInv, Output, searchVars
<1>2. (batches = << >>)'
  BY <1>1
<1>3. (SettledPool = pool)'
  BY <1>1, <1>2, PoolSettled, PTL
<1>4. SettledPool = pool
  BY <1>1, PoolSettled
<1>5. BestFirst!Query = Query
  BY DEF BestFirst!Query, Query
<1>6. BestFirst!Unexpanded = {}
  BY <1>1, <1>4 DEF BestFirst!Unexpanded
<1>7. IF Cardinality(pool) < K THEN pc' = "stale" /\ UNCHANGED <<todo, results>>
      ELSE pc' = "begin" /\ todo' = todo + 1 /\ results' = NearestK
  BY <1>1 DEF Output
<1>8. BestFirst!Cardinality(SettledPool) = Cardinality(pool)
      /\ BestFirst!Nearest(BestFirst!Query.dist, K, SettledPool) = NearestK
  BY <1>4, <1>5, SameOrder DEF NearestK
<1>9. BPc = "search" /\ pc' \in {"stale", "begin"} /\ (pc' = "stale" => BPc' = "stale")
      /\ (pc' = "begin" => BPc' = "idle")
  BY <1>1, <1>7 DEF BPc
<1>10. pc' # "sync"
  BY <1>9
<1> QED BY <1>1, <1>3, <1>4, <1>6, <1>7, <1>8, <1>9, <1>10
        DEF BestFirst!Output, BestFirst!searchVars, BPc

LEMMA StutterMaps ==
  ASSUME UNCHANGED <<graph, todo, pc, pool, expanded, visited, batches, results>>
  PROVE  UNCHANGED BestFirst!vars
<1>1. SettledPool' = SettledPool
  BY DEF SettledPool, Outstanding, Query
<1> QED BY <1>1 DEF BestFirst!vars, BestFirst!searchVars

LEMMA NextMaps ==
  RInv /\ [Next]_vars => [Relax = 0 => BestFirst!Next]_(BestFirst!vars)
<1> SUFFICES ASSUME RInv, [Next]_vars, Relax = 0
             PROVE  BestFirst!Next \/ UNCHANGED BestFirst!vars
  OBVIOUS
<1>1. CASE Reset
  BY <1>1, ResetMaps DEF BestFirst!Next, BestFirst!Search
<1>2. CASE ReadEntries
  BY <1>2, ReadEntriesMaps
<1>3. CASE InsertEntries
  BY <1>3, InsertEntriesMaps DEF BestFirst!Next, BestFirst!Search
<1>4. CASE Expand
  BY <1>4, ExpandMaps DEF BestFirst!Next, BestFirst!Search
<1>5. CASE SettleInLoop
  BY <1>5, SettleMaps
<1>6. CASE LeaveLoop
  BY <1>6, LeaveLoopMaps
<1>7. CASE Drain
  BY <1>7 DEF Drain, RInv, PoolInv
<1>8. CASE Output
  BY <1>8, OutputMaps DEF BestFirst!Next, BestFirst!Search
<1>9. ASSUME NEW s \in Servers, Nic(s)
      PROVE  UNCHANGED BestFirst!vars
  BY <1>9, StutterMaps DEF Nic, searchVars
<1>10. CASE UNCHANGED vars
  BY <1>10, StutterMaps DEF vars, searchVars
<1> QED BY <1>1, <1>2, <1>3, <1>4, <1>5, <1>6, <1>7, <1>8, <1>9, <1>10 DEF Next, Thread

(* Without relaxation the distributed search takes steps of the best-first
   search of a single machine only, although remote neighbors are inserted
   later than local ones, the entry points are awaited, and the NIC writes in
   between (src/index.cpp, lines 1156-1264). *)
THEOREM RefinesBestFirst == Spec => ImplementsBestFirst
<1>1. Init => RInv
  BY InitRInv
<1>2. RInv /\ [Next]_vars => RInv'
  <2>1. SearchInv /\ [Next]_vars => SearchInv'
    BY NextKeeps
  <2> QED BY <2>1, PoolInvKeeps DEF RInv
<1>3. Spec => []RInv
  BY <1>1, <1>2, PTL DEF Spec
<1>4. RInv /\ [Next]_vars => [Relax = 0 => BestFirst!Next]_(BestFirst!vars)
  BY NextMaps
<1>5. Init => (Relax = 0 => BestFirst!Init)
  BY InitMaps
<1> QED BY <1>3, <1>4, <1>5, PTL DEF Spec, ImplementsBestFirst
=============================================================================
