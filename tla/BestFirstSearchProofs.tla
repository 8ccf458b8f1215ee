------------------------ MODULE BestFirstSearchProofs ------------------------
(* Proofs about best-first search, for every graph, every query, every size of
   the pool and every set of vertices that may be skipped. *)
EXTENDS BestFirstSearch, NearestProofs

(* What the pool has forgotten: it is full, and all it holds is nearer. *)
Forgotten(w) ==
  /\ Cardinality(pool) >= Capacity
  /\ \A p \in pool : Less(Query.dist, p, w)

ClearedInv == pc = "cleared" => pool = {} /\ expanded = {}

SearchInv ==
  pc = "search" =>
    /\ pool \subseteq visited
    /\ visited \subseteq Reachable(Query)
    /\ Entries(Query) \subseteq visited
    /\ \A v \in expanded : NeighborsOf(v) \subseteq visited
    /\ \A w \in visited \ pool : Cardinality(pool) >= Capacity
    /\ \A w \in visited \ (pool \cup Skippable) : Forgotten(w)

IInv ==
  /\ TypeOK
  /\ ClearedInv
  /\ SearchInv
  /\ LocallyOptimal
  /\ ExactWhenPoolHoldsAll
  /\ StaleOnlyIfUnreachable

-----------------------------------------------------------------------------
LEMMA QueryType ==
  ASSUME NEW i \in 1 .. Len(Queries)
  PROVE  /\ Queries[i].dist \in [Items -> Int]
         /\ Queries[i].eps \in Seq(Items)
         /\ Entries(Queries[i]) \in SUBSET Items
<1> DEFINE Q == [dist : [Items -> Int], eps : Seq(Items)]
<1>1. Queries[i] \in Q
  <2>1. Queries \in Seq(Q)
    BY BestFirstAssumption
  <2> HIDE DEF Q
  <2> QED BY <2>1
<1>2. Queries[i].eps \in Seq(Items) /\ Queries[i].dist \in [Items -> Int]
  BY <1>1
<1>3. \A j \in DOMAIN Queries[i].eps : Queries[i].eps[j] \in Items
  BY <1>2
<1> QED BY <1>2, <1>3 DEF Entries

LEMMA NeighborsType ==
  ASSUME TypeOK, NEW v \in Items
  PROVE  NeighborsOf(v) \in SUBSET Items
BY DEF TypeOK, NeighborsOf

LEMMA FiniteItems ==
  ASSUME NEW S \in SUBSET Items
  PROVE  /\ IsFiniteSet(S)
         /\ Cardinality(S) \in Nat
         /\ Cardinality(S) <= Cardinality(Items)
         /\ Cardinality(S) = Cardinality(Items) => S = Items
BY BestFirstAssumption, FS_Subset, FS_CardinalityType

(* What the pool becomes: nothing it forgets was nearer than what it keeps. *)
LEMMA PoolStep ==
  ASSUME NEW dist \in [Items -> Int], NEW P \in SUBSET Items, NEW N \in SUBSET Items
  PROVE  LET next == Nearest(dist, Capacity, P \cup N) IN
         /\ next \in SUBSET (P \cup N)
         /\ Cardinality(next) <= Capacity
         /\ \A w \in (P \cup N) \ next :
              Cardinality(next) >= Capacity /\ \A p \in next : Less(dist, p, w)
<1> DEFINE S == P \cup N
           next == Nearest(dist, Capacity, S)
<1>1. S \in SUBSET Items /\ IsFiniteSet(S)
  BY FiniteItems
<1>2. Items \in SUBSET Nat /\ Capacity \in Nat
  BY BestFirstAssumption
<1>3. next \in SUBSET S
  BY DEF Nearest
<1> HIDE DEF S
<1>4. Cardinality(next) \in 0 .. Capacity
  BY <1>1, <1>2, NearestAtMost
<1>5. ASSUME NEW w \in S \ next
      PROVE  Cardinality(next) >= Capacity /\ \A p \in next : Less(dist, p, w)
  BY <1>1, <1>2, NearestFull, NearestSeparates
<1> HIDE DEF next
<1>6. Cardinality(next) <= Capacity
  BY <1>2, <1>4
<1> QED BY <1>3, <1>5, <1>6 DEF S, next

(* What was forgotten stays forgotten. *)
LEMMA ForgottenForGood ==
  ASSUME NEW dist \in [Items -> Int], NEW P \in SUBSET Items, NEW N \in SUBSET Items,
         Cardinality(P) >= Capacity
  PROVE  LET next == Nearest(dist, Capacity, P \cup N) IN
         /\ Cardinality(next) >= Capacity
         /\ \A w \in Items \ (P \cup N) :
              (\A p \in P : Less(dist, p, w)) => \A p \in next : Less(dist, p, w)
<1> DEFINE S == P \cup N
           next == Nearest(dist, Capacity, S)
<1>1. S \in SUBSET Items /\ IsFiniteSet(S) /\ IsFiniteSet(P)
  BY FiniteItems
<1>2. Items \in SUBSET Nat /\ Capacity \in Nat
  BY BestFirstAssumption
<1>3. next \in SUBSET S /\ next = {a \in S : Rank(dist, S, a) < Capacity}
  BY NearestByRank DEF Nearest
<1>4. Cardinality(next) >= Capacity
  <2>1. CASE S \ next # {}
    BY <1>1, <1>2, <2>1, NearestFull
  <2>2. CASE S \ next = {}
    <3>1. P \in SUBSET next /\ IsFiniteSet(next)
      BY <1>1, <1>3, <2>2
    <3> HIDE DEF next
    <3>2. Cardinality(P) <= Cardinality(next) /\ Cardinality(next) \in Nat
      BY <3>1, FS_Subset, FS_CardinalityType
    <3>3. Cardinality(P) \in Nat
      BY <1>1, FS_CardinalityType
    <3> QED BY <1>2, <3>2, <3>3
  <2> QED BY <2>1, <2>2
<1>5. ASSUME NEW w \in Items \ S, \A p \in P : Less(dist, p, w),
             NEW q \in next, ~ Less(dist, q, w)
      PROVE  FALSE
  <2>1. q \in S /\ q \in Items /\ q # w /\ Rank(dist, S, q) < Capacity
    BY <1>1, <1>3, <1>5
  <2>2. Less(dist, w, q)
    BY <1>2, <1>5, <2>1, LessIsOrder
  <2> DEFINE B == {b \in S : Less(dist, b, q)}
  <2>3. P \in SUBSET B
    BY <1>1, <1>2, <1>5, <2>1, <2>2, LessIsOrder
  <2>4. IsFiniteSet(B) /\ Cardinality(B) < Capacity
    BY <1>1, <2>1, RankType DEF Rank
  <2> HIDE DEF B
  <2>5. Cardinality(P) <= Cardinality(B) /\ Cardinality(P) \in Nat /\ Cardinality(B) \in Nat
    BY <2>3, <2>4, FS_Subset, FS_CardinalityType
  <2> QED BY <1>2, <2>4, <2>5
<1> QED BY <1>4, <1>5

-----------------------------------------------------------------------------
(* The invariant holds at first and every action preserves it *)

LEMMA InitIInv == Init => IInv
<1> SUFFICES ASSUME Init
             PROVE  IInv
  OBVIOUS
<1>1. TypeOK
  <2>1. Len(Queries) \in Nat /\ Capacity \in Nat /\ graph \in [Items -> Seq(Items)]
    BY BestFirstAssumption DEF Init
  <2> QED BY <2>1, FS_EmptySet DEF Init, TypeOK
<1> QED BY <1>1
    DEF Init, IInv, ClearedInv, SearchInv, LocallyOptimal, ExactWhenPoolHoldsAll,
        StaleOnlyIfUnreachable, Answered

LEMMA StutterIInv == IInv /\ UNCHANGED vars => IInv'
BY DEF IInv, vars, searchVars, TypeOK, ClearedInv, SearchInv, LocallyOptimal, Answered,
       ExactWhenPoolHoldsAll, StaleOnlyIfUnreachable, Forgotten, Reachable,
       Query, Entries, NeighborsOf

LEMMA ClearIInv ==
  ASSUME IInv, Clear
  PROVE  IInv'
<1>1. TypeOK'
  BY BestFirstAssumption, FS_EmptySet DEF IInv, TypeOK, Clear
<1> QED BY <1>1
    DEF Clear, IInv, ClearedInv, SearchInv, LocallyOptimal, ExactWhenPoolHoldsAll,
        StaleOnlyIfUnreachable, Answered

(* The query that is being answered. *)
LEMMA CurrentQuery ==
  ASSUME TypeOK, pc \in {"cleared", "search"}
  PROVE  /\ todo + 1 \in 1 .. Len(Queries)
         /\ Query.dist \in [Items -> Int]
         /\ Entries(Query) \in SUBSET Items
<1>1. Len(Queries) \in Nat
  BY BestFirstAssumption
<1>2. todo + 1 \in 1 .. Len(Queries)
  BY <1>1 DEF TypeOK
<1> QED BY <1>2, QueryType DEF Query

(* The entry points can be reached, and so can the neighbors of what can. *)
LEMMA ReachableClosed ==
  ASSUME NEW q, Entries(q) \in SUBSET Items
  PROVE  /\ Entries(q) \subseteq Reachable(q)
         /\ \A v \in Reachable(q) : NeighborsOf(v) \cap Items \subseteq Reachable(q)
BY DEF Reachable

(* A closed set of vertices with the entry points has all that can be reached. *)
LEMMA ReachableLeast ==
  ASSUME NEW q, NEW S \in SUBSET Items, Entries(q) \subseteq S,
         \A a \in S : NeighborsOf(a) \subseteq S
  PROVE  Reachable(q) \subseteq S
BY DEF Reachable

LEMMA EnterIInv ==
  ASSUME IInv, Enter
  PROVE  IInv'
<1> DEFINE dist == Query.dist
           eps == Entries(Query)
           next == Nearest(dist, Capacity, {} \cup eps)
<1>1. dist \in [Items -> Int] /\ eps \in SUBSET Items /\ {} \in SUBSET Items
  BY CurrentQuery DEF IInv, Enter
<1>2. /\ pool' = next /\ visited' = eps /\ expanded' = {}
      /\ pc = "cleared" /\ pc' = "search"
      /\ todo' = todo /\ graph' = graph /\ results' = results
  BY DEF IInv, ClearedInv, Enter, PoolWith
<1>3. Query' = Query /\ \A q : Entries(q)' = Entries(q) /\ Reachable(q)' = Reachable(q)
  BY <1>2 DEF Query, Entries, Reachable, NeighborsOf
<1>4. /\ next \in SUBSET eps
      /\ Cardinality(next) <= Capacity
      /\ \A w \in eps \ next :
           Cardinality(next) >= Capacity /\ \A p \in next : Less(dist, p, w)
  <2> HIDE DEF dist, eps
  <2> QED BY <1>1, PoolStep
<1>5. TypeOK'
  <2> HIDE DEF dist, next, eps
  <2>1. pc \in {"cleared", "search"} /\ todo < Len(Queries)
    BY <1>2 DEF IInv, TypeOK
  <2> QED BY <1>1, <1>2, <1>4, <2>1 DEF IInv, TypeOK
<1>6. SearchInv'
  <2>1. eps \subseteq Reachable(Query)
    BY <1>1, ReachableClosed
  <2>2. Reachable(Query)' = Reachable(Query) /\ Entries(Query)' = Entries(Query)
    BY <1>2, <1>3 DEF Query, Entries, Reachable, NeighborsOf
  <2> HIDE DEF next
  <2> QED BY <1>2, <1>3, <1>4, <2>1, <2>2 DEF SearchInv, Forgotten
<1> QED BY <1>2, <1>5, <1>6
    DEF IInv, ClearedInv, LocallyOptimal, ExactWhenPoolHoldsAll,
        StaleOnlyIfUnreachable, Answered

LEMMA ExpandIInv ==
  ASSUME IInv, NEW n \in Unexpanded, Expand(n)
  PROVE  IInv'
<1> DEFINE dist == Query.dist
           new == NeighborsOf(n) \ visited
<1>1. PICK skipped \in IF Cardinality(pool) < Capacity THEN {{}}
                       ELSE SUBSET (new \cap Skippable) :
        pool' = Nearest(dist, Capacity, pool \cup (new \ skipped))
  BY DEF Expand, PoolWith, New
<1> DEFINE offered == new \ skipped
           next == Nearest(dist, Capacity, pool \cup offered)
<1>2. /\ pc = "search" /\ pc' = "search"
      /\ pool' = next /\ visited' = visited \cup new
      /\ expanded' = (expanded \cup {n}) \cap next
      /\ todo' = todo /\ graph' = graph /\ results' = results
  BY <1>1 DEF Expand, Marked, New
<1>3. /\ dist \in [Items -> Int]
      /\ pool \in SUBSET Items /\ visited \in SUBSET Items /\ n \in pool
      /\ NeighborsOf(n) \in SUBSET Items /\ Entries(Query) \in SUBSET Items
      /\ Cardinality(pool) \in Nat /\ Capacity \in Nat
  BY <1>2, BestFirstAssumption, FiniteItems, CurrentQuery, NeighborsType
  DEF IInv, TypeOK, Unexpanded
<1>4. /\ skipped \subseteq new \cap Skippable
      /\ skipped # {} => Cardinality(pool) >= Capacity
  BY <1>1, <1>3
<1>5. offered \in SUBSET Items /\ offered \subseteq new /\ new \subseteq offered \cup skipped
  BY <1>3
<1>6. SearchInv
  BY DEF IInv
<1>7. /\ Query' = Query
      /\ Reachable(Query)' = Reachable(Query)
      /\ Entries(Query)' = Entries(Query)
      /\ \A v : NeighborsOf(v)' = NeighborsOf(v)
  BY <1>2 DEF Query, Entries, Reachable, NeighborsOf
<1> HIDE DEF dist, offered, new
<1>8. /\ next \in SUBSET (pool \cup offered)
      /\ Cardinality(next) <= Capacity
      /\ \A w \in (pool \cup offered) \ next :
           Cardinality(next) >= Capacity /\ \A p \in next : Less(dist, p, w)
  BY <1>3, <1>5, PoolStep
<1>9. Cardinality(pool) >= Capacity =>
        /\ Cardinality(next) >= Capacity
        /\ \A w \in Items \ (pool \cup offered) :
             (\A p \in pool : Less(dist, p, w)) => \A p \in next : Less(dist, p, w)
  BY <1>3, <1>5, ForgottenForGood
<1>10. new \subseteq Reachable(Query)
  BY <1>2, <1>3, <1>6, ReachableClosed DEF SearchInv, new
<1>11. \A v \in expanded' : NeighborsOf(v) \subseteq visited'
  BY <1>2, <1>6 DEF SearchInv, new
<1> HIDE DEF next
<1>12. TypeOK'
  BY <1>2, <1>3, <1>5, <1>8 DEF IInv, TypeOK, new
<1>13. \A w \in visited' \ pool' : Cardinality(next) >= Capacity
  <2>1. ASSUME NEW w \in visited' \ pool'
        PROVE  Cardinality(next) >= Capacity
    <3>1. CASE w \in visited \ pool
      BY <1>2, <1>6, <1>9, <3>1 DEF SearchInv
    <3>2. CASE w \in skipped
      BY <1>4, <1>9, <3>2
    <3>3. CASE w \in pool \cup offered
      BY <1>2, <1>8, <3>3
    <3> QED BY <1>2, <1>5, <2>1, <3>1, <3>2, <3>3
  <2> QED BY <2>1
<1>14. \A w \in visited' \ (pool' \cup Skippable) : \A p \in next : Less(dist, p, w)
  <2>1. ASSUME NEW w \in visited' \ (pool' \cup Skippable)
        PROVE  \A p \in next : Less(dist, p, w)
    <3>1. CASE w \in pool \cup offered
      BY <1>2, <1>8, <2>1, <3>1
    <3>2. CASE w \in visited \ (pool \cup offered)
      <4>1. Forgotten(w)
        BY <1>2, <1>6, <2>1, <3>2 DEF SearchInv
      <4> QED BY <1>3, <1>9, <3>2, <4>1 DEF Forgotten, dist
    <3> QED BY <1>2, <1>4, <1>5, <2>1, <3>1, <3>2
  <2> QED BY <2>1
<1>15. SearchInv'
  <2>1. pool' \subseteq visited' /\ visited' \subseteq Reachable(Query)
        /\ Entries(Query) \subseteq visited'
    BY <1>2, <1>5, <1>6, <1>8, <1>10 DEF SearchInv
  <2>2. dist = Query'.dist
    BY <1>7 DEF dist
  <2> QED BY <1>2, <1>7, <1>11, <1>13, <1>14, <2>1, <2>2 DEF SearchInv, Forgotten
<1> QED BY <1>2, <1>12, <1>15
    DEF IInv, ClearedInv, LocallyOptimal, ExactWhenPoolHoldsAll,
        StaleOnlyIfUnreachable, Answered

(* At the end everything in the pool is expanded.  If the pool never was full,
   it holds all that was visited, which then is closed. *)
LEMMA AtTheEnd ==
  ASSUME IInv, Output
  PROVE  /\ expanded = pool
         /\ (visited = pool) => Reachable(Query) = pool
<1>1. expanded = pool /\ pc = "search"
  BY DEF IInv, TypeOK, Output, Unexpanded
<1>2. ASSUME visited = pool
      PROVE  Reachable(Query) = pool
  <2>1. pool \in SUBSET Items
    BY DEF IInv, TypeOK
  <2>2. Entries(Query) \subseteq pool /\ pool \subseteq Reachable(Query)
    BY <1>1, <1>2 DEF IInv, SearchInv
  <2>3. \A a \in pool : NeighborsOf(a) \subseteq pool
    BY <1>1, <1>2 DEF IInv, SearchInv
  <2> QED BY <2>1, <2>2, <2>3, ReachableLeast
<1> QED BY <1>1, <1>2

LEMMA OutputIInv ==
  ASSUME IInv, Output
  PROVE  IInv'
<1> DEFINE dist == Query.dist
           best == Nearest(dist, K, pool)
<1>1. /\ dist \in [Items -> Int] /\ Entries(Query) \in SUBSET Items
      /\ todo + 1 \in 1 .. Len(Queries) /\ Len(Queries) \in Nat
      /\ todo \in Nat /\ pc = "search"
  BY BestFirstAssumption, CurrentQuery DEF IInv, TypeOK, Output
<1>2. /\ Items \in SUBSET Nat /\ K \in Nat /\ Capacity \in Nat /\ K <= Capacity
      /\ Cardinality(Items) \in Nat
  BY BestFirstAssumption, FiniteItems
<1>3. /\ pool \in SUBSET Items /\ IsFiniteSet(pool)
      /\ Cardinality(pool) \in Nat /\ Cardinality(pool) <= Cardinality(Items)
      /\ Cardinality(pool) = Cardinality(Items) => pool = Items
  BY FiniteItems DEF IInv, TypeOK
<1>4. /\ UNCHANGED <<graph, pool, expanded, visited>>
      /\ \A v : NeighborsOf(v)' = NeighborsOf(v)
      /\ \A q : Reachable(q)' = Reachable(q)
  BY DEF Output, searchVars, NeighborsOf, Reachable, Entries
<1>5. \A w \in visited \ pool : Cardinality(pool) >= Capacity
  BY <1>1 DEF IInv, SearchInv
<1>6. pool \subseteq visited /\ visited \in SUBSET Items /\ expanded = pool
  BY <1>1, AtTheEnd DEF IInv, SearchInv, TypeOK
<1>7. CASE Cardinality(pool) < K
  <2>1. pc' = "stale" /\ todo' = todo /\ results' = results
    BY <1>7 DEF Output
  <2>2. visited = pool
    <3>1. ~ (Cardinality(pool) >= Capacity)
      BY <1>2, <1>3, <1>7
    <3> QED BY <1>5, <1>6, <3>1
  <2>3. Cardinality(Reachable(Query)) < K
    BY <1>7, <2>2, AtTheEnd
  <2>4. Query' = Query /\ Reachable(Query)' = Reachable(Query)
    BY <1>4, <2>1 DEF Query, Reachable, Entries, NeighborsOf
  <2>5. StaleOnlyIfUnreachable'
    BY <2>3, <2>4 DEF StaleOnlyIfUnreachable
  <2>6. TypeOK'
    BY <1>1, <1>4, <2>1 DEF IInv, TypeOK
  <2> QED BY <2>1, <2>5, <2>6
      DEF IInv, ClearedInv, SearchInv, LocallyOptimal, ExactWhenPoolHoldsAll, Answered
<1>8. CASE ~ (Cardinality(pool) < K)
  <2>1. pc' = "idle" /\ todo' = todo + 1 /\ results' = best
    BY <1>8 DEF Output
  <2>2. Queries[todo'] = Query
    BY <2>1 DEF Query
  <2>3. best \in SUBSET pool
    BY DEF Nearest
  <2>4. TypeOK'
    <3> HIDE DEF best
    <3> QED BY <1>1, <1>3, <1>4, <2>1, <2>3 DEF IInv, TypeOK
  <2>5. ASSUME NEW v \in best, NEW w \in NeighborsOf(v) \ (best \cup Skippable),
               NEW r \in best
        PROVE  Less(dist, r, w)
    <3>1. w \in visited
      BY <1>1, <1>6, <2>3 DEF IInv, SearchInv
    <3>2. CASE w \in pool
      BY <1>1, <1>2, <1>3, <2>5, <3>2, NearestSeparates
    <3>3. CASE w \notin pool
      BY <1>1, <2>3, <2>5, <3>1, <3>3 DEF IInv, SearchInv, Forgotten
    <3> QED BY <3>2, <3>3
  <2>6. LocallyOptimal'
    <3> HIDE DEF best, dist
    <3>1. Queries[todo'].dist = dist
      BY <2>2 DEF dist
    <3> QED BY <1>4, <2>1, <2>5, <3>1 DEF LocallyOptimal
  <2>7. ASSUME Cardinality(Reachable(Query)) <= Capacity
        PROVE  Reachable(Query) = pool
    <3>1. visited = pool
      <4> DEFINE reach == Reachable(Query)
      <4>1. reach \in SUBSET Items /\ visited \subseteq reach
        BY <1>1 DEF IInv, SearchInv, Reachable
      <4>2. IsFiniteSet(reach) /\ Cardinality(reach) \in Nat /\ pool \in SUBSET reach
        BY <1>6, <4>1, FiniteItems
      <4> HIDE DEF reach
      <4>3. /\ Cardinality(pool) <= Cardinality(reach)
            /\ Cardinality(pool) = Cardinality(reach) => pool = reach
        BY <4>2, FS_Subset
      <4>4. Cardinality(pool) >= Capacity => pool = reach
        BY <1>2, <1>3, <2>7, <4>2, <4>3 DEF reach
      <4> QED BY <1>5, <1>6, <4>1, <4>4
    <3> QED BY <3>1, AtTheEnd
  <2>8. ExactWhenPoolHoldsAll'
    <3>1. Reachable(Queries[todo])' = Reachable(Query)
      BY <1>4, <2>2
    <3> QED BY <2>1, <2>2, <2>7, <3>1 DEF ExactWhenPoolHoldsAll
  <2> QED BY <2>1, <2>4, <2>6, <2>8
      DEF IInv, ClearedInv, SearchInv, StaleOnlyIfUnreachable
<1> QED BY <1>7, <1>8

(* The invariant holds in every state of every behaviour. *)
THEOREM Invariance == Spec => []IInv
<1>1. IInv /\ [Next]_vars => IInv'
  <2> SUFFICES ASSUME IInv, [Next]_vars
               PROVE  IInv'
    OBVIOUS
  <2> QED BY ClearIInv, EnterIInv, ExpandIInv, OutputIInv, StutterIInv
      DEF Next, Search
<1> QED BY <1>1, InitIInv, PTL DEF Spec

(* The variables have their types; the pool never exceeds its capacity. *)
THEOREM TypeCorrect == Spec => []TypeOK
<1>1. IInv => TypeOK
  BY DEF IInv
<1> QED BY <1>1, Invariance, PTL

(* No neighbor of a returned vertex, unless skipped, is nearer than a returned
   one without being returned: search_base_index returns a local optimum. *)
THEOREM AlwaysLocallyOptimal == Spec => []LocallyOptimal
<1>1. IInv => LocallyOptimal
  BY DEF IInv
<1> QED BY <1>1, Invariance, PTL

(* A pool with room for every vertex makes the search exact. *)
THEOREM AlwaysExactWhenPoolHoldsAll == Spec => []ExactWhenPoolHoldsAll
<1>1. IInv => ExactWhenPoolHoldsAll
  BY DEF IInv
<1> QED BY <1>1, Invariance, PTL

(* The result loop of search_base_index reads past its entries only where fewer
   than K vertices can be reached. *)
THEOREM AlwaysStaleOnlyIfUnreachable == Spec => []StaleOnlyIfUnreachable
<1>1. IInv => StaleOnlyIfUnreachable
  BY DEF IInv
<1> QED BY <1>1, Invariance, PTL
=============================================================================
