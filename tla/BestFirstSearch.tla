--------------------------- MODULE BestFirstSearch ---------------------------
(***************************************************************************)
(* Best-first search with a bounded pool: Index::search_base_index and     *)
(* Index::search_base_index_on_buckets (src/index.cpp, lines 728-931), the *)
(* single-machine searches.  It is also what the distributed search        *)
(* promises when nothing is relaxed (RelaxedSearch, ImplementsBestFirst);  *)
(* that search may skip a vertex of another server when its pool is full,  *)
(* which a single machine never does: Skippable is empty there.            *)
(*                                                                         *)
(* One thread answers one query after another with the same scratch.  A    *)
(* vertex is looked at once, the pool keeps the Capacity nearest of those  *)
(* looked at, and the nearest entry not yet expanded is expanded until     *)
(* there is none.                                                          *)
(***************************************************************************)
EXTENDS Neighbors, Sequences

CONSTANTS
  Items,      \* the vertices
  Graphs,     \* the neighbor lists the index may have
  Queries,    \* the queries, in order: their distances and entry points
  Capacity,   \* the search parameter L
  K,          \* the number of results
  Skippable   \* the vertices a full pool need not look at

ASSUME BestFirstAssumption ==
  /\ Items \subseteq Nat
  /\ IsFiniteSet(Items)
  /\ \A g \in Graphs : g \in [Items -> Seq(Items)]
  /\ Queries \in Seq([dist : [Items -> Int], eps : Seq(Items)])
  /\ Capacity \in Nat
  /\ K \in 1 .. Capacity
  /\ Skippable \subseteq Items

VARIABLES
  graph,      \* the neighbor lists
  todo,       \* the number of queries finished
  pc,
  pool,       \* best_L_nodes
  expanded,   \* the expanded entries of best_L_nodes
  visited,    \* inserted_into_pool_rs
  results     \* indices: the vertices of the last answer

searchVars == <<pool, expanded, visited>>
vars == <<graph, todo, pc, searchVars, results>>

TypeOK ==
  /\ graph \in [Items -> Seq(Items)]
  /\ todo \in 0 .. Len(Queries)
  /\ pc \in {"idle", "cleared", "search", "stale"}
  /\ pc \in {"cleared", "search"} => todo < Len(Queries)
  /\ pool \in SUBSET Items
  /\ Cardinality(pool) <= Capacity
  /\ expanded \in SUBSET pool
  /\ visited \in SUBSET Items
  /\ results \in SUBSET Items

Init ==
  /\ graph \in Graphs
  /\ todo = 0
  /\ pc = "idle"
  /\ pool = {}
  /\ expanded = {}
  /\ visited = {}
  /\ results = {}

Query == Queries[todo + 1]

Entries(q) == {q.eps[i] : i \in DOMAIN q.eps}

NeighborsOf(v) == {graph[v][m] : m \in DOMAIN graph[v]}

(* Fault: the last neighbor of a list is missed. *)
NewButLast(v) == {graph[v][m] : m \in 1 .. Len(graph[v]) - 1} \ visited

(* id_scratch: the neighbors that were not looked at before. *)
New(v) == NeighborsOf(v) \ visited

PoolWith(S) == Nearest(Query.dist, Capacity, pool \cup S)

(* Fault: the search stops when the K nearest entries are expanded. *)
UnexpandedAnswers ==
  {v \in pool \ expanded : pc = "search" /\ v \in Nearest(Query.dist, K, pool)}

Unexpanded == pool \ expanded

(* Fault: the entry that is handed out is not marked. *)
NotMarked(n) == expanded

Marked(n) == expanded \cup {n}

(* scratch->clear() *)
Clear ==
  /\ pc = "idle"
  /\ todo < Len(Queries)
  /\ pool' = {}
  /\ expanded' = {}
  /\ visited' = {}
  /\ pc' = "cleared"
  /\ UNCHANGED <<graph, todo, results>>

Enter ==
  /\ pc = "cleared"
  /\ visited' = Entries(Query)
  /\ pool' = PoolWith(Entries(Query))
  /\ pc' = "search"
  /\ UNCHANGED <<graph, todo, expanded, results>>

(* One iteration of the loop: the closest entry that is not expanded. *)
Expand(n) ==
  LET new == New(n) IN
  /\ pc = "search"
  /\ \A w \in Unexpanded \ {n} : Less(Query.dist, n, w)
  /\ visited' = visited \cup new
  /\ \E skipped \in IF Cardinality(pool) < Capacity THEN {{}}
                    ELSE SUBSET (new \cap Skippable) :
       pool' = PoolWith(new \ skipped)
  /\ expanded' = Marked(n) \cap pool'
  /\ UNCHANGED <<graph, todo, pc, results>>

(* The first K entries of the pool.  A pool of fewer entries is read past its
   end; what the program does then is not followed further. *)
Output ==
  /\ pc = "search"
  /\ Unexpanded = {}
  /\ IF Cardinality(pool) < K
       THEN pc' = "stale" /\ UNCHANGED <<todo, results>>
       ELSE /\ pc' = "idle"
            /\ todo' = todo + 1
            /\ results' = Nearest(Query.dist, K, pool)
  /\ UNCHANGED <<graph, searchVars>>

Search ==
  \/ Clear
  \/ Enter
  \/ \E n \in Unexpanded : Expand(n)
  \/ Output

Finished == pc = "stale" \/ (pc = "idle" /\ todo = Len(Queries))

Next == Search \/ (Finished /\ UNCHANGED vars)

Spec == Init /\ [][Next]_vars

(* The thread is never blocked. *)
FairSpec == Spec /\ WF_vars(Search)

-----------------------------------------------------------------------------
(* Properties *)

Answered == pc = "idle" /\ todo > 0

(* The answer is a local optimum: a neighbor of a returned vertex is returned
   too, or is farther than everything returned, unless it was skipped.  The
   pool has forgotten most of what it was offered by then, and the neighbor may
   have been offered and dropped long before (src/index.cpp, lines 790-830). *)
LocallyOptimal ==
  Answered =>
    \A v \in results : \A w \in NeighborsOf(v) \ (results \cup Skippable) :
      \A r \in results : Less(Queries[todo].dist, r, w)

(* What can be reached from the entry points. *)
Reachable(q) ==
  {v \in Items :
     \A S \in SUBSET Items :
       Entries(q) \subseteq S /\ (\A a \in S : NeighborsOf(a) \subseteq S)
         => v \in S}

(* A pool that can hold all that can be reached makes the search exact: it
   returns the K nearest of these.  No vertex is expanded too
   early to matter, lost between the visited set and the pool, or left
   unexpanded at the end (lines 790-830). *)
ExactWhenPoolHoldsAll ==
  Answered /\ Cardinality(Reachable(Queries[todo])) <= Capacity =>
    results = Nearest(Queries[todo].dist, K, Reachable(Queries[todo]))

(* The result loop reads past the entries of this query only if fewer than K
   vertices can be reached at all, whatever the pool dropped or skipped on the
   way (lines 825-830). *)
StaleOnlyIfUnreachable ==
  pc = "stale" => Cardinality(Reachable(Query)) < K

(* The loop ends: an entry may leave the pool and its neighbors return, but no
   vertex is expanded twice (lines 790-824). *)
EveryQueryEnds == <>Finished
=============================================================================
