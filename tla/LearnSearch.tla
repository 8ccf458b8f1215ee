----------------------------- MODULE LearnSearch -----------------------------
(***************************************************************************)
(* The search of the learn graph that tells the scheduler which server is  *)
(* close to a query: Index::beam_search_learn_graph (src/index.cpp, lines  *)
(* 252-309), and the insertion into its sorted array, efanna2e's           *)
(* InsertIntoPool (include/neighbor.h, lines 179-217).                     *)
(*                                                                         *)
(* The array starts with one entry and grows to L.  The cursor k moves to  *)
(* the right over expanded entries and falls back to the leftmost of the   *)
(* entries an expansion inserted, which nk collects while later insertions *)
(* move the earlier ones.  One step is one iteration of the loop over the  *)
(* array or of the loop over the neighbors.                                *)
(***************************************************************************)
EXTENDS Neighbors, Sequences

CONSTANTS
  Items,       \* the vertices of the learn graph
  Graphs,      \* the neighbor lists the learn graph may have
  Dists,       \* the distances of the queries, in order
  EntryPoint,  \* _learn_graph_EP
  L

ASSUME LearnAssumption ==
  /\ Items \subseteq Nat
  /\ EntryPoint \in Items
  /\ \A g \in Graphs : g \in [Items -> Seq(Items)]
  /\ Dists \in Seq([Items -> Int])
  /\ L \in Nat \ {0}

VARIABLES
  graph,    \* _learn_graph
  todo,     \* the number of queries finished
  pc,
  retset,   \* the array, of L + 1 entries
  len,      \* the L of the code: the entries in use
  flags,    \* the vertices marked in flags
  k,        \* the cursor
  nk,       \* the leftmost entry inserted by this expansion
  n,        \* the vertex that is expanded
  m,        \* its next neighbor
  result    \* the vertex returned last

arrayVars == <<retset, len, flags>>
vars == <<graph, todo, pc, arrayVars, k, nk, n, m, result>>

Index == 0 .. L
Entry == [id : Items, flag : BOOLEAN]
Unset == [id |-> EntryPoint, flag |-> FALSE]

TypeOK ==
  /\ graph \in [Items -> Seq(Items)]
  /\ todo \in 0 .. Len(Dists)
  /\ pc \in {"idle", "cleared", "walk", "visit"}
  /\ retset \in [Index -> Entry]
  /\ len \in 0 .. L
  /\ flags \in SUBSET Items
  /\ k \in 0 .. len
  /\ nk \in 0 .. L
  /\ n \in Items
  /\ m \in Nat
  /\ result \in Items

Init ==
  /\ graph \in Graphs
  /\ todo = 0
  /\ pc = "idle"
  /\ retset = [i \in Index |-> Unset]
  /\ len = 0
  /\ flags = {}
  /\ k = 0
  /\ nk = 0
  /\ n = EntryPoint
  /\ m = 1
  /\ result = EntryPoint

Dist == Dists[todo + 1]

(* The distance in an entry of the array. *)
At(i) == Dist[retset[i].id]

-----------------------------------------------------------------------------
(* InsertIntoPool(retset, len, v) *)

(* The bounds left and right, halved until they are next to each other: left is
   not farther than v, right is not nearer. *)
Halve(v) ==
  LET halve[b \in Index \X Index] ==
        LET mid == (b[1] + b[2]) \div 2
        IN  IF b[1] >= b[2] - 1 THEN b
            ELSE IF At(mid) > Dist[v] THEN halve[<<b[1], mid>>]
            ELSE halve[<<mid, b[2]>>]
  IN  halve[<<0, len - 1>>]

(* The entries whose id is compared with v: right, and left and those before
   it, down to the first that is nearer. *)
Compared(v) ==
  LET b == Halve(v)
  IN  {b[2]} \cup {i \in 0 .. b[1] : \A j \in i + 1 .. b[1] : At(j) >= Dist[v]}

(* Fault: the entry goes to the left end of the interval. *)
LeftPlace(v) ==
  IF At(0) > Dist[v] THEN 0
  ELSE IF At(len - 1) < Dist[v] THEN len
  ELSE IF \E i \in Compared(v) : retset[i].id = v THEN len + 1
  ELSE Halve(v)[1]

(* Where v is inserted; behind the end if it is there already. *)
Place(v) ==
  IF At(0) > Dist[v] THEN 0
  ELSE IF At(len - 1) < Dist[v] THEN len
  ELSE IF \E i \in Compared(v) : retset[i].id = v THEN len + 1
  ELSE Halve(v)[2]

InsertAt(r, v) ==
  [i \in Index |->
     IF i < r \/ i > len THEN retset[i]
     ELSE IF i = r THEN [id |-> v, flag |-> TRUE]
     ELSE retset[i - 1]]

-----------------------------------------------------------------------------
(* beam_search_learn_graph *)

Grown == IF len < L THEN len + 1 ELSE len

(* Fault: the test before "modified this line": a vertex behind the last entry
   is refused although the array still grows. *)
RefusedBehindLast(v) == Dist[v] >= At(len - 1)

Refused(v) == len = L /\ Dist[v] >= At(len - 1)

(* Fault: an insertion at the cursor itself does not hold it back. *)
CursorPast(leftmost) == IF leftmost < k THEN leftmost ELSE k + 1

Cursor(leftmost) == IF leftmost <= k THEN leftmost ELSE k + 1

(* Fault: nothing inserted counts as inserted at the cursor. *)
NkAtCursor == k

InitialNk == len

(* The array and the marks of a query are new ... *)
Clear ==
  /\ pc = "idle"
  /\ todo < Len(Dists)
  /\ retset' = [i \in Index |-> Unset]
  /\ len' = 0
  /\ flags' = {}
  /\ k' = 0
  /\ pc' = "cleared"
  /\ UNCHANGED <<graph, todo, nk, n, m, result>>

(* ... and hold the entry point. *)
Enter ==
  /\ pc = "cleared"
  /\ retset' = [retset EXCEPT ![0] = [id |-> EntryPoint, flag |-> TRUE]]
  /\ len' = 1
  /\ flags' = {EntryPoint}
  /\ pc' = "walk"
  /\ UNCHANGED <<graph, todo, k, nk, n, m, result>>

(* An entry that was expanded is passed. *)
Pass ==
  /\ pc = "walk"
  /\ k < len
  /\ ~ retset[k].flag
  /\ k' = Cursor(InitialNk)
  /\ UNCHANGED <<graph, todo, pc, arrayVars, nk, n, m, result>>

Expand ==
  /\ pc = "walk"
  /\ k < len
  /\ retset[k].flag
  /\ retset' = [retset EXCEPT ![k].flag = FALSE]
  /\ n' = retset[k].id
  /\ m' = 1
  /\ nk' = InitialNk
  /\ pc' = "visit"
  /\ UNCHANGED <<graph, todo, len, flags, k, result>>

(* One neighbor: seen before, refused, or inserted. *)
Visit ==
  LET v == graph[n][m] IN
  /\ pc = "visit"
  /\ m <= Len(graph[n])
  /\ m' = m + 1
  /\ flags' = flags \cup {v}
  /\ IF v \in flags \/ Refused(v) THEN UNCHANGED <<retset, len, nk>>
     ELSE /\ retset' = InsertAt(Place(v), v)
          /\ len' = Grown
          /\ nk' = IF Place(v) < nk THEN Place(v) ELSE nk
  /\ UNCHANGED <<graph, todo, pc, k, n, result>>

EndVisit ==
  /\ pc = "visit"
  /\ m > Len(graph[n])
  /\ k' = Cursor(nk)
  /\ pc' = "walk"
  /\ UNCHANGED <<graph, todo, arrayVars, nk, n, m, result>>

Return ==
  /\ pc = "walk"
  /\ k >= len
  /\ result' = retset[0].id
  /\ todo' = todo + 1
  /\ pc' = "idle"
  /\ UNCHANGED <<graph, arrayVars, k, nk, n, m>>

Step == Clear \/ Enter \/ Pass \/ Expand \/ Visit \/ EndVisit \/ Return

Finished == pc = "idle" /\ todo = Len(Dists)

Next == Step \/ (Finished /\ UNCHANGED vars)

Spec == Init /\ [][Next]_vars

(* The thread is never blocked. *)
FairSpec == Spec /\ WF_vars(Step)

-----------------------------------------------------------------------------
(* Properties *)

InUse == 0 .. len - 1

Searching == pc \in {"walk", "visit"}

(* The array is sorted and holds no vertex twice, although every insertion
   finds its place by halving an interval in which distances may be equal
   (neighbor.h, lines 194-217). *)
SortedWithoutDuplicates ==
  /\ TypeOK
  /\ Searching =>
       \A i, j \in InUse : i < j => At(i) <= At(j) /\ retset[i].id # retset[j].id

(* What was looked at and is not in the array is not nearer than anything in
   it, and the array has its full length: neither the refusal of far vertices
   nor the growing array loses one (index.cpp, lines 291-297). *)
ForgetsOnlyFarther ==
  Searching =>
    \A v \in flags \ {retset[i].id : i \in InUse} :
      len = L /\ \A i \in InUse : At(i) <= Dist[v]

-----------------------------------------------------------------------------
(* The refinement, for distances without ties: equal ones are ordered by the
   time of their insertion here and by their id in BestFirstSearch. *)

(* The neighbors the expansion under way has not come to. *)
Coming ==
  IF pc = "visit" THEN {graph[n][i] : i \in m .. Len(graph[n])} \ flags ELSE {}

PoolWithComing ==
  LET ids == {retset[i].id : i \in InUse} IN
  IF todo < Len(Dists) THEN Nearest(Dist, L, ids \cup Coming) ELSE ids

BestFirst == INSTANCE BestFirstSearch WITH
  Queries <- [i \in DOMAIN Dists |-> [dist |-> Dists[i], eps |-> <<EntryPoint>>]],
  Capacity <- L,
  K <- 1,
  Skippable <- {},
  pc <- IF pc \in {"walk", "visit"} THEN "search" ELSE pc,
  pool <- PoolWithComing,
  expanded <- {retset[i].id : i \in {j \in InUse : ~ retset[j].flag}} \cap PoolWithComing,
  visited <- flags \cup Coming,
  results <- IF todo = 0 THEN {} ELSE {result}

TieFree ==
  todo < Len(Dists) => \A v, w \in Items : v # w => Dist[v] # Dist[w]

(* The search of the learn graph is a best-first search for one vertex: it
   expands the same vertices in the same order, keeps the L nearest and returns
   the nearest of them, however often the cursor falls back (index.cpp, lines
   275-308). *)
ImplementsBestFirst ==
  BestFirst!Init /\ [][TieFree => BestFirst!Next]_BestFirst!vars

(* Every query is answered: the cursor falls back finitely often, ties or not
   (index.cpp, lines 275-308). *)
AllAnswered == <>Finished
=============================================================================
