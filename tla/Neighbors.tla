------------------------------ MODULE Neighbors ------------------------------
(* The order of candidate neighbors (include/neighbor.h), shared by the pool,
   the queue that implements it and the search that uses it. *)
EXTENDS Integers, FiniteSets

(* operator< of Neighbor (lines 477-480): by distance, ties broken by the
   item. *)
Less(dist, a, b) == dist[a] < dist[b] \/ (dist[a] = dist[b] /\ a < b)

(* The n nearest items of a set. *)
Nearest(dist, n, S) ==
  {a \in S : Cardinality({b \in S : Less(dist, b, a)}) < n}
=============================================================================
