--------------------------- MODULE MCRelaxedSearch ---------------------------
(* Instances of RelaxedSearch for TLC: six vertices on three servers, every
   graph in which a vertex has one of four lists (a chord, two neighbors, none
   at all, three neighbors), and two queries one after the other.  An entry
   point of the first is named twice, so that it has fewer than K distinct ones:
   its result loop can be left with fewer than K entries. *)
EXTENDS RelaxedSearch

MCItems == 0 .. 5
MCServers == 0 .. 2
MCHome == [v \in MCItems |-> <<0, 1, 2, 1, 2, 0>>[v + 1]]

NeighborList(v, n) ==
  LET a == (v + 1) % 6
      b == (v + 2) % 6
      c == (v + 3) % 6
  IN  << <<c>>, <<b, c>>, << >>, <<a, b, c>> >>[n]

GraphsOf(choices) == {[v \in MCItems |-> NeighborList(v, c[v])] : c \in choices}

(* Of one vertex, two choices. *)
MCGraphs == GraphsOf({c \in [MCItems -> 1 .. 4] : c[4] \in {1, 4}})

DistA == [v \in MCItems |-> <<4, 2, 3, 0, 2, 1>>[v + 1]]
DistB == [v \in MCItems |-> <<0, 1, 1, 2, 3, 3>>[v + 1]]

TwoQueries == <<[dist |-> DistA, eps |-> <<0, 1, 1>>],
                [dist |-> DistB, eps |-> <<3, 0, 4>>]>>
=============================================================================
