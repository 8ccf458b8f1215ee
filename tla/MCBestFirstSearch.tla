-------------------------- MODULE MCBestFirstSearch --------------------------
(* Instances of BestFirstSearch for TLC: six vertices, every graph in which a
   vertex has one of four lists (a chord, two neighbors, none at all, three
   neighbors), two queries one after the other. *)
EXTENDS BestFirstSearch

MCItems == 0 .. 5

NeighborList(v, n) ==
  LET a == (v + 1) % 6
      b == (v + 2) % 6
      c == (v + 3) % 6
  IN  << <<c>>, <<b, a>>, << >>, <<c, b, a>> >>[n]

MCGraphs == {[v \in MCItems |-> NeighborList(v, c[v])] : c \in [MCItems -> 1 .. 4]}

DistA == [v \in MCItems |-> <<4, 2, 3, 0, 2, 1>>[v + 1]]
DistB == [v \in MCItems |-> <<0, 1, 1, 2, 3, 3>>[v + 1]]

MCQueries == <<[dist |-> DistA, eps |-> <<0>>], [dist |-> DistB, eps |-> <<4, 3>>]>>
=============================================================================
