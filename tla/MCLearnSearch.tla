---------------------------- MODULE MCLearnSearch ----------------------------
(* Instances of LearnSearch for TLC: six vertices, every graph in which a
   vertex has one of four lists, and two queries one after the other, with
   ties or without. *)
EXTENDS LearnSearch

MCItems == 0 .. 5

NeighborList(v, i) ==
  LET a == (v + 1) % 6
      b == (v + 2) % 6
      c == (v + 3) % 6
      d == (v + 5) % 6
  IN  << <<a>>, <<b, c>>, <<d, c, a>>, <<a, b, c, d>> >>[i]

GraphsOf(choices) == {[v \in MCItems |-> NeighborList(v, c[v])] : c \in choices}

(* Of one vertex, the shortest list or the longest. *)
MCGraphs == GraphsOf({c \in [MCItems -> 1 .. 4] : c[4] \in {1, 4}})

(* A query without ties, and one with. *)
OneTied == << [v \in MCItems |-> <<5, 4, 2, 0, 3, 1>>[v + 1]],
              [v \in MCItems |-> <<2, 2, 3, 0, 2, 1>>[v + 1]] >>
=============================================================================
