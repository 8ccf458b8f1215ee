--------------------------- MODULE MCNeighborQueue ---------------------------
(* An instance of NeighborQueue for TLC.  Less is a strict total order, and
   all strict total orders on five items are alike: one distance function,
   with ties, stands for all. *)
EXTENDS NeighborQueue

MCItems == 0 .. 4
MCDist == [i \in MCItems |-> <<2, 1, 2, 0, 1>>[i + 1]]
=============================================================================
