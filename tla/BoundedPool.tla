----------------------------- MODULE BoundedPool -----------------------------
(***************************************************************************)
(* What a NeighborPriorityQueue promises (include/neighbor.h): it keeps    *)
(* the Capacity nearest of all the items it was offered since it was last  *)
(* cleared, and hands out the nearest one that was not expanded yet.       *)
(***************************************************************************)
EXTENDS Neighbors

CONSTANTS Items, Dist, Capacity

VARIABLES
  offered,   \* the items inserted since the last clear
  expanded   \* the items of the pool that were handed out

vars == <<offered, expanded>>

Pool == Nearest(Dist, Capacity, offered)

Init == offered = {} /\ expanded = {}

Insert(n) ==
  /\ offered' = offered \cup {n}
  /\ expanded' = expanded \cap Nearest(Dist, Capacity, offered')

ExpandClosest ==
  \E n \in Pool \ expanded :
    /\ \A a \in Pool \ expanded : a # n => Less(Dist, n, a)
    /\ expanded' = expanded \cup {n}
    /\ UNCHANGED offered

Clear == offered' = {} /\ expanded' = {}

Next ==
  \/ \E n \in Items : Insert(n)
  \/ ExpandClosest
  \/ Clear

Spec == Init /\ [][Next]_vars
=============================================================================
