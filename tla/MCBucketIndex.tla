---------------------------- MODULE MCBucketIndex ----------------------------
(* Instances of BucketIndex for TLC: four vertices with lists of different
   lengths, one of them empty, in every partition on two or three servers. *)
EXTENDS BucketIndex

ListsA == << <<1, 2>>, <<3>>, <<3, 0>>, << >> >>
ListsB == << <<3>>, <<0, 2>>, <<1>>, <<2, 1>> >>

TwoGraphs == {[id \in 0 .. 3 |-> lists[id + 1]] : lists \in {ListsA, ListsB}}

(* The data of a base point: a row that differs from every other row. *)
Rows == [id \in 0 .. 3 |-> [k \in 1 .. 2 |-> 255 - id]]
=============================================================================
