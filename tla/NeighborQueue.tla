---------------------------- MODULE NeighborQueue ----------------------------
(***************************************************************************)
(* dsmann::NeighborPriorityQueue (include/neighbor.h, lines 486-600), the  *)
(* candidate pool of a search: an array kept sorted by distance with a     *)
(* cursor at the first entry that is not expanded.  The class of the same  *)
(* name in namespace diskann (lines 246-360) is the same code over a       *)
(* 32-bit id.  One thread uses a queue, so its loops are modelled one      *)
(* iteration per step only to state what they keep true.                   *)
(***************************************************************************)
EXTENDS Neighbors

CONSTANTS
  Items,     \* the items that may be offered
  Dist,      \* their distance to the query: the same whenever it is computed
  Capacity   \* _capacity, the search parameter L

ASSUME ItemsAssumption == Items \subseteq Nat /\ 0 \in Items
ASSUME DistAssumption == Dist \in [Items -> Int]
ASSUME CapacityAssumption == Capacity \in Nat \ {0}

Slot == [item : Items, expanded : BOOLEAN]
Fresh(n) == [item |-> n, expanded |-> FALSE]

VARIABLES
  data,     \* _data, with one slot more than the capacity
  size,     \* _size
  cur,      \* _cur
  pc,       \* which loop is running
  arg,      \* the neighbor being inserted
  lo, hi,   \* the bounds of the binary search
  offered   \* history: the items offered since the last clear

vars == <<data, size, cur, pc, arg, lo, hi, offered>>

TypeOK ==
  /\ data \in [0 .. Capacity -> Slot]
  /\ size \in 0 .. Capacity
  /\ cur \in 0 .. Capacity
  /\ pc \in {"idle", "search", "advance"}
  /\ arg \in Items
  /\ lo \in 0 .. Capacity
  /\ hi \in 0 .. Capacity
  /\ offered \in SUBSET Items

(* The constructor and reserve; a slot is value-initialised. *)
Init ==
  /\ data = [i \in 0 .. Capacity |-> Fresh(0)]
  /\ size = 0
  /\ cur = 0
  /\ pc = "idle"
  /\ arg = 0
  /\ lo = 0
  /\ hi = 0
  /\ offered = {}

(* Fault: an item as near as the last one is refused, whatever its id. *)
TooFarByDistance(n) == size = Capacity /\ ~ (Dist[n] < Dist[data[size - 1].item])

TooFar(n) == size = Capacity /\ Less(Dist, data[size - 1].item, n)

(* insert, lines 506-511. *)
StartInsert(n) ==
  /\ pc = "idle"
  /\ arg' = n
  /\ IF TooFar(n)
       THEN /\ offered' = offered \cup {n}
            /\ UNCHANGED <<pc, lo, hi>>
       ELSE /\ pc' = "search"
            /\ lo' = 0
            /\ hi' = size
            /\ UNCHANGED offered
  /\ UNCHANGED <<data, size, cur>>

(* One iteration of the binary search, lines 512-529. *)
Probe ==
  LET mid == (lo + hi) \div 2 IN
  /\ pc = "search"
  /\ lo < hi
  /\ \/ /\ Less(Dist, arg, data[mid].item)
        /\ hi' = mid
        /\ UNCHANGED <<lo, pc>>
     \/ /\ ~ Less(Dist, arg, data[mid].item)
        /\ data[mid].item = arg
        /\ pc' = "idle"
        /\ UNCHANGED <<lo, hi>>
     \/ /\ ~ Less(Dist, arg, data[mid].item)
        /\ data[mid].item # arg
        /\ lo' = mid + 1
        /\ UNCHANGED <<hi, pc>>
  /\ UNCHANGED <<data, size, cur, arg, offered>>

(* Fault: the block that is moved starts one entry too late. *)
MovedShort(i) == i \in lo + 2 .. size

Moved(i) == i \in lo + 1 .. size /\ lo < Capacity

NewSize == IF size < Capacity THEN size + 1 ELSE size

(* Fault: the cursor stays behind an entry inserted before it. *)
CursorAfterInsert(at) == cur

RewoundCursor(at) == IF at < cur THEN at ELSE cur

(* The memmove of entries lo .. size - 1 by one slot, the write of the entry
   and the update of the size and the cursor, lines 531-543. *)
Place ==
  /\ pc = "search"
  /\ ~ lo < hi
  /\ data' = [i \in 0 .. Capacity |->
                IF i = lo THEN Fresh(arg)
                ELSE IF Moved(i) THEN data[i - 1]
                ELSE data[i]]
  /\ size' = NewSize
  /\ cur' = RewoundCursor(lo)
  /\ pc' = "idle"
  /\ offered' = offered \cup {arg}
  /\ UNCHANGED <<arg, lo, hi>>

(* closest_unexpanded, called after has_unexpanded_node: lines 546-560. *)
StartExpand ==
  /\ pc = "idle"
  /\ cur < size
  /\ data' = [data EXCEPT ![cur].expanded = TRUE]
  /\ pc' = "advance"
  /\ UNCHANGED <<size, cur, arg, lo, hi, offered>>

AtExpanded == cur < size /\ data[cur].expanded

Advance ==
  /\ pc = "advance"
  /\ AtExpanded
  /\ cur' = cur + 1
  /\ UNCHANGED <<data, size, pc, arg, lo, hi, offered>>

EndExpand ==
  /\ pc = "advance"
  /\ ~ AtExpanded
  /\ pc' = "idle"
  /\ UNCHANGED <<data, size, cur, arg, lo, hi, offered>>

(* clear, lines 591-595: the slots keep their old entries. *)
Clear ==
  /\ pc = "idle"
  /\ size' = 0
  /\ cur' = 0
  /\ offered' = {}
  /\ UNCHANGED <<data, pc, arg, lo, hi>>

Next ==
  \/ \E n \in Items : StartInsert(n)
  \/ Probe
  \/ Place
  \/ StartExpand
  \/ Advance
  \/ EndExpand
  \/ Clear

Spec == Init /\ [][Next]_vars

-----------------------------------------------------------------------------
(* Properties *)

(* The array is strictly sorted, so no item is in it twice: the search that
   follows reads the farthest kept distance in the last entry. *)
Ordered ==
  \A i, j \in 0 .. size - 1 : i < j => Less(Dist, data[i].item, data[j].item)

(* The comment of lines 486-487: "after every insert and closest_unexpanded(),
   _cur points to the first Neighbor which is unexpanded". *)
CursorAtFirstUnexpanded ==
  pc = "idle" =>
    /\ cur \in 0 .. size
    /\ \A i \in 0 .. cur - 1 : data[i].expanded
    /\ cur < size => ~ data[cur].expanded

Kept == {data[i] : i \in 0 .. size - 1}

Pool ==
  INSTANCE BoundedPool
    WITH expanded <- {slot.item : slot \in {k \in Kept : k.expanded}}

(* Whatever the order of the offers, the queue holds the nearest items it was
   offered, up to its capacity (lines 500-503): a sorted array that refuses,
   moves or drops the wrong entry still looks like a queue. *)
KeepsNearest == {slot.item : slot \in Kept} = Nearest(Dist, Capacity, offered)

(* It implements the bounded pool: an item is handed out once while it stays
   in the pool, and always the nearest one. *)
ImplementsBoundedPool == Pool!Spec
=============================================================================
