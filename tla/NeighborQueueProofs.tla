------------------------- MODULE NeighborQueueProofs -------------------------
(* Proofs about the neighbor queue, for every set of items, every distance and
   every capacity. *)
EXTENDS NeighborQueue, FiniteSetTheorems, TLAPS

(* The bounds of the binary search enclose the place of the inserted item:
   what is left of them is nearer, what is right of them is farther. *)
SearchInv ==
  pc = "search" =>
    /\ lo \in 0 .. hi
    /\ hi \in 0 .. size
    /\ \A i \in 0 .. lo - 1 : Less(Dist, data[i].item, arg)
    /\ \A i \in hi .. size - 1 : Less(Dist, arg, data[i].item)

(* Everything before the cursor is expanded, in the middle of an operation
   too; the entry at the cursor is not, unless the cursor is on its way. *)
CursorInv ==
  /\ cur \in 0 .. size
  /\ \A i \in 0 .. cur - 1 : data[i].expanded
  /\ pc # "advance" /\ cur < size => ~ data[cur].expanded

IInv == TypeOK /\ SearchInv /\ Ordered /\ CursorInv

-----------------------------------------------------------------------------
(* Less is a strict total order on the items. *)
LEMMA LessTransitive ==
  ASSUME NEW a \in Items, NEW b \in Items, NEW c \in Items,
         Less(Dist, a, b), Less(Dist, b, c)
  PROVE  Less(Dist, a, c)
BY ItemsAssumption, DistAssumption DEF Less

LEMMA LessTotal ==
  ASSUME NEW a \in Items, NEW b \in Items, ~ Less(Dist, a, b), a # b
  PROVE  Less(Dist, b, a)
BY ItemsAssumption, DistAssumption DEF Less

(* The middle of two indices. *)
LEMMA Middle ==
  ASSUME NEW l \in Nat, NEW h \in Nat, l < h
  PROVE  (l + h) \div 2 \in l .. h - 1
OBVIOUS

(* The indices of an array of a given size. *)
LEMMA BelowSize ==
  ASSUME NEW m \in Nat, NEW i \in 0 .. m - 1
  PROVE  i \in Nat /\ i < m
OBVIOUS

LEMMA InRange ==
  ASSUME NEW m \in Nat, NEW i \in Nat, i < m
  PROVE  i \in 0 .. m - 1
OBVIOUS

LEMMA InitIInv == Init => IInv
BY ItemsAssumption, CapacityAssumption
DEF Init, IInv, TypeOK, SearchInv, Ordered, CursorInv, Slot, Fresh

LEMMA StutterIInv == IInv /\ UNCHANGED vars => IInv'
BY DEF IInv, TypeOK, SearchInv, Ordered, CursorInv, vars

-----------------------------------------------------------------------------
(* Every action preserves the invariant *)

LEMMA StartInsertIInv ==
  ASSUME IInv, NEW n \in Items, StartInsert(n)
  PROVE  IInv'
<1>1. TypeOK'
  BY CapacityAssumption DEF IInv, TypeOK, StartInsert
<1>2. SearchInv'
  BY DEF IInv, TypeOK, SearchInv, StartInsert
<1>3. Ordered'
  BY DEF IInv, Ordered, StartInsert
<1>4. CursorInv'
  BY DEF IInv, CursorInv, StartInsert
<1> QED BY <1>1, <1>2, <1>3, <1>4 DEF IInv

LEMMA ProbeIInv ==
  ASSUME IInv, Probe
  PROVE  IInv'
<1> DEFINE mid == (lo + hi) \div 2
<1>1. mid \in lo .. hi - 1
  BY Middle DEF IInv, TypeOK, Probe
<1>2. /\ mid \in 0 .. Capacity
      /\ data[mid] \in Slot
      /\ data[mid].item \in Items
  BY <1>1, CapacityAssumption DEF IInv, TypeOK, Slot
<1> HIDE DEF mid
<1>3. TypeOK'
  BY <1>1, <1>2, CapacityAssumption DEF IInv, TypeOK, Probe, mid
<1>4. ASSUME Less(Dist, arg, data[mid].item), hi' = mid, UNCHANGED <<lo, pc>>
      PROVE  SearchInv'
  <2>1. ASSUME NEW i \in mid .. size - 1
        PROVE  Less(Dist, arg, data[i].item)
    <3>1. CASE i = mid
      BY <1>4, <3>1
    <3>2. CASE i # mid
      <4>1. data[i].item \in Items
        BY <1>2, CapacityAssumption DEF IInv, TypeOK, Slot
      <4>2. Less(Dist, data[mid].item, data[i].item)
        BY <1>1, <1>2, <3>2 DEF IInv, TypeOK, SearchInv, Probe, Ordered
      <4> QED BY <1>2, <1>4, <4>1, <4>2, LessTransitive DEF IInv, TypeOK
    <3> QED BY <3>1, <3>2
  <2> QED BY <1>1, <1>4, <2>1 DEF IInv, TypeOK, SearchInv, Probe
<1>5. ASSUME ~ Less(Dist, arg, data[mid].item), data[mid].item # arg,
             lo' = mid + 1, UNCHANGED <<hi, pc>>
      PROVE  SearchInv'
  <2>1. Less(Dist, data[mid].item, arg)
    BY <1>2, <1>5, LessTotal DEF IInv, TypeOK
  <2>2. ASSUME NEW i \in 0 .. mid
        PROVE  Less(Dist, data[i].item, arg)
    <3>1. CASE i = mid
      BY <2>1, <3>1
    <3>2. CASE i # mid
      <4>1. data[i].item \in Items
        BY <1>2, CapacityAssumption DEF IInv, TypeOK, Slot
      <4>2. Less(Dist, data[i].item, data[mid].item)
        BY <1>1, <1>2, <3>2 DEF IInv, TypeOK, SearchInv, Probe, Ordered
      <4> QED BY <1>2, <2>1, <4>1, <4>2, LessTransitive DEF IInv, TypeOK
    <3> QED BY <3>1, <3>2
  <2> QED BY <1>1, <1>5, <2>2 DEF IInv, TypeOK, SearchInv, Probe
<1>6. SearchInv'
  BY <1>4, <1>5 DEF Probe, SearchInv, mid
<1>7. Ordered'
  BY DEF IInv, Ordered, Probe
<1>8. CursorInv'
  BY DEF IInv, CursorInv, Probe
<1> QED BY <1>3, <1>6, <1>7, <1>8 DEF IInv

(* The heart of the proof: the entry goes where the search ended, the entries
   right of it move by one and the cursor falls back to it if it is nearer. *)
LEMMA PlaceIInv ==
  ASSUME IInv, Place
  PROVE  IInv'
<1> USE CapacityAssumption
<1>1. /\ lo = hi
      /\ lo \in 0 .. size
      /\ size \in 0 .. Capacity
      /\ arg \in Items
      /\ \A i \in 0 .. lo - 1 : Less(Dist, data[i].item, arg)
      /\ \A i \in lo .. size - 1 : Less(Dist, arg, data[i].item)
  BY DEF IInv, TypeOK, SearchInv, Place
<1>2. /\ size' \in Nat
      /\ size <= size'
      /\ size' <= Capacity
      /\ size' <= size + 1
  BY <1>1 DEF Place, NewSize
<1>3. /\ Fresh(arg) \in Slot
      /\ Fresh(arg).item = arg
      /\ Fresh(arg).expanded = FALSE
  BY <1>1 DEF Fresh, Slot
<1>4. \A i \in 0 .. Capacity : data[i] \in Slot /\ data[i].item \in Items
  BY DEF IInv, TypeOK, Slot
<1>5. \A i \in 0 .. Capacity :
        /\ i < lo => data'[i] = data[i]
        /\ i = lo => data'[i] = Fresh(arg)
        /\ i > lo /\ i <= size => data'[i] = data[i - 1]
  BY <1>1 DEF Place, Moved
<1>6. TypeOK'
  <2>1. data' \in [0 .. Capacity -> Slot]
    <3>1. \A i \in 0 .. Capacity :
            (IF i = lo THEN Fresh(arg)
             ELSE IF Moved(i) THEN data[i - 1] ELSE data[i]) \in Slot
      BY <1>1, <1>3, <1>4 DEF Moved
    <3> QED BY <3>1 DEF Place
  <2>2. cur' \in 0 .. Capacity
    BY <1>1 DEF IInv, TypeOK, Place, RewoundCursor
  <2>3. offered' \in SUBSET Items
    BY <1>1 DEF IInv, TypeOK, Place
  <2> QED BY <1>2, <2>1, <2>2, <2>3 DEF IInv, TypeOK, Place
<1>7. SearchInv'
  BY DEF SearchInv, Place
<1>8. Ordered'
  <2> SUFFICES ASSUME NEW i \in 0 .. size' - 1, NEW j \in 0 .. size' - 1, i < j
               PROVE  Less(Dist, data'[i].item, data'[j].item)
    BY DEF Ordered
  <2>1. i \in 0 .. Capacity /\ j \in 0 .. Capacity /\ j <= size
    <3>1. i \in Nat /\ i < size' /\ j \in Nat /\ j < size'
      BY <1>2, BelowSize
    <3>2. size \in Nat /\ Capacity \in Nat
      BY <1>1
    <3> QED BY <1>2, <3>1, <3>2
  <2>2. CASE j < lo
    BY <1>1, <1>5, <2>1, <2>2 DEF IInv, Ordered
  <2>3. CASE j = lo
    BY <1>1, <1>3, <1>5, <2>1, <2>3
  <2>4. CASE j > lo /\ i = lo
    BY <1>1, <1>3, <1>5, <2>1, <2>4
  <2>5. CASE j > lo /\ i > lo
    <3>1. data'[i] = data[i - 1] /\ data'[j] = data[j - 1]
      BY <1>1, <1>5, <2>1, <2>5
    <3> QED BY <1>1, <2>1, <2>5, <3>1 DEF IInv, Ordered
  <2>6. CASE j > lo /\ i < lo
    <3>1. data'[i] = data[i] /\ data'[j] = data[j - 1]
      BY <1>1, <1>5, <2>1, <2>6
    <3>2. Less(Dist, data[i].item, arg) /\ Less(Dist, arg, data[j - 1].item)
      BY <1>1, <2>1, <2>6
    <3>3. data[i].item \in Items /\ data[j - 1].item \in Items
      BY <1>1, <1>4, <2>1, <2>6
    <3> QED BY <1>1, <3>1, <3>2, <3>3, LessTransitive
  <2> QED BY <1>1, <2>1, <2>2, <2>3, <2>4, <2>5, <2>6
<1>9. CursorInv'
  <2>1. CASE lo < cur
    <3>1. cur' = lo
      BY <2>1 DEF Place, RewoundCursor
    <3> QED BY <1>1, <1>2, <1>3, <1>5, <2>1, <3>1 DEF IInv, CursorInv
  <2>2. CASE ~ lo < cur
    <3>1. cur' = cur
      BY <2>2 DEF Place, RewoundCursor
    <3>2. CASE cur = lo
      BY <1>1, <1>2, <1>3, <1>5, <2>2, <3>1, <3>2 DEF IInv, CursorInv
    <3>3. CASE cur < lo
      BY <1>1, <1>2, <1>5, <3>1, <3>3 DEF IInv, CursorInv, Place
    <3> QED BY <1>1, <2>2, <3>2, <3>3 DEF IInv, CursorInv
  <2> QED BY <2>1, <2>2
<1> QED BY <1>6, <1>7, <1>8, <1>9 DEF IInv

LEMMA StartExpandIInv ==
  ASSUME IInv, StartExpand
  PROVE  IInv'
<1> USE CapacityAssumption
<1>1. cur \in 0 .. size /\ cur < size /\ size \in 0 .. Capacity
  BY DEF IInv, TypeOK, CursorInv, StartExpand
<1>2. \A i \in 0 .. Capacity :
        /\ data[i] \in Slot
        /\ data'[i].item = data[i].item
        /\ i # cur => data'[i] = data[i]
        /\ data'[i] \in Slot
  BY <1>1 DEF IInv, TypeOK, Slot, StartExpand
<1>3. TypeOK'
  BY <1>1, <1>2 DEF IInv, TypeOK, StartExpand
<1>4. SearchInv'
  BY DEF SearchInv, StartExpand
<1>5. Ordered'
  BY <1>1, <1>2 DEF IInv, Ordered, StartExpand
<1>6. CursorInv'
  BY <1>1, <1>2 DEF IInv, CursorInv, StartExpand
<1> QED BY <1>3, <1>4, <1>5, <1>6 DEF IInv

LEMMA AdvanceIInv ==
  ASSUME IInv, Advance
  PROVE  IInv'
<1> USE CapacityAssumption
<1>1. TypeOK'
  BY DEF IInv, TypeOK, Advance, AtExpanded
<1>2. SearchInv'
  BY DEF IInv, SearchInv, Advance
<1>3. Ordered'
  BY DEF IInv, Ordered, Advance
<1>4. CursorInv'
  BY DEF IInv, TypeOK, CursorInv, Advance, AtExpanded
<1> QED BY <1>1, <1>2, <1>3, <1>4 DEF IInv

LEMMA EndExpandIInv ==
  ASSUME IInv, EndExpand
  PROVE  IInv'
BY DEF IInv, TypeOK, SearchInv, Ordered, CursorInv, EndExpand, AtExpanded

LEMMA ClearIInv ==
  ASSUME IInv, Clear
  PROVE  IInv'
BY CapacityAssumption
DEF IInv, TypeOK, SearchInv, Ordered, CursorInv, Clear

LEMMA NextIInv == IInv /\ [Next]_vars => IInv'
<1> SUFFICES ASSUME IInv, [Next]_vars
             PROVE  IInv'
  OBVIOUS
<1>1. ASSUME NEW n \in Items, StartInsert(n)
      PROVE  IInv'
  BY <1>1, StartInsertIInv
<1>2. CASE Probe
  BY <1>2, ProbeIInv
<1>3. CASE Place
  BY <1>3, PlaceIInv
<1>4. CASE StartExpand
  BY <1>4, StartExpandIInv
<1>5. CASE Advance
  BY <1>5, AdvanceIInv
<1>6. CASE EndExpand
  BY <1>6, EndExpandIInv
<1>7. CASE Clear
  BY <1>7, ClearIInv
<1>8. CASE UNCHANGED vars
  BY <1>8, StutterIInv
<1> QED BY <1>1, <1>2, <1>3, <1>4, <1>5, <1>6, <1>7, <1>8 DEF Next

(* The inductive invariant of the neighbor queue holds in every state of every
   sequence of insertions and expansions. *)
THEOREM Invariance == Spec => []IInv
BY InitIInv, NextIInv, PTL DEF Spec

-----------------------------------------------------------------------------
(* Every variable of the queue keeps its type: no index leaves the array of
   Capacity + 1 slots that reserve allocates. *)
THEOREM TypeCorrect == Spec => []TypeOK
<1>1. IInv => TypeOK
  BY DEF IInv
<1> QED BY <1>1, Invariance, PTL

(* The array is strictly sorted after every step of insert and of
   closest_unexpanded, so it holds no item twice. *)
THEOREM AlwaysOrdered == Spec => []Ordered
<1>1. IInv => Ordered
  BY DEF IInv
<1> QED BY <1>1, Invariance, PTL

(* The invariant of the comment above NeighborPriorityQueue: the cursor is at
   the first entry that is not expanded, whatever was inserted before it. *)
THEOREM CursorCorrect == Spec => []CursorAtFirstUnexpanded
<1>1. IInv => CursorAtFirstUnexpanded
  BY DEF IInv, CursorInv, CursorAtFirstUnexpanded
<1> QED BY <1>1, Invariance, PTL

-----------------------------------------------------------------------------
(* What the queue holds, against what it was offered *)

IsKept(n) == \E i \in 0 .. size - 1 : data[i].item = n

(* An item that is not kept is farther than all the entries of a full queue,
   and an item that is being inserted is not. *)
OfferedInv ==
  /\ IsFiniteSet(offered)
  /\ \A i \in 0 .. size - 1 : data[i].item \in offered
  /\ \A n \in offered :
       IsKept(n) \/ (size = Capacity /\ Less(Dist, data[Capacity - 1].item, n))
  /\ pc = "search" /\ size = Capacity
       => ~ Less(Dist, data[Capacity - 1].item, arg)

LEMMA InitOfferedInv == Init => OfferedInv
BY FS_EmptySet, CapacityAssumption DEF Init, OfferedInv

LEMMA StartInsertOfferedInv ==
  ASSUME IInv, OfferedInv, NEW n \in Items, StartInsert(n)
  PROVE  OfferedInv'
<1>1. CASE TooFar(n)
  <2>1. IsFiniteSet(offered \cup {n})
    BY FS_AddElement DEF OfferedInv
  <2> QED BY <1>1, <2>1 DEF OfferedInv, IsKept, StartInsert, TooFar
<1>2. CASE ~ TooFar(n)
  BY <1>2 DEF OfferedInv, IsKept, StartInsert, TooFar
<1> QED BY <1>1, <1>2

LEMMA PlaceOfferedInv ==
  ASSUME IInv, OfferedInv, Place
  PROVE  OfferedInv'
<1> USE CapacityAssumption
<1>1. /\ lo \in Nat /\ lo <= size
      /\ size \in Nat /\ size <= Capacity
      /\ arg \in Items
      /\ \A i \in 0 .. lo - 1 : Less(Dist, data[i].item, arg)
      /\ \A i \in lo .. size - 1 : Less(Dist, arg, data[i].item)
  BY DEF IInv, TypeOK, SearchInv, Place
<1>2. \A i \in 0 .. Capacity : data[i].item \in Items
  BY DEF IInv, TypeOK, Slot
<1>3. lo < Capacity
  <2>1. CASE lo = Capacity
    <3>1. Less(Dist, data[Capacity - 1].item, arg)
      BY <1>1, <2>1
    <3> QED BY <1>1, <2>1, <3>1 DEF OfferedInv, Place
  <2> QED BY <1>1, <2>1
<1>4. \A i \in 0 .. Capacity :
        /\ i < lo => data'[i] = data[i]
        /\ i = lo => data'[i].item = arg
        /\ i > lo /\ i <= size => data'[i] = data[i - 1]
  BY <1>1, <1>3 DEF Place, Moved, Fresh
<1>5. size' = (IF size < Capacity THEN size + 1 ELSE size)
  BY DEF Place, NewSize
<1>6. size' \in Nat /\ lo < size' /\ size <= size' /\ size' <= Capacity
  BY <1>1, <1>3, <1>5
<1>7. offered' = offered \cup {arg}
  BY DEF Place
<1>8. IsFiniteSet(offered')
  BY <1>7, FS_AddElement DEF OfferedInv
<1>9. ASSUME NEW i \in 0 .. size' - 1
      PROVE  data'[i].item \in offered'
  <2>1. i \in Nat /\ i < size'
    BY <1>6, BelowSize
  <2>2. i \in 0 .. Capacity /\ i <= size
    BY <1>1, <1>5, <2>1
  <2> QED BY <1>1, <1>4, <1>7, <2>2 DEF OfferedInv
<1>10. ASSUME NEW k \in Nat, k < size', NEW n, data'[k].item = n
       PROVE  IsKept(n)'
  BY <1>6, <1>10, InRange DEF IsKept
<1>11. ASSUME size = Capacity
       PROVE  Less(Dist, data'[Capacity - 1].item, data[Capacity - 1].item)
  <2>1. CASE lo = Capacity - 1
    BY <1>1, <1>4, <1>11, <2>1
  <2>2. CASE lo < Capacity - 1
    <3>1. data'[Capacity - 1] = data[Capacity - 2]
      BY <1>1, <1>4, <1>11, <2>2
    <3> QED BY <1>1, <1>11, <2>2, <3>1 DEF IInv, Ordered
  <2> QED BY <1>1, <1>3, <2>1, <2>2
<1>12. data'[Capacity - 1].item \in Items
  BY <1>1, <1>2, <1>3, <1>4, <1>5 DEF Place, Moved, Fresh
<1>13. ASSUME NEW n \in offered'
       PROVE  \/ IsKept(n)'
              \/ size' = Capacity /\ Less(Dist, data'[Capacity - 1].item, n)
  <2>1. CASE n = arg
    BY <1>1, <1>3, <1>4, <1>6, <1>10, <2>1
  <2>2. CASE n \in offered /\ IsKept(n)
    <3>1. PICK i \in 0 .. size - 1 : data[i].item = n
      BY <2>2 DEF IsKept
    <3>2. CASE i < lo
      BY <1>1, <1>4, <1>6, <1>10, <3>1, <3>2
    <3>3. CASE i >= lo /\ i + 1 < size'
      <4>1. data'[i + 1] = data[i]
        BY <1>1, <1>4, <3>3
      <4> QED BY <1>10, <3>1, <3>3, <4>1
    <3>4. CASE i >= lo /\ ~ i + 1 < size'
      BY <1>1, <1>5, <1>11, <3>1, <3>4
    <3> QED BY <1>1, <3>2, <3>3, <3>4
  <2>3. CASE n \in offered /\ ~ IsKept(n)
    <3>1. size = Capacity /\ Less(Dist, data[Capacity - 1].item, n)
      BY <2>3 DEF OfferedInv
    <3>2. n \in Items /\ data[Capacity - 1].item \in Items
      BY <1>2, <2>3 DEF IInv, TypeOK
    <3> QED BY <1>5, <1>11, <1>12, <3>1, <3>2, LessTransitive
  <2> QED BY <1>7, <2>1, <2>2, <2>3
<1>14. pc' # "search"
  BY DEF Place
<1> QED BY <1>8, <1>9, <1>13, <1>14 DEF OfferedInv

LEMMA NextOfferedInv == IInv /\ OfferedInv /\ [Next]_vars => OfferedInv'
<1> SUFFICES ASSUME IInv, OfferedInv, [Next]_vars
             PROVE  OfferedInv'
  OBVIOUS
<1>1. ASSUME NEW n \in Items, StartInsert(n)
      PROVE  OfferedInv'
  BY <1>1, StartInsertOfferedInv
<1>2. CASE Probe
  BY <1>2 DEF OfferedInv, IsKept, Probe
<1>3. CASE Place
  BY <1>3, PlaceOfferedInv
<1>4. CASE StartExpand
  <2>1. cur \in 0 .. Capacity /\ pc' = "advance" /\ size' = size
    BY <1>4 DEF IInv, TypeOK, StartExpand
  <2>2. \A i \in 0 .. Capacity : data'[i].item = data[i].item
    BY <1>4 DEF IInv, TypeOK, Slot, StartExpand
  <2>3. size \in 0 .. Capacity /\ Capacity \in Nat \ {0}
    BY CapacityAssumption DEF IInv, TypeOK
  <2>4. \A i \in 0 .. size - 1 : data'[i].item = data[i].item
    BY <2>2, <2>3
  <2>5. data'[Capacity - 1].item = data[Capacity - 1].item
    BY <2>2, <2>3
  <2>6. \A n \in offered : IsKept(n) => IsKept(n)'
    BY <2>1, <2>4 DEF IsKept
  <2> QED BY <1>4, <2>1, <2>4, <2>5, <2>6 DEF OfferedInv, StartExpand
<1>5. CASE Advance
  BY <1>5 DEF OfferedInv, IsKept, Advance
<1>6. CASE EndExpand
  BY <1>6 DEF OfferedInv, IsKept, EndExpand
<1>7. CASE Clear
  BY <1>7, FS_EmptySet, CapacityAssumption DEF OfferedInv, IsKept, Clear
<1>8. CASE UNCHANGED vars
  BY <1>8 DEF OfferedInv, IsKept, vars
<1> QED BY <1>1, <1>2, <1>3, <1>4, <1>5, <1>6, <1>7, <1>8 DEF Next

LEMMA LessIrreflexive ==
  ASSUME NEW a \in Items
  PROVE  ~ Less(Dist, a, a)
BY ItemsAssumption, DistAssumption DEF Less

LEMMA LessAsymmetric ==
  ASSUME NEW a \in Items, NEW b \in Items, Less(Dist, a, b)
  PROVE  ~ Less(Dist, b, a)
BY LessTransitive, LessIrreflexive

(* The first k entries of a sorted queue are k items. *)
First(k) == {data[i].item : i \in 0 .. k - 1}

LEMMA FirstHasSize ==
  ASSUME IInv, NEW k \in Nat, k <= size
  PROVE  IsFiniteSet(First(k)) /\ Cardinality(First(k)) = k
<1> DEFINE f == [i \in 0 .. k - 1 |-> data[i].item]
<1>1. size \in 0 .. Capacity /\ Capacity \in Nat
  BY CapacityAssumption DEF IInv, TypeOK
<1>2. \A i \in 0 .. k - 1 : data[i].item \in Items
  BY <1>1 DEF IInv, TypeOK, Slot
<1>3. \A i, j \in 0 .. k - 1 : i < j => f[i] # f[j]
  BY <1>1, <1>2, LessIrreflexive DEF IInv, Ordered
<1>4. f \in Bijection(0 .. k - 1, First(k))
  <2>1. f \in Injection(0 .. k - 1, First(k))
    BY <1>3 DEF First, Injection, IsInjective
  <2>2. f \in Surjection(0 .. k - 1, First(k))
    BY DEF First, Surjection
  <2> QED BY <2>1, <2>2 DEF Bijection
<1>5. IsFiniteSet(0 .. k - 1) /\ Cardinality(0 .. k - 1) = k
  BY FS_Interval
<1> QED BY <1>4, <1>5, FS_Bijection DEF ExistsBijection

LEMMA HoldsNearest ==
  ASSUME IInv, OfferedInv
  PROVE  KeepsNearest
<1> DEFINE before(a) == {b \in offered : Less(Dist, b, a)}
<1>1. size \in Nat /\ size <= Capacity /\ Capacity \in Nat \ {0}
  BY CapacityAssumption DEF IInv, TypeOK
<1>2. \A i \in 0 .. size - 1 : data[i].item \in Items
  BY <1>1 DEF IInv, TypeOK, Slot
<1>3. offered \subseteq Items /\ IsFiniteSet(offered)
  BY DEF IInv, TypeOK, OfferedInv
<1>4. \A a : IsFiniteSet(before(a)) /\ Cardinality(before(a)) \in Nat
  BY <1>3, FS_Subset, FS_CardinalityType
<1>5. ASSUME NEW i \in 0 .. size - 1
      PROVE  data[i].item \in Nearest(Dist, Capacity, offered)
  <2>1. before(data[i].item) \subseteq First(i)
    <3> SUFFICES ASSUME NEW b \in offered, Less(Dist, b, data[i].item)
                 PROVE  b \in First(i)
      OBVIOUS
    <3>1. IsKept(b)
      <4>1. SUFFICES ASSUME size = Capacity, Less(Dist, data[Capacity - 1].item, b)
                     PROVE  FALSE
        BY DEF OfferedInv
      <4>2. Less(Dist, data[Capacity - 1].item, data[i].item)
        BY <1>1, <1>2, <1>3, <4>1, LessTransitive
      <4>3. i = Capacity - 1 \/ Less(Dist, data[i].item, data[Capacity - 1].item)
        BY <1>1, <4>1 DEF IInv, Ordered
      <4> QED BY <1>1, <1>2, <4>1, <4>2, <4>3, LessIrreflexive, LessAsymmetric
    <3>2. PICK j \in 0 .. size - 1 : data[j].item = b
      BY <3>1 DEF IsKept
    <3>3. j < i
      <4>1. ~ i < j
        BY <1>2, <3>2, LessAsymmetric DEF IInv, Ordered
      <4>2. i # j
        BY <1>2, <3>2, LessIrreflexive
      <4> QED BY <1>1, <4>1, <4>2
    <3> QED BY <1>1, <3>2, <3>3 DEF First
  <2>2. IsFiniteSet(First(i)) /\ Cardinality(First(i)) = i
    BY <1>1, FirstHasSize
  <2>3. Cardinality(before(data[i].item)) <= i
    BY <2>1, <2>2, FS_Subset
  <2>4. Cardinality(before(data[i].item)) \in Nat
    BY <1>4
  <2>5. Cardinality(before(data[i].item)) < Capacity
    <3> HIDE DEF before
    <3> QED BY <1>1, <2>3, <2>4
  <2>6. data[i].item \in offered
    BY DEF OfferedInv
  <2> QED BY <2>5, <2>6 DEF Nearest
<1>6. ASSUME NEW a \in Nearest(Dist, Capacity, offered)
      PROVE  IsKept(a)
  <2>1. a \in offered /\ Cardinality(before(a)) < Capacity
    BY DEF Nearest
  <2>2. SUFFICES ASSUME size = Capacity, Less(Dist, data[Capacity - 1].item, a)
                 PROVE  FALSE
    BY <2>1 DEF OfferedInv
  <2>3. First(Capacity) \subseteq before(a)
    <3> SUFFICES ASSUME NEW i \in 0 .. Capacity - 1
                 PROVE  data[i].item \in offered /\ Less(Dist, data[i].item, a)
      BY DEF First
    <3>1. CASE i = Capacity - 1
      BY <2>2, <3>1 DEF OfferedInv
    <3>2. CASE i # Capacity - 1
      <4>1. Less(Dist, data[i].item, data[Capacity - 1].item)
        BY <1>1, <2>2, <3>2 DEF IInv, Ordered
      <4>2. data[i].item \in Items /\ data[Capacity - 1].item \in Items /\ a \in Items
        BY <1>1, <1>2, <1>3, <2>1, <2>2
      <4> QED BY <2>2, <4>1, <4>2, LessTransitive DEF OfferedInv
    <3> QED BY <3>1, <3>2
  <2>4. Cardinality(First(Capacity)) = Capacity
    BY <1>1, <2>2, FirstHasSize
  <2>5. Capacity <= Cardinality(before(a))
    BY <1>4, <2>3, <2>4, FS_Subset
  <2> QED BY <1>1, <1>4, <2>1, <2>5
<1> QED BY <1>5, <1>6 DEF KeepsNearest, Kept, IsKept

(* The queue holds the nearest of the items it was offered since it was last
   cleared, up to its capacity: a full queue refuses or drops an item only for
   nearer ones, in the middle of an operation too. *)
THEOREM AlwaysKeepsNearest == Spec => []KeepsNearest
<1>1. Init => IInv /\ OfferedInv
  BY InitIInv, InitOfferedInv
<1>2. IInv /\ OfferedInv /\ [Next]_vars => (IInv /\ OfferedInv)'
  BY NextIInv, NextOfferedInv
<1>3. IInv /\ OfferedInv => KeepsNearest
  BY HoldsNearest
<1> QED BY <1>1, <1>2, <1>3, PTL DEF Spec

-----------------------------------------------------------------------------
(* The refinement of the bounded pool *)

(* The items handed out, as the refinement maps them. *)
Expanded == {slot.item : slot \in {k \in Kept : k.expanded}}

LEMMA KeptItems == \A n : n \in {slot.item : slot \in Kept} <=> IsKept(n)
BY DEF Kept, IsKept

LEMMA KeptItemsNext == \A n : n \in {slot.item : slot \in Kept}' <=> IsKept(n)'
BY DEF Kept, IsKept

IsExpanded(n) == \E i \in 0 .. size - 1 : data[i].item = n /\ data[i].expanded

LEMMA ExpandedItems == \A n : n \in Expanded <=> IsExpanded(n)
BY DEF Expanded, Kept, IsExpanded

LEMMA ExpandedItemsNext == \A n : n \in Expanded' <=> IsExpanded(n)'
BY DEF Expanded, Kept, IsExpanded

(* An item is in one slot. *)
LEMMA OneSlot ==
  ASSUME IInv, NEW i \in 0 .. size - 1, NEW j \in 0 .. size - 1, data[i].item = data[j].item
  PROVE  i = j
<1>1. size \in 0 .. Capacity /\ Capacity \in Nat
  BY CapacityAssumption DEF IInv, TypeOK
<1>2. data[i].item \in Items
  BY <1>1 DEF IInv, TypeOK, Slot
<1>3. ~ i < j /\ ~ j < i
  BY <1>2, LessIrreflexive DEF IInv, Ordered
<1> QED BY <1>1, <1>3

(* A step that leaves the entries and the offers alone is a stutter. *)
LEMMA SamePool ==
  ASSUME UNCHANGED <<data, size, offered>>
  PROVE  UNCHANGED <<offered, Expanded>>
BY DEF Expanded, Kept

(* The abstract specification speaks of its own copies of the operators. *)
LEMMA PoolCardinality == \A S : Pool!Cardinality(S) = Cardinality(S)
BY DEF Pool!Cardinality, Cardinality

LEMMA PoolNearest ==
  /\ \A S : Pool!Nearest(Dist, Capacity, S) = Nearest(Dist, Capacity, S)
  /\ \A a, b : Pool!Less(Dist, a, b) = Less(Dist, a, b)
BY PoolCardinality DEF Pool!Nearest, Nearest, Pool!Less, Less

LEMMA RefusePool ==
  ASSUME KeepsNearest', NEW n \in Items, StartInsert(n), TooFar(n)
  PROVE  Pool!Insert(n)
<1>1. offered' = offered \cup {n} /\ UNCHANGED <<data, size>>
  BY DEF StartInsert
<1>2. \A m : IsExpanded(m)' <=> IsExpanded(m) /\ IsKept(m)'
  BY <1>1 DEF IsExpanded, IsKept
<1>3. \A m : m \in Nearest(Dist, Capacity, offered') <=> IsKept(m)'
  BY KeptItemsNext DEF KeepsNearest
<1>4. Expanded' = Expanded \cap Nearest(Dist, Capacity, offered')
  BY <1>2, <1>3, ExpandedItems, ExpandedItemsNext
<1> QED BY <1>1, <1>4, PoolNearest DEF Pool!Insert, Expanded

(* An entry that is moved stays expanded, and one that is dropped is not handed
   out any more: the new entry is not one that was in the queue. *)
LEMMA PlacePool ==
  ASSUME IInv, KeepsNearest', Place
  PROVE  \E n \in Items : Pool!Insert(n)
<1>1. /\ lo \in Nat /\ lo <= size
      /\ size \in Nat /\ size <= Capacity /\ Capacity \in Nat
      /\ arg \in Items
      /\ \A i \in 0 .. lo - 1 : Less(Dist, data[i].item, arg)
      /\ \A i \in lo .. size - 1 : Less(Dist, arg, data[i].item)
  BY CapacityAssumption DEF IInv, TypeOK, SearchInv, Place
<1>2. ~ IsKept(arg)
  <2>1. SUFFICES ASSUME NEW i \in 0 .. size - 1, data[i].item = arg
                 PROVE  FALSE
    BY DEF IsKept
  <2>2. i \in 0 .. lo - 1 \/ i \in lo .. size - 1
    BY <1>1
  <2> QED BY <1>1, <2>1, <2>2, LessIrreflexive
<1>3. size' \in Nat /\ size' <= size + 1 /\ size' <= Capacity
  BY <1>1 DEF Place, NewSize
<1>4. \A i \in 0 .. size' - 1 :
        /\ i < lo => data'[i] = data[i]
        /\ i = lo => data'[i] = Fresh(arg)
        /\ i > lo => data'[i] = data[i - 1]
  BY <1>1, <1>3 DEF Place, Moved
<1>5. ASSUME NEW i \in 0 .. size' - 1
      PROVE  data'[i] = Fresh(arg) \/ \E j \in 0 .. size - 1 : data'[i] = data[j]
  <2>1. i \in Nat /\ i < size'
    BY <1>3, BelowSize
  <2>2. CASE i < lo
    <3>1. i \in 0 .. size - 1
      BY <1>1, <2>1, <2>2
    <3> QED BY <1>4, <2>2, <3>1
  <2>3. CASE i > lo
    <3>1. i - 1 \in 0 .. size - 1
      BY <1>1, <1>3, <2>1, <2>3
    <3> QED BY <1>4, <2>3, <3>1
  <2> QED BY <1>1, <1>4, <2>1, <2>2, <2>3
<1>6. ASSUME NEW m
      PROVE  IsExpanded(m)' <=> IsExpanded(m) /\ IsKept(m)'
  <2>1. ASSUME IsExpanded(m)'
        PROVE  IsExpanded(m) /\ IsKept(m)'
    <3>1. PICK i \in 0 .. size' - 1 : data'[i].item = m /\ data'[i].expanded
      BY <2>1 DEF IsExpanded
    <3>2. data'[i] # Fresh(arg)
      BY <3>1 DEF Fresh
    <3> QED BY <1>5, <3>1, <3>2 DEF IsExpanded, IsKept
  <2>2. ASSUME IsExpanded(m), IsKept(m)'
        PROVE  IsExpanded(m)'
    <3>1. PICK k \in 0 .. size - 1 : data[k].item = m /\ data[k].expanded
      BY <2>2 DEF IsExpanded
    <3>2. PICK i \in 0 .. size' - 1 : data'[i].item = m
      BY <2>2 DEF IsKept
    <3>3. data'[i] # Fresh(arg)
      BY <1>2, <3>1, <3>2 DEF Fresh, IsKept
    <3>4. PICK j \in 0 .. size - 1 : data'[i] = data[j]
      BY <1>5, <3>3
    <3>5. j = k
      BY <3>1, <3>2, <3>4, OneSlot
    <3> QED BY <3>1, <3>2, <3>4, <3>5 DEF IsExpanded
  <2> QED BY <2>1, <2>2
<1>7. \A m : m \in Nearest(Dist, Capacity, offered') <=> IsKept(m)'
  BY KeptItemsNext DEF KeepsNearest
<1>8. Expanded' = Expanded \cap Nearest(Dist, Capacity, offered')
  BY <1>6, <1>7, ExpandedItems, ExpandedItemsNext
<1>9. offered' = offered \cup {arg}
  BY DEF Place
<1> QED BY <1>1, <1>8, <1>9, PoolNearest DEF Pool!Insert, Expanded

LEMMA ExpandPool ==
  ASSUME IInv, KeepsNearest, StartExpand
  PROVE  Pool!ExpandClosest
<1> DEFINE n == data[cur].item
<1>1. /\ cur \in 0 .. size - 1 /\ size \in 0 .. Capacity /\ Capacity \in Nat
      /\ ~ data[cur].expanded /\ \A i \in 0 .. cur - 1 : data[i].expanded
  BY CapacityAssumption DEF IInv, TypeOK, CursorInv, StartExpand
<1>2. \A i \in 0 .. size - 1 : data[i] \in Slot
  BY <1>1 DEF IInv, TypeOK
<1>3. UNCHANGED <<size, offered>>
  BY DEF StartExpand
<1>4. \A i \in 0 .. size - 1 :
        /\ data'[i].item = data[i].item
        /\ data'[i].expanded <=> data[i].expanded \/ i = cur
  BY <1>1, <1>2 DEF StartExpand, IInv, TypeOK, Slot
<1>5. ~ IsExpanded(n) /\ IsKept(n)
  <2>1. \A i \in 0 .. size - 1 : data[i].item = n => i = cur
    BY <1>1, OneSlot
  <2> QED BY <1>1, <2>1 DEF IsExpanded, IsKept
<1>6. ASSUME NEW a, IsKept(a), ~ IsExpanded(a), a # n
      PROVE  Less(Dist, n, a)
  <2>1. PICK i \in 0 .. size - 1 : data[i].item = a
    BY <1>6 DEF IsKept
  <2>2. ~ data[i].expanded /\ i # cur
    BY <1>6, <2>1 DEF IsExpanded
  <2>3. cur < i
    BY <1>1, <2>2
  <2> QED BY <1>1, <2>1, <2>3 DEF IInv, Ordered
<1> HIDE DEF n
<1>7. \A m : IsExpanded(m)' <=> IsExpanded(m) \/ m = n
  BY <1>1, <1>3, <1>4 DEF IsExpanded, n
<1>8. Expanded' = Expanded \cup {n}
  BY <1>7, ExpandedItems, ExpandedItemsNext
<1>9. \A m : m \in Nearest(Dist, Capacity, offered) <=> IsKept(m)
  BY KeptItems DEF KeepsNearest
<1>10. /\ n \in Nearest(Dist, Capacity, offered) \ Expanded
       /\ \A a \in Nearest(Dist, Capacity, offered) \ Expanded : a # n => Less(Dist, n, a)
  BY <1>5, <1>6, <1>9, ExpandedItems
<1> QED
  BY <1>3, <1>8, <1>10, PoolNearest DEF Pool!ExpandClosest, Pool!Pool, Expanded

LEMMA ClearPool == ASSUME Clear PROVE Pool!Clear
<1>1. offered' = {} /\ size' = 0
  BY DEF Clear
<1>2. Expanded' = {}
  BY <1>1, ExpandedItemsNext DEF IsExpanded
<1> QED BY <1>1, <1>2 DEF Pool!Clear, Expanded

LEMMA InitPool == Init => Pool!Init
<1> SUFFICES ASSUME Init PROVE Pool!Init
  OBVIOUS
<1>1. Expanded = {}
  BY ExpandedItems DEF IsExpanded, Init
<1> QED BY <1>1 DEF Init, Pool!Init, Expanded

LEMMA NextPool == IInv /\ KeepsNearest /\ KeepsNearest' /\ [Next]_vars => [Pool!Next]_(Pool!vars)
<1> SUFFICES ASSUME IInv, KeepsNearest, KeepsNearest', [Next]_vars
             PROVE  Pool!Next \/ UNCHANGED Pool!vars
  OBVIOUS
<1>1. ASSUME UNCHANGED <<data, size, offered>>
      PROVE  UNCHANGED Pool!vars
  BY <1>1, SamePool DEF Pool!vars, Expanded
<1>2. ASSUME NEW n \in Items, StartInsert(n)
      PROVE  Pool!Next \/ UNCHANGED Pool!vars
  <2>1. CASE TooFar(n)
    BY <1>2, <2>1, RefusePool DEF Pool!Next
  <2>2. CASE ~ TooFar(n)
    BY <1>1, <1>2, <2>2 DEF StartInsert
  <2> QED BY <2>1, <2>2
<1>3. CASE Probe
  BY <1>1, <1>3 DEF Probe
<1>4. CASE Place
  BY <1>4, PlacePool DEF Pool!Next
<1>5. CASE StartExpand
  BY <1>5, ExpandPool DEF Pool!Next
<1>6. CASE Advance \/ EndExpand
  BY <1>1, <1>6 DEF Advance, EndExpand
<1>7. CASE Clear
  BY <1>7, ClearPool DEF Pool!Next
<1>8. CASE UNCHANGED vars
  BY <1>1, <1>8 DEF vars
<1> QED BY <1>2, <1>3, <1>4, <1>5, <1>6, <1>7, <1>8 DEF Next

(* The queue implements the bounded pool: insert keeps the nearest items and
   forgets that a dropped one was handed out, and closest_unexpanded hands out
   the nearest item of the pool that it has not handed out. *)
THEOREM RefinesBoundedPool == Spec => ImplementsBoundedPool
<1>1. Init => IInv /\ OfferedInv
  BY InitIInv, InitOfferedInv
<1>2. IInv /\ OfferedInv /\ [Next]_vars => (IInv /\ OfferedInv)'
  BY NextIInv, NextOfferedInv
<1>3. IInv /\ OfferedInv => KeepsNearest
  BY HoldsNearest
<1> QED
  BY <1>1, <1>2, <1>3, InitPool, NextPool, PTL DEF Spec, ImplementsBoundedPool, Pool!Spec
=============================================================================
