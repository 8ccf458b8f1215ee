-------------------------- MODULE LearnSearchProofs --------------------------
(***************************************************************************)
(* The array of the search of the learn graph stays sorted, holds no       *)
(* vertex twice and forgets only far vertices, for every graph, every      *)
(* distance, with ties or without, and every capacity.                     *)
(***************************************************************************)
EXTENDS LearnSearch, NearestProofs

-----------------------------------------------------------------------------
(* The halving of the bounds *)

(* A recursion that gets smaller with every call defines a function. *)
LEMMA ShrinkingRecursion ==
  ASSUME NEW B, NEW N \in Nat, NEW size \in [B -> 0 .. N],
         NEW stop \in SUBSET B, NEW next \in [B -> B],
         \A b \in B \ stop : size[next[b]] < size[b]
  PROVE  \E f : f = [b \in B |-> IF b \in stop THEN b ELSE f[next[b]]]
<1> DEFINE Upto(s) == {b \in B : size[b] <= s}
           Solves(f, s) == f = [b \in Upto(s) |-> IF b \in stop THEN b ELSE f[next[b]]]
           P == {s \in Nat : \E f : Solves(f, s)}
<1>1. 0 \in P
  <2> DEFINE f == [b \in Upto(0) |-> b]
  <2>1. \A b \in Upto(0) : b \in stop
    OBVIOUS
  <2>2. Solves(f, 0)
    BY <2>1
  <2> QED BY <2>2
<1>2. ASSUME NEW s \in P
      PROVE  s + 1 \in P
  <2>1. PICK f : Solves(f, s)
    OBVIOUS
  <2> DEFINE g == [b \in Upto(s + 1) |-> IF b \in stop THEN b ELSE f[next[b]]]
  <2>2. s + 1 \in Nat /\ Upto(s) \in SUBSET Upto(s + 1)
    OBVIOUS
  <2>3. \A b \in Upto(s + 1) \ stop : next[b] \in Upto(s)
    OBVIOUS
  <2> HIDE DEF Upto
  <2>4. \A b \in Upto(s) : g[b] = f[b]
    BY <2>1, <2>2
  <2>5. \A b \in Upto(s + 1) \ stop : g[next[b]] = f[next[b]]
    BY <2>3, <2>4
  <2>6. Solves(g, s + 1)
    BY <2>5
  <2> HIDE DEF Solves
  <2> QED BY <2>2, <2>6
<1>3. N \in P
  <2> SUFFICES ASSUME N \notin P
               PROVE  FALSE
    OBVIOUS
  <2> HIDE DEF P
  <2> DEFINE T == Nat \ P
  <2>1. PICK x \in T : \A y \in T : x <= y
    BY LeastNatural
  <2>2. x - 1 \in Nat \ T
    BY <1>1, <2>1
  <2> QED BY <1>2, <2>1, <2>2
<1>4. Upto(N) = B
  OBVIOUS
<1> QED BY <1>3, <1>4

Bounds == Index \X Index
Mid(b) == (b[1] + b[2]) \div 2
Close(b) == b[1] >= b[2] - 1
Narrow(b, v) == IF At(Mid(b)) > Dist[v] THEN <<b[1], Mid(b)>> ELSE <<Mid(b), b[2]>>

(* The recursive function of Halve. *)
Halving(v) ==
  LET halve[b \in Index \X Index] ==
        LET mid == (b[1] + b[2]) \div 2
        IN  IF b[1] >= b[2] - 1 THEN b
            ELSE IF At(mid) > Dist[v] THEN halve[<<b[1], mid>>]
            ELSE halve[<<mid, b[2]>>]
  IN  halve

LEMMA HalveIs ==
  ASSUME NEW v
  PROVE  Halve(v) = Halving(v)[<<0, len - 1>>]
BY DEF Halve, Halving

LEMMA MidBetween ==
  ASSUME NEW b \in Bounds, ~ Close(b)
  PROVE  Mid(b) \in Index /\ b[1] < Mid(b) /\ Mid(b) < b[2]
BY LearnAssumption DEF Bounds, Close, Mid, Index

(* One step of the halving. *)
LEMMA HalvingStep ==
  ASSUME NEW v, NEW b \in Bounds
  PROVE  Halving(v)[b] = IF Close(b) THEN b ELSE Halving(v)[Narrow(b, v)]
<1> DEFINE size == [c \in Bounds |-> IF Close(c) THEN 0 ELSE c[2] - c[1]]
           stop == {c \in Bounds : Close(c)}
           next == [c \in Bounds |-> IF Close(c) THEN c ELSE Narrow(c, v)]
           Body(f) == [c \in Bounds |-> IF Close(c) THEN c ELSE f[Narrow(c, v)]]
<1>1. L \in Nat
  BY LearnAssumption
<1>2. \A c \in Bounds : ~ Close(c) => Narrow(c, v) \in Bounds
  BY MidBetween DEF Narrow, Bounds
<1>3. next \in [Bounds -> Bounds]
  BY <1>2
<1>4. size \in [Bounds -> 0 .. L]
  BY <1>1 DEF Bounds, Index, Close
<1>5. \A c \in Bounds \ stop : size[next[c]] < size[c]
  <2> TAKE c \in Bounds \ stop
  <2>1. c \in Bounds /\ ~ Close(c)
    OBVIOUS
  <2>2. Mid(c) \in Index /\ c[1] < Mid(c) /\ Mid(c) < c[2]
    BY <2>1, MidBetween
  <2>3. next[c] = <<c[1], Mid(c)>> \/ next[c] = <<Mid(c), c[2]>>
    BY <2>1 DEF Narrow
  <2>4. size[c] = c[2] - c[1] /\ size[c] > 0
    BY <1>1, <2>1, <2>2 DEF Bounds, Index
  <2>5. next[c] \in Bounds /\ c[1] \in Int /\ c[2] \in Int /\ Mid(c) \in Int
    BY <1>1, <1>3, <2>1, <2>2 DEF Bounds, Index
  <2>6. size[next[c]] = 0 \/ size[next[c]] = next[c][2] - next[c][1]
    BY <2>5
  <2> HIDE DEF size, next
  <2> QED BY <2>2, <2>3, <2>4, <2>5, <2>6
<1>6. \E f : f = [b1 \in Bounds |-> IF b1 \in stop THEN b1 ELSE f[next[b1]]]
  <2> HIDE DEF size, next, stop
  <2>1. stop \in SUBSET Bounds
    BY DEF stop
  <2>2. ASSUME NEW B, B = Bounds
        PROVE  \E f : f = [b1 \in B |-> IF b1 \in stop THEN b1 ELSE f[next[b1]]]
    <3>1. /\ size \in [B -> 0 .. L]
          /\ stop \in SUBSET B
          /\ next \in [B -> B]
          /\ \A b1 \in B \ stop : size[next[b1]] < size[b1]
      BY <1>3, <1>4, <1>5, <2>1, <2>2
    <3> QED BY ONLY SMTT(30), <1>1, <3>1, ShrinkingRecursion
  <2> QED BY <2>2
<1>7. \A f : Body(f) = [c \in Bounds |-> IF c \in stop THEN c ELSE f[next[c]]]
  OBVIOUS
<1>8. \E f : f = Body(f)
  BY <1>6, <1>7
<1>9. Halving(v) = Body(Halving(v))
  <2>1. ASSUME NEW f
        PROVE  Body(f) = [c \in Index \X Index |->
                            LET mid == (c[1] + c[2]) \div 2
                            IN  IF c[1] >= c[2] - 1 THEN c
                                ELSE IF At(mid) > Dist[v] THEN f[<<c[1], mid>>]
                                ELSE f[<<mid, c[2]>>]]
    BY DEF Bounds, Close, Narrow, Mid
  <2>2. PICK f : f = Body(f)
    BY <1>8
  <2> HIDE DEF Body
  <2>3. Halving(v) = CHOOSE halve : halve = Body(halve)
    BY <2>1 DEF Halving
  <2> QED BY <2>2, <2>3
<1> QED BY <1>9

(* Bounds that enclose the distance of v, and are equal only in an array of one
   entry. *)
Enclosing(v) ==
  {b \in Bounds : /\ b[1] <= b[2] /\ b[2] <= len - 1
                  /\ At(b[1]) <= Dist[v] /\ Dist[v] <= At(b[2])
                  /\ (b[1] = b[2] => len = 1)}

LEMMA DistType ==
  ASSUME TypeOK, todo < Len(Dists)
  PROVE  /\ Dist \in [Items -> Int]
         /\ \A i \in Index : At(i) \in Int /\ retset[i].id \in Items
         /\ L \in Nat \ {0}
         /\ len \in 0 .. L
<1>1. Dists \in Seq([Items -> Int]) /\ todo + 1 \in 1 .. Len(Dists)
  BY LearnAssumption DEF TypeOK
<1>2. Dist \in [Items -> Int]
  BY <1>1 DEF Dist
<1>3. \A i \in Index : retset[i].id \in Items
  BY DEF TypeOK, Entry
<1> QED BY <1>2, <1>3, LearnAssumption DEF At, TypeOK

LEMMA NarrowEncloses ==
  ASSUME TypeOK, todo < Len(Dists), NEW v \in Items,
         NEW b \in Enclosing(v), ~ Close(b)
  PROVE  /\ Narrow(b, v) \in Enclosing(v)
         /\ Narrow(b, v)[2] - Narrow(b, v)[1] < b[2] - b[1]
<1>1. b \in Bounds
  BY DEF Enclosing
<1>2. Mid(b) \in Index /\ b[1] < Mid(b) /\ Mid(b) < b[2]
  BY <1>1, MidBetween
<1>3. At(Mid(b)) \in Int /\ Dist[v] \in Int /\ b[1] \in Int /\ b[2] \in Int
      /\ Mid(b) \in Int /\ len \in Int
  BY <1>1, <1>2, DistType DEF Bounds, Index
<1>4. Narrow(b, v) \in Bounds
  BY <1>1, <1>2 DEF Narrow, Bounds
<1>5. CASE At(Mid(b)) > Dist[v]
  <2>1. Narrow(b, v) = <<b[1], Mid(b)>>
    BY <1>5 DEF Narrow
  <2> QED BY <1>2, <1>3, <1>4, <1>5, <2>1 DEF Enclosing
<1>6. CASE ~ (At(Mid(b)) > Dist[v])
  <2>1. Narrow(b, v) = <<Mid(b), b[2]>>
    BY <1>6 DEF Narrow
  <2> QED BY <1>2, <1>3, <1>4, <1>6, <2>1 DEF Enclosing
<1> QED BY <1>5, <1>6

(* The halving ends at two neighboring entries that enclose the distance.  Of
   the bounds for which it did not, the closest would have closer ones. *)
LEMMA HalveFinds ==
  ASSUME TypeOK, todo < Len(Dists), NEW v \in Items,
         len >= 1, At(0) <= Dist[v], Dist[v] <= At(len - 1)
  PROVE  Halve(v) \in Enclosing(v) /\ Close(Halve(v))
<1> DEFINE Right(b) == Halving(v)[b] \in Enclosing(v) /\ Close(Halving(v)[b])
           Wrong == {b \in Enclosing(v) : ~ Right(b)}
           T == {b[2] - b[1] : b \in Wrong}
<1>1. \A b \in Enclosing(v) : b \in Bounds /\ b[2] - b[1] \in Nat
  BY DistType DEF Enclosing, Bounds, Index
<1>2. ASSUME NEW b \in Wrong
      PROVE  \E c \in Wrong : c[2] - c[1] < b[2] - b[1]
  <2>1. ~ Close(b)
    BY <1>1, HalvingStep
  <2>2. Halving(v)[b] = Halving(v)[Narrow(b, v)]
    BY <1>1, <2>1, HalvingStep
  <2>3. /\ Narrow(b, v) \in Enclosing(v)
        /\ Narrow(b, v)[2] - Narrow(b, v)[1] < b[2] - b[1]
    BY <2>1, NarrowEncloses
  <2>4. Narrow(b, v) \in Wrong
    BY <2>2, <2>3
  <2> QED BY <2>3, <2>4
<1>3. Wrong = {}
  <2> SUFFICES ASSUME Wrong # {}
               PROVE  FALSE
    OBVIOUS
  <2>1. T \in SUBSET Nat /\ T # {}
    BY <1>1
  <2>2. PICK x \in T : \A y \in T : x <= y
    BY <2>1, LeastNatural
  <2>3. PICK b \in Wrong : x = b[2] - b[1]
    BY <2>2
  <2>4. PICK c \in Wrong : c[2] - c[1] < b[2] - b[1]
    BY <1>2
  <2>5. c[2] - c[1] \in T /\ c[2] - c[1] \in Nat /\ x \in Nat
    BY <1>1, <2>1
  <2> HIDE DEF T, Wrong
  <2>6. x <= c[2] - c[1]
    BY <2>2, <2>5
  <2> QED BY <2>3, <2>4, <2>5, <2>6
<1>4. <<0, len - 1>> \in Enclosing(v)
  BY DistType DEF Enclosing, Bounds, Index
<1> QED BY <1>3, <1>4, HalveIs

-----------------------------------------------------------------------------
(* The invariant *)

Ids == {retset[i].id : i \in InUse}

Sorted ==
  \A i, j \in InUse : i < j => At(i) <= At(j) /\ retset[i].id # retset[j].id

ArrayInv ==
  Searching =>
    /\ todo < Len(Dists)
    /\ len >= 1
    /\ Ids \subseteq flags
    /\ Sorted
    /\ ForgetsOnlyFarther

ControlInv ==
  /\ pc = "cleared" => todo < Len(Dists) /\ len = 0 /\ k = 0 /\ flags = {}
  /\ pc = "visit" => k < len /\ m >= 1

LInv == TypeOK /\ ControlInv /\ ArrayInv

(* Where a vertex that is neither in the array nor refused goes: what is before
   the place is not farther, what is from it on is not nearer. *)
LEMMA PlaceSeparates ==
  ASSUME LInv, Searching, NEW v \in Items \ flags, ~ Refused(v)
  PROVE  /\ Place(v) \in 0 .. len
         /\ Place(v) < L
         /\ \A i \in InUse : i < Place(v) => At(i) <= Dist[v]
         /\ \A i \in InUse : i >= Place(v) => Dist[v] <= At(i)
<1>1. /\ TypeOK /\ todo < Len(Dists) /\ len >= 1 /\ Ids \subseteq flags /\ Sorted
      /\ v \in Items
  BY DEF LInv, ArrayInv
<1>2. /\ Dist[v] \in Int /\ L \in Nat /\ len \in 1 .. L
      /\ \A i \in InUse : At(i) \in Int /\ i \in Index
  BY <1>1, DistType DEF InUse, Index
<1>3. \A i, j \in InUse : i <= j => At(i) <= At(j)
  BY <1>1, <1>2 DEF Sorted, InUse
<1>4. 0 \in InUse /\ len - 1 \in InUse /\ \A i \in InUse : 0 <= i /\ i <= len - 1 /\ i \in Int
  BY <1>2 DEF InUse
<1>5. CASE At(0) > Dist[v]
  <2>1. Place(v) = 0
    BY <1>5 DEF Place
  <2>2. \A i \in InUse : At(0) <= At(i)
    BY <1>3, <1>4
  <2> QED BY <1>2, <1>4, <1>5, <2>1, <2>2
<1>6. CASE ~ (At(0) > Dist[v]) /\ At(len - 1) < Dist[v]
  <2>1. Place(v) = len
    BY <1>6 DEF Place
  <2>2. \A i \in InUse : At(i) <= At(len - 1)
    BY <1>3, <1>4
  <2>3. len # L
    BY <1>2, <1>4, <1>6 DEF Refused
  <2> QED BY <1>2, <1>4, <1>6, <2>1, <2>2, <2>3
<1>7. CASE ~ (At(0) > Dist[v]) /\ ~ (At(len - 1) < Dist[v])
  <2>1. Halve(v) \in Enclosing(v) /\ Close(Halve(v))
    BY <1>1, <1>2, <1>4, <1>7, HalveFinds
  <2> DEFINE l == Halve(v)[1]
             r == Halve(v)[2]
  <2>2. /\ l \in InUse /\ r \in InUse /\ l <= r /\ l >= r - 1 /\ (l = r => len = 1)
        /\ At(l) <= Dist[v] /\ Dist[v] <= At(r)
    BY <1>2, <2>1 DEF Enclosing, Bounds, Index, Close, InUse
  <2>3. Compared(v) \subseteq InUse
    BY <1>4, <2>2 DEF Compared, InUse
  <2>4. \A i \in InUse : retset[i].id # v
    BY <1>1 DEF Ids
  <2>5. Place(v) = r
    BY <1>7, <2>3, <2>4 DEF Place
  <2> HIDE DEF l, r
  <2>6. \A i \in InUse : i < r => i <= l
    BY <1>4, <2>2
  <2>7. \A i \in InUse : i < r => At(i) <= Dist[v]
    BY <1>2, <1>3, <2>2, <2>6
  <2>8. \A i \in InUse : i >= r => Dist[v] <= At(i)
    BY <1>2, <1>3, <1>4, <2>2
  <2>9. r \in 0 .. len /\ r < L
    BY <1>2, <1>4, <2>2
  <2> QED BY <2>5, <2>7, <2>8, <2>9
<1> QED BY <1>5, <1>6, <1>7

-----------------------------------------------------------------------------
(* The steps *)

LEMMA InitLInv == Init => LInv
BY LearnAssumption
   DEF Init, LInv, TypeOK, ControlInv, ArrayInv, Searching, Index, Entry, Unset

LEMMA ClearLInv == ASSUME LInv, Clear PROVE LInv'
BY LearnAssumption
   DEF Clear, LInv, TypeOK, ControlInv, ArrayInv, Searching, Index, Entry, Unset

LEMMA EnterLInv == ASSUME LInv, Enter PROVE LInv'
<1>1. TypeOK'
  BY LearnAssumption DEF Enter, LInv, TypeOK, ControlInv, Index, Entry
<1>2. ControlInv'
  BY DEF Enter, ControlInv
<1>3. /\ todo' < Len(Dists) /\ len' = 1 /\ flags' = {EntryPoint}
      /\ retset'[0].id = EntryPoint
  BY LearnAssumption DEF Enter, LInv, TypeOK, ControlInv, Index
<1>4. InUse' = {0}
  BY <1>3 DEF InUse
<1>5. Ids' = {EntryPoint}
  BY <1>3, <1>4 DEF Ids
<1>6. Sorted'
  BY <1>4 DEF Sorted
<1>7. ForgetsOnlyFarther'
  BY <1>3, <1>5 DEF ForgetsOnlyFarther, Ids
<1> QED BY <1>1, <1>2, <1>3, <1>5, <1>6, <1>7 DEF LInv, ArrayInv

(* A step that leaves the order of the array, the marks and the query alone. *)
LEMMA SameArray ==
  ASSUME LInv, Searching, len' = len, flags' = flags, todo' = todo,
         \A i \in InUse : retset'[i].id = retset[i].id
  PROVE  ArrayInv'
<1>1. InUse' = InUse
  BY DEF InUse
<1>2. Ids' = Ids
  BY <1>1 DEF Ids
<1>3. \A i \in InUse : At(i)' = At(i)
  BY DEF At, Dist
<1>4. Dist' = Dist
  BY DEF Dist
<1>5. ArrayInv
  BY DEF LInv
<1>6. Sorted'
  BY <1>1, <1>3, <1>5 DEF ArrayInv, Sorted
<1>7. ForgetsOnlyFarther
  BY <1>5 DEF ArrayInv
<1>8. ForgetsOnlyFarther'
  BY <1>1, <1>2, <1>3, <1>4, <1>7 DEF ForgetsOnlyFarther, Ids
<1> QED BY <1>2, <1>5, <1>6, <1>8 DEF ArrayInv

LEMMA PassLInv == ASSUME LInv, Pass PROVE LInv'
<1>1. ArrayInv'
  BY SameArray DEF Pass, Searching, arrayVars
<1>2. TypeOK' /\ ControlInv'
  BY LearnAssumption
     DEF Pass, LInv, TypeOK, ControlInv, Cursor, InitialNk, arrayVars
<1> QED BY <1>1, <1>2 DEF LInv

LEMMA ExpandLInv == ASSUME LInv, Expand PROVE LInv'
<1>1. \A i \in InUse : retset'[i].id = retset[i].id
  BY LearnAssumption DEF Expand, LInv, TypeOK, InUse, Index, Entry
<1>2. ArrayInv'
  BY <1>1, SameArray DEF Expand, Searching
<1>3. TypeOK' /\ ControlInv'
  <2>1. k \in Index /\ retset[k] \in Entry
    BY LearnAssumption DEF Expand, LInv, TypeOK, Index
  <2>2. [retset[k] EXCEPT !.flag = FALSE] \in Entry /\ retset[k].id \in Items
    BY <2>1 DEF Entry
  <2>3. retset' \in [Index -> Entry]
    BY <2>2 DEF Expand, LInv, TypeOK
  <2> QED BY <2>2, <2>3, LearnAssumption
          DEF Expand, LInv, TypeOK, ControlInv, InitialNk
<1> QED BY <1>2, <1>3 DEF LInv

LEMMA EndVisitLInv == ASSUME LInv, EndVisit PROVE LInv'
<1>1. ArrayInv'
  BY SameArray DEF EndVisit, Searching, arrayVars
<1>2. TypeOK' /\ ControlInv'
  BY LearnAssumption DEF EndVisit, LInv, TypeOK, ControlInv, Cursor, arrayVars
<1> QED BY <1>1, <1>2 DEF LInv

LEMMA ReturnLInv == ASSUME LInv, Return PROVE LInv'
<1>1. 0 \in Index /\ todo < Len(Dists) /\ Len(Dists) \in Nat
  BY LearnAssumption DEF Return, LInv, ArrayInv, Searching, Index
<1>2. retset[0].id \in Items
  BY <1>1 DEF LInv, TypeOK, Entry
<1>3. todo' \in 0 .. Len(Dists)
  BY <1>1 DEF Return, LInv, TypeOK
<1>4. TypeOK'
  BY <1>2, <1>3 DEF Return, LInv, TypeOK, arrayVars
<1> QED BY <1>4 DEF Return, LInv, ControlInv, ArrayInv, Searching

(* A neighbor seen before or refused. *)
LEMMA SkipLInv ==
  ASSUME LInv, pc = "visit", NEW v \in Items, flags' = flags \cup {v}, m' = m + 1,
         v \in flags \/ Refused(v),
         UNCHANGED <<retset, len, nk, graph, todo, pc, k, n, result>>
  PROVE  LInv'
<1>1. TypeOK' /\ ControlInv'
  BY DEF LInv, TypeOK, ControlInv
<1>2. InUse' = InUse /\ Ids' = Ids /\ Dist' = Dist /\ \A i : At(i)' = At(i)
  BY DEF InUse, Ids, Dist, At
<1>3. Searching /\ ArrayInv /\ TypeOK
  BY DEF Searching, LInv
<1>4. Sorted' /\ Ids' \subseteq flags' /\ todo' < Len(Dists) /\ len' >= 1
  BY <1>2, <1>3 DEF ArrayInv, Sorted
<1>5. /\ \A i \in InUse : At(i) \in Int /\ i \in Index
      /\ len \in 1 .. L /\ len - 1 \in InUse /\ Dist[v] \in Int
  BY <1>3, DistType DEF ArrayInv, InUse, Index
<1>6. ASSUME Refused(v), NEW i \in InUse
      PROVE  len = L /\ At(i) <= Dist[v]
  <2>1. At(i) <= At(len - 1)
    BY <1>3, <1>5 DEF ArrayInv, Sorted, InUse
  <2> QED BY <1>5, <1>6, <2>1 DEF Refused
<1>7. ForgetsOnlyFarther'
  <2>1. ForgetsOnlyFarther
    BY <1>3 DEF ArrayInv
  <2>2. SUFFICES ASSUME NEW u \in flags' \ Ids'
                 PROVE  len = L /\ \A i \in InUse : At(i) <= Dist[u]
    BY <1>2 DEF ForgetsOnlyFarther, Ids
  <2>3. CASE u \in flags
    BY <1>2, <1>3, <2>1, <2>2, <2>3 DEF ForgetsOnlyFarther, Ids
  <2>4. CASE u \notin flags
    BY <1>5, <1>6, <2>4
  <2> QED BY <2>3, <2>4
<1> QED BY <1>1, <1>4, <1>7 DEF LInv, ArrayInv

(* The entries after an insertion, by position. *)
LEMMA InsertEntries ==
  ASSUME LInv, pc = "visit", NEW v \in Items \ flags, ~ Refused(v),
         retset' = InsertAt(Place(v), v), len' = Grown
  PROVE  \E r \in 0 .. len :
           /\ r = Place(v) /\ r \in InUse' /\ r < L
           /\ retset'[r] = [id |-> v, flag |-> TRUE]
           /\ \A i \in InUse' : i < r => retset'[i] = retset[i] /\ i \in InUse
           /\ \A i \in InUse' :
                i > r => retset'[i] = retset[i - 1] /\ i - 1 \in InUse /\ i - 1 >= r
<1>1. Searching /\ ArrayInv /\ TypeOK
  BY DEF Searching, LInv
<1>2. PICK r : r = Place(v)
  OBVIOUS
<1>3. r \in 0 .. len /\ r < L
  BY <1>1, <1>2, PlaceSeparates
<1>4. L \in Nat \ {0} /\ len \in 1 .. L
  BY <1>1, DistType DEF ArrayInv
<1>5. len' \in len .. len + 1 /\ len' <= L /\ r < len'
  BY <1>3, <1>4 DEF Grown
<1>6. /\ \A i \in InUse' : i < r => retset'[i] = retset[i] /\ i \in InUse
      /\ retset'[r] = [id |-> v, flag |-> TRUE] /\ r \in InUse'
      /\ \A i \in InUse' : i > r => retset'[i] = retset[i - 1] /\ i - 1 \in InUse /\ i - 1 >= r
  BY <1>2, <1>3, <1>4, <1>5 DEF InsertAt, InUse, Index
<1> QED BY <1>2, <1>3, <1>6

(* A neighbor inserted. *)
LEMMA InsertLInv ==
  ASSUME LInv, pc = "visit", NEW v \in Items \ flags, ~ Refused(v),
         flags' = flags \cup {v}, m' = m + 1,
         retset' = InsertAt(Place(v), v), len' = Grown,
         nk' = IF Place(v) < nk THEN Place(v) ELSE nk,
         UNCHANGED <<graph, todo, pc, k, n, result>>
  PROVE  LInv'
<1>0. PICK r \in 0 .. len :
        /\ r = Place(v) /\ r \in InUse' /\ r < L
        /\ retset'[r] = [id |-> v, flag |-> TRUE]
        /\ \A i \in InUse' : i < r => retset'[i] = retset[i] /\ i \in InUse
        /\ \A i \in InUse' :
             i > r => retset'[i] = retset[i - 1] /\ i - 1 \in InUse /\ i - 1 >= r
  BY InsertEntries
<1>1. Searching /\ ArrayInv /\ TypeOK /\ ControlInv
  BY DEF Searching, LInv
<1>2. /\ r \in 0 .. len /\ r < L
      /\ \A i \in InUse : i < r => At(i) <= Dist[v]
      /\ \A i \in InUse : i >= r => Dist[v] <= At(i)
  BY <1>0, <1>1, PlaceSeparates
<1>3. /\ Dist \in [Items -> Int] /\ L \in Nat \ {0} /\ len \in 1 .. L
      /\ \A i \in Index : At(i) \in Int /\ retset[i].id \in Items
  BY <1>1, DistType DEF ArrayInv
<1>4. /\ len' \in len .. len + 1 /\ len' <= L /\ (len < L => len' = len + 1)
      /\ r < len'
  BY <1>2, <1>3 DEF Grown
<1>7. TypeOK'
  <2>1. retset' \in [Index -> Entry]
    <3>1. ASSUME NEW i \in Index
          PROVE  retset'[i] \in Entry
      <4>1. [id |-> v, flag |-> TRUE] \in Entry
        BY DEF Entry
      <4>2. r \in Int /\ i \in Int /\ len \in Int /\ r >= 0
        BY <1>2, <1>3 DEF Index
      <4>3. ~ (i < r) /\ i # r => i - 1 \in Index
        BY <1>3, <4>2 DEF Index
      <4> QED BY <1>0, <1>1, <4>1, <4>2, <4>3 DEF InsertAt, TypeOK
    <3> QED BY <3>1 DEF InsertAt
  <2>2. nk' \in 0 .. L
    BY <1>0, <1>1, <1>2, <1>3 DEF TypeOK
  <2> QED BY <1>1, <1>3, <1>4, <2>1, <2>2 DEF TypeOK
<1>8. ControlInv'
  BY <1>1, <1>3, <1>4 DEF ControlInv, TypeOK
<1>9. Dist' = Dist
  BY DEF Dist
<1>10. /\ \A i \in InUse' : i < r => At(i)' = At(i)
       /\ At(r)' = Dist[v]
       /\ \A i \in InUse' : i > r => At(i)' = At(i - 1)
  <2>1. \A i : At(i)' = Dist[retset'[i].id] /\ At(i) = Dist[retset[i].id]
    BY <1>9 DEF At
  <2>2. retset'[r].id = v
    BY <1>0
  <2> QED BY <1>0, <2>1, <2>2
<1>11. Ids' \subseteq Ids \cup {v}
  <2>1. ASSUME NEW i \in InUse'
        PROVE  retset'[i].id \in Ids \cup {v}
    <3>1. i \in Int /\ r \in Int
      BY <1>2 DEF InUse
    <3>2. i < r \/ i = r \/ i > r
      BY <3>1
    <3> QED BY <1>0, <3>2 DEF Ids
  <2> QED BY <2>1 DEF Ids
<1>12. \A i, j \in InUse : i < j => At(i) <= At(j) /\ retset[i].id # retset[j].id
  BY <1>1 DEF ArrayInv, Sorted
<1>13. \A i \in InUse : retset[i].id # v /\ i \in Index /\ i \in Int
  BY <1>1, <1>3 DEF ArrayInv, Ids, InUse, Index
<1>14. Sorted'
  <2>1. SUFFICES ASSUME NEW i \in InUse', NEW j \in InUse', i < j
                 PROVE  At(i)' <= At(j)' /\ retset'[i].id # retset'[j].id
    BY DEF Sorted
  <2>2. i \in Int /\ j \in Int /\ r \in Int
    BY <1>2 DEF InUse
  <2>3. CASE j < r
    BY <1>0, <1>10, <1>12, <2>1, <2>2, <2>3
  <2>4. CASE j = r
    <3>1. i < r /\ i \in InUse /\ retset'[i] = retset[i] /\ At(i)' = At(i)
      BY <1>0, <1>10, <2>1, <2>4
    <3>2. At(j)' = Dist[v] /\ retset'[j].id = v
      BY <1>0, <1>10, <2>4
    <3> QED BY <1>2, <1>13, <3>1, <3>2
  <2>5. CASE j > r /\ i < r
    <3>1. i \in InUse /\ j - 1 \in InUse /\ i < j - 1 /\ i < r /\ j > r
      BY <1>0, <2>2, <2>5
    <3> QED BY <1>0, <1>10, <1>12, <3>1
  <2>6. CASE j > r /\ i = r
    <3>1. /\ j - 1 >= r /\ j - 1 \in InUse
          /\ retset'[j] = retset[j - 1] /\ At(j)' = At(j - 1)
      BY <1>0, <1>10, <2>6
    <3>2. At(i)' = Dist[v] /\ retset'[i].id = v
      BY <1>0, <1>10, <2>6
    <3> QED BY <1>2, <1>13, <3>1, <3>2
  <2>7. CASE j > r /\ i > r
    <3>1. i - 1 \in InUse /\ j - 1 \in InUse /\ i - 1 < j - 1
      BY <1>0, <2>1, <2>2, <2>7
    <3> QED BY <1>0, <1>10, <1>12, <2>7, <3>1
  <2> QED BY <2>2, <2>3, <2>4, <2>5, <2>6, <2>7
(* Only the last entry of a full array is lost. *)
<1>15. \A i \in InUse : i < len' - 1 \/ i < r => retset[i].id \in Ids'
  <2>1. SUFFICES ASSUME NEW i \in InUse, i < len' - 1 \/ i < r
                 PROVE  retset[i].id \in Ids'
    OBVIOUS
  <2>2. i \in Int /\ r \in Int /\ len' \in Int /\ 0 <= i
    BY <1>2, <1>3, <1>4 DEF InUse
  <2>3. CASE i < r
    BY <1>4, <1>0, <2>2, <2>3 DEF Ids, InUse
  <2>4. CASE ~ (i < r)
    <3>1. i + 1 \in InUse' /\ i + 1 > r /\ (i + 1) - 1 = i
      BY <2>1, <2>2, <2>4 DEF InUse
    <3>2. retset'[i + 1] = retset[i]
      BY <1>0, <3>1
    <3> QED BY <3>1, <3>2 DEF Ids
  <2> QED BY <2>3, <2>4
<1>16. v \in Ids'
  BY <1>0 DEF Ids
<1>17. ForgetsOnlyFarther'
  <2>1. SUFFICES ASSUME NEW u \in flags' \ Ids'
                 PROVE  len' = L /\ \A i \in InUse' : At(i)' <= Dist[u]
    BY <1>9 DEF ForgetsOnlyFarther, Ids
  <2>2. u \in flags
    BY <1>16
  <2>3. len = L /\ len' = L /\ \A i \in InUse : At(i) <= Dist[u]
    <3>1. CASE u \in Ids
      <4>1. PICK j \in InUse : retset[j].id = u
        BY <3>1 DEF Ids
      <4>2. ~ (j < len' - 1) /\ j \in Int /\ j <= len - 1
        BY <1>13, <1>15, <2>1, <4>1 DEF InUse
      <4>3. j = len - 1 /\ len' = len
        BY <1>3, <1>4, <4>2
      <4>4. len = L
        BY <1>3, <1>4, <4>3
      <4>5. \A i \in InUse : At(i) <= At(j)
        BY <1>3, <1>12, <1>13, <4>3 DEF InUse
      <4>6. At(j) = Dist[u]
        BY <4>1 DEF At
      <4> QED BY <4>3, <4>4, <4>5, <4>6
    <3>2. CASE u \notin Ids
      <4>1. ForgetsOnlyFarther
        BY <1>1 DEF ArrayInv
      <4>2. len = L /\ \A i \in InUse : At(i) <= Dist[u]
        BY <1>1, <2>2, <3>2, <4>1 DEF ForgetsOnlyFarther, Ids
      <4> QED BY <1>3, <1>4, <4>2
    <3> QED BY <3>1, <3>2
  <2>4. len - 1 \in InUse /\ Dist[v] < At(len - 1) /\ u \in Items
    BY <1>1, <1>3, <2>2, <2>3 DEF Refused, InUse, TypeOK, Index
  <2>5. Dist[v] <= Dist[u]
    BY <1>3, <1>13, <2>3, <2>4
  <2>6. ASSUME NEW i \in InUse'
        PROVE  At(i)' <= Dist[u]
    <3>1. i < r \/ i = r \/ i > r
      BY <1>2, <1>4 DEF InUse
    <3>2. CASE i < r
      BY <1>0, <1>10, <2>3, <3>2
    <3>3. CASE i = r
      BY <1>10, <2>5, <3>3
    <3>4. CASE i > r
      BY <1>0, <1>10, <2>3, <3>4
    <3> QED BY <3>1, <3>2, <3>3, <3>4
  <2> QED BY <2>3, <2>6
<1>18. Ids' \subseteq flags' /\ todo' < Len(Dists) /\ len' >= 1
  BY <1>1, <1>3, <1>4, <1>11 DEF ArrayInv
<1> QED BY <1>7, <1>8, <1>14, <1>17, <1>18 DEF LInv, ArrayInv

LEMMA VisitLInv == ASSUME LInv, Visit PROVE LInv'
<1> DEFINE v == graph[n][m]
<1>1. v \in Items
  BY DEF LInv, TypeOK, ControlInv, Visit
<1>2. CASE v \in flags \/ Refused(v)
  BY <1>1, <1>2, SkipLInv DEF Visit
<1>3. CASE ~ (v \in flags \/ Refused(v))
  BY <1>1, <1>3, InsertLInv DEF Visit
<1> QED BY <1>2, <1>3

LEMMA NextLInv == LInv /\ [Next]_vars => LInv'
<1>1. ASSUME LInv, UNCHANGED vars
      PROVE  LInv'
  BY <1>1 DEF vars, arrayVars, LInv, TypeOK, ControlInv, ArrayInv, Searching,
              InUse, Ids, Sorted, ForgetsOnlyFarther, At, Dist
<1> QED BY <1>1, ClearLInv, EnterLInv, PassLInv, ExpandLInv, VisitLInv, EndVisitLInv,
           ReturnLInv DEF Next, Step

-----------------------------------------------------------------------------
(* The cursor *)

(* What is before the cursor is expanded; during an expansion, what is before
   the place the cursor goes to. *)
CursorInv ==
  /\ pc = "walk" => \A i \in InUse : i < k => ~ retset[i].flag
  /\ pc = "visit" => \A i \in InUse : i <= k /\ i < nk => ~ retset[i].flag

LEMMA NextCursor == LInv /\ CursorInv /\ [Next]_vars => CursorInv'
<1> SUFFICES ASSUME LInv, CursorInv, [Next]_vars
             PROVE  CursorInv'
  OBVIOUS
<1>1. /\ TypeOK /\ ControlInv /\ L \in Nat \ {0}
      /\ k \in Int /\ nk \in Int /\ len \in Int /\ \A i \in InUse : i \in Int /\ i < len
  BY LearnAssumption DEF LInv, TypeOK, InUse
<1>2. CASE Clear
  BY <1>2 DEF Clear, CursorInv
<1>3. CASE Enter
  <2>1. k' = 0 /\ \A i \in InUse' : ~ (i < 0)
    BY <1>1, <1>3 DEF Enter, ControlInv, InUse
  <2> QED BY <1>3, <2>1 DEF Enter, CursorInv
<1>4. CASE Pass
  <2>1. k' = k + 1 /\ InUse' = InUse
    BY <1>1, <1>4 DEF Pass, Cursor, InitialNk, arrayVars, InUse
  <2>2. \A i \in InUse : i < k + 1 => i < k \/ i = k
    BY <1>1
  <2> QED BY <1>4, <2>1, <2>2 DEF Pass, CursorInv, arrayVars
<1>5. CASE Expand
  <2>1. InUse' = InUse /\ k' = k
    BY <1>5 DEF Expand, InUse
  <2>2. ASSUME NEW i \in InUse, i <= k
        PROVE  ~ retset'[i].flag
    <3>1. i \in Index /\ retset[i] \in Entry
      BY <1>1 DEF TypeOK, InUse, Index
    <3>2. CASE i = k
      BY <1>1, <1>5, <3>1, <3>2 DEF Expand, TypeOK, Entry
    <3>3. CASE i < k
      BY <1>1, <1>5, <3>1, <3>3 DEF Expand, TypeOK, CursorInv
    <3> QED BY <1>1, <2>2, <3>2, <3>3
  <2> QED BY <1>5, <2>1, <2>2 DEF Expand, CursorInv
<1>6. CASE Visit
  <2> DEFINE v == graph[n][m]
  <2>1. v \in Items /\ pc = "visit"
    BY <1>1, <1>6 DEF TypeOK, ControlInv, Visit
  <2>2. CASE v \in flags \/ Refused(v)
    BY <1>6, <2>2 DEF Visit, CursorInv, InUse
  <2>3. CASE ~ (v \in flags \/ Refused(v))
    <3>1. PICK r \in 0 .. len :
            /\ r = Place(v)
            /\ \A i \in InUse' : i < r => retset'[i] = retset[i] /\ i \in InUse
      BY <1>6, <2>1, <2>3, InsertEntries DEF Visit
    <3>2. nk' <= r /\ nk' <= nk /\ nk' \in Int /\ r \in Int
      BY <1>1, <1>6, <2>3, <3>1 DEF Visit
    <3>3. \A i \in InUse' : i \in Int
      BY DEF InUse
    <3>4. \A i \in InUse' : i < nk' => i < r /\ i < nk
      BY <1>1, <3>2, <3>3
    <3> QED BY <1>6, <2>1, <3>1, <3>4 DEF Visit, CursorInv
  <2> QED BY <2>2, <2>3
<1>7. CASE EndVisit
  <2>1. InUse' = InUse /\ retset' = retset /\ k' = Cursor(nk) /\ pc = "visit" /\ pc' = "walk"
    BY <1>7 DEF EndVisit, arrayVars, InUse
  <2>2. \A i \in InUse : i < k' => i <= k /\ i < nk
    BY <1>1, <2>1 DEF Cursor
  <2> QED BY <2>1, <2>2 DEF CursorInv
<1>8. CASE Return
  BY <1>8 DEF Return, CursorInv
<1>9. CASE UNCHANGED vars
  BY <1>9 DEF vars, arrayVars, CursorInv, InUse
<1> QED BY <1>2, <1>3, <1>4, <1>5, <1>6, <1>7, <1>8, <1>9 DEF Next, Step

-----------------------------------------------------------------------------
(* The search implements BestFirstSearch *)

LEMMA SameOrder ==
  /\ \A dist, a, b : BestFirst!Less(dist, a, b) = Less(dist, a, b)
  /\ \A dist, c, S : BestFirst!Nearest(dist, c, S) = Nearest(dist, c, S)
  /\ \A S : BestFirst!Cardinality(S) = Cardinality(S)
<1>1. \A dist, a, b : BestFirst!Less(dist, a, b) = Less(dist, a, b)
  BY DEF BestFirst!Less, Less
<1>2. \A S : BestFirst!Cardinality(S) = Cardinality(S)
  BY DEF BestFirst!Cardinality, Cardinality
<1>3. \A dist, c, S : BestFirst!Nearest(dist, c, S) = Nearest(dist, c, S)
  BY <1>1, <1>2 DEF BestFirst!Nearest, Nearest
<1> QED BY <1>1, <1>2, <1>3

LEMMA QueryIs ==
  ASSUME TypeOK
  PROVE  /\ Len([i \in DOMAIN Dists |-> [dist |-> Dists[i], eps |-> <<EntryPoint>>]]) = Len(Dists)
         /\ todo < Len(Dists) =>
              /\ BestFirst!Query = [dist |-> Dist, eps |-> <<EntryPoint>>]
              /\ BestFirst!Entries(BestFirst!Query) = {EntryPoint}
<1>1. DOMAIN Dists = 1 .. Len(Dists) /\ Len(Dists) \in Nat
  BY LearnAssumption
<1>2. Len([i \in DOMAIN Dists |-> [dist |-> Dists[i], eps |-> <<EntryPoint>>]]) = Len(Dists)
  BY <1>1
<1>3. ASSUME todo < Len(Dists)
      PROVE  BestFirst!Query = [dist |-> Dist, eps |-> <<EntryPoint>>]
  <2>1. todo + 1 \in DOMAIN Dists
    BY <1>1, <1>3 DEF TypeOK
  <2> QED BY <2>1 DEF BestFirst!Query, Dist
<1>4. BestFirst!Entries([dist |-> Dist, eps |-> <<EntryPoint>>]) = {EntryPoint}
  BY DEF BestFirst!Entries
<1> QED BY <1>2, <1>3, <1>4

LEMMA FiniteIds ==
  LInv => /\ Ids \in SUBSET Items
          /\ IsFiniteSet(Ids)
          /\ Cardinality(Ids) \in Nat /\ Cardinality(Ids) <= L
          /\ IsFiniteSet(Coming) /\ Coming \in SUBSET Items
<1> SUFFICES ASSUME LInv
             PROVE  /\ Ids \in SUBSET Items
                    /\ IsFiniteSet(Ids)
                    /\ Cardinality(Ids) \in Nat /\ Cardinality(Ids) <= L
                    /\ IsFiniteSet(Coming) /\ Coming \in SUBSET Items
  OBVIOUS
<1>1. TypeOK /\ L \in Nat /\ len \in 0 .. L /\ InUse = 0 .. len - 1
  BY LearnAssumption DEF LInv, TypeOK, InUse
<1>2. Ids \in SUBSET Items
  BY <1>1 DEF Ids, TypeOK, Entry, Index
<1>3. IsFiniteSet(InUse) /\ Cardinality(InUse) = len
  BY <1>1, FS_Interval
<1>4. IsFiniteSet(Ids) /\ Cardinality(Ids) <= len
  <2> DEFINE f == [i \in InUse |-> retset[i].id]
  <2>1. f \in Surjection(InUse, Ids)
    BY DEF Ids, Surjection
  <2> QED BY <1>3, <2>1, FS_Surjection
<1>5. Cardinality(Ids) \in Nat
  BY <1>4, FS_CardinalityType
<1>6. IsFiniteSet(Coming) /\ Coming \in SUBSET Items
  <2>1. CASE pc = "visit"
    <3> DEFINE A == m .. Len(graph[n])
               C == {graph[n][i] : i \in A}
               f == [i \in A |-> graph[n][i]]
    <3>1. graph[n] \in Seq(Items) /\ m \in Nat /\ m >= 1
      BY <1>1, <2>1 DEF TypeOK, LInv, ControlInv
    <3>2. IsFiniteSet(A) /\ A \in SUBSET (1 .. Len(graph[n]))
      BY <3>1, FS_Interval
    <3>3. f \in Surjection(A, C)
      BY DEF Surjection
    <3>4. IsFiniteSet(C)
      BY <3>2, <3>3, FS_Surjection
    <3>5. C \in SUBSET Items
      BY <3>1, <3>2
    <3>6. Coming = C \ flags
      BY <2>1 DEF Coming
    <3> HIDE DEF C
    <3>7. Coming \in SUBSET C
      BY <3>6
    <3> QED BY <3>4, <3>5, <3>7, FS_Subset
  <2>2. CASE pc # "visit"
    <3>1. Coming = {}
      BY <2>2 DEF Coming
    <3> QED BY <3>1, FS_EmptySet
  <2> QED BY <2>1, <2>2
<1> QED BY <1>1, <1>2, <1>4, <1>5, <1>6

(* Between expansions the pool is what the array holds. *)
LEMMA PoolBetween ==
  LInv /\ pc # "visit" => PoolWithComing = Ids /\ Coming = {}
<1> SUFFICES ASSUME LInv, pc # "visit"
             PROVE  PoolWithComing = Ids /\ Coming = {}
  OBVIOUS
<1>1. Coming = {}
  BY DEF Coming
<1>2. PoolWithComing = IF todo < Len(Dists) THEN Nearest(Dist, L, Ids) ELSE Ids
  BY <1>1 DEF PoolWithComing, Ids
<1>3. ASSUME todo < Len(Dists)
      PROVE  Nearest(Dist, L, Ids) = Ids
  <2>1. Dist \in [Items -> Int] /\ Items \in SUBSET Nat /\ L \in Nat
    BY <1>3, DistType, LearnAssumption DEF LInv
  <2> QED BY <2>1, FiniteIds, NearestAll
<1> QED BY <1>1, <1>2, <1>3

(* The ids of the expanded entries of the array. *)
Marks == {retset[i].id : i \in {j \in InUse : ~ retset[j].flag}}

RInv == LInv /\ CursorInv

LEMMA InitBestFirst == Init => BestFirst!Init
<1> SUFFICES ASSUME Init
             PROVE  BestFirst!Init
  OBVIOUS
<1>1. InUse = {}
  BY DEF Init, InUse
<1>2. Ids = {} /\ Marks = {} /\ flags = {}
  BY <1>1 DEF Ids, Marks, Init
<1>3. PoolWithComing = {} /\ Coming = {}
  BY InitLInv, PoolBetween, <1>2 DEF Init
<1> QED BY <1>2, <1>3 DEF Init, BestFirst!Init, Marks

LEMMA ClearMaps == ASSUME RInv, Clear PROVE BestFirst!Clear
<1>1. LInv' /\ LInv
  BY ClearLInv DEF RInv
<1>2. PoolWithComing' = Ids' /\ Coming' = {}
  <2>1. (pc # "visit")'
    BY DEF Clear
  <2>2. (PoolWithComing = Ids /\ Coming = {})'
    BY <1>1, <2>1, PoolBetween, PTL
  <2> QED BY <2>2
<1>3. InUse' = {}
  BY DEF Clear, InUse
<1>4. Ids' = {} /\ Marks' = {}
  BY <1>3 DEF Ids, Marks
<1>5. Len([i \in DOMAIN Dists |-> [dist |-> Dists[i], eps |-> <<EntryPoint>>]]) = Len(Dists)
  BY <1>1, QueryIs DEF LInv
<1> QED BY <1>2, <1>4, <1>5 DEF Clear, BestFirst!Clear, Marks

LEMMA EnterMaps == ASSUME RInv, Enter PROVE BestFirst!Enter
<1>1. LInv' /\ LInv /\ TypeOK
  BY EnterLInv DEF RInv, LInv
<1>2. PoolWithComing' = Ids' /\ Coming' = {}
  <2>1. (pc # "visit")'
    BY DEF Enter
  <2>2. (PoolWithComing = Ids /\ Coming = {})'
    BY <1>1, <2>1, PoolBetween, PTL
  <2> QED BY <2>2
<1>3. PoolWithComing = Ids /\ Coming = {}
  BY <1>1, PoolBetween DEF Enter
<1>4. InUse = {} /\ InUse' = {0} /\ todo < Len(Dists)
  BY <1>1 DEF Enter, InUse, LInv, ControlInv
<1>5. Ids = {} /\ Marks = {}
  BY <1>4 DEF Ids, Marks
<1>6. retset'[0] = [id |-> EntryPoint, flag |-> TRUE]
  BY <1>1, LearnAssumption DEF Enter, TypeOK, Index
<1>7. Ids' = {EntryPoint} /\ Marks' = {}
  BY <1>4, <1>6 DEF Ids, Marks
<1>8. BestFirst!Query.dist = Dist /\ BestFirst!Entries(BestFirst!Query) = {EntryPoint}
  BY <1>1, <1>4, QueryIs
<1>9. Nearest(Dist, L, {EntryPoint}) = {EntryPoint}
  <2>1. Dist \in [Items -> Int] /\ Items \in SUBSET Nat /\ L \in Nat \ {0} /\ {EntryPoint} \in SUBSET Items
    BY <1>1, <1>4, DistType, LearnAssumption
  <2>2. IsFiniteSet({EntryPoint}) /\ Cardinality({EntryPoint}) = 1
    BY FS_Singleton
  <2> QED BY <2>1, <2>2, NearestAll
<1>10. BestFirst!PoolWith({EntryPoint}) = {EntryPoint}
  BY <1>3, <1>5, <1>8, <1>9, SameOrder DEF BestFirst!PoolWith
<1>11. flags' = {EntryPoint} /\ pc = "cleared" /\ pc' = "walk" /\ graph' = graph /\ todo' = todo
       /\ result' = result
  BY DEF Enter
<1> QED BY <1>2, <1>3, <1>5, <1>7, <1>8, <1>10, <1>11 DEF BestFirst!Enter, Marks

(* Two steps that only move the cursor. *)
LEMMA PassMaps == ASSUME RInv, Pass PROVE UNCHANGED BestFirst!vars
BY DEF Pass, arrayVars, BestFirst!vars, BestFirst!searchVars, PoolWithComing, Coming, InUse, Dist

LEMMA EndVisitMaps == ASSUME RInv, EndVisit PROVE UNCHANGED BestFirst!vars
<1>1. LInv' /\ LInv
  BY EndVisitLInv DEF RInv
<1>2. Coming = {} /\ Coming' = {}
  <2>1. m .. Len(graph[n]) = {}
    <3>1. n \in Items /\ graph[n] \in Seq(Items) /\ m \in Nat
      BY <1>1 DEF LInv, TypeOK
    <3> QED BY <3>1 DEF EndVisit
  <2> QED BY <2>1 DEF EndVisit, Coming
<1>3. UNCHANGED <<retset, len, flags, todo, graph, result>> /\ InUse' = InUse
  BY DEF EndVisit, arrayVars, InUse
<1>4. PoolWithComing' = PoolWithComing
  BY <1>2, <1>3 DEF PoolWithComing, Dist
<1> QED BY <1>2, <1>3, <1>4 DEF EndVisit, BestFirst!vars, BestFirst!searchVars

(* Without ties the array is in the order of the pool. *)
LEMMA SortedStrictly ==
  LInv /\ Searching /\ TieFree =>
    \A i, j \in InUse : i < j => Less(Dist, retset[i].id, retset[j].id)
<1> SUFFICES ASSUME LInv, Searching, TieFree, NEW i \in InUse, NEW j \in InUse, i < j
             PROVE  Less(Dist, retset[i].id, retset[j].id)
  OBVIOUS
<1>1. todo < Len(Dists) /\ TypeOK /\ At(i) <= At(j) /\ retset[i].id # retset[j].id
  BY DEF LInv, ArrayInv, Sorted
<1>2. i \in Index /\ j \in Index
  BY <1>1, DistType DEF InUse, Index
<1>3. At(i) # At(j) /\ At(i) \in Int /\ At(j) \in Int
  BY <1>1, <1>2, DistType DEF TieFree, At
<1> QED BY <1>1, <1>3 DEF Less, At

LEMMA ReturnMaps == ASSUME RInv, TieFree, Return PROVE BestFirst!Output
<1>1. LInv' /\ LInv /\ TypeOK /\ Searching /\ todo < Len(Dists) /\ len >= 1 /\ pc = "walk"
      /\ k >= len /\ pc' = "idle" /\ result' = retset[0].id /\ todo' = todo + 1
      /\ UNCHANGED <<graph, retset, len, flags>>
  BY ReturnLInv DEF RInv, LInv, ArrayInv, Searching, Return, arrayVars
<1>2. PoolWithComing' = Ids' /\ Coming' = {}
  <2>1. (pc # "visit")'
    BY <1>1
  <2>2. (PoolWithComing = Ids /\ Coming = {})'
    BY <1>1, <2>1, PoolBetween, PTL
  <2> QED BY <2>2
<1>3. PoolWithComing = Ids /\ Coming = {}
  BY <1>1, PoolBetween
<1>4. InUse' = InUse /\ Ids' = Ids
  BY <1>1 DEF InUse, Ids
<1>5. Marks = Ids
  <2>1. \A i \in InUse : ~ retset[i].flag
    <3>1. \A i \in InUse : i < k
      BY <1>1 DEF TypeOK, InUse
    <3> QED BY <1>1, <3>1 DEF RInv, CursorInv
  <2> QED BY <2>1 DEF Marks, Ids
<1>6. 0 \in InUse /\ \A i \in InUse : i = 0 \/ 0 < i
  BY <1>1 DEF InUse, TypeOK
<1>7. Nearest(Dist, 1, Ids) = {retset[0].id}
  <2>1. \A i, j \in InUse : i < j => Less(Dist, retset[i].id, retset[j].id)
    BY <1>1, SortedStrictly
  <2>2. Dist \in [Items -> Int] /\ Items \in SUBSET Nat /\ Ids \in SUBSET Items /\ IsFiniteSet(Ids)
    BY <1>1, DistType, FiniteIds, LearnAssumption
  <2>3. retset[0].id \in Ids
    BY <1>6 DEF Ids
  <2>4. \A b \in Ids : b # retset[0].id => Less(Dist, retset[0].id, b)
    BY <1>6, <2>1 DEF Ids
  <2>5. {b \in Ids : Less(Dist, b, retset[0].id)} = {}
    <3>1. ASSUME NEW b \in Ids, Less(Dist, b, retset[0].id)
          PROVE  FALSE
      <4>1. b \in Items /\ retset[0].id \in Items
        BY <2>2, <2>3
      <4>2. b # retset[0].id /\ ~ Less(Dist, retset[0].id, b)
        <5> DEFINE d == Dist
                   z == retset[0].id
        <5>1. /\ d[b] \in Int /\ d[z] \in Int /\ b \in Nat /\ z \in Nat
              /\ Less(d, b, z)
          BY <2>2, <3>1, <4>1
        <5> HIDE DEF d, z
        <5>2. b # z /\ ~ Less(d, z, b)
          BY <5>1 DEF Less
        <5> QED BY <5>2 DEF d, z
      <4> QED BY <2>4, <4>2
    <3> QED BY <3>1
  <2>6. Rank(Dist, Ids, retset[0].id) = 0
    BY <2>5, FS_EmptySet DEF Rank
  <2>7. ASSUME NEW b \in Ids, b # retset[0].id
        PROVE  ~ (Rank(Dist, Ids, b) < 1)
    <3>1. Rank(Dist, Ids, retset[0].id) < Rank(Dist, Ids, b)
      BY <2>2, <2>3, <2>4, <2>7, RankMonotone
    <3>2. Rank(Dist, Ids, b) \in Nat
      BY <2>2, RankType
    <3> QED BY <2>6, <3>1, <3>2
  <2>8. Nearest(Dist, 1, Ids) = {a \in Ids : Rank(Dist, Ids, a) < 1}
    BY NearestByRank
  <2> QED BY <2>3, <2>6, <2>7, <2>8
<1>8. ~ (BestFirst!Cardinality(Ids) < 1)
  <2>1. IsFiniteSet(Ids) /\ Cardinality(Ids) \in Nat /\ Ids # {}
    BY <1>1, <1>6, FiniteIds DEF Ids
  <2>2. Cardinality(Ids) # 0
    BY <2>1, FS_EmptySet
  <2> QED BY <2>1, <2>2, SameOrder
<1>9. BestFirst!Query.dist = Dist
  BY <1>1, QueryIs
<1>10. BestFirst!Nearest(Dist, 1, Ids) = {result'}
  BY <1>1, <1>7, SameOrder
<1>11. todo' # 0 /\ todo \in Nat
  BY <1>1 DEF TypeOK
<1>12. Marks' = Marks
  BY <1>1, <1>4 DEF Marks
<1> QED BY <1>1, <1>2, <1>3, <1>4, <1>5, <1>8, <1>9, <1>10, <1>11, <1>12
        DEF BestFirst!Output, BestFirst!Unexpanded, BestFirst!searchVars, Marks

LEMMA ExpandMaps ==
  ASSUME RInv, TieFree, Expand
  PROVE  \E x \in BestFirst!Unexpanded : BestFirst!Expand(x)
<1>0. PICK x : x = retset[k].id
  OBVIOUS
<1> DEFINE new == BestFirst!New(x)
<1>1. /\ LInv /\ TypeOK /\ Searching /\ todo < Len(Dists) /\ pc = "walk" /\ k < len
      /\ retset[k].flag /\ retset' = [retset EXCEPT ![k].flag = FALSE]
      /\ n' = x /\ m' = 1 /\ pc' = "visit" /\ UNCHANGED <<graph, todo, len, flags, result>>
  BY <1>0 DEF RInv, LInv, ArrayInv, Searching, Expand
<1>2. k \in InUse /\ InUse \in SUBSET Index /\ \A i \in InUse : i \in Int
  BY <1>1, DistType DEF InUse, Index, TypeOK
<1>3. PoolWithComing = Ids /\ Coming = {}
  BY <1>1, PoolBetween
<1>4. \A i, j \in InUse : i < j => Less(Dist, retset[i].id, retset[j].id) /\ retset[i].id # retset[j].id
  BY <1>1, SortedStrictly DEF LInv, ArrayInv, Sorted
<1>5. x \in Ids \ Marks
  <2>1. \A i \in InUse : i # k => retset[i].id # x
    BY <1>0, <1>2, <1>4
  <2> QED BY <1>0, <1>1, <1>2, <2>1 DEF Ids, Marks
<1>6. \A w \in (Ids \ Marks) \ {x} : Less(Dist, x, w)
  <2>1. SUFFICES ASSUME NEW j \in InUse, retset[j].flag, retset[j].id # x
                 PROVE  Less(Dist, x, retset[j].id)
    <3>1. \A j \in InUse : retset[j].id \notin Marks => retset[j].flag
      BY DEF Marks
    <3> QED BY <3>1 DEF Ids
  <2>2. k < j
    BY <1>0, <1>1, <1>2, <2>1 DEF RInv, CursorInv
  <2> QED BY <1>0, <1>2, <1>4, <2>2
<1>7. BestFirst!Unexpanded = Ids \ Marks
  BY <1>3 DEF BestFirst!Unexpanded, Marks
<1>8. BestFirst!Query.dist = Dist
  BY <1>1, QueryIs
<1>9. InUse' = InUse /\ Dist' = Dist
  BY <1>1 DEF InUse, Dist
<1>10. \A i \in InUse : /\ retset'[i].id = retset[i].id
                        /\ retset'[i].flag <=> (retset[i].flag /\ i # k)
  BY <1>1, <1>2 DEF TypeOK, Entry
<1>11. Ids' = Ids
  BY <1>9, <1>10 DEF Ids
<1>12. Marks' = Marks \cup {x}
  BY <1>0, <1>2, <1>9, <1>10 DEF Marks
<1>13. new = {graph[x][i] : i \in DOMAIN graph[x]} \ flags
  BY <1>3 DEF BestFirst!New, BestFirst!NeighborsOf
<1>14. Coming' = new
  <2>1. DOMAIN graph[x] = 1 .. Len(graph[x])
    BY <1>0, <1>1, <1>2 DEF TypeOK, Entry
  <2> QED BY <1>1, <1>13, <2>1 DEF Coming
<1> HIDE DEF new
<1>15. PoolWithComing' = Nearest(Dist, L, Ids \cup new)
  <2>1. PoolWithComing' = Nearest(Dist', L, Ids' \cup Coming')
    BY <1>1 DEF PoolWithComing, Ids
  <2> QED BY <1>9, <1>11, <1>14, <2>1
<1>16. BestFirst!PoolWith(new \ {}) = PoolWithComing'
  <2>1. new \ {} = new
    OBVIOUS
  <2> QED BY <1>3, <1>8, <1>15, <2>1, SameOrder DEF BestFirst!PoolWith
<1>17. BestFirst!Expand(x)
  <2>1. \A w \in BestFirst!Unexpanded \ {x} : BestFirst!Less(BestFirst!Query.dist, x, w)
    BY <1>6, <1>7, <1>8, SameOrder
  <2>2. flags' \cup Coming' = (flags \cup Coming) \cup new
    BY <1>1, <1>3, <1>14
  <2>3. Marks' \cap PoolWithComing' = ((Marks \cap PoolWithComing) \cup {x}) \cap PoolWithComing'
    <3>1. Marks \subseteq PoolWithComing
      BY <1>3 DEF Marks, Ids
    <3> QED BY <1>12, <3>1
  <2>4. /\ {} \in IF BestFirst!Cardinality(PoolWithComing) < L THEN {{}}
                   ELSE SUBSET (new \cap {})
        /\ PoolWithComing' = BestFirst!PoolWith(new \ {})
    BY <1>16
  <2>5. /\ (IF pc \in {"walk", "visit"} THEN "search" ELSE pc) = "search"
        /\ (IF pc' \in {"walk", "visit"} THEN "search" ELSE pc') = "search"
    BY <1>1
  <2> QED BY <1>1, <2>1, <2>2, <2>3, <2>4, <2>5 DEF BestFirst!Expand, BestFirst!Marked, Marks, new
<1> QED BY <1>5, <1>7, <1>17

LEMMA AsManyIds == LInv /\ Searching => Cardinality(Ids) = len
<1> SUFFICES ASSUME LInv, Searching
             PROVE  Cardinality(Ids) = len
  OBVIOUS
<1> DEFINE f == [i \in InUse |-> retset[i].id]
<1>1. L \in Nat /\ len \in 0 .. L /\ InUse = 0 .. len - 1
  BY LearnAssumption DEF LInv, TypeOK, InUse
<1>2. IsFiniteSet(InUse) /\ Cardinality(InUse) = len /\ \A i \in InUse : i \in Int
  BY <1>1, FS_Interval
<1>3. \A i, j \in InUse : i < j => retset[i].id # retset[j].id
  BY DEF LInv, ArrayInv, Sorted
<1>4. \A i, j \in InUse : f[i] = f[j] => i = j
  BY <1>2, <1>3
<1>5. f \in Surjection(InUse, Ids)
  BY DEF Ids, Surjection
<1>6. f \in Injection(InUse, Ids)
  BY <1>4 DEF Ids, Injection, IsInjective
<1> HIDE DEF f
<1> QED BY <1>2, <1>5, <1>6, FS_Surjection

(* What a visit does to the entries: at most v comes in, as an entry to expand,
   and what stays keeps its mark. *)
LEMMA VisitEntries ==
  ASSUME LInv, Visit
  PROVE  LET v == graph[n][m] IN
         /\ Ids' \subseteq Ids \cup ({v} \ flags)
         /\ Marks' \subseteq Marks
         /\ Marks \cap Ids' \subseteq Marks'
<1>0. PICK v : v = graph[n][m]
  OBVIOUS
<1>1. v \in Items /\ TypeOK /\ ArrayInv /\ Searching /\ pc = "visit"
  BY <1>0 DEF LInv, TypeOK, ControlInv, Visit, Searching
<1>2. CASE v \in flags \/ Refused(v)
  <2>1. retset' = retset /\ InUse' = InUse
    BY <1>0, <1>2 DEF Visit, InUse
  <2> QED BY <2>1 DEF Ids, Marks
<1>3. CASE ~ (v \in flags \/ Refused(v))
  <2>1. PICK r \in 0 .. len :
          /\ r = Place(v) /\ r \in InUse'
          /\ retset'[r] = [id |-> v, flag |-> TRUE]
          /\ \A i \in InUse' : i < r => retset'[i] = retset[i] /\ i \in InUse
          /\ \A i \in InUse' :
               i > r => retset'[i] = retset[i - 1] /\ i - 1 \in InUse
    BY <1>0, <1>1, <1>3, InsertEntries DEF Visit
  <2>2. \A i \in InUse' : i < r \/ i = r \/ i > r
    BY DEF InUse
  <2>3. \A i \in InUse' : i # r => \E j \in InUse : retset'[i] = retset[j]
    BY <2>1, <2>2
  <2>4. Ids' \subseteq Ids \cup ({v} \ flags)
    BY <1>3, <2>1, <2>3 DEF Ids
  <2>5. Marks' \subseteq Marks
    BY <2>1, <2>3 DEF Marks
  <2>6. ASSUME NEW y \in Marks, y \in Ids'
        PROVE  y \in Marks'
    <3>1. PICK i \in InUse : retset[i].id = y /\ ~ retset[i].flag
      BY DEF Marks
    <3>2. PICK j \in InUse' : retset'[j].id = y
      BY <2>6 DEF Ids
    <3>3. y \in flags
      BY <1>1, <3>1 DEF ArrayInv, Ids
    <3>4. j # r
      BY <1>3, <2>1, <3>2, <3>3
    <3>5. PICK i2 \in InUse : retset'[j] = retset[i2]
      BY <2>3, <3>4
    <3>6. i2 = i
      <4>1. i \in Int /\ i2 \in Int
        BY DEF InUse
      <4>2. ~ (i < i2) /\ ~ (i2 < i)
        BY <1>1, <3>1, <3>2, <3>5 DEF ArrayInv, Sorted
      <4> QED BY <4>1, <4>2
    <3> QED BY <3>1, <3>2, <3>5, <3>6 DEF Marks
  <2> QED BY <1>0, <2>4, <2>5, <2>6
<1> QED BY <1>2, <1>3

LEMMA VisitMaps == ASSUME RInv, TieFree, Visit PROVE UNCHANGED BestFirst!vars
<1>0. PICK v : v = graph[n][m]
  OBVIOUS
<1>1. /\ LInv /\ LInv' /\ pc = "visit" /\ flags' = flags \cup {v} /\ m' = m + 1
      /\ m <= Len(graph[n]) /\ UNCHANGED <<graph, todo, pc, n, result>>
  BY <1>0, VisitLInv DEF RInv, Visit
<1>2. /\ TypeOK /\ ArrayInv /\ Searching /\ todo < Len(Dists) /\ Ids \subseteq flags
      /\ graph[n] \in Seq(Items) /\ m \in Nat /\ m >= 1
  BY <1>1 DEF LInv, TypeOK, ControlInv, Searching, ArrayInv
<1>3. /\ Dist \in [Items -> Int] /\ L \in Nat \ {0} /\ Dist' = Dist
      /\ Items \in SUBSET Nat
  BY <1>1, <1>2, DistType, LearnAssumption DEF Dist
<1> DEFINE Rest(j) == {graph[n][i] : i \in j .. Len(graph[n])}
<1>4. Rest(m) = {v} \cup Rest(m + 1)
  <2>1. m .. Len(graph[n]) = {m} \cup (m + 1 .. Len(graph[n]))
    BY <1>1, <1>2
  <2> QED BY <1>0, <2>1
<1>5. Coming = Rest(m) \ flags /\ Coming' = Rest(m + 1) \ flags'
  BY <1>1 DEF Coming
<1> HIDE DEF Rest
<1>6. flags' \cup Coming' = flags \cup Coming /\ Coming' \subseteq Coming
      /\ ({v} \ flags) \subseteq Coming
  BY <1>1, <1>4, <1>5
<1>7. /\ Ids' \subseteq Ids \cup ({v} \ flags)
      /\ Marks' \subseteq Marks
      /\ Marks \cap Ids' \subseteq Marks'
  BY <1>0, <1>1, VisitEntries
<1> DEFINE S == Ids \cup Coming
           R == Ids' \cup Coming'
<1>8. R \subseteq S /\ S \ R \subseteq flags' \ Ids'
  BY <1>1, <1>2, <1>6, <1>7
<1>9. /\ IsFiniteSet(S) /\ S \in SUBSET Items
  BY <1>1, FiniteIds, FS_Union
<1>10. PoolWithComing = Nearest(Dist, L, S) /\ PoolWithComing' = Nearest(Dist, L, R)
  BY <1>1, <1>2, <1>3 DEF PoolWithComing, Ids
<1>11. Nearest(Dist, L, S) = Nearest(Dist, L, R)
  <2>1. CASE S = R
    BY <2>1
  <2>2. CASE S # R
    <3>1. ASSUME NEW x \in S \ R
          PROVE  len' = L /\ \A a \in Ids' : Less(Dist, a, x)
      <4>1. x \in flags' \ Ids' /\ x \in Items
        BY <1>8, <1>9
      <4>2. ForgetsOnlyFarther' /\ Searching'
        BY <1>1, <1>2 DEF LInv, ArrayInv, Searching
      <4>3. len' = L /\ \A i \in InUse' : At(i)' <= Dist[x]
        BY <1>3, <4>1, <4>2 DEF ForgetsOnlyFarther, Ids
      <4>4. ASSUME NEW i \in InUse'
            PROVE  Less(Dist, retset'[i].id, x)
        <5> DEFINE d == Dist
                   z == retset'[i].id
        <5>1. z \in Ids'
          BY DEF Ids
        <5>2. z \in Items /\ z # x
          BY <1>8, <1>9, <4>1, <5>1
        <5>3. d[z] <= d[x]
          BY <1>3, <4>3 DEF At
        <5>4. d[z] # d[x] /\ d[z] \in Int /\ d[x] \in Int
          BY <1>2, <1>3, <4>1, <5>2 DEF TieFree
        <5> HIDE DEF d, z
        <5>5. Less(d, z, x)
          BY <5>3, <5>4 DEF Less
        <5> QED BY <5>5 DEF d, z
      <4> QED BY <4>3, <4>4 DEF Ids
    <3>2. R \in SUBSET S /\ Ids' \in SUBSET R
      BY <1>8
    <3>3. Cardinality(Ids') >= L
      <4>1. Searching'
        BY <1>1, <1>2 DEF Searching
      <4>2. (Cardinality(Ids) = len)'
        BY <1>1, <4>1, AsManyIds, PTL
      <4>3. len' = L
        BY <1>8, <2>2, <3>1
      <4> QED BY <1>3, <4>2, <4>3
    <3> HIDE DEF S, R
    <3>4. \A a \in Ids' : \A x \in S \ R : Less(Dist, a, x)
      BY <3>1
    <3> QED BY <1>3, <1>9, <3>2, <3>3, <3>4, NearestDrop
  <2> QED BY <2>1, <2>2
<1>12. PoolWithComing' = PoolWithComing /\ PoolWithComing \subseteq R
  <2>1. Nearest(Dist, L, R) \subseteq R
    BY DEF Nearest
  <2> QED BY <1>10, <1>11, <2>1
<1>13. Marks' \cap PoolWithComing' = Marks \cap PoolWithComing
  <2>1. Marks \subseteq Ids
    BY DEF Marks, Ids
  <2>2. Coming' \cap Marks = {}
    BY <1>1, <1>2, <1>5, <2>1
  <2> QED BY <1>7, <1>12, <2>2
<1> QED BY <1>1, <1>6, <1>12, <1>13 DEF BestFirst!vars, BestFirst!searchVars, Marks

LEMMA NextBestFirst ==
  RInv /\ [Next]_vars => [TieFree => BestFirst!Next]_(BestFirst!vars)
<1> SUFFICES ASSUME RInv, [Next]_vars, TieFree
             PROVE  BestFirst!Next \/ UNCHANGED BestFirst!vars
  OBVIOUS
<1>1. CASE Clear
  BY <1>1, ClearMaps DEF BestFirst!Next, BestFirst!Search
<1>2. CASE Enter
  BY <1>2, EnterMaps DEF BestFirst!Next, BestFirst!Search
<1>3. CASE Pass
  BY <1>3, PassMaps
<1>4. CASE Expand
  BY <1>4, ExpandMaps DEF BestFirst!Next, BestFirst!Search
<1>5. CASE Visit
  BY <1>5, VisitMaps
<1>6. CASE EndVisit
  BY <1>6, EndVisitMaps
<1>7. CASE Return
  BY <1>7, ReturnMaps DEF BestFirst!Next, BestFirst!Search
<1>8. CASE UNCHANGED vars
  BY <1>8 DEF vars, arrayVars, BestFirst!vars, BestFirst!searchVars, PoolWithComing, Coming,
              InUse, Dist
<1> QED BY <1>1, <1>2, <1>3, <1>4, <1>5, <1>6, <1>7, <1>8 DEF Next, Step

-----------------------------------------------------------------------------
(* The theorems *)

(* The invariant of the search of the learn graph: what is in the array is
   marked, the array is sorted without duplicates, and a marked vertex that is
   not in it is far and the array full (index.cpp, lines 275-308). *)
THEOREM Invariance == Spec => []LInv
<1>1. Init => LInv
  BY InitLInv
<1>2. LInv /\ [Next]_vars => LInv'
  BY NextLInv
<1> QED BY <1>1, <1>2, PTL DEF Spec

(* The halving of InsertIntoPool keeps the array sorted and finds every vertex
   that is there already, with ties and for every capacity (neighbor.h, lines
   179-217). *)
THEOREM AlwaysSorted == Spec => []SortedWithoutDuplicates
<1>1. LInv => SortedWithoutDuplicates
  BY DEF LInv, ArrayInv, Sorted, SortedWithoutDuplicates
<1> QED BY <1>1, Invariance, PTL

(* Neither the refusal of far vertices nor the growing array loses a vertex
   nearer than one that is kept (index.cpp, lines 291-297). *)
THEOREM AlwaysForgetsFarther == Spec => []ForgetsOnlyFarther
<1>1. LInv => ForgetsOnlyFarther
  BY DEF LInv, ArrayInv, ForgetsOnlyFarther
<1> QED BY <1>1, Invariance, PTL

(* What is before the cursor is expanded, however often the cursor falls back,
   so nothing is left unexpanded at the end (index.cpp, lines 275-308). *)
THEOREM CursorInvariance == Spec => []RInv
<1>1. Init => RInv
  BY InitLInv DEF RInv, CursorInv, Init
<1>2. RInv /\ [Next]_vars => RInv'
  BY NextLInv, NextCursor DEF RInv
<1> QED BY <1>1, <1>2, PTL DEF Spec

(* For distances without ties the search of the learn graph is a best-first
   search: it expands the same vertices in the same order, keeps the L nearest
   and returns the nearest (index.cpp, lines 275-308). *)
THEOREM RefinesBestFirst == Spec => ImplementsBestFirst
<1>1. RInv /\ [Next]_vars => [TieFree => BestFirst!Next]_(BestFirst!vars)
  BY NextBestFirst
<1> QED BY <1>1, InitBestFirst, CursorInvariance, PTL DEF Spec, ImplementsBestFirst
=============================================================================
