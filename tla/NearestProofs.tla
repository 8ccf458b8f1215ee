---------------------------- MODULE NearestProofs ----------------------------
(* Facts about the order of the candidates and the n nearest of a finite set
   (Neighbors), for every set of items and every distance. *)
EXTENDS Neighbors, Functions, FiniteSetTheorems, TLAPS

(* A set of naturals that is not empty has a least element.  If it had none,
   the naturals below all of T would be closed under successor and finite, and
   the successor would inject them into fewer. *)
LEMMA LeastNatural ==
  ASSUME NEW T \in SUBSET Nat, T # {}
  PROVE  \E x \in T : \A y \in T : x <= y
<1> SUFFICES ASSUME \A x \in T : \E y \in T : y < x
             PROVE  FALSE
  OBVIOUS
<1> DEFINE D == {n \in Nat : \A t \in T : n < t}
           f == [n \in D |-> n + 1]
<1>1. PICK t \in T : TRUE
  OBVIOUS
<1>2. 0 \in D
  OBVIOUS
<1>3. \A n \in D : n + 1 \in D
  OBVIOUS
<1>4. IsFiniteSet(D)
  BY <1>1, FS_BoundedSetOfNaturals
<1>5. f \in [D -> D \ {0}]
  BY <1>3
<1>6. \A a, b \in D : f[a] = f[b] => a = b
  OBVIOUS
<1>7. Cardinality(D \ {0}) = Cardinality(D) - 1 /\ IsFiniteSet(D \ {0})
  BY <1>2, <1>4, FS_RemoveElement
<1>8. Cardinality(D) \in Nat
  BY <1>4, FS_CardinalityType
<1> HIDE DEF D, f
<1>9. \E a, b \in D : a # b /\ f[a] = f[b]
  BY <1>4, <1>5, <1>7, <1>8, FS_PigeonHole
<1> QED BY <1>6, <1>9

(* Less is a strict total order. *)
LEMMA LessIsOrder ==
  ASSUME NEW Items \in SUBSET Nat, NEW dist \in [Items -> Int]
  PROVE  /\ \A a \in Items : ~ Less(dist, a, a)
         /\ \A a, b \in Items : a # b => Less(dist, a, b) \/ Less(dist, b, a)
         /\ \A a, b, c \in Items :
              Less(dist, a, b) /\ Less(dist, b, c) => Less(dist, a, c)
BY DEF Less

(* The number of items of S that are nearer than v. *)
Rank(dist, S, v) == Cardinality({b \in S : Less(dist, b, v)})

LEMMA RankType ==
  ASSUME NEW S, IsFiniteSet(S), NEW dist, NEW v
  PROVE  /\ Rank(dist, S, v) \in Nat
         /\ IsFiniteSet({b \in S : Less(dist, b, v)})
<1>1. {b \in S : Less(dist, b, v)} \in SUBSET S
  OBVIOUS
<1> QED BY <1>1, FS_Subset, FS_CardinalityType DEF Rank

LEMMA NearestByRank ==
  ASSUME NEW S, NEW dist, NEW n
  PROVE  Nearest(dist, n, S) = {a \in S : Rank(dist, S, a) < n}
BY DEF Nearest, Rank

(* A nearer item has a lower rank. *)
LEMMA RankMonotone ==
  ASSUME NEW Items \in SUBSET Nat, NEW dist \in [Items -> Int],
         NEW S \in SUBSET Items, IsFiniteSet(S),
         NEW a \in S, NEW b \in S, Less(dist, a, b)
  PROVE  Rank(dist, S, a) < Rank(dist, S, b)
<1> DEFINE A == {c \in S : Less(dist, c, a)}
           B == {c \in S : Less(dist, c, b)}
<1>1. A \in SUBSET B
  BY LessIsOrder
<1>2. a \in B /\ a \notin A
  BY LessIsOrder
<1>3. IsFiniteSet(B) /\ Cardinality(A) \in Nat /\ Cardinality(B) \in Nat
  BY RankType DEF Rank
<1> HIDE DEF A, B
<1>4. Cardinality(A) <= Cardinality(B) /\ Cardinality(A) # Cardinality(B)
  BY <1>1, <1>2, <1>3, FS_Subset
<1>5. Cardinality(A) < Cardinality(B)
  BY <1>3, <1>4
<1> QED BY <1>5 DEF Rank, A, B

(* Everything kept is nearer than everything left out. *)
LEMMA NearestSeparates ==
  ASSUME NEW Items \in SUBSET Nat, NEW dist \in [Items -> Int],
         NEW S \in SUBSET Items, IsFiniteSet(S), NEW n \in Nat,
         NEW a \in Nearest(dist, n, S), NEW w \in S \ Nearest(dist, n, S)
  PROVE  Less(dist, a, w)
<1>1. a \in S /\ w \in S /\ Rank(dist, S, a) < n /\ ~ (Rank(dist, S, w) < n) /\ a # w
  BY NearestByRank
<1>2. Rank(dist, S, a) \in Nat /\ Rank(dist, S, w) \in Nat
  BY RankType
<1>3. ~ Less(dist, w, a)
  BY <1>1, <1>2, RankMonotone
<1> QED BY <1>1, <1>3, LessIsOrder

(* The n nearest are n at most ... *)
LEMMA NearestAtMost ==
  ASSUME NEW Items \in SUBSET Nat, NEW dist \in [Items -> Int],
         NEW S \in SUBSET Items, IsFiniteSet(S), NEW n \in Nat
  PROVE  /\ IsFiniteSet(Nearest(dist, n, S))
         /\ Cardinality(Nearest(dist, n, S)) \in 0 .. n
<1> DEFINE N == Nearest(dist, n, S)
           rank(v) == Rank(dist, S, v)
<1>1. N \in SUBSET S /\ \A a \in N : rank(a) < n
  BY NearestByRank
<1>2. IsFiniteSet(N) /\ Cardinality(N) \in Nat
  BY <1>1, FS_Subset, FS_CardinalityType
<1>3. \A v : rank(v) \in Nat
  BY RankType
<1>4. \A a, b \in S : Less(dist, a, b) => rank(a) < rank(b)
  BY RankMonotone
<1>5. \A v \in S : LET B == {b \in S : Less(dist, b, v)}
                  IN  IsFiniteSet(B) /\ Cardinality(B) = rank(v)
  BY RankType DEF Rank
<1> HIDE DEF N, rank
<1>6. CASE N = {}
  BY <1>2, <1>6, FS_EmptySet DEF N
<1>7. CASE N # {}
  <2> DEFINE T == {n - rank(a) : a \in N}
  <2>1. T \in SUBSET Nat /\ T # {}
    BY <1>1, <1>3, <1>7
  <2>2. PICK x \in T : \A y \in T : x <= y
    BY <2>1, LeastNatural
  <2>3. PICK m \in N : x = n - rank(m)
    BY <2>2
  <2> DEFINE B == {b \in S : Less(dist, b, m)}
  <2>4. ASSUME NEW a \in N \ {m}
        PROVE  a \in B
    <3>1. n - rank(m) <= n - rank(a)
      BY <2>2, <2>3
    <3>2. ~ (rank(m) < rank(a))
      BY <1>3, <3>1
    <3>3. ~ Less(dist, m, a)
      BY <1>1, <1>4, <3>2
    <3> QED BY <1>1, <3>3, LessIsOrder
  <2>5. IsFiniteSet(B) /\ Cardinality(B) = rank(m) /\ rank(m) \in Nat /\ rank(m) < n
    BY <1>1, <1>3, <1>5
  <2>6. Cardinality(N \ {m}) = Cardinality(N) - 1
    BY <1>2, FS_RemoveElement
  <2> HIDE DEF B, T
  <2>7. N \ {m} \in SUBSET B
    BY <2>4
  <2>8. Cardinality(N \ {m}) <= Cardinality(B)
    BY <2>5, <2>7, FS_Subset
  <2>9. Cardinality(N) \in 0 .. n
    BY <1>2, <2>5, <2>6, <2>8
  <2> QED BY <1>2, <2>9 DEF N
<1> QED BY <1>6, <1>7

(* ... and n exactly if an item is left out. *)
LEMMA NearestFull ==
  ASSUME NEW Items \in SUBSET Nat, NEW dist \in [Items -> Int],
         NEW S \in SUBSET Items, IsFiniteSet(S), NEW n \in Nat,
         S \ Nearest(dist, n, S) # {}
  PROVE  Cardinality(Nearest(dist, n, S)) >= n
<1> DEFINE N == Nearest(dist, n, S)
           rank(v) == Rank(dist, S, v)
<1>1. /\ N \in SUBSET S
      /\ \A a \in S : a \in N <=> rank(a) < n
  BY NearestByRank
<1>2. \A v : rank(v) \in Nat
  BY RankType
<1>3. \A a, b \in S : Less(dist, a, b) => rank(a) < rank(b)
  BY RankMonotone
<1>4. \A v \in S : Cardinality({b \in S : Less(dist, b, v)}) = rank(v)
  BY DEF Rank
<1>5. S \ N # {}
  OBVIOUS
<1> HIDE DEF N, rank
<1> DEFINE T == {rank(w) : w \in S \ N}
<1>6. T \in SUBSET Nat /\ T # {}
  BY <1>2, <1>5
<1>7. PICK x \in T : \A y \in T : x <= y
  BY <1>6, LeastNatural
<1>8. PICK w \in S \ N : x = rank(w)
  BY <1>7
<1>9. \A b \in S \ N : rank(w) <= rank(b)
  BY <1>7, <1>8
<1> DEFINE B == {b \in S : Less(dist, b, w)}
<1>10. B \in SUBSET N
  BY <1>2, <1>3, <1>8, <1>9
<1>11. Cardinality(B) \in Nat /\ Cardinality(B) >= n
  BY <1>1, <1>2, <1>4, <1>8
<1> HIDE DEF B, T
<1>12. IsFiniteSet(N) /\ Cardinality(N) \in Nat
  BY <1>1, FS_Subset, FS_CardinalityType
<1>13. Cardinality(B) <= Cardinality(N)
  BY <1>10, <1>12, FS_Subset
<1>14. Cardinality(N) >= n
  BY <1>11, <1>12, <1>13
<1> QED BY <1>14 DEF N

(* Nothing is left out of a set of n items. *)
LEMMA NearestAll ==
  ASSUME NEW Items \in SUBSET Nat, NEW dist \in [Items -> Int],
         NEW S \in SUBSET Items, IsFiniteSet(S), NEW n \in Nat,
         Cardinality(S) <= n
  PROVE  Nearest(dist, n, S) = S
<1> SUFFICES ASSUME NEW a \in S
             PROVE  Rank(dist, S, a) < n
  BY NearestByRank
<1> DEFINE B == {b \in S : Less(dist, b, a)}
<1>1. B \in SUBSET S /\ a \notin B
  BY LessIsOrder
<1>2. Cardinality(B) \in Nat /\ Cardinality(B) = Rank(dist, S, a)
  BY RankType DEF Rank
<1> HIDE DEF B
<1>3. Cardinality(B) <= Cardinality(S) /\ Cardinality(B) # Cardinality(S)
  BY <1>1, FS_Subset
<1>4. Cardinality(S) \in Nat
  BY FS_CardinalityType
<1> QED BY <1>2, <1>3, <1>4

(* A set that n items of it are nearer than all it loses keeps its n nearest. *)
LEMMA NearestDrop ==
  ASSUME NEW Items \in SUBSET Nat,
         NEW S \in SUBSET Items, NEW R \in SUBSET S, NEW N \in SUBSET R, IsFiniteSet(S),
         NEW dist \in [Items -> Int], NEW c \in Nat, Cardinality(N) >= c,
         \A a \in N : \A x \in S \ R : Less(dist, a, x)
  PROVE  Nearest(dist, c, S) = Nearest(dist, c, R)
<1>1. /\ Items \in SUBSET Nat /\ IsFiniteSet(R) /\ IsFiniteSet(N) /\ Cardinality(N) \in Nat
      /\ R \in SUBSET Items /\ N \in SUBSET Items
  BY FS_Subset, FS_CardinalityType
<1>2. ASSUME NEW T \in {S, R}, NEW a \in Items, \A b \in N : Less(dist, b, a)
      PROVE  ~ (Rank(dist, T, a) < c)
  <2> DEFINE B == {b \in T : Less(dist, b, a)}
  <2>1. IsFiniteSet(T) /\ N \in SUBSET B
    BY <1>1, <1>2
  <2>2. IsFiniteSet(B) /\ Rank(dist, T, a) = Cardinality(B)
    BY <2>1, RankType DEF Rank
  <2> HIDE DEF B
  <2>3. Cardinality(N) <= Cardinality(B) /\ Cardinality(B) \in Nat
    BY <2>1, <2>2, FS_Subset, FS_CardinalityType
  <2> QED BY <1>1, <2>2, <2>3
<1>3. ASSUME NEW a \in R
      PROVE  Rank(dist, S, a) < c <=> Rank(dist, R, a) < c
  <2>1. CASE \E x \in S \ R : Less(dist, x, a)
    <3>1. \A b \in N : Less(dist, b, a)
      BY <1>1, <2>1, LessIsOrder
    <3>2. a \in Items
      BY <1>1
    <3> QED BY <1>2, <3>1, <3>2
  <2>2. CASE ~ \E x \in S \ R : Less(dist, x, a)
    <3>1. {b \in S : Less(dist, b, a)} = {b \in R : Less(dist, b, a)}
      BY <2>2
    <3> QED BY <3>1 DEF Rank
  <2> QED BY <2>1, <2>2
<1>4. \A a \in S \ R : ~ (Rank(dist, S, a) < c)
  BY <1>1, <1>2
<1>5. /\ Nearest(dist, c, S) = {a \in S : Rank(dist, S, a) < c}
      /\ Nearest(dist, c, R) = {a \in R : Rank(dist, R, a) < c}
  BY NearestByRank
<1> QED BY <1>3, <1>4, <1>5

(* Items may come to the n nearest in two rounds. *)
LEMMA NearestTwice ==
  ASSUME NEW Items \in SUBSET Nat, NEW dist \in [Items -> Int],
         NEW P \in SUBSET Items, NEW Y \in SUBSET Items, IsFiniteSet(P), IsFiniteSet(Y),
         NEW c \in Nat
  PROVE  Nearest(dist, c, Nearest(dist, c, P) \cup Y) = Nearest(dist, c, P \cup Y)
<1> DEFINE N == Nearest(dist, c, P)
           S == P \cup Y
           R == N \cup Y
<1>1. N \in SUBSET P
  BY DEF Nearest
<1>2. S \in SUBSET Items /\ R \in SUBSET S /\ N \in SUBSET R /\ IsFiniteSet(S)
  BY <1>1, FS_Union
<1>3. S \ R \subseteq P \ N
  OBVIOUS
<1>4. CASE S \ R = {}
  <2>1. S = R
    BY <1>2, <1>4
  <2> QED BY <2>1
<1>5. CASE S \ R # {}
  <2>1. Cardinality(N) >= c
    BY <1>3, <1>5, NearestFull
  <2>2. \A a \in N : \A x \in S \ R : Less(dist, a, x)
    BY <1>3, NearestSeparates
  <2> HIDE DEF N, S, R
  <2>3. Nearest(dist, c, S) = Nearest(dist, c, R)
    BY <1>2, <2>1, <2>2, NearestDrop
  <2> QED BY <2>3 DEF N, S, R
<1> QED BY <1>4, <1>5
=============================================================================
