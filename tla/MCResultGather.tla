-------------------------- MODULE MCResultGather --------------------------
(* Two queries with two answers.  Three ranks, of which the last may have *)
(* more vertices than the others, and two ranks with two threads each;     *)
(* ground truths with and without vertex 0, results that MPI buffers or    *)
(* not.                                                                    *)
EXTENDS ResultGather

MCQueries == 0 .. 1
\* An order of the vertices for a query: multiplication modulo a prime.
MCDist(n) == [q \in MCQueries |-> [v \in 0 .. n - 1 |-> ((v + 4) * (q + 2)) % 11]]
\* One rank has n vertices, the others two.
Case(mode, servers, threads, rank, n, buffered) ==
    LET sizes == [r \in 0 .. servers - 1 |-> IF r = rank THEN n ELSE 2]
    IN  [mode |-> mode, servers |-> servers, threads |-> threads, sizes |-> sizes,
         dist |-> MCDist(SumTo(sizes, servers)), truth |-> [q \in MCQueries |-> {q, 3}],
         buffered |-> buffered]
MCCases ==
    {Case("map_reduce", 3, 1, 0, 2, TRUE), Case("map_reduce", 3, 1, 2, 3, FALSE),
     Case("map_reduce", 2, 2, 1, 3, FALSE), Case("dynamic", 3, 1, 0, 2, FALSE)}
      \cup {Case("dynamic", 2, 2, 0, 2, b) : b \in BOOLEAN}
=============================================================================
