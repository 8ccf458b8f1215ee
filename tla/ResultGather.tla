---------------------------- MODULE ResultGather ----------------------------
(***************************************************************************)
(* How the two distributed programs put their result together.  In the     *)
(* map-reduce baseline (tests/test_map_reduce.cpp) every rank searches     *)
(* every query in its own subset of the vertices and rank 0 merges the     *)
(* answers.  In the dynamic test (test_search_distributed_with_dynamic_    *)
(* scheduling) every query is searched by one rank and rank 0 adds up the  *)
(* recalls of the ranks.                                                   *)
(*                                                                         *)
(* Both run T threads on a result array, join them, and gather rank by     *)
(* rank; the stages of the main thread, barriers included, are a table.    *)
(* What a search answers is arbitrary: any K vertices it can see.  The     *)
(* dynamic test takes its queries from what WorkPool promises, that each   *)
(* is handed out once.  Vertices are numbered as in the ground truth.      *)
(***************************************************************************)
EXTENDS Integers, Sequences, FiniteSets, SequencesExt

CONSTANTS Queries,      \* rows of the query file, 0 .. query_num - 1
          K,
          Cases,        \* inputs: [mode, servers, threads, sizes, dist, truth, buffered]
          Root          \* the rank that gathers: 0

SumTo(f, n) == FoldFunctionOnSet(+, 0, f, 0 .. n - 1)

\* A case: the program, the number of ranks and of their threads, the size
\* of each rank's subset, how far each vertex is from each query, the ground
\* truth of each query, and whether MPI buffers a result, so that the wait
\* for its isend returns at once.
ASSUME ResultGatherAssumption ==
    /\ Root = 0
    /\ \A c \in Cases :
          /\ c.mode \in {"map_reduce", "dynamic"} /\ c.buffered \in BOOLEAN
          /\ c.servers \in Nat \ {0} /\ c.threads \in Nat \ {0}
          /\ c.sizes \in [0 .. c.servers - 1 -> {n \in Nat : n >= K}]
          /\ LET vertices == 0 .. SumTo(c.sizes, c.servers) - 1
             IN  /\ c.dist \in [Queries -> [vertices -> Nat]]
                 /\ c.truth \in [Queries -> {S \in SUBSET vertices : Cardinality(S) = K}]
                 /\ \A q \in Queries : \A v, w \in vertices :
                       v # w => c.dist[q][v] # c.dist[q][w]

VARIABLES case,   \* the input
          pc,     \* stage of each rank's main thread
          iter,   \* map-reduce: the shared counter of each rank
          owner,  \* dynamic: the rank a query was handed out to, or NoRank
          job,    \* per rank and thread: the query it has, or Idle or Done
          res,    \* res_indices / res: the answers of each rank, a row per query
          sent,   \* the message a rank has sent to rank 0
          from,   \* the rank whose result rank 0 takes next
          total   \* what rank 0 has gathered: rows to merge, hits

NumServers == case.servers   \* Global::num_servers
Ranks == 0 .. NumServers - 1
Threads == 1 .. case.threads  \* T

vars == <<case, pc, iter, owner, job, res, sent, from, total>>

-----------------------------------------------------------------------------
(* The stages of main. *)

MapReduceStages == <<"barrier", "barrier", "search", "barrier", "shift",
                     "barrier", "barrier", "gather", "report", "barrier", "exit">>
DynamicStages == <<"barrier", "barrier", "barrier", "search", "barrier",
                   "barrier", "gather", "barrier", "barrier", "exit">>
Stages == IF case.mode = "map_reduce" THEN MapReduceStages ELSE DynamicStages
At(r, stage) == Stages[pc[r]] = stage
NextStage(r) == pc' = [pc EXCEPT ![r] = @ + 1]

-----------------------------------------------------------------------------
(* The data. *)

NoRank == -1
Idle == -1
Done == -2

Prefix(r) == SumTo(case.sizes, r)
Vertices == 0 .. Prefix(NumServers) - 1
Subset(r) == Prefix(r) .. Prefix(r) + case.sizes[r] - 1

\* What a search may leave in a row: K vertices of the own subset under
\* their local numbers, nearest first, or K vertices of the whole graph.
InOrder(q, S) == SetToSortSeq(S, LAMBDA v, w : case.dist[q][v] < case.dist[q][w])
Row(q, S, first) == [k \in 1 .. K |-> LET v == InOrder(q, S)[k]
                                      IN  [id |-> v - first, dist |-> case.dist[q][v]]]
Answers(r, q) ==
    IF case.mode = "map_reduce"
    THEN {Row(q, S, Prefix(r)) : S \in kSubset(K, Subset(r))}
    ELSE {Row(q, S, 0) : S \in kSubset(K, Vertices)}

\* The rows before a search: resize fills them with zeros.
ZeroRow == [k \in 1 .. K |-> [id |-> 0, dist |-> 0]]

\* Fault: an id that stands twice in a row is counted twice.
RowHitsWithRepeats(q, row) == Cardinality({k \in 1 .. K : row[k].id \in case.truth[q]})

\* get_recall and compute_recall over all rows, times K: hits, not a ratio.
RowHits(q, row) == Cardinality(case.truth[q] \cap {row[k].id : k \in 1 .. K})
Recall(rows) == SumTo([q \in Queries |-> RowHits(q, rows[q])], Cardinality(Queries))

NoResult == [rows |-> [q \in Queries |-> <<>>], hits |-> 0]

-----------------------------------------------------------------------------
(* The worker threads. *)

Init ==
    /\ case \in Cases
    /\ pc = [r \in Ranks |-> 1]
    /\ iter = [r \in Ranks |-> 0]
    /\ owner = [q \in Queries |-> NoRank]
    /\ job = [r \in Ranks |-> [t \in Threads |-> Idle]]
    /\ res = [r \in Ranks |-> [q \in Queries |-> ZeroRow]]
    /\ sent = [r \in Ranks |-> <<>>]
    /\ from = Root
    /\ total = NoResult

\* iter.fetch_add(1): a query of bucket, which holds them all, or the end of
\* the thread.
TakeQuery(r, t) ==
    /\ case.mode = "map_reduce" /\ At(r, "search") /\ job[r][t] = Idle
    /\ iter' = [iter EXCEPT ![r] = @ + 1]
    /\ job' = [job EXCEPT ![r][t] = IF iter[r] < Cardinality(Queries) THEN iter[r] ELSE Done]
    /\ UNCHANGED <<case, pc, owner, res, sent, from, total>>

\* dequeue_succ: a query that no thread of any rank has had.
DequeueQuery(r, t) ==
    /\ case.mode = "dynamic" /\ At(r, "search") /\ job[r][t] = Idle
    /\ \E q \in Queries :
          /\ owner[q] = NoRank
          /\ owner' = [owner EXCEPT ![q] = r]
          /\ job' = [job EXCEPT ![r][t] = q]
    /\ UNCHANGED <<case, pc, iter, res, sent, from, total>>

\* dequeue_fail from every proxy: the thread ends, while queries may still be
\* dispatched and searched by others, but not as the last thread of all.
EndThread(r, t) ==
    /\ case.mode = "dynamic" /\ At(r, "search") /\ job[r][t] = Idle
    /\ \/ \A q \in Queries : owner[q] # NoRank
       \/ \E p \in Ranks, u \in Threads : <<p, u>> # <<r, t>> /\ job[p][u] # Done
    /\ job' = [job EXCEPT ![r][t] = Done]
    /\ UNCHANGED <<case, pc, iter, owner, res, sent, from, total>>

\* The search writes the row of its query.
Search(r, t) ==
    /\ job[r][t] >= 0
    /\ \E row \in Answers(r, job[r][t]) : res' = [res EXCEPT ![r][job[r][t]] = row]
    /\ job' = [job EXCEPT ![r][t] = Idle]
    /\ UNCHANGED <<case, pc, iter, owner, sent, from, total>>

-----------------------------------------------------------------------------
(* The main threads. *)

\* The main thread joins the threads.
Join(r) ==
    /\ At(r, "search") /\ \A t \in Threads : job[r][t] = Done
    /\ NextStage(r)
    /\ UNCHANGED <<case, iter, owner, job, res, sent, from, total>>

\* Nobody leaves a barrier before everybody has reached it.
Barrier(r) ==
    /\ At(r, "barrier")
    /\ \A p \in Ranks : pc[p] >= pc[r]
    /\ NextStage(r)
    /\ UNCHANGED <<case, iter, owner, job, res, sent, from, total>>

\* Fault: the offset of a rank that holds the last subset is one short.
PrevNumShort(r) == r * (case.sizes[r] - 1)

\* Local ids become global ones: sid times the size of the own subset.
PrevNum(r) == r * case.sizes[r]
Shift(r) ==
    /\ At(r, "shift")
    /\ res' = [res EXCEPT ![r] =
                 [q \in Queries |-> [k \in 1 .. K |-> [@[q][k] EXCEPT !.id = @ + PrevNum(r)]]]]
    /\ NextStage(r)
    /\ UNCHANGED <<case, iter, owner, job, sent, from, total>>

\* What a rank sends: its rows, or the recall it has computed over all rows.
Contribution(r) ==
    IF case.mode = "map_reduce" THEN [NoResult EXCEPT !.rows = res[r]]
    ELSE [NoResult EXCEPT !.hits = Recall(res[r])]

\* isend of the result, and the wait for it: a message that MPI does not
\* buffer is only sent when rank 0 receives it.
Send(r) ==
    /\ At(r, "gather") /\ r # Root /\ sent[r] = <<>>
    /\ sent' = [sent EXCEPT ![r] = <<Contribution(r)>>]
    /\ UNCHANGED <<case, pc, iter, owner, job, res, from, total>>
SendDone(r) ==
    /\ At(r, "gather") /\ r # Root /\ sent[r] # <<>>
    /\ case.buffered \/ from > r
    /\ NextStage(r)
    /\ UNCHANGED <<case, iter, owner, job, res, sent, from, total>>

\* Fault: the loop over the ranks starts with rank 0 itself.
NextResultFromAll == sent[from]

\* Rank 0 starts with its own result and receives the others in order of
\* rank; rows are appended, recalls added.
NextResult == IF from = Root THEN <<Contribution(Root)>> ELSE sent[from]
Receive ==
    /\ At(Root, "gather") /\ from < NumServers /\ NextResult # <<>>
    /\ LET msg == Head(NextResult)
       IN  total' = [rows |-> [q \in Queries |-> total.rows[q] \o msg.rows[q]],
                     hits |-> total.hits + msg.hits]
    /\ from' = from + 1
    /\ UNCHANGED <<case, pc, iter, owner, job, res, sent>>
EndGather ==
    /\ At(Root, "gather") /\ from = NumServers
    /\ NextStage(Root)
    /\ UNCHANGED <<case, iter, owner, job, res, sent, from, total>>

\* Rank 0 sorts the NumServers * K entries of every query by distance.
Merged(row) == SortSeq(row, LAMBDA a, b : a.dist < b.dist)
Report(r) ==
    /\ At(r, "report")
    /\ total' = IF r = Root THEN [total EXCEPT !.rows = [q \in Queries |-> Merged(@[q])]]
                ELSE total
    /\ NextStage(r)
    /\ UNCHANGED <<case, iter, owner, job, res, sent, from>>

Exited == \A r \in Ranks : At(r, "exit")

Main(r) ==
    \/ Join(r) \/ Barrier(r) \/ Shift(r)
    \/ Send(r) \/ SendDone(r) \/ Report(r)
    \/ r = Root /\ (Receive \/ EndGather)
Worker(r, t) == TakeQuery(r, t) \/ DequeueQuery(r, t) \/ EndThread(r, t) \/ Search(r, t)

Next ==
    \/ \E r \in Ranks : Main(r) \/ \E t \in Threads : Worker(r, t)
    \/ Exited /\ UNCHANGED vars

\* Every thread of every rank goes on.
AllRanks == UNION {0 .. c.servers - 1 : c \in Cases}
AllThreads == UNION {1 .. c.threads : c \in Cases}
Spec ==
    /\ Init /\ [][Next]_vars
    /\ \A r \in AllRanks :
          /\ WF_vars(r \in Ranks /\ Main(r))
          /\ \A t \in AllThreads : WF_vars(r \in Ranks /\ t \in Threads /\ Worker(r, t))

-----------------------------------------------------------------------------
(* Properties *)

\* Types of the counters and of the stages.
TypeOK ==
    /\ case \in Cases /\ from \in 0 .. NumServers
    /\ pc \in [Ranks -> 1 .. Len(Stages)] /\ iter \in [Ranks -> Nat]
    /\ owner \in [Queries -> Ranks \cup {NoRank}]
    /\ job \in [Ranks -> [Threads -> Queries \cup {Idle, Done}]]

Reported == At(Root, "exit")

\* The vertex at a distance, the rank whose subset holds it, and whether the
\* offset of that rank is the number of vertices before its subset.
VertexAt(q, d) == CHOOSE v \in Vertices : case.dist[q][v] = d
Holder(v) == CHOOSE r \in Ranks : v \in Subset(r)
OffsetRight(r) == r * case.sizes[r] = Prefix(r)

\* The merged answer of every query (test_map_reduce.cpp:216-237) loses
\* nothing and repeats nothing: it holds every entry of every rank's answer,
\* whatever the searches found, nearest first, so that its first K, which the
\* recall counts, are the K nearest of them all.  An entry has the id of the
\* vertex at its distance as far as the subsets before that vertex are as
\* large as its own (line 159 multiplies by the own size).
MergedIsNearest ==
    /\ TypeOK
    /\ Reported /\ case.mode = "map_reduce" =>
        \A q \in Queries :
            LET merged == total.rows[q]
                found == UNION {{res[r][q][k].dist : k \in 1 .. K} : r \in Ranks}
            IN  /\ Len(merged) = NumServers * K /\ Cardinality(found) = NumServers * K
                /\ {merged[k].dist : k \in DOMAIN merged} = found
                /\ \A j, k \in DOMAIN merged : j < k => merged[j].dist < merged[k].dist
                /\ \A k \in DOMAIN merged :
                      LET v == VertexAt(q, merged[k].dist)
                      IN  OffsetRight(Holder(v)) => merged[k].id = v

\* The final recall of the dynamic test counts the answer of every query
\* once, in the row of the rank that searched it, and in addition one hit
\* per other rank for each query with vertex 0 in its ground truth: each
\* rank computes its recall over all rows (test_search_distributed.cpp:667),
\* and compute_recall reads a row that the rank has not filled as the answer
\* 0 (common.h:252).
RecallCountsRows ==
    Reported /\ case.mode = "dynamic" =>
        /\ \A q \in Queries : owner[q] # NoRank
        /\ total.hits =
              SumTo([q \in Queries |-> RowHits(q, res[owner[q]][q])], Cardinality(Queries))
                + (NumServers - 1) * Cardinality({q \in Queries : 0 \in case.truth[q]})

\* All ranks exit, whether MPI buffers the results or not: no barrier, no
\* receive and no wait of a rank stands for a rank that has gone another way
\* or waits itself.
AllExit == <>Exited
=============================================================================
