---------------------------- MODULE RelaxedSearch ----------------------------
(***************************************************************************)
(* The distributed search of one engine thread with relaxed dependencies:  *)
(* Index::search_base_index_distributed (src/index.cpp, lines 1076-1268),  *)
(* over the thread's part of GStore (core/store/gstore.hpp) and the queue  *)
(* pairs of the thread (core/rdma.hpp, rdma_lib/rdmaio.hpp).               *)
(*                                                                         *)
(* An expansion posts the reads of the remote neighbors of a vertex as one *)
(* batch per server and does not wait for them: up to Relax further        *)
(* vertices are expanded first.  Only the last read of a batch is signaled *)
(* so a wait polls one completion per server of the OLDEST batch, and must *)
(* not compute on a buffer the NIC has not written yet.  The thread runs   *)
(* one query after another over the same buffer, maps and queue pairs.     *)
(*                                                                         *)
(* The candidate pool is the one of BoundedPool, which NeighborQueue       *)
(* implements; rdma_cache is a set of vertices with a copy on this server. *)
(***************************************************************************)
EXTENDS Neighbors, Sequences, SequencesExt

CONSTANTS
  Items,      \* the vertices
  Servers,    \* the servers
  Self,       \* the server of this thread
  Home,       \* the server of a vertex
  Graphs,     \* the neighbor lists the index may have
  Cached,     \* the remote vertices in rdma_cache
  Queries,    \* the queries, in order: their distances and entry points
  Capacity,   \* the search parameter L
  K,          \* the number of results
  Relaxes     \* the values of the argument relax

ASSUME SearchAssumption ==
  /\ Items \subseteq Nat /\ IsFiniteSet(Items)
  /\ \A g \in Graphs : g \in [Items -> Seq(Items)]
  /\ Queries \in Seq([dist : [Items -> Int], eps : Seq(Items)])
  /\ Capacity \in Nat
  /\ Home \in [Items -> Servers]
  /\ Self \in Servers
  /\ \A v \in Cached : v \in Items /\ Home[v] # Self
  /\ Relaxes \subseteq Nat
  /\ K \in 1 .. Capacity

(* ASSERT(init_ids.size() >= relax + 1), line 1122. *)
ASSUME EntryAssumption ==
  \A r \in Relaxes, i \in DOMAIN Queries : Len(Queries[i].eps) >= r + 1

Local == {v \in Items : Home[v] = Self}

(* Where the bytes of a vertex are: a slot of the thread's buffer, or memory
   that does not change (the own kvstore, rdma_cache). *)
Stable == -1
NotCached == -2
Junk == -1

Slots == 0 .. Cardinality(Items)

VARIABLES
  graph,      \* the neighbor lists
  Relax,      \* the argument relax, the same for all queries
  todo,       \* the number of queries finished
  pc,
  pool,       \* best_L_nodes
  expanded,   \* the expanded entries of best_L_nodes
  visited,    \* inserted_into_pool_rs
  relax,      \* the local copy of relax
  batches,    \* queue_item_batch and queue_vertex_batch
  bufUsed,    \* thd_buf_used_sz, in vertices
  buffer,     \* the thread's buffer: the vertex in each slot
  cache,      \* thd_cache: where a remote vertex was put
  polls,      \* thd_polls
  sq,         \* the reads of a queue pair the NIC has not executed
  cq,         \* the completions of a queue pair that were not polled
  scratch,    \* item_scratch and vertex_scratch, between a send and its poll
  results     \* indices: the vertices of the last answer

searchVars == <<pool, expanded, visited, relax, batches>>
storeVars  == <<bufUsed, cache, polls>>
nicVars    == <<buffer, sq, cq>>
vars == <<graph, Relax, todo, pc, searchVars, storeVars, nicVars, scratch, results>>

Read == [slot : Slots, item : Items, signaled : BOOLEAN]
Batch == [items : Seq(Items), where : Seq(Slots \cup {Stable})]

TypeOK ==
  /\ graph \in [Items -> Seq(Items)]
  /\ todo \in 0 .. Len(Queries)
  /\ pc \in {"begin", "entry", "sync", "expand", "settle", "drain", "miss",
             "stale"}
  /\ pool \in SUBSET Items
  /\ expanded \in SUBSET Items
  /\ visited \in SUBSET Items
  /\ Relax \in Relaxes
  /\ relax \in 0 .. Relax
  /\ batches \in Seq(Batch)
  /\ bufUsed \in Nat
  /\ buffer \in [Slots -> Items \cup {Junk}]
  /\ cache \in [Items -> Slots \cup {Stable, NotCached}]
  /\ polls \in Seq([Servers -> Nat])
  /\ sq \in [Servers -> Seq(Read)]
  /\ cq \in [Servers -> Nat]
  /\ scratch \in Batch
  /\ results \in SUBSET Items

Init ==
  /\ graph \in Graphs
  /\ todo = 0
  /\ pc = "begin"
  /\ pool = {}
  /\ expanded = {}
  /\ visited = {}
  /\ Relax \in Relaxes
  /\ relax = Relax
  /\ batches = << >>
  /\ bufUsed = 0
  /\ buffer = [s \in Slots |-> Junk]
  /\ cache = [v \in Items |-> NotCached]
  /\ polls = << >>
  /\ sq = [d \in Servers |-> << >>]
  /\ cq = [d \in Servers |-> 0]
  /\ scratch = [items |-> << >>, where |-> << >>]
  /\ results = {}

Query == Queries[todo + 1]

-----------------------------------------------------------------------------
(* Reading vertices: GStore::get_vertex_batch (lines 256-334) *)

Fetched(v) == Home[v] # Self /\ v \notin Cached

(* The next slot of the buffer for each vertex that is read remotely. *)
Places(items) ==
  [i \in DOMAIN items |->
     IF Fetched(items[i])
       THEN bufUsed + Cardinality({j \in 1 .. i - 1 : Fetched(items[j])})
       ELSE Stable]

(* A set of positions, the lowest first. *)
InOrder(S) ==
  [n \in 1 .. Cardinality(S) |->
     CHOOSE i \in S : Cardinality({j \in S : j < i}) = n - 1]

(* The positions in a batch of the vertices read from server d. *)
ReadAt(d, items) ==
  InOrder({i \in DOMAIN items : Fetched(items[i]) /\ Home[items[i]] = d})

Post(items, where, Signaled(_, _)) ==
  /\ bufUsed' = bufUsed + Cardinality({i \in DOMAIN items : Fetched(items[i])})
  /\ sq' = [d \in Servers |->
              LET at == ReadAt(d, items) IN
              sq[d] \o [n \in DOMAIN at |->
                          [slot |-> where[at[n]], item |-> items[at[n]],
                           signaled |-> Signaled(n, Len(at))]]]

(* RdmaReadBatch: every read is signaled. *)
PostSync(items, where) == Post(items, where, LAMBDA n, len : TRUE)

SignalLast(n, len) == n = len

(* RdmaReadBatchDoorbellUnsignal_Async_Send with rc_post_doorbell: the last
   read of a batch to a server is signaled. *)
PostAsync(items, where) == Post(items, where, SignalLast)

(* The NIC executes the reads of a queue pair in order; a reliable connection
   completes them in that order. *)
Nic(d) ==
  /\ sq[d] # << >>
  /\ LET r == Head(sq[d]) IN
       /\ buffer' = [buffer EXCEPT ![r.slot] = r.item]
       /\ cq' = IF r.signaled THEN [cq EXCEPT ![d] = @ + 1] ELSE cq
  /\ sq' = [sq EXCEPT ![d] = Tail(@)]
  /\ UNCHANGED <<graph, Relax, todo, pc, searchVars, storeVars, scratch, results>>

-----------------------------------------------------------------------------
(* The candidate pool *)

(* Fault: update_thd_cache keeps local vertices instead of remote ones. *)
KeepLocal(v) == Home[v] = Self

KeepInCache(v) == Home[v] # Self

(* insert of one vertex after another, of those in who: after the first i of a
   batch the pool holds the nearest of them and of what it held before ... *)
PoolAfter(i, items, who) ==
  Nearest(Query.dist, Capacity, pool \cup ({items[j] : j \in 1 .. i} \cap who))

(* ... and update_thd_cache has kept the remote ones that entered the pool. *)
InsertAll(items, where, who) ==
  LET entered(v) == {i \in DOMAIN items :
                       /\ items[i] = v
                       /\ v \in PoolAfter(i, items, who) \ PoolAfter(i - 1, items, who)}
  IN  /\ pool' = PoolAfter(Len(items), items, who)
      /\ cache' = [v \in Items |->
                     IF KeepInCache(v) /\ entered(v) # {}
                       THEN where[CHOOSE i \in entered(v) : TRUE]
                       ELSE cache[v]]

(* The first K entries of the pool. *)
NearestK == Nearest(Query.dist, K, pool)

Unexpanded == pool \ expanded

Closest(S) == CHOOSE v \in S : \A w \in S \ {v} : Less(Query.dist, v, w)

-----------------------------------------------------------------------------
(* One query *)

(* Fault: a completion is expected from every server. *)
PendingAnywhere(d) == Head(polls)[d] >= 0

Pending(d) == Head(polls)[d] > 0

(* Fault: the wait is skipped. *)
NoWait == TRUE

(* A wait for the oldest batch polls one completion per server that has reads
   in it (RdmaReadBatchUnsignal_Async_Wait). *)
FrontComplete == \A d \in Servers : Pending(d) => cq[d] > 0

(* Fault: reset_thd_ctx leaves the used size of the buffer. *)
BufferKept == bufUsed

BufferReset == 0

(* The reset of the scratch and of the thread context (lines 1079-1109); the
   queue of completions to wait for is not reset. *)
Reset ==
  /\ pc = "begin"
  /\ todo < Len(Queries)
  /\ pool' = {}
  /\ expanded' = {}
  /\ visited' = {}
  /\ relax' = Relax
  /\ batches' = << >>
  /\ bufUsed' = BufferReset
  /\ cache' = [v \in Items |-> NotCached]
  /\ pc' = "entry"
  /\ UNCHANGED <<graph, Relax, todo, polls, scratch, nicVars, results>>

(* The vertices of a list that are not in seen, each once. *)
Unseen(list, seen) ==
  LET first == InOrder({i \in DOMAIN list :
                          /\ list[i] \notin seen
                          /\ \A j \in 1 .. i - 1 : list[j] # list[i]})
  IN  [n \in DOMAIN first |-> list[first[n]]]

(* The entry points, without duplicates, are read synchronously (lines
   1114-1141) ... *)
ReadEntries ==
  LET items == Unseen(Query.eps, visited) IN
  /\ pc = "entry"
  /\ visited' = visited \cup ToSet(items)
  /\ scratch' = [items |-> items, where |-> Places(items)]
  /\ PostSync(items, Places(items))
  /\ pc' = "sync"
  /\ UNCHANGED <<graph, Relax, todo, pool, expanded, relax, batches, cache, polls,
                 buffer, cq, results>>

EntryReads(d) == Len(ReadAt(d, scratch.items))
EntriesComplete == \A d \in Servers : cq[d] >= EntryReads(d)

(* ... which polls as many completions as there were reads, and inserted. *)
InsertEntries ==
  /\ pc = "sync"
  /\ EntriesComplete
  /\ cq' = [d \in Servers |-> cq[d] - EntryReads(d)]
  /\ InsertAll(scratch.items, scratch.where, Items)
  /\ pc' = "expand"
  /\ UNCHANGED <<graph, Relax, todo, expanded, visited, relax, batches, bufUsed,
                 polls, buffer, sq, scratch, results>>

(* Fault: the ring holds relax batches. *)
PushBatchShort(b) ==
  IF Relax = 0 THEN batches
  ELSE IF Len(batches) < Relax THEN Append(batches, b)
  ELSE Append(Tail(batches), b)

(* push_back of a boost::circular_buffer of capacity relax + 1. *)
PushBatch(b) ==
  IF Len(batches) < Relax + 1 THEN Append(batches, b)
  ELSE Append(Tail(batches), b)

Readable(v) == Home[v] = Self \/ cache[v] # NotCached

(* Fault: one expansion too many goes ahead without waiting. *)
MayRelaxOnceMore == relax >= 0 /\ Len(batches) <= Relax

MayRelax == relax > 0

(* Fault: a pool that is not full drops vertices too. *)
AnyNewNeighbors(n) ==
  {Unseen(graph[n], visited \cup dropped) :
     dropped \in SUBSET (ToSet(graph[n]) \ (visited \cup Local))}

(* What an expansion may read: the neighbors not yet visited, of which a full
   pool may drop remote ones by their PQ distance (any of them: the estimate is
   not modelled; lines 1161-1189). *)
NewNeighbors(n) ==
  LET far == ToSet(graph[n]) \ (visited \cup Local)
  IN  {Unseen(graph[n], visited \cup dropped) :
         dropped \in IF Cardinality(pool) < Capacity THEN {{}} ELSE SUBSET far}

(* One expansion: the asynchronous read, and the insertion of the local ones
   (lines 1190-1217). *)
ExpandVertex(n) ==
  /\ \E items \in NewNeighbors(n) :
       /\ PostAsync(items, Places(items))
       /\ polls' = Append(polls, [d \in Servers |-> Len(ReadAt(d, items))])
       /\ batches' = PushBatch([items |-> items, where |-> Places(items)])
       /\ InsertAll(items, Places(items), Local)
  /\ visited' = visited \cup ToSet(graph[n])
  /\ expanded' = (expanded \cup {n}) \cap pool'
  /\ IF MayRelax
       THEN relax' = relax - 1 /\ pc' = "expand"
       ELSE relax' = relax /\ pc' = "settle"

(* get_vertex throws "thd_cache miss" for a remote vertex it has no copy of. *)
Miss ==
  /\ pc' = "miss"
  /\ UNCHANGED <<searchVars, storeVars, sq>>

Expand ==
  LET n == Closest(Unexpanded) IN
  /\ pc = "expand"
  /\ Unexpanded # {}
  /\ IF Readable(n) THEN ExpandVertex(n) ELSE Miss
  /\ UNCHANGED <<graph, Relax, todo, buffer, cq, scratch, results>>

(* get_vertex_batch_wait, and the insertion of the remote vertices of the
   oldest batch: lines 1218-1235 in the loop, 1239-1259 after it. *)
Settle ==
  LET b == Head(batches) IN
  /\ FrontComplete
  /\ cq' = [d \in Servers |-> IF Pending(d) THEN cq[d] - 1 ELSE cq[d]]
  /\ polls' = Tail(polls)
  /\ InsertAll(b.items, b.where, Items \ Local)
  /\ expanded' = expanded \cap pool'
  /\ batches' = Tail(batches)
  /\ UNCHANGED <<graph, Relax, todo, visited, relax, bufUsed, buffer, sq, scratch,
                 results>>

SettleInLoop == pc = "settle" /\ Settle /\ pc' = "expand"

LeaveLoop ==
  /\ pc = "expand"
  /\ Unexpanded = {}
  /\ pc' = "drain"
  /\ UNCHANGED <<graph, Relax, todo, searchVars, storeVars, nicVars, scratch, results>>

Drain == pc = "drain" /\ batches # << >> /\ Settle /\ UNCHANGED pc

(* The K nearest entries of the pool, read through get_vertex (lines
   1261-1264).  A pool of fewer entries is read past its end. *)
Output ==
  /\ pc = "drain"
  /\ batches = << >>
  /\ IF Cardinality(pool) < K THEN pc' = "stale" /\ UNCHANGED <<todo, results>>
     ELSE IF \E v \in pool : ~ Readable(v) /\ v \in NearestK
       THEN pc' = "miss" /\ UNCHANGED <<todo, results>>
     ELSE /\ pc' = "begin"
          /\ todo' = todo + 1
          /\ results' = NearestK
  /\ UNCHANGED <<graph, Relax, searchVars, storeVars, nicVars, scratch>>

Thread ==
  \/ Reset
  \/ ReadEntries
  \/ InsertEntries
  \/ Expand
  \/ SettleInLoop
  \/ LeaveLoop
  \/ Drain
  \/ Output

(* What the program does with an answer read past the pool is not followed. *)
Finished == pc = "stale" \/ (pc = "begin" /\ todo = Len(Queries))

Next ==
  \/ Thread
  \/ \E d \in Servers : Nic(d)
  \/ Finished /\ UNCHANGED vars

Spec == Init /\ [][Next]_vars

(* The thread runs, and the NIC executes every read that was posted. *)
FairSpec ==
  Spec /\ WF_vars(Thread) /\ \A d \in Servers : WF_vars(Nic(d))

-----------------------------------------------------------------------------
(* Properties *)

(* The search never throws "thd_cache miss" (gstore.hpp, line 192): the vertex
   it expands and the vertices it returns are local, or were put in thd_cache
   when they entered the pool, from the batch they arrived with. *)
NeverMisses == pc # "miss"

(* The result loop reads entries that this query did not write (index.cpp, line
   1263) only if the pool holds everything the search looked at: all entry
   points and all neighbors of the vertices it expanded, although these entered
   in pieces, local before remote, and from batches settled long after.  What it
   did not expand, and whose neighbors it therefore never saw, are vertices of
   other servers that the last loop inserts without expanding them (lines 1239
   to 1259), which takes relaxation. *)
StaleOnlyIfCutOff ==
  pc = "stale" =>
    /\ ToSet(Query.eps) \subseteq pool
    /\ \A v \in expanded : ToSet(graph[v]) \subseteq pool
    /\ \A v \in pool \ expanded : Relax > 0 /\ v \notin Local

(* What thd_cache points to has been written by the NIC, and no later read of
   the query is posted to the same slot of the buffer. *)
CopiesArrived ==
  \A v \in Items : cache[v] \in Slots => buffer[cache[v]] = v

Signals(d) == {i \in DOMAIN sq[d] : sq[d][i].signaled}

(* Every batch still to be waited for owns exactly the completions it will
   poll, across queries too: none is left in a completion queue for the next
   query to take for its own, and no wait polls for one that never comes. *)
CompletionsMatchPolls ==
  /\ TypeOK
  /\ Len(polls) = Len(batches)
  /\ \A d \in Servers :
       cq[d] + Cardinality(Signals(d)) =
         Cardinality({i \in DOMAIN polls : polls[i][d] > 0})
           + (IF pc = "sync" THEN EntryReads(d) ELSE 0)

(* A query reads a vertex at most once, which bounds the part of the thread's
   buffer it uses (gstore.hpp, line 306). *)
FetchedOnce == bufUsed <= Cardinality({v \in Items : Fetched(v)})

(* The vertices of the batches still to be settled that settling will insert. *)
Outstanding ==
  {v \in UNION {ToSet(batches[i].items) : i \in DOMAIN batches} : Home[v] # Self}

(* The pool once they are; the entry points count from their insertion. *)
SettledPool ==
  IF todo < Len(Queries) THEN Nearest(Query.dist, Capacity, pool \cup Outstanding)
  ELSE pool

BestFirst == INSTANCE BestFirstSearch WITH
  Skippable <- {v \in Items : Home[v] # Self},
  pc <- CASE pc = "begin" -> "idle"
          [] pc \in {"entry", "sync"} -> "cleared"
          [] pc \in {"expand", "settle", "drain"} -> "search"
          [] OTHER -> pc,
  pool <- SettledPool,
  expanded <- expanded \cap SettledPool,
  visited <- IF pc = "sync" THEN {} ELSE visited

(* Without relaxation (Relax = 0) the search is a best-first search: the order
   of the expansions, what the pool holds and the answer are the ones of a
   search on a single machine, although the remote neighbors of a vertex are
   inserted later than the local ones, from another buffer (src/index.cpp,
   lines 1156-1264). *)
ImplementsBestFirst ==
  (Relax = 0 => BestFirst!Init) /\ [][Relax = 0 => BestFirst!Next]_BestFirst!vars

(* Every query gets to its result loop: no wait spins for ever on a completion
   queue. *)
AllAnswered == <>Finished
=============================================================================
