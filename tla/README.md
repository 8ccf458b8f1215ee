# RED-ANNS: a TLA+ development

RED-ANNS answers approximate nearest-neighbour queries over an index that is
spread over the memories of several servers. A search thread reads the vertices
that live on other servers with one-sided RDMA reads, overlaps those reads with
computation ("relaxed dependencies"), and the queries are spread over the
servers by a dynamic scheduler over MPI. This directory models the parts of it
that are hard to test: the scheduler, the search over asynchronous reads, the
candidate queue, the searches of a single machine and of the learn graph, the
bytes of the distributed index, the registered memory and the cache of a server,
the connection of the queue pairs and the calls made on them, and how the two
distributed programs put their results together.

All paths below are relative to the repository.

## 1. The system

| Component | State | Operations | Interacts with |
|---|---|---|---|
| Dynamic scheduler, `tests/test_search_distributed.cpp` 178-735 | query counter in rank 0's memory; per engine thread: `has_query`, `nsvr_has_query`, `dsid`; per proxy: `taskQueue`; per rank: `run_query_num`, results | fetch-and-add, enqueue, dequeue (high and low affinity), succeed or fail, stop, gather | MPI messages between engine and proxy threads of all ranks; an RDMA atomic; the search |
| Relaxed distributed search, `src/index.cpp` 1076-1268 | candidate queue, inserted vertices, ring of outstanding batches, budget `relax` | read the entries, expand, settle a batch, drain, output | graph store (thread context), queue |
| Single-machine search, `src/index.cpp` 728-931 | candidate queue, inserted vertices | clear, insert the entry, expand, output | one thread |
| Search of the learn graph, `src/index.cpp` 252-309, `include/neighbor.h` 179-217 | growing sorted array, marks, cursors `k` and `nk` | expand, look at a neighbor, insert, move the cursor | tells the scheduler which server is close |
| Thread contexts of the graph store, `core/store/gstore.hpp` | `thd_buf`, `thd_cache`, `thd_polls` | get a batch now / send / wait, update the cache, reset | RDMA verbs, RDMA cache |
| RDMA verbs, `core/rdma.hpp` 190-592, `rdma_lib/rdmaio.hpp` 458-906 | `pendings`, send queue and completion queue of a queue pair | fetch-and-add, reads (single, batch, doorbell, unsignalled, asynchronous), writes (signalled, blind, selective), waits | NIC |
| Connection setup, `core/rdma.hpp` 62-152, `rdma_lib/rdmaio.hpp`, `rdma_lib/pre_connector.hpp` | `qps_`, `inited_`, the sweep's count | create, ask, serve, connect, repeat | TCP between the main thread of one server and the `recv_thread` of another |
| Candidate queue, `include/neighbor.h` 486-600 | sorted array, size, cursor | insert, take the closest unexpanded, clear | one thread |
| Bucket index, `src/index.cpp` 444-661 | partition, local ids, bytes of the buckets, kvstore | partition, place, write, load, read a vertex and its list | files; memory read by all servers |
| RDMA cache, `core/store/cache.hpp`, `gstore.hpp` 117-152; its profile, `src/index.cpp` 702-726 and 937-1040 | access counts, `cache_data`, `cache_table` | profile in parallel, choose, fill, look up | search, RDMA reads through the first buffer |
| Memory regions, `core/mem.hpp` | one allocation: kvstore, buffers, rings, heads | load, fill, fetch-and-add, batch reads, reset | loader, cache, scheduler, threads, NIC of this server and of others |
| Visited list, `include/visited_list_pool.h` | 16-bit marks | mark, test, reset | nobody: it has no caller |
| Map-reduce baseline, `tests/test_map_reduce.cpp` | one subset per rank, shared counter, rows | search, shift ids, gather, merge | MPI barriers and messages |
| Results of the dynamic test, same file as the scheduler, 536-735 | rows, recall | search, recall, gather | the scheduler, MPI barriers and messages |
| Static distributed test, same file, 35-176 | the queries of one cluster per rank, shared counter, rows | search, recall, gather | not called (line 788) |
| Index construction (clusters, learn graph, affinity), `src/index.cpp` | numerical data | train, assign | files |
| PQ, k-means, distances, `include/pq.h`, `math_utils.h`, `distance.h` | numerical data | | |
| Configuration, logging, parameters, data files | | | |

### What is hard, and what makes each part correct

* *Scheduler.* Replies go to a rank, not to a thread; a thread gives a proxy up
  at its first `fail` while queries for it may still be under way; the proxies
  are stopped after a gather that receives with any tag. Correct means: each
  query is searched once, no reply is left over or missing, nothing is under way
  at the stop, the gather takes results only, everybody leaves.
* *Search.* Only the last read of a batch to a server is signalled, batches to
  several servers complete in any order, and the buffer, maps and queue pairs
  serve one query after another. Correct means: no distance is computed on bytes
  that have not arrived, no vertex is read through a missing copy, the result loop,
  which reads `K` entries whatever the pool holds, meets old ones only where the
  search could find no more, completions are never shared between batches, every poll ends, and without relaxation the
  search is a best-first search.
* *Candidate queue.* A hand-written shift and a cached cursor. Correct means: it
  is a bounded priority pool.
* *Best-first search.* A vertex is looked at once, and most of what was looked at
  is forgotten: it drops out of a bounded pool, expanded or not. Correct means:
  the answer is a local optimum, and exact if the pool has room for everything;
  the result loop, which trusts the pool to hold K entries, reads old ones only
  where too few vertices can be reached at all.
* *Search of the learn graph.* A halving that handles both ends, ties and a single
  entry by hand, an array that grows while far vertices are already refused, and a
  cursor that falls back. Correct means: sorted, nothing near is lost, the cursor
  leaves nothing behind, and the whole is a best-first search.
* *Bucket index.* The writer and several readers each have their own copy of the
  byte layout; ids and offsets are computed on one server and used on another.
  Correct means: a search reads the vertex the neighbor list named, on any path.
* *Registered memory and cache.* One allocation is written by the loader, by a fill
  of the cache, by every thread's reads and, through a counter put where a ring
  buffer would be, by the threads of other servers; nothing but arithmetic on
  offsets keeps them apart, and that a query's reads fit its buffer is an assertion
  which a release build drops. The cache is copied through one of these buffers and
  looked up by pointer. Correct means: no owner writes over what another keeps, a
  query that overruns its buffer spoils neither the graph nor a buffer below its
  own, and a hit leads to the vertex looked up.
* *Calls on queue pairs.* Completions are counted, not matched with requests, some
  requests never complete, and the result of a post is not looked at. Correct
  means: a call that returns has its own data, nothing is left over for a later
  call, no post finds the send queue full, every call returns.
* *Results.* Threads fill rows of an array, ranks pass several barriers, results
  are gathered rank by rank. Correct means: the merge loses no answer of any rank and
  orders them with their ids, the recall counts what was searched, and everybody
  exits. The first two hold under a condition, or up to an amount, which the
  properties state.
* *Connection setup.* Peers start late, attempts fail and are repeated. Correct
  means: queue pairs are connected in matching pairs, everybody gets there, and
  nobody reads from a peer that is not ready.

The list of hazards with their source lines, and the properties that cover each
of them, is in `PROJECT.json`.

## 2. The modules

| Module | Models | Status |
|---|---|---|
| `Scheduling` | engines, proxies, channels, main threads of all ranks | checked and proved |
| `WorkPool` | what the scheduler promises | refined by `Scheduling` |
| `NeighborQueue` | the array, one loop iteration per step | checked and proved |
| `BoundedPool`, `Neighbors` | what the queue promises; the order on items | refined by `NeighborQueue` |
| `BestFirstSearch` | the single-machine searches; what the others promise | checked and proved |
| `RelaxedSearch` | one engine thread, its part of the graph store, its queue pairs, the NIC | checked and proved; implements `BestFirstSearch` where `Relax = 0` |
| `LearnSearch` | `beam_search_learn_graph` and `InsertIntoPool`, an iteration per step | checked and proved; implements `BestFirstSearch` where no two distances tie |
| `BucketIndex` | building, loading and walking the index, byte by byte | checked and proved |
| `ConnectionSetup` | RDMA_Device, `connect_rc`, `recv_thread` of all servers | checked and proved |
| `QueuePair` | every call of `RDMA_Device` on the queue pairs of a thread, request by request | checked and proved |
| `RdmaServers` | the servers both are about | |
| `MemoryMap` | the registered memory of a server and all who write into it | checked in `ServerMemory`; proved |
| `RdmaCache` | choice, fill and look-up of the cache | checked in `ServerMemory`; proved |
| `ServerMemory` | the two composed: a server from the load to its queries | checked and proved |
| `ResultGather` | the map-reduce baseline, and rows, recall and gather of the dynamic test | checked |
| `SchedulingProofs`, `NeighborQueueProofs`, `NearestProofs`, `BestFirstSearchProofs`, `RdmaProofs`, `ServerMemoryProofs`, `RelaxedSearchProofs`, `LearnSearchProofs` | theorems | |
| `MC...` | instances for TLC | |

The searches use the pool of `Neighbors` (the operator `Nearest`), which is what
`NeighborQueue` is shown to implement; `Scheduling` and `ResultGather` see a search
as one step, which `RelaxedSearch` details; `RelaxedSearch` reads vertices whole,
which `BucketIndex` details down to bytes; its posts and polls are those of
`QueuePair`, its buffer slots are words of `MemoryMap`, and its constant `Cached` is
what `RdmaCache` fills; all of them run after `ConnectionSetup`.

Several definitions have a faulty twin in front of them, marked `Fault:`. No
specification uses the twins; each shows, put in the place of the definition
that follows it, that a property would notice the bug.

### Scheduling

An engine thread of the code is the sequence `FetchAdd`, `Dispatch` (until the
counter is exhausted), then the loop of line 616: `AskOwn` or `AskNext`, a
`Receive...`, `Search`. `AskNext` also is the iteration that finds the next proxy
struck off and sends nothing. A proxy receives one message per step; its stop
message comes from the main thread of its own rank. `Join`, `StartGather`,
`GatherReceive`, `EndGather`, `SendStop`, `JoinProxy` are the main thread, whose
barriers are guards on the `main` of all ranks.

The channel `toProxy[e][d]` belongs to one sending *thread*: MPI orders the
messages of one thread only. `replies[d][s]` is addressed to a *rank*, and the
thread that receives first takes it. Messages are atomic here. Boost.MPI sends
a serialized object larger than a buffer as two messages; concurrent receives
would then need the atomicity that its matched probes provide, and this is
assumed. What a query returns and how long it took are left out, the counts the
master reports are kept. The reorder message is not modelled: the only line that
sends it is commented out.

### NeighborQueue

`insert` is `StartInsert`, `Probe` per halving, `Place` (the shift, size and
cursor in one step: nobody looks in between). `closest_unexpanded` is
`StartExpand`, `Advance` per slot, `EndExpand`. `offered` is a history variable.
Distances are given per item: a search computes the distance of an item to its
query from the same bytes whenever it does.

### BestFirstSearch

`Clear`, `Enter`, `Expand` and `Output` are the parts of `search_base_index` and of
`search_base_index_on_buckets`, which differ in where a vertex lies only. A query
of several entry points is allowed for, since the distributed search, which has
them, is mapped to this module. The order in which the neighbors of one vertex are
inserted does not matter to a pool that keeps the nearest, so an expansion is one
step. Two entries of equal distance are ordered by their number: which of them a
real array keeps in front depends on the order of insertion, which is the subject
of `NeighborQueue`. `Skippable` is empty for the single-machine searches; it stands
for the vertices of other servers, which the distributed search may drop by their
PQ estimate while its pool is full. After `pc = "stale"` (the result loop reads
entries this query has not written) the behaviour is not followed further.

### LearnSearch

One step is one iteration of the outer loop (`Pass`, or `Expand`) or of the inner
loop (`Visit`, with the halving and the shift of `InsertIntoPool`); `EndVisit` is
the adjustment of the cursor. The parameter `L` of the code, which the code
overwrites, is the constant `L` and the variable `len`. In the refinement of
`BestFirstSearch` the step `Expand` is the whole expansion, and what is still
`Coming` of it is counted in the pool already. With ties the two differ in which of
two equally far entries comes first, so `ImplementsBestFirst` speaks of queries that
are `TieFree` only; the invariants and `AllAnswered` hold with ties as well.

### RelaxedSearch

`Reset`, `ReadEntries`, `InsertEntries` (lines 1076-1153), `Expand` with the
asynchronous send (1156-1217), `SettleInLoop` and `Drain` with the wait, and
`Output`. `Nic(d)` executes one posted read of the queue pair to server `d`; it
is the environment and interleaves with every step of the thread. A buffer slot
is one vertex; `scratch` holds the entry points between their send and their
poll. `pc = "miss"` is the exception of `get_vertex`, `pc = "stale"` is the
result loop reading entries the query has not written. With a full pool the code
drops remote neighbors by their PQ estimate; the estimate is not modelled, any
of them may be dropped. The variable `Relax` is the argument `relax`, one of the
constant set `Relaxes` and the same for all queries. Where it is 0 the drained
batch of an expansion counts as inserted at its expansion (`SettledPool`), and
`ImplementsBestFirst` says that the search implements `BestFirstSearch`; with
relaxation the search expands in another order, and the property says nothing. The
slots of the send queue are the subject of `QueuePair`.

Lists are filtered and batches inserted without recursion, so that the module can be
reasoned about: `Unseen` takes the first position of each vertex not seen yet, which
is the test of `is_not_visited` at lines 1132 and 1176 with the insertion into
`inserted_into_pool_rs` that follows it, and `PoolAfter(i, ...)` is the pool after the
first `i` insertions of a batch, so a vertex is kept in `thd_cache` if it was in the
pool after its own insertion, even if a later one of the same batch pushes it out.

### BucketIndex

Each loop of `generate_base_index_on_buckets` is an action per vertex. `LoadBucket` is
the load of a server, `StartSearch` a search that begins at any vertex, and `Walk`
reads degree and neighbors from the bytes of whichever server holds the vertex.
`ByteAt` of an address that is not loaded reads zero, as the memory is cleared
when it is allocated. `named` is a history variable: the id under which the list
named the vertex. The partition is arbitrary, it is the result of clustering. The
files between builder and servers are the variable `bucket`. `NeighborList` gives byte
`k` of a list by the entry it lies in, which is where the loop of lines 525-544 leaves
`destination`, and `R` is the degree no other exceeds, as `check_degree` computes it. That ids and
degrees are unsigned (`IsUnsigned`) and servers are bytes is part of
`BucketIndexAssumption`: `vertex_id_t`, the counts in the data files and
`server_id_t` have no room for more.

### ConnectionSetup

The main thread of a server creates its queue pairs (`CreateQp`, under the lock
that the server thread also takes) and sweeps over them. `connect_rc` is split
where others may act: `SendRequest` up to its wait for the reply, then `Connect`
or `ReplyFails`; `ConnectFails` is every failure before the request was sent.
`Serve` is one iteration of `recv_thread`. Ids are the numbers of
`_QP_ENCODE_ID`, so that two of them being equal means what it means in the code.
`Run` stands behind the barrier of `main`. `RdmaServers` holds what this module and
`QueuePair` share, the numbering of the servers.

### QueuePair

A call of `RDMA_Device` is started by the action of its name, which writes down what
the call will do: the script `todo` of posts, doorbell lists to build and
completions to poll. `PostStep`, `BuildStep` and `PollStep` carry it out, one
`ibv_post_send`, one request of a list, one completion at a time; `Nic(s)` executes
the requests of a queue pair in order. A slot of the send queue is taken from the
post until a completion of this or a later request has been polled, and
`rc_post_send`, which ignores that there is none left, sets `failed`. Each request
carries its `owner`, which no code looks at: the running call, the k-th batch in
flight, or nobody. The properties compare what was counted with it.

The calls are correct for a client that keeps to what they poll for, and the guards
say how: no synchronous call while a batch is in flight (`Quiet`; the comment
`gstore.hpp` 204 says that an answer may be overtaken), and after selective writes
to a server nothing but `RdmaRead`, which sweeps (`Swept`). The searches keep to the
first: entry points are read before the first asynchronous batch, and every batch is
waited for. `QueuePairAssumption` is what sizes owe: with the defined 1024 slots, a
threshold of 1024 and 128 requests to a doorbell list it holds for `relax` up to 6
without `RdmaWriteSelective`, and for no sizes of this kind with it, because a burst of
selective writes gets its slots back one burst late. No program calls it.

### MemoryMap, RdmaCache, ServerMemory

`MemoryMap` is the allocation of `Mem`, a function from words to contents; the
offsets are the formulas of `mem.hpp`. `Load`, `FillRead`, `FetchedValue`,
`FetchVertex` write where the code writes, `FetchAdd` is a fetch-and-add of any thread
of any server. `stage` and `phase` are the order in which `main` and the threads go
through them. A word is eight bytes, a vertex is a whole number of words, and a
pointer is an offset, as in the code. The ring buffers are never written, except that
the query counter lies where the first of them begins.

No query is kept from reading past its buffer: the assertion of `gstore.hpp` 306 is
compiled out, so `FetchVertex` places a vertex wherever the reads before it end, in the
next buffer or on the counter. `overrun` is a history variable that says which
threads have done so, and the parts of `MemoryIntact` say what is safe in spite of it.
Only what lies behind the registered memory, which the NIC refuses, ends the model.
A counter that is hit is from then on some `OtherWord`.

`RdmaCache` has `SetCache`, which chooses the keys, and the two steps of the fill per
key, `ReadKey` into the buffer and `CopyKey` into the slot and the table. The profile,
how often each vertex was read, is any function of `Counts`: the search that makes it
takes the triples of a neighbor list for pairs (the finding below), so what it counts
says nothing about vertices. `set_cache` is called once at most, at the places where
its calls stand in the tests, commented out at present.

`ServerMemory` composes the two: what `RdmaCache` calls `buf` is whatever vertex lies
at the start of the first buffer of `MemoryMap`, `ReadKey` is a `FillRead`, and a query
reads those remote vertices that `lookup` misses. A server fills its cache before
its threads start, or not at all.

### ResultGather

A main thread per rank goes through the table of stages of its program
(`MapReduceStages`, `DynamicStages`, barriers included). The threads of the map-reduce
baseline take positions from a shared counter; those of the dynamic test take
queries as `WorkPool` hands them out, which `Scheduling` refines (`DequeueQuery`,
`EndThread`). `Search` writes any answer of `K` different vertices into the row of its
query, from the own subset or from the whole graph. `Shift` adds the offset of a rank
to its ids by the formula of the code; `Recall` counts over all rows, as
`compute_recall` does; `Send` and `SendDone` are `isend` and its `wait`, which returns
before or after the message is received (`buffered`); `Receive` is one round of the
loop of rank 0. Serialization, timing and statistics are left out.

## 3. The runs

| Run | Instance | Shows |
|---|---|---|
| `scheduling` | 2 ranks, 2 threads each, 2 queries, any target | `NoQueryMissed` and three more invariants; two threads of a rank compete for replies |
| `scheduling_three_ranks` | 3 ranks, 1 thread, 2 queries, any target | `ImplementsWorkPool` with the pool's fairness, `Termination`, `GatherUnambiguous`; two foreign proxies to steal from, and a rank whose tag equals the engine tag |
| `neighbor_queue` | 5 items with ties, capacity 3 | sorted, cursor right, keeps the nearest, implements `BoundedPool`; every sequence of operations |
| `best_first_search` | 6 vertices, 4096 graphs, 2 queries, pool 4, two skippable | local optima, exact where the pool holds all that can be reached, stale results only where too few can be reached, every query ends |
| `learn_search` | 2048 graphs, a query with ties and one without, L = 4 | sorted without duplicates, loses far vertices only, implements `BestFirstSearch`, every search ends |
| `relaxed_search` | 6 vertices, 3 servers, 2048 graphs, 2 queries, pool 4, K = 4, relax 0 and 2, a vertex in rdma_cache | five invariants over all interleavings with the NIC, `AllAnswered`, and for relax 0 `ImplementsBestFirst` |
| `bucket_index` | 4 vertices, 3 servers, 2 graphs, every partition | every walk reads what the list named |
| `bucket_index_comment` | the same | the layout comment is violated (below) |
| `connection_setup` | 2 servers, 1 thread each | matching pairs, ready peers, `EveryServerRuns` |
| `queue_pair` | 2 queue pairs of 11 slots, threshold 4, up to 2 requests to a server, 2 batches in flight, 1 blind write | own data arrived, completions accounted for, no post fails, calls return |
| `server_memory` | 3 servers, 2 threads, 2 own and 3 remote vertices, buffers of 2 vertices and up to 3 reads, 3 profiles, at most 1, 2 or 4 cached | memory intact as far as no overrun reaches, hits read the vertex |
| `result_gather` | 3 ranks with a thread, 2 ranks with two, 2 queries, K = 2, any answers, equal and unequal subsets, buffered or not, both programs | the merge, the recall, everybody exits |

Each component's `TypeOK` is proved, or is a conjunct of an invariant that a run
checks; it is no property of its own.

*Why the bounds are enough to be interesting.* Two threads of a rank are needed
for a reply to be taken by another thread, and two queries for a proxy to
answer `fail` to one request and later succeed for another. Three ranks are
the first at which a foreign proxy can be skipped. The graphs of the searches
leave out edges in all combinations, so some vertices cannot be reached, some are
reached late and from far away, and the pool drops expanded and unexpanded
entries. Three items in the queue with
five offered make it fill, refuse, drop an expanded entry and rewind. In the
search three servers give batches with one, two and no foreign server; relax 2
gives three outstanding batches, and the pool of 4 overflows; the second query
runs over what the first left behind. `K` is as large as the pool, and the first query
names one of its entry points twice, so the result loop runs out of entries in the
three ways there are: with everything expanded and relax 0, the same with relax 2,
and with vertices left that the last loop inserted and did not expand. In the index a vertex without neighbors,
lists of different lengths, empty buckets and every partition occur; the kvstore
of 80 bytes is too small for a bucket with three or more vertices, so the load's
error path is reached. Two servers with a queue pair to themselves and one to the other each have
crossing attempts, requests that arrive before the queue pair exists, and sweeps
that repeat; more servers and threads are the proof's. The send queue of
`queue_pair` is the smallest that its assumption allows, so every slot is in use
at times; a selective write reaches the threshold, a doorbell list crosses it, and
a batch spans both servers while another is in flight. In `server_memory` the store
is full to the last word, two reads fill a buffer to the last word, and a third runs
into the next buffer or, from the last one, over the counter; the profiles have ties
and vertices never read, and the limit is below and above the vertices there are. In
`result_gather` the last subset is larger in some cases, a rank of the dynamic test
may get no query at all, and vertex 0 is in one ground truth and not in the other.

*Deadlock* is checked in all runs except three. In those of `BucketIndex` a search
really may stop: a vertex has no neighbors, or a server found its bucket too
large and the others wait at the barrier. In `server_memory` a server stops when
all threads search, every remote vertex is cached, or the memory behind the last
reads is used up, and the fetch-and-adds the bound `MaxFetches` allows are done.

*Named bounds.* `MaxFetches` (fetch-and-adds on the counter), `MaxReads` (reads of a
query, more than its buffer holds),
`MaxBatch`, `MaxHops` and `MaxBlind` (what a client has under way). The other constants
are sizes of the system.

*Fairness.* `Scheduling`: weak fairness of each thread; a thread blocks only in a
receive, a join or a barrier, and MPI delivers. `RelaxedSearch`: weak fairness of
the thread and of each queue pair of the NIC; a reliable connection executes
what was posted. `BestFirstSearch`, `LearnSearch`: weak fairness of the one
thread, which is never blocked. `QueuePair`: weak fairness of a running call and of
each queue pair of the NIC; nothing makes the client call again. `ResultGather`: weak
fairness of every thread, which blocks only in a barrier, a join, a receive, or the
`wait` of its send. `ConnectionSetup`: weak fairness of the threads and strong
fairness of a successful attempt per queue pair, for an attempt may fail for
reasons of TCP, but one that is repeated for ever and can succeed again and again
finally does. Nothing is assumed of the order in which attempts are made.

### The finding

`bucket_index_comment` checks the comment of `src/index.cpp` line 462, by which a
neighbor list holds `(node_id, local_id)` pairs. The builder writes triples with
the vertex id in front (525-544). The searches were adapted, the comment and the
profiling search (1000-1006) were not: it reads the first byte of a vertex id as a
server. It is reached through `Index::set_cache`, whose calls in the tests are
commented out.

## 4. The proofs

All proofs hold for every value of the constants under the named assumptions of
the component's module.

* **`SchedulingProofs`** (`ConstantsAssumption`, `ThreadsAssumption`).
  `TypeCorrect`: `Spec => []TypeOK`. Types alone are not inductive: a thread that
  sends or searches must hold a query (`HeldInv`), otherwise it could enqueue the
  value that stands for none. `StrongInvariance` proves the invariant `SInv` from
  which the five safety properties follow. Its parts:
  * `StageInv`: a query is in one of six stages (not handed out, held, sent, queued,
    replied, searched), once, and nowhere else. This is `EveryQueryInOnePlace`, told
    without a sum over channels.
  * `GivenUpInv`: a thread distributes before it gives any proxy up, `nsvr` counts
    those it has not, it waits for one of these only, and ends when there is none.
  * `BehindInv`: once a thread waits for a proxy or has given it up, the last message
    in its channel is not an enqueue. Here the proof needs that MPI keeps the order
    of the messages of one thread.
  * `RememberedInv`: a proxy whose queue is not empty will be asked by some thread
    that does not wait for it already, or has a request under way to it, or a query
    under way from it, whose receiver asks again. This is why the last query is
    not missed when a thread gives a proxy up at its first `fail`: `NoQueryMissed`
    follows since at the end there is neither a thread to ask nor a message.
  * `MatchedInv`: on each pair of ranks as many threads wait as there are requests
    and replies between them (`RepliesMatchWaiters`). Replies go to a rank, so this
    counts threads and says nothing about which thread gets which reply.
  * `MainInv`, `CountInv`: the stages of the main threads, and that the total of the
    master is the number of searches of the ranks collected, with searches as a set
    of pairs so that their number is a cardinality. `QuietShutdown` and
    `GatherUnambiguous` follow from these and the counts of messages.

  `RefinesWorkPool`: initial states and steps of the scheduler are those of
  `WorkPool`, or stutter. The fairness of the pool stays with TLC.
* **`NeighborQueueProofs`** (`ItemsAssumption`, `DistAssumption`,
  `CapacityAssumption`). The types include that every index is inside the array,
  so `TypeCorrect` is the absence of out-of-bounds accesses. `AlwaysOrdered`,
  `CursorCorrect`, `AlwaysKeepsNearest` need what the loops keep true: the bounds
  of the halving enclose the position of the item, and an advancing cursor has
  passed expanded entries only. `Nearest` is a set defined by counting the
  smaller items; the proof that the array holds it goes by what is missing being
  behind everything kept. `RefinesBoundedPool` is the refinement, action by action:
  a halving and an advance of the cursor are stutters, the refused and the placed
  insertion are inserts of the pool, and the item handed out is the nearest that
  was not. That the shift neither loses nor revives an expanded mark is the part
  that needs the array in order.
* **`NearestProofs`** (no assumption). What a pool that keeps the `n` nearest of a
  set does: `NearestSeparates` (what is dropped is behind everything kept, and
  then the pool is full), `NearestAtMost`, `NearestFull`, `NearestAll`, `NearestDrop`
  (leaving out what a full pool would drop changes nothing), `NearestTwice` (items
  offered in two rounds leave the pool they leave in one). These count,
  and would be inductions. `LeastNatural`, a nonempty set of naturals has a least
  element, is proved from the cardinality of an interval instead, and stands for
  the induction wherever one is needed.
* **`BestFirstSearchProofs`** (`BestFirstAssumption`). The inductive invariant
  says what the pool has forgotten: a vertex that was looked at and is not in the
  pool was skipped, or is behind everything in the pool, which is full; the
  neighbors of an expanded vertex were all looked at; and a forgotten vertex stays
  behind the pool for ever, because the pool only gets nearer.
  `AlwaysLocallyOptimal` needs that at the end every entry is expanded.
  `AlwaysExactWhenPoolHoldsAll` and `AlwaysStaleOnlyIfUnreachable` need in addition
  that a pool that is not full has forgotten nothing (nor has one that holds all
  that can be reached), so that at the end what was
  looked at is closed under neighbors, and is all that can be reached.
* **`RdmaProofs`**, first part, about `ConnectionSetup` (`ConnectionAssumption`). The
  inductive invariant
  says what a request and a reply under way stand for (`RequestInv`,
  `ReplyInv`): they belong to the queue pair at which the sweep of the sender
  waits, and there is one of them at most. `CountInv` is why the count of a sweep
  can be trusted: it never passes the position, and equals it only if everything
  passed is connected. `AlwaysPaired` and `AlwaysPeersReady` follow; the latter
  also needs that a queue pair is known by its thread and peer. That ids do not
  collide rests on thread numbers being below 2^16, which `ConnectionAssumption`
  gives.

* **`RdmaProofs`**, second part, about `QueuePair` (`QueuePairAssumption`), for every
  number of servers, capacity, threshold, batch size and number of batches, and every
  set of calls the client makes. `DataArrived`, `NoneLeftOver` and `PostsFit` follow
  from `QpIInv`, which `QpInvariant` shows to be inductive. Its parts are equations
  between what the send queue of a server holds, what the script `todo` will still do
  and what the batches in flight are owed:
    * `BalanceInv`: the completions of a queue pair, still to come or still to be
      posted, are those that will be taken, and one more after selective writes. It
      is `CompletionsAccounted`, stated for the middle of a call too.
    * A poll takes the next completion whoever it belongs to, so the balance does not
      say that a request of the call's own has been executed when the call returns.
      `AheadInv` does: from any request on, more completions are left than the batches
      after its own will take; as nothing is owed to anybody behind the running call's
      requests, none of them can be left when the call has nothing to take
      (`MineInv`). `OwnerInv` keeps the numbers of the batches in step with
      `thd_polls`, also over the renumbering of `Wait`.
    * `NoPostFails` needs the lengths. `NearInv`: the requests of one call to one
      server lie within `MaxBatch` slots, so the owners in flight occupy at most
      `MaxHops` times as many (`NearLength`). `BlindInv` bounds the slots of requests
      nobody waits for; for selective writes it follows the one signalled request of
      a burst, since the slots of the burst before it are freed with it only.
    * `ShapeInv` says which scripts there are, at the position the call has reached:
      one list per server, posted before it is polled for, and blind writes alone.
    * `PendingInv`: a list that is being filled in stays below the polling threshold,
      so `rc_post_doorbell` never polls in the middle of it. That is where
      `MaxHops * MaxBatch <= PollThreshold` is used; `CallsReturn`, which depends on
      it too, is a liveness property and stays with TLC.

  Sums over lists of unknown length would need an induction. They are counted as the
  cardinality of a set instead: `Units(f, m)` has a pair for each unit of each number
  of a list from position `m` on, so that the facts about concatenation, heads and
  tails are bijections of finite sets. `CompletionsAccounted` counts in the same way.
  The calls to several servers are lists in server order (`InTurn`); that this order
  enumerates the servers a call touches, each once, is proved from a counting argument
  (`InTurnOf`, `InTurnLists`).

* **`ServerMemoryProofs`**, first part, about `MemoryMap` (`MemoryMapAssumption`). The
  regions come in an order and each
  is a multiple of a slot, so slots of different threads, and slots of a buffer, are
  apart (`Stride`, `Regions`, `SlotInBuffer`); the products of sizes, which the SMT
  solver does not do by itself, are brought down to these lemmas. `MemoryIntact` is
  inductive with the order of the stages: a thread whose query has read something
  searches, and threads search only after the fill, so a fill and a value fetched
  write into buffers that hold nothing. The reads of a query (`MaxReads`) may be any
  number, fitting the buffer or not; the invariant says that a thread outside `overrun` has stayed within its buffer, and
  that what any thread writes lies at or above the start of its own. So the graph
  is safe always, the copies of a query from overruns above it, and the counter as
  long as there are none. `AlwaysIntact` follows.
* **`ServerMemoryProofs`**, second part (in addition `ServerMemoryAssumption`). Every
  step of a server is a step of `MemoryMap` or a stutter, which gives
  `ImplementsMemoryMap`, and with it `MemoryIntact`. `HitsAreRight` needs more: that
  the keys are a sequence of remote vertices at all. `HottestKeys` names them by their
  rank, and `KeysOf` proves that every rank up to their number is taken, by comparing
  the cardinalities of the chosen vertices and of the interval of ranks. `SInv` adds
  what is true in mid fill: the slots already copied hold their keys, the table leads
  to the slot of each copied key and of no other, and
  between read and copy the buffer holds the next key, because nobody else may write
  there then.
* **`ServerMemoryProofs`**, third part, about `BucketIndex` (`BucketIndexAssumption`),
  for every number of servers, base points, graph, row size and size of the kvstore.
  `BktIInv` is inductive:
  * `PlaceInv`: the local id of a placed vertex is below the count of its bucket, so
    the next one is free, and no two placed vertices share a place.
  * `WriteInv`: an allocated bucket has room for as many elements as it has vertices, and
    every vertex written is at its place (`IsAt`), whatever was written after it. A
    write leaves the other slots alone because two slots are apart (`SlotsApart`), an
    element fits its slot (`ElementFits`, from `R` being the largest degree), and a
    `memcpy` changes only what it writes (`OverwriteFacts`).
  * `ServerInv`: servers load after the index is saved and searches start after the
    barrier, so what a search reads is the bucket as it was written; and a search is at
    the place of the vertex it was told of.

  That every vertex is in `InPlace` in the end is the loop over the ids.
  `ReadsVertex` then decodes an element: the four bytes of a number make the number
  again (`EncodeFacts`, where ids, counts and local ids being unsigned is used), each
  part lies at its offset (`ElementFacts`), and byte `k` of entry `m` of a list is byte
  `9 * m + k` of it (`ListFacts`). `ReachesNamedVertex` and `FollowsGraph` follow; the
  latter's entries are also what keeps `ServerInv` over a step of a walk, so the walk
  can be of any length.
* **`RelaxedSearchProofs`** (`SearchAssumption`; the assertion of line 1122,
  `EntryAssumption`, is not used). `SearchInv` is the inductive invariant behind
  `CompletionsMatchPolls`, `CopiesArrived`, `FetchedOnce` and `NeverMisses`:
  * `Control` ties `pc`, the budget and the number of open batches together.
  * `Wires`: the last read in a queue is signaled, so a queue with reads left has a
    completion to come. `Accounted`: completions and signaled reads are as many as
    the waits for them, on every queue pair, which is `CompletionsMatchPolls`.
  * `BatchesFormed` and `SlotsOwned`: a buffer slot is meant for one vertex, whoever
    names it, a read under way, a batch, the entry points or `thd_cache`.
  * `Arriving`: a slot of an open batch is written, or its read is in the queue ahead
    of at least as many signaled reads as there are waits from that batch on. If
    a completion for the oldest batch is there, `Accounted` leaves fewer signaled
    reads than that, so the read has been executed. This is why a poll of a single
    completion may stand for a whole batch although other batches are under way.
  * `Held`, `CopiesArrived`: the entries of the pool can be read, and what is kept in
    `thd_cache` was written. `Used`: the buffer holds no more than was seen, hence
    `FetchedOnce`.

  `NeverMissesHolds`: `get_vertex` never throws, whatever the entry points are and
  however few vertices are found.

  `StaleOnlyIfCutOffHolds` is about the result loop running out of entries. The
  scheduler passes 10 adaptive entry points besides `_membkt_EP`
  (`tests/test_search_distributed.cpp` 640) and `K` may be 100, so nothing but the search
  itself sees to it that there are enough. `CutInv` follows what was looked at: as
  long as the pool is not full it has lost nothing, neither through `Nearest` nor
  through the PQ estimate, so every entry point and every neighbor of an expanded
  vertex is in the pool or in an open batch (`TakesAll`, `ReadsAllNew`); and the
  loop is left with unexpanded entries only when the budget let batches stay open
  (`OutstandingMore`, `OutstandingLess`), whose vertices are remote. Nothing is
  assumed of `K`: that the answer is complete is not promised by this code.

  `RefinesBestFirst`: with `Relax = 0` every step is a step of `BestFirstSearch` or a
  stutter. An expansion is the abstract one, with the remote neighbors counted in
  `SettledPool` at once; `NearestTwice` is why inserting them later, after the local
  ones, leaves the same pool, and the settling is a stutter. An expanded entry that
  local neighbors push out would have been pushed out by all of them
  (`NearestOfFewer`), so the marks agree. `PoolInv` adds that no batch is open and all
  is expanded when the loop is left.
* **`LearnSearchProofs`** (`LearnAssumption`). The halving is a recursive function on
  pairs of bounds. `ShrinkingRecursion` gives its defining equation, from the bounds
  getting closer at every step; `HalveFinds` is what it returns, by the least
  distance of bounds at which it would not: the bounds always enclose the place of
  the vertex. With the place right, `LInv` is inductive: the array is in order and
  without duplicates (`AlwaysSorted`), and what was looked at and is not in it is at
  least as far as everything in it (`AlwaysForgetsFarther`). `CursorInvariance`:
  nothing before the cursor is unexpanded, or, in an expansion, before the place the
  cursor will fall back to. `RefinesBestFirst`, for queries without ties: an expansion
  with all its insertions is one abstract step, at its start, and the visits are
  stutters because a vertex that is refused, or that falls off the end, is one that
  the pool would not keep (`NearestDrop`). With ties the array and `Nearest` would keep
  different vertices: in the array, which of two equally far ones is in front depends
  on when they came.

*Only model-checked:* every liveness property (`Termination`, `AllAnswered`,
`EveryServerRuns`, ...) and the fairness part of `ImplementsWorkPool`, since liveness
under fairness and `ENABLED` are beyond the prover; and `ResultGather` (`MergedIsNearest`,
`RecallCountsRows`), whose merge and recall are folds over data. What a fold computes
for every input would be an induction over data.

## 5. What is not modelled, and what is left

Not modelled, by part of the tree:

* `include/tsl/` (6,800 lines) and `include/efanna2e/`: third-party code whose contract (maps, sets) the models
  take from TLA+.
* Index construction, its files and numerics: `src/index.cpp` 5-250 and 361-443,
  `include/pq.h`, `math_utils.h`, `distance.h`, k-means. Floating
  point, OpenMP loops over independent rows, matrix library calls. Their results
  (partition, graph, learn graph, distances, PQ estimates, the target of a query) are
  inputs of the models: arbitrary within the bounds. `hungary.h` is called from a
  commented-out line only.
* Code that nothing runs: the larger part of `src/index.cpp` after line 1268 and of
  `gstore.hpp` after line 450 is commented out; UC and UD queue pairs and their
  verbs, the bandwidth tests of `core/rdma.hpp`, the visited list, the ring buffers of
  `mem.hpp`, and the single read of `get_vertex`, which stands behind a throw, have no
  caller or cannot be reached. No state of the program depends on them.
* The static distributed test, `tests/test_search_distributed.cpp` 35-176. Its call is
  commented out (line 788), and as it is written it gives no results: it asks for no
  adaptive entry points with relax 3 (line 124), and the assertion of
  `src/index.cpp` 1122 throws in the thread of the first search.
* The search that profiles for the cache (`src/index.cpp` 937-1040) and
  `Index::set_cache` around it: see the finding. `RdmaCache` takes any profile.
* Synchronous reads while asynchronous ones are outstanding, other calls after
  selective writes, and queue sizes outside `QueuePairAssumption`: no program of the
  repository has them.
* Configuration, logging, parameters, data files, micro-benchmarks, scripts: parsing,
  formatting and I/O without a protocol of their own.
* Errors of verbs and of MPI, and crashed servers: the program asserts and stops on a
  failed completion, and restarts nothing. The timeout of `wait_recv`
  (`pre_connector.hpp` 107) cannot fire, and no run of the program has a host that
  stops answering while its socket is open.

These are most of the lines under `src/`; what has a state that several actors or
several steps change is modelled above.

Left: the vote that turns the result of the learn graph's search into the target of a
query (`src/index.cpp` 158-250), now an arbitrary input of `Scheduling`.
