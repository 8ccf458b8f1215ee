----------------------------- MODULE MemoryMap -----------------------------
(***************************************************************************)
(* The registered memory of one server (Mem, core/mem.hpp) and everybody   *)
(* who writes into it: the loader puts the vertices at the start, a fill   *)
(* of the cache reads through the first buffer, every thread lets the NIC  *)
(* read vertices of other servers into its own buffer, one after the       *)
(* other, and the query counter of the dynamic scheduler lies, on the      *)
(* server where it is used, where the first ring buffer is.                *)
(*                                                                         *)
(* Memory is a function from words of eight bytes; all sizes are in words. *)
(* Pointers are offsets into it, as in the code; a vertex is the pair of   *)
(* its server and its local id (ikey_t).                                   *)
(***************************************************************************)
EXTENDS Integers, Sequences, FiniteSets

CONSTANTS num_servers, num_threads,
          Me,            \* sid: this server
          kvs_sz,        \* kvstore
          buf_sz,        \* buffer of one thread
          rbf_sz,        \* ring buffer of one thread and server
          hd_sz,         \* lrbf_hd_sz, rrbf_hd_sz: one head of a ring buffer
          vertex_size,   \* words of a vertex
          data_num,      \* vertices of this server's bucket file
          Remote,        \* vertices of other servers
          MaxReads,      \* bound: vertices a query reads before reset_thd_ctx
          MaxFetches     \* bound: fetch-and-adds on the counter

Threads == 0 .. num_threads - 1
Own == {Me} \X (0 .. data_num - 1)

\* What the configuration owes the code.  The bucket file fits the store
\* (read_file checks it) and a vertex fits the buffer (cache.hpp:69 checks
\* it).  That the reads of a query fit is nowhere checked: the assertion of
\* gstore.hpp:306 is compiled out of a release build, and a query reads as
\* many vertices as its search comes to.
ASSUME MemoryMapAssumption ==
    /\ num_servers \in Nat \ {0} /\ num_threads \in Nat \ {0}
    /\ kvs_sz \in Nat /\ buf_sz \in Nat \ {0} /\ rbf_sz \in Nat /\ hd_sz \in Nat \ {0}
    /\ vertex_size \in Nat \ {0} /\ data_num \in Nat
    /\ Me \in 0 .. num_servers - 1
    /\ \A v \in Remote : v \in (0 .. num_servers - 1) \X Nat /\ v[1] # Me
    /\ MaxReads \in Nat /\ MaxFetches \in Nat
    /\ data_num * vertex_size <= kvs_sz
    /\ vertex_size < buf_sz

-----------------------------------------------------------------------------
(* Mem: the layout. *)

kvs_off == 0
buf_off == kvs_off + kvs_sz
rbf_off == buf_off + buf_sz * num_threads
mem_sz == kvs_sz + buf_sz * num_threads + (rbf_sz * num_servers) * num_threads
            + (hd_sz * num_servers) * num_threads + (hd_sz * num_servers) * num_threads

\* Fault: the buffers overlap by a word.
BufferOverlapping(tid) == buf_off + (buf_sz - 1) * tid
buffer_offset(tid) == buf_off + buf_sz * tid
ring_offset(tid, sid) == rbf_off + (rbf_sz * num_servers) * tid + rbf_sz * sid

-----------------------------------------------------------------------------
VARIABLES mem,      \* the words
          stage,    \* what the server does: load, fill the cache, serve
          phase,    \* per thread: distributes queries, then searches
          placed,   \* per thread: the vertices its query has read, in order
          fetched,  \* history: fetch-and-adds on this server's counter
          overrun   \* history: threads that have written past their buffer

vars == <<mem, stage, phase, placed, fetched, overrun>>

VertexWord(v, j) == <<"vertex", v, j>>
CountWord(n) == <<"count", n, 0>>
OtherWord == <<"other", 0, 0>>   \* one more than the bytes of a vertex
Word == {VertexWord(v, j) : v \in Own \cup Remote, j \in 0 .. vertex_size - 1}
          \cup {CountWord(n) : n \in Nat} \cup {OtherWord}

\* The words from lo on become the n words of data.
Written(lo, n, data(_)) ==
    [i \in DOMAIN mem |-> IF i \in lo .. lo + n - 1 THEN data(i - lo) ELSE mem[i]]

thd_buf_used_sz(t) == Len(placed[t]) * vertex_size

\* memset to zero, which as a counter reads 0.
Init ==
    /\ mem = [i \in 0 .. mem_sz - 1 |-> CountWord(0)]
    /\ stage = "load"
    /\ phase = [t \in Threads |-> "distribute"]
    /\ placed = [t \in Threads |-> <<>>]
    /\ fetched = 0
    /\ overrun = {}

\* load_base_index_distributed reads the bucket file into kvstore().
Load ==
    /\ stage = "load"
    /\ mem' = Written(kvs_off, data_num * vertex_size,
                      LAMBDA i : VertexWord(<<Me, i \div vertex_size>>, i % vertex_size))
    /\ stage' = "fill"
    /\ UNCHANGED <<phase, placed, fetched, overrun>>

\* A fill of the cache reads every vertex it copies to the start of the
\* first buffer (RDMA_Cache::set_cache).
FillRead(v) ==
    /\ stage = "fill"
    /\ mem' = Written(buffer_offset(0), vertex_size, LAMBDA i : VertexWord(v, i))
    /\ UNCHANGED <<stage, phase, placed, fetched, overrun>>

\* The barrier before the threads start.
StartServing ==
    /\ stage = "fill"
    /\ stage' = "serve"
    /\ UNCHANGED <<mem, phase, placed, fetched, overrun>>

counter_off == ring_offset(0, 0)
OneMore(w) == IF w[1] = "count" THEN CountWord(w[2] + 1) ELSE OtherWord

\* rdma_fetch_add of any thread of any server on the counter of this one.
FetchAdd ==
    /\ stage = "serve" /\ fetched < MaxFetches
    /\ mem' = Written(counter_off, 1, LAMBDA i : OneMore(mem[counter_off]))
    /\ fetched' = fetched + 1
    /\ UNCHANGED <<stage, phase, placed, overrun>>

\* The value fetched, from this server or another, lands at the start of
\* the buffer of the thread that asked.
FetchedValue(t, n) ==
    /\ stage = "serve" /\ phase[t] = "distribute"
    /\ mem' = Written(buffer_offset(t), 1, LAMBDA i : CountWord(n))
    /\ UNCHANGED <<stage, phase, placed, fetched, overrun>>

\* An id past the last query: the thread goes on to search.
StartSearching(t) ==
    /\ stage = "serve" /\ phase[t] = "distribute"
    /\ phase' = [phase EXCEPT ![t] = "search"]
    /\ UNCHANGED <<mem, stage, placed, fetched, overrun>>

\* get_vertex_batch places a remote vertex behind those the query has read,
\* be it past the end of the buffer; a read past the registered memory the
\* NIC refuses, which is where the model ends.
FetchVertex(t, v) ==
    LET off == buffer_offset(t) + thd_buf_used_sz(t)
    IN  /\ phase[t] = "search" /\ Len(placed[t]) < MaxReads
        /\ off + vertex_size <= mem_sz
        /\ mem' = Written(off, vertex_size, LAMBDA i : VertexWord(v, i))
        /\ placed' = [placed EXCEPT ![t] = Append(@, v)]
        /\ overrun' = IF thd_buf_used_sz(t) + vertex_size > buf_sz
                      THEN overrun \cup {t} ELSE overrun
        /\ UNCHANGED <<stage, phase, fetched>>

\* reset_thd_ctx before the next query.
Reset(t) ==
    /\ phase[t] = "search" /\ placed[t] # <<>>
    /\ placed' = [placed EXCEPT ![t] = <<>>]
    /\ UNCHANGED <<mem, stage, phase, fetched, overrun>>

Next ==
    \/ Load \/ StartServing \/ FetchAdd
    \/ \E v \in Remote : FillRead(v)
    \/ \E t \in Threads :
          \/ \E n \in 0 .. MaxFetches : FetchedValue(t, n)
          \/ StartSearching(t)
          \/ \E v \in Remote : FetchVertex(t, v)
          \/ Reset(t)

Spec == Init /\ [][Next]_vars

-----------------------------------------------------------------------------
(* Properties *)

\* Types: a word holds what somebody writes.
TypeOK ==
    /\ mem \in [0 .. mem_sz - 1 -> Word]
    /\ stage \in {"load", "fill", "serve"} /\ fetched \in Nat
    /\ phase \in [Threads -> {"distribute", "search"}]
    /\ placed \in [Threads -> Seq(Remote)]
    /\ overrun \subseteq Threads

\* The vertices another server reads by RDMA (and this one by pointer) are
\* those of the bucket file at lid * vertex_size, whatever threads do, and
\* even when a query overruns its buffer: buffers lie above the store, and
\* are filled upwards.
GraphIntact ==
    stage # "load" => \A lid \in 0 .. data_num - 1, j \in 0 .. vertex_size - 1 :
        mem[kvs_off + lid * vertex_size + j] = VertexWord(<<Me, lid>>, j)

\* A vertex that a query has read stays where it was put until the thread's
\* next query: the pointers in vertex_scratch and thd_cache stay good while
\* other threads and the NIC write next to it, as long as neither the thread
\* nor one whose buffer lies below has overrun its own (gstore.hpp:306).
PlacedIntact ==
    \A t \in Threads : overrun \cap (0 .. t) = {} =>
        \A k \in 1 .. Len(placed[t]), j \in 0 .. vertex_size - 1 :
            mem[buffer_offset(t) + (k - 1) * vertex_size + j] = VertexWord(placed[t][k], j)

\* The counter is what the fetch-and-adds have made of it: nobody writes
\* where rdma_fetch_add keeps it (test_search_distributed.cpp:218) unless a
\* query has overrun its buffer, so every query id is handed out once.
CounterIntact == overrun = {} => mem[counter_off] = CountWord(fetched)

\* Nobody writes over what another owner keeps.
MemoryIntact == GraphIntact /\ PlacedIntact /\ CounterIntact
=============================================================================
