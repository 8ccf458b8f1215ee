----------------------------- MODULE RdmaCache -----------------------------
(***************************************************************************)
(* The cache of remote vertices: GStore::set_cache picks the hottest       *)
(* remote vertices by how often a profile has read them, and RDMA_Cache::  *)
(* set_cache copies them, one RDMA read at a time through the start of a   *)
(* buffer, into one allocation that cache_table points into.               *)
(*                                                                         *)
(* The profile is any of the functions in Counts.  How Index::set_cache    *)
(* comes by it is left out: its search still reads neighbor lists as       *)
(* pairs, which the loader writes as triples.  A program calls set_cache   *)
(* once at most.                                                           *)
(***************************************************************************)
EXTENDS Integers, Sequences, FiniteSets

CONSTANTS Me,          \* sid: the server whose cache this is
          Vertices,    \* items <<server, local id>>
          Counts,      \* access_count: functions in [Vertices -> Nat]
          Limits       \* values of num_nodes_to_cache

VARIABLES phase,         \* where set_cache is
          keys,          \* the vertices chosen, hottest first
          copied,        \* how many of them are in the cache
          buf,           \* what buffer(0) holds
          slots,         \* cache_data: the vertex in each slot
          table          \* cache_table: vertex -> the slot its pointer points to

vars == <<phase, keys, copied, buf, slots, table>>

RemoteVertices == {v \in Vertices : v[1] # Me}
NoVertex == <<>>   \* bytes nobody wrote

\* std::greater on the pairs (count, (server, local id)).
Hotter(count, v, w) ==
    \/ count[v] > count[w]
    \/ /\ count[v] = count[w]
       /\ v[1] > w[1] \/ (v[1] = w[1] /\ v[2] > w[2])

\* The keys of GStore::set_cache: remote vertices in that order, up to the
\* limit and up to the first that was never read.
HottestKeys(count, n) ==
    LET read == {v \in RemoteVertices : count[v] > 0}
        rank(v) == Cardinality({w \in read : Hotter(count, w, v)}) + 1
        chosen == {v \in read : rank(v) <= n}
    IN  [i \in 1 .. Cardinality(chosen) |-> CHOOSE v \in chosen : rank(v) = i]

Init ==
    /\ phase = "empty" /\ keys = <<>> /\ copied = 0 /\ buf = NoVertex
    /\ slots = <<>> /\ table = [v \in {} |-> 0]

\* GStore::set_cache chooses the keys; RDMA_Cache::set_cache allocates.
SetCache(count, n) ==
    /\ phase = "empty"
    /\ keys' = HottestKeys(count, n)
    /\ slots' = [i \in DOMAIN keys' |-> NoVertex]
    /\ phase' = "read"
    /\ UNCHANGED <<copied, buf, table>>

\* RdmaRead of the next key into the start of buffer(0).
ReadKey ==
    /\ phase = "read" /\ copied < Len(keys)
    /\ buf' = keys[copied + 1]
    /\ phase' = "copy"
    /\ UNCHANGED <<keys, copied, slots, table>>

\* Fault: all keys share the first slot.
FirstSlot(i) == 1

\* memcpy to its slot, and the table entry that points there.
Slot(i) == i
CopyKey ==
    /\ phase = "copy"
    /\ LET i == copied + 1
       IN  /\ slots' = [slots EXCEPT ![Slot(i)] = buf]
           /\ table' = [v \in DOMAIN table \cup {keys[i]} |->
                          IF v = keys[i] THEN Slot(i) ELSE table[v]]
           /\ copied' = i
    /\ phase' = "read"
    /\ UNCHANGED <<keys, buf>>

EndFill ==
    /\ phase = "read" /\ copied = Len(keys)
    /\ phase' = "filled"
    /\ UNCHANGED <<keys, copied, buf, slots, table>>

Next ==
    \/ \E count \in Counts, n \in Limits : SetCache(count, n)
    \/ ReadKey \/ CopyKey \/ EndFill

Spec == Init /\ [][Next]_vars

-----------------------------------------------------------------------------
(* RDMA_Cache::lookup (nullptr is 0), and what its caller reads through the *)
(* pointer.                                                                 *)

lookup(v) == IF v \in DOMAIN table THEN table[v] ELSE 0
ReadThrough(ptr) == slots[ptr]

-----------------------------------------------------------------------------
(* Properties *)

\* Types of the cache and of the fill.
TypeOK ==
    /\ phase \in {"empty", "read", "copy", "filled"}
    /\ keys \in Seq(RemoteVertices) /\ copied \in 0 .. Len(keys)
    /\ buf \in Vertices \cup {NoVertex}
    /\ slots \in Seq(RemoteVertices \cup {NoVertex}) /\ Len(slots) = Len(keys)
    /\ DOMAIN table \subseteq RemoteVertices

\* Every lookup that hits leads to the bytes of the vertex looked up, and
\* after the fill every chosen vertex hits and no other one does: no copy is
\* taken from the buffer before or after its own read, none is overwritten
\* by a later one (cache.hpp:51-79).
HitsReadTheVertex ==
    /\ TypeOK
    /\ \A v \in Vertices : lookup(v) # 0 => ReadThrough(lookup(v)) = v
    /\ phase = "filled" =>
          \A v \in Vertices : lookup(v) # 0 <=> v \in {keys[i] : i \in DOMAIN keys}
=============================================================================
