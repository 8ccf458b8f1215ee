---------------------------- MODULE ServerMemory ----------------------------
(***************************************************************************)
(* One server from the load to the queries: its registered memory          *)
(* (MemoryMap) and its cache of remote vertices (RdmaCache) together.  A   *)
(* fill reads each vertex through the first buffer of the memory, so what  *)
(* RdmaCache calls buf is whatever lies there; a fill takes place between  *)
(* the load and the barrier before the threads, where the calls of         *)
(* set_cache stand, or not at all; a query reads the remote vertices the   *)
(* cache misses.                                                           *)
(***************************************************************************)
EXTENDS MemoryMap

CONSTANTS Counts, Limits   \* profiles, and numbers of vertices to cache

Vertices == Own \cup Remote

ASSUME ServerMemoryAssumption ==
    /\ IsFiniteSet(Remote)
    /\ Counts \subseteq [Vertices -> Nat] /\ Limits \subseteq Nat

VARIABLES fill, keys, copied, slots, table

memVars == vars
cacheVars == <<fill, keys, copied, slots, table>>

\* The vertex that lies at the start of the first buffer, if one does.
BufferVertex ==
    LET lies == {v \in Vertices : \A j \in 0 .. vertex_size - 1 :
                                     mem[buffer_offset(0) + j] = VertexWord(v, j)}
    IN  IF lies = {} THEN <<>> ELSE CHOOSE v \in lies : TRUE

Cache == INSTANCE RdmaCache WITH phase <- fill, buf <- BufferVertex

ServerInit == Init /\ Cache!Init

\* GStore::set_cache: the memory changes when a key is read.
Fill ==
    /\ stage = "fill"
    /\ \/ UNCHANGED memVars /\ \E count \in Counts, n \in Limits : Cache!SetCache(count, n)
       \/ fill = "read" /\ copied < Len(keys) /\ FillRead(keys[copied + 1]) /\ Cache!ReadKey
       \/ UNCHANGED memVars /\ (Cache!CopyKey \/ Cache!EndFill)

\* The cache misses of a query are read; a hit is a pointer into the cache.
Missed(v) == Cache!lookup(v) = 0

Serve ==
    /\ UNCHANGED cacheVars
    /\ \/ Load \/ FetchAdd
       \/ fill \in {"empty", "filled"} /\ StartServing
       \/ \E t \in Threads :
             \/ \E n \in 0 .. MaxFetches : FetchedValue(t, n)
             \/ StartSearching(t)
             \/ \E v \in Remote : Missed(v) /\ FetchVertex(t, v)
             \/ Reset(t)

ServerNext == Fill \/ Serve

ServerSpec == ServerInit /\ [][ServerNext]_<<memVars, cacheVars>>

-----------------------------------------------------------------------------
(* Properties: those of the memory, and of the cache *)

\* A pointer from a lookup leads to the vertex looked up, although every
\* copy passes through the memory the threads use, and every vertex chosen
\* is found (cache.hpp:51-79).
HitsReadTheVertex == Cache!HitsReadTheVertex
=============================================================================
