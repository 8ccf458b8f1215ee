----------------------------- MODULE BucketIndex -----------------------------
(***************************************************************************)
(* The distributed base index: how generate_base_index_on_buckets          *)
(* (src/index.cpp, lines 444-548) places the vertices in one bucket per    *)
(* server and lays them out in bytes, how every server loads its bucket    *)
(* into its registered memory (lines 592-664) and how a search on any      *)
(* server walks the graph through that memory.                             *)
(*                                                                         *)
(* A vertex is the id of a base point in the data files, and the item      *)
(* <<server, local id>> in the memory of the servers.  The bytes matter:   *)
(* the writer and the readers each have their own copy of the layout.      *)
(***************************************************************************)
EXTENDS Integers, Sequences

CONSTANTS
  NumBuckets,    \* bucket_count, which is Global::num_servers
  BaseNum,       \* _base_num
  Graphs,        \* the graphs the file graph_file may hold
  DataBytes,     \* _dimension * sizeof(float)
  Row,           \* _base_data: the bytes of each base point
  KvstoreSize    \* the bytes of Mem::kvstore of a server

Ids == 0 .. BaseNum - 1
Buckets == 0 .. NumBuckets - 1
Byte == 0 .. 255

(* A number that an unsigned holds. *)
IsUnsigned(v) == v \in Nat /\ v \div 65536 < 65536

(* Ids and degrees are unsigned in the data files, servers are bytes. *)
ASSUME BucketIndexAssumption ==
  /\ NumBuckets \in 1 .. 256
  /\ BaseNum \in Nat \ {0} /\ IsUnsigned(BaseNum - 1)
  /\ \A g \in Graphs : /\ g \in [Ids -> Seq(Ids)]
                       /\ \A id \in Ids : IsUnsigned(Len(g[id]))
  /\ DataBytes \in Nat
  /\ Row \in [Ids -> [1 .. DataBytes -> Byte]]
  /\ KvstoreSize \in Nat

(* sizeof(unsigned) of the label and of the neighbor count, and the sizes of
   vertex_id_t, server_id_t and local_id_t. *)
UnsignedBytes == 4
VidBytes == 4
SidBytes == 1
LidBytes == 4
EntryBytes == VidBytes + SidBytes + LidBytes

Uninit == -1   \* a byte of an allocation that was not written

(* The little-endian bytes of an unsigned, and a byte. *)
Encode(v) == <<v % 256, (v \div 256) % 256, (v \div 65536) % 256, (v \div 16777216) % 256>>
EncodeByte(v) == <<v % 256>>

VARIABLES
  graph,      \* _base_graph
  pc,         \* which loop of the index builder is running
  next,       \* its loop variable
  partition,  \* _base_in_bucket
  lid,        \* _base_to_lid
  dataNum,    \* data_num
  bucket,     \* _memeory_buckets, later the bucket files
  kvstore,    \* the kvstore of a server, as far as it is used
  server,     \* where the main thread of a server is
  item,       \* the vertex a search on a server is at ...
  named       \* ... and the id the neighbor list it came from gives it

buildVars == <<graph, pc, next, partition, lid, dataNum, bucket>>
serverVars == <<kvstore, server, item, named>>
bktVars == <<buildVars, serverVars>>

NoItem == <<0, 0>>

BktTypeOK ==
  /\ graph \in [Ids -> Seq(Ids)]
  /\ pc \in {"partition", "place", "write", "saved"}
  /\ next \in 0 .. BaseNum
  /\ partition \in [Ids -> Buckets]
  /\ lid \in [Ids -> 0 .. BaseNum - 1]
  /\ dataNum \in [Buckets -> 0 .. BaseNum]
  /\ \A b \in Buckets : bucket[b] \in Seq(Byte \cup {Uninit})
  /\ \A s \in Buckets : kvstore[s] \in Seq(Byte \cup {Uninit})
  /\ server \in [Buckets -> {"load", "loaded", "search", "error"}]
  /\ item \in [Buckets -> Buckets \X Nat]
  /\ named \in [Buckets -> Ids]

BktInit ==
  /\ graph \in Graphs
  /\ pc = "partition"
  /\ next = 0
  /\ partition = [id \in Ids |-> 0]
  /\ lid = [id \in Ids |-> 0]
  /\ dataNum = [b \in Buckets |-> 0]
  /\ bucket = [b \in Buckets |-> << >>]
  /\ kvstore = [s \in Buckets |-> << >>]
  /\ server = [s \in Buckets |-> "load"]
  /\ item = [s \in Buckets |-> NoItem]
  /\ named = [s \in Buckets |-> 0]

-----------------------------------------------------------------------------
(* The layout of an element *)

(* _base_graph_R, which check_degree corrects to the largest degree. *)
R == CHOOSE r \in {Len(graph[id]) : id \in Ids} : \A id \in Ids : Len(graph[id]) <= r

LabelOffset == DataBytes
NeighborOffset == DataBytes + UnsignedBytes

(* Fault: the commented-out line 456, which has no room for the ids. *)
ElementSizeWithoutIds ==
  NeighborOffset + UnsignedBytes + R * (SidBytes + LidBytes)

ElementSize ==
  NeighborOffset + UnsignedBytes + R * EntryBytes

NeighborEntry(id) == Encode(id) \o EncodeByte(partition[id]) \o Encode(lid[id])

(* The entries of the neighbors of a vertex, one after the other. *)
NeighborList(id) ==
  [k \in 1 .. Len(graph[id]) * EntryBytes |->
     NeighborEntry(graph[id][((k - 1) \div EntryBytes) + 1])[((k - 1) % EntryBytes) + 1]]

(* What lines 517-544 write for a vertex, from the start of its element. *)
Element(id) == Row[id] \o Encode(id) \o Encode(Len(graph[id])) \o NeighborList(id)

-----------------------------------------------------------------------------
(* The index builder *)

Advance(loop, following) ==
  IF next + 1 < BaseNum
    THEN next' = next + 1 /\ pc' = loop
    ELSE next' = 0 /\ pc' = following

(* Lines 477-483: the closest coarse cluster may be any. *)
Partition ==
  /\ pc = "partition"
  /\ \E b \in Buckets : partition' = [partition EXCEPT ![next] = b]
  /\ Advance("partition", "place")
  /\ UNCHANGED <<graph, lid, dataNum, bucket, serverVars>>

LocalId(b) == dataNum[b]

(* Lines 484-491, and the allocation that follows the loop. *)
Place ==
  LET b == partition[next] IN
  /\ pc = "place"
  /\ lid' = [lid EXCEPT ![next] = LocalId(b)]
  /\ dataNum' = [dataNum EXCEPT ![b] = @ + 1]
  /\ Advance("place", "write")
  /\ bucket' =
       IF pc' = "write"
         THEN [c \in Buckets |->
                 [a \in 1 .. ElementSize * dataNum'[c] |-> Uninit]]
         ELSE bucket
  /\ UNCHANGED <<graph, partition, serverVars>>

(* memcpy to an offset.  What is written past the end is lost here. *)
Overwrite(memory, at, bytes) ==
  [a \in DOMAIN memory |-> IF a - at \in DOMAIN bytes THEN bytes[a - at] ELSE memory[a]]

(* Lines 512-545. *)
WriteElement ==
  /\ pc = "write"
  /\ bucket' = [bucket EXCEPT ![partition[next]] =
                  Overwrite(@, lid[next] * ElementSize, Element(next))]
  /\ Advance("write", "saved")
  /\ UNCHANGED <<graph, partition, lid, dataNum, serverVars>>

-----------------------------------------------------------------------------
(* The servers *)

(* load_base_index_distributed of server s, once the files are there: the
   bucket is read into the kvstore unless it is too large. *)
LoadBucket(s) ==
  /\ pc = "saved"
  /\ server[s] = "load"
  /\ IF Len(bucket[s]) > KvstoreSize
       THEN /\ server' = [server EXCEPT ![s] = "error"]
            /\ UNCHANGED kvstore
       ELSE /\ server' = [server EXCEPT ![s] = "loaded"]
            /\ kvstore' = [kvstore EXCEPT ![s] = bucket[s]]
  /\ UNCHANGED <<buildVars, item, named>>

Loaded(s) == server[s] \in {"loaded", "search"}

(* Fault: a server searches as soon as its own data is loaded. *)
SelfLoaded(s) == Loaded(s)

(* "Wait until the data of all machines is loaded": the barrier of
   tests/test_search_distributed.cpp, line 261. *)
AllLoaded(s) == \A t \in Buckets : Loaded(t)

(* The next search begins at _membkt_EP, the item of _base_graph_EP (line
   547), or at adaptive entry points (lines 349-360): at the item of any
   vertex. *)
StartSearch(s) ==
  /\ AllLoaded(s)
  /\ server' = [server EXCEPT ![s] = "search"]
  /\ \E id \in Ids :
       /\ item' = [item EXCEPT ![s] = <<partition[id], lid[id]>>]
       /\ named' = [named EXCEPT ![s] = id]
  /\ UNCHANGED <<buildVars, kvstore>>

(* The address of an item, in the memory of this or of another server, is its
   local id times the size of an element.  Memory that was not written is
   zero (Mem, line 232 of core/mem.hpp). *)
ByteAt(i, a) ==
  LET address == i[2] * ElementSize + a + 1 IN
  IF address \in DOMAIN kvstore[i[1]] THEN kvstore[i[1]][address] ELSE 0

ReadNumber(i, at) ==
  ByteAt(i, at) + 256 * ByteAt(i, at + 1) + 65536 * ByteAt(i, at + 2)
    + 16777216 * ByteAt(i, at + 3)

LabelOf(i) == ReadNumber(i, LabelOffset)
RowOf(i) == [k \in 1 .. DataBytes |-> ByteAt(i, k - 1)]
DegreeOf(i) == ReadNumber(i, NeighborOffset)
ListOffset == NeighborOffset + UnsignedBytes

(* The m-th neighbor as the searches read it (lines 884-894 and 1167-1177). *)
NeighborAt(i, m) ==
  LET at == ListOffset + m * EntryBytes IN
  [vid  |-> ReadNumber(i, at),
   item |-> <<ByteAt(i, at + VidBytes), ReadNumber(i, at + VidBytes + SidBytes)>>]

(* The m-th neighbor as the profiling search reads it (lines 1002-1006). *)
ProfiledNeighborAt(i, m) ==
  LET at == ListOffset + m * (SidBytes + LidBytes) IN
  <<ByteAt(i, at), ReadNumber(i, at + SidBytes)>>

(* The expansion of a vertex takes the search to any of its neighbors. *)
Walk(s) ==
  /\ server[s] = "search"
  /\ \E m \in 0 .. DegreeOf(item[s]) - 1 :
       LET neighbor == NeighborAt(item[s], m) IN
       /\ item' = [item EXCEPT ![s] = neighbor.item]
       /\ named' = [named EXCEPT ![s] = neighbor.vid]
  /\ UNCHANGED <<buildVars, kvstore, server>>

BktNext ==
  \/ Partition
  \/ Place
  \/ WriteElement
  \/ \E s \in Buckets : LoadBucket(s) \/ StartSearch(s) \/ Walk(s)

BktSpec == BktInit /\ [][BktNext]_bktVars

-----------------------------------------------------------------------------
(* Properties *)

Searching == {s \in Buckets : server[s] = "search"}

(* Wherever a search is, the id under which it came there, the label and the
   data row at that item are those of one vertex: the copies of the placement
   (the entries of the neighbor lists, the .partition and .lid files) agree
   with the address arithmetic on every server, and no server is read before
   it has loaded its bucket. *)
WalkReachesNamedVertex ==
  /\ BktTypeOK
  /\ \A s \in Searching :
       LabelOf(item[s]) = named[s] /\ RowOf(item[s]) = Row[named[s]]

(* The neighbors a search reads are those of the graph, in their order. *)
WalkFollowsGraph ==
  \A s \in Searching :
    [m \in 1 .. DegreeOf(item[s]) |-> NeighborAt(item[s], m - 1).vid]
      = graph[named[s]]

(* The layout comment of line 462: the list holds (node_id, local_id) pairs.
   A reader that follows it finds the items of the neighbors. *)
ListHoldsPairs ==
  \A s \in Searching :
    \A m \in 1 .. DegreeOf(item[s]) :
      ProfiledNeighborAt(item[s], m - 1)
        = <<partition[graph[named[s]][m]], lid[graph[named[s]][m]]>>
=============================================================================
