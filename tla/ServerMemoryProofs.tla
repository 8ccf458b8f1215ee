------------------------- MODULE ServerMemoryProofs -------------------------
(***************************************************************************)
(* First the memory alone: the regions of Mem do not overlap, and no write *)
(* of the loader, of a thread or of the NIC touches what another owner     *)
(* keeps, but for what a query that overruns its buffer reaches, for every *)
(* size and number of servers and threads that MemoryMapAssumption admits. *)
(*                                                                         *)
(* Then the server: it is a MemoryMap whatever its cache does, so nothing  *)
(* is written over that an overrun does not reach, and a lookup that hits  *)
(* leads to the vertex looked up.                                          *)
(*                                                                         *)
(* Last the bucket index that the kvstores of all servers hold: however    *)
(* the vertices are spread, a search reads what the index builder wrote.   *)
(***************************************************************************)
EXTENDS ServerMemory, BucketIndex, NearestProofs, FunctionTheorems

-----------------------------------------------------------------------------
(* The memory *)


\* A slot of size s ends before the slot at a later index begins.
LEMMA Stride ==
    ASSUME NEW s \in Nat, NEW a \in Nat, NEW b \in Nat, a < b
    PROVE  s * a + s <= s * b
<1>1. PICK c \in Nat : b = a + 1 + c  BY b - a - 1 \in Nat, b = a + 1 + (b - a - 1)
<1>2. s * b = s * a + s + s * c  BY <1>1
<1>3. s * c \in Nat  BY <1>1
<1> QED  BY <1>2, <1>3

\* Division and remainder of an index in an array of slots of size s.
LEMMA SlotOf ==
    ASSUME NEW s \in Nat \ {0}, NEW v \in Nat, NEW j \in 0 .. s - 1
    PROVE  (v * s + j) \div s = v /\ (v * s + j) % s = j
<1> DEFINE i == v * s + j  q == i \div s  r == i % s
<1>0. i \in Nat /\ q \in Nat /\ r \in 0 .. s - 1 /\ i = s * q + r  BY SMT
<1> HIDE DEF i, q, r
<1>1. v * s = s * v /\ s * v \in Nat /\ s * q \in Nat  BY <1>0
<1>2. i = s * v + j  BY <1>1 DEF i
<1>3. ~(q < v)
  <2>1. q < v => s * q + s <= s * v  BY <1>0, Stride
  <2> QED  BY <2>1, <1>0, <1>1, <1>2
<1>4. ~(v < q)
  <2>1. v < q => s * v + s <= s * q  BY <1>0, Stride
  <2> QED  BY <2>1, <1>0, <1>1, <1>2
<1>5. q = v  BY <1>0, <1>3, <1>4
<1>6. r = j  BY <1>0, <1>1, <1>2, <1>5
<1> QED  BY <1>5, <1>6 DEF i, q, r

\* Sizes of the regions that are products.
LEMMA Sizes ==
    /\ buf_sz * num_threads \in Nat
    /\ (rbf_sz * num_servers) * num_threads \in Nat
    /\ (hd_sz * num_servers) * num_threads \in Nat \ {0}
    /\ mem_sz \in Nat
    /\ data_num * vertex_size \in Nat
<1>1. hd_sz * num_servers \in Nat \ {0}  BY MemoryMapAssumption
<1>2. (hd_sz * num_servers) * num_threads \in Nat \ {0}  BY <1>1, MemoryMapAssumption
<1>3. rbf_sz * num_servers \in Nat  BY MemoryMapAssumption
<1>4. (rbf_sz * num_servers) * num_threads \in Nat  BY <1>3, MemoryMapAssumption
<1>5. buf_sz * num_threads \in Nat  BY MemoryMapAssumption
<1>6. data_num * vertex_size \in Nat  BY MemoryMapAssumption
<1>7. mem_sz \in Nat
  <2> DEFINE a == buf_sz * num_threads
             b == (rbf_sz * num_servers) * num_threads
             c == (hd_sz * num_servers) * num_threads
  <2>1. mem_sz = kvs_sz + a + b + c + c  BY DEF mem_sz
  <2>2. a \in Nat /\ b \in Nat /\ c \in Nat /\ kvs_sz \in Nat
    BY <1>2, <1>4, <1>5, MemoryMapAssumption
  <2> HIDE DEF a, b, c
  <2> QED  BY <2>1, <2>2
<1> QED  BY <1>2, <1>4, <1>5, <1>6, <1>7

\* The store, the buffers and the counter, in this order, inside the memory.
LEMMA Regions ==
    /\ kvs_off = 0 /\ kvs_sz \in Nat /\ data_num * vertex_size <= kvs_sz
    /\ rbf_off \in Nat /\ counter_off = rbf_off /\ counter_off < mem_sz
    /\ \A t \in Threads : /\ buffer_offset(t) \in Nat
                          /\ kvs_sz <= buffer_offset(t)
                          /\ buffer_offset(t) + buf_sz <= rbf_off
    /\ \A t, u \in Threads : t < u => buffer_offset(t) + buf_sz <= buffer_offset(u)
<1> DEFINE a == buf_sz * num_threads
           b == (rbf_sz * num_servers) * num_threads
           c == (hd_sz * num_servers) * num_threads
<1>1. a \in Nat /\ b \in Nat /\ c \in Nat \ {0}  BY Sizes
<1>2. kvs_off = 0 /\ kvs_sz \in Nat /\ data_num * vertex_size <= kvs_sz
  BY MemoryMapAssumption DEF kvs_off
<1>3. rbf_off = kvs_sz + a /\ mem_sz = kvs_sz + a + b + c + c
  BY <1>2 DEF rbf_off, buf_off, kvs_off, mem_sz
<1>4. counter_off = rbf_off
  <2>1. rbf_sz * num_servers \in Nat /\ rbf_sz \in Nat  BY MemoryMapAssumption
  <2>2. (rbf_sz * num_servers) * 0 = 0 /\ rbf_sz * 0 = 0  BY <2>1
  <2>3. rbf_off \in Nat  BY <1>1, <1>2, <1>3
  <2> HIDE DEF a, b, c
  <2> QED  BY <2>2, <2>3 DEF counter_off, ring_offset
<1> HIDE DEF a, b, c
<1>5. rbf_off \in Nat /\ counter_off < mem_sz  BY <1>1, <1>2, <1>3, <1>4
<1>6. ASSUME NEW t \in Threads
      PROVE  /\ buffer_offset(t) = kvs_sz + buf_sz * t /\ buf_sz * t \in Nat
             /\ buffer_offset(t) \in Nat /\ kvs_sz <= buffer_offset(t)
             /\ buffer_offset(t) + buf_sz <= rbf_off
  <2>1. t \in Nat /\ num_threads \in Nat /\ t < num_threads /\ buf_sz \in Nat
    BY MemoryMapAssumption DEF Threads
  <2>2. buf_sz * t \in Nat  BY <2>1
  <2>3. buf_sz * t + buf_sz <= a  BY <2>1, Stride DEF a
  <2>4. buffer_offset(t) = kvs_sz + buf_sz * t
    BY <1>2 DEF buffer_offset, buf_off, kvs_off
  <2> QED  BY <1>1, <1>2, <1>3, <2>1, <2>2, <2>3, <2>4
<1>7. ASSUME NEW t \in Threads, NEW u \in Threads, t < u
      PROVE  buffer_offset(t) + buf_sz <= buffer_offset(u)
  <2>1. t \in Nat /\ u \in Nat /\ buf_sz \in Nat  BY MemoryMapAssumption DEF Threads
  <2>2. buf_sz * t + buf_sz <= buf_sz * u  BY <1>7, <2>1, Stride
  <2> QED  BY <1>2, <1>6, <2>1, <2>2
<1> QED  BY <1>2, <1>4, <1>5, <1>6, <1>7

\* Vertices in a buffer lie one after the other.
LEMMA SlotOrder ==
    ASSUME NEW k \in Nat
    PROVE  /\ k * vertex_size \in Nat
           /\ \A l \in Nat : l < k => l * vertex_size + vertex_size <= k * vertex_size
<1>1. vertex_size \in Nat  BY MemoryMapAssumption
<1>2. k * vertex_size = vertex_size * k /\ k * vertex_size \in Nat  BY <1>1
<1>3. ASSUME NEW l \in Nat, l < k PROVE l * vertex_size + vertex_size <= k * vertex_size
  <2>1. vertex_size * l + vertex_size <= vertex_size * k  BY <1>1, <1>3, Stride
  <2>2. l * vertex_size = vertex_size * l  BY <1>1
  <2> QED  BY <2>1, <2>2, <1>2
<1> QED  BY <1>2, <1>3

\* Where the words of the own vertices lie.
LEMMA StoreAddress ==
    ASSUME NEW local \in 0 .. data_num - 1, NEW j \in 0 .. vertex_size - 1
    PROVE  /\ kvs_off + local * vertex_size + j \in 0 .. kvs_sz - 1
           /\ kvs_off + local * vertex_size + j = local * vertex_size + j
           /\ local * vertex_size + j < data_num * vertex_size
<1>1. local \in Nat /\ data_num \in Nat /\ local < data_num /\ vertex_size \in Nat
  BY MemoryMapAssumption
<1>2. local * vertex_size \in Nat /\ data_num * vertex_size \in Nat
      /\ local * vertex_size = vertex_size * local /\ data_num * vertex_size = vertex_size * data_num
  BY <1>1
<1>3. vertex_size * local + vertex_size <= vertex_size * data_num  BY <1>1, Stride
<1> QED  BY <1>1, <1>2, <1>3, Regions

\* Where the words of the vertices a query has read lie, if they fit.
Fits(m) == m * vertex_size <= buf_sz
LEMMA BufferAddress ==
    ASSUME NEW t \in Threads, NEW m \in Nat, Fits(m), NEW k \in 1 .. m,
           NEW j \in 0 .. vertex_size - 1
    PROVE  buffer_offset(t) + (k - 1) * vertex_size + j
             \in buffer_offset(t) .. buffer_offset(t) + buf_sz - 1
<1> DEFINE l == k - 1  x == l * vertex_size  y == m * vertex_size
<1>1. vertex_size \in Nat /\ buf_sz \in Nat /\ l \in Nat /\ l < m
  BY MemoryMapAssumption
<1> HIDE DEF l
<1>2. x \in Nat /\ y \in Nat /\ x + vertex_size <= y  BY <1>1, SlotOrder
<1>3. y <= buf_sz  BY DEF Fits
<1>4. buffer_offset(t) \in Nat  BY Regions
<1> HIDE DEF buffer_offset, x, y
<1>5. buffer_offset(t) + x + j \in buffer_offset(t) .. buffer_offset(t) + buf_sz - 1
  BY <1>1, <1>2, <1>3, <1>4
<1> QED  BY <1>5 DEF x, l

-----------------------------------------------------------------------------
(* The inductive invariant: a thread that has read something searches, and a
   thread that searches has passed the barrier.  Without it the fetched value
   of a counter, or a fill, could land on a vertex that a query holds.  And a
   thread that has not overrun its buffer has read no more than fits. *)

InBuffer == \A t \in Threads : t \notin overrun => Fits(Len(placed[t]))

IInv ==
    /\ TypeOK
    /\ \A t \in Threads : placed[t] # <<>> => phase[t] = "search"
    /\ \A t \in Threads : phase[t] = "search" => stage = "serve"
    /\ InBuffer
    /\ MemoryIntact

\* A write that starts in the buffer of t leaves the store and the buffers
\* below as they are; one that also ends there leaves the counter and the
\* buffers above.
Inside(t, lo, n) == lo + n <= buffer_offset(t) + buf_sz
LEMMA Frame ==
    ASSUME NEW t \in Threads, NEW lo \in Nat, NEW n \in Nat, buffer_offset(t) <= lo,
           \A i \in 0 .. mem_sz - 1 : i \notin lo .. lo + n - 1 => mem'[i] = mem[i]
    PROVE  /\ \A local \in 0 .. data_num - 1, j \in 0 .. vertex_size - 1 :
                 mem'[kvs_off + local * vertex_size + j] = mem[kvs_off + local * vertex_size + j]
           /\ Inside(t, lo, n) => mem'[counter_off] = mem[counter_off]
           /\ \A u \in Threads, m \in Nat : Fits(m) /\ u # t /\ (u < t \/ Inside(t, lo, n)) =>
                 \A k \in 1 .. m, j \in 0 .. vertex_size - 1 :
                   mem'[buffer_offset(u) + (k - 1) * vertex_size + j]
                     = mem[buffer_offset(u) + (k - 1) * vertex_size + j]
<1>1. /\ kvs_sz \in Nat /\ buf_sz \in Nat /\ rbf_off \in Nat /\ mem_sz \in Nat
      /\ counter_off = rbf_off /\ counter_off < mem_sz
      /\ buffer_offset(t) \in Nat /\ kvs_sz <= buffer_offset(t)
      /\ buffer_offset(t) + buf_sz <= rbf_off
  BY Regions, Sizes, MemoryMapAssumption
<1>2. ASSUME NEW local \in 0 .. data_num - 1, NEW j \in 0 .. vertex_size - 1
      PROVE  mem'[kvs_off + local * vertex_size + j] = mem[kvs_off + local * vertex_size + j]
  <2> DEFINE a == kvs_off + local * vertex_size + j
  <2>1. a \in 0 .. kvs_sz - 1  BY StoreAddress
  <2> HIDE DEF a, buffer_offset, counter_off, rbf_off, mem_sz
  <2>2. a \in 0 .. mem_sz - 1 /\ a \notin lo .. lo + n - 1  BY <1>1, <2>1
  <2>3. mem'[a] = mem[a]  BY <2>2
  <2> QED  BY <2>3 DEF a
<1>3. ASSUME Inside(t, lo, n) PROVE mem'[counter_off] = mem[counter_off]
  <2>1. lo + n <= buffer_offset(t) + buf_sz  BY <1>3 DEF Inside
  <2> HIDE DEF buffer_offset, counter_off, rbf_off, mem_sz
  <2>2. counter_off \in 0 .. mem_sz - 1 /\ counter_off \notin lo .. lo + n - 1
    BY <1>1, <2>1
  <2> QED  BY <2>2
<1>4. ASSUME NEW u \in Threads, NEW m \in Nat, Fits(m), u # t, u < t \/ Inside(t, lo, n),
             NEW k \in 1 .. m, NEW j \in 0 .. vertex_size - 1
      PROVE  mem'[buffer_offset(u) + (k - 1) * vertex_size + j]
               = mem[buffer_offset(u) + (k - 1) * vertex_size + j]
  <2> DEFINE a == buffer_offset(u) + (k - 1) * vertex_size + j
  <2>1. a \in buffer_offset(u) .. buffer_offset(u) + buf_sz - 1  BY <1>4, BufferAddress
  <2>2. buffer_offset(u) \in Nat /\ buffer_offset(u) + buf_sz <= rbf_off  BY Regions
  <2>3. \/ buffer_offset(u) + buf_sz <= lo
        \/ lo + n <= buffer_offset(u)
    <3>1. u < t => buffer_offset(u) + buf_sz <= buffer_offset(t)  BY Regions
    <3>2. t < u => buffer_offset(t) + buf_sz <= buffer_offset(u)  BY Regions
    <3>3. u < t \/ (t < u /\ Inside(t, lo, n))  BY <1>4, MemoryMapAssumption DEF Threads
    <3> HIDE DEF buffer_offset
    <3> QED  BY <1>1, <2>2, <3>1, <3>2, <3>3 DEF Inside
  <2> HIDE DEF a, buffer_offset, counter_off, rbf_off, mem_sz
  <2>4. a \in 0 .. mem_sz - 1 /\ a \notin lo .. lo + n - 1  BY <1>1, <2>1, <2>2, <2>3
  <2>5. mem'[a] = mem[a]  BY <2>4
  <2> QED  BY <2>5 DEF a
<1> QED  BY <1>2, <1>3, <1>4

LEMMA Words ==
    /\ \A v \in Own \cup Remote, j \in 0 .. vertex_size - 1 : VertexWord(v, j) \in Word
    /\ \A n \in Nat : CountWord(n) \in Word
    /\ \A w \in Word : OneMore(w) \in Word
    /\ \A n \in Nat : OneMore(CountWord(n)) = CountWord(n + 1)
<1>1. \A v \in Own \cup Remote, j \in 0 .. vertex_size - 1 : VertexWord(v, j) \in Word
  BY DEF Word
<1>2. \A n \in Nat : CountWord(n) \in Word  BY DEF Word
<1>3. \A n \in Nat : CountWord(n)[1] = "count" /\ CountWord(n)[2] = n  BY DEF CountWord
<1>4. ASSUME NEW w \in Word PROVE OneMore(w) \in Word
  <2>1. OtherWord \in Word  BY DEF Word
  <2>2. CASE w \in {CountWord(n) : n \in Nat}
    <3>1. PICK n \in Nat : w = CountWord(n)  BY <2>2
    <3>2. OneMore(w) = CountWord(n + 1) /\ n + 1 \in Nat  BY <1>3, <3>1 DEF OneMore
    <3> QED  BY <1>2, <3>2
  <2>3. CASE w \in {VertexWord(v, j) : v \in Own \cup Remote, j \in 0 .. vertex_size - 1}
    <3>1. w[1] = "vertex"  BY <2>3 DEF VertexWord
    <3> QED  BY <2>1, <3>1 DEF OneMore
  <2>4. CASE w = OtherWord
    <3>1. w[1] = "other"  BY <2>4 DEF OtherWord
    <3> QED  BY <2>1, <3>1 DEF OneMore
  <2> QED  BY <2>2, <2>3, <2>4 DEF Word
<1> QED  BY <1>1, <1>2, <1>3, <1>4 DEF OneMore

LEMMA NothingFits == Fits(Len(<<>>))
<1>1. Len(<<>>) = 0 /\ vertex_size \in Nat /\ buf_sz \in Nat  BY MemoryMapAssumption
<1> QED  BY <1>1 DEF Fits

LEMMA InitInv == Init => IInv
<1> SUFFICES ASSUME Init PROVE IInv  OBVIOUS
<1>1. counter_off \in 0 .. mem_sz - 1
  <2> HIDE DEF counter_off, rbf_off, mem_sz
  <2> QED  BY Regions, Sizes
<1>2. CountWord(0) \in Word  BY Words
<1>3. TypeOK
  <2>1. mem \in [0 .. mem_sz - 1 -> Word]  BY <1>2 DEF Init
  <2> QED  BY <2>1 DEF Init, TypeOK
<1>4. GraphIntact  BY DEF Init, GraphIntact
<1>5. PlacedIntact
  <2>1. \A t \in Threads : placed[t] = <<>>  BY DEF Init
  <2>2. \A t \in Threads : 1 .. Len(placed[t]) = {}  BY <2>1
  <2> QED  BY <2>2 DEF PlacedIntact
<1>6. CounterIntact  BY <1>1 DEF Init, CounterIntact
<1>7. \A t \in Threads : placed[t] = <<>> /\ phase[t] = "distribute"  BY DEF Init
<1>8. InBuffer  BY <1>7, NothingFits DEF InBuffer
<1> QED  BY <1>3, <1>4, <1>5, <1>6, <1>7, <1>8 DEF IInv, MemoryIntact

\* What a step keeps that leaves the memory alone.
LEMMA Unmoved ==
    ASSUME IInv, UNCHANGED <<mem, placed, fetched, overrun>>, stage # "load",
           stage' \in {"fill", "serve"}
    PROVE  MemoryIntact' /\ InBuffer'
<1> QED  BY DEF IInv, TypeOK, MemoryIntact, GraphIntact, PlacedIntact, CounterIntact, InBuffer

LEMMA LoadInv == ASSUME IInv, Load PROVE IInv'
<1> USE DEF IInv, Load
<1>0. /\ mem \in [0 .. mem_sz - 1 -> Word] /\ fetched \in Nat
      /\ phase \in [Threads -> {"distribute", "search"}]
      /\ placed \in [Threads -> Seq(Remote)] /\ overrun \subseteq Threads
  BY DEF TypeOK
<1>1. /\ kvs_off = 0 /\ data_num * vertex_size \in Nat /\ data_num * vertex_size <= kvs_sz
      /\ kvs_sz \in Nat /\ rbf_off \in Nat /\ mem_sz \in Nat
      /\ counter_off = rbf_off /\ counter_off < mem_sz /\ kvs_sz <= rbf_off
  <2>1. 0 \in Threads /\ buf_sz \in Nat  BY MemoryMapAssumption DEF Threads
  <2>2. /\ buffer_offset(0) \in Nat /\ kvs_sz <= buffer_offset(0)
        /\ buffer_offset(0) + buf_sz <= rbf_off /\ rbf_off \in Nat
    BY <2>1, Regions
  <2>3. kvs_sz <= rbf_off
    <3> HIDE DEF buffer_offset, rbf_off
    <3> QED  BY <2>1, <2>2, MemoryMapAssumption, SMTT(30)
  <2> QED  BY <2>2, <2>3, Regions, Sizes
<1>2. mem' = [i \in 0 .. mem_sz - 1 |->
                IF i \in 0 .. data_num * vertex_size - 1
                THEN VertexWord(<<Me, i \div vertex_size>>, i % vertex_size) ELSE mem[i]]
  <2>1. kvs_off .. kvs_off + data_num * vertex_size - 1 = 0 .. data_num * vertex_size - 1
    BY <1>1
  <2>2. DOMAIN mem = 0 .. mem_sz - 1  BY DEF TypeOK
  <2>3. \A i \in 0 .. mem_sz - 1 : i - kvs_off = i  BY <1>1
  <2> HIDE DEF kvs_off, mem_sz
  <2> QED  BY <2>1, <2>2, <2>3 DEF Written
<1>3. ASSUME NEW i \in 0 .. data_num * vertex_size - 1
      PROVE  VertexWord(<<Me, i \div vertex_size>>, i % vertex_size) \in Word
  <2> DEFINE q == i \div vertex_size  r == i % vertex_size
  <2>1. vertex_size \in Nat \ {0} /\ data_num \in Nat  BY MemoryMapAssumption
  <2>2. i \in Nat  OBVIOUS
  <2>3. q \in Nat /\ r \in 0 .. vertex_size - 1 /\ i = vertex_size * q + r  BY <2>1, <2>2, SMTT(30)
  <2> HIDE DEF q, r
  <2>4. vertex_size * data_num = data_num * vertex_size /\ vertex_size * q \in Nat  BY <2>1, <2>3
  <2> DEFINE D == data_num * vertex_size  Q == vertex_size * q
  <2>5. ~(data_num <= q)
    <3>1. Q \in Nat /\ D \in Nat /\ D = vertex_size * data_num  BY <1>1, <2>4
    <3>2. i < D /\ i = Q + r /\ r \in Nat  BY <2>1, <2>3
    <3>3. data_num < q => D + vertex_size <= Q  BY <2>1, <2>3, <2>4, Stride
    <3>4. data_num = q => D = Q  BY <2>4
    <3> HIDE DEF D, Q, IInv, Load
    <3> QED  BY <3>1, <3>2, <3>3, <3>4, <2>1, <2>3
  <2>6. <<Me, q>> \in Own  BY <2>1, <2>3, <2>5 DEF Own
  <2>7. VertexWord(<<Me, q>>, r) \in Word  BY <2>3, <2>6, Words
  <2> QED  BY <2>7 DEF q, r
<1>4. mem' \in [0 .. mem_sz - 1 -> Word]
  <2> HIDE DEF IInv, Load, VertexWord, Word, mem_sz
  <2> QED  BY <1>0, <1>2, <1>3
<1>5. GraphIntact'
  <2> SUFFICES ASSUME NEW local \in 0 .. data_num - 1, NEW j \in 0 .. vertex_size - 1
               PROVE  mem'[kvs_off + local * vertex_size + j] = VertexWord(<<Me, local>>, j)
    BY DEF GraphIntact
  <2> DEFINE a == local * vertex_size + j
  <2>1. /\ kvs_off + local * vertex_size + j = a
        /\ a \in 0 .. kvs_sz - 1 /\ a < data_num * vertex_size
    BY StoreAddress
  <2>2. a \div vertex_size = local /\ a % vertex_size = j
    BY SlotOf, MemoryMapAssumption, SMTT(30)
  <2> HIDE DEF a, mem_sz, rbf_off, counter_off
  <2>3. a \in 0 .. data_num * vertex_size - 1 /\ a \in 0 .. mem_sz - 1  BY <1>1, <2>1
  <2> QED  BY <1>2, <2>1, <2>2, <2>3
<1>6. mem'[counter_off] = mem[counter_off]
  <2> HIDE DEF mem_sz, rbf_off, counter_off
  <2>1. counter_off \in 0 .. mem_sz - 1 /\ counter_off \notin 0 .. data_num * vertex_size - 1
    BY <1>1
  <2> QED  BY <1>2, <2>1
<1>7. \A t \in Threads : placed'[t] = <<>>
  <2>1. \A t \in Threads : phase[t] # "search"  OBVIOUS
  <2> QED  BY <2>1
<1>8. PlacedIntact'
  <2>1. \A t \in Threads : 1 .. Len(placed'[t]) = {}  BY <1>7
  <2> QED  BY <2>1 DEF PlacedIntact
<1>9. CounterIntact'  BY <1>6 DEF MemoryIntact, CounterIntact
<1>10. InBuffer'  BY <1>7, NothingFits DEF InBuffer
<1> QED  BY <1>4, <1>5, <1>7, <1>8, <1>9, <1>10 DEF TypeOK, MemoryIntact

LEMMA FetchAddInv == ASSUME IInv, FetchAdd PROVE IInv'
<1> USE DEF IInv, FetchAdd, MemoryIntact
<1>0. /\ mem \in [0 .. mem_sz - 1 -> Word] /\ fetched \in Nat
      /\ phase \in [Threads -> {"distribute", "search"}]
      /\ placed \in [Threads -> Seq(Remote)] /\ overrun \subseteq Threads
  BY DEF TypeOK
<1>1. /\ counter_off \in 0 .. mem_sz - 1 /\ counter_off \in Nat /\ rbf_off \in Nat
      /\ counter_off = rbf_off /\ mem_sz \in Nat /\ kvs_sz \in Nat
  <2> HIDE DEF counter_off, rbf_off, mem_sz
  <2> QED  BY Regions, Sizes
<1>2. OneMore(mem[counter_off]) \in Word
  <2>1. mem[counter_off] \in Word
    <3> HIDE DEF IInv, FetchAdd, counter_off, mem_sz, Word
    <3> QED  BY <1>0, <1>1
  <2> QED  BY <2>1, Words
<1>3. mem' = [i \in 0 .. mem_sz - 1 |->
                IF i = counter_off THEN OneMore(mem[counter_off]) ELSE mem[i]]
  <2>1. DOMAIN mem = 0 .. mem_sz - 1  BY DEF TypeOK
  <2> HIDE DEF counter_off, mem_sz, OneMore
  <2>2. \A i \in 0 .. mem_sz - 1 : i \in counter_off .. counter_off + 1 - 1 <=> i = counter_off
    BY <1>1
  <2> QED  BY <2>1, <2>2 DEF Written
<1>4. fetched \in Nat /\ fetched' = fetched + 1  BY DEF TypeOK
<1>5. mem' \in [0 .. mem_sz - 1 -> Word]
  <2> HIDE DEF IInv, FetchAdd, OneMore, Word, mem_sz, counter_off
  <2> QED  BY <1>0, <1>2, <1>3
<1>6. GraphIntact'
  <2> SUFFICES ASSUME NEW local \in 0 .. data_num - 1, NEW j \in 0 .. vertex_size - 1
               PROVE  mem'[kvs_off + local * vertex_size + j] = VertexWord(<<Me, local>>, j)
    BY DEF GraphIntact
  <2> DEFINE a == kvs_off + local * vertex_size + j
  <2>1. a \in 0 .. kvs_sz - 1  BY StoreAddress
  <2>2. mem[a] = VertexWord(<<Me, local>>, j)  BY DEF GraphIntact
  <2>3. kvs_sz <= rbf_off
    <3>1. 0 \in Threads /\ buf_sz \in Nat  BY MemoryMapAssumption, SMTT(30) DEF Threads
    <3>2. /\ buffer_offset(0) \in Nat /\ kvs_sz <= buffer_offset(0)
          /\ buffer_offset(0) + buf_sz <= rbf_off
      BY <3>1, Regions
    <3> HIDE DEF buffer_offset, rbf_off
    <3> QED  BY <1>1, <3>1, <3>2
  <2> HIDE DEF a, counter_off, rbf_off, mem_sz
  <2>4. a \in 0 .. mem_sz - 1 /\ a # counter_off  BY <1>1, <2>1, <2>3
  <2>5. mem'[a] = mem[a]  BY <1>3, <2>4
  <2> QED  BY <2>2, <2>5 DEF a
<1>7. PlacedIntact'
  <2> SUFFICES ASSUME NEW t \in Threads, overrun \cap (0 .. t) = {}, NEW k \in 1 .. Len(placed[t]),
                      NEW j \in 0 .. vertex_size - 1
               PROVE  mem'[buffer_offset(t) + (k - 1) * vertex_size + j]
                        = VertexWord(placed[t][k], j)
    BY DEF PlacedIntact
  <2> DEFINE a == buffer_offset(t) + (k - 1) * vertex_size + j
  <2>1. Len(placed[t]) \in Nat /\ Fits(Len(placed[t]))
    <3>1. t \in 0 .. t  BY MemoryMapAssumption DEF Threads
    <3>2. t \notin overrun  BY <3>1
    <3> QED  BY <1>0, <3>2 DEF InBuffer
  <2>2. a \in buffer_offset(t) .. buffer_offset(t) + buf_sz - 1  BY <2>1, BufferAddress
  <2>3. mem[a] = VertexWord(placed[t][k], j)  BY DEF PlacedIntact
  <2>4. buffer_offset(t) \in Nat /\ buffer_offset(t) + buf_sz <= rbf_off /\ buf_sz \in Nat
    BY Regions, MemoryMapAssumption
  <2> HIDE DEF a, counter_off, rbf_off, mem_sz, buffer_offset
  <2>5. a \in 0 .. mem_sz - 1 /\ a # counter_off  BY <1>1, <2>2, <2>4
  <2>6. mem'[a] = mem[a]  BY <1>3, <2>5
  <2> QED  BY <2>3, <2>6 DEF a
<1>8. CounterIntact'
  <2> SUFFICES ASSUME overrun = {} PROVE mem'[counter_off] = CountWord(fetched + 1)
    BY <1>4 DEF CounterIntact
  <2>1. mem[counter_off] = CountWord(fetched)  BY DEF CounterIntact
  <2>2. OneMore(mem[counter_off]) = CountWord(fetched + 1)  BY <1>4, <2>1, Words
  <2> HIDE DEF OneMore, CountWord, counter_off, mem_sz
  <2> QED  BY <1>1, <1>3, <2>2
<1>9. TypeOK'
  <2>1. fetched' \in Nat  BY <1>4
  <2>2. stage' = stage /\ phase' = phase /\ placed' = placed /\ overrun' = overrun  OBVIOUS
  <2>3. stage \in {"load", "fill", "serve"}  BY DEF TypeOK
  <2> HIDE DEF IInv, FetchAdd, MemoryIntact
  <2> QED  BY <1>0, <1>5, <2>1, <2>2, <2>3 DEF TypeOK
<1>10. /\ \A t \in Threads : placed'[t] # <<>> => phase'[t] = "search"
       /\ \A t \in Threads : phase'[t] = "search" => stage' = "serve"
       /\ InBuffer'
  BY DEF InBuffer
<1> HIDE DEF FetchAdd
<1> QED  BY <1>6, <1>7, <1>8, <1>9, <1>10

\* A step that writes from inside the buffer of t on, whose query has then
\* read what it had before or one vertex more, and which overruns the buffer
\* if the write does.
LEMMA BufferWrite ==
    ASSUME IInv, NEW t \in Threads, NEW lo \in Nat, NEW n \in Nat,
           buffer_offset(t) <= lo, t \notin overrun' => Inside(t, lo, n),
           \A i \in 0 .. mem_sz - 1 : i \notin lo .. lo + n - 1 => mem'[i] = mem[i],
           stage # "load", stage' = stage, fetched' = fetched, overrun \subseteq overrun',
           \A u \in Threads \ {t} : placed'[u] = placed[u],
           overrun' \cap (0 .. t) = {} =>
             \A k \in 1 .. Len(placed'[t]), j \in 0 .. vertex_size - 1 :
               mem'[buffer_offset(t) + (k - 1) * vertex_size + j] = VertexWord(placed'[t][k], j)
    PROVE  MemoryIntact'
<1> USE DEF IInv, MemoryIntact
<1>1. /\ \A local \in 0 .. data_num - 1, j \in 0 .. vertex_size - 1 :
            mem'[kvs_off + local * vertex_size + j] = mem[kvs_off + local * vertex_size + j]
      /\ Inside(t, lo, n) => mem'[counter_off] = mem[counter_off]
      /\ \A u \in Threads, m \in Nat : Fits(m) /\ u # t /\ (u < t \/ Inside(t, lo, n)) =>
            \A k \in 1 .. m, j \in 0 .. vertex_size - 1 :
              mem'[buffer_offset(u) + (k - 1) * vertex_size + j]
                = mem[buffer_offset(u) + (k - 1) * vertex_size + j]
  BY Frame
<1>2. GraphIntact'  BY <1>1 DEF GraphIntact
<1>3. CounterIntact'  BY <1>1 DEF CounterIntact
<1>4. ASSUME NEW u \in Threads, u # t, overrun' \cap (0 .. u) = {},
             NEW k \in 1 .. Len(placed[u]), NEW j \in 0 .. vertex_size - 1
      PROVE  mem'[buffer_offset(u) + (k - 1) * vertex_size + j] = VertexWord(placed[u][k], j)
  <2>1. u \in 0 .. u /\ (u < t \/ t \in 0 .. u)  BY <1>4, MemoryMapAssumption DEF Threads
  <2>2. u \notin overrun /\ (u < t \/ Inside(t, lo, n))  BY <1>4, <2>1
  <2>3. Len(placed[u]) \in Nat /\ Fits(Len(placed[u]))  BY <2>2 DEF TypeOK, InBuffer
  <2>4. mem[buffer_offset(u) + (k - 1) * vertex_size + j] = VertexWord(placed[u][k], j)
    <3>1. overrun \cap (0 .. u) = {}  BY <1>4
    <3> QED  BY <3>1 DEF PlacedIntact
  <2>5. mem'[buffer_offset(u) + (k - 1) * vertex_size + j]
          = mem[buffer_offset(u) + (k - 1) * vertex_size + j]
    BY <1>1, <1>4, <2>2, <2>3
  <2> QED  BY <2>4, <2>5
<1>6. PlacedIntact'
  <2> SUFFICES ASSUME NEW u \in Threads, overrun' \cap (0 .. u) = {},
                      NEW k \in 1 .. Len(placed'[u]), NEW j \in 0 .. vertex_size - 1
               PROVE  mem'[buffer_offset(u) + (k - 1) * vertex_size + j]
                        = VertexWord(placed'[u][k], j)
    BY DEF PlacedIntact
  <2>1. CASE u = t  BY <2>1
  <2>2. CASE u # t
    <3>1. placed'[u] = placed[u]  BY <2>2
    <3> QED  BY <2>2, <3>1, <1>4
  <2> QED  BY <2>1, <2>2
<1> QED  BY <1>2, <1>3, <1>6

\* What every action is told of the state before it.
LEMMA Types ==
    ASSUME IInv
    PROVE  /\ mem \in [0 .. mem_sz - 1 -> Word] /\ DOMAIN mem = 0 .. mem_sz - 1
           /\ stage \in {"load", "fill", "serve"} /\ fetched \in Nat
           /\ phase \in [Threads -> {"distribute", "search"}]
           /\ placed \in [Threads -> Seq(Remote)]
           /\ overrun \subseteq Threads /\ InBuffer
           /\ \A t \in Threads : placed[t] # <<>> => phase[t] = "search"
           /\ \A t \in Threads : phase[t] = "search" => stage = "serve"
<1>1. mem \in [0 .. mem_sz - 1 -> Word]  BY DEF IInv, TypeOK
<1> QED  BY <1>1 DEF IInv, TypeOK

LEMMA FillReadInv == ASSUME IInv, NEW v \in Remote, FillRead(v) PROVE IInv'
<1> DEFINE lo == buffer_offset(0)
<1>1. 0 \in Threads  BY MemoryMapAssumption DEF Threads
<1>2. /\ lo \in Nat /\ vertex_size \in Nat /\ buf_sz \in Nat
      /\ lo + vertex_size <= lo + buf_sz
  <2>1. lo \in Nat /\ vertex_size \in Nat /\ buf_sz \in Nat /\ vertex_size < buf_sz
    BY <1>1, Regions, MemoryMapAssumption
  <2> HIDE DEF lo
  <2> QED  BY <2>1
<1>3. /\ stage = "fill" /\ UNCHANGED <<stage, phase, placed, fetched, overrun>>
      /\ mem' = [i \in 0 .. mem_sz - 1 |-> IF i \in lo .. lo + vertex_size - 1
                                           THEN VertexWord(v, i - lo) ELSE mem[i]]
  <2> HIDE DEF lo, mem_sz
  <2> QED  BY Types DEF FillRead, Written, lo
<1>4. \A t \in Threads : placed[t] = <<>>
  <2>1. \A t \in Threads : phase[t] # "search"  BY <1>3, Types
  <2> QED  BY <2>1, Types
<1> HIDE DEF lo
<1>5. MemoryIntact'
  <2>1. \A i \in 0 .. mem_sz - 1 : i \notin lo .. lo + vertex_size - 1 => mem'[i] = mem[i]
    <3> HIDE DEF mem_sz
    <3> QED  BY <1>3
  <2>2. \A t \in Threads : placed'[t] = <<>>  BY <1>3, <1>4
  <2>3. \A k \in 1 .. Len(placed'[0]), j \in 0 .. vertex_size - 1 :
            mem'[buffer_offset(0) + (k - 1) * vertex_size + j] = VertexWord(placed'[0][k], j)
    BY <1>1, <2>2
  <2>4. buffer_offset(0) <= lo /\ Inside(0, lo, vertex_size)  BY <1>2 DEF lo, Inside
  <2>5. \A u \in Threads \ {0} : placed'[u] = placed[u]  BY <1>3
  <2> QED  BY <1>1, <1>2, <1>3, <2>1, <2>3, <2>4, <2>5, BufferWrite
<1>6. mem' \in [0 .. mem_sz - 1 -> Word]
  <2>1. \A i \in lo .. lo + vertex_size - 1 : VertexWord(v, i - lo) \in Word
    BY <1>2, Words
  <2> HIDE DEF mem_sz, VertexWord, Word
  <2> QED  BY <1>3, <2>1, Types
<1>7. TypeOK'  BY <1>3, <1>6, Types DEF TypeOK
<1>8. /\ \A t \in Threads : placed'[t] # <<>> => phase'[t] = "search"
      /\ \A t \in Threads : phase'[t] = "search" => stage' = "serve"
      /\ InBuffer'
  BY <1>3, Types DEF InBuffer
<1> QED  BY <1>5, <1>7, <1>8 DEF IInv

LEMMA FetchedValueInv ==
    ASSUME IInv, NEW t \in Threads, NEW n \in 0 .. MaxFetches, FetchedValue(t, n)
    PROVE  IInv'
<1> DEFINE lo == buffer_offset(t)
<1>1. lo \in Nat /\ lo + 1 <= lo + buf_sz
  <2>1. lo \in Nat /\ buf_sz \in Nat \ {0}  BY Regions, MemoryMapAssumption
  <2> HIDE DEF lo
  <2> QED  BY <2>1
<1>2. /\ stage = "serve" /\ UNCHANGED <<stage, phase, placed, fetched, overrun>>
      /\ phase[t] = "distribute"
      /\ mem' = [i \in 0 .. mem_sz - 1 |-> IF i \in lo .. lo + 1 - 1
                                           THEN CountWord(n) ELSE mem[i]]
  <2> HIDE DEF lo, mem_sz
  <2> QED  BY Types DEF FetchedValue, Written, lo
<1>3. placed'[t] = <<>>  BY <1>2, Types
<1> HIDE DEF lo
<1>4. MemoryIntact'
  <2>1. \A i \in 0 .. mem_sz - 1 : i \notin lo .. lo + 1 - 1 => mem'[i] = mem[i]
    <3> HIDE DEF mem_sz
    <3> QED  BY <1>2
  <2>2. \A k \in 1 .. Len(placed'[t]), j \in 0 .. vertex_size - 1 :
            mem'[buffer_offset(t) + (k - 1) * vertex_size + j] = VertexWord(placed'[t][k], j)
    BY <1>3
  <2>3. buffer_offset(t) <= lo /\ Inside(t, lo, 1)  BY <1>1 DEF lo, Inside
  <2>4. \A u \in Threads \ {t} : placed'[u] = placed[u]  BY <1>2
  <2> QED  BY <1>1, <1>2, <2>1, <2>2, <2>3, <2>4, BufferWrite
<1>5. mem' \in [0 .. mem_sz - 1 -> Word]
  <2>1. CountWord(n) \in Word  BY Words, MemoryMapAssumption
  <2> HIDE DEF mem_sz, CountWord, Word
  <2> QED  BY <1>2, <2>1, Types
<1>6. TypeOK'  BY <1>2, <1>5, Types DEF TypeOK
<1>7. /\ \A u \in Threads : placed'[u] # <<>> => phase'[u] = "search"
      /\ \A u \in Threads : phase'[u] = "search" => stage' = "serve"
      /\ InBuffer'
  BY <1>2, Types DEF InBuffer
<1> QED  BY <1>4, <1>6, <1>7 DEF IInv

LEMMA FetchVertexInv ==
    ASSUME IInv, NEW t \in Threads, NEW v \in Remote, FetchVertex(t, v)
    PROVE  IInv'
<1> DEFINE m == Len(placed[t])  base == buffer_offset(t)  lo == base + m * vertex_size
<1>1. /\ m \in Nat /\ vertex_size \in Nat /\ buf_sz \in Nat
      /\ base \in Nat /\ m * vertex_size \in Nat
      /\ (m + 1) * vertex_size = m * vertex_size + vertex_size
      /\ \A l \in Nat : l < m => l * vertex_size + vertex_size <= m * vertex_size
  <2>1. m \in Nat  BY Types
  <2>2. vertex_size \in Nat \ {0} /\ buf_sz \in Nat  BY MemoryMapAssumption
  <2> HIDE DEF m
  <2>3. /\ m * vertex_size \in Nat
        /\ \A l \in Nat : l < m => l * vertex_size + vertex_size <= m * vertex_size
    BY <2>1, SlotOrder
  <2>4. (m + 1) * vertex_size = m * vertex_size + vertex_size  BY <2>1, <2>2
  <2> QED  BY <2>1, <2>2, <2>3, <2>4, Regions
<1>2. /\ phase[t] = "search" /\ UNCHANGED <<stage, phase, fetched>>
      /\ placed' = [placed EXCEPT ![t] = Append(placed[t], v)]
      /\ lo + vertex_size <= mem_sz
      /\ overrun' = IF m * vertex_size + vertex_size > buf_sz THEN overrun \cup {t} ELSE overrun
      /\ mem' = [i \in 0 .. mem_sz - 1 |-> IF i \in lo .. lo + vertex_size - 1
                                           THEN VertexWord(v, i - lo) ELSE mem[i]]
  <2> HIDE DEF base, mem_sz
  <2> QED  BY Types DEF FetchVertex, Written, base, thd_buf_used_sz
<1>3. /\ placed'[t] = Append(placed[t], v) /\ Len(placed'[t]) = m + 1
      /\ placed'[t][m + 1] = v /\ \A k \in 1 .. m : placed'[t][k] = placed[t][k]
      /\ placed' \in [Threads -> Seq(Remote)]
      /\ \A u \in Threads \ {t} : placed'[u] = placed[u]
  BY <1>2, Types
<1>4. stage # "load"  BY <1>2, Types
<1> HIDE DEF m, base
<1>5. lo \in Nat /\ base <= lo  BY <1>1
<1>6. t \notin overrun' => m * vertex_size + vertex_size <= buf_sz
  <2> DEFINE x == m * vertex_size
  <2>1. x \in Nat  BY <1>1
  <2> HIDE DEF x
  <2> QED  BY <1>1, <1>2, <2>1 DEF x
<1>7. ASSUME overrun \cap (0 .. t) = {}, NEW k \in 1 .. m + 1, NEW j \in 0 .. vertex_size - 1
      PROVE  mem'[base + (k - 1) * vertex_size + j] = VertexWord(placed'[t][k], j)
  <2> DEFINE a == base + (k - 1) * vertex_size + j
  <2>0. mem_sz \in Nat  BY Sizes
  <2>1. CASE k = m + 1
    <3>1. k - 1 = m  BY <2>1, <1>1
    <3>2. a = lo + j  BY <3>1, <1>1
    <3> HIDE DEF a, lo, mem_sz
    <3>3. a \in 0 .. mem_sz - 1 /\ a \in lo .. lo + vertex_size - 1 /\ a - lo = j
      BY <2>0, <3>2, <1>1, <1>2, <1>5
    <3>4. mem'[a] = VertexWord(v, j)  BY <1>2, <3>3
    <3> QED  BY <2>1, <3>4, <1>3 DEF a
  <2>2. CASE k # m + 1
    <3>1. k \in 1 .. m /\ k - 1 \in Nat /\ k - 1 < m  BY <2>2, <1>1
    <3>2. (k - 1) * vertex_size + vertex_size <= m * vertex_size /\ (k - 1) * vertex_size \in Nat
      BY <3>1, <1>1
    <3>3. a < lo /\ a \in 0 .. mem_sz - 1
      <4>1. a < lo /\ base <= a /\ a \in Nat  BY <3>2, <1>1
      <4> HIDE DEF a, lo, mem_sz
      <4> QED  BY <4>1, <1>1, <1>2, <1>5, <2>0
    <3> HIDE DEF a, lo, mem_sz
    <3>4. mem'[a] = mem[a]
      <4>1. a \notin lo .. lo + vertex_size - 1  BY <3>3, <1>1, <1>5
      <4> QED  BY <4>1, <3>3, <1>2
    <3>5. mem[a] = VertexWord(placed[t][k], j)
      BY <3>1, <1>7 DEF IInv, MemoryIntact, PlacedIntact, a, base, m
    <3> QED  BY <3>1, <3>4, <3>5, <1>3 DEF a
  <2> QED  BY <2>1, <2>2
<1> HIDE DEF lo
<1>8. MemoryIntact'
  <2>1. \A i \in 0 .. mem_sz - 1 : i \notin lo .. lo + vertex_size - 1 => mem'[i] = mem[i]
    <3> HIDE DEF mem_sz
    <3> QED  BY <1>2
  <2>2. overrun' \cap (0 .. t) = {} =>
            \A k \in 1 .. Len(placed'[t]), j \in 0 .. vertex_size - 1 :
              mem'[buffer_offset(t) + (k - 1) * vertex_size + j] = VertexWord(placed'[t][k], j)
    <3>1. overrun' \cap (0 .. t) = {} => overrun \cap (0 .. t) = {}  BY <1>2
    <3> QED  BY <1>3, <1>7, <3>1 DEF base
  <2>3. buffer_offset(t) <= lo /\ (t \notin overrun' => Inside(t, lo, vertex_size))
    <3> DEFINE x == m * vertex_size
    <3>1. x \in Nat /\ lo = base + x /\ (t \notin overrun' => x + vertex_size <= buf_sz)
      BY <1>1, <1>6 DEF lo
    <3> HIDE DEF x
    <3>2. t \notin overrun' => lo + vertex_size <= base + buf_sz  BY <1>1, <3>1
    <3> QED  BY <1>5, <3>2 DEF base, Inside
  <2>4. overrun \subseteq overrun'  BY <1>2
  <2> QED  BY <1>1, <1>2, <1>3, <1>4, <1>5, <2>1, <2>2, <2>3, <2>4, BufferWrite
<1>9. mem' \in [0 .. mem_sz - 1 -> Word]
  <2>1. \A i \in lo .. lo + vertex_size - 1 : VertexWord(v, i - lo) \in Word
    BY <1>1, <1>5, Words
  <2> HIDE DEF mem_sz, VertexWord, Word
  <2> QED  BY <1>2, <2>1, Types
<1>10. InBuffer'
  <2> SUFFICES ASSUME NEW u \in Threads, u \notin overrun' PROVE Fits(Len(placed'[u]))
    BY DEF InBuffer
  <2>1. CASE u = t  BY <2>1, <1>1, <1>3, <1>6 DEF Fits
  <2>2. CASE u # t
    <3>1. u \notin overrun  BY <1>2
    <3> QED  BY <2>2, <3>1, <1>3, Types DEF InBuffer
  <2> QED  BY <2>1, <2>2
<1>11. TypeOK'
  <2>1. overrun' \subseteq Threads  BY <1>2, Types
  <2> QED  BY <1>2, <1>3, <1>9, <2>1, Types DEF TypeOK
<1>12. /\ \A u \in Threads : placed'[u] # <<>> => phase'[u] = "search"
       /\ \A u \in Threads : phase'[u] = "search" => stage' = "serve"
  BY <1>2, <1>3, Types
<1> QED  BY <1>8, <1>10, <1>11, <1>12 DEF IInv

\* The steps that write nothing.
LEMMA StartServingInv == ASSUME IInv, StartServing PROVE IInv'
<1>1. /\ stage # "load" /\ stage' = "serve"
      /\ UNCHANGED <<mem, phase, placed, fetched, overrun>>
  BY DEF StartServing
<1>2. MemoryIntact' /\ InBuffer'  BY <1>1, Unmoved
<1> QED  BY <1>1, <1>2, Types DEF IInv, TypeOK

LEMMA StartSearchingInv == ASSUME IInv, NEW t \in Threads, StartSearching(t) PROVE IInv'
<1>1. /\ stage = "serve" /\ phase' = [phase EXCEPT ![t] = "search"]
      /\ UNCHANGED <<mem, stage, placed, fetched, overrun>>
  BY DEF StartSearching
<1>2. MemoryIntact' /\ InBuffer'  BY <1>1, Types, Unmoved
<1>3. /\ phase' \in [Threads -> {"distribute", "search"}]
      /\ \A u \in Threads : phase[u] = "search" => phase'[u] = "search"
  BY <1>1, Types
<1> QED  BY <1>1, <1>2, <1>3, Types DEF IInv, TypeOK

LEMMA ResetInv == ASSUME IInv, NEW t \in Threads, Reset(t) PROVE IInv'
<1>1. /\ placed' = [placed EXCEPT ![t] = <<>>]
      /\ UNCHANGED <<mem, stage, phase, fetched, overrun>>
  BY DEF Reset
<1>2. /\ placed' \in [Threads -> Seq(Remote)] /\ placed'[t] = <<>> /\ Len(placed'[t]) = 0
      /\ \A u \in Threads \ {t} : placed'[u] = placed[u]
  BY <1>1, Types
<1>3. PlacedIntact'
  <2>1. 1 .. Len(placed'[t]) = {}  BY <1>2
  <2> QED  BY <1>1, <1>2, <2>1 DEF IInv, MemoryIntact, PlacedIntact
<1>4. GraphIntact' /\ CounterIntact'
  BY <1>1 DEF IInv, MemoryIntact, GraphIntact, CounterIntact
<1>5. InBuffer'  BY <1>1, <1>2, Types, NothingFits DEF InBuffer
<1> QED  BY <1>1, <1>2, <1>3, <1>4, <1>5, Types DEF IInv, TypeOK, MemoryIntact

-----------------------------------------------------------------------------

LEMMA NextInv == IInv /\ [Next]_vars => IInv'
<1> SUFFICES ASSUME IInv, [Next]_vars PROVE IInv'  OBVIOUS
<1>1. CASE Load  BY <1>1, LoadInv
<1>2. CASE StartServing  BY <1>2, StartServingInv
<1>3. CASE FetchAdd  BY <1>3, FetchAddInv
<1>4. ASSUME NEW v \in Remote, FillRead(v) PROVE IInv'  BY <1>4, FillReadInv
<1>5. ASSUME NEW t \in Threads, NEW n \in 0 .. MaxFetches, FetchedValue(t, n) PROVE IInv'
  BY <1>5, FetchedValueInv
<1>6. ASSUME NEW t \in Threads, StartSearching(t) PROVE IInv'  BY <1>6, StartSearchingInv
<1>7. ASSUME NEW t \in Threads, NEW v \in Remote, FetchVertex(t, v) PROVE IInv'
  BY <1>7, FetchVertexInv
<1>8. ASSUME NEW t \in Threads, Reset(t) PROVE IInv'  BY <1>8, ResetInv
<1>9. CASE UNCHANGED vars
  BY <1>9 DEF vars, IInv, TypeOK, MemoryIntact, GraphIntact, PlacedIntact, CounterIntact,
              InBuffer
<1> QED  BY <1>1, <1>2, <1>3, <1>4, <1>5, <1>6, <1>7, <1>8, <1>9 DEF Next

\* The types of the memory.
LEMMA TypeCorrect == Spec => []TypeOK
<1>1. IInv => TypeOK  BY DEF IInv
<1> QED  BY InitInv, NextInv, <1>1, PTL DEF Spec

\* For every layout the configuration can give, and however many vertices a
\* query reads: the vertices of the store are never written over; the copies
\* a query holds are not, unless it or a thread below it has overrun its
\* buffer; nor is the query counter, unless some thread has (mem.hpp 196-282,
\* gstore.hpp 261-306).
THEOREM AlwaysIntact == Spec => []MemoryIntact
<1>1. IInv => MemoryIntact  BY DEF IInv
<1> QED  BY InitInv, NextInv, <1>1, PTL DEF Spec

-----------------------------------------------------------------------------
(* The server *)

cvars == <<memVars, cacheVars>>

-----------------------------------------------------------------------------
(* The order of the keys *)

\* The cache and the memory agree on which vertices are remote.
LEMMA SameRemote == Cache!RemoteVertices = Remote
<1>1. ASSUME NEW v \in Remote PROVE v[1] # Me /\ v \in Vertices
  BY MemoryMapAssumption DEF Vertices
<1>2. ASSUME NEW v \in Own PROVE v[1] = Me  BY DEF Own
<1> QED  BY <1>1, <1>2 DEF Cache!RemoteVertices, Vertices

\* The parts of HottestKeys.
ReadOf(count) == {v \in Remote : count[v] > 0}
Before(count, v) == {w \in ReadOf(count) : Cache!Hotter(count, w, v)}
KeyRank(count, v) == Cardinality(Before(count, v)) + 1
Chosen(count, n) == {v \in ReadOf(count) : KeyRank(count, v) <= n}

LEMMA HottestKeysIs ==
    ASSUME NEW count, NEW n
    PROVE  Cache!HottestKeys(count, n) =
             [i \in 1 .. Cardinality(Chosen(count, n)) |->
                CHOOSE v \in Chosen(count, n) : KeyRank(count, v) = i]
<1>1. \A S : Cache!Cardinality(S) = Cardinality(S)  BY DEF Cache!Cardinality, Cardinality
<1> DEFINE read == {v \in Cache!RemoteVertices : count[v] > 0}
           rank(v) == Cache!Cardinality({w \in read : Cache!Hotter(count, w, v)}) + 1
           chosen == {v \in read : rank(v) <= n}
<1>2. Cache!HottestKeys(count, n) =
        [i \in 1 .. Cache!Cardinality(chosen) |-> CHOOSE v \in chosen : rank(v) = i]
  BY DEF Cache!HottestKeys
<1>3. read = ReadOf(count)  BY SameRemote DEF ReadOf
<1>4. \A v : rank(v) = KeyRank(count, v)  BY <1>1, <1>3 DEF Before, KeyRank
<1> HIDE DEF read, rank
<1>5. chosen = Chosen(count, n)  BY <1>3, <1>4 DEF Chosen
<1> HIDE DEF chosen
<1> QED  BY <1>1, <1>2, <1>4, <1>5

\* Hotter orders the remote vertices strictly and totally.
LEMMA HotterOrder ==
    ASSUME NEW count \in [Vertices -> Nat], NEW u \in Remote, NEW v \in Remote, NEW w \in Remote
    PROVE  /\ ~Cache!Hotter(count, v, v)
           /\ Cache!Hotter(count, u, v) /\ Cache!Hotter(count, v, w) => Cache!Hotter(count, u, w)
           /\ v # w => Cache!Hotter(count, v, w) \/ Cache!Hotter(count, w, v)
<1>1. /\ u \in (0 .. num_servers - 1) \X Nat
      /\ v \in (0 .. num_servers - 1) \X Nat
      /\ w \in (0 .. num_servers - 1) \X Nat
      /\ num_servers \in Nat
  BY MemoryMapAssumption
<1>2. /\ u[1] \in Nat /\ u[2] \in Nat /\ v[1] \in Nat /\ v[2] \in Nat
      /\ w[1] \in Nat /\ w[2] \in Nat
      /\ (v # w => v[1] # w[1] \/ v[2] # w[2])
  BY <1>1
<1>3. count[u] \in Nat /\ count[v] \in Nat /\ count[w] \in Nat  BY DEF Vertices
<1> QED  BY <1>2, <1>3 DEF Cache!Hotter

\* What is hotter than a vertex that is hotter is fewer.
LEMMA RankOrder ==
    ASSUME NEW count \in [Vertices -> Nat], NEW v \in ReadOf(count), NEW w \in ReadOf(count),
           Cache!Hotter(count, w, v)
    PROVE  /\ IsFiniteSet(Before(count, v)) /\ Cardinality(Before(count, v)) \in Nat
           /\ Cardinality(Before(count, w)) \in Nat
           /\ Cardinality(Before(count, w)) < Cardinality(Before(count, v))
<1>1. IsFiniteSet(Remote)  BY ServerMemoryAssumption
<1>2. Before(count, v) \in SUBSET Remote /\ Before(count, w) \in SUBSET Remote
  BY DEF Before, ReadOf
<1>3. IsFiniteSet(Before(count, v)) /\ IsFiniteSet(Before(count, w))
  BY <1>1, <1>2, FS_Subset
<1>4. v \in Remote /\ w \in Remote  BY DEF ReadOf
<1>5. Before(count, w) \subseteq Before(count, v)
  <2>1. ASSUME NEW u \in Before(count, w) PROVE u \in Before(count, v)
    <3>1. u \in ReadOf(count) /\ Cache!Hotter(count, u, w) /\ u \in Remote
      BY DEF Before, ReadOf
    <3>2. Cache!Hotter(count, u, v)  BY <3>1, <1>4, HotterOrder
    <3> QED  BY <3>1, <3>2 DEF Before
  <2> QED  BY <2>1
<1>6. w \in Before(count, v)  BY DEF Before
<1>7. w \notin Before(count, w)  BY <1>4, HotterOrder DEF Before
<1>8. /\ Cardinality(Before(count, w)) <= Cardinality(Before(count, v))
      /\ Cardinality(Before(count, v)) = Cardinality(Before(count, w))
           => Before(count, v) = Before(count, w)
  BY <1>3, <1>5, FS_Subset
<1>9. Cardinality(Before(count, v)) \in Nat /\ Cardinality(Before(count, w)) \in Nat
  BY <1>3, FS_CardinalityType
<1> QED  BY <1>3, <1>6, <1>7, <1>8, <1>9

\* Every rank up to the number of the chosen belongs to one of them.
LEMMA KeysOf ==
    ASSUME NEW count \in [Vertices -> Nat], NEW n \in Nat
    PROVE  /\ Cardinality(Chosen(count, n)) \in Nat
           /\ Cache!HottestKeys(count, n) \in Seq(Remote)
           /\ Len(Cache!HottestKeys(count, n)) = Cardinality(Chosen(count, n))
<1> DEFINE C == Chosen(count, n)
           k == Cardinality(C)
           f == [v \in C |-> KeyRank(count, v)]
<1>1. C \in SUBSET Remote /\ C \subseteq ReadOf(count)  BY DEF Chosen, ReadOf
<1>2. IsFiniteSet(C)  BY <1>1, FS_Subset, ServerMemoryAssumption
<1>3. k \in Nat  BY <1>2, FS_CardinalityType
<1>4. ASSUME NEW v \in C PROVE KeyRank(count, v) \in 1 .. k
  <2>1. IsFiniteSet(Before(count, v))
    <3>1. Before(count, v) \in SUBSET Remote  BY DEF Before, ReadOf
    <3> QED  BY <3>1, FS_Subset, ServerMemoryAssumption
  <2>2. Before(count, v) \subseteq C
    <3>1. ASSUME NEW w \in Before(count, v) PROVE w \in C
      <4>1. w \in ReadOf(count) /\ Cache!Hotter(count, w, v)  BY DEF Before
      <4>2. /\ Cardinality(Before(count, v)) \in Nat
            /\ Cardinality(Before(count, w)) \in Nat
            /\ Cardinality(Before(count, w)) < Cardinality(Before(count, v))
        BY <4>1, <1>1, RankOrder
      <4>3. KeyRank(count, v) <= n  BY DEF Chosen
      <4>4. KeyRank(count, w) <= n  BY <4>2, <4>3 DEF KeyRank
      <4> QED  BY <4>1, <4>4 DEF Chosen
    <3> QED  BY <3>1
  <2>3. v \in C /\ v \notin Before(count, v)
    <3>1. v \in Remote  BY <1>1
    <3> QED  BY <3>1, HotterOrder DEF Before
  <2>4. /\ Cardinality(Before(count, v)) <= k
        /\ k = Cardinality(Before(count, v)) => C = Before(count, v)
    <3> HIDE DEF C
    <3> QED  BY <1>2, <2>2, FS_Subset
  <2>5. Cardinality(Before(count, v)) \in Nat  BY <2>1, FS_CardinalityType
  <2>6. Cardinality(Before(count, v)) # k  BY <2>3, <2>4
  <2> HIDE DEF C, k
  <2> QED  BY <2>4, <2>5, <2>6, <1>3 DEF KeyRank
<1>5. f \in Injection(C, 1 .. k)
  <2>1. f \in [C -> 1 .. k]  BY <1>4
  <2>2. ASSUME NEW v \in C, NEW w \in C, f[v] = f[w] PROVE v = w
    <3>1. v \in ReadOf(count) /\ w \in ReadOf(count) /\ v \in Remote /\ w \in Remote
      BY <1>1
    <3>2. ~Cache!Hotter(count, v, w)
      <4>1. SUFFICES ASSUME Cache!Hotter(count, v, w) PROVE FALSE  OBVIOUS
      <4>2. /\ Cardinality(Before(count, v)) \in Nat /\ Cardinality(Before(count, w)) \in Nat
            /\ Cardinality(Before(count, v)) < Cardinality(Before(count, w))
        BY <4>1, <3>1, RankOrder
      <4> QED  BY <4>2, <2>2 DEF KeyRank
    <3>3. ~Cache!Hotter(count, w, v)
      <4>1. SUFFICES ASSUME Cache!Hotter(count, w, v) PROVE FALSE  OBVIOUS
      <4>2. /\ Cardinality(Before(count, v)) \in Nat /\ Cardinality(Before(count, w)) \in Nat
            /\ Cardinality(Before(count, w)) < Cardinality(Before(count, v))
        BY <4>1, <3>1, RankOrder
      <4> QED  BY <4>2, <2>2 DEF KeyRank
    <3> QED  BY <3>1, <3>2, <3>3, HotterOrder
  <2> HIDE DEF f, C, k
  <2> QED  BY <2>1, <2>2, Fun_IsInj
<1>6. IsFiniteSet(1 .. k) /\ Cardinality(1 .. k) = k  BY <1>3, FS_Interval
<1>7. f \in Surjection(C, 1 .. k)
  <2> HIDE DEF f, C
  <2> QED  BY <1>5, <1>6, FS_Injection
<1>8. ASSUME NEW i \in 1 .. k
      PROVE  (CHOOSE v \in C : KeyRank(count, v) = i) \in C
  <2>1. \E v \in C : f[v] = i
    <3> HIDE DEF f, C, k
    <3>1. \A j \in 1 .. k : \E v \in C : f[v] = j  BY <1>7, Fun_SurjectionProperties, Zenon
    <3> QED  BY <3>1
  <2>2. \E v \in C : KeyRank(count, v) = i  BY <2>1
  <2> HIDE DEF C
  <2> QED  BY <2>2
<1>9. Cache!HottestKeys(count, n) = [i \in 1 .. k |-> CHOOSE v \in C : KeyRank(count, v) = i]
  BY HottestKeysIs
<1>10. Cache!HottestKeys(count, n) \in [1 .. k -> Remote]
  <2> HIDE DEF C, k
  <2> QED  BY <1>1, <1>8, <1>9
<1> HIDE DEF C, k, f
<1> QED  BY <1>3, <1>10 DEF C, k

-----------------------------------------------------------------------------
(* A read of a key into the first buffer puts that key there. *)

LEMMA FillReadReads ==
    ASSUME IInv, NEW v \in Remote, FillRead(v)
    PROVE  BufferVertex' = v
<1> DEFINE lo == buffer_offset(0)
<1>1. 0 \in Threads  BY MemoryMapAssumption DEF Threads
<1>2. /\ lo \in Nat /\ vertex_size \in Nat \ {0} /\ lo + vertex_size <= mem_sz
      /\ mem_sz \in Nat
  <2>1. /\ lo \in Nat /\ buf_sz \in Nat /\ lo + buf_sz <= rbf_off /\ rbf_off \in Nat
        /\ counter_off = rbf_off /\ counter_off < mem_sz /\ mem_sz \in Nat
    BY <1>1, Regions, Sizes, MemoryMapAssumption
  <2> HIDE DEF lo, rbf_off, counter_off, mem_sz
  <2> QED  BY <2>1, MemoryMapAssumption
<1> HIDE DEF mem_sz
<1>3. mem' = [i \in 0 .. mem_sz - 1 |-> IF i \in lo .. lo + vertex_size - 1
                                        THEN VertexWord(v, i - lo) ELSE mem[i]]
  <2> HIDE DEF lo
  <2> QED  BY Types DEF FillRead, Written, lo
<1>4. \A j \in 0 .. vertex_size - 1 : mem'[buffer_offset(0) + j] = VertexWord(v, j)
  <2>1. ASSUME NEW j \in 0 .. vertex_size - 1 PROVE mem'[lo + j] = VertexWord(v, j)
    <3> HIDE DEF lo
    <3>1. lo + j \in 0 .. mem_sz - 1 /\ lo + j \in lo .. lo + vertex_size - 1
          /\ (lo + j) - lo = j
      BY <1>2
    <3> QED  BY <3>1, <1>3
  <2> QED  BY <2>1
<1>5. ASSUME NEW w, \A j \in 0 .. vertex_size - 1 : mem'[buffer_offset(0) + j] = VertexWord(w, j)
      PROVE  w = v
  <2>1. 0 \in 0 .. vertex_size - 1  BY <1>2
  <2>2. VertexWord(w, 0) = VertexWord(v, 0)  BY <2>1, <1>4, <1>5
  <2> QED  BY <2>2 DEF VertexWord
<1>6. v \in Vertices  BY DEF Vertices
<1> DEFINE lies == {w \in Vertices : \A j \in 0 .. vertex_size - 1 :
                                       mem'[buffer_offset(0) + j] = VertexWord(w, j)}
<1>7. lies = {v}
  <2> HIDE DEF lo, buffer_offset, VertexWord
  <2> QED  BY <1>4, <1>5, <1>6
<1>8. BufferVertex' = IF lies = {} THEN <<>> ELSE CHOOSE w \in lies : TRUE
  BY DEF BufferVertex
<1> HIDE DEF lies
<1> QED  BY <1>7, <1>8

-----------------------------------------------------------------------------
(* The inductive invariant.  A fill happens between the load and the queries,
   and what it has copied so far is where the table says. *)

KeysInv == keys \in Seq(Remote) /\ copied \in 0 .. Len(keys)

SlotsInv ==
    /\ slots \in Seq(Remote \cup {<<>>}) /\ Len(slots) = Len(keys)
    /\ \A i \in 1 .. copied : slots[i] = keys[i]

TableInv ==
    /\ DOMAIN table = {keys[i] : i \in 1 .. copied}
    /\ \A v \in DOMAIN table : table[v] \in 1 .. copied /\ keys[table[v]] = v

FillInv ==
    /\ fill \in {"empty", "read", "copy", "filled"}
    /\ fill \in {"read", "copy"} => stage = "fill"
    /\ fill = "empty" => copied = 0
    /\ fill = "copy" => copied < Len(keys) /\ BufferVertex = keys[copied + 1]
    /\ fill = "filled" => copied = Len(keys)

CacheInv == KeysInv /\ SlotsInv /\ TableInv /\ FillInv

SInv == IInv /\ CacheInv

LEMMA ServerInitInv == ServerInit => SInv
<1> SUFFICES ASSUME ServerInit PROVE SInv  OBVIOUS
<1>1. IInv  BY InitInv DEF ServerInit
<1>2. keys = <<>> /\ copied = 0 /\ slots = <<>> /\ table = [v \in {} |-> 0] /\ fill = "empty"
  BY DEF ServerInit, Cache!Init
<1>3. Len(keys) = 0 /\ Len(slots) = 0 /\ 1 .. copied = {} /\ DOMAIN table = {}  BY <1>2
<1>4. KeysInv  BY <1>2, <1>3 DEF KeysInv
<1>5. SlotsInv  BY <1>2, <1>3 DEF SlotsInv
<1>6. TableInv  BY <1>3 DEF TableInv
<1>7. FillInv  BY <1>2, <1>3 DEF FillInv
<1> QED  BY <1>1, <1>4, <1>5, <1>6, <1>7 DEF SInv, CacheInv

\* The memory a step leaves alone shows the same vertex in the first buffer.
LEMMA SameBuffer == mem' = mem => BufferVertex' = BufferVertex
BY DEF BufferVertex

\* A step of the server is one of the memory, or none.
LEMMA MemoryStep == SInv /\ [ServerNext]_cvars => [Next]_vars
<1> SUFFICES ASSUME SInv, [ServerNext]_cvars PROVE [Next]_vars  OBVIOUS
<1>1. CASE Fill
  <2>1. CASE UNCHANGED memVars  BY <2>1 DEF memVars
  <2>2. CASE fill = "read" /\ copied < Len(keys) /\ FillRead(keys[copied + 1]) /\ Cache!ReadKey
    <3>1. keys[copied + 1] \in Remote  BY <2>2 DEF SInv, CacheInv, KeysInv
    <3> QED  BY <2>2, <3>1 DEF Next
  <2> QED  BY <1>1, <2>1, <2>2 DEF Fill
<1>2. CASE Serve  BY <1>2 DEF Serve, Next
<1>3. CASE UNCHANGED cvars  BY <1>3 DEF cvars, memVars
<1> QED  BY <1>1, <1>2, <1>3 DEF ServerNext

LEMMA SetCacheInv ==
    ASSUME SInv, stage = "fill", stage' = stage,
           NEW count \in Counts, NEW n \in Limits, Cache!SetCache(count, n)
    PROVE  CacheInv'
<1>1. /\ fill = "empty" /\ fill' = "read" /\ keys' = Cache!HottestKeys(count, n)
      /\ slots' = [i \in DOMAIN keys' |-> <<>>]
      /\ UNCHANGED <<copied, table>>
  BY DEF Cache!SetCache, Cache!NoVertex
<1>2. copied = 0  BY <1>1 DEF SInv, CacheInv, FillInv
<1>3. keys' \in Seq(Remote)
  <2>1. count \in [Vertices -> Nat] /\ n \in Nat  BY ServerMemoryAssumption
  <2> QED  BY <1>1, <2>1, KeysOf
<1>4. Len(keys') \in Nat /\ DOMAIN keys' = 1 .. Len(keys') /\ 1 .. copied' = {}
  BY <1>1, <1>2, <1>3
<1>5. KeysInv'  BY <1>1, <1>2, <1>3, <1>4 DEF KeysInv
<1>6. SlotsInv'
  <2>1. slots' = [i \in 1 .. Len(keys') |-> <<>>]  BY <1>1, <1>4
  <2>2. slots' \in Seq(Remote \cup {<<>>}) /\ Len(slots') = Len(keys')  BY <2>1, <1>4
  <2> QED  BY <2>2, <1>4 DEF SlotsInv
<1>7. DOMAIN table = {}  BY <1>2 DEF SInv, CacheInv, TableInv
<1>8. TableInv'  BY <1>1, <1>4, <1>7 DEF TableInv
<1>9. FillInv'  BY <1>1 DEF FillInv
<1> QED  BY <1>5, <1>6, <1>8, <1>9 DEF CacheInv

LEMMA CopyKeyInv == ASSUME SInv, Cache!CopyKey, stage' = stage PROVE CacheInv'
<1> USE DEF SInv, CacheInv
<1> DEFINE i == copied + 1
<1>1. /\ fill = "copy" /\ fill' = "read" /\ copied' = i
      /\ slots' = [slots EXCEPT ![i] = BufferVertex]
      /\ table' = [v \in DOMAIN table \cup {keys[i]} |->
                     IF v = keys[i] THEN i ELSE table[v]]
      /\ keys' = keys
  BY DEF Cache!CopyKey, Cache!Slot
<1>2. /\ copied \in Nat /\ copied < Len(keys) /\ Len(keys) \in Nat
      /\ i \in 1 .. Len(keys) /\ keys[i] \in Remote
  BY <1>1 DEF FillInv, KeysInv
<1>3. BufferVertex = keys[i]  BY <1>1 DEF FillInv
<1>4. 1 .. copied' = 1 .. copied \cup {i} /\ i \notin 1 .. copied  BY <1>1, <1>2
<1>5. KeysInv'  BY <1>1, <1>2 DEF KeysInv
<1> HIDE DEF i
<1>6. SlotsInv'
  <2>1. /\ slots \in Seq(Remote \cup {<<>>}) /\ Len(slots) = Len(keys)
        /\ \A j \in 1 .. copied : slots[j] = keys[j]
    BY DEF SlotsInv
  <2>2. slots' \in Seq(Remote \cup {<<>>}) /\ Len(slots') = Len(keys)
    BY <1>1, <1>2, <1>3, <2>1
  <2>3. slots'[i] = keys[i]  BY <1>1, <1>2, <1>3, <2>1
  <2>4. \A j \in 1 .. copied : slots'[j] = keys[j]
    <3>1. \A j \in 1 .. copied : j \in 1 .. Len(slots) /\ j # i  BY <1>2, <1>4, <2>1
    <3> QED  BY <3>1, <1>1, <2>1
  <2> QED  BY <2>2, <2>3, <2>4, <1>1, <1>4 DEF SlotsInv
<1>7. TableInv'
  <2>1. /\ DOMAIN table = {keys[j] : j \in 1 .. copied}
        /\ \A v \in DOMAIN table : table[v] \in 1 .. copied /\ keys[table[v]] = v
    BY DEF TableInv
  <2>2. DOMAIN table' = DOMAIN table \cup {keys[i]}  BY <1>1
  <2>3. DOMAIN table' = {keys'[j] : j \in 1 .. copied'}  BY <2>1, <2>2, <1>1, <1>4
  <2>4. ASSUME NEW v \in DOMAIN table' PROVE table'[v] \in 1 .. copied' /\ keys'[table'[v]] = v
    <3>1. CASE v = keys[i]  BY <3>1, <1>1, <1>4
    <3>2. CASE v # keys[i]
      <4>1. v \in DOMAIN table /\ table'[v] = table[v]  BY <3>2, <2>2, <1>1
      <4> QED  BY <4>1, <2>1, <1>1, <1>4
    <3> QED  BY <3>1, <3>2
  <2> QED  BY <2>3, <2>4 DEF TableInv
<1>8. FillInv'  BY <1>1 DEF FillInv
<1> QED  BY <1>5, <1>6, <1>7, <1>8

LEMMA FillStepInv == ASSUME SInv, Fill PROVE CacheInv'
<1>1. stage = "fill"  BY DEF Fill
<1>2. CASE fill = "read" /\ copied < Len(keys) /\ FillRead(keys[copied + 1]) /\ Cache!ReadKey
  <2>1. keys[copied + 1] \in Remote  BY <1>2 DEF SInv, CacheInv, KeysInv
  <2>2. BufferVertex' = keys[copied + 1]  BY <1>2, <2>1, FillReadReads DEF SInv
  <2>3. fill' = "copy" /\ stage' = stage /\ UNCHANGED <<keys, copied, slots, table>>
    BY <1>2 DEF Cache!ReadKey, FillRead
  <2> QED  BY <1>1, <1>2, <2>2, <2>3 DEF SInv, CacheInv, KeysInv, SlotsInv, TableInv, FillInv
<1>3. ASSUME UNCHANGED memVars, NEW count \in Counts, NEW n \in Limits, Cache!SetCache(count, n)
      PROVE  CacheInv'
  <2>1. stage' = stage  BY <1>3 DEF memVars, vars
  <2> QED  BY <1>1, <1>3, <2>1, SetCacheInv
<1>4. CASE UNCHANGED memVars /\ Cache!CopyKey
  <2>1. stage' = stage  BY <1>4 DEF memVars, vars
  <2> QED  BY <1>4, <2>1, CopyKeyInv
<1>5. CASE UNCHANGED memVars /\ Cache!EndFill
  <2>1. /\ stage' = stage /\ fill' = "filled" /\ copied = Len(keys)
        /\ UNCHANGED <<keys, copied, slots, table>>
    BY <1>5 DEF Cache!EndFill, memVars, vars
  <2> QED  BY <2>1 DEF SInv, CacheInv, KeysInv, SlotsInv, TableInv, FillInv
<1> QED  BY <1>2, <1>3, <1>4, <1>5 DEF Fill

\* What serves the queries leaves the cache alone, and runs before or after
\* a fill.
LEMMA ServeInv == ASSUME SInv, Serve PROVE CacheInv'
<1>1. UNCHANGED <<fill, keys, copied, slots, table>>  BY DEF Serve, cacheVars
<1>2. fill \notin {"read", "copy"}
  <2> USE DEF SInv, CacheInv
  <2>1. CASE Load  BY <2>1 DEF Load, FillInv
  <2>2. CASE FetchAdd  BY <2>2 DEF FetchAdd, FillInv
  <2>3. CASE fill \in {"empty", "filled"} /\ StartServing  BY <2>3
  <2>4. ASSUME NEW t \in Threads, NEW n \in 0 .. MaxFetches, FetchedValue(t, n)
        PROVE  fill \notin {"read", "copy"}
    BY <2>4 DEF FetchedValue, FillInv
  <2>5. ASSUME NEW t \in Threads, StartSearching(t) PROVE fill \notin {"read", "copy"}
    BY <2>5 DEF StartSearching, FillInv
  <2>6. ASSUME NEW t \in Threads, NEW v \in Remote, FetchVertex(t, v)
        PROVE  fill \notin {"read", "copy"}
    BY <2>6 DEF FetchVertex, FillInv, IInv
  <2>7. ASSUME NEW t \in Threads, Reset(t) PROVE fill \notin {"read", "copy"}
    BY <2>7 DEF Reset, FillInv, IInv
  <2> QED  BY <2>1, <2>2, <2>3, <2>4, <2>5, <2>6, <2>7 DEF Serve
<1> QED  BY <1>1, <1>2 DEF SInv, CacheInv, KeysInv, SlotsInv, TableInv, FillInv

LEMMA ServerNextInv == SInv /\ [ServerNext]_cvars => SInv'
<1> SUFFICES ASSUME SInv, [ServerNext]_cvars PROVE SInv'  OBVIOUS
<1>1. IInv'  BY MemoryStep, NextInv DEF SInv
<1>2. CacheInv'
  <2>1. CASE Fill  BY <2>1, FillStepInv
  <2>2. CASE Serve  BY <2>2, ServeInv
  <2>3. CASE UNCHANGED cvars
    <3>1. UNCHANGED <<mem, stage, fill, keys, copied, slots, table>>
      BY <2>3 DEF cvars, memVars, vars, cacheVars
    <3>2. BufferVertex' = BufferVertex  BY <3>1, SameBuffer
    <3> QED  BY <3>1, <3>2 DEF SInv, CacheInv, KeysInv, SlotsInv, TableInv, FillInv
  <2> QED  BY <2>1, <2>2, <2>3 DEF ServerNext
<1> QED  BY <1>1, <1>2 DEF SInv

-----------------------------------------------------------------------------

\* Loading, filling the cache and serving queries are steps of the memory map
\* (index.cpp 702-726, cache.hpp 51-78): what is proved of it, that nothing is
\* written over, holds of the server with its cache.
THEOREM ImplementsMemoryMap == ServerSpec => Spec /\ []MemoryIntact
<1>1. ServerInit => SInv  BY ServerInitInv
<1>2. ServerInit => Init  BY DEF ServerInit
<1>3. SInv => MemoryIntact  BY DEF SInv, IInv
<1> QED  BY <1>1, <1>2, <1>3, ServerNextInv, MemoryStep, PTL DEF ServerSpec, Spec, cvars

\* Whatever the profile counted and however many vertices are to be cached,
\* before, during and after the fill: a lookup that hits leads to the bytes of
\* the vertex looked up, and after the fill exactly the chosen vertices hit
\* (cache.hpp 51-98).
THEOREM HitsAreRight == ServerSpec => []HitsReadTheVertex
<1>1. ASSUME SInv PROVE HitsReadTheVertex
  <2> USE DEF SInv, CacheInv
  <2>1. Cache!TypeOK
    <3>1. BufferVertex \in Vertices \cup {<<>>}  BY DEF BufferVertex
    <3>2. DOMAIN table \subseteq Remote  BY <1>1 DEF KeysInv, TableInv
    <3> QED
      BY <1>1, <3>1, <3>2, SameRemote
         DEF Cache!TypeOK, Cache!NoVertex, KeysInv, SlotsInv, FillInv
  <2>2. ASSUME NEW v \in Vertices, Cache!lookup(v) # 0
        PROVE  Cache!ReadThrough(Cache!lookup(v)) = v
    <3>1. v \in DOMAIN table /\ Cache!lookup(v) = table[v]  BY <2>2 DEF Cache!lookup
    <3>2. table[v] \in 1 .. copied /\ keys[table[v]] = v  BY <1>1, <3>1 DEF TableInv
    <3>3. slots[table[v]] = v  BY <1>1, <3>2 DEF SlotsInv
    <3> QED  BY <3>1, <3>3 DEF Cache!ReadThrough
  <2>3. ASSUME fill = "filled", NEW v \in Vertices
        PROVE  Cache!lookup(v) # 0 <=> v \in {keys[i] : i \in DOMAIN keys}
    <3>1. DOMAIN keys = 1 .. copied  BY <1>1, <2>3 DEF KeysInv, FillInv
    <3>2. DOMAIN table = {keys[i] : i \in DOMAIN keys}  BY <1>1, <3>1 DEF TableInv
    <3>3. v \in DOMAIN table => table[v] # 0  BY <1>1 DEF TableInv, KeysInv
    <3> QED  BY <3>2, <3>3 DEF Cache!lookup
  <2> QED  BY <2>1, <2>2, <2>3 DEF HitsReadTheVertex, Cache!HitsReadTheVertex
<1> QED  BY <1>1, ServerInitInv, ServerNextInv, PTL DEF ServerSpec, cvars

-----------------------------------------------------------------------------
(* The bucket index: its layout *)

(* The sizes are natural numbers. *)
LEMMA LayoutFacts ==
  /\ BaseNum \in Nat /\ BaseNum > 0 /\ DataBytes \in Nat
  /\ EntryBytes = 9 /\ LabelOffset = DataBytes /\ NeighborOffset = DataBytes + 4
  /\ ListOffset = DataBytes + 8
  /\ Row \in [Ids -> [1 .. DataBytes -> Byte]]
  /\ Buckets = 0 .. NumBuckets - 1 /\ NumBuckets \in 1 .. 256
BY BucketIndexAssumption DEF EntryBytes, LabelOffset, NeighborOffset, ListOffset, Buckets,
     UnsignedBytes, VidBytes, SidBytes, LidBytes

(* Every id is an unsigned, and so is every local id. *)
LEMMA IdsUnsigned == \A id \in Ids : IsUnsigned(id) /\ id \in 0 .. BaseNum - 1
BY BucketIndexAssumption DEF Ids, IsUnsigned

(* An unsigned in decimal. *)
LEMMA UnsignedBound ==
  ASSUME NEW v, IsUnsigned(v)
  PROVE  v \in Nat /\ v < 4294967296
BY DEF IsUnsigned

(* The largest degree exists, and R is at least every degree. *)
LEMMA DegreeBound ==
  ASSUME graph \in Graphs
  PROVE  /\ graph \in [Ids -> Seq(Ids)]
         /\ R \in Nat
         /\ \A id \in Ids : /\ Len(graph[id]) \in Nat /\ Len(graph[id]) <= R
                            /\ IsUnsigned(Len(graph[id]))
<1> DEFINE S == {Len(graph[id]) : id \in Ids}
           T == {4294967296 - n : n \in S}
<1>1. graph \in [Ids -> Seq(Ids)] /\ \A id \in Ids : IsUnsigned(Len(graph[id]))
  BY BucketIndexAssumption
<1>2. \A id \in Ids : Len(graph[id]) \in Nat
  BY <1>1
<1>3. \A n \in S : n \in Nat /\ n < 4294967296
  <2>1. ASSUME NEW id \in Ids
        PROVE  Len(graph[id]) \in Nat /\ Len(graph[id]) < 4294967296
    <3>1. Len(graph[id]) \in Nat /\ IsUnsigned(Len(graph[id]))
      BY <1>1, <1>2
    <3> QED BY <3>1, UnsignedBound
  <2> QED BY <2>1
<1>4. S # {}
  <2>1. 0 \in Ids
    BY LayoutFacts DEF Ids
  <2> QED BY <2>1
<1>5. T \in SUBSET Nat /\ T # {}
  <2> HIDE DEF S
  <2> QED BY <1>3, <1>4
<1>6. PICK x \in T : \A y \in T : x <= y
  <2> HIDE DEF T
  <2> QED BY <1>5, LeastNatural
<1>7. \E n \in S : \A k \in S : k <= n
  <2> HIDE DEF S
  <2>1. PICK n \in S : x = 4294967296 - n
    BY <1>6
  <2>2. ASSUME NEW k \in S
        PROVE  k <= n
    <3>1. 4294967296 - k \in T
      OBVIOUS
    <3> QED BY <1>3, <1>6, <2>1, <3>1
  <2> QED BY <2>2
<1>8. \E r \in S : \A id \in Ids : Len(graph[id]) <= r
  BY <1>7
<1>9. R \in S /\ \A id \in Ids : Len(graph[id]) <= R
  BY <1>8 DEF R
<1> QED BY <1>1, <1>2, <1>3, <1>9

(* The size of an element. *)
LEMMA ElementSizeFacts ==
  ASSUME graph \in Graphs
  PROVE  /\ ElementSize \in Nat /\ ElementSize > 0
         /\ \A id \in Ids : DataBytes + 8 + 9 * Len(graph[id]) <= ElementSize
<1>1. R \in Nat /\ \A id \in Ids : Len(graph[id]) \in Nat /\ Len(graph[id]) <= R
  BY DegreeBound
<1>2. ElementSize = DataBytes + 8 + 9 * R
  BY <1>1, LayoutFacts DEF ElementSize, UnsignedBytes
<1> QED BY <1>1, <1>2, LayoutFacts

-----------------------------------------------------------------------------
(* Bytes *)

(* The four bytes of an unsigned make that number again. *)
LEMMA EncodeFacts ==
  ASSUME NEW v, IsUnsigned(v)
  PROVE  /\ Encode(v) \in Seq(Byte) /\ Len(Encode(v)) = 4
         /\ \A k \in 1 .. 4 : Encode(v)[k] \in Byte
         /\ v = Encode(v)[1] + 256 * Encode(v)[2] + 65536 * Encode(v)[3]
                  + 16777216 * Encode(v)[4]
<1>1. v \in Nat /\ v < 4294967296
  BY DEF IsUnsigned
<1>2. /\ v % 256 \in Byte /\ (v \div 256) % 256 \in Byte /\ (v \div 65536) % 256 \in Byte
      /\ (v \div 16777216) % 256 \in Byte
  BY <1>1 DEF Byte
<1>3. v = (v % 256) + 256 * ((v \div 256) % 256) + 65536 * ((v \div 65536) % 256)
            + 16777216 * ((v \div 16777216) % 256)
  BY <1>1
<1> QED BY <1>2, <1>3 DEF Encode

(* Two sequences, one after the other. *)
LEMMA SeqConcat ==
  ASSUME NEW S, NEW a \in Seq(S), NEW b \in Seq(S)
  PROVE  /\ a \o b \in Seq(S) /\ Len(a \o b) = Len(a) + Len(b)
         /\ \A k \in 1 .. Len(a) + Len(b) :
              (a \o b)[k] = IF k <= Len(a) THEN a[k] ELSE b[k - Len(a)]
OBVIOUS

(* The bytes of a neighbor in the list of a vertex. *)
LEMMA EntryFacts ==
  ASSUME partition \in [Ids -> Buckets], lid \in [Ids -> 0 .. BaseNum - 1], NEW id \in Ids
  PROVE  /\ NeighborEntry(id) \in Seq(Byte) /\ Len(NeighborEntry(id)) = 9
         /\ \A k \in 1 .. 4 : /\ NeighborEntry(id)[k] = Encode(id)[k]
                              /\ NeighborEntry(id)[k + 5] = Encode(lid[id])[k]
         /\ NeighborEntry(id)[5] = partition[id]
         /\ \A k \in 1 .. 9 : NeighborEntry(id)[k] \in Byte
         /\ IsUnsigned(lid[id])
<1>1. IsUnsigned(id) /\ IsUnsigned(lid[id])
  <2>1. lid[id] \in Ids
    BY DEF Ids
  <2> QED BY <2>1, IdsUnsigned
<1>2. /\ Encode(id) \in Seq(Byte) /\ Len(Encode(id)) = 4
      /\ Encode(lid[id]) \in Seq(Byte) /\ Len(Encode(lid[id])) = 4
  BY <1>1, EncodeFacts
<1>3. partition[id] \in Byte /\ partition[id] % 256 = partition[id]
  <2>1. partition[id] \in 0 .. NumBuckets - 1 /\ NumBuckets \in 1 .. 256
    BY LayoutFacts
  <2> QED BY <2>1 DEF Byte
<1>4. EncodeByte(partition[id]) \in Seq(Byte) /\ Len(EncodeByte(partition[id])) = 1
      /\ EncodeByte(partition[id])[1] = partition[id]
  BY <1>3 DEF EncodeByte
<1>5. PICK u \in Seq(Byte) : u = Encode(id)
  BY <1>2
<1>6. PICK b \in Seq(Byte) : b = EncodeByte(partition[id])
  BY <1>4
<1>7. PICK w \in Seq(Byte) : w = Encode(lid[id])
  BY <1>2
<1>8. Len(u) = 4 /\ Len(b) = 1 /\ Len(w) = 4
  BY <1>2, <1>4, <1>5, <1>6, <1>7
<1>9. PICK x \in Seq(Byte) : x = u \o b
  <2>1. u \o b \in Seq(Byte)
    BY SeqConcat
  <2> QED BY <2>1
<1>10. Len(x) = 5 /\ \A k \in 1 .. 5 : x[k] = IF k <= 4 THEN u[k] ELSE b[k - 4]
  <2>1. /\ Len(x) = Len(u) + Len(b)
        /\ \A k \in 1 .. Len(u) + Len(b) : x[k] = IF k <= Len(u) THEN u[k] ELSE b[k - Len(u)]
    BY <1>9, SeqConcat
  <2> QED BY <1>8, <2>1
<1>11. PICK e \in Seq(Byte) : e = x \o w
  <2>1. x \o w \in Seq(Byte)
    BY SeqConcat
  <2> QED BY <2>1
<1>12. Len(e) = 9 /\ \A k \in 1 .. 9 : e[k] = IF k <= 5 THEN x[k] ELSE w[k - 5]
  <2>1. /\ Len(e) = Len(x) + Len(w)
        /\ \A k \in 1 .. Len(x) + Len(w) : e[k] = IF k <= Len(x) THEN x[k] ELSE w[k - Len(x)]
    BY <1>11, SeqConcat
  <2> QED BY <1>8, <1>10, <2>1
<1>13. e = NeighborEntry(id)
  BY <1>5, <1>6, <1>7, <1>9, <1>11 DEF NeighborEntry
<1>14. \A k \in 1 .. 4 : e[k] = u[k] /\ e[k + 5] = w[k]
  <2> SUFFICES ASSUME NEW k \in 1 .. 4 PROVE e[k] = u[k] /\ e[k + 5] = w[k]
    OBVIOUS
  <2>1. /\ k \in 1 .. 9 /\ k \in 1 .. 5 /\ k <= 5 /\ k <= 4
        /\ k + 5 \in 1 .. 9 /\ ~(k + 5 <= 5) /\ (k + 5) - 5 = k
    OBVIOUS
  <2>2. e[k] = x[k] /\ x[k] = u[k] /\ e[k + 5] = w[(k + 5) - 5]
    BY <1>10, <1>12, <2>1, Zenon
  <2> QED BY <2>1, <2>2
<1>15. e[5] = b[1] /\ \A k \in 1 .. 9 : e[k] \in Byte
  <2>1. e[5] = x[5] /\ x[5] = b[1]
    BY <1>10, <1>12
  <2>2. ASSUME NEW k \in 1 .. 9 PROVE e[k] \in Byte
    <3>1. Len(e) = 9
      BY <1>12
    <3>2. \A i \in 1 .. Len(e) : e[i] \in Byte
      OBVIOUS
    <3> QED BY <3>1, <3>2
  <2> QED BY <2>1, <2>2
<1> QED BY <1>1, <1>4, <1>5, <1>6, <1>7, <1>12, <1>13, <1>14, <1>15

LayoutInv ==
  /\ graph \in Graphs
  /\ partition \in [Ids -> Buckets]
  /\ lid \in [Ids -> 0 .. BaseNum - 1]

(* The list of neighbors: entry m, byte k of it. *)
LEMMA ListFacts ==
  ASSUME LayoutInv, NEW id \in Ids
  PROVE  /\ NeighborList(id) \in Seq(Byte) /\ Len(NeighborList(id)) = 9 * Len(graph[id])
         /\ \A m \in 0 .. Len(graph[id]) - 1 : \A k \in 1 .. 9 :
              NeighborList(id)[9 * m + k] = NeighborEntry(graph[id][m + 1])[k]
<1>1. /\ Len(graph[id]) \in Nat /\ graph[id] \in Seq(Ids)
      /\ \A m \in 1 .. Len(graph[id]) : graph[id][m] \in Ids
  <2>1. graph \in [Ids -> Seq(Ids)]
    BY DegreeBound DEF LayoutInv
  <2> QED BY <2>1
<1> DEFINE n == Len(graph[id])
           entry(k) == NeighborEntry(graph[id][((k - 1) \div 9) + 1])
           f == [k \in 1 .. n * 9 |-> entry(k)[((k - 1) % 9) + 1]]
<1>2. NeighborList(id) = f
  BY LayoutFacts DEF NeighborList
<1>3. ASSUME NEW k \in 1 .. n * 9
      PROVE  f[k] \in Byte
  <2>1. ((k - 1) \div 9) + 1 \in 1 .. n /\ ((k - 1) % 9) + 1 \in 1 .. 9
    BY <1>1
  <2>2. graph[id][((k - 1) \div 9) + 1] \in Ids
    BY <1>1, <2>1
  <2>3. \A j \in 1 .. 9 : entry(k)[j] \in Byte
    BY <2>2, EntryFacts DEF LayoutInv
  <2> QED BY <2>1, <2>3
<1>4. f \in Seq(Byte) /\ Len(f) = 9 * n
  <2>1. n * 9 \in Nat /\ n * 9 = 9 * n
    BY <1>1
  <2> HIDE DEF n
  <2>2. f \in [1 .. n * 9 -> Byte]
    BY <1>3
  <2> HIDE DEF f
  <2>3. DOMAIN f = 1 .. n * 9 /\ f \in Seq(Byte)
    BY <2>1, <2>2
  <2>4. Len(f) = n * 9
    BY <2>1, <2>3
  <2> QED BY <2>1, <2>3, <2>4
<1>5. ASSUME NEW m \in 0 .. n - 1, NEW k \in 1 .. 9
      PROVE  f[9 * m + k] = NeighborEntry(graph[id][m + 1])[k]
  <2>1. /\ 9 * m + k \in 1 .. n * 9
        /\ (9 * m + k - 1) \div 9 = m /\ (9 * m + k - 1) % 9 = k - 1
    BY <1>1
  <2>2. f[9 * m + k] = entry(9 * m + k)[((9 * m + k - 1) % 9) + 1]
    <3> HIDE DEF n, entry
    <3> QED BY <2>1
  <2>3. ((9 * m + k - 1) % 9) + 1 = k /\ ((9 * m + k - 1) \div 9) + 1 = m + 1
    BY <2>1
  <2> QED BY <2>2, <2>3
<1> HIDE DEF f
<1> QED BY <1>2, <1>4, <1>5

(* What an element holds, byte by byte. *)
LEMMA ElementFacts ==
  ASSUME LayoutInv, NEW id \in Ids
  PROVE  /\ Element(id) \in Seq(Byte)
         /\ Len(Element(id)) = DataBytes + 8 + 9 * Len(graph[id])
         /\ \A k \in 1 .. DataBytes : Element(id)[k] = Row[id][k]
         /\ \A k \in 1 .. 4 : Element(id)[DataBytes + k] = Encode(id)[k]
         /\ \A k \in 1 .. 4 : Element(id)[DataBytes + 4 + k] = Encode(Len(graph[id]))[k]
         /\ \A k \in 1 .. 9 * Len(graph[id]) :
              Element(id)[DataBytes + 8 + k] = NeighborList(id)[k]
<1>1. DataBytes \in Nat /\ Row[id] \in Seq(Byte) /\ Len(Row[id]) = DataBytes
  <2>1. Row[id] \in [1 .. DataBytes -> Byte] /\ DataBytes \in Nat
    BY LayoutFacts
  <2> QED BY <2>1
<1>2. IsUnsigned(id) /\ IsUnsigned(Len(graph[id])) /\ Len(graph[id]) \in Nat
  BY IdsUnsigned, DegreeBound DEF LayoutInv
<1>3. PICK n \in Nat : n = Len(graph[id])
  BY <1>2
<1>4. PICK r \in Seq(Byte) : r = Row[id]
  BY <1>1
<1>5. PICK u \in Seq(Byte) : u = Encode(id)
  BY <1>2, EncodeFacts
<1>6. PICK v \in Seq(Byte) : v = Encode(Len(graph[id]))
  BY <1>2, EncodeFacts
<1>7. PICK w \in Seq(Byte) : w = NeighborList(id)
  BY ListFacts
<1>8. Len(r) = DataBytes /\ Len(u) = 4 /\ Len(v) = 4 /\ Len(w) = 9 * n
  BY <1>1, <1>2, <1>3, <1>4, <1>5, <1>6, <1>7, EncodeFacts, ListFacts
<1>9. PICK x \in Seq(Byte) : x = r \o u
  <2>1. r \o u \in Seq(Byte)
    BY SeqConcat
  <2> QED BY <2>1
<1>10. Len(x) = DataBytes + 4
       /\ \A k \in 1 .. DataBytes + 4 : x[k] = IF k <= DataBytes THEN r[k] ELSE u[k - DataBytes]
  <2>1. /\ Len(x) = Len(r) + Len(u)
        /\ \A k \in 1 .. Len(r) + Len(u) : x[k] = IF k <= Len(r) THEN r[k] ELSE u[k - Len(r)]
    BY <1>9, SeqConcat
  <2> QED BY <1>8, <2>1
<1>11. PICK y \in Seq(Byte) : y = x \o v
  <2>1. x \o v \in Seq(Byte)
    BY SeqConcat
  <2> QED BY <2>1
<1>12. Len(y) = DataBytes + 8
       /\ \A k \in 1 .. DataBytes + 8 :
            y[k] = IF k <= DataBytes + 4 THEN x[k] ELSE v[k - (DataBytes + 4)]
  <2>1. /\ Len(y) = Len(x) + Len(v)
        /\ \A k \in 1 .. Len(x) + Len(v) : y[k] = IF k <= Len(x) THEN x[k] ELSE v[k - Len(x)]
    BY <1>11, SeqConcat
  <2> QED BY <1>1, <1>8, <1>10, <2>1
<1>13. PICK e \in Seq(Byte) : e = y \o w
  <2>1. y \o w \in Seq(Byte)
    BY SeqConcat
  <2> QED BY <2>1
<1>14. Len(e) = DataBytes + 8 + 9 * n
       /\ \A k \in 1 .. DataBytes + 8 + 9 * n :
            e[k] = IF k <= DataBytes + 8 THEN y[k] ELSE w[k - (DataBytes + 8)]
  <2>1. /\ Len(e) = Len(y) + Len(w)
        /\ \A k \in 1 .. Len(y) + Len(w) : e[k] = IF k <= Len(y) THEN y[k] ELSE w[k - Len(y)]
    BY <1>13, SeqConcat
  <2> QED BY <1>1, <1>8, <1>12, <2>1
<1>15. e = Element(id)
  BY <1>4, <1>5, <1>6, <1>7, <1>9, <1>11, <1>13 DEF Element
<1>16. ASSUME NEW k \in 1 .. DataBytes
       PROVE  e[k] = r[k]
  <2>0. /\ k \in 1 .. DataBytes + 8 + 9 * n /\ k <= DataBytes + 8
        /\ k \in 1 .. DataBytes + 8 /\ k <= DataBytes + 4
        /\ k \in 1 .. DataBytes + 4 /\ k <= DataBytes
    BY <1>1
  <2>1. e[k] = y[k]
    BY <1>14, <2>0
  <2>2. y[k] = x[k]
    BY <1>12, <2>0
  <2>3. x[k] = r[k]
    BY <1>10, <2>0
  <2> QED BY <2>1, <2>2, <2>3
<1>17. ASSUME NEW k \in 1 .. 4
       PROVE  e[DataBytes + k] = u[k] /\ e[DataBytes + 4 + k] = v[k]
  <2>1. e[DataBytes + k] = y[DataBytes + k] /\ e[DataBytes + 4 + k] = y[DataBytes + 4 + k]
    <3>1. /\ DataBytes + k \in 1 .. DataBytes + 8 + 9 * n /\ DataBytes + k <= DataBytes + 8
          /\ DataBytes + 4 + k \in 1 .. DataBytes + 8 + 9 * n
          /\ DataBytes + 4 + k <= DataBytes + 8
      BY <1>1
    <3>2. ASSUME NEW a \in 1 .. DataBytes + 8 + 9 * n, a <= DataBytes + 8
          PROVE  e[a] = y[a]
      BY <1>14, <3>2, SMTT(40)
    <3>3. e[DataBytes + k] = y[DataBytes + k]
      BY <3>1, <3>2, SMTT(40)
    <3>4. e[DataBytes + 4 + k] = y[DataBytes + 4 + k]
      BY <3>1, <3>2, SMTT(40)
    <3> QED BY <3>3, <3>4
  <2>2. /\ DataBytes + k \in 1 .. DataBytes + 8 /\ DataBytes + k <= DataBytes + 4
        /\ DataBytes + k \in 1 .. DataBytes + 4 /\ ~(DataBytes + k <= DataBytes)
        /\ DataBytes + 4 + k \in 1 .. DataBytes + 8
        /\ ~(DataBytes + 4 + k <= DataBytes + 4)
        /\ (DataBytes + k) - DataBytes = k
        /\ (DataBytes + 4 + k) - (DataBytes + 4) = k
    BY <1>1
  <2>3. y[DataBytes + k] = x[DataBytes + k]
    BY <1>12, <2>2, SMTT(40)
  <2>4. x[DataBytes + k] = u[(DataBytes + k) - DataBytes]
    BY <1>10, <2>2, SMTT(40)
  <2>5. y[DataBytes + 4 + k] = v[(DataBytes + 4 + k) - (DataBytes + 4)]
    BY <1>12, <2>2, SMTT(40)
  <2> QED BY <2>1, <2>2, <2>3, <2>4, <2>5
<1>18. ASSUME NEW k \in 1 .. 9 * n
       PROVE  e[DataBytes + 8 + k] = w[k]
  <2>1. /\ e[DataBytes + 8 + k] = w[(DataBytes + 8 + k) - (DataBytes + 8)]
        /\ (DataBytes + 8 + k) - (DataBytes + 8) = k
    BY <1>1, <1>14
  <2> QED BY <2>1
<1> QED BY <1>3, <1>4, <1>5, <1>6, <1>7, <1>14, <1>15, <1>16, <1>17, <1>18

-----------------------------------------------------------------------------
(* The inductive invariant of the bucket index *)

Placed == {id \in Ids : pc \in {"write", "saved"} \/ (pc = "place" /\ id < next)}
InPlace == {id \in Ids : pc = "saved" \/ (pc = "write" /\ id < next)}

BktTypeInv ==
  /\ BktTypeOK
  /\ graph \in Graphs
  /\ next < BaseNum
  /\ bucket \in [Buckets -> Seq(Byte \cup {Uninit})]
  /\ kvstore \in [Buckets -> Seq(Byte \cup {Uninit})]

(* No two vertices have the same place. *)
PlaceInv ==
  /\ \A b \in Buckets : /\ pc = "partition" => dataNum[b] = 0
                        /\ pc = "place" => dataNum[b] <= next
  /\ \A i \in Placed : lid[i] < dataNum[partition[i]]
  /\ \A i, j \in Placed : partition[i] = partition[j] /\ lid[i] = lid[j] => i = j

(* The element of a vertex that was written is at its place. *)
IsAt(memory, id) ==
  \A k \in 1 .. Len(Element(id)) : memory[lid[id] * ElementSize + k] = Element(id)[k]
WriteInv ==
  pc \in {"write", "saved"} =>
    /\ \A b \in Buckets : Len(bucket[b]) = ElementSize * dataNum[b]
    /\ \A id \in InPlace : IsAt(bucket[partition[id]], id)

(* A server that has loaded holds its bucket, and a search is at the place of
   the vertex it was told of. *)
ServerInv ==
  \A s \in Buckets :
    /\ server[s] # "load" => pc = "saved"
    /\ Loaded(s) => kvstore[s] = bucket[s]
    /\ server[s] = "search" =>
         AllLoaded(s) /\ item[s] = <<partition[named[s]], lid[named[s]]>>

BktIInv == BktTypeInv /\ PlaceInv /\ WriteInv /\ ServerInv

(* What the types say of the parts that the later lemmas cite. *)
LEMMA BktTypes ==
  ASSUME BktTypeInv
  PROVE  /\ LayoutInv
         /\ pc \in {"partition", "place", "write", "saved"}
         /\ next \in Ids /\ next \in Nat
         /\ dataNum \in [Buckets -> 0 .. BaseNum]
         /\ bucket \in [Buckets -> Seq(Byte \cup {Uninit})]
         /\ kvstore \in [Buckets -> Seq(Byte \cup {Uninit})]
         /\ server \in [Buckets -> {"load", "loaded", "search", "error"}]
         /\ item \in [Buckets -> Buckets \X Nat]
         /\ named \in [Buckets -> Ids]
<1>1. LayoutInv
  BY DEF BktTypeInv, BktTypeOK, LayoutInv
<1>2. next \in Ids /\ next \in Nat
  BY LayoutFacts DEF BktTypeInv, BktTypeOK, Ids
<1>3. dataNum \in [Buckets -> 0 .. BaseNum] /\ named \in [Buckets -> Ids]
  BY DEF BktTypeInv, BktTypeOK
<1> QED BY <1>1, <1>2, <1>3 DEF BktTypeInv, BktTypeOK

-----------------------------------------------------------------------------
(* Places and addresses *)

(* Two places of one bucket have no byte in common. *)
LEMMA SlotsApart ==
  ASSUME NEW e \in Nat, NEW i \in Nat, NEW j \in Nat, NEW a \in 1 .. e, NEW b \in 1 .. e,
         i * e + a = j * e + b
  PROVE  i = j
<1>1. i * e = e * i /\ j * e = e * j /\ e * i \in Nat /\ e * j \in Nat
  OBVIOUS
<1>2. ~ (i < j)
  <2>1. i < j => e * i + e <= e * j
    BY Stride
  <2> QED BY <1>1, <2>1
<1>3. ~ (j < i)
  <2>1. j < i => e * j + e <= e * i
    BY Stride
  <2> QED BY <1>1, <2>1
<1> QED BY <1>2, <1>3

(* A byte of the slot of a place lies before the end of the last slot. *)
LEMMA SlotInside ==
  ASSUME NEW e \in Nat, NEW i \in Nat, NEW n \in Nat, i < n, NEW a \in 1 .. e
  PROVE  i * e + a \in 1 .. e * n /\ i * e \in Nat
<1>1. i * e = e * i /\ e * i \in Nat /\ e * n \in Nat
  OBVIOUS
<1>2. e * i + e <= e * n
  BY Stride
<1> QED BY <1>1, <1>2

(* An element lies in the slot of its vertex. *)
LEMMA ElementFits ==
  ASSUME LayoutInv, NEW id \in Ids
  PROVE  /\ Len(Element(id)) \in Nat /\ Len(Element(id)) <= ElementSize
         /\ ElementSize \in Nat /\ lid[id] \in Nat
<1>1. lid[id] \in 0 .. BaseNum - 1
  BY DEF LayoutInv
<1>2. ElementSize \in Nat /\ DataBytes + 8 + 9 * Len(graph[id]) <= ElementSize
  BY ElementSizeFacts DEF LayoutInv
<1>3. Len(Element(id)) = DataBytes + 8 + 9 * Len(graph[id]) /\ Element(id) \in Seq(Byte)
  BY ElementFacts
<1> QED BY <1>1, <1>2, <1>3

(* A memcpy changes the bytes it writes and no others. *)
LEMMA OverwriteFacts ==
  ASSUME NEW S, NEW q \in Seq(S), NEW at \in Nat, NEW w \in Seq(S)
  PROVE  /\ Overwrite(q, at, w) \in Seq(S) /\ Len(Overwrite(q, at, w)) = Len(q)
         /\ \A a \in 1 .. Len(q) : Overwrite(q, at, w)[a]
                                     = IF a - at \in 1 .. Len(w) THEN w[a - at] ELSE q[a]
<1>1. PICK h : h = [a \in 1 .. Len(q) |-> IF a - at \in 1 .. Len(w) THEN w[a - at] ELSE q[a]]
  OBVIOUS
<1>2. h = Overwrite(q, at, w)
  BY <1>1 DEF Overwrite
<1>3. ASSUME NEW a \in 1 .. Len(q)
      PROVE  (IF a - at \in 1 .. Len(w) THEN w[a - at] ELSE q[a]) \in S
  <2>1. \A i \in 1 .. Len(q) : q[i] \in S
    OBVIOUS
  <2>2. \A i \in 1 .. Len(w) : w[i] \in S
    OBVIOUS
  <2> QED BY <2>1, <2>2
<1>4. h \in [1 .. Len(q) -> S] /\ Len(q) \in Nat
  BY <1>1, <1>3
<1>5. h \in Seq(S) /\ Len(h) = Len(q)
  BY <1>4
<1>6. \A a \in 1 .. Len(q) : h[a] = IF a - at \in 1 .. Len(w) THEN w[a - at] ELSE q[a]
  BY <1>1
<1> QED BY <1>2, <1>5, <1>6

(* The layout depends on the graph and the places only. *)
LEMMA LayoutSame ==
  ASSUME UNCHANGED <<graph, partition, lid>>
  PROVE  /\ ElementSize' = ElementSize
         /\ \A id : Element(id)' = Element(id)
         /\ \A memory, id : IsAt(memory, id)' = IsAt(memory, id)
<1>1. ElementSize' = ElementSize
  BY DEF ElementSize, NeighborOffset, R
<1>2. \A id : Element(id)' = Element(id)
  BY DEF Element, NeighborList, NeighborEntry
<1> QED BY <1>1, <1>2 DEF IsAt

-----------------------------------------------------------------------------
(* The index builder *)

(* Nothing is placed, written or loaded at first. *)
LEMMA BktInitIInv == BktInit => BktIInv
<1> SUFFICES ASSUME BktInit PROVE BktIInv
  OBVIOUS
<1>1. 0 \in Ids /\ 0 \in Buckets /\ 0 \in 0 .. BaseNum - 1 /\ 0 \in 0 .. BaseNum /\ 0 < BaseNum
  BY LayoutFacts DEF Ids
<1>2. << >> \in Seq(Byte \cup {Uninit})
  OBVIOUS
<1>3. graph \in Graphs /\ graph \in [Ids -> Seq(Ids)]
  BY DegreeBound DEF BktInit
<1>4. BktTypeOK
  <2>1. item \in [Buckets -> Buckets \X Nat] /\ named \in [Buckets -> Ids]
    BY <1>1 DEF BktInit, NoItem
  <2>2. /\ partition \in [Ids -> Buckets] /\ lid \in [Ids -> 0 .. BaseNum - 1]
        /\ dataNum \in [Buckets -> 0 .. BaseNum]
    BY <1>1 DEF BktInit
  <2>3. \A b \in Buckets : bucket[b] = << >> /\ kvstore[b] = << >>
    BY DEF BktInit
  <2>4. next \in 0 .. BaseNum /\ pc \in {"partition", "place", "write", "saved"}
    BY <1>1 DEF BktInit
  <2>5. server \in [Buckets -> {"load", "loaded", "search", "error"}]
    BY DEF BktInit
  <2> QED BY <1>2, <1>3, <2>1, <2>2, <2>3, <2>4, <2>5 DEF BktTypeOK
<1>5. BktTypeInv
  BY <1>1, <1>2, <1>3, <1>4 DEF BktInit, BktTypeInv
<1>6. PlaceInv /\ WriteInv
  BY DEF BktInit, PlaceInv, WriteInv, Placed
<1>7. ServerInv
  BY DEF BktInit, ServerInv, Loaded
<1> QED BY <1>5, <1>6, <1>7 DEF BktIInv

(* Before the index is saved nobody has loaded anything. *)
LEMMA NobodyLoads ==
  ASSUME BktIInv, pc # "saved", UNCHANGED serverVars
  PROVE  ServerInv'
<1>1. \A s \in Buckets : server[s] = "load"
  BY DEF BktIInv, ServerInv
<1>2. server' = server
  BY DEF serverVars
<1>3. \A s \in Buckets : server'[s] = "load"
  BY <1>1, <1>2
<1> QED BY <1>3 DEF ServerInv, Loaded

(* What a loop does with its variable. *)
LEMMA AdvanceFacts ==
  ASSUME BktTypeInv, NEW a, NEW b, Advance(a, b)
  PROVE  /\ next' \in Ids /\ next' < BaseNum /\ next' \in 0 .. BaseNum
         /\ pc' \in {a, b}
         /\ next + 1 < BaseNum => next' = next + 1 /\ pc' = a
         /\ ~ (next + 1 < BaseNum) => next' = 0 /\ pc' = b /\ next = BaseNum - 1
<1>1. next \in Nat /\ next < BaseNum /\ BaseNum \in Nat /\ BaseNum > 0
  BY BktTypes, LayoutFacts DEF BktTypeInv
<1> QED BY <1>1 DEF Advance, Ids

(* A partition is chosen before any vertex is placed. *)
LEMMA PartitionIInv ==
  ASSUME BktIInv, Partition
  PROVE  BktIInv'
<1>1. PICK b \in Buckets : partition' = [partition EXCEPT ![next] = b]
  BY DEF Partition
<1>2. /\ pc = "partition" /\ Advance("partition", "place")
      /\ UNCHANGED <<graph, lid, dataNum, bucket>> /\ UNCHANGED serverVars
  BY DEF Partition
<1>3. /\ next' \in Ids /\ next' < BaseNum /\ next' \in 0 .. BaseNum
      /\ pc' \in {"partition", "place"} /\ (pc' = "place" => next' = 0)
  BY <1>2, AdvanceFacts DEF BktIInv
<1>4. BktTypeInv'
  <2>1. partition' \in [Ids -> Buckets]
    BY <1>1, BktTypes DEF BktIInv, LayoutInv
  <2> QED BY <1>2, <1>3, <2>1 DEF BktIInv, BktTypeInv, BktTypeOK, serverVars
<1>5. PlaceInv'
  <2>1. \A c \in Buckets : dataNum'[c] = 0
    BY <1>2 DEF BktIInv, PlaceInv
  <2>2. Placed' = {}
    <3>1. \A id \in Ids : ~ (id < 0)
      BY DEF Ids
    <3> QED BY <1>3, <3>1 DEF Placed
  <2> QED BY <1>3, <2>1, <2>2 DEF PlaceInv
<1>6. WriteInv'
  BY <1>3 DEF WriteInv
<1>7. ServerInv'
  BY <1>2, NobodyLoads
<1> QED BY <1>4, <1>5, <1>6, <1>7 DEF BktIInv

(* The vertex that is placed gets the next place of its bucket, which is free. *)
LEMMA PlaceIInv ==
  ASSUME BktIInv, Place
  PROVE  BktIInv'
<1>1. PICK b \in Buckets : b = partition[next]
  BY BktTypes DEF BktIInv, LayoutInv
<1>2. /\ pc = "place" /\ Advance("place", "write")
      /\ UNCHANGED <<graph, partition>> /\ UNCHANGED serverVars
      /\ lid' = [lid EXCEPT ![next] = dataNum[b]]
      /\ dataNum' = [dataNum EXCEPT ![b] = @ + 1]
      /\ bucket' = IF pc' = "write"
                   THEN [c \in Buckets |-> [a \in 1 .. ElementSize * dataNum'[c] |-> Uninit]]
                   ELSE bucket
  BY <1>1 DEF Place, LocalId
<1>3. /\ next' \in Ids /\ next' < BaseNum /\ next' \in 0 .. BaseNum
      /\ pc' \in {"place", "write"} /\ (pc' = "write" => next' = 0 /\ next = BaseNum - 1)
      /\ pc' = "place" => next' = next + 1
  BY <1>2, AdvanceFacts DEF BktIInv
<1>4. /\ next \in Ids /\ next \in Nat /\ next < BaseNum /\ BaseNum \in Nat
      /\ lid \in [Ids -> 0 .. BaseNum - 1] /\ partition \in [Ids -> Buckets]
      /\ dataNum \in [Buckets -> 0 .. BaseNum] /\ graph \in Graphs
      /\ bucket \in [Buckets -> Seq(Byte \cup {Uninit})]
  BY BktTypes, LayoutFacts DEF BktIInv, LayoutInv, BktTypeInv
<1>5. \A c \in Buckets : dataNum[c] \in Nat /\ dataNum[c] <= next
  BY <1>2, <1>4 DEF BktIInv, PlaceInv
<1>6. /\ lid' \in [Ids -> 0 .. BaseNum - 1] /\ dataNum' \in [Buckets -> 0 .. BaseNum]
      /\ lid'[next] = dataNum[b] /\ dataNum'[b] = dataNum[b] + 1
      /\ \A id \in Ids : id # next => lid'[id] = lid[id]
      /\ \A c \in Buckets : c # b => dataNum'[c] = dataNum[c]
  BY <1>1, <1>2, <1>4, <1>5
<1>7. ElementSize \in Nat /\ ElementSize' = ElementSize
  BY <1>2, <1>4, ElementSizeFacts DEF ElementSize, NeighborOffset, R
<1>8. /\ bucket' \in [Buckets -> Seq(Byte \cup {Uninit})]
      /\ pc' = "write" => \A c \in Buckets : Len(bucket'[c]) = ElementSize * dataNum'[c]
  <2>1. CASE pc' = "write"
    <3>1. ASSUME NEW c \in Buckets
          PROVE  /\ bucket'[c] \in Seq(Byte \cup {Uninit})
                 /\ Len(bucket'[c]) = ElementSize * dataNum'[c]
      <4>1. PICK n \in Nat : n = ElementSize * dataNum'[c]
        BY <1>6, <1>7
      <4>2. bucket'[c] = [a \in 1 .. n |-> Uninit]
        BY <1>2, <2>1, <4>1
      <4>3. [a \in 1 .. n |-> Uninit] \in Seq(Byte \cup {Uninit})
            /\ Len([a \in 1 .. n |-> Uninit]) = n
        OBVIOUS
      <4> QED BY <4>1, <4>2, <4>3
    <3>2. bucket' = [c \in Buckets |-> bucket'[c]]
      BY <1>2, <2>1
    <3> QED BY <3>1, <3>2
  <2>2. CASE pc' # "write"
    BY <1>2, <1>4, <2>2
  <2> QED BY <2>1, <2>2
<1>9. BktTypeInv'
  BY <1>2, <1>3, <1>6, <1>8 DEF BktIInv, BktTypeInv, BktTypeOK, serverVars
<1>10. Placed' = Placed \cup {next}
  <2>1. Placed = {id \in Ids : id < next}
    BY <1>2 DEF Placed
  <2>2. CASE pc' = "write"
    <3>1. Placed' = Ids
      BY <2>2 DEF Placed
    <3>2. \A id \in Ids : id < next \/ id = next
      BY <1>3, <1>4, <2>2 DEF Ids
    <3> QED BY <1>4, <2>1, <3>1, <3>2
  <2>3. CASE pc' = "place"
    <3>1. Placed' = {id \in Ids : id < next + 1}
      BY <1>3, <2>3 DEF Placed
    <3>2. \A id \in Ids : id < next + 1 <=> (id < next \/ id = next)
      BY <1>4 DEF Ids
    <3> QED BY <1>4, <2>1, <3>1, <3>2
  <2> QED BY <1>3, <2>2, <2>3
<1>11. /\ next \notin Placed /\ Placed \subseteq Ids
       /\ \A i \in Placed : lid[i] < dataNum[partition[i]]
       /\ \A i, j \in Placed : partition[i] = partition[j] /\ lid[i] = lid[j] => i = j
  <2>1. next \notin Placed /\ Placed \subseteq Ids
    BY <1>2, <1>4 DEF Placed
  <2> QED BY <2>1 DEF BktIInv, PlaceInv
<1>12. PlaceInv'
  <2>1. \A c \in Buckets : pc' = "place" => dataNum'[c] <= next'
    <3> SUFFICES ASSUME NEW c \in Buckets, pc' = "place" PROVE dataNum'[c] <= next'
      OBVIOUS
    <3>1. dataNum[c] \in Nat /\ dataNum[c] <= next /\ next' = next + 1 /\ next \in Nat
      BY <1>3, <1>4, <1>5
    <3>2. dataNum'[c] = dataNum[c] \/ dataNum'[c] = dataNum[c] + 1
      BY <1>6
    <3> QED BY <3>1, <3>2
  <2>2. ASSUME NEW i \in Placed'
        PROVE  lid'[i] < dataNum'[partition[i]]
    <3>1. CASE i = next
      BY <1>1, <1>4, <1>6, <3>1
    <3>2. CASE i # next
      <4>1. i \in Placed /\ i \in Ids /\ partition[i] \in Buckets
        BY <1>4, <1>10, <1>11, <3>2
      <4>2. lid'[i] = lid[i] /\ lid[i] < dataNum[partition[i]] /\ lid[i] \in Nat
        BY <1>4, <1>6, <1>11, <3>2, <4>1
      <4>3. \/ dataNum'[partition[i]] = dataNum[partition[i]]
            \/ dataNum'[partition[i]] = dataNum[partition[i]] + 1
        BY <1>6, <4>1
      <4>4. dataNum[partition[i]] \in Nat
        BY <1>4, <4>1
      <4> QED BY <4>2, <4>3, <4>4
    <3> QED BY <3>1, <3>2
  <2>3. ASSUME NEW i \in Placed', NEW j \in Placed', partition[i] = partition[j],
               lid'[i] = lid'[j]
        PROVE  i = j
    <3>1. ASSUME NEW k \in Placed, partition[k] = b
          PROVE  lid'[k] # lid'[next]
      <4>1. k # next /\ k \in Ids /\ lid[k] < dataNum[b]
        BY <1>11, <3>1
      <4>2. lid'[k] = lid[k] /\ lid[k] \in Nat /\ dataNum[b] \in Nat
        BY <1>4, <1>6, <4>1
      <4> QED BY <1>6, <4>1, <4>2
    <3>2. CASE i \in Placed /\ j \in Placed
      <4>1. i # next /\ j # next /\ i \in Ids /\ j \in Ids
        BY <1>11, <3>2
      <4>2. lid[i] = lid[j]
        BY <1>6, <2>3, <4>1
      <4> QED BY <1>11, <2>3, <3>2, <4>2
    <3>3. CASE i \in Placed /\ j = next
      BY <1>1, <2>3, <3>1, <3>3
    <3>4. CASE i = next /\ j \in Placed
      BY <1>1, <2>3, <3>1, <3>4
    <3> QED BY <1>10, <3>2, <3>3, <3>4
  <2> QED BY <1>2, <1>3, <2>1, <2>2, <2>3 DEF PlaceInv
<1>13. WriteInv'
  <2>1. InPlace' = {} \/ pc' # "write"
    <3>1. \A id \in Ids : ~ (id < 0)
      BY DEF Ids
    <3> QED BY <1>3, <3>1 DEF InPlace
  <2> QED BY <1>3, <1>7, <1>8, <2>1 DEF WriteInv
<1>14. ServerInv'
  BY <1>2, NobodyLoads
<1> QED BY <1>9, <1>12, <1>13, <1>14 DEF BktIInv

(* An address in the slot of another vertex of the bucket. *)
LEMMA OtherSlot ==
  ASSUME BktIInv, pc = "write", NEW id \in InPlace, partition[id] = partition[next],
         NEW k \in 1 .. Len(Element(id)), NEW a, NEW at,
         a = lid[id] * ElementSize + k, at = lid[next] * ElementSize
  PROVE  ~ (a - at \in 1 .. Len(Element(next)))
<1>1. /\ id \in Ids /\ next \in Ids /\ id # next /\ id \in Placed /\ next \in Placed
  BY BktTypes DEF BktIInv, InPlace, Placed, Ids
<1>2. lid[id] # lid[next]
  BY <1>1 DEF BktIInv, PlaceInv
<1>3. PICK e \in Nat : e = ElementSize
  BY <1>1, ElementFits, BktTypes DEF BktIInv
<1>4. PICK x \in Nat, y \in Nat : x = lid[id] /\ y = lid[next]
  BY <1>1, ElementFits, BktTypes DEF BktIInv
<1>5. k \in 1 .. e /\ Len(Element(next)) \in Nat /\ Len(Element(next)) <= e
  BY <1>1, <1>3, ElementFits, BktTypes DEF BktIInv
<1>6. a = x * e + k /\ at = y * e /\ x * e \in Nat /\ y * e \in Nat
  <2>1. a = x * e + k /\ at = y * e
    BY <1>3, <1>4
  <2> QED BY <2>1
<1> SUFFICES ASSUME a - at \in 1 .. Len(Element(next)) PROVE FALSE
  OBVIOUS
<1>7. PICK j \in 1 .. e : j = a - at
  BY <1>5
<1>8. x * e + k = y * e + j
  BY <1>5, <1>6, <1>7
<1> QED BY <1>2, <1>4, <1>5, <1>8, SlotsApart

(* An element is written into its own slot and leaves the others as they are. *)
LEMMA WriteElementIInv ==
  ASSUME BktIInv, WriteElement
  PROVE  BktIInv'
<1>1. PICK b \in Buckets : b = partition[next]
  BY BktTypes DEF BktIInv, LayoutInv
<1>2. PICK at : at = lid[next] * ElementSize
  OBVIOUS
<1>3. /\ pc = "write" /\ Advance("write", "saved")
      /\ UNCHANGED <<graph, partition, lid, dataNum>> /\ UNCHANGED serverVars
      /\ bucket' = [bucket EXCEPT ![b] = Overwrite(@, at, Element(next))]
  BY <1>1, <1>2 DEF WriteElement
<1>4. /\ next' \in Ids /\ next' < BaseNum /\ next' \in 0 .. BaseNum
      /\ pc' \in {"write", "saved"} /\ (pc' = "saved" => next = BaseNum - 1)
      /\ pc' = "write" => next' = next + 1
  BY <1>3, AdvanceFacts DEF BktIInv
<1>5. /\ LayoutInv /\ next \in Ids /\ next \in Nat /\ partition \in [Ids -> Buckets]
      /\ dataNum \in [Buckets -> 0 .. BaseNum] /\ BaseNum \in Nat
      /\ bucket \in [Buckets -> Seq(Byte \cup {Uninit})]
  BY BktTypes, LayoutFacts DEF BktIInv, LayoutInv
<1>6. /\ \A c \in Buckets : Len(bucket[c]) = ElementSize * dataNum[c]
      /\ \A id \in InPlace : IsAt(bucket[partition[id]], id)
  BY <1>3 DEF BktIInv, WriteInv
<1>7. /\ ElementSize' = ElementSize /\ \A id : Element(id)' = Element(id)
  BY <1>3, LayoutSame
<1>8. Element(next) \in Seq(Byte \cup {Uninit}) /\ at \in Nat
  <2>1. Element(next) \in Seq(Byte)
    BY <1>5, ElementFacts
  <2>2. ElementSize \in Nat /\ lid[next] \in Nat
    BY <1>5, ElementFits
  <2> QED BY <1>2, <2>1, <2>2
<1>9. /\ bucket'[b] \in Seq(Byte \cup {Uninit}) /\ Len(bucket'[b]) = Len(bucket[b])
      /\ \A a \in 1 .. Len(bucket[b]) :
           bucket'[b][a] = IF a - at \in 1 .. Len(Element(next)) THEN Element(next)[a - at]
                           ELSE bucket[b][a]
  <2>1. bucket'[b] = Overwrite(bucket[b], at, Element(next))
    BY <1>3, <1>5
  <2>2. bucket[b] \in Seq(Byte \cup {Uninit})
    BY <1>5
  <2> QED BY <1>8, <2>1, <2>2, OverwriteFacts
<1>10. \A c \in Buckets : c # b => bucket'[c] = bucket[c]
  BY <1>3, <1>5
<1>11. bucket' \in [Buckets -> Seq(Byte \cup {Uninit})]
  <2>1. bucket' = [c \in Buckets |-> bucket'[c]]
    BY <1>3, <1>5
  <2>2. \A c \in Buckets : bucket'[c] \in Seq(Byte \cup {Uninit})
    BY <1>5, <1>9, <1>10
  <2> QED BY <2>1, <2>2
<1>12. BktTypeInv'
  BY <1>3, <1>4, <1>11 DEF BktIInv, BktTypeInv, BktTypeOK, serverVars
<1>13. PlaceInv'
  <2>1. Placed' = Ids /\ Placed = Ids
    BY <1>3, <1>4 DEF Placed
  <2> QED BY <1>3, <1>4, <2>1 DEF BktIInv, PlaceInv
<1>14. ASSUME NEW id \in Ids, NEW k \in 1 .. Len(Element(id))
       PROVE  lid[id] * ElementSize + k \in 1 .. Len(bucket[partition[id]])
  <2>1. /\ Len(Element(id)) \in Nat /\ Len(Element(id)) <= ElementSize
        /\ ElementSize \in Nat /\ lid[id] \in Nat
    BY <1>5, ElementFits
  <2>2. id \in Placed /\ partition[id] \in Buckets /\ dataNum[partition[id]] \in Nat
    BY <1>3, <1>5 DEF Placed
  <2>3. lid[id] < dataNum[partition[id]]
    BY <2>2 DEF BktIInv, PlaceInv
  <2>4. k \in 1 .. ElementSize
    BY <2>1
  <2>5. lid[id] * ElementSize + k \in 1 .. ElementSize * dataNum[partition[id]]
    BY <2>1, <2>2, <2>3, <2>4, SlotInside
  <2> QED BY <1>6, <2>2, <2>5
<1>15. ASSUME NEW id \in Ids, id = next \/ id \in InPlace, NEW k \in 1 .. Len(Element(id))
       PROVE  bucket'[partition[id]][lid[id] * ElementSize + k] = Element(id)[k]
  <2>1. PICK a : a = lid[id] * ElementSize + k
    OBVIOUS
  <2>2. a \in 1 .. Len(bucket[partition[id]]) /\ partition[id] \in Buckets
    BY <1>5, <1>14, <2>1
  <2>3. CASE id = next
    <3>1. partition[id] = b /\ a - at = k
      <4>1. a = at + k
        BY <1>2, <2>1, <2>3
      <4> QED BY <1>1, <1>8, <2>3, <4>1
    <3>2. a \in 1 .. Len(bucket[b]) /\ a - at \in 1 .. Len(Element(next))
      BY <1>15, <2>2, <2>3, <3>1
    <3> QED BY <1>9, <2>1, <2>3, <3>1, <3>2
  <2>4. CASE id \in InPlace
    <3>1. bucket[partition[id]][a] = Element(id)[k]
      BY <1>6, <1>15, <2>1, <2>4 DEF IsAt
    <3>2. CASE partition[id] = b
      <4>1. ~ (a - at \in 1 .. Len(Element(next)))
        <5>1. pc = "write" /\ partition[id] = partition[next]
          BY <1>1, <1>3, <3>2
        <5> QED BY <1>2, <2>1, <2>4, <5>1, OtherSlot
      <4>2. bucket'[b][a] = bucket[b][a]
        BY <1>9, <2>2, <3>2, <4>1
      <4> QED BY <2>1, <3>1, <3>2, <4>2
    <3>3. CASE partition[id] # b
      BY <1>10, <2>1, <2>2, <3>1, <3>3
    <3> QED BY <3>2, <3>3
  <2> QED BY <1>15, <2>3, <2>4
<1>16. WriteInv'
  <2>1. \A c \in Buckets : Len(bucket'[c]) = ElementSize * dataNum[c]
    BY <1>1, <1>6, <1>9, <1>10
  <2>2. \A id \in InPlace' : id \in Ids /\ (id = next \/ id \in InPlace)
    <3>1. \A id \in Ids : pc' = "saved" => id < next \/ id = next
      BY <1>4, <1>5 DEF Ids
    <3>2. \A id \in Ids : id < next + 1 => id < next \/ id = next
      BY <1>5 DEF Ids
    <3> QED BY <1>3, <1>4, <3>1, <3>2 DEF InPlace
  <2>3. ASSUME NEW id \in InPlace', NEW k \in 1 .. Len(Element(id))
        PROVE  bucket'[partition[id]][lid[id] * ElementSize + k] = Element(id)[k]
    BY <1>15, <2>2, <2>3
  <2> QED BY <1>3, <1>7, <2>1, <2>3 DEF WriteInv, IsAt
<1>17. ServerInv'
  BY <1>3, NobodyLoads
<1> QED BY <1>12, <1>13, <1>16, <1>17 DEF BktIInv

-----------------------------------------------------------------------------
(* The servers *)

(* A server copies its whole bucket, which nobody writes any more. *)
LEMMA LoadBucketIInv ==
  ASSUME BktIInv, NEW s \in Buckets, LoadBucket(s)
  PROVE  BktIInv'
<1>1. /\ pc = "saved" /\ server[s] = "load"
      /\ UNCHANGED buildVars /\ UNCHANGED <<item, named>>
  BY DEF LoadBucket
<1>2. /\ server' = [server EXCEPT ![s] = server'[s]] /\ server'[s] \in {"loaded", "error"}
      /\ server'[s] = "loaded" => kvstore' = [kvstore EXCEPT ![s] = bucket[s]]
      /\ server'[s] = "error" => kvstore' = kvstore
  BY BktTypes DEF LoadBucket, BktIInv
<1>3. /\ UNCHANGED <<graph, pc, next, partition, lid, dataNum, bucket>>
      /\ item' = item /\ named' = named
  BY <1>1 DEF buildVars
<1>4. /\ server \in [Buckets -> {"load", "loaded", "search", "error"}]
      /\ kvstore \in [Buckets -> Seq(Byte \cup {Uninit})]
      /\ bucket \in [Buckets -> Seq(Byte \cup {Uninit})]
  BY BktTypes DEF BktIInv
<1>5. /\ kvstore' \in [Buckets -> Seq(Byte \cup {Uninit})]
      /\ server' \in [Buckets -> {"load", "loaded", "search", "error"}]
      /\ \A t \in Buckets : t # s => server'[t] = server[t] /\ kvstore'[t] = kvstore[t]
      /\ server'[s] = "loaded" => kvstore'[s] = bucket[s]
  BY <1>2, <1>4
<1>6. BktTypeInv'
  BY <1>3, <1>5 DEF BktIInv, BktTypeInv, BktTypeOK
<1>7. PlaceInv' /\ WriteInv'
  <2>1. PlaceInv'
    BY <1>3 DEF BktIInv, PlaceInv, Placed
  <2>2. InPlace' = InPlace /\ ElementSize' = ElementSize /\ \A id : Element(id)' = Element(id)
    BY <1>3, LayoutSame DEF InPlace
  <2> QED BY <1>3, <2>1, <2>2 DEF BktIInv, WriteInv, IsAt
<1>8. ServerInv'
  <2>1. ASSUME NEW t \in Buckets, server[t] = "search"
        PROVE  FALSE
    <3>1. Loaded(s)
      BY <2>1 DEF BktIInv, ServerInv, AllLoaded
    <3> QED BY <1>1, <3>1 DEF Loaded
  <2>2. ASSUME NEW t \in Buckets
        PROVE  /\ pc' = "saved" /\ server'[t] # "search"
               /\ server'[t] \in {"loaded", "search"} => kvstore'[t] = bucket'[t]
    <3>1. CASE t = s
      BY <1>1, <1>2, <1>3, <1>5, <3>1
    <3>2. CASE t # s
      <4>1. server'[t] = server[t] /\ kvstore'[t] = kvstore[t]
        BY <1>5, <3>2
      <4>2. server[t] \in {"loaded", "search"} => kvstore[t] = bucket[t]
        BY DEF BktIInv, ServerInv, Loaded
      <4> QED BY <1>1, <1>3, <2>1, <4>1, <4>2
    <3> QED BY <3>1, <3>2
  <2> QED BY <2>2 DEF ServerInv, Loaded
<1> QED BY <1>6, <1>7, <1>8 DEF BktIInv

(* A search that moves to the place of a vertex. *)
LEMMA MoveIInv ==
  ASSUME BktIInv, NEW s \in Buckets, NEW id \in Ids, AllLoaded(s),
         server' = [server EXCEPT ![s] = "search"],
         item' = [item EXCEPT ![s] = <<partition[id], lid[id]>>],
         named' = [named EXCEPT ![s] = id],
         UNCHANGED buildVars, UNCHANGED kvstore
  PROVE  BktIInv'
<1>1. /\ UNCHANGED <<graph, pc, next, partition, lid, dataNum, bucket>>
      /\ kvstore' = kvstore
  BY DEF buildVars
<1>2. /\ server \in [Buckets -> {"load", "loaded", "search", "error"}]
      /\ item \in [Buckets -> Buckets \X Nat] /\ named \in [Buckets -> Ids]
      /\ partition[id] \in Buckets /\ lid[id] \in Nat
  BY BktTypes, ElementFits DEF BktIInv, LayoutInv
<1>3. /\ server' \in [Buckets -> {"load", "loaded", "search", "error"}]
      /\ item' \in [Buckets -> Buckets \X Nat] /\ named' \in [Buckets -> Ids]
      /\ server'[s] = "search" /\ named'[s] = id
      /\ item'[s] = <<partition[id], lid[id]>>
      /\ \A t \in Buckets : t # s => /\ server'[t] = server[t] /\ item'[t] = item[t]
                                     /\ named'[t] = named[t]
  BY <1>2
<1>4. BktTypeInv'
  <2>1. BktTypeOK'
    <3>1. BktTypeOK
      BY DEF BktIInv, BktTypeInv
    <3>2. /\ graph' \in [Ids -> Seq(Ids)] /\ pc' \in {"partition", "place", "write", "saved"}
          /\ next' \in 0 .. BaseNum /\ partition' \in [Ids -> Buckets]
          /\ lid' \in [Ids -> 0 .. BaseNum - 1] /\ dataNum' \in [Buckets -> 0 .. BaseNum]
          /\ \A b \in Buckets : bucket'[b] \in Seq(Byte \cup {Uninit})
          /\ \A t \in Buckets : kvstore'[t] \in Seq(Byte \cup {Uninit})
      BY <1>1, <3>1 DEF BktTypeOK
    <3> QED BY <1>3, <3>2, Zenon DEF BktTypeOK
  <2> QED BY <1>1, <2>1 DEF BktIInv, BktTypeInv
<1>5. PlaceInv' /\ WriteInv'
  <2>1. PlaceInv'
    BY <1>1 DEF BktIInv, PlaceInv, Placed
  <2>2. InPlace' = InPlace /\ ElementSize' = ElementSize /\ \A j : Element(j)' = Element(j)
    BY <1>1, LayoutSame DEF InPlace
  <2> QED BY <1>1, <2>1, <2>2 DEF BktIInv, WriteInv, IsAt
<1>6. \A t \in Buckets : server[t] \in {"loaded", "search"} /\ kvstore[t] = bucket[t]
  BY DEF AllLoaded, Loaded, BktIInv, ServerInv
<1>7. ServerInv'
  <2>1. \A t \in Buckets : server'[t] \in {"loaded", "search"}
    BY <1>3, <1>6
  <2>2. pc = "saved"
    BY <1>6 DEF BktIInv, ServerInv
  <2>3. ASSUME NEW t \in Buckets, server'[t] = "search"
        PROVE  item'[t] = <<partition'[named'[t]], lid'[named'[t]]>>
    <3>1. CASE t = s
      BY <1>1, <1>3, <3>1
    <3>2. CASE t # s
      BY <1>1, <1>3, <2>3, <3>2 DEF BktIInv, ServerInv
    <3> QED BY <3>1, <3>2
  <2> QED BY <1>1, <1>6, <2>1, <2>2, <2>3 DEF ServerInv, Loaded, AllLoaded
<1> QED BY <1>4, <1>5, <1>7 DEF BktIInv

(* What a search reads of the vertex it was told of is what was written. *)
LEMMA ReadsElement ==
  ASSUME BktIInv, NEW s \in Searching
  PROVE  /\ named[s] \in Ids
         /\ \A a \in 0 .. Len(Element(named[s])) - 1 :
              ByteAt(item[s], a) = Element(named[s])[a + 1]
<1>1. s \in Buckets /\ server[s] = "search"
  BY DEF Searching
<1>2. PICK id \in Ids : id = named[s]
  BY <1>1, BktTypes DEF BktIInv
<1>3. /\ AllLoaded(s) /\ item[s] = <<partition[id], lid[id]>> /\ pc = "saved"
  BY <1>1, <1>2 DEF BktIInv, ServerInv
<1>4. PICK b \in Buckets : b = partition[id]
  BY BktTypes DEF BktIInv, LayoutInv
<1>5. kvstore[b] = bucket[b]
  BY <1>3 DEF AllLoaded, BktIInv, ServerInv
<1>6. /\ Len(Element(id)) \in Nat /\ Len(Element(id)) <= ElementSize
      /\ ElementSize \in Nat /\ lid[id] \in Nat
  BY ElementFits, BktTypes DEF BktIInv
<1>7. id \in Placed /\ id \in InPlace
  BY <1>3 DEF Placed, InPlace
<1>8. lid[id] < dataNum[b] /\ dataNum[b] \in Nat
  BY <1>4, <1>7, BktTypes DEF BktIInv, PlaceInv
<1>9. /\ bucket[b] \in Seq(Byte \cup {Uninit}) /\ Len(bucket[b]) = ElementSize * dataNum[b]
      /\ IsAt(bucket[b], id)
  BY <1>3, <1>4, <1>7, BktTypes DEF BktIInv, WriteInv
<1>10. ASSUME NEW a \in 0 .. Len(Element(id)) - 1
       PROVE  ByteAt(item[s], a) = Element(id)[a + 1]
  <2>1. a + 1 \in 1 .. Len(Element(id)) /\ a + 1 \in 1 .. ElementSize /\ a \in Int
    BY <1>6
  <2>2. PICK x : x = lid[id] * ElementSize + (a + 1)
    OBVIOUS
  <2>3. x \in 1 .. ElementSize * dataNum[b] /\ lid[id] * ElementSize \in Nat
    BY <1>6, <1>8, <2>1, <2>2, SlotInside
  <2>4. lid[id] * ElementSize + a + 1 = x
    BY <2>1, <2>2, <2>3
  <2>5. x \in DOMAIN kvstore[b]
    BY <1>5, <1>9, <2>3
  <2>6. bucket[b][x] = Element(id)[a + 1]
    BY <1>9, <2>1, <2>2 DEF IsAt
  <2>7. item[s][1] = b /\ item[s][2] = lid[id]
    BY <1>3, <1>4
  <2> QED BY <1>5, <2>4, <2>5, <2>6, <2>7 DEF ByteAt
<1> QED BY <1>2, <1>10

(* A number of an element, as the searches read it. *)
LEMMA ReadsNumber ==
  ASSUME NEW i, NEW at \in Nat, NEW v, IsUnsigned(v),
         \A k \in 1 .. 4 : ByteAt(i, at + k - 1) = Encode(v)[k]
  PROVE  ReadNumber(i, at) = v
<1>1. /\ at + 1 - 1 = at /\ at + 2 - 1 = at + 1 /\ at + 3 - 1 = at + 2 /\ at + 4 - 1 = at + 3
      /\ 1 \in 1 .. 4 /\ 2 \in 1 .. 4 /\ 3 \in 1 .. 4 /\ 4 \in 1 .. 4
  OBVIOUS
<1>2. /\ ByteAt(i, at + 1 - 1) = Encode(v)[1] /\ ByteAt(i, at + 2 - 1) = Encode(v)[2]
      /\ ByteAt(i, at + 3 - 1) = Encode(v)[3] /\ ByteAt(i, at + 4 - 1) = Encode(v)[4]
  BY <1>1
<1> QED BY <1>1, <1>2, EncodeFacts DEF ReadNumber

(* The label, the row and the list that a search reads. *)
LEMMA ReadsVertex ==
  ASSUME BktIInv, NEW s \in Searching
  PROVE  /\ named[s] \in Ids
         /\ LabelOf(item[s]) = named[s]
         /\ RowOf(item[s]) = Row[named[s]]
         /\ DegreeOf(item[s]) = Len(graph[named[s]])
         /\ \A m \in 0 .. Len(graph[named[s]]) - 1 :
              LET n == graph[named[s]][m + 1]
              IN  /\ NeighborAt(item[s], m) = [vid |-> n, item |-> <<partition[n], lid[n]>>]
                  /\ n \in Ids
<1>1. PICK id \in Ids : id = named[s]
  BY ReadsElement
<1>2. PICK e \in Seq(Byte) : e = Element(id)
  BY ElementFacts, BktTypes DEF BktIInv
<1>3. PICK i : i = item[s]
  OBVIOUS
<1>4. PICK d \in Nat : d = Len(graph[id])
  BY DegreeBound DEF BktIInv, BktTypeInv
<1>5. /\ Len(e) = DataBytes + 8 + 9 * d
      /\ \A k \in 1 .. DataBytes : e[k] = Row[id][k]
      /\ \A k \in 1 .. 4 : e[DataBytes + k] = Encode(id)[k]
      /\ \A k \in 1 .. 4 : e[DataBytes + 4 + k] = Encode(d)[k]
      /\ \A k \in 1 .. 9 * d : e[DataBytes + 8 + k] = NeighborList(id)[k]
  BY <1>2, <1>4, ElementFacts, BktTypes DEF BktIInv
<1>6. DataBytes \in Nat /\ IsUnsigned(id) /\ IsUnsigned(d)
  BY <1>4, IdsUnsigned, LayoutFacts, DegreeBound DEF BktIInv, BktTypeInv
<1>7. \A a \in 0 .. DataBytes + 8 + 9 * d - 1 : ByteAt(i, a) = e[a + 1]
  <2> SUFFICES ASSUME NEW a \in 0 .. DataBytes + 8 + 9 * d - 1
               PROVE  ByteAt(i, a) = e[a + 1]
    OBVIOUS
  <2>0. Len(e) = DataBytes + 8 + 9 * d
    BY <1>5, Zenon
  <2>1. a \in 0 .. Len(e) - 1
    <3>1. PICK l \in Nat : l = Len(e)
      BY <2>0, <1>6
    <3>2. a \in 0 .. l - 1
      BY <2>0, <3>1, <1>6
    <3> QED BY <3>1, <3>2, Zenon
  <2>2. \A c \in 0 .. Len(e) - 1 : ByteAt(i, c) = e[c + 1]
    BY <1>1, <1>2, <1>3, ReadsElement
  <2> QED BY <2>1, <2>2, Zenon
<1>8. LabelOf(i) = id
  <2>1. ASSUME NEW k \in 1 .. 4
        PROVE  ByteAt(i, DataBytes + k - 1) = Encode(id)[k]
    <3>1. /\ DataBytes + k - 1 \in 0 .. DataBytes + 8 + 9 * d - 1
          /\ (DataBytes + k - 1) + 1 = DataBytes + k
      BY <1>6
    <3> QED BY <1>5, <1>7, <3>1
  <2>2. ReadNumber(i, DataBytes) = id
    BY <1>6, <2>1, ReadsNumber, Zenon
  <2> QED BY <2>2, LayoutFacts DEF LabelOf
<1>9. DegreeOf(i) = d
  <2>1. ASSUME NEW k \in 1 .. 4
        PROVE  ByteAt(i, (DataBytes + 4) + k - 1) = Encode(d)[k]
    <3>1. /\ (DataBytes + 4) + k - 1 \in 0 .. DataBytes + 8 + 9 * d - 1
          /\ ((DataBytes + 4) + k - 1) + 1 = DataBytes + 4 + k
      BY <1>6
    <3> QED BY <1>5, <1>7, <3>1
  <2>2. DataBytes + 4 \in Nat
    BY <1>6
  <2>3. ReadNumber(i, DataBytes + 4) = d
    BY <1>6, <2>1, <2>2, ReadsNumber, Zenon
  <2> QED BY <2>3, LayoutFacts DEF DegreeOf
<1>10. RowOf(i) = Row[id]
  <2>1. Row[id] \in [1 .. DataBytes -> Byte]
    BY LayoutFacts
  <2>2. ASSUME NEW k \in 1 .. DataBytes
        PROVE  ByteAt(i, k - 1) = Row[id][k]
    <3>1. k - 1 \in 0 .. DataBytes + 8 + 9 * d - 1 /\ (k - 1) + 1 = k
      BY <1>6
    <3> QED BY <1>5, <1>7, <3>1
  <2> QED BY <2>1, <2>2 DEF RowOf
<1>11. ASSUME NEW m \in 0 .. d - 1
       PROVE  /\ NeighborAt(i, m) = [vid |-> graph[id][m + 1],
                                     item |-> <<partition[graph[id][m + 1]],
                                                lid[graph[id][m + 1]]>>]
              /\ graph[id][m + 1] \in Ids
  <2>1. graph[id][m + 1] \in Ids
    <3>1. graph[id] \in Seq(Ids)
      BY DegreeBound DEF BktIInv, BktTypeInv
    <3> QED BY <1>4, <3>1
  <2>2. PICK n \in Ids : n = graph[id][m + 1]
    BY <2>1
  <2>3. PICK at \in Nat : at = DataBytes + 8 + 9 * m
    BY <1>6
  <2>4. \A k \in 1 .. 9 : e[at + k] = NeighborEntry(n)[k] /\ ByteAt(i, at + k - 1) = e[at + k]
    <3> SUFFICES ASSUME NEW k \in 1 .. 9
                 PROVE  e[at + k] = NeighborEntry(n)[k] /\ ByteAt(i, at + k - 1) = e[at + k]
      OBVIOUS
    <3>1. 9 * m + k \in 1 .. 9 * d /\ at + k = DataBytes + 8 + (9 * m + k)
      BY <1>6, <2>3
    <3>2. NeighborList(id)[9 * m + k] = NeighborEntry(n)[k]
      BY <1>4, <2>2, ListFacts, BktTypes DEF BktIInv
    <3>3. at + k - 1 \in 0 .. DataBytes + 8 + 9 * d - 1 /\ (at + k - 1) + 1 = at + k
      BY <1>6, <3>1
    <3> QED BY <1>5, <1>7, <3>1, <3>2, <3>3
  <2>5. /\ \A k \in 1 .. 4 : /\ NeighborEntry(n)[k] = Encode(n)[k]
                             /\ NeighborEntry(n)[k + 5] = Encode(lid[n])[k]
        /\ NeighborEntry(n)[5] = partition[n]
        /\ IsUnsigned(lid[n]) /\ IsUnsigned(n)
    BY EntryFacts, IdsUnsigned, BktTypes DEF BktIInv, LayoutInv
  <2>6. at \in Nat /\ at + 5 \in Nat /\ IsUnsigned(n) /\ IsUnsigned(lid[n])
    BY <2>5
  <2>7. ReadNumber(i, at) = n
    <3>1. ASSUME NEW k \in 1 .. 4
          PROVE  ByteAt(i, at + k - 1) = Encode(n)[k]
      <4>1. k \in 1 .. 9
        OBVIOUS
      <4> QED BY <2>4, <2>5, <4>1
    <3> QED BY <2>6, <3>1, ReadsNumber, Zenon
  <2>8. ByteAt(i, at + 4) = partition[n]
    <3>1. 5 \in 1 .. 9 /\ at + 5 - 1 = at + 4
      OBVIOUS
    <3> QED BY <2>4, <2>5, <3>1
  <2>9. ReadNumber(i, at + 5) = lid[n]
    <3>1. ASSUME NEW k \in 1 .. 4
          PROVE  ByteAt(i, (at + 5) + k - 1) = Encode(lid[n])[k]
      <4>1. k + 5 \in 1 .. 9 /\ at + (k + 5) - 1 = (at + 5) + k - 1
        OBVIOUS
      <4> QED BY <2>4, <2>5, <4>1
    <3> QED BY <2>6, <3>1, ReadsNumber, Zenon
  <2>10. NeighborAt(i, m) = [vid |-> ReadNumber(i, at),
                             item |-> <<ByteAt(i, at + 4), ReadNumber(i, at + 5)>>]
    <3>1. ListOffset + m * EntryBytes = at
      BY <2>3, LayoutFacts
    <3>2. at + 4 + 1 = at + 5
      OBVIOUS
    <3> QED BY <3>1, <3>2 DEF NeighborAt, VidBytes, SidBytes
  <2> QED BY <2>2, <2>7, <2>8, <2>9, <2>10
<1> QED BY <1>1, <1>3, <1>4, <1>8, <1>9, <1>10, <1>11

-----------------------------------------------------------------------------
(* Every step of the bucket index *)

(* A step of a search goes to the place of a neighbor, which the entry holds. *)
LEMMA WalkIInv ==
  ASSUME BktIInv, NEW s \in Buckets, Walk(s)
  PROVE  BktIInv'
<1>1. PICK m \in 0 .. DegreeOf(item[s]) - 1 :
        /\ item' = [item EXCEPT ![s] = NeighborAt(item[s], m).item]
        /\ named' = [named EXCEPT ![s] = NeighborAt(item[s], m).vid]
  BY DEF Walk
<1>2. server[s] = "search" /\ UNCHANGED buildVars /\ UNCHANGED <<kvstore, server>>
  BY DEF Walk
<1>3. s \in Searching
  BY <1>2 DEF Searching
<1>4. m \in 0 .. Len(graph[named[s]]) - 1
  BY <1>1, <1>3, ReadsVertex
<1>5. PICK n \in Ids : NeighborAt(item[s], m) = [vid |-> n, item |-> <<partition[n], lid[n]>>]
  BY <1>3, <1>4, ReadsVertex
<1>6. NeighborAt(item[s], m).vid = n /\ NeighborAt(item[s], m).item = <<partition[n], lid[n]>>
  BY <1>5
<1>7. AllLoaded(s)
  BY <1>2 DEF BktIInv, ServerInv
<1>8. server' = [server EXCEPT ![s] = "search"] /\ UNCHANGED kvstore
  BY <1>2, BktTypes DEF BktIInv
<1>9. /\ item' = [item EXCEPT ![s] = <<partition[n], lid[n]>>]
      /\ named' = [named EXCEPT ![s] = n]
  BY <1>1, <1>6
<1> QED BY <1>2, <1>7, <1>8, <1>9, MoveIInv

(* A search starts at the place of a vertex. *)
LEMMA StartSearchIInv ==
  ASSUME BktIInv, NEW s \in Buckets, StartSearch(s)
  PROVE  BktIInv'
<1>1. PICK id \in Ids : /\ item' = [item EXCEPT ![s] = <<partition[id], lid[id]>>]
                        /\ named' = [named EXCEPT ![s] = id]
  BY DEF StartSearch
<1>2. /\ AllLoaded(s) /\ server' = [server EXCEPT ![s] = "search"]
      /\ UNCHANGED buildVars /\ UNCHANGED kvstore
  BY DEF StartSearch
<1> QED BY <1>1, <1>2, MoveIInv

(* A step of something else changes nothing here. *)
LEMMA BktStutterIInv ==
  ASSUME BktIInv, UNCHANGED bktVars
  PROVE  BktIInv'
<1>1. /\ UNCHANGED <<graph, pc, next, partition, lid, dataNum, bucket>>
      /\ UNCHANGED <<kvstore, server, item, named>>
  BY DEF bktVars, buildVars, serverVars
<1>2. BktTypeInv' /\ PlaceInv'
  BY <1>1 DEF BktIInv, BktTypeInv, BktTypeOK, PlaceInv, Placed
<1>3. InPlace' = InPlace /\ ElementSize' = ElementSize /\ \A j : Element(j)' = Element(j)
  BY <1>1, LayoutSame DEF InPlace
<1>4. WriteInv'
  BY <1>1, <1>3 DEF BktIInv, WriteInv, IsAt
<1>5. ServerInv'
  BY <1>1 DEF BktIInv, ServerInv, Loaded, AllLoaded
<1> QED BY <1>2, <1>4, <1>5 DEF BktIInv

(* The index on the servers is the one that was placed and written, whatever  *)
(* the partition: no two vertices share a place, every element is where its   *)
(* address says, and a search is where it was told to be.                     *)
THEOREM BktInvariant == BktSpec => []BktIInv
<1>1. BktIInv /\ [BktNext]_bktVars => BktIInv'
  <2> SUFFICES ASSUME BktIInv, [BktNext]_bktVars PROVE BktIInv'
    OBVIOUS
  <2>1. CASE Partition
    BY <2>1, PartitionIInv
  <2>2. CASE Place
    BY <2>2, PlaceIInv
  <2>3. CASE WriteElement
    BY <2>3, WriteElementIInv
  <2>4. ASSUME NEW s \in Buckets, LoadBucket(s) PROVE BktIInv'
    BY <2>4, LoadBucketIInv
  <2>5. ASSUME NEW s \in Buckets, StartSearch(s) PROVE BktIInv'
    BY <2>5, StartSearchIInv
  <2>6. ASSUME NEW s \in Buckets, Walk(s) PROVE BktIInv'
    BY <2>6, WalkIInv
  <2>7. CASE UNCHANGED bktVars
    BY <2>7, BktStutterIInv
  <2> QED BY <2>1, <2>2, <2>3, <2>4, <2>5, <2>6, <2>7 DEF BktNext
<1> QED BY <1>1, BktInitIInv, PTL DEF BktSpec

(* Wherever a search of search_base_index_distributed gets to, label and row  *)
(* at the item are those of the id under which it came there: the entries of  *)
(* the neighbor lists, .partition and .lid agree with the address arithmetic  *)
(* on every server, for every graph, partition and dimension.                 *)
THEOREM ReachesNamedVertex == BktSpec => []WalkReachesNamedVertex
<1>1. BktIInv => WalkReachesNamedVertex
  <2> SUFFICES ASSUME BktIInv PROVE WalkReachesNamedVertex
    OBVIOUS
  <2>1. BktTypeOK
    BY DEF BktIInv, BktTypeInv
  <2> QED BY <2>1, ReadsVertex DEF WalkReachesNamedVertex
<1> QED BY <1>1, BktInvariant, PTL

(* The neighbors that a search reads out of the bytes of an element are those *)
(* generate_base_index_on_buckets found in the graph, in their order.         *)
THEOREM FollowsGraph == BktSpec => []WalkFollowsGraph
<1>1. BktIInv => WalkFollowsGraph
  <2> SUFFICES ASSUME BktIInv, NEW s \in Searching
               PROVE  [m \in 1 .. DegreeOf(item[s]) |-> NeighborAt(item[s], m - 1).vid]
                        = graph[named[s]]
    BY DEF WalkFollowsGraph
  <2>1. PICK q \in Seq(Ids) : q = graph[named[s]]
    BY ReadsVertex, DegreeBound DEF BktIInv, BktTypeInv
  <2>2. DegreeOf(item[s]) = Len(q)
    BY <2>1, ReadsVertex
  <2>3. ASSUME NEW m \in 1 .. Len(q)
        PROVE  NeighborAt(item[s], m - 1).vid = q[m]
    <3>1. m - 1 \in 0 .. Len(q) - 1 /\ (m - 1) + 1 = m
      OBVIOUS
    <3>2. NeighborAt(item[s], m - 1) = [vid |-> q[m], item |-> <<partition[q[m]], lid[q[m]]>>]
      BY <2>1, <3>1, ReadsVertex
    <3> QED BY <3>2
  <2>4. q = [m \in 1 .. Len(q) |-> q[m]]
    OBVIOUS
  <2> QED BY <2>1, <2>2, <2>3, <2>4
<1> QED BY <1>1, BktInvariant, PTL
=============================================================================
