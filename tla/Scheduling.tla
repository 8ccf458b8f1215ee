----------------------------- MODULE Scheduling -----------------------------
(***************************************************************************)
(* The dynamic scheduling protocol of tests/test_search_distributed.cpp    *)
(* (test_search_distributed_with_dynamic_scheduling, lines 228-735).       *)
(*                                                                         *)
(* Every rank of the MPI world runs T engine threads, one proxy thread and *)
(* its main thread.  An engine thread first distributes queries: it takes  *)
(* the next query id from a counter in the registered memory of rank 0 (an *)
(* RDMA fetch-and-add) and sends the query to the proxy of some rank.  It  *)
(* then executes queries: it asks its own proxy for work until that proxy  *)
(* reports an empty queue, and after that steals from the other proxies    *)
(* round robin.  A thread gives a proxy up at the first "fail" it receives *)
(* from it and stops when it has given up all of them.                     *)
(*                                                                         *)
(* The communication layer is MPI: a message is delivered once, and two    *)
(* messages sent by the same thread to the same rank with the same tag are *)
(* matched in the order they were sent.  Nothing orders the messages of    *)
(* different threads, so a channel belongs to one sending thread.  On the  *)
(* receiving side a reply is addressed to a RANK: any thread of the rank   *)
(* that waits for that proxy may take it, whoever asked.                   *)
(***************************************************************************)
EXTENDS Integers, Sequences, FiniteSets

CONSTANTS
  NumServers,   \* Global::num_servers, the size of the MPI world
  Threads,      \* the engine threads of one rank (argument T)
  QueryNum,     \* query_num, read from the query file
  Strategy      \* sche_strategy: 1 random, 2 IVF, 3 learn graph

ASSUME ConstantsAssumption ==
  /\ NumServers \in Nat \ {0}
  /\ QueryNum \in Nat
  /\ Strategy \in {1, 2, 3}

ASSUME ThreadsAssumption == IsFiniteSet(Threads) /\ Threads # {}

Servers == 0 .. NumServers - 1
Master  == 0
Queries == 0 .. QueryNum - 1
Engines == Servers \X Threads

NoQuery == -1

(***************************************************************************)
(* Messages to a proxy (tag "proxy") and replies to an engine (tag         *)
(* "engine").  The reorder message exists in the code, where the only call *)
(* that sends it is commented out (line 610), so no channel holds one.     *)
(***************************************************************************)
ProxyMsg ==
  [type : {"enqueue"}, query : Queries]
    \cup [type : {"dequeue_high_affinity", "dequeue_low_affinity"},
          query : {NoQuery}]

Reply ==
  [type : {"dequeue_succ"}, query : Queries]
    \cup [type : {"dequeue_fail"}, query : {NoQuery}]

Enqueue(q) == [type |-> "enqueue", query |-> q]
Dequeue(s, d) ==
  [type  |-> IF d = s THEN "dequeue_high_affinity" ELSE "dequeue_low_affinity",
   query |-> NoQuery]

VARIABLES
  counter,    \* the 64-bit word at ring_offset(0, 0) of the master's memory
  pc,         \* where an engine thread is
  held,       \* the query an engine thread holds: to dispatch, or to search
  hasQuery,   \* has_query of an engine thread
  nsvr,       \* nsvr_has_query of an engine thread
  dsid,       \* dsid of an engine thread
  toProxy,    \* toProxy[e][d]: messages of thread e to the proxy of rank d
  replies,    \* replies[d][s]: messages of the proxy of d to the threads of s
  taskQueue,  \* the circular buffer of a proxy
  proxy,      \* is the proxy thread of a rank running?
  main,       \* where the main thread of a rank is
  answered,   \* how often the row res[q] of a query was written, by any rank
  runCount,   \* run_query_num of a rank
  result,     \* result[s]: the ResultMsg of rank s, in flight to the master
  collected,  \* the ranks whose ResultMsg the master has received
  total       \* query_count of the master, summed over the results received

engineVars  == <<pc, held, hasQuery, nsvr, dsid>>
channelVars == <<toProxy, replies>>
searchVars  == <<answered, runCount>>
mainVars    == <<main, result, collected, total>>
vars == <<counter, engineVars, channelVars, taskQueue, proxy, searchVars, mainVars>>

EnginePC == {"fetch", "dispatch", "pick", "wait", "search", "done"}
MainPC   == {"join", "finished", "gather", "reported", "stop", "exit"}

TypeOK ==
  /\ counter \in Nat
  /\ pc \in [Engines -> EnginePC]
  /\ held \in [Engines -> Queries \cup {NoQuery}]
  /\ hasQuery \in [Engines -> [Servers -> BOOLEAN]]
  /\ nsvr \in [Engines -> Int]
  /\ dsid \in [Engines -> Servers]
  /\ toProxy \in [Engines -> [Servers -> Seq(ProxyMsg)]]
  /\ replies \in [Servers -> [Servers -> Seq(Reply)]]
  /\ taskQueue \in [Servers -> Seq(Queries)]
  /\ proxy \in [Servers -> {"running", "stopped"}]
  /\ main \in [Servers -> MainPC]
  /\ answered \in [Queries -> Nat]
  /\ runCount \in [Servers -> Nat]
  /\ result \in [Servers -> Nat \cup {-1}]
  /\ collected \in SUBSET Servers
  /\ total \in Nat

(* Fault: the count of the commented-out line 613. *)
OneServer == 1

(* nsvr_has_query starts at Global::num_servers (line 614). *)
InitialNsvr == NumServers

Init ==
  /\ counter = 0
  /\ pc = [e \in Engines |-> "fetch"]
  /\ held = [e \in Engines |-> NoQuery]
  /\ hasQuery = [e \in Engines |-> [d \in Servers |-> TRUE]]
  /\ nsvr = [e \in Engines |-> InitialNsvr]
  /\ dsid = [e \in Engines |-> 0]
  /\ toProxy = [e \in Engines |-> [d \in Servers |-> << >>]]
  /\ replies = [d \in Servers |-> [s \in Servers |-> << >>]]
  /\ taskQueue = [d \in Servers |-> << >>]
  /\ proxy = [d \in Servers |-> "running"]
  /\ main = [s \in Servers |-> "join"]
  /\ answered = [q \in Queries |-> 0]
  /\ runCount = [s \in Servers |-> 0]
  /\ result = [s \in Servers |-> -1]
  /\ collected = {}
  /\ total = 0

-----------------------------------------------------------------------------
(* Engine threads *)

IsQuery(id) == id < QueryNum

(* rdma_fetch_add and the test of its result (lines 214-226, 580-606). *)
FetchAdd(e) ==
  /\ pc[e] = "fetch"
  /\ counter' = counter + 1
  /\ IF IsQuery(counter)
       THEN /\ pc' = [pc EXCEPT ![e] = "dispatch"]
            /\ held' = [held EXCEPT ![e] = counter]
       ELSE /\ pc' = [pc EXCEPT ![e] = "pick"]
            /\ UNCHANGED held
  /\ UNCHANGED <<hasQuery, nsvr, dsid, channelVars, taskQueue, proxy, searchVars,
                 mainVars>>

(* The rank a strategy sends a query to: computed from the id by strategy 1,
   the closest coarse cluster or the bucket of the closest learn point, which
   may be any rank, by strategies 2 and 3. *)
Target(q) == IF Strategy = 1 THEN {q % NumServers} ELSE Servers

(* The send of the query to the proxy of should_run_on_node. *)
Dispatch(e) ==
  /\ pc[e] = "dispatch"
  /\ \E d \in Target(held[e]) :
       toProxy' = [toProxy EXCEPT ![e][d] = Append(@, Enqueue(held[e]))]
  /\ held' = [held EXCEPT ![e] = NoQuery]
  /\ pc' = [pc EXCEPT ![e] = "fetch"]
  /\ UNCHANGED <<counter, hasQuery, nsvr, dsid, replies, taskQueue, proxy,
                 searchVars, mainVars>>

Ask(e, d) ==
  /\ toProxy' = [toProxy EXCEPT ![e][d] = Append(@, Dequeue(e[1], d))]
  /\ pc' = [pc EXCEPT ![e] = "wait"]

(* One iteration of the loop of line 616, up to the receive: the own proxy as
   long as it may have queries, the next one after that. *)
AskOwn(e) ==
  /\ pc[e] = "pick"
  /\ nsvr[e] # 0
  /\ hasQuery[e][e[1]]
  /\ dsid' = [dsid EXCEPT ![e] = e[1]]
  /\ Ask(e, e[1])
  /\ UNCHANGED <<counter, held, hasQuery, nsvr, replies, taskQueue, proxy,
                 searchVars, mainVars>>

AskNext(e) ==
  LET d == (dsid[e] + 1) % NumServers IN
  /\ pc[e] = "pick"
  /\ nsvr[e] # 0
  /\ ~ hasQuery[e][e[1]]
  /\ dsid' = [dsid EXCEPT ![e] = d]
  /\ IF hasQuery[e][d] THEN Ask(e, d) ELSE UNCHANGED <<toProxy, pc>>
  /\ UNCHANGED <<counter, held, hasQuery, nsvr, replies, taskQueue, proxy,
                 searchVars, mainVars>>

(* world.recv(dsid, engine): the oldest reply of that proxy to this rank. *)
TakeReply(e) ==
  replies' = [replies EXCEPT ![dsid[e]][e[1]] = Tail(@)]

ReceiveSucc(e) ==
  LET in == replies[dsid[e]][e[1]] IN
  /\ pc[e] = "wait"
  /\ in # << >>
  /\ Head(in).type = "dequeue_succ"
  /\ TakeReply(e)
  /\ held' = [held EXCEPT ![e] = Head(in).query]
  /\ pc' = [pc EXCEPT ![e] = "search"]
  /\ UNCHANGED <<counter, hasQuery, nsvr, dsid, toProxy, taskQueue, proxy,
                 searchVars, mainVars>>

ReceiveFail(e) ==
  LET in == replies[dsid[e]][e[1]] IN
  /\ pc[e] = "wait"
  /\ in # << >>
  /\ Head(in).type = "dequeue_fail"
  /\ TakeReply(e)
  /\ hasQuery' = [hasQuery EXCEPT ![e][dsid[e]] = FALSE]
  /\ nsvr' = [nsvr EXCEPT ![e] = @ - 1]
  /\ pc' = [pc EXCEPT ![e] = "pick"]
  /\ UNCHANGED <<counter, held, dsid, toProxy, taskQueue, proxy, searchVars,
                 mainVars>>

(* search_base_index_distributed and run_query_num++ (lines 639-640). *)
Search(e) ==
  /\ pc[e] = "search"
  /\ answered' = [answered EXCEPT ![held[e]] = @ + 1]
  /\ runCount' = [runCount EXCEPT ![e[1]] = @ + 1]
  /\ held' = [held EXCEPT ![e] = NoQuery]
  /\ pc' = [pc EXCEPT ![e] = "pick"]
  /\ UNCHANGED <<counter, hasQuery, nsvr, dsid, channelVars, taskQueue, proxy,
                 mainVars>>

Finish(e) ==
  /\ pc[e] = "pick"
  /\ nsvr[e] = 0
  /\ pc' = [pc EXCEPT ![e] = "done"]
  /\ UNCHANGED <<counter, held, hasQuery, nsvr, dsid, channelVars, taskQueue,
                 proxy, searchVars, mainVars>>

Engine(e) ==
  \/ FetchAdd(e)
  \/ Dispatch(e)
  \/ AskOwn(e)
  \/ AskNext(e)
  \/ ReceiveSucc(e)
  \/ ReceiveFail(e)
  \/ Search(e)
  \/ Finish(e)

-----------------------------------------------------------------------------
(* The proxy thread of rank d *)

(* Fault: a buffer with room for one query less. *)
PushBackShort(queue, q) ==
  IF Len(queue) < QueryNum - 1 THEN Append(queue, q) ELSE Append(Tail(queue), q)

(* push_back of a boost::circular_buffer of capacity query_num: a full buffer
   loses its oldest element. *)
PushBack(queue, q) ==
  IF Len(queue) < QueryNum THEN Append(queue, q) ELSE Append(Tail(queue), q)

(* world.recv(any_source, proxy): the oldest message of some thread. *)
TakeMsg(d, e) ==
  /\ proxy[d] = "running"
  /\ toProxy[e][d] # << >>
  /\ toProxy' = [toProxy EXCEPT ![e][d] = Tail(@)]

ProxyEnqueue(d, e) ==
  /\ TakeMsg(d, e)
  /\ Head(toProxy[e][d]).type = "enqueue"
  /\ taskQueue' =
       [taskQueue EXCEPT ![d] = PushBack(@, Head(toProxy[e][d]).query)]
  /\ UNCHANGED <<counter, engineVars, replies, proxy, searchVars, mainVars>>

(* Fault: the reply goes to the rank of the proxy, not to the source. *)
SendReplyHome(d, s, type, q) ==
  replies' =
    [replies EXCEPT ![d][d] = Append(@, [type |-> type, query |-> q])]

SendReply(d, s, type, q) ==
  replies' =
    [replies EXCEPT ![d][s] = Append(@, [type |-> type, query |-> q])]

(* A dequeue of the back (high affinity) or of the front (low affinity). *)
ProxyDequeueHigh(d, e) ==
  LET queue == taskQueue[d] IN
  /\ TakeMsg(d, e)
  /\ Head(toProxy[e][d]).type = "dequeue_high_affinity"
  /\ queue # << >>
  /\ SendReply(d, e[1], "dequeue_succ", queue[Len(queue)])
  /\ taskQueue' = [taskQueue EXCEPT ![d] = SubSeq(@, 1, Len(@) - 1)]
  /\ UNCHANGED <<counter, engineVars, proxy, searchVars, mainVars>>

ProxyDequeueLow(d, e) ==
  LET queue == taskQueue[d] IN
  /\ TakeMsg(d, e)
  /\ Head(toProxy[e][d]).type = "dequeue_low_affinity"
  /\ queue # << >>
  /\ SendReply(d, e[1], "dequeue_succ", Head(queue))
  /\ taskQueue' = [taskQueue EXCEPT ![d] = Tail(@)]
  /\ UNCHANGED <<counter, engineVars, proxy, searchVars, mainVars>>

ProxyDequeueFail(d, e) ==
  /\ TakeMsg(d, e)
  /\ Head(toProxy[e][d]).type # "enqueue"
  /\ taskQueue[d] = << >>
  /\ SendReply(d, e[1], "dequeue_fail", NoQuery)
  /\ UNCHANGED <<counter, engineVars, taskQueue, proxy, searchVars, mainVars>>

(* The stop message of the rank's main thread (line 733): another thread sent
   it, so nothing orders it behind the messages of the engine threads. *)
ProxyStop(d) ==
  /\ proxy[d] = "running"
  /\ main[d] = "stop"
  /\ proxy' = [proxy EXCEPT ![d] = "stopped"]
  /\ UNCHANGED <<counter, engineVars, channelVars, taskQueue, searchVars, mainVars>>

Proxy(d) ==
  \/ \E e \in Engines : \/ ProxyEnqueue(d, e)
                        \/ ProxyDequeueHigh(d, e)
                        \/ ProxyDequeueLow(d, e)
                        \/ ProxyDequeueFail(d, e)
  \/ ProxyStop(d)

-----------------------------------------------------------------------------
(* The main thread of rank s *)

(* The join of the engine threads (lines 650-653); the thread then waits at
   the barrier of line 654. *)
Join(s) ==
  /\ main[s] = "join"
  /\ \A t \in Threads : pc[<<s, t>>] = "done"
  /\ main' = [main EXCEPT ![s] = "finished"]
  /\ total' = IF s = Master THEN runCount[s] ELSE total
  /\ UNCHANGED <<counter, engineVars, channelVars, taskQueue, proxy, searchVars,
                 result, collected>>

(* Fault: a rank goes on without waiting for the others. *)
NoBarrier == TRUE

AllJoined == \A r \in Servers : main[r] # "join"

(* The barriers of lines 654 and 688, with nothing shared in between; a worker
   rank then sends its result to the master with its rank as the tag. *)
StartGather(s) ==
  /\ main[s] = "finished"
  /\ AllJoined
  /\ main' = [main EXCEPT ![s] = "gather"]
  /\ result' =
       IF s = Master THEN result ELSE [result EXCEPT ![s] = runCount[s]]
  /\ UNCHANGED <<counter, engineVars, channelVars, taskQueue, proxy, searchVars,
                 collected, total>>

(* irecv(src_sid, any_tag) of the master, rank after rank. *)
GatherReceive(src) ==
  /\ main[Master] = "gather"
  /\ collected = 1 .. src - 1
  /\ result[src] # -1
  /\ total' = total + result[src]
  /\ collected' = collected \cup {src}
  /\ result' = [result EXCEPT ![src] = -1]
  /\ UNCHANGED <<counter, engineVars, channelVars, taskQueue, proxy, searchVars,
                 main>>

(* Fault: the last rank is left out of the gather loop. *)
GatheredAllButLast == collected = Servers \ {Master, NumServers - 1}

GatheredAll == collected = Servers \ {Master}

(* The master has every result; the isend of a worker has completed. *)
EndGather(s) ==
  /\ main[s] = "gather"
  /\ s = Master => GatheredAll
  /\ main' = [main EXCEPT ![s] = "reported"]
  /\ UNCHANGED <<counter, engineVars, channelVars, taskQueue, proxy, searchVars,
                 result, collected, total>>

(* The barrier of line 732 and the stop message to the own proxy. *)
SendStop(s) ==
  /\ main[s] = "reported"
  /\ \A r \in Servers : main[r] \notin {"join", "finished", "gather"}
  /\ main' = [main EXCEPT ![s] = "stop"]
  /\ UNCHANGED <<counter, engineVars, channelVars, taskQueue, proxy, searchVars,
                 result, collected, total>>

JoinProxy(s) ==
  /\ main[s] = "stop"
  /\ proxy[s] = "stopped"
  /\ main' = [main EXCEPT ![s] = "exit"]
  /\ UNCHANGED <<counter, engineVars, channelVars, taskQueue, proxy, searchVars,
                 result, collected, total>>

Main(s) ==
  \/ Join(s)
  \/ StartGather(s)
  \/ \E src \in Servers \ {Master} : s = Master /\ GatherReceive(src)
  \/ EndGather(s)
  \/ SendStop(s)
  \/ JoinProxy(s)

-----------------------------------------------------------------------------
Exited == \A s \in Servers : main[s] = "exit"

(* The process ends when every rank has exited. *)
Terminating == Exited /\ UNCHANGED vars

Next ==
  \/ \E e \in Engines : Engine(e)
  \/ \E d \in Servers : Proxy(d)
  \/ \E s \in Servers : Main(s)
  \/ Terminating

(* Every thread is an operating-system thread that blocks only in a receive,
   a join or a barrier, and MPI delivers every message. *)
Fairness ==
  /\ \A e \in Engines : WF_vars(Engine(e))
  /\ \A d \in Servers : WF_vars(Proxy(d))
  /\ \A s \in Servers : WF_vars(Main(s))

Spec == Init /\ [][Next]_vars

FairSpec == Spec /\ Fairness

-----------------------------------------------------------------------------
(* Properties *)

AllDone == \A e \in Engines : pc[e] = "done"

(* No query is missed (the comment of line 611): when every engine thread has
   given up every proxy, each query has been searched, and searched once, on
   whichever rank; although a thread gives a proxy up at the first "fail", a
   "fail" may be the answer to another thread of the rank, and queries are
   still being enqueued when other ranks have stopped asking.  What the master
   adds up from the results it gathers is then the number of queries. *)
NoQueryMissed ==
  /\ AllDone => \A q \in Queries : answered[q] = 1
  /\ main[Master] \in {"reported", "stop", "exit"} => total = QueryNum

Occurrences(seq, q) == {i \in DOMAIN seq : seq[i] = q}
MsgOccurrences(seq, q) == {i \in DOMAIN seq : seq[i].query = q}

(* The places where a query that was handed out may be. *)
Places(q) ==
  {<<"held", e>> : e \in {f \in Engines : held[f] = q}}
    \cup (UNION {{<<"sent", c, i>> : i \in MsgOccurrences(toProxy[c[1]][c[2]], q)} :
                  c \in Engines \X Servers})
    \cup (UNION {{<<"queued", d, i>> : i \in Occurrences(taskQueue[d], q)} :
                  d \in Servers})
    \cup (UNION {{<<"replied", c, i>> : i \in MsgOccurrences(replies[c[1]][c[2]], q)} :
                  c \in Servers \X Servers})

(* A query that was handed out is in exactly one place until it is searched,
   and in none after that: no channel, queue or thread loses or copies it.
   A full circular buffer, which drops its oldest query, would break this. *)
EveryQueryInOnePlace ==
  \A q \in Queries :
    Cardinality(Places(q)) + answered[q] = IF q < counter THEN 1 ELSE 0

Waiting(s, d) == {t \in Threads : pc[<<s, t>>] = "wait" /\ dsid[<<s, t>>] = d}

Requests(s, d) ==
  UNION {{<<t, i>> : i \in MsgOccurrences(toProxy[<<s, t>>][d], NoQuery)} :
         t \in Threads}

(* Replies are addressed to a rank and not to the thread that asked, yet none
   is left over and no thread waits for one that never comes: the threads of a
   rank that wait for a proxy are as many as the requests and replies between
   the two. *)
RepliesMatchWaiters ==
  \A s, d \in Servers :
    Cardinality(Waiting(s, d)) =
      Cardinality(Requests(s, d)) + Len(replies[d][s])

(* A proxy receives its stop message (line 733) when no message to it or from
   it is in flight and its queue is empty: none is dropped. *)
QuietShutdown ==
  \A d \in Servers :
    main[d] \in {"stop", "exit"} =>
      /\ taskQueue[d] = << >>
      /\ \A e \in Engines : toProxy[e][d] = << >>
      /\ \A s \in Servers : replies[d][s] = << >>

(* The master receives the results with any_tag from one rank at a time (line
   695), and the tag of rank 1 is the value of TagValue::engine.  No message
   of the protocol is in flight that the master could take for a result, and
   no engine thread is waiting that could take the result of rank 1. *)
GatherUnambiguous ==
  /\ main[Master] = "gather" =>
       \A src \in Servers \ {Master} :
         /\ replies[src][Master] = << >>
         /\ \A t \in Threads : toProxy[<<src, t>>][Master] = << >>
  /\ \A src \in Servers \ {Master} :
       result[src] # -1 => Waiting(Master, src) = {}

(* Every rank leaves the function: no thread waits for ever for a reply, at a
   barrier or in a join, and no thread polls the proxies for ever. *)
Termination == <>Exited

(* The scheduler implements the pool of queries. *)
Pool == INSTANCE WorkPool
          WITH handedOut <- IF counter < QueryNum THEN counter ELSE QueryNum,
               answers   <- answered,
               closed    <- AllDone

ImplementsWorkPool == Pool!Spec
=============================================================================
