-------------------------- MODULE SchedulingProofs --------------------------
(* Proofs about the scheduling protocol, for every number of ranks, threads
   and queries and every strategy. *)
EXTENDS Scheduling, SequenceTheorems, FiniteSetTheorems, FunctionTheorems, TLAPS

(* A thread holds a query when it has one to send or to search. *)
HeldInv == \A e \in Engines : pc[e] \in {"dispatch", "search"} <=> held[e] # NoQuery

IInv == TypeOK /\ HeldInv

-----------------------------------------------------------------------------
(* The invariants of the protocol, each about one concern. *)

(* The stages of a query: not handed out, held, sent, queued, replied, searched.
   A stage is where it is, once, and that it is nowhere else. *)
NotIn(seq, q)  == \A i \in DOMAIN seq : seq[i].query # q
OnceIn(seq, q) ==
  \E i \in DOMAIN seq : \A j \in DOMAIN seq : seq[j].query = q <=> j = i

(* The same of a family of channels. *)
NoneOf(F, A, B, q) == \A a \in A, b \in B : NotIn(F[a][b], q)
OneOf(F, A, B, q)  ==
  \E a \in A, b \in B :
    /\ OnceIn(F[a][b], q)
    /\ \A c \in A, d \in B : c # a \/ d # b => NotIn(F[c][d], q)

NotQueued(queue, q)  == \A i \in DOMAIN queue : queue[i] # q
QueuedOnce(queue, q) ==
  \E i \in DOMAIN queue : \A j \in DOMAIN queue : queue[j] = q <=> j = i

Held0(q) == \A e \in Engines : held[e] # q
Held1(q) == \E e \in Engines : \A f \in Engines : held[f] = q <=> f = e
Sent0(q) == NoneOf(toProxy, Engines, Servers, q)
Sent1(q) == OneOf(toProxy, Engines, Servers, q)
Replied0(q) == NoneOf(replies, Servers, Servers, q)
Replied1(q) == OneOf(replies, Servers, Servers, q)
Queued0(q) == \A d \in Servers : NotQueued(taskQueue[d], q)
Queued1(q) ==
  \E d \in Servers : /\ QueuedOnce(taskQueue[d], q)
                     /\ \A c \in Servers \ {d} : NotQueued(taskQueue[c], q)

Stage(q) ==
  \/ answered[q] = 0 /\ q >= counter /\ Held0(q) /\ Sent0(q) /\ Queued0(q) /\ Replied0(q)
  \/ answered[q] = 0 /\ q < counter /\ Held1(q) /\ Sent0(q) /\ Queued0(q) /\ Replied0(q)
  \/ answered[q] = 0 /\ q < counter /\ Held0(q) /\ Sent1(q) /\ Queued0(q) /\ Replied0(q)
  \/ answered[q] = 0 /\ q < counter /\ Held0(q) /\ Sent0(q) /\ Queued1(q) /\ Replied0(q)
  \/ answered[q] = 0 /\ q < counter /\ Held0(q) /\ Sent0(q) /\ Queued0(q) /\ Replied1(q)
  \/ answered[q] = 1 /\ q < counter /\ Held0(q) /\ Sent0(q) /\ Queued0(q) /\ Replied0(q)

StageInv == \A q \in Queries : Stage(q)

(* What a thread knows of the proxies: it distributes before it gives any up,
   counts those it has not given up, and waits for one of these only. *)
Left(e) == {d \in Servers : hasQuery[e][d]}
GivenUp(e) ==
  /\ pc[e] \in {"fetch", "dispatch"} => \A d \in Servers : hasQuery[e][d]
  /\ pc[e] \notin {"fetch", "dispatch"} => counter >= QueryNum
  /\ nsvr[e] = Cardinality(Left(e))
  /\ pc[e] = "wait" => hasQuery[e][dsid[e]]
  /\ pc[e] = "done" => nsvr[e] = 0
GivenUpInv == \A e \in Engines : GivenUp(e)

Asking(e, d) == pc[e] = "wait" /\ dsid[e] = d

(* Behind the queries that a thread sent to a proxy comes a request for one,
   once it waits for the proxy or has given it up. *)
EndsInRequest(seq) == seq # << >> => seq[Len(seq)].type # "enqueue"
Behind(e, d) == Asking(e, d) \/ ~ hasQuery[e][d] => EndsInRequest(toProxy[e][d])
BehindInv == \A e \in Engines, d \in Servers : Behind(e, d)

(* A proxy with a queue is not forgotten: some thread will still ask it, a
   request is under way to it, or a query from it, whose receiver asks again. *)
WillAsk(d)    == \E e \in Engines : hasQuery[e][d] /\ ~ Asking(e, d)
Requested(d)  == \E e \in Engines : ~ NotIn(toProxy[e][d], NoQuery)
Delivering(d) ==
  \E s \in Servers : \E i \in DOMAIN replies[d][s] : replies[d][s][i].type = "dequeue_succ"
Remembered(d) == taskQueue[d] # << >> => WillAsk(d) \/ Requested(d) \/ Delivering(d)
RememberedInv == \A d \in Servers : Remembered(d)

(* RepliesMatchWaiters, with the finiteness that counting needs. *)
Matched(s, d) ==
  /\ IsFiniteSet(Requests(s, d))
  /\ Cardinality(Waiting(s, d)) = Cardinality(Requests(s, d)) + Len(replies[d][s])
MatchedInv == \A s, d \in Servers : Matched(s, d)

(* The stages of the main threads. *)
MainInv ==
  \A s \in Servers :
    /\ main[s] # "join" => \A t \in Threads : pc[<<s, t>>] = "done"
    /\ main[s] \in {"gather", "reported", "stop", "exit"} => AllJoined
    /\ result[s] # -1 => AllJoined /\ result[s] = runCount[s]

(* The searches the ranks of S have counted, one pair for each. *)
Runs(S) == UNION {{s} \X (1 .. runCount[s]) : s \in S}
Searched == {q \in Queries : answered[q] = 1}

CountInv ==
  /\ collected \subseteq Servers \ {Master}
  /\ collected # {} => AllJoined
  /\ IsFiniteSet(Runs(Servers)) /\ Cardinality(Runs(Servers)) = Cardinality(Searched)
  /\ IF main[Master] = "join" THEN collected = {}
     ELSE total = Cardinality(Runs({Master} \cup collected))
  /\ main[Master] \in {"reported", "stop", "exit"} => GatheredAll

SInv ==
  /\ IInv
  /\ StageInv
  /\ GivenUpInv
  /\ BehindInv
  /\ RememberedInv
  /\ MatchedInv
  /\ MainInv
  /\ CountInv

-----------------------------------------------------------------------------
(* The data the messages carry *)

LEMMA ServersFact == 0 \in Servers /\ Servers \subseteq Nat
BY ConstantsAssumption DEF Servers

LEMMA TargetInServers ==
  ASSUME NEW q \in Queries
  PROVE  Target(q) \subseteq Servers
<1>1. q \in Int /\ NumServers \in Nat \ {0}
  BY ConstantsAssumption DEF Queries
<1>2. q % NumServers \in 0 .. NumServers - 1
  BY <1>1
<1> QED BY <1>2 DEF Target, Servers

LEMMA NextServer ==
  ASSUME NEW d \in Servers
  PROVE  (d + 1) % NumServers \in Servers
<1>1. d + 1 \in Int /\ NumServers \in Nat \ {0}
  BY ConstantsAssumption DEF Servers
<1>2. (d + 1) % NumServers \in 0 .. NumServers - 1
  BY <1>1
<1> QED BY <1>2 DEF Servers

LEMMA QueryFacts == Queries \subseteq Nat /\ NoQuery \notin Queries
BY ConstantsAssumption DEF Queries, NoQuery

LEMMA FetchedIsQuery ==
  ASSUME NEW id \in Nat, IsQuery(id)
  PROVE  id \in Queries
BY ConstantsAssumption DEF IsQuery, Queries

LEMMA MessageTypes ==
  /\ \A q \in Queries : Enqueue(q) \in ProxyMsg
  /\ \A s, d \in Servers : Dequeue(s, d) \in ProxyMsg
BY DEF Enqueue, Dequeue, ProxyMsg, NoQuery

LEMMA PushBackType ==
  ASSUME NEW queue \in Seq(Queries), NEW q \in Queries
  PROVE  PushBack(queue, q) \in Seq(Queries)
<1>1. CASE Len(queue) < QueryNum
  BY <1>1 DEF PushBack
<1>2. CASE ~ Len(queue) < QueryNum
  <2>1. Len(queue) # 0
    BY <1>2, ConstantsAssumption DEF Queries
  <2>2. Tail(queue) \in Seq(Queries)
    BY <2>1
  <2> QED BY <1>2, <2>2 DEF PushBack
<1> QED BY <1>1, <1>2

-----------------------------------------------------------------------------
LEMMA InitIInv == Init => IInv
BY ConstantsAssumption, ServersFact
DEF Init, IInv, TypeOK, HeldInv, EnginePC, MainPC, InitialNsvr, NoQuery,
    Engines

LEMMA FetchAddIInv ==
  ASSUME IInv, NEW e \in Engines, FetchAdd(e)
  PROVE  IInv'
<1>1. counter \in Nat /\ counter' \in Nat
  BY DEF IInv, TypeOK, FetchAdd
<1>2. CASE IsQuery(counter)
  <2>1. counter \in Queries /\ counter # NoQuery
    BY <1>1, <1>2, FetchedIsQuery, QueryFacts
  <2> QED
    BY <1>1, <1>2, <2>1
    DEF IInv, TypeOK, HeldInv, FetchAdd, EnginePC, channelVars, searchVars, mainVars
<1>3. CASE ~ IsQuery(counter)
  BY <1>1, <1>3
  DEF IInv, TypeOK, HeldInv, FetchAdd, EnginePC, channelVars, searchVars, mainVars
<1> QED BY <1>2, <1>3

LEMMA DispatchIInv ==
  ASSUME IInv, NEW e \in Engines, Dispatch(e)
  PROVE  IInv'
<1>1. held[e] \in Queries
  BY DEF IInv, TypeOK, HeldInv, Dispatch
<1>2. PICK d \in Target(held[e]) :
        toProxy' = [toProxy EXCEPT ![e][d] = Append(@, Enqueue(held[e]))]
  BY DEF Dispatch
<1>3. d \in Servers
  BY <1>1, <1>2, TargetInServers
<1>4. Append(toProxy[e][d], Enqueue(held[e])) \in Seq(ProxyMsg)
  BY <1>1, <1>3, MessageTypes DEF IInv, TypeOK
<1>5. toProxy' \in [Engines -> [Servers -> Seq(ProxyMsg)]]
  BY <1>2, <1>3, <1>4 DEF IInv, TypeOK
<1> QED
  BY <1>5 DEF IInv, TypeOK, HeldInv, Dispatch, EnginePC, searchVars, mainVars

LEMMA AskIInv ==
  ASSUME IInv, NEW e \in Engines, AskOwn(e) \/ AskNext(e)
  PROVE  IInv'
<1>1. e[1] \in Servers
  BY DEF Engines
<1>2. ASSUME NEW d \in Servers
      PROVE  [toProxy EXCEPT ![e][d] = Append(@, Dequeue(e[1], d))]
               \in [Engines -> [Servers -> Seq(ProxyMsg)]]
  <2>1. Append(toProxy[e][d], Dequeue(e[1], d)) \in Seq(ProxyMsg)
    BY <1>1, MessageTypes DEF IInv, TypeOK
  <2> QED BY <2>1 DEF IInv, TypeOK
<1>3. CASE AskOwn(e)
  <2>1. toProxy' \in [Engines -> [Servers -> Seq(ProxyMsg)]]
    BY <1>1, <1>2, <1>3 DEF AskOwn, Ask
  <2> QED
    BY <1>1, <1>3, <2>1
    DEF IInv, TypeOK, HeldInv, AskOwn, Ask, EnginePC, searchVars, mainVars
<1>4. CASE AskNext(e)
  <2> DEFINE d == (dsid[e] + 1) % NumServers
  <2>1. d \in Servers
    BY NextServer DEF IInv, TypeOK
  <2> HIDE DEF d
  <2>2. toProxy' \in [Engines -> [Servers -> Seq(ProxyMsg)]]
    <3>1. CASE hasQuery[e][d]
      BY <1>2, <1>4, <2>1, <3>1 DEF AskNext, Ask, d
    <3>2. CASE ~ hasQuery[e][d]
      BY <1>4, <3>2 DEF AskNext, d, IInv, TypeOK
    <3> QED BY <3>1, <3>2
  <2>3. dsid' \in [Engines -> Servers]
    BY <1>4, <2>1 DEF AskNext, d, IInv, TypeOK
  <2>4. pc' = [pc EXCEPT ![e] = "wait"] \/ pc' = pc
    BY <1>4 DEF AskNext, Ask
  <2>5. pc' \in [Engines -> EnginePC]
    BY <2>4 DEF IInv, TypeOK, EnginePC
  <2>6. HeldInv'
    BY <1>4, <2>4 DEF IInv, TypeOK, HeldInv, AskNext
  <2> QED
    BY <1>4, <2>2, <2>3, <2>5, <2>6
    DEF IInv, TypeOK, AskNext, searchVars, mainVars
<1> QED BY <1>3, <1>4

(* The oldest reply of a channel is a reply, and the rest are replies. *)
LEMMA TakeReplyType ==
  ASSUME IInv, NEW e \in Engines, replies[dsid[e]][e[1]] # << >>, TakeReply(e)
  PROVE  /\ replies' \in [Servers -> [Servers -> Seq(Reply)]]
         /\ Head(replies[dsid[e]][e[1]]) \in Reply
<1>1. dsid[e] \in Servers /\ e[1] \in Servers
  BY DEF IInv, TypeOK, Engines
<1>2. replies[dsid[e]][e[1]] \in Seq(Reply)
  BY <1>1 DEF IInv, TypeOK
<1>3. /\ Head(replies[dsid[e]][e[1]]) \in Reply
      /\ Tail(replies[dsid[e]][e[1]]) \in Seq(Reply)
  BY <1>2
<1> QED BY <1>1, <1>3 DEF TakeReply, IInv, TypeOK

LEMMA ReceiveSuccIInv ==
  ASSUME IInv, NEW e \in Engines, ReceiveSucc(e)
  PROVE  IInv'
<1> DEFINE reply == Head(replies[dsid[e]][e[1]])
<1>1. /\ replies' \in [Servers -> [Servers -> Seq(Reply)]]
      /\ reply \in Reply
      /\ reply.type = "dequeue_succ"
  BY TakeReplyType DEF ReceiveSucc
<1>2. reply.query \in Queries
  BY <1>1 DEF Reply
<1>3. held' = [held EXCEPT ![e] = reply.query]
  BY DEF ReceiveSucc
<1> HIDE DEF reply
<1>4. HeldInv'
  BY <1>2, <1>3, QueryFacts, SMTT(30) DEF IInv, TypeOK, HeldInv, ReceiveSucc
<1>5. held' \in [Engines -> Queries \cup {NoQuery}]
  BY <1>2, <1>3 DEF IInv, TypeOK
<1> QED
  BY <1>1, <1>4, <1>5
  DEF IInv, TypeOK, ReceiveSucc, EnginePC, searchVars, mainVars

LEMMA ReceiveFailIInv ==
  ASSUME IInv, NEW e \in Engines, ReceiveFail(e)
  PROVE  IInv'
<1>1. replies' \in [Servers -> [Servers -> Seq(Reply)]]
  BY TakeReplyType DEF ReceiveFail
<1>2. dsid[e] \in Servers
  BY DEF IInv, TypeOK
<1>3. hasQuery' \in [Engines -> [Servers -> BOOLEAN]]
  BY <1>2 DEF IInv, TypeOK, ReceiveFail
<1>4. nsvr' \in [Engines -> Int]
  BY DEF IInv, TypeOK, ReceiveFail
<1> QED
  BY <1>1, <1>3, <1>4
  DEF IInv, TypeOK, HeldInv, ReceiveFail, EnginePC, searchVars, mainVars

LEMMA SearchIInv ==
  ASSUME IInv, NEW e \in Engines, Search(e)
  PROVE  IInv'
<1>1. held[e] \in Queries /\ e[1] \in Servers
  BY DEF IInv, TypeOK, HeldInv, Search, Engines
<1>2. answered' \in [Queries -> Nat]
  BY <1>1, SMTT(30) DEF IInv, TypeOK, Search
<1>3. runCount' \in [Servers -> Nat]
  BY <1>1, SMTT(30) DEF IInv, TypeOK, Search
<1> QED
  BY <1>2, <1>3 DEF IInv, TypeOK, HeldInv, Search, EnginePC, channelVars, mainVars

LEMMA FinishIInv ==
  ASSUME IInv, NEW e \in Engines, Finish(e)
  PROVE  IInv'
BY DEF IInv, TypeOK, HeldInv, Finish, EnginePC, channelVars, searchVars, mainVars

-----------------------------------------------------------------------------
(* The proxy threads *)

LEMMA TakeMsgType ==
  ASSUME IInv, NEW d \in Servers, NEW e \in Engines, TakeMsg(d, e)
  PROVE  /\ toProxy' \in [Engines -> [Servers -> Seq(ProxyMsg)]]
         /\ Head(toProxy[e][d]) \in ProxyMsg
<1>1. toProxy[e][d] \in Seq(ProxyMsg) /\ toProxy[e][d] # << >>
  BY DEF IInv, TypeOK, TakeMsg
<1>2. /\ Head(toProxy[e][d]) \in ProxyMsg
      /\ Tail(toProxy[e][d]) \in Seq(ProxyMsg)
  BY <1>1
<1> QED BY <1>2 DEF TakeMsg, IInv, TypeOK

LEMMA SendReplyType ==
  ASSUME IInv, NEW d \in Servers, NEW e \in Engines, NEW type, NEW q,
         [type |-> type, query |-> q] \in Reply, SendReply(d, e[1], type, q)
  PROVE  replies' \in [Servers -> [Servers -> Seq(Reply)]]
<1>1. e[1] \in Servers
  BY DEF Engines
<1>2. Append(replies[d][e[1]], [type |-> type, query |-> q]) \in Seq(Reply)
  BY <1>1 DEF IInv, TypeOK
<1> QED BY <1>1, <1>2 DEF SendReply, IInv, TypeOK

LEMMA ProxyEnqueueIInv ==
  ASSUME IInv, NEW d \in Servers, NEW e \in Engines, ProxyEnqueue(d, e)
  PROVE  IInv'
<1>1. /\ toProxy' \in [Engines -> [Servers -> Seq(ProxyMsg)]]
      /\ Head(toProxy[e][d]) \in ProxyMsg
  BY TakeMsgType DEF ProxyEnqueue
<1>2. Head(toProxy[e][d]).query \in Queries
  BY <1>1 DEF ProxyEnqueue, ProxyMsg
<1>3. PushBack(taskQueue[d], Head(toProxy[e][d]).query) \in Seq(Queries)
  BY <1>2, PushBackType DEF IInv, TypeOK
<1>4. taskQueue' \in [Servers -> Seq(Queries)]
  BY <1>3 DEF ProxyEnqueue, IInv, TypeOK
<1> QED
  BY <1>1, <1>4
  DEF IInv, TypeOK, HeldInv, ProxyEnqueue, engineVars, searchVars, mainVars

LEMMA ProxyDequeueIInv ==
  ASSUME IInv, NEW d \in Servers, NEW e \in Engines,
         ProxyDequeueHigh(d, e) \/ ProxyDequeueLow(d, e) \/ ProxyDequeueFail(d, e)
  PROVE  IInv'
<1>1. toProxy' \in [Engines -> [Servers -> Seq(ProxyMsg)]]
  BY TakeMsgType DEF ProxyDequeueHigh, ProxyDequeueLow, ProxyDequeueFail
<1>2. taskQueue[d] \in Seq(Queries)
  BY DEF IInv, TypeOK
<1>3. CASE ProxyDequeueHigh(d, e)
  <2>1. taskQueue[d] # << >>
    BY <1>3 DEF ProxyDequeueHigh
  <2>2. Len(taskQueue[d]) \in 1 .. Len(taskQueue[d])
    BY <1>2, <2>1
  <2>3. taskQueue[d][Len(taskQueue[d])] \in Queries
    BY <1>2, <2>2, ElementOfSeq
  <2>4. SubSeq(taskQueue[d], 1, Len(taskQueue[d]) - 1) \in Seq(Queries)
    BY <1>2, <2>2
  <2>5. replies' \in [Servers -> [Servers -> Seq(Reply)]]
    BY <1>3, <2>3, SendReplyType DEF ProxyDequeueHigh, Reply
  <2>6. taskQueue' \in [Servers -> Seq(Queries)]
    BY <1>3, <2>4 DEF ProxyDequeueHigh, IInv, TypeOK
  <2> QED
    BY <1>1, <1>3, <2>5, <2>6
    DEF IInv, TypeOK, HeldInv, ProxyDequeueHigh, engineVars, searchVars, mainVars
<1>4. CASE ProxyDequeueLow(d, e)
  <2>1. Head(taskQueue[d]) \in Queries /\ Tail(taskQueue[d]) \in Seq(Queries)
    BY <1>2, <1>4 DEF ProxyDequeueLow
  <2>2. replies' \in [Servers -> [Servers -> Seq(Reply)]]
    BY <1>4, <2>1, SendReplyType DEF ProxyDequeueLow, Reply
  <2>3. taskQueue' \in [Servers -> Seq(Queries)]
    BY <1>4, <2>1 DEF ProxyDequeueLow, IInv, TypeOK
  <2> QED
    BY <1>1, <1>4, <2>2, <2>3
    DEF IInv, TypeOK, HeldInv, ProxyDequeueLow, engineVars, searchVars, mainVars
<1>5. CASE ProxyDequeueFail(d, e)
  <2>1. replies' \in [Servers -> [Servers -> Seq(Reply)]]
    BY <1>5, SendReplyType DEF ProxyDequeueFail, Reply
  <2> QED
    BY <1>1, <1>5, <2>1
    DEF IInv, TypeOK, HeldInv, ProxyDequeueFail, engineVars, searchVars, mainVars
<1> QED BY <1>3, <1>4, <1>5

LEMMA ProxyStopIInv ==
  ASSUME IInv, NEW d \in Servers, ProxyStop(d)
  PROVE  IInv'
BY DEF IInv, TypeOK, HeldInv, ProxyStop, engineVars, channelVars, searchVars, mainVars

-----------------------------------------------------------------------------
(* The main threads *)

LEMMA MainIInv ==
  ASSUME IInv, NEW s \in Servers, Main(s)
  PROVE  IInv'
<1> USE DEF IInv, TypeOK, HeldInv, MainPC, engineVars, channelVars, searchVars
<1>1. CASE Join(s)
  <2>1. total' \in Nat
    BY <1>1 DEF Join
  <2> QED BY <1>1, <2>1 DEF Join
<1>2. CASE StartGather(s)
  <2>1. result' \in [Servers -> Nat \cup {-1}]
    BY <1>2 DEF StartGather
  <2> QED BY <1>2, <2>1 DEF StartGather
<1>3. ASSUME NEW src \in Servers \ {Master}, GatherReceive(src)
      PROVE  IInv'
  <2>1. result[src] \in Nat
    BY <1>3 DEF GatherReceive
  <2>2. total' \in Nat
    BY <1>3, <2>1 DEF GatherReceive
  <2>3. result' \in [Servers -> Nat \cup {-1}]
    BY <1>3 DEF GatherReceive
  <2> QED BY <1>3, <2>2, <2>3 DEF GatherReceive
<1>4. CASE EndGather(s)
  BY <1>4 DEF EndGather
<1>5. CASE SendStop(s)
  BY <1>5 DEF SendStop
<1>6. CASE JoinProxy(s)
  BY <1>6 DEF JoinProxy
<1> QED BY <1>1, <1>2, <1>3, <1>4, <1>5, <1>6 DEF Main

LEMMA StutterIInv == IInv /\ UNCHANGED vars => IInv'
BY DEF IInv, TypeOK, HeldInv, vars, engineVars, channelVars, searchVars, mainVars

-----------------------------------------------------------------------------
LEMMA NextIInv == IInv /\ [Next]_vars => IInv'
<1> SUFFICES ASSUME IInv, [Next]_vars
             PROVE  IInv'
  OBVIOUS
<1>1. ASSUME NEW e \in Engines, Engine(e)
      PROVE  IInv'
  BY <1>1, FetchAddIInv, DispatchIInv, AskIInv, ReceiveSuccIInv,
     ReceiveFailIInv, SearchIInv, FinishIInv
  DEF Engine
<1>2. ASSUME NEW d \in Servers, Proxy(d)
      PROVE  IInv'
  BY <1>2, ProxyEnqueueIInv, ProxyDequeueIInv, ProxyStopIInv DEF Proxy
<1>3. ASSUME NEW s \in Servers, Main(s)
      PROVE  IInv'
  BY <1>3, MainIInv
<1>4. CASE UNCHANGED vars
  BY <1>4, StutterIInv
<1> QED BY <1>1, <1>2, <1>3, <1>4 DEF Next, Terminating

(* The inductive invariant of the scheduling protocol holds in every state of
   every run, for any number of ranks, threads and queries. *)
THEOREM Invariance == Spec => []IInv
BY InitIInv, NextIInv, PTL DEF Spec

(* Every message, queue and counter of the protocol keeps its type: no thread
   sends, searches or counts a query that does not exist, and no message goes
   to a rank that does not exist. *)
THEOREM TypeCorrect == Spec => []TypeOK
<1>1. IInv => TypeOK
  BY DEF IInv
<1> QED BY <1>1, Invariance, PTL

-----------------------------------------------------------------------------
(* Sequences of messages and queries *)

LEMMA AppendFacts ==
  ASSUME NEW M, NEW seq \in Seq(M), NEW m \in M
  PROVE  /\ Append(seq, m) \in Seq(M)
         /\ Len(Append(seq, m)) = Len(seq) + 1
         /\ DOMAIN seq = 1 .. Len(seq) /\ Len(seq) \in Nat
         /\ DOMAIN Append(seq, m) = 1 .. Len(seq) + 1
         /\ \A i \in DOMAIN seq : Append(seq, m)[i] = seq[i]
         /\ Append(seq, m)[Len(seq) + 1] = m
OBVIOUS

LEMMA TailFacts ==
  ASSUME NEW M, NEW seq \in Seq(M), seq # << >>
  PROVE  /\ Tail(seq) \in Seq(M) /\ Head(seq) \in M
         /\ Len(seq) \in Nat \ {0}
         /\ Len(Tail(seq)) = Len(seq) - 1
         /\ DOMAIN seq = 1 .. Len(seq)
         /\ DOMAIN Tail(seq) = 1 .. Len(seq) - 1
         /\ \A i \in 1 .. Len(seq) - 1 : Tail(seq)[i] = seq[i + 1]
         /\ Head(seq) = seq[1]
OBVIOUS

LEMMA FrontFacts ==
  ASSUME NEW M, NEW seq \in Seq(M), seq # << >>
  PROVE  LET front == SubSeq(seq, 1, Len(seq) - 1)
         IN  /\ front \in Seq(M) /\ seq[Len(seq)] \in M
             /\ Len(seq) \in Nat \ {0}
             /\ Len(front) = Len(seq) - 1
             /\ DOMAIN seq = 1 .. Len(seq)
             /\ DOMAIN front = 1 .. Len(seq) - 1
             /\ \A i \in 1 .. Len(seq) - 1 : front[i] = seq[i]
<1>1. Len(seq) \in Nat \ {0} /\ DOMAIN seq = 1 .. Len(seq)
  OBVIOUS
<1>2. \A i \in 1 .. Len(seq) : seq[i] \in M
  BY <1>1
<1> QED BY <1>1, <1>2

LEMMA AppendOccurs ==
  ASSUME NEW M, NEW seq \in Seq(M), NEW m \in M, NEW q
  PROVE  /\ NotIn(seq, q) /\ m.query # q => NotIn(Append(seq, m), q)
         /\ OnceIn(seq, q) /\ m.query # q => OnceIn(Append(seq, m), q)
         /\ NotIn(seq, q) /\ m.query = q => OnceIn(Append(seq, m), q)
<1> DEFINE n == Len(seq)
<1> DEFINE new == Append(seq, m)
<1>1. /\ n \in Nat /\ DOMAIN seq = 1 .. n /\ DOMAIN new = 1 .. n + 1
      /\ \A i \in DOMAIN seq : new[i] = seq[i]
      /\ new[n + 1] = m
  BY AppendFacts
<1> HIDE DEF n, new
<1>2. ASSUME NotIn(seq, q), m.query # q
      PROVE  NotIn(new, q)
  BY <1>1, <1>2 DEF NotIn
<1>3. ASSUME OnceIn(seq, q), m.query # q
      PROVE  OnceIn(new, q)
  <2>1. PICK i \in DOMAIN seq : \A j \in DOMAIN seq : seq[j].query = q <=> j = i
    BY <1>3 DEF OnceIn
  <2>2. \A j \in DOMAIN new : new[j].query = q <=> j = i
    BY <1>1, <1>3, <2>1
  <2> QED BY <1>1, <2>1, <2>2 DEF OnceIn
<1>4. ASSUME NotIn(seq, q), m.query = q
      PROVE  OnceIn(new, q)
  <2>1. \A j \in DOMAIN new : new[j].query = q <=> j = n + 1
    BY <1>1, <1>4 DEF NotIn
  <2> QED BY <1>1, <2>1 DEF OnceIn
<1> QED BY <1>2, <1>3, <1>4 DEF new

LEMMA TailOccurs ==
  ASSUME NEW M, NEW seq \in Seq(M), seq # << >>, NEW q
  PROVE  /\ NotIn(seq, q) => NotIn(Tail(seq), q)
         /\ OnceIn(seq, q) /\ Head(seq).query # q => OnceIn(Tail(seq), q)
         /\ OnceIn(seq, q) /\ Head(seq).query = q => NotIn(Tail(seq), q)
<1> DEFINE n == Len(seq)
<1> DEFINE new == Tail(seq)
<1>1. /\ n \in Nat \ {0} /\ DOMAIN seq = 1 .. n /\ DOMAIN new = 1 .. n - 1
      /\ \A i \in 1 .. n - 1 : new[i] = seq[i + 1]
      /\ Head(seq) = seq[1]
  BY TailFacts
<1> HIDE DEF n, new
<1>2. ASSUME NotIn(seq, q)
      PROVE  NotIn(new, q)
  BY <1>1, <1>2 DEF NotIn
<1>3. ASSUME OnceIn(seq, q), Head(seq).query # q
      PROVE  OnceIn(new, q)
  <2>1. PICK i \in DOMAIN seq : \A j \in DOMAIN seq : seq[j].query = q <=> j = i
    BY <1>3 DEF OnceIn
  <2>2. i # 1
    BY <1>1, <1>3, <2>1
  <2>3. i - 1 \in DOMAIN new
    BY <1>1, <2>1, <2>2
  <2>4. \A j \in DOMAIN new : new[j].query = q <=> j = i - 1
    BY <1>1, <2>1, SMTT(30)
  <2> QED BY <2>3, <2>4 DEF OnceIn
<1>4. ASSUME OnceIn(seq, q), Head(seq).query = q
      PROVE  NotIn(new, q)
  <2>1. PICK i \in DOMAIN seq : \A j \in DOMAIN seq : seq[j].query = q <=> j = i
    BY <1>4 DEF OnceIn
  <2>2. i = 1
    BY <1>1, <1>4, <2>1
  <2> QED BY <1>1, <2>1, <2>2 DEF NotIn
<1> QED BY <1>2, <1>3, <1>4 DEF new

LEMMA AppendQueued ==
  ASSUME NEW M, NEW queue \in Seq(M), NEW m \in M, NEW q
  PROVE  /\ NotQueued(queue, q) /\ m # q => NotQueued(Append(queue, m), q)
         /\ QueuedOnce(queue, q) /\ m # q => QueuedOnce(Append(queue, m), q)
         /\ NotQueued(queue, q) /\ m = q => QueuedOnce(Append(queue, m), q)
<1> DEFINE n == Len(queue)
<1> DEFINE new == Append(queue, m)
<1>1. /\ n \in Nat /\ DOMAIN queue = 1 .. n /\ DOMAIN new = 1 .. n + 1
      /\ \A i \in DOMAIN queue : new[i] = queue[i]
      /\ new[n + 1] = m
  BY AppendFacts
<1> HIDE DEF n, new
<1>2. ASSUME NotQueued(queue, q), m # q
      PROVE  NotQueued(new, q)
  BY <1>1, <1>2 DEF NotQueued
<1>3. ASSUME QueuedOnce(queue, q), m # q
      PROVE  QueuedOnce(new, q)
  <2>1. PICK i \in DOMAIN queue : \A j \in DOMAIN queue : queue[j] = q <=> j = i
    BY <1>3 DEF QueuedOnce
  <2>2. \A j \in DOMAIN new : new[j] = q <=> j = i
    BY <1>1, <1>3, <2>1
  <2> QED BY <1>1, <2>1, <2>2 DEF QueuedOnce
<1>4. ASSUME NotQueued(queue, q), m = q
      PROVE  QueuedOnce(new, q)
  <2>1. \A j \in DOMAIN new : new[j] = q <=> j = n + 1
    BY <1>1, <1>4 DEF NotQueued
  <2> QED BY <1>1, <2>1 DEF QueuedOnce
<1> QED BY <1>2, <1>3, <1>4 DEF new

(* A query taken from the front or from the back of a queue. *)
LEMMA TailQueued ==
  ASSUME NEW M, NEW queue \in Seq(M), queue # << >>, NEW q
  PROVE  /\ NotQueued(queue, q) => NotQueued(Tail(queue), q)
         /\ QueuedOnce(queue, q) /\ Head(queue) # q => QueuedOnce(Tail(queue), q)
         /\ QueuedOnce(queue, q) /\ Head(queue) = q => NotQueued(Tail(queue), q)
         /\ Head(queue) = q => ~ NotQueued(queue, q)
<1> DEFINE n == Len(queue)
<1> DEFINE new == Tail(queue)
<1>1. /\ n \in Nat \ {0} /\ DOMAIN queue = 1 .. n /\ DOMAIN new = 1 .. n - 1
      /\ \A i \in 1 .. n - 1 : new[i] = queue[i + 1]
      /\ Head(queue) = queue[1]
  BY TailFacts
<1> HIDE DEF n, new
<1>2. ASSUME NotQueued(queue, q)
      PROVE  NotQueued(new, q)
  BY <1>1, <1>2 DEF NotQueued
<1>3. ASSUME QueuedOnce(queue, q), Head(queue) # q
      PROVE  QueuedOnce(new, q)
  <2>1. PICK i \in DOMAIN queue : \A j \in DOMAIN queue : queue[j] = q <=> j = i
    BY <1>3 DEF QueuedOnce
  <2>2. i - 1 \in DOMAIN new
    BY <1>1, <1>3, <2>1
  <2>3. \A j \in DOMAIN new : new[j] = q <=> j = i - 1
    BY <1>1, <2>1, SMTT(30)
  <2> QED BY <2>2, <2>3 DEF QueuedOnce
<1>4. ASSUME QueuedOnce(queue, q), Head(queue) = q
      PROVE  NotQueued(new, q)
  <2>1. PICK i \in DOMAIN queue : \A j \in DOMAIN queue : queue[j] = q <=> j = i
    BY <1>4 DEF QueuedOnce
  <2>2. i = 1
    BY <1>1, <1>4, <2>1
  <2> QED BY <1>1, <2>1, <2>2 DEF NotQueued
<1>5. Head(queue) = q => ~ NotQueued(queue, q)
  BY <1>1 DEF NotQueued
<1> QED BY <1>2, <1>3, <1>4, <1>5 DEF new

LEMMA FrontQueued ==
  ASSUME NEW M, NEW queue \in Seq(M), queue # << >>, NEW q
  PROVE  LET front == SubSeq(queue, 1, Len(queue) - 1)
             last  == queue[Len(queue)]
         IN  /\ NotQueued(queue, q) => NotQueued(front, q)
             /\ QueuedOnce(queue, q) /\ last # q => QueuedOnce(front, q)
             /\ QueuedOnce(queue, q) /\ last = q => NotQueued(front, q)
             /\ last = q => ~ NotQueued(queue, q)
<1> DEFINE n == Len(queue)
<1> DEFINE new == SubSeq(queue, 1, n - 1)
<1>1. /\ n \in Nat \ {0} /\ DOMAIN queue = 1 .. n /\ DOMAIN new = 1 .. n - 1
      /\ \A i \in 1 .. n - 1 : new[i] = queue[i]
  BY FrontFacts
<1> HIDE DEF n, new
<1>2. ASSUME NotQueued(queue, q)
      PROVE  NotQueued(new, q)
  BY <1>1, <1>2 DEF NotQueued
<1>3. ASSUME QueuedOnce(queue, q), queue[n] # q
      PROVE  QueuedOnce(new, q)
  <2>1. PICK i \in DOMAIN queue : \A j \in DOMAIN queue : queue[j] = q <=> j = i
    BY <1>3 DEF QueuedOnce
  <2>2. i \in DOMAIN new
    BY <1>1, <1>3, <2>1
  <2>3. \A j \in DOMAIN new : new[j] = q <=> j = i
    BY <1>1, <2>1
  <2> QED BY <2>2, <2>3 DEF QueuedOnce
<1>4. ASSUME QueuedOnce(queue, q), queue[n] = q
      PROVE  NotQueued(new, q)
  <2>1. PICK i \in DOMAIN queue : \A j \in DOMAIN queue : queue[j] = q <=> j = i
    BY <1>4 DEF QueuedOnce
  <2>2. i = n
    BY <1>1, <1>4, <2>1
  <2> QED BY <1>1, <2>1, <2>2 DEF NotQueued
<1>5. queue[n] = q => ~ NotQueued(queue, q)
  BY <1>1 DEF NotQueued
<1> QED BY <1>2, <1>3, <1>4, <1>5 DEF new, n

-----------------------------------------------------------------------------
(* Families of channels, of which one changes *)

SameElsewhere(F, G, A, B, a, b) ==
  \A c \in A, d \in B : c # a \/ d # b => G[c][d] = F[c][d]

LEMMA FamilyNone ==
  ASSUME NEW A, NEW B, NEW F, NEW G, NEW a \in A, NEW b \in B, NEW q,
         SameElsewhere(F, G, A, B, a, b),
         NoneOf(F, A, B, q)
  PROVE  /\ NotIn(G[a][b], q) => NoneOf(G, A, B, q)
         /\ OnceIn(G[a][b], q) => OneOf(G, A, B, q)
<1>1. \A c \in A, d \in B : c # a \/ d # b => NotIn(G[c][d], q)
  BY DEF NoneOf, SameElsewhere
<1>2. ASSUME NotIn(G[a][b], q)
      PROVE  NoneOf(G, A, B, q)
  BY <1>1, <1>2 DEF NoneOf
<1>3. ASSUME OnceIn(G[a][b], q)
      PROVE  OneOf(G, A, B, q)
  BY <1>1, <1>3 DEF OneOf
<1> QED BY <1>2, <1>3

LEMMA OnceNotNone ==
  ASSUME NEW seq, NEW q, OnceIn(seq, q)
  PROVE  ~ NotIn(seq, q)
BY DEF OnceIn, NotIn

LEMMA FamilyOne ==
  ASSUME NEW A, NEW B, NEW F, NEW G, NEW a \in A, NEW b \in B, NEW q,
         SameElsewhere(F, G, A, B, a, b),
         OneOf(F, A, B, q)
  PROVE  /\ OnceIn(F[a][b], q) /\ OnceIn(G[a][b], q) => OneOf(G, A, B, q)
         /\ NotIn(F[a][b], q) /\ NotIn(G[a][b], q) => OneOf(G, A, B, q)
         /\ OnceIn(F[a][b], q) /\ NotIn(G[a][b], q) => NoneOf(G, A, B, q)
         /\ OnceIn(F[a][b], q) \/ NotIn(F[a][b], q)
<1>1. PICK c \in A, d \in B :
        /\ OnceIn(F[c][d], q)
        /\ \A x \in A, y \in B : x # c \/ y # d => NotIn(F[x][y], q)
  BY DEF OneOf
<1>2. OnceIn(F[a][b], q) \/ NotIn(F[a][b], q)
  BY <1>1
<1>3. ASSUME \/ OnceIn(F[a][b], q) /\ OnceIn(G[a][b], q)
             \/ NotIn(F[a][b], q) /\ NotIn(G[a][b], q)
      PROVE  OneOf(G, A, B, q)
  <2>1. OnceIn(G[c][d], q)
    BY <1>1, <1>3, OnceNotNone DEF SameElsewhere
  <2>2. \A x \in A, y \in B : x # c \/ y # d => NotIn(G[x][y], q)
    BY <1>1, <1>3, OnceNotNone DEF SameElsewhere
  <2> QED BY <2>1, <2>2 DEF OneOf
<1>4. ASSUME OnceIn(F[a][b], q), NotIn(G[a][b], q)
      PROVE  NoneOf(G, A, B, q)
  <2>1. c = a /\ d = b
    BY <1>1, <1>4, OnceNotNone
  <2> QED BY <1>1, <1>4, <2>1 DEF NoneOf, SameElsewhere
<1> QED BY <1>2, <1>3, <1>4

LEMMA FamilyStep ==
  ASSUME NEW A, NEW B, NEW F, NEW G, NEW a \in A, NEW b \in B, NEW q, NEW same,
         SameElsewhere(F, G, A, B, a, b),
         same => /\ NotIn(F[a][b], q) => NotIn(G[a][b], q)
                 /\ OnceIn(F[a][b], q) => OnceIn(G[a][b], q)
  PROVE  /\ NoneOf(F, A, B, q) /\ same => NoneOf(G, A, B, q)
         /\ OneOf(F, A, B, q) /\ same => OneOf(G, A, B, q)
         /\ NoneOf(F, A, B, q) /\ (NotIn(F[a][b], q) => OnceIn(G[a][b], q))
              => OneOf(G, A, B, q)
         /\ OneOf(F, A, B, q) /\ ~ NotIn(F[a][b], q) /\ (OnceIn(F[a][b], q) => NotIn(G[a][b], q))
              => NoneOf(G, A, B, q)
<1>1. NoneOf(F, A, B, q) => NotIn(F[a][b], q)
  BY DEF NoneOf
<1>2. ASSUME NoneOf(F, A, B, q)
      PROVE  /\ NotIn(G[a][b], q) => NoneOf(G, A, B, q)
             /\ OnceIn(G[a][b], q) => OneOf(G, A, B, q)
  BY <1>2, FamilyNone
<1>3. ASSUME OneOf(F, A, B, q)
      PROVE  /\ OnceIn(F[a][b], q) /\ OnceIn(G[a][b], q) => OneOf(G, A, B, q)
             /\ NotIn(F[a][b], q) /\ NotIn(G[a][b], q) => OneOf(G, A, B, q)
             /\ OnceIn(F[a][b], q) /\ NotIn(G[a][b], q) => NoneOf(G, A, B, q)
             /\ OnceIn(F[a][b], q) \/ NotIn(F[a][b], q)
  BY <1>3, FamilyOne
<1> QED BY <1>1, <1>2, <1>3

(* A channel gets a message more at the back. *)
LEMMA FamilyAppend ==
  ASSUME NEW A, NEW B, NEW M, NEW F \in [A -> [B -> Seq(M)]], NEW a \in A, NEW b \in B,
         NEW m \in M, NEW q
  PROVE  LET G == [F EXCEPT ![a][b] = Append(@, m)]
         IN  /\ NoneOf(F, A, B, q) /\ m.query # q => NoneOf(G, A, B, q)
             /\ NoneOf(F, A, B, q) /\ m.query = q => OneOf(G, A, B, q)
             /\ OneOf(F, A, B, q) /\ m.query # q => OneOf(G, A, B, q)
<1> DEFINE G == [F EXCEPT ![a][b] = Append(@, m)]
<1>1. G[a][b] = Append(F[a][b], m) /\ SameElsewhere(F, G, A, B, a, b)
  BY DEF SameElsewhere
<1>2. F[a][b] \in Seq(M)
  OBVIOUS
<1> HIDE DEF G
<1>3. /\ NotIn(F[a][b], q) /\ m.query # q => NotIn(G[a][b], q)
      /\ OnceIn(F[a][b], q) /\ m.query # q => OnceIn(G[a][b], q)
      /\ NotIn(F[a][b], q) /\ m.query = q => OnceIn(G[a][b], q)
  BY <1>1, <1>2, AppendOccurs
<1> DEFINE same == m.query # q
<1>4. same => /\ NotIn(F[a][b], q) => NotIn(G[a][b], q)
              /\ OnceIn(F[a][b], q) => OnceIn(G[a][b], q)
  BY <1>3
<1>5. m.query = q => (NotIn(F[a][b], q) => OnceIn(G[a][b], q))
  BY <1>3
<1>6. m.query # q <=> same
  OBVIOUS
<1> HIDE DEF same
<1>7. /\ NoneOf(F, A, B, q) /\ same => NoneOf(G, A, B, q)
      /\ OneOf(F, A, B, q) /\ same => OneOf(G, A, B, q)
      /\ NoneOf(F, A, B, q) /\ (NotIn(F[a][b], q) => OnceIn(G[a][b], q))
           => OneOf(G, A, B, q)
  BY <1>1, <1>4, FamilyStep
<1>8. /\ NoneOf(F, A, B, q) /\ m.query # q => NoneOf(G, A, B, q)
      /\ NoneOf(F, A, B, q) /\ m.query = q => OneOf(G, A, B, q)
      /\ OneOf(F, A, B, q) /\ m.query # q => OneOf(G, A, B, q)
  BY <1>5, <1>6, <1>7
<1> QED BY <1>8 DEF G

(* A channel loses its oldest message. *)
LEMMA FamilyTail ==
  ASSUME NEW A, NEW B, NEW M, NEW F \in [A -> [B -> Seq(M)]], NEW a \in A, NEW b \in B,
         F[a][b] # << >>, NEW q
  PROVE  LET G == [F EXCEPT ![a][b] = Tail(@)]
             m == Head(F[a][b])
         IN  /\ NoneOf(F, A, B, q) => m.query # q /\ NoneOf(G, A, B, q)
             /\ OneOf(F, A, B, q) /\ m.query # q => OneOf(G, A, B, q)
             /\ OneOf(F, A, B, q) /\ m.query = q => NoneOf(G, A, B, q)
<1> DEFINE G == [F EXCEPT ![a][b] = Tail(@)]
<1> DEFINE m == Head(F[a][b])
<1>1. G[a][b] = Tail(F[a][b]) /\ SameElsewhere(F, G, A, B, a, b)
  BY DEF SameElsewhere
<1>2. F[a][b] \in Seq(M)
  OBVIOUS
<1> HIDE DEF G
<1>3. /\ NotIn(F[a][b], q) => NotIn(G[a][b], q)
      /\ OnceIn(F[a][b], q) /\ m.query # q => OnceIn(G[a][b], q)
      /\ OnceIn(F[a][b], q) /\ m.query = q => NotIn(G[a][b], q)
  BY <1>1, <1>2, TailOccurs
<1>4. NotIn(F[a][b], q) => m.query # q
  BY <1>2, TailFacts DEF NotIn
<1> HIDE DEF m
<1> DEFINE same == m.query # q
<1>5. /\ NotIn(F[a][b], q) => same /\ NotIn(G[a][b], q)
      /\ same => /\ NotIn(F[a][b], q) => NotIn(G[a][b], q)
                 /\ OnceIn(F[a][b], q) => OnceIn(G[a][b], q)
      /\ ~ same => ~ NotIn(F[a][b], q) /\ (OnceIn(F[a][b], q) => NotIn(G[a][b], q))
  BY <1>3, <1>4
<1>6. /\ m.query # q <=> same
      /\ NoneOf(F, A, B, q) => NotIn(F[a][b], q)
  BY DEF NoneOf
<1> HIDE DEF same
<1>7. /\ NoneOf(F, A, B, q) /\ same => NoneOf(G, A, B, q)
      /\ OneOf(F, A, B, q) /\ same => OneOf(G, A, B, q)
      /\ OneOf(F, A, B, q) /\ ~ NotIn(F[a][b], q) /\ (OnceIn(F[a][b], q) => NotIn(G[a][b], q))
           => NoneOf(G, A, B, q)
  BY <1>1, <1>5, FamilyStep
<1>8. /\ NoneOf(F, A, B, q) => m.query # q /\ NoneOf(G, A, B, q)
      /\ OneOf(F, A, B, q) /\ m.query # q => OneOf(G, A, B, q)
      /\ OneOf(F, A, B, q) /\ m.query = q => NoneOf(G, A, B, q)
  BY <1>5, <1>6, <1>7
<1> QED BY <1>8 DEF G, m

-----------------------------------------------------------------------------
(* One task queue changes *)

LEMMA QueuedOnceNotNone ==
  ASSUME NEW queue, NEW q, QueuedOnce(queue, q)
  PROVE  ~ NotQueued(queue, q)
BY DEF QueuedOnce, NotQueued

LEMMA QueueNone ==
  ASSUME IInv, NEW d \in Servers, NEW t, taskQueue' = [taskQueue EXCEPT ![d] = t], NEW q,
         Queued0(q)
  PROVE  /\ NotQueued(taskQueue[d], q)
         /\ NotQueued(t, q) => Queued0(q)'
         /\ QueuedOnce(t, q) => Queued1(q)'
<1>1. /\ taskQueue'[d] = t
      /\ \A c \in Servers \ {d} : taskQueue'[c] = taskQueue[c]
  BY DEF IInv, TypeOK
<1>2. NotQueued(taskQueue[d], q)
  BY DEF Queued0
<1>3. \A c \in Servers \ {d} : NotQueued(taskQueue'[c], q)
  BY <1>1 DEF Queued0
<1>4. ASSUME NotQueued(t, q)
      PROVE  Queued0(q)'
  BY <1>1, <1>3, <1>4 DEF Queued0
<1>5. ASSUME QueuedOnce(t, q)
      PROVE  Queued1(q)'
  BY <1>1, <1>3, <1>5 DEF Queued1
<1> QED BY <1>2, <1>4, <1>5

LEMMA QueueOne ==
  ASSUME IInv, NEW d \in Servers, NEW t, taskQueue' = [taskQueue EXCEPT ![d] = t], NEW q,
         Queued1(q)
  PROVE  /\ QueuedOnce(taskQueue[d], q) \/ NotQueued(taskQueue[d], q)
         /\ QueuedOnce(taskQueue[d], q) /\ QueuedOnce(t, q) => Queued1(q)'
         /\ NotQueued(taskQueue[d], q) /\ NotQueued(t, q) => Queued1(q)'
         /\ QueuedOnce(taskQueue[d], q) /\ NotQueued(t, q) => Queued0(q)'
<1>1. /\ taskQueue'[d] = t
      /\ \A c \in Servers \ {d} : taskQueue'[c] = taskQueue[c]
  BY DEF IInv, TypeOK
<1>2. PICK c \in Servers : /\ QueuedOnce(taskQueue[c], q)
                           /\ \A x \in Servers \ {c} : NotQueued(taskQueue[x], q)
  BY DEF Queued1
<1>3. QueuedOnce(taskQueue[d], q) \/ NotQueued(taskQueue[d], q)
  BY <1>2
<1>4. ASSUME \/ QueuedOnce(taskQueue[d], q) /\ QueuedOnce(t, q)
             \/ NotQueued(taskQueue[d], q) /\ NotQueued(t, q)
      PROVE  Queued1(q)'
  <2>1. QueuedOnce(taskQueue'[c], q)
    BY <1>1, <1>2, <1>4, QueuedOnceNotNone DEF SameElsewhere
  <2>2. \A x \in Servers \ {c} : NotQueued(taskQueue'[x], q)
    BY <1>1, <1>2, <1>4, QueuedOnceNotNone
  <2> QED BY <2>1, <2>2 DEF Queued1
<1>5. ASSUME QueuedOnce(taskQueue[d], q), NotQueued(t, q)
      PROVE  Queued0(q)'
  <2>1. c = d
    BY <1>2, <1>5, QueuedOnceNotNone
  <2> QED BY <1>1, <1>2, <1>5, <2>1 DEF Queued0
<1> QED BY <1>3, <1>4, <1>5

-----------------------------------------------------------------------------
(* The steps of a query from one place to the next *)

LEMMA HeldStep ==
  ASSUME IInv, NEW e \in Engines, NEW v, held' = [held EXCEPT ![e] = v], NEW q
  PROVE  /\ Held0(q) => held[e] # q
         /\ Held0(q) /\ v # q => Held0(q)'
         /\ Held0(q) /\ v = q => Held1(q)'
         /\ Held1(q) /\ held[e] # q /\ v # q => Held1(q)'
         /\ Held1(q) /\ held[e] = q /\ v # q => Held0(q)'
<1>1. /\ held'[e] = v
      /\ \A f \in Engines \ {e} : held'[f] = held[f]
  BY DEF IInv, TypeOK
<1>2. Held0(q) => held[e] # q
  BY DEF Held0
<1>3. ASSUME Held0(q)
      PROVE  /\ v # q => Held0(q)'
             /\ v = q => Held1(q)'
  BY <1>1, <1>3 DEF Held0, Held1
<1>4. ASSUME Held1(q), v # q
      PROVE  /\ held[e] # q => Held1(q)'
             /\ held[e] = q => Held0(q)'
  <2>1. PICK g \in Engines : \A f \in Engines : held[f] = q <=> f = g
    BY <1>4 DEF Held1
  <2>2. ASSUME held[e] # q
        PROVE  Held1(q)'
    <3>1. \A f \in Engines : held'[f] = q <=> f = g
      BY <1>1, <1>4, <2>1, <2>2
    <3> QED BY <3>1 DEF Held1
  <2>3. ASSUME held[e] = q
        PROVE  Held0(q)'
    <3>1. \A f \in Engines : held'[f] # q
      BY <1>1, <1>4, <2>1, <2>3
    <3> QED BY <3>1 DEF Held0
  <2> QED BY <2>2, <2>3
<1> QED BY <1>2, <1>3, <1>4

LEMMA SendStep ==
  ASSUME IInv, NEW e \in Engines, NEW d \in Servers, NEW m \in ProxyMsg, NEW q,
         toProxy' = [toProxy EXCEPT ![e][d] = Append(@, m)]
  PROVE  /\ Sent0(q) /\ m.query # q => Sent0(q)'
         /\ Sent0(q) /\ m.query = q => Sent1(q)'
         /\ Sent1(q) /\ m.query # q => Sent1(q)'
<1>1. toProxy \in [Engines -> [Servers -> Seq(ProxyMsg)]]
  BY DEF IInv, TypeOK
<1> DEFINE G == [toProxy EXCEPT ![e][d] = Append(@, m)]
<1>2. /\ NoneOf(toProxy, Engines, Servers, q) /\ m.query # q => NoneOf(G, Engines, Servers, q)
      /\ NoneOf(toProxy, Engines, Servers, q) /\ m.query = q => OneOf(G, Engines, Servers, q)
      /\ OneOf(toProxy, Engines, Servers, q) /\ m.query # q => OneOf(G, Engines, Servers, q)
  BY <1>1, FamilyAppend
<1>3. toProxy' = G
  OBVIOUS
<1> HIDE DEF G
<1> QED BY <1>2, <1>3 DEF Sent0, Sent1

LEMMA TakeStep ==
  ASSUME IInv, NEW d \in Servers, NEW e \in Engines, TakeMsg(d, e), NEW q
  PROVE  LET m == Head(toProxy[e][d])
         IN  /\ Sent0(q) => m.query # q /\ Sent0(q)'
             /\ Sent1(q) /\ m.query # q => Sent1(q)'
             /\ Sent1(q) /\ m.query = q => Sent0(q)'
<1>1. toProxy \in [Engines -> [Servers -> Seq(ProxyMsg)]]
  BY DEF IInv, TypeOK
<1> DEFINE G == [toProxy EXCEPT ![e][d] = Tail(@)]
<1> DEFINE m == Head(toProxy[e][d])
<1>2. toProxy' = G /\ toProxy[e][d] # << >>
  BY DEF TakeMsg
<1>3. /\ NoneOf(toProxy, Engines, Servers, q)
           => m.query # q /\ NoneOf(G, Engines, Servers, q)
      /\ OneOf(toProxy, Engines, Servers, q) /\ m.query # q => OneOf(G, Engines, Servers, q)
      /\ OneOf(toProxy, Engines, Servers, q) /\ m.query = q => NoneOf(G, Engines, Servers, q)
  BY <1>1, <1>2, FamilyTail
<1> HIDE DEF G, m
<1>4. /\ Sent0(q) => m.query # q /\ Sent0(q)'
      /\ Sent1(q) /\ m.query # q => Sent1(q)'
      /\ Sent1(q) /\ m.query = q => Sent0(q)'
  BY <1>2, <1>3 DEF Sent0, Sent1
<1> QED BY <1>4 DEF m

LEMMA ReplyStep ==
  ASSUME IInv, NEW d \in Servers, NEW s \in Servers, NEW type, NEW x, NEW q,
         [type |-> type, query |-> x] \in Reply, SendReply(d, s, type, x)
  PROVE  /\ Replied0(q) /\ x # q => Replied0(q)'
         /\ Replied0(q) /\ x = q => Replied1(q)'
         /\ Replied1(q) /\ x # q => Replied1(q)'
<1>1. replies \in [Servers -> [Servers -> Seq(Reply)]]
  BY DEF IInv, TypeOK
<1> DEFINE m == [type |-> type, query |-> x]
<1> DEFINE G == [replies EXCEPT ![d][s] = Append(@, m)]
<1>2. replies' = G
  BY DEF SendReply
<1>3. m.query = x /\ m \in Reply
  OBVIOUS
<1> HIDE DEF m
<1>4. /\ NoneOf(replies, Servers, Servers, q) /\ m.query # q => NoneOf(G, Servers, Servers, q)
      /\ NoneOf(replies, Servers, Servers, q) /\ m.query = q => OneOf(G, Servers, Servers, q)
      /\ OneOf(replies, Servers, Servers, q) /\ m.query # q => OneOf(G, Servers, Servers, q)
  BY <1>1, <1>3, FamilyAppend
<1> HIDE DEF G
<1> QED BY <1>2, <1>3, <1>4 DEF Replied0, Replied1

LEMMA TakeReplyStep ==
  ASSUME IInv, NEW e \in Engines, replies[dsid[e]][e[1]] # << >>, TakeReply(e), NEW q
  PROVE  LET m == Head(replies[dsid[e]][e[1]])
         IN  /\ Replied0(q) => m.query # q /\ Replied0(q)'
             /\ Replied1(q) /\ m.query # q => Replied1(q)'
             /\ Replied1(q) /\ m.query = q => Replied0(q)'
<1>1. replies \in [Servers -> [Servers -> Seq(Reply)]]
  BY DEF IInv, TypeOK
<1>2. dsid[e] \in Servers /\ e[1] \in Servers
  BY DEF IInv, TypeOK, Engines
<1> DEFINE G == [replies EXCEPT ![dsid[e]][e[1]] = Tail(@)]
<1> DEFINE m == Head(replies[dsid[e]][e[1]])
<1>3. replies' = G
  BY DEF TakeReply
<1>4. /\ NoneOf(replies, Servers, Servers, q)
           => m.query # q /\ NoneOf(G, Servers, Servers, q)
      /\ OneOf(replies, Servers, Servers, q) /\ m.query # q => OneOf(G, Servers, Servers, q)
      /\ OneOf(replies, Servers, Servers, q) /\ m.query = q => NoneOf(G, Servers, Servers, q)
  BY <1>1, <1>2, FamilyTail
<1> HIDE DEF G, m
<1>5. /\ Replied0(q) => m.query # q /\ Replied0(q)'
      /\ Replied1(q) /\ m.query # q => Replied1(q)'
      /\ Replied1(q) /\ m.query = q => Replied0(q)'
  BY <1>3, <1>4 DEF Replied0, Replied1
<1> QED BY <1>5 DEF m

(* A step that moves no copy of a query leaves its stage as it is. *)
LEMMA StageKept ==
  ASSUME NEW q \in Queries, Stage(q),
         answered'[q] = answered[q], counter' = counter,
         Held0(q) => Held0(q)', Held1(q) => Held1(q)',
         Sent0(q) => Sent0(q)', Sent1(q) => Sent1(q)',
         Queued0(q) => Queued0(q)', Queued1(q) => Queued1(q)',
         Replied0(q) => Replied0(q)', Replied1(q) => Replied1(q)'
  PROVE  Stage(q)'
BY DEF Stage

LEMMA HeldSame == ASSUME held' = held, NEW q
                  PROVE  (Held0(q) => Held0(q)') /\ (Held1(q) => Held1(q)')
BY DEF Held0, Held1
LEMMA SentSame == ASSUME toProxy' = toProxy, NEW q
                  PROVE  (Sent0(q) => Sent0(q)') /\ (Sent1(q) => Sent1(q)')
BY DEF Sent0, Sent1
LEMMA QueuedSame == ASSUME taskQueue' = taskQueue, NEW q
                    PROVE  (Queued0(q) => Queued0(q)') /\ (Queued1(q) => Queued1(q)')
BY DEF Queued0, Queued1
LEMMA RepliedSame == ASSUME replies' = replies, NEW q
                     PROVE  (Replied0(q) => Replied0(q)') /\ (Replied1(q) => Replied1(q)')
BY DEF Replied0, Replied1

(* The queries of a queue are different from each other. *)
LEMMA QueueInjective ==
  ASSUME IInv, StageInv, NEW d \in Servers, NEW i \in DOMAIN taskQueue[d],
         NEW j \in DOMAIN taskQueue[d], taskQueue[d][i] = taskQueue[d][j]
  PROVE  i = j
<1> DEFINE q == taskQueue[d][i]
<1>1. q \in Queries
  BY DEF IInv, TypeOK
<1>2. ~ Queued0(q)
  BY DEF Queued0, NotQueued
<1>3. Queued1(q)
  BY <1>1, <1>2 DEF StageInv, Stage
<1>4. ~ NotQueued(taskQueue[d], q)
  BY DEF NotQueued
<1>5. QueuedOnce(taskQueue[d], q)
  BY <1>3, <1>4 DEF Queued1
<1> QED BY <1>5 DEF QueuedOnce

(* So a queue has room for a query that is not in it. *)
LEMMA RoomLeft ==
  ASSUME IInv, StageInv, NEW d \in Servers, NEW q \in Queries, Queued0(q)
  PROVE  Len(taskQueue[d]) < QueryNum
<1> DEFINE queue == taskQueue[d]
<1>1. queue \in Seq(Queries)
  BY DEF IInv, TypeOK
<1>2. /\ Len(queue) \in Nat /\ DOMAIN queue = 1 .. Len(queue)
      /\ \A i \in DOMAIN queue : queue[i] \in Queries
  BY <1>1
<1>3. \A i \in DOMAIN queue : queue[i] # q
  BY DEF Queued0, NotQueued
<1>4. queue \in [1 .. Len(queue) -> Queries \ {q}]
  BY <1>1, <1>2, <1>3
<1>5. QueryNum \in Nat /\ 0 <= QueryNum - 1 /\ 0 \in Int /\ QueryNum - 1 \in Int
  BY ConstantsAssumption DEF Queries
<1>6. IsFiniteSet(Queries) /\ Cardinality(Queries) = QueryNum
  BY <1>5, FS_Interval, ~ 0 > QueryNum - 1 DEF Queries
<1>7. IsFiniteSet(Queries \ {q}) /\ Cardinality(Queries \ {q}) = QueryNum - 1
  BY <1>6, FS_RemoveElement
<1>8. IsFiniteSet(1 .. Len(queue)) /\ Cardinality(1 .. Len(queue)) = Len(queue)
  BY <1>2, FS_Interval
<1>9. SUFFICES ASSUME ~ Len(queue) < QueryNum
               PROVE  FALSE
  OBVIOUS
<1> HIDE DEF queue
<1>10. Cardinality(Queries \ {q}) < Cardinality(1 .. Len(queue))
  BY <1>2, <1>5, <1>7, <1>8, <1>9
<1>11. \E x, y \in 1 .. Len(queue) : x # y /\ queue[x] = queue[y]
  BY <1>4, <1>7, <1>8, <1>10, FS_PigeonHole
<1> QED BY <1>2, <1>11, QueueInjective DEF queue

LEMMA InitStage == Init => StageInv
<1> SUFFICES ASSUME Init, NEW q \in Queries
             PROVE  Stage(q)
  BY DEF StageInv
<1>1. q \in Nat /\ q # NoQuery
  BY QueryFacts
<1>2. answered[q] = 0 /\ q >= counter
  BY <1>1 DEF Init
<1>3. Held0(q)
  BY <1>1 DEF Init, Held0
<1>4. Sent0(q)
  BY DEF Init, Sent0, NoneOf, NotIn
<1>5. Queued0(q)
  BY DEF Init, Queued0, NotQueued
<1>6. Replied0(q)
  BY DEF Init, Replied0, NoneOf, NotIn
<1> QED BY <1>2, <1>3, <1>4, <1>5, <1>6 DEF Stage

LEMMA FetchAddStage ==
  ASSUME IInv, StageInv, NEW e \in Engines, FetchAdd(e)
  PROVE  StageInv'
<1> SUFFICES ASSUME NEW q \in Queries
             PROVE  Stage(q)'
  BY DEF StageInv
<1>1. /\ counter \in Nat /\ q \in Nat /\ q # NoQuery /\ q < QueryNum
      /\ counter' = counter + 1 /\ answered' = answered
  BY QueryFacts, ConstantsAssumption DEF IInv, TypeOK, FetchAdd, searchVars, Queries
<1>2. held[e] = NoQuery
  BY DEF IInv, HeldInv, FetchAdd
<1>3. /\ Sent0(q) => Sent0(q)'
      /\ Sent1(q) => Sent1(q)'
      /\ Queued0(q) => Queued0(q)'
      /\ Queued1(q) => Queued1(q)'
      /\ Replied0(q) => Replied0(q)'
      /\ Replied1(q) => Replied1(q)'
  BY SentSame, QueuedSame, RepliedSame DEF FetchAdd, channelVars
<1>4. Stage(q)
  BY DEF StageInv
<1>5. CASE q = counter
  <2>1. held' = [held EXCEPT ![e] = q]
    BY <1>1, <1>5 DEF FetchAdd, IsQuery
  <2>2. answered[q] = 0 /\ q >= counter /\ Held0(q) /\ Sent0(q) /\ Queued0(q) /\ Replied0(q)
    BY <1>1, <1>4, <1>5 DEF Stage
  <2>3. Held1(q)'
    BY <2>1, <2>2, HeldStep
  <2>4. q < counter'
    BY <1>1, <1>5
  <2> QED BY <1>1, <1>3, <2>2, <2>3, <2>4 DEF Stage
<1>6. CASE q # counter
  <2>1. held' = [held EXCEPT ![e] = counter] \/ held' = held
    BY DEF FetchAdd
  <2>2. (Held0(q) => Held0(q)') /\ (Held1(q) => Held1(q)')
    <3>1. CASE held' = held
      BY <3>1, HeldSame
    <3>2. CASE held' = [held EXCEPT ![e] = counter]
      BY <1>1, <1>2, <1>6, <3>2, HeldStep
    <3> QED BY <2>1, <3>1, <3>2
  <2>3. (q < counter <=> q < counter') /\ (q >= counter <=> q >= counter')
    BY <1>1, <1>6
  <2> QED BY <1>1, <1>3, <1>4, <2>2, <2>3 DEF Stage
<1> QED BY <1>5, <1>6

LEMMA DispatchStage ==
  ASSUME IInv, StageInv, NEW e \in Engines, Dispatch(e)
  PROVE  StageInv'
<1> SUFFICES ASSUME NEW q \in Queries
             PROVE  Stage(q)'
  BY DEF StageInv
<1>1. held[e] \in Queries
  BY DEF IInv, TypeOK, HeldInv, Dispatch
<1>2. PICK d \in Target(held[e]) :
        toProxy' = [toProxy EXCEPT ![e][d] = Append(@, Enqueue(held[e]))]
  BY DEF Dispatch
<1>3. d \in Servers
  BY <1>1, <1>2, TargetInServers
<1>4. Enqueue(held[e]) \in ProxyMsg /\ Enqueue(held[e]).query = held[e]
  BY <1>1, MessageTypes DEF Enqueue
<1>5. /\ Sent0(q) /\ held[e] # q => Sent0(q)'
      /\ Sent0(q) /\ held[e] = q => Sent1(q)'
      /\ Sent1(q) /\ held[e] # q => Sent1(q)'
  BY <1>2, <1>3, <1>4, SendStep
<1>6. q # NoQuery /\ held' = [held EXCEPT ![e] = NoQuery]
  BY QueryFacts DEF Dispatch
<1>7. /\ Held0(q) => held[e] # q
      /\ Held0(q) => Held0(q)'
      /\ Held1(q) /\ held[e] # q => Held1(q)'
      /\ Held1(q) /\ held[e] = q => Held0(q)'
  BY <1>6, HeldStep
<1>8. /\ Queued0(q) => Queued0(q)'
      /\ Queued1(q) => Queued1(q)'
      /\ Replied0(q) => Replied0(q)'
      /\ Replied1(q) => Replied1(q)'
      /\ answered' = answered /\ counter' = counter
  BY QueuedSame, RepliedSame DEF Dispatch, searchVars
<1>9. Stage(q)
  BY DEF StageInv
<1>10. CASE held[e] = q
  <2>1. answered[q] = 0 /\ q < counter /\ Held1(q) /\ Sent0(q) /\ Queued0(q) /\ Replied0(q)
    BY <1>7, <1>9, <1>10 DEF Stage
  <2> QED BY <1>5, <1>7, <1>8, <1>10, <2>1 DEF Stage
<1>11. CASE held[e] # q
  BY <1>5, <1>7, <1>8, <1>9, <1>11, StageKept
<1> QED BY <1>10, <1>11

LEMMA AskStep ==
  ASSUME IInv, NEW e \in Engines, NEW d \in Servers, Ask(e, d), NEW q \in Queries
  PROVE  (Sent0(q) => Sent0(q)') /\ (Sent1(q) => Sent1(q)')
<1>1. e[1] \in Servers
  BY DEF Engines
<1>2. Dequeue(e[1], d) \in ProxyMsg /\ Dequeue(e[1], d).query = NoQuery
  BY <1>1, MessageTypes DEF Dequeue
<1>3. q # NoQuery
  BY QueryFacts
<1> QED BY <1>2, <1>3, SendStep DEF Ask

LEMMA AskStage ==
  ASSUME IInv, StageInv, NEW e \in Engines, AskOwn(e) \/ AskNext(e)
  PROVE  StageInv'
<1> SUFFICES ASSUME NEW q \in Queries
             PROVE  Stage(q)'
  BY DEF StageInv
<1>1. (Sent0(q) => Sent0(q)') /\ (Sent1(q) => Sent1(q)')
  <2>1. CASE toProxy' = toProxy
    BY <2>1, SentSame
  <2>2. CASE \E d \in Servers : Ask(e, d)
    BY <2>2, AskStep
  <2>3. e[1] \in Servers /\ (dsid[e] + 1) % NumServers \in Servers
    BY NextServer DEF Engines, IInv, TypeOK
  <2> QED BY <2>1, <2>2, <2>3 DEF AskOwn, AskNext
<1>2. /\ Held0(q) => Held0(q)'
      /\ Held1(q) => Held1(q)'
      /\ Queued0(q) => Queued0(q)'
      /\ Queued1(q) => Queued1(q)'
      /\ Replied0(q) => Replied0(q)'
      /\ Replied1(q) => Replied1(q)'
      /\ answered' = answered /\ counter' = counter
  BY HeldSame, QueuedSame, RepliedSame DEF AskOwn, AskNext, searchVars
<1>3. Stage(q)
  BY DEF StageInv
<1> QED BY <1>1, <1>2, <1>3, StageKept

LEMMA ReceiveSuccStage ==
  ASSUME IInv, StageInv, NEW e \in Engines, ReceiveSucc(e)
  PROVE  StageInv'
<1> SUFFICES ASSUME NEW q \in Queries
             PROVE  Stage(q)'
  BY DEF StageInv
<1> DEFINE m == Head(replies[dsid[e]][e[1]])
<1>1. /\ replies[dsid[e]][e[1]] # << >> /\ TakeReply(e)
      /\ held' = [held EXCEPT ![e] = m.query]
  BY DEF ReceiveSucc
<1>2. /\ Replied0(q) => m.query # q /\ Replied0(q)'
      /\ Replied1(q) /\ m.query # q => Replied1(q)'
      /\ Replied1(q) /\ m.query = q => Replied0(q)'
  BY <1>1, TakeReplyStep
<1> HIDE DEF m
<1>3. held[e] = NoQuery /\ q # NoQuery
  BY QueryFacts DEF IInv, HeldInv, ReceiveSucc
<1>4. /\ Held0(q) /\ m.query # q => Held0(q)'
      /\ Held0(q) /\ m.query = q => Held1(q)'
      /\ Held1(q) /\ m.query # q => Held1(q)'
  BY <1>1, <1>3, HeldStep
<1>5. /\ Sent0(q) => Sent0(q)'
      /\ Sent1(q) => Sent1(q)'
      /\ Queued0(q) => Queued0(q)'
      /\ Queued1(q) => Queued1(q)'
      /\ answered' = answered /\ counter' = counter
  BY SentSame, QueuedSame DEF ReceiveSucc, searchVars
<1>6. Stage(q)
  BY DEF StageInv
<1>7. CASE m.query = q
  <2>1. answered[q] = 0 /\ q < counter /\ Held0(q) /\ Sent0(q) /\ Queued0(q) /\ Replied1(q)
    BY <1>2, <1>6, <1>7 DEF Stage
  <2> QED BY <1>2, <1>4, <1>5, <1>7, <2>1 DEF Stage
<1>8. CASE m.query # q
  BY <1>2, <1>4, <1>5, <1>6, <1>8, StageKept
<1> QED BY <1>7, <1>8

LEMMA ReceiveFailStage ==
  ASSUME IInv, StageInv, NEW e \in Engines, ReceiveFail(e)
  PROVE  StageInv'
<1> SUFFICES ASSUME NEW q \in Queries
             PROVE  Stage(q)'
  BY DEF StageInv
<1> DEFINE m == Head(replies[dsid[e]][e[1]])
<1>1. replies[dsid[e]][e[1]] # << >> /\ TakeReply(e) /\ m.type = "dequeue_fail"
  BY DEF ReceiveFail
<1>2. m \in Reply
  BY <1>1, TakeReplyType
<1>3. /\ Replied0(q) => m.query # q /\ Replied0(q)'
      /\ Replied1(q) /\ m.query # q => Replied1(q)'
  BY <1>1, TakeReplyStep
<1> HIDE DEF m
<1>4. m.query # q
  BY <1>1, <1>2, QueryFacts DEF Reply
<1>5. /\ Sent0(q) => Sent0(q)'
      /\ Sent1(q) => Sent1(q)'
      /\ Queued0(q) => Queued0(q)'
      /\ Queued1(q) => Queued1(q)'
      /\ Held0(q) => Held0(q)'
      /\ Held1(q) => Held1(q)'
      /\ answered' = answered /\ counter' = counter
  BY SentSame, QueuedSame, HeldSame DEF ReceiveFail, searchVars
<1>6. Stage(q)
  BY DEF StageInv
<1> QED BY <1>3, <1>4, <1>5, <1>6, StageKept

LEMMA SearchStage ==
  ASSUME IInv, StageInv, NEW e \in Engines, Search(e)
  PROVE  StageInv' /\ answered[held[e]] = 0
<1>1. held[e] \in Queries /\ answered \in [Queries -> Nat]
  BY DEF IInv, TypeOK, HeldInv, Search
<1>2. Held1(held[e]) /\ answered[held[e]] = 0
  <2>1. ~ Held0(held[e])
    BY DEF Held0
  <2>2. Stage(held[e])
    BY <1>1 DEF StageInv
  <2> QED BY <2>1, <2>2 DEF Stage
<1> SUFFICES ASSUME NEW q \in Queries
             PROVE  Stage(q)'
  BY <1>2 DEF StageInv
<1>3. q # NoQuery /\ held' = [held EXCEPT ![e] = NoQuery]
  BY QueryFacts DEF Search
<1>4. /\ Held0(q) => held[e] # q
      /\ Held0(q) => Held0(q)'
      /\ Held1(q) /\ held[e] # q => Held1(q)'
      /\ Held1(q) /\ held[e] = q => Held0(q)'
  BY <1>3, HeldStep
<1>5. /\ Sent0(q) => Sent0(q)'
      /\ Sent1(q) => Sent1(q)'
      /\ Queued0(q) => Queued0(q)'
      /\ Queued1(q) => Queued1(q)'
      /\ Replied0(q) => Replied0(q)'
      /\ Replied1(q) => Replied1(q)'
      /\ counter' = counter
  BY SentSame, QueuedSame, RepliedSame DEF Search, channelVars
<1>6. answered'[q] = IF q = held[e] THEN answered[q] + 1 ELSE answered[q]
  BY <1>1 DEF Search
<1>7. Stage(q)
  BY DEF StageInv
<1>8. CASE held[e] = q
  <2>1. answered[q] = 0 /\ q < counter /\ Held1(q) /\ Sent0(q) /\ Queued0(q) /\ Replied0(q)
    BY <1>4, <1>7, <1>8 DEF Stage
  <2>2. answered'[q] = 1
    BY <1>6, <1>8, <2>1
  <2> QED BY <1>4, <1>5, <1>8, <2>1, <2>2 DEF Stage
<1>9. CASE held[e] # q
  BY <1>4, <1>5, <1>6, <1>7, <1>9, StageKept
<1> QED BY <1>8, <1>9

LEMMA ProxyEnqueueStage ==
  ASSUME IInv, StageInv, NEW d \in Servers, NEW e \in Engines, ProxyEnqueue(d, e)
  PROVE  /\ StageInv'
         /\ taskQueue' = [taskQueue EXCEPT ![d] = Append(@, Head(toProxy[e][d]).query)]
<1> DEFINE m == Head(toProxy[e][d])
<1>1. TakeMsg(d, e) /\ m.type = "enqueue" /\ m \in ProxyMsg
  BY TakeMsgType DEF ProxyEnqueue
<1>2. m.query \in Queries
  BY <1>1 DEF ProxyMsg
<1>3. \A q \in Queries : /\ Sent0(q) => m.query # q /\ Sent0(q)'
                         /\ Sent1(q) /\ m.query # q => Sent1(q)'
                         /\ Sent1(q) /\ m.query = q => Sent0(q)'
  BY <1>1, TakeStep
<1>4. taskQueue' = [taskQueue EXCEPT ![d] = PushBack(@, m.query)]
  BY DEF ProxyEnqueue
<1> HIDE DEF m
<1>5. /\ answered[m.query] = 0 /\ m.query < counter /\ Held0(m.query)
      /\ Sent1(m.query) /\ Queued0(m.query) /\ Replied0(m.query)
  BY <1>2, <1>3 DEF StageInv, Stage
<1>6. Len(taskQueue[d]) < QueryNum
  BY <1>2, <1>5, RoomLeft
<1>7. taskQueue' = [taskQueue EXCEPT ![d] = Append(@, m.query)]
  BY <1>4, <1>6 DEF PushBack
<1>8. taskQueue[d] \in Seq(Queries)
  BY DEF IInv, TypeOK
<1>9. ASSUME NEW q \in Queries
      PROVE  Stage(q)'
  <2> DEFINE new == Append(taskQueue[d], m.query)
  <2>1. /\ NotQueued(taskQueue[d], q) /\ m.query # q => NotQueued(new, q)
        /\ QueuedOnce(taskQueue[d], q) /\ m.query # q => QueuedOnce(new, q)
        /\ NotQueued(taskQueue[d], q) /\ m.query = q => QueuedOnce(new, q)
    BY <1>2, <1>8, AppendQueued
  <2>2. taskQueue' = [taskQueue EXCEPT ![d] = new]
    BY <1>7
  <2> HIDE DEF new
  <2>3. /\ Queued0(q) /\ m.query # q => Queued0(q)'
        /\ Queued0(q) /\ m.query = q => Queued1(q)'
    BY <2>1, <2>2, QueueNone
  <2>4. Queued1(q) /\ m.query # q => Queued1(q)'
    BY <2>1, <2>2, QueueOne
  <2>5. /\ Held0(q) => Held0(q)'
        /\ Held1(q) => Held1(q)'
        /\ Replied0(q) => Replied0(q)'
        /\ Replied1(q) => Replied1(q)'
        /\ answered' = answered /\ counter' = counter
    BY HeldSame, RepliedSame DEF ProxyEnqueue, engineVars, searchVars
  <2>6. CASE m.query = q
    BY <1>3, <1>5, <2>3, <2>5, <2>6 DEF Stage
  <2>7. CASE m.query # q
    BY <1>3, <2>3, <2>4, <2>5, <2>7, StageKept DEF StageInv
  <2> QED BY <2>6, <2>7
<1> QED BY <1>7, <1>9 DEF StageInv, m

(* A dequeue: the query x leaves the queue of d, of which t remains, and goes
   to rank s. *)
LEMMA TakeAnyStep ==
  ASSUME IInv, NEW d \in Servers, NEW e \in Engines, TakeMsg(d, e),
         Head(toProxy[e][d]).type # "enqueue", NEW q \in Queries
  PROVE  (Sent0(q) => Sent0(q)') /\ (Sent1(q) => Sent1(q)')
<1> DEFINE m == Head(toProxy[e][d])
<1>1. m \in ProxyMsg /\ m.type # "enqueue"
  BY TakeMsgType
<1>2. m.query # q
  BY <1>1, QueryFacts DEF ProxyMsg
<1>3. /\ Sent0(q) => m.query # q /\ Sent0(q)'
      /\ Sent1(q) /\ m.query # q => Sent1(q)'
  BY TakeStep
<1> QED BY <1>2, <1>3

LEMMA DequeueStage ==
  ASSUME IInv, StageInv, NEW d \in Servers, NEW e \in Engines, TakeMsg(d, e),
         Head(toProxy[e][d]).type # "enqueue",
         NEW x \in Queries, NEW t,
         SendReply(d, e[1], "dequeue_succ", x),
         taskQueue' = [taskQueue EXCEPT ![d] = t],
         ~ NotQueued(taskQueue[d], x),
         \A q : /\ NotQueued(taskQueue[d], q) => NotQueued(t, q)
                /\ QueuedOnce(taskQueue[d], q) /\ x # q => QueuedOnce(t, q)
                /\ QueuedOnce(taskQueue[d], q) /\ x = q => NotQueued(t, q),
         UNCHANGED <<counter, engineVars, proxy, searchVars, mainVars>>
  PROVE  StageInv'
<1> SUFFICES ASSUME NEW q \in Queries
             PROVE  Stage(q)'
  BY DEF StageInv
<1>1. (Sent0(q) => Sent0(q)') /\ (Sent1(q) => Sent1(q)')
  BY TakeAnyStep
<1>2. e[1] \in Servers /\ [type |-> "dequeue_succ", query |-> x] \in Reply
  BY DEF Engines, Reply
<1>3. /\ Replied0(q) /\ x # q => Replied0(q)'
      /\ Replied0(q) /\ x = q => Replied1(q)'
      /\ Replied1(q) /\ x # q => Replied1(q)'
  BY <1>2, ReplyStep
<1>4. /\ NotQueued(taskQueue[d], q) => NotQueued(t, q) /\ x # q
      /\ QueuedOnce(taskQueue[d], q) /\ x # q => QueuedOnce(t, q)
      /\ QueuedOnce(taskQueue[d], q) /\ x = q => NotQueued(t, q)
  OBVIOUS
<1>5. Queued0(q) => Queued0(q)' /\ x # q
  BY <1>4, QueueNone
<1>6. /\ Queued1(q) /\ x # q => Queued1(q)'
      /\ Queued1(q) /\ x = q => Queued0(q)'
  BY <1>4, QueueOne
<1>7. /\ Held0(q) => Held0(q)'
      /\ Held1(q) => Held1(q)'
      /\ answered' = answered /\ counter' = counter
  BY HeldSame DEF engineVars, searchVars
<1>8. Stage(q)
  BY DEF StageInv
<1>9. CASE x = q
  <2>1. answered[q] = 0 /\ q < counter /\ Held0(q) /\ Sent0(q) /\ Queued1(q) /\ Replied0(q)
    BY <1>5, <1>8, <1>9 DEF Stage
  <2> QED BY <1>1, <1>3, <1>6, <1>7, <1>9, <2>1 DEF Stage
<1>10. CASE x # q
  BY <1>1, <1>3, <1>5, <1>6, <1>7, <1>8, <1>10, StageKept
<1> QED BY <1>9, <1>10

LEMMA ProxyDequeueHighStage ==
  ASSUME IInv, StageInv, NEW d \in Servers, NEW e \in Engines, ProxyDequeueHigh(d, e)
  PROVE  StageInv'
<1> DEFINE queue == taskQueue[d]
<1> DEFINE x == queue[Len(queue)]
<1> DEFINE t == SubSeq(queue, 1, Len(queue) - 1)
<1>1. queue \in Seq(Queries) /\ queue # << >>
  BY DEF IInv, TypeOK, ProxyDequeueHigh
<1>2. x \in Queries
  BY <1>1, FrontFacts
<1>3. \A q : /\ NotQueued(queue, q) => NotQueued(t, q)
             /\ QueuedOnce(queue, q) /\ x # q => QueuedOnce(t, q)
             /\ QueuedOnce(queue, q) /\ x = q => NotQueued(t, q)
             /\ x = q => ~ NotQueued(queue, q)
  BY <1>1, FrontQueued
<1>4. /\ TakeMsg(d, e) /\ Head(toProxy[e][d]).type # "enqueue"
      /\ SendReply(d, e[1], "dequeue_succ", x)
      /\ taskQueue' = [taskQueue EXCEPT ![d] = t]
      /\ UNCHANGED <<counter, engineVars, proxy, searchVars, mainVars>>
  BY DEF ProxyDequeueHigh
<1>5. ~ NotQueued(queue, x)
  BY <1>3
<1> HIDE DEF x, t
<1> QED BY <1>2, <1>3, <1>4, <1>5, DequeueStage

LEMMA ProxyDequeueLowStage ==
  ASSUME IInv, StageInv, NEW d \in Servers, NEW e \in Engines, ProxyDequeueLow(d, e)
  PROVE  StageInv'
<1> DEFINE queue == taskQueue[d]
<1> DEFINE x == Head(queue)
<1> DEFINE t == Tail(queue)
<1>1. queue \in Seq(Queries) /\ queue # << >>
  BY DEF IInv, TypeOK, ProxyDequeueLow
<1>2. x \in Queries
  BY <1>1
<1>3. \A q : /\ NotQueued(queue, q) => NotQueued(t, q)
             /\ QueuedOnce(queue, q) /\ x # q => QueuedOnce(t, q)
             /\ QueuedOnce(queue, q) /\ x = q => NotQueued(t, q)
             /\ x = q => ~ NotQueued(queue, q)
  BY <1>1, TailQueued
<1>4. /\ TakeMsg(d, e) /\ Head(toProxy[e][d]).type # "enqueue"
      /\ SendReply(d, e[1], "dequeue_succ", x)
      /\ taskQueue' = [taskQueue EXCEPT ![d] = t]
      /\ UNCHANGED <<counter, engineVars, proxy, searchVars, mainVars>>
  BY DEF ProxyDequeueLow
<1>5. ~ NotQueued(queue, x)
  BY <1>3
<1> HIDE DEF x, t
<1> QED BY <1>2, <1>3, <1>4, <1>5, DequeueStage

LEMMA ProxyDequeueFailStage ==
  ASSUME IInv, StageInv, NEW d \in Servers, NEW e \in Engines, ProxyDequeueFail(d, e)
  PROVE  StageInv'
<1> SUFFICES ASSUME NEW q \in Queries
             PROVE  Stage(q)'
  BY DEF StageInv
<1>1. (Sent0(q) => Sent0(q)') /\ (Sent1(q) => Sent1(q)')
  BY TakeAnyStep DEF ProxyDequeueFail
<1>2. /\ e[1] \in Servers /\ [type |-> "dequeue_fail", query |-> NoQuery] \in Reply
      /\ NoQuery # q
  BY QueryFacts DEF Engines, Reply
<1>3. (Replied0(q) => Replied0(q)') /\ (Replied1(q) => Replied1(q)')
  BY <1>2, ReplyStep DEF ProxyDequeueFail
<1>4. /\ Held0(q) => Held0(q)'
      /\ Held1(q) => Held1(q)'
      /\ Queued0(q) => Queued0(q)'
      /\ Queued1(q) => Queued1(q)'
      /\ answered' = answered /\ counter' = counter
  BY HeldSame, QueuedSame DEF ProxyDequeueFail, engineVars, searchVars
<1> QED BY <1>1, <1>3, <1>4, StageKept DEF StageInv

(* The other steps move no query. *)
LEMMA StillStage ==
  ASSUME StageInv, UNCHANGED <<counter, held, channelVars, taskQueue, answered>>
  PROVE  StageInv'
BY DEF StageInv, Stage, Held0, Held1, Sent0, Sent1, Queued0, Queued1, Replied0, Replied1,
       channelVars

LEMMA NextStage == IInv /\ StageInv /\ [Next]_vars => StageInv'
<1> SUFFICES ASSUME IInv, StageInv, [Next]_vars
             PROVE  StageInv'
  OBVIOUS
<1>1. ASSUME NEW e \in Engines, Engine(e)
      PROVE  StageInv'
  <2>1. CASE Finish(e)
    BY <2>1, StillStage DEF Finish, searchVars
  <2> QED BY <1>1, <2>1, FetchAddStage, DispatchStage, AskStage, ReceiveSuccStage,
             ReceiveFailStage, SearchStage DEF Engine
<1>2. ASSUME NEW d \in Servers, Proxy(d)
      PROVE  StageInv'
  <2>1. CASE ProxyStop(d)
    BY <2>1, StillStage DEF ProxyStop, engineVars, searchVars
  <2> QED BY <1>2, <2>1, ProxyEnqueueStage, ProxyDequeueHighStage, ProxyDequeueLowStage,
             ProxyDequeueFailStage DEF Proxy
<1>3. ASSUME NEW s \in Servers, Main(s)
      PROVE  StageInv'
  <2>1. UNCHANGED <<counter, engineVars, channelVars, taskQueue, searchVars>>
    BY <1>3 DEF Main, Join, StartGather, GatherReceive, EndGather, SendStop, JoinProxy
  <2> QED BY <2>1, StillStage DEF engineVars, searchVars
<1>4. CASE UNCHANGED vars
  BY <1>4, StillStage DEF vars, engineVars, searchVars
<1> QED BY <1>1, <1>2, <1>3, <1>4 DEF Next, Terminating

-----------------------------------------------------------------------------
(* The places of a query, by stage *)

HeldPlaces(q) == {<<"held", e>> : e \in {f \in Engines : held[f] = q}}
ChannelPlaces(where, F, A, B, q) ==
  UNION {{<<where, c, i>> : i \in MsgOccurrences(F[c[1]][c[2]], q)} : c \in A \X B}
QueuePlaces(q) ==
  UNION {{<<"queued", d, i>> : i \in Occurrences(taskQueue[d], q)} : d \in Servers}

LEMMA PlacesParts ==
  ASSUME NEW q
  PROVE  Places(q) = HeldPlaces(q)
                       \cup ChannelPlaces("sent", toProxy, Engines, Servers, q)
                       \cup QueuePlaces(q)
                       \cup ChannelPlaces("replied", replies, Servers, Servers, q)
BY DEF Places, HeldPlaces, ChannelPlaces, QueuePlaces

LEMMA HeldPlace ==
  ASSUME NEW q
  PROVE  /\ Held0(q) => HeldPlaces(q) = {}
         /\ Held1(q) => \E x : HeldPlaces(q) = {x}
<1>1. Held0(q) => HeldPlaces(q) = {}
  BY DEF Held0, HeldPlaces
<1>2. ASSUME Held1(q)
      PROVE  \E x : HeldPlaces(q) = {x}
  <2>1. PICK e \in Engines : \A f \in Engines : held[f] = q <=> f = e
    BY <1>2 DEF Held1
  <2>2. {f \in Engines : held[f] = q} = {e}
    BY <2>1
  <2>3. HeldPlaces(q) = {<<"held", e>>}
    BY <2>2 DEF HeldPlaces
  <2> QED BY <2>3
<1> QED BY <1>1, <1>2

LEMMA ChannelPlace ==
  ASSUME NEW where, NEW F, NEW A, NEW B, NEW q
  PROVE  /\ NoneOf(F, A, B, q) => ChannelPlaces(where, F, A, B, q) = {}
         /\ OneOf(F, A, B, q) => \E x : ChannelPlaces(where, F, A, B, q) = {x}
<1>1. ASSUME NoneOf(F, A, B, q)
      PROVE  ChannelPlaces(where, F, A, B, q) = {}
  <2>1. \A c \in A \X B : MsgOccurrences(F[c[1]][c[2]], q) = {}
    BY <1>1 DEF NoneOf, NotIn, MsgOccurrences
  <2> QED BY <2>1 DEF ChannelPlaces
<1>2. ASSUME OneOf(F, A, B, q)
      PROVE  \E x : ChannelPlaces(where, F, A, B, q) = {x}
  <2>1. PICK a \in A, b \in B :
          /\ OnceIn(F[a][b], q)
          /\ \A c \in A, d \in B : c # a \/ d # b => NotIn(F[c][d], q)
    BY <1>2 DEF OneOf
  <2>2. PICK i \in DOMAIN F[a][b] : \A j \in DOMAIN F[a][b] : F[a][b][j].query = q <=> j = i
    BY <2>1 DEF OnceIn
  <2>3. MsgOccurrences(F[a][b], q) = {i}
    BY <2>2 DEF MsgOccurrences
  <2>4. \A c \in (A \X B) \ {<<a, b>>} : MsgOccurrences(F[c[1]][c[2]], q) = {}
    BY <2>1 DEF NotIn, MsgOccurrences
  <2> DEFINE Occ(c) == MsgOccurrences(F[c[1]][c[2]], q)
  <2>5. /\ <<a, b>> \in A \X B
        /\ Occ(<<a, b>>) = {i}
        /\ \A c \in A \X B : c # <<a, b>> => Occ(c) = {}
    BY <2>3, <2>4
  <2> HIDE DEF Occ
  <2>6. UNION {{<<where, c, k>> : k \in Occ(c)} : c \in A \X B} = {<<where, <<a, b>>, i>>}
    <3>1. \A c \in A \X B : \A k : k \in Occ(c) => c = <<a, b>> /\ k = i
      BY <2>5
    <3>2. i \in Occ(<<a, b>>)
      BY <2>5
    <3> QED BY <2>5, <3>1, <3>2
  <2>7. ChannelPlaces(where, F, A, B, q) = {<<where, <<a, b>>, i>>}
    BY <2>6 DEF ChannelPlaces, Occ
  <2> QED BY <2>7
<1> QED BY <1>1, <1>2

LEMMA QueuePlace ==
  ASSUME NEW q
  PROVE  /\ Queued0(q) => QueuePlaces(q) = {}
         /\ Queued1(q) => \E x : QueuePlaces(q) = {x}
<1>1. ASSUME Queued0(q)
      PROVE  QueuePlaces(q) = {}
  <2>1. \A d \in Servers : Occurrences(taskQueue[d], q) = {}
    BY <1>1 DEF Queued0, NotQueued, Occurrences
  <2> QED BY <2>1 DEF QueuePlaces
<1>2. ASSUME Queued1(q)
      PROVE  \E x : QueuePlaces(q) = {x}
  <2>1. PICK d \in Servers : /\ QueuedOnce(taskQueue[d], q)
                             /\ \A c \in Servers \ {d} : NotQueued(taskQueue[c], q)
    BY <1>2 DEF Queued1
  <2>2. PICK i \in DOMAIN taskQueue[d] : \A j \in DOMAIN taskQueue[d] : taskQueue[d][j] = q <=> j = i
    BY <2>1 DEF QueuedOnce
  <2>3. Occurrences(taskQueue[d], q) = {i}
    BY <2>2 DEF Occurrences
  <2>4. \A c \in Servers \ {d} : Occurrences(taskQueue[c], q) = {}
    BY <2>1 DEF NotQueued, Occurrences
  <2>5. QueuePlaces(q) = {<<"queued", d, i>>}
    BY <2>3, <2>4 DEF QueuePlaces
  <2> QED BY <2>5
<1> QED BY <1>1, <1>2

LEMMA InOnePlace == IInv /\ StageInv => EveryQueryInOnePlace
<1> SUFFICES ASSUME IInv, StageInv, NEW q \in Queries
             PROVE  Cardinality(Places(q)) + answered[q] = IF q < counter THEN 1 ELSE 0
  BY DEF EveryQueryInOnePlace
<1> DEFINE H == HeldPlaces(q)
<1> DEFINE S == ChannelPlaces("sent", toProxy, Engines, Servers, q)
<1> DEFINE Q == QueuePlaces(q)
<1> DEFINE R == ChannelPlaces("replied", replies, Servers, Servers, q)
<1>1. Places(q) = H \cup S \cup Q \cup R
  BY PlacesParts
<1>2. (Held0(q) => H = {}) /\ (Held1(q) => \E x : H = {x})
  BY HeldPlace
<1>3. (Sent0(q) => S = {}) /\ (Sent1(q) => \E x : S = {x})
  BY ChannelPlace DEF Sent0, Sent1
<1>4. (Queued0(q) => Q = {}) /\ (Queued1(q) => \E x : Q = {x})
  BY QueuePlace
<1>5. (Replied0(q) => R = {}) /\ (Replied1(q) => \E x : R = {x})
  BY ChannelPlace DEF Replied0, Replied1
<1>6. Stage(q) /\ q \in Nat /\ counter \in Nat
  BY QueryFacts DEF StageInv, IInv, TypeOK
<1>7. \A x : Cardinality({x}) = 1
  BY FS_Singleton
<1>8. Cardinality({}) = 0
  BY FS_EmptySet
<1> HIDE DEF H, S, Q, R
<1>9. \/ answered[q] = 0 /\ q >= counter /\ Places(q) = {}
      \/ answered[q] = 0 /\ q < counter /\ \E x : Places(q) = {x}
      \/ answered[q] = 1 /\ q < counter /\ Places(q) = {}
  BY <1>1, <1>2, <1>3, <1>4, <1>5, <1>6 DEF Stage
<1>10. CASE answered[q] = 0 /\ q < counter /\ \E x : Places(q) = {x}
  <2>1. Cardinality(Places(q)) = 1
    BY <1>7, <1>10
  <2> QED BY <1>10, <2>1
<1>11. CASE Places(q) = {}
  <2>1. Cardinality(Places(q)) = 0
    BY <1>8, <1>11
  <2>2. \/ answered[q] = 0 /\ ~ q < counter
        \/ answered[q] = 1 /\ q < counter
        \/ answered[q] = 0 /\ q < counter /\ \E x : Places(q) = {x}
    BY <1>6, <1>9
  <2> QED BY <1>10, <2>1, <2>2
<1> QED BY <1>9, <1>10, <1>11

-----------------------------------------------------------------------------
(* Waiting threads, requests and replies *)

LEMMA MatchedReplies == MatchedInv => RepliesMatchWaiters
BY DEF RepliesMatchWaiters, MatchedInv, Matched

LEMMA WaitingFinite ==
  ASSUME NEW s, NEW d
  PROVE  IsFiniteSet(Waiting(s, d)) /\ Cardinality(Waiting(s, d)) \in Nat
<1>1. Waiting(s, d) \in SUBSET Threads
  BY DEF Waiting
<1>2. IsFiniteSet(Waiting(s, d))
  BY <1>1, ThreadsAssumption, FS_Subset
<1> QED BY <1>2, FS_CardinalityType

LEMMA EnginePair ==
  ASSUME NEW e \in Engines
  PROVE  /\ e[1] \in Servers /\ e[2] \in Threads /\ e = <<e[1], e[2]>>
         /\ \A s, t : <<s, t>> = e <=> s = e[1] /\ t = e[2]
BY DEF Engines

LEMMA PairEngine ==
  ASSUME NEW s \in Servers, NEW t \in Threads
  PROVE  <<s, t>> \in Engines
BY DEF Engines

(* The requests of a family C of channels, to reason about two states. *)
RequestsOf(C, s, d) ==
  UNION {{<<t, i>> : i \in MsgOccurrences(C[<<s, t>>][d], NoQuery)} : t \in Threads}

RequestIn(C, s, d, t, i) ==
  t \in Threads /\ i \in DOMAIN C[<<s, t>>][d] /\ C[<<s, t>>][d][i].query = NoQuery

LEMMA RequestsBoth ==
  ASSUME NEW s, NEW d
  PROVE  /\ Requests(s, d) = RequestsOf(toProxy, s, d)
         /\ Requests(s, d)' = RequestsOf(toProxy', s, d)
BY DEF Requests, RequestsOf, MsgOccurrences

LEMMA RequestsElements ==
  ASSUME NEW C, NEW s, NEW d
  PROVE  /\ \A t, i : <<t, i>> \in RequestsOf(C, s, d) <=> RequestIn(C, s, d, t, i)
         /\ \A x \in RequestsOf(C, s, d) : \E t, i : x = <<t, i>>
<1>1. \A x : x \in RequestsOf(C, s, d) <=>
               \E t \in Threads : \E i \in MsgOccurrences(C[<<s, t>>][d], NoQuery) : x = <<t, i>>
  <2> DEFINE At(t) == MsgOccurrences(C[<<s, t>>][d], NoQuery)
  <2> DEFINE Of(t) == {<<t, i>> : i \in At(t)}
  <2>1. RequestsOf(C, s, d) = UNION {Of(t) : t \in Threads}
    BY DEF RequestsOf
  <2> HIDE DEF Of
  <2>2. \A x : x \in UNION {Of(t) : t \in Threads} <=> \E t \in Threads : x \in Of(t)
    OBVIOUS
  <2> HIDE DEF At
  <2>3. \A x : x \in RequestsOf(C, s, d) <=> \E t \in Threads : \E i \in At(t) : x = <<t, i>>
    BY <2>1, <2>2 DEF Of
  <2> QED BY <2>3 DEF At
<1>2. \A t, i : i \in MsgOccurrences(C[<<s, t>>][d], NoQuery) <=>
                  i \in DOMAIN C[<<s, t>>][d] /\ C[<<s, t>>][d][i].query = NoQuery
  BY DEF MsgOccurrences
<1>3. \A t, i : <<t, i>> \in RequestsOf(C, s, d) <=>
                  t \in Threads /\ i \in MsgOccurrences(C[<<s, t>>][d], NoQuery)
  <2> TAKE t, i
  <2>1. <<t, i>> \in RequestsOf(C, s, d) <=>
          \E v \in Threads : \E j \in MsgOccurrences(C[<<s, v>>][d], NoQuery) : <<t, i>> = <<v, j>>
    BY <1>1
  <2>2. \A v, j : <<t, i>> = <<v, j>> <=> t = v /\ i = j
    OBVIOUS
  <2> QED BY <2>1, <2>2, Zenon
<1>4. \A t, i : <<t, i>> \in RequestsOf(C, s, d) <=> RequestIn(C, s, d, t, i)
  BY <1>2, <1>3 DEF RequestIn
<1>5. \A x \in RequestsOf(C, s, d) : \E t, i : x = <<t, i>>
  BY <1>1
<1> QED BY <1>4, <1>5

SameRequests(C, D, s, d) == \A t \in Threads : D[<<s, t>>][d] = C[<<s, t>>][d]

LEMMA RequestsSame ==
  ASSUME NEW C, NEW D, NEW s, NEW d, SameRequests(C, D, s, d)
  PROVE  RequestsOf(D, s, d) = RequestsOf(C, s, d)
<1>1. \A t, i : RequestIn(C, s, d, t, i) <=> RequestIn(D, s, d, t, i)
  BY DEF RequestIn, SameRequests
<1>2. \A x : x \in RequestsOf(C, s, d) <=> x \in RequestsOf(D, s, d)
  BY <1>1, RequestsElements
<1> QED BY <1>2

(* The channel that a thread sends on, or a proxy receives from, is the only
   one that changes. *)
LEMMA OtherChannels ==
  ASSUME IInv, NEW e \in Engines, NEW d \in Servers, NEW u,
         toProxy' = [toProxy EXCEPT ![e][d] = u],
         NEW s \in Servers, NEW c \in Servers, s # e[1] \/ c # d
  PROVE  Requests(s, c)' = Requests(s, c)
<1>1. SameRequests(toProxy, toProxy', s, c)
  BY EnginePair, PairEngine DEF IInv, TypeOK, SameRequests
<1>2. RequestsOf(toProxy', s, c) = RequestsOf(toProxy, s, c)
  BY <1>1, RequestsSame
<1> QED BY <1>2, RequestsBoth

LEMMA AppendRequest ==
  ASSUME IInv, NEW e \in Engines, NEW d \in Servers, NEW m \in ProxyMsg,
         toProxy' = [toProxy EXCEPT ![e][d] = Append(@, m)],
         IsFiniteSet(Requests(e[1], d))
  PROVE  /\ IsFiniteSet(Requests(e[1], d)')
         /\ Cardinality(Requests(e[1], d)')
              = Cardinality(Requests(e[1], d)) + IF m.query = NoQuery THEN 1 ELSE 0
<1> DEFINE s == e[1]
<1> DEFINE n == Len(toProxy[e][d])
<1> DEFINE C == toProxy
<1> DEFINE D == toProxy'
<1> DEFINE u == e[2]
<1>0. s \in Servers /\ e = <<s, u>> /\ u \in Threads
  BY EnginePair
<1>1. /\ n \in Nat /\ DOMAIN C[e][d] = 1 .. n
      /\ DOMAIN D[e][d] = 1 .. n + 1
      /\ \A i \in 1 .. n : D[e][d][i] = C[e][d][i]
      /\ D[e][d][n + 1] = m
  <2>1. toProxy[e][d] \in Seq(ProxyMsg)
    BY DEF IInv, TypeOK
  <2>2. toProxy'[e][d] = Append(toProxy[e][d], m)
    BY DEF IInv, TypeOK
  <2> QED BY <2>1, <2>2, AppendFacts
<1>2. \A t \in Threads : t # u => D[<<s, t>>][d] = C[<<s, t>>][d]
  BY EnginePair, PairEngine DEF IInv, TypeOK
<1>3. Requests(s, d) = RequestsOf(C, s, d) /\ Requests(s, d)' = RequestsOf(D, s, d)
  BY RequestsBoth
<1> HIDE DEF n, s, C, D, u
<1>4. \A t, i : RequestIn(D, s, d, t, i) <=> \/ RequestIn(C, s, d, t, i)
                                             \/ t = u /\ i = n + 1 /\ m.query = NoQuery
  <2> TAKE t, i
  <2>1. CASE t # u
    BY <1>2, <2>1 DEF RequestIn
  <2>2. CASE t = u
    <3>1. <<s, t>> = e
      BY <1>0, <2>2
    <3>2. /\ i \in DOMAIN D[e][d] <=> i \in DOMAIN C[e][d] \/ i = n + 1
          /\ i \in DOMAIN C[e][d] => D[e][d][i] = C[e][d][i] /\ i # n + 1
          /\ i = n + 1 => D[e][d][i] = m
      BY <1>1
    <3> QED BY <1>0, <2>2, <3>1, <3>2 DEF RequestIn
  <2> QED BY <2>1, <2>2
<1>5. ~ RequestIn(C, s, d, u, n + 1)
  BY <1>0, <1>1 DEF RequestIn
<1>6. CASE m.query = NoQuery
  <2>1. RequestsOf(D, s, d) = RequestsOf(C, s, d) \cup {<<u, n + 1>>}
    <3>1. \A x : x \in RequestsOf(D, s, d) <=> x \in RequestsOf(C, s, d) \/ x = <<u, n + 1>>
      BY <1>4, <1>6, RequestsElements
    <3> QED BY <3>1
  <2>2. <<u, n + 1>> \notin RequestsOf(C, s, d)
    BY <1>5, RequestsElements
  <2>3. IsFiniteSet(RequestsOf(C, s, d))
    BY <1>3 DEF s
  <2>4. /\ IsFiniteSet(RequestsOf(D, s, d))
        /\ Cardinality(RequestsOf(D, s, d)) = Cardinality(RequestsOf(C, s, d)) + 1
    BY <2>1, <2>2, <2>3, FS_AddElement
  <2> QED BY <1>3, <1>6, <2>4 DEF s
<1>7. CASE m.query # NoQuery
  <2>1. \A x : x \in RequestsOf(D, s, d) <=> x \in RequestsOf(C, s, d)
    BY <1>4, <1>7, RequestsElements
  <2>2. RequestsOf(D, s, d) = RequestsOf(C, s, d)
    BY <2>1
  <2>3. Cardinality(Requests(s, d)) \in Nat
    BY FS_CardinalityType DEF s
  <2> QED BY <1>3, <1>7, <2>2, <2>3 DEF s
<1> QED BY <1>6, <1>7

LEMMA SameCardinality ==
  ASSUME NEW S, NEW T, NEW f \in [S -> T], IsFiniteSet(S),
         \A a, b \in S : f[a] = f[b] => a = b,
         \A t \in T : \E a \in S : f[a] = t
  PROVE  IsFiniteSet(T) /\ Cardinality(T) = Cardinality(S)
<1>1. f \in Bijection(S, T)
  BY Fun_IsBij
<1>2. ExistsBijection(S, T)
  BY <1>1 DEF ExistsBijection
<1> QED BY <1>2, FS_Bijection

LEMMA TakeRequest ==
  ASSUME IInv, NEW d \in Servers, NEW e \in Engines, TakeMsg(d, e),
         IsFiniteSet(Requests(e[1], d))
  PROVE  /\ IsFiniteSet(Requests(e[1], d)')
         /\ Cardinality(Requests(e[1], d)')
              = Cardinality(Requests(e[1], d))
                  - IF Head(toProxy[e][d]).query = NoQuery THEN 1 ELSE 0
<1> DEFINE s == e[1]
<1> DEFINE n == Len(toProxy[e][d])
<1> DEFINE C == toProxy
<1> DEFINE D == toProxy'
<1> DEFINE u == e[2]
<1> DEFINE m == Head(toProxy[e][d])
<1>0. s \in Servers /\ e = <<s, u>> /\ u \in Threads
  BY EnginePair
<1>1. /\ n \in Nat \ {0} /\ DOMAIN C[e][d] = 1 .. n
      /\ DOMAIN D[e][d] = 1 .. n - 1
      /\ \A i \in 1 .. n - 1 : D[e][d][i] = C[e][d][i + 1]
      /\ C[e][d][1] = m
  <2>1. toProxy[e][d] \in Seq(ProxyMsg) /\ toProxy[e][d] # << >>
    BY DEF IInv, TypeOK, TakeMsg
  <2>2. toProxy'[e][d] = Tail(toProxy[e][d])
    BY DEF IInv, TypeOK, TakeMsg
  <2> QED BY <2>1, <2>2, TailFacts
<1>2. \A t \in Threads : t # u => D[<<s, t>>][d] = C[<<s, t>>][d]
  BY EnginePair, PairEngine DEF IInv, TypeOK, TakeMsg
<1>3. Requests(s, d) = RequestsOf(C, s, d) /\ Requests(s, d)' = RequestsOf(D, s, d)
  BY RequestsBoth
<1> DEFINE P == RequestsOf(C, s, d)
<1> DEFINE Q == RequestsOf(D, s, d)
<1>4. IsFiniteSet(P) /\ Cardinality(P) \in Nat
  BY <1>3, FS_CardinalityType
<1> HIDE DEF n, s, C, D, u, m
<1>5. \A t, i : /\ t # u => (RequestIn(D, s, d, t, i) <=> RequestIn(C, s, d, t, i))
                /\ RequestIn(D, s, d, u, i) => i \in 1 .. n - 1 /\ RequestIn(C, s, d, u, i + 1)
                /\ RequestIn(C, s, d, u, i) => i \in 1 .. n
                /\ RequestIn(C, s, d, u, i) /\ i # 1 => RequestIn(D, s, d, u, i - 1)
  <2> TAKE t, i
  <2>1. t # u => (RequestIn(D, s, d, t, i) <=> RequestIn(C, s, d, t, i))
    BY <1>2 DEF RequestIn
  <2>2. RequestIn(D, s, d, u, i) => i \in 1 .. n - 1 /\ RequestIn(C, s, d, u, i + 1)
    <3>1. i \in 1 .. n - 1 => i + 1 \in 1 .. n /\ D[e][d][i] = C[e][d][i + 1]
      BY <1>1
    <3> QED BY <1>0, <1>1, <3>1 DEF RequestIn
  <2>3. RequestIn(C, s, d, u, i) => i \in 1 .. n
    BY <1>0, <1>1 DEF RequestIn
  <2>4. RequestIn(C, s, d, u, i) /\ i # 1 => RequestIn(D, s, d, u, i - 1)
    <3>1. i \in 1 .. n /\ i # 1 => i - 1 \in 1 .. n - 1 /\ D[e][d][i - 1] = C[e][d][i]
      BY <1>1
    <3> QED BY <1>0, <1>1, <3>1 DEF RequestIn
  <2> QED BY <2>1, <2>2, <2>3, <2>4
<1>6. RequestIn(C, s, d, u, 1) <=> m.query = NoQuery
  BY <1>0, <1>1 DEF RequestIn
<1>7. /\ \A t, i : <<t, i>> \in P <=> RequestIn(C, s, d, t, i)
      /\ \A t, i : <<t, i>> \in Q <=> RequestIn(D, s, d, t, i)
      /\ \A x \in P : \E t, i : x = <<t, i>>
      /\ \A x \in Q : \E t, i : x = <<t, i>>
  BY RequestsElements
<1> HIDE DEF P, Q
<1> DEFINE R == P \ {<<u, 1>>}
<1> DEFINE Shift(x) == IF x[1] = u THEN <<u, x[2] - 1>> ELSE x
<1> DEFINE f == [x \in R |-> Shift(x)]
<1>8. \A x \in R : /\ Shift(x) \in Q
                   /\ x[1] = u => /\ x = <<u, x[2]>> /\ x[2] \in 2 .. n
                                  /\ Shift(x) = <<u, x[2] - 1>>
                   /\ x[1] # u => Shift(x) = x
  <2> TAKE x \in R
  <2>1. PICK t, i : x = <<t, i>> /\ x # <<u, 1>> /\ RequestIn(C, s, d, t, i)
    BY <1>7
  <2>2. x[1] = t /\ x[2] = i
    BY <2>1
  <2>3. CASE t = u
    <3>1. i # 1 /\ i \in 1 .. n /\ RequestIn(D, s, d, u, i - 1)
      BY <1>5, <2>1, <2>3
    <3>2. <<u, i - 1>> \in Q /\ i \in 2 .. n
      BY <1>1, <1>7, <3>1
    <3> QED BY <2>1, <2>2, <2>3, <3>2
  <2>4. CASE t # u
    <3>1. x \in Q
      BY <1>5, <1>7, <2>1, <2>4
    <3> QED BY <2>2, <2>4, <3>1
  <2> QED BY <2>3, <2>4
<1>9. f \in [R -> Q]
  BY <1>8
<1>10. \A a, b \in R : f[a] = f[b] => a = b
  <2> TAKE a, b \in R
  <2> HAVE f[a] = f[b]
  <2>1. Shift(a) = Shift(b)
    OBVIOUS
  <2> HIDE DEF Shift, f, R
  <2>2. CASE a[1] = u /\ b[1] = u
    <3>1. a[2] - 1 = b[2] - 1 /\ a[2] \in Int /\ b[2] \in Int
      BY <1>8, <2>1, <2>2
    <3>2. a[2] = b[2]
      BY <3>1
    <3> QED BY <1>8, <2>2, <3>2
  <2>3. CASE a[1] = u /\ b[1] # u
    BY <1>8, <2>1, <2>3
  <2>4. CASE a[1] # u /\ b[1] = u
    BY <1>8, <2>1, <2>4
  <2>5. CASE a[1] # u /\ b[1] # u
    BY <1>8, <2>1, <2>5
  <2> QED BY <2>2, <2>3, <2>4, <2>5
<1>11. \A y \in Q : \E x \in R : f[x] = y
  <2> TAKE y \in Q
  <2>1. PICK t, i : y = <<t, i>> /\ RequestIn(D, s, d, t, i)
    BY <1>7
  <2>2. CASE t = u
    <3>1. i \in 1 .. n - 1 /\ RequestIn(C, s, d, u, i + 1)
      BY <1>5, <2>1, <2>2
    <3>2. i + 1 # 1 /\ (i + 1) - 1 = i
      BY <1>1, <3>1
    <3>3. <<u, i + 1>> \in R
      BY <1>7, <3>1, <3>2
    <3>4. f[<<u, i + 1>>] = <<u, (i + 1) - 1>>
      BY <3>3
    <3> QED BY <2>1, <2>2, <3>2, <3>3, <3>4
  <2>3. CASE t # u
    <3>1. y \in R
      BY <1>5, <1>7, <2>1, <2>3
    <3>2. f[y] = y
      BY <2>1, <2>3, <3>1
    <3> QED BY <3>1, <3>2
  <2> QED BY <2>2, <2>3
<1>12. /\ IsFiniteSet(R)
       /\ Cardinality(R) = IF <<u, 1>> \in P THEN Cardinality(P) - 1 ELSE Cardinality(P)
  BY <1>4, FS_RemoveElement
<1> HIDE DEF f, R
<1>13. IsFiniteSet(Q) /\ Cardinality(Q) = Cardinality(R)
  BY <1>9, <1>10, <1>11, <1>12, SameCardinality
<1>14. <<u, 1>> \in P <=> m.query = NoQuery
  BY <1>6, <1>7
<1>15. Cardinality(Q) = Cardinality(P) - IF m.query = NoQuery THEN 1 ELSE 0
  BY <1>4, <1>12, <1>13, <1>14
<1> QED BY <1>3, <1>13, <1>15 DEF P, Q, s, m

(* A step that changes no waiting thread, request or reply between s and d. *)
LEMMA MatchedKept ==
  ASSUME NEW s \in Servers, NEW d \in Servers, Matched(s, d),
         Waiting(s, d)' = Waiting(s, d), IsFiniteSet(Requests(s, d)'),
         Cardinality(Requests(s, d)') = Cardinality(Requests(s, d)),
         Len(replies'[d][s]) = Len(replies[d][s])
  PROVE  Matched(s, d)'
BY DEF Matched

LEMMA WaitingSame ==
  ASSUME NEW s, NEW d,
         \A t \in Threads : (pc'[<<s, t>>] = "wait" /\ dsid'[<<s, t>>] = d)
                              <=> (pc[<<s, t>>] = "wait" /\ dsid[<<s, t>>] = d)
  PROVE  Waiting(s, d)' = Waiting(s, d)
BY DEF Waiting

LEMMA InitMatched == Init => MatchedInv
<1> SUFFICES ASSUME Init, NEW s \in Servers, NEW d \in Servers
             PROVE  Matched(s, d)
  BY DEF MatchedInv
<1>1. Requests(s, d) = {}
  <2>1. \A t, i : ~ RequestIn(toProxy, s, d, t, i)
    BY DEF Init, RequestIn, Engines
  <2>2. \A x : x \notin RequestsOf(toProxy, s, d)
    BY <2>1, RequestsElements
  <2> QED BY <2>2, RequestsBoth
<1>2. Waiting(s, d) = {}
  BY DEF Init, Waiting, Engines
<1>3. Len(replies[d][s]) = 0
  BY DEF Init
<1> QED BY <1>1, <1>2, <1>3, FS_EmptySet DEF Matched

(* A step of a thread that neither asks nor receives. *)
LEMMA OwnStepMatched ==
  ASSUME IInv, MatchedInv, NEW e \in Engines,
         pc[e] # "wait", NEW x, x # "wait", pc' = [pc EXCEPT ![e] = x],
         UNCHANGED replies,
         \A f \in Engines \ {e} : dsid'[f] = dsid[f],
         \A s, d \in Servers : /\ IsFiniteSet(Requests(s, d)')
                              /\ Cardinality(Requests(s, d)') = Cardinality(Requests(s, d))
  PROVE  MatchedInv'
<1> SUFFICES ASSUME NEW s \in Servers, NEW d \in Servers
             PROVE  Matched(s, d)'
  BY DEF MatchedInv
<1>1. Waiting(s, d)' = Waiting(s, d)
  BY WaitingSame, PairEngine DEF IInv, TypeOK
<1> QED BY <1>1, MatchedKept DEF MatchedInv, Matched

(* A request more, and a thread more that waits. *)
LEMMA AskMatched ==
  ASSUME IInv, MatchedInv, NEW e \in Engines, NEW d \in Servers,
         pc[e] # "wait", Ask(e, d), dsid' = [dsid EXCEPT ![e] = d], UNCHANGED replies
  PROVE  MatchedInv'
<1>1. e[1] \in Servers /\ e[2] \in Threads /\ e = <<e[1], e[2]>>
  BY EnginePair
<1> DEFINE m == Dequeue(e[1], d)
<1>2. m \in ProxyMsg /\ m.query = NoQuery
  BY <1>1, MessageTypes DEF Dequeue
<1> HIDE DEF m
<1>3. toProxy' = [toProxy EXCEPT ![e][d] = Append(@, m)] /\ pc' = [pc EXCEPT ![e] = "wait"]
  BY DEF Ask, m
<1>4. /\ pc'[e] = "wait" /\ dsid'[e] = d
      /\ \A f \in Engines \ {e} : pc'[f] = pc[f] /\ dsid'[f] = dsid[f]
  BY <1>3 DEF IInv, TypeOK
<1> SUFFICES ASSUME NEW s \in Servers, NEW c \in Servers
             PROVE  Matched(s, c)'
  BY DEF MatchedInv
<1>5. Matched(s, c)
  BY DEF MatchedInv
<1>6. CASE s = e[1] /\ c = d
  <2>1. /\ IsFiniteSet(Requests(s, c)')
        /\ Cardinality(Requests(s, c)') = Cardinality(Requests(s, c)) + 1
    BY <1>2, <1>3, <1>5, <1>6, AppendRequest DEF Matched
  <2>2. Waiting(s, c)' = Waiting(s, c) \cup {e[2]} /\ e[2] \notin Waiting(s, c)
    <3>1. \A t \in Threads : <<s, t>> \in Engines /\ (<<s, t>> = e <=> t = e[2])
      BY <1>1, <1>6, PairEngine
    <3>2. \A t \in Threads : (pc'[<<s, t>>] = "wait" /\ dsid'[<<s, t>>] = c)
                              <=> t = e[2] \/ (pc[<<s, t>>] = "wait" /\ dsid[<<s, t>>] = c)
      BY <1>4, <1>6, <3>1
    <3> QED BY <1>1, <1>6, <3>2 DEF Waiting
  <2>3. Cardinality(Waiting(s, c)') = Cardinality(Waiting(s, c)) + 1
    BY <2>2, WaitingFinite, FS_AddElement
  <2>4. Cardinality(Requests(s, c)) \in Nat /\ Len(replies[c][s]) \in Nat
    BY <1>5, FS_CardinalityType DEF Matched, IInv, TypeOK
  <2> QED BY <1>5, <2>1, <2>3, <2>4 DEF Matched
<1>7. CASE s # e[1] \/ c # d
  <2>1. Requests(s, c)' = Requests(s, c)
    BY <1>3, <1>7, OtherChannels
  <2>2. Waiting(s, c)' = Waiting(s, c)
    <3>1. \A t \in Threads : <<s, t>> \in Engines /\ (<<s, t>> = e => s = e[1])
      BY <1>1, PairEngine
    <3>2. \A t \in Threads : (pc'[<<s, t>>] = "wait" /\ dsid'[<<s, t>>] = c)
                              <=> (pc[<<s, t>>] = "wait" /\ dsid[<<s, t>>] = c)
      BY <1>4, <1>7, <3>1
    <3> QED BY <3>2, WaitingSame
  <2> QED BY <1>5, <2>1, <2>2, MatchedKept DEF Matched
<1> QED BY <1>6, <1>7

(* A reply less, and a thread less that waits. *)
LEMMA ReceiveMatched ==
  ASSUME IInv, MatchedInv, NEW e \in Engines,
         pc[e] = "wait", replies[dsid[e]][e[1]] # << >>, TakeReply(e),
         NEW x, x # "wait", pc' = [pc EXCEPT ![e] = x], UNCHANGED <<dsid, toProxy>>
  PROVE  MatchedInv'
<1> DEFINE d == dsid[e]
<1>1. e[1] \in Servers /\ e[2] \in Threads /\ e = <<e[1], e[2]>> /\ d \in Servers
  BY EnginePair DEF IInv, TypeOK
<1>2. pc'[e] = x /\ \A f \in Engines \ {e} : pc'[f] = pc[f]
  BY DEF IInv, TypeOK
<1>3. /\ replies'[d][e[1]] = Tail(replies[d][e[1]])
      /\ \A a, b \in Servers : a # d \/ b # e[1] => replies'[a][b] = replies[a][b]
  BY <1>1 DEF TakeReply, IInv, TypeOK
<1> SUFFICES ASSUME NEW s \in Servers, NEW c \in Servers
             PROVE  Matched(s, c)'
  BY DEF MatchedInv
<1>4. Matched(s, c)
  BY DEF MatchedInv
<1>5. Requests(s, c)' = Requests(s, c)
  BY RequestsBoth
<1>6. CASE s = e[1] /\ c = d
  <2>1. Waiting(s, c)' = Waiting(s, c) \ {e[2]} /\ e[2] \in Waiting(s, c)
    <3>1. \A t \in Threads : <<s, t>> \in Engines /\ (<<s, t>> = e <=> t = e[2])
      BY <1>1, <1>6, PairEngine
    <3>2. \A t \in Threads : (pc'[<<s, t>>] = "wait" /\ dsid'[<<s, t>>] = c)
                              <=> t # e[2] /\ pc[<<s, t>>] = "wait" /\ dsid[<<s, t>>] = c
      BY <1>2, <1>6, <3>1
    <3> QED BY <1>1, <1>6, <3>2 DEF Waiting
  <2> DEFINE W == Waiting(s, c)
  <2>1a. IsFiniteSet(W)
    BY WaitingFinite
  <2> HIDE DEF W
  <2>1b. Cardinality(W \ {e[2]}) = IF e[2] \in W THEN Cardinality(W) - 1 ELSE Cardinality(W)
    BY <2>1a, FS_RemoveElement
  <2>2. Cardinality(Waiting(s, c)') = Cardinality(Waiting(s, c)) - 1
    BY <2>1, <2>1b DEF W
  <2>3. replies[c][s] \in Seq(Reply) /\ replies[c][s] # << >>
    BY <1>6 DEF IInv, TypeOK
  <2>4. Len(replies'[c][s]) = Len(replies[c][s]) - 1 /\ Len(replies[c][s]) \in Nat
    BY <1>3, <1>6, <2>3, TailFacts
  <2>5. Cardinality(Requests(s, c)) \in Nat
    BY <1>4, FS_CardinalityType DEF Matched
  <2> QED BY <1>4, <1>5, <2>2, <2>4, <2>5 DEF Matched
<1>7. CASE s # e[1] \/ c # d
  <2>1. Waiting(s, c)' = Waiting(s, c)
    <3>1. \A t \in Threads : <<s, t>> \in Engines /\ (<<s, t>> = e => s = e[1])
      BY <1>1, PairEngine
    <3>2. \A t \in Threads : (pc'[<<s, t>>] = "wait" /\ dsid'[<<s, t>>] = c)
                              <=> (pc[<<s, t>>] = "wait" /\ dsid[<<s, t>>] = c)
      BY <1>2, <1>7, <3>1
    <3> QED BY <3>2, WaitingSame
  <2>2. Len(replies'[c][s]) = Len(replies[c][s])
    BY <1>3, <1>7
  <2> QED BY <1>4, <1>5, <2>1, <2>2, MatchedKept DEF Matched
<1> QED BY <1>6, <1>7

(* A request less, and a reply more. *)
LEMMA AnswerMatched ==
  ASSUME IInv, MatchedInv, NEW d \in Servers, NEW e \in Engines, TakeMsg(d, e),
         Head(toProxy[e][d]).type # "enqueue", NEW type, NEW q,
         SendReply(d, e[1], type, q), UNCHANGED <<pc, dsid>>
  PROVE  MatchedInv'
<1>1. e[1] \in Servers
  BY EnginePair
<1>2. Head(toProxy[e][d]).query = NoQuery
  BY TakeMsgType DEF ProxyMsg
<1> DEFINE r == [type |-> type, query |-> q]
<1>3. /\ replies'[d][e[1]] = Append(replies[d][e[1]], r)
      /\ \A a, b \in Servers : a # d \/ b # e[1] => replies'[a][b] = replies[a][b]
  BY <1>1 DEF SendReply, IInv, TypeOK
<1> SUFFICES ASSUME NEW s \in Servers, NEW c \in Servers
             PROVE  Matched(s, c)'
  BY DEF MatchedInv
<1>4. Matched(s, c) /\ Waiting(s, c)' = Waiting(s, c)
  BY DEF MatchedInv, Waiting
<1>5. CASE s = e[1] /\ c = d
  <2>1. /\ IsFiniteSet(Requests(s, c)')
        /\ Cardinality(Requests(s, c)') = Cardinality(Requests(s, c)) - 1
    BY <1>2, <1>4, <1>5, TakeRequest DEF Matched
  <2>2. replies[c][s] \in Seq(Reply)
    BY DEF IInv, TypeOK
  <2>3. Len(replies'[c][s]) = Len(replies[c][s]) + 1 /\ Len(replies[c][s]) \in Nat
    BY <1>3, <1>5, <2>2
  <2>4. Cardinality(Requests(s, c)) \in Nat
    BY <1>4, FS_CardinalityType DEF Matched
  <2> QED BY <1>4, <2>1, <2>3, <2>4 DEF Matched
<1>6. CASE s # e[1] \/ c # d
  <2>1. Requests(s, c)' = Requests(s, c)
    BY <1>6, OtherChannels DEF TakeMsg
  <2>2. Len(replies'[c][s]) = Len(replies[c][s])
    BY <1>3, <1>6
  <2> QED BY <1>4, <2>1, <2>2, MatchedKept DEF Matched
<1> QED BY <1>5, <1>6

(* A query sent or enqueued is not a request. *)
LEMMA DispatchRequests ==
  ASSUME IInv, MatchedInv, NEW e \in Engines, Dispatch(e), NEW s \in Servers, NEW c \in Servers
  PROVE  /\ IsFiniteSet(Requests(s, c)')
         /\ Cardinality(Requests(s, c)') = Cardinality(Requests(s, c))
<1>1. held[e] \in Queries
  BY DEF IInv, TypeOK, HeldInv, Dispatch
<1>2. PICK d \in Target(held[e]) :
        toProxy' = [toProxy EXCEPT ![e][d] = Append(@, Enqueue(held[e]))]
  BY DEF Dispatch
<1>3. d \in Servers
  BY <1>1, <1>2, TargetInServers
<1> DEFINE m == Enqueue(held[e])
<1>4. m \in ProxyMsg /\ m.query # NoQuery
  BY <1>1, MessageTypes, QueryFacts DEF Enqueue
<1> HIDE DEF m
<1>5. toProxy' = [toProxy EXCEPT ![e][d] = Append(@, m)]
  BY <1>2 DEF m
<1>6. IsFiniteSet(Requests(s, c)) /\ Cardinality(Requests(s, c)) \in Nat
  BY FS_CardinalityType DEF MatchedInv, Matched
<1>7. CASE s = e[1] /\ c = d
  <2>1. IsFiniteSet(Requests(e[1], d))
    BY <1>6, <1>7
  <2>2. /\ IsFiniteSet(Requests(e[1], d)')
        /\ Cardinality(Requests(e[1], d)')
             = Cardinality(Requests(e[1], d)) + IF m.query = NoQuery THEN 1 ELSE 0
    BY <1>3, <1>4, <1>5, <2>1, AppendRequest
  <2> QED BY <1>4, <1>6, <1>7, <2>2
<1>8. CASE s # e[1] \/ c # d
  BY <1>3, <1>5, <1>6, <1>8, OtherChannels, ZenonT(30)
<1> QED BY <1>7, <1>8

LEMMA EnqueueRequests ==
  ASSUME IInv, MatchedInv, NEW d \in Servers, NEW e \in Engines, ProxyEnqueue(d, e),
         NEW s \in Servers, NEW c \in Servers
  PROVE  /\ IsFiniteSet(Requests(s, c)')
         /\ Cardinality(Requests(s, c)') = Cardinality(Requests(s, c))
<1>1. Head(toProxy[e][d]).query # NoQuery /\ TakeMsg(d, e)
  BY TakeMsgType, QueryFacts DEF ProxyEnqueue, ProxyMsg
<1>2. IsFiniteSet(Requests(s, c)) /\ Cardinality(Requests(s, c)) \in Nat
  BY FS_CardinalityType DEF MatchedInv, Matched
<1>3. CASE s = e[1] /\ c = d
  BY <1>1, <1>2, <1>3, TakeRequest
<1>4. CASE s # e[1] \/ c # d
  BY <1>1, <1>2, <1>4, OtherChannels, ZenonT(30) DEF TakeMsg
<1> QED BY <1>3, <1>4

(* The other steps change neither channel nor waiting thread. *)
LEMMA StillMatched ==
  ASSUME MatchedInv, UNCHANGED <<pc, dsid, toProxy, replies>>
  PROVE  MatchedInv'
BY RequestsBoth DEF MatchedInv, Matched, Waiting

LEMMA RequestsStill ==
  ASSUME MatchedInv, UNCHANGED toProxy, NEW s \in Servers, NEW d \in Servers
  PROVE  /\ IsFiniteSet(Requests(s, d)')
         /\ Cardinality(Requests(s, d)') = Cardinality(Requests(s, d))
BY RequestsBoth DEF MatchedInv, Matched

LEMMA EngineMatched ==
  ASSUME IInv, MatchedInv, NEW e \in Engines, Engine(e)
  PROVE  MatchedInv'
<1>1. CASE FetchAdd(e)
  <2>1. PICK x \in {"dispatch", "pick"} : pc' = [pc EXCEPT ![e] = x]
    BY <1>1 DEF FetchAdd
  <2>2. /\ pc[e] # "wait" /\ UNCHANGED replies /\ UNCHANGED toProxy
        /\ \A f \in Engines \ {e} : dsid'[f] = dsid[f]
    BY <1>1 DEF FetchAdd, channelVars
  <2>3. x # "wait"
    OBVIOUS
  <2> QED BY <2>1, <2>2, <2>3, RequestsStill, OwnStepMatched
<1>2. CASE Dispatch(e)
  <2>1. /\ pc[e] # "wait" /\ UNCHANGED replies /\ pc' = [pc EXCEPT ![e] = "fetch"]
        /\ \A f \in Engines \ {e} : dsid'[f] = dsid[f]
    BY <1>2 DEF Dispatch
  <2> QED BY <1>2, <2>1, DispatchRequests, OwnStepMatched
<1>3. CASE AskOwn(e)
  <2>1. e[1] \in Servers /\ pc[e] # "wait"
    BY <1>3, EnginePair DEF AskOwn
  <2> QED BY <1>3, <2>1, AskMatched DEF AskOwn
<1>4. CASE AskNext(e)
  <2> DEFINE d == (dsid[e] + 1) % NumServers
  <2>1. d \in Servers /\ pc[e] = "pick" /\ dsid' = [dsid EXCEPT ![e] = d] /\ UNCHANGED replies
    BY <1>4, NextServer DEF AskNext, IInv, TypeOK
  <2>2. Ask(e, d) \/ UNCHANGED <<toProxy, pc>>
    BY <1>4 DEF AskNext
  <2> HIDE DEF d
  <2>3. CASE Ask(e, d)
    BY <2>1, <2>3, AskMatched
  <2>4. CASE UNCHANGED <<toProxy, pc>>
    <3>1. pc' = [pc EXCEPT ![e] = "pick"]
      BY <2>1, <2>4 DEF IInv, TypeOK
    <3>2. \A f \in Engines \ {e} : dsid'[f] = dsid[f]
      BY <2>1 DEF IInv, TypeOK
    <3>3. pc[e] # "wait" /\ UNCHANGED toProxy
      BY <2>1, <2>4
    <3> QED BY <2>1, <3>1, <3>2, <3>3, RequestsStill, OwnStepMatched
  <2> QED BY <2>2, <2>3, <2>4
<1>5. CASE ReceiveSucc(e)
  BY <1>5, ReceiveMatched DEF ReceiveSucc
<1>6. CASE ReceiveFail(e)
  BY <1>6, ReceiveMatched DEF ReceiveFail
<1>7. CASE Search(e)
  <2>1. /\ pc[e] # "wait" /\ UNCHANGED replies /\ UNCHANGED toProxy
        /\ pc' = [pc EXCEPT ![e] = "pick"]
        /\ \A f \in Engines \ {e} : dsid'[f] = dsid[f]
    BY <1>7 DEF Search, channelVars
  <2> QED BY <2>1, RequestsStill, OwnStepMatched
<1>8. CASE Finish(e)
  <2>1. /\ pc[e] # "wait" /\ UNCHANGED replies /\ UNCHANGED toProxy
        /\ pc' = [pc EXCEPT ![e] = "done"]
        /\ \A f \in Engines \ {e} : dsid'[f] = dsid[f]
    BY <1>8 DEF Finish, channelVars
  <2> QED BY <2>1, RequestsStill, OwnStepMatched
<1> QED BY <1>1, <1>2, <1>3, <1>4, <1>5, <1>6, <1>7, <1>8 DEF Engine

LEMMA ProxyMatched ==
  ASSUME IInv, MatchedInv, NEW d \in Servers, Proxy(d)
  PROVE  MatchedInv'
<1>1. ASSUME NEW e \in Engines, ProxyEnqueue(d, e)
      PROVE  MatchedInv'
  <2> SUFFICES ASSUME NEW s \in Servers, NEW c \in Servers
               PROVE  Matched(s, c)'
    BY DEF MatchedInv
  <2>1. Waiting(s, c)' = Waiting(s, c) /\ replies' = replies
    BY <1>1 DEF ProxyEnqueue, engineVars, Waiting
  <2>2. /\ IsFiniteSet(Requests(s, c)')
        /\ Cardinality(Requests(s, c)') = Cardinality(Requests(s, c))
    BY <1>1, EnqueueRequests
  <2> QED BY <2>1, <2>2, MatchedKept DEF MatchedInv
<1>2. ASSUME NEW e \in Engines, ProxyDequeueHigh(d, e)
      PROVE  MatchedInv'
  <2>1. /\ TakeMsg(d, e) /\ Head(toProxy[e][d]).type # "enqueue"
        /\ SendReply(d, e[1], "dequeue_succ", taskQueue[d][Len(taskQueue[d])])
        /\ UNCHANGED <<pc, dsid>>
    BY <1>2 DEF ProxyDequeueHigh, engineVars
  <2> QED BY <2>1, AnswerMatched
<1>3. ASSUME NEW e \in Engines, ProxyDequeueLow(d, e)
      PROVE  MatchedInv'
  <2>1. /\ TakeMsg(d, e) /\ Head(toProxy[e][d]).type # "enqueue"
        /\ SendReply(d, e[1], "dequeue_succ", Head(taskQueue[d]))
        /\ UNCHANGED <<pc, dsid>>
    BY <1>3 DEF ProxyDequeueLow, engineVars
  <2> QED BY <2>1, AnswerMatched
<1>4. ASSUME NEW e \in Engines, ProxyDequeueFail(d, e)
      PROVE  MatchedInv'
  <2>1. /\ TakeMsg(d, e) /\ Head(toProxy[e][d]).type # "enqueue"
        /\ SendReply(d, e[1], "dequeue_fail", NoQuery)
        /\ UNCHANGED <<pc, dsid>>
    BY <1>4 DEF ProxyDequeueFail, engineVars
  <2> QED BY <2>1, AnswerMatched
<1>5. CASE ProxyStop(d)
  BY <1>5, StillMatched DEF ProxyStop, engineVars, channelVars
<1> QED BY <1>1, <1>2, <1>3, <1>4, <1>5 DEF Proxy

LEMMA NextMatched == IInv /\ MatchedInv /\ [Next]_vars => MatchedInv'
<1> SUFFICES ASSUME IInv, MatchedInv, [Next]_vars
             PROVE  MatchedInv'
  OBVIOUS
<1>1. ASSUME NEW s \in Servers, Main(s)
      PROVE  UNCHANGED <<pc, dsid, toProxy, replies>>
  BY <1>1 DEF Main, Join, StartGather, GatherReceive, EndGather, SendStop, JoinProxy,
              engineVars, channelVars
<1>2. UNCHANGED vars => UNCHANGED <<pc, dsid, toProxy, replies>>
  BY DEF vars, engineVars, channelVars
<1> QED BY <1>1, <1>2, EngineMatched, ProxyMatched, StillMatched DEF Next, Terminating

-----------------------------------------------------------------------------
(* What a thread knows of the proxies *)

LEMMA LeftFinite ==
  ASSUME NEW e
  PROVE  IsFiniteSet(Left(e)) /\ Cardinality(Left(e)) \in Nat
<1>1. IsFiniteSet(Servers)
  BY ConstantsAssumption, FS_Interval DEF Servers
<1>2. Left(e) \in SUBSET Servers
  BY DEF Left
<1> QED BY <1>1, <1>2, FS_Subset, FS_CardinalityType

LEMMA InitGivenUp == Init => GivenUpInv
<1> SUFFICES ASSUME Init, NEW e \in Engines
             PROVE  GivenUp(e)
  BY DEF GivenUpInv
<1>1. Left(e) = Servers /\ nsvr[e] = NumServers
  BY DEF Init, Left, InitialNsvr
<1>2. Cardinality(Servers) = NumServers
  <2>1. 0 \in Int /\ NumServers - 1 \in Int /\ ~ 0 > NumServers - 1 /\ NumServers \in Nat
    BY ConstantsAssumption
  <2> QED BY <2>1, FS_Interval DEF Servers
<1> QED BY <1>1, <1>2 DEF Init, GivenUp

LEMMA GivenUpKept ==
  ASSUME NEW e \in Engines, GivenUp(e), pc'[e] = pc[e], dsid'[e] = dsid[e],
         hasQuery'[e] = hasQuery[e], nsvr'[e] = nsvr[e],
         counter \in Nat, counter' \in Nat, counter' >= counter
  PROVE  GivenUp(e)'
<1>1. Left(e)' = Left(e)
  BY DEF Left
<1>2. counter >= QueryNum => counter' >= QueryNum
  BY ConstantsAssumption
<1> QED BY <1>1, <1>2 DEF GivenUp

LEMMA EngineGivenUp ==
  ASSUME IInv, GivenUpInv, NEW e \in Engines, Engine(e)
  PROVE  GivenUpInv'
<1> USE DEF GivenUpInv
<1>1. GivenUp(e) /\ counter \in Nat
  BY DEF IInv, TypeOK
<1>2. /\ counter' \in Nat /\ counter' >= counter
      /\ \A f \in Engines \ {e} : /\ pc'[f] = pc[f] /\ dsid'[f] = dsid[f]
                                 /\ hasQuery'[f] = hasQuery[f] /\ nsvr'[f] = nsvr[f]
  <2>1. counter' = counter \/ counter' = counter + 1
    BY DEF Engine, FetchAdd, Dispatch, AskOwn, AskNext, ReceiveSucc, ReceiveFail, Search, Finish
  <2>2. \A f \in Engines \ {e} : pc'[f] = pc[f]
    BY DEF Engine, FetchAdd, Dispatch, AskOwn, AskNext, Ask, ReceiveSucc, ReceiveFail, Search,
           Finish, IInv, TypeOK
  <2>3. \A f \in Engines \ {e} : dsid'[f] = dsid[f]
    BY DEF Engine, FetchAdd, Dispatch, AskOwn, AskNext, ReceiveSucc, ReceiveFail, Search,
           Finish, IInv, TypeOK
  <2>4. \A f \in Engines \ {e} : hasQuery'[f] = hasQuery[f] /\ nsvr'[f] = nsvr[f]
    BY DEF Engine, FetchAdd, Dispatch, AskOwn, AskNext, ReceiveSucc, ReceiveFail, Search,
           Finish, IInv, TypeOK
  <2> QED BY <1>1, <2>1, <2>2, <2>3, <2>4
<1>3. GivenUp(e)'
  <2>1. CASE FetchAdd(e)
    <3>1. Left(e)' = Left(e) /\ UNCHANGED <<hasQuery, nsvr>>
      BY <2>1 DEF FetchAdd, Left
    <3>2. CASE IsQuery(counter)
      <4>1. pc'[e] = "dispatch" /\ pc[e] = "fetch"
        BY <2>1, <3>2 DEF FetchAdd, IInv, TypeOK
      <4> QED BY <1>1, <3>1, <4>1 DEF GivenUp
    <3>3. CASE ~ IsQuery(counter)
      <4>1. pc'[e] = "pick"
        BY <2>1, <3>3 DEF FetchAdd, IInv, TypeOK
      <4>2. counter' >= QueryNum
        BY <1>1, <1>2, <3>3, ConstantsAssumption DEF IsQuery
      <4> QED BY <1>1, <3>1, <4>1, <4>2 DEF GivenUp
    <3> QED BY <3>2, <3>3
  <2>2. CASE Dispatch(e)
    <3>1. Left(e)' = Left(e) /\ UNCHANGED <<hasQuery, nsvr>>
      BY <2>2 DEF Dispatch, Left
    <3>2. pc'[e] = "fetch" /\ pc[e] = "dispatch"
      BY <2>2 DEF Dispatch, IInv, TypeOK
    <3> QED BY <1>1, <3>1, <3>2 DEF GivenUp
  <2>3. CASE AskOwn(e) \/ AskNext(e)
    <3>1. Left(e)' = Left(e) /\ UNCHANGED <<hasQuery, nsvr, counter>> /\ pc[e] = "pick"
      BY <2>3 DEF AskOwn, AskNext, Left
    <3>2. pc'[e] = "pick" \/ (pc'[e] = "wait" /\ hasQuery[e][dsid'[e]])
      <4>1. CASE AskOwn(e)
        BY <4>1, EnginePair DEF AskOwn, Ask, IInv, TypeOK
      <4>2. CASE AskNext(e)
        BY <4>2 DEF AskNext, Ask, IInv, TypeOK
      <4> QED BY <2>3, <4>1, <4>2
    <3> QED BY <1>1, <3>1, <3>2 DEF GivenUp
  <2>4. CASE ReceiveSucc(e)
    <3>1. Left(e)' = Left(e) /\ UNCHANGED <<hasQuery, nsvr, counter, dsid>>
      BY <2>4 DEF ReceiveSucc, Left
    <3>2. pc'[e] = "search" /\ pc[e] = "wait"
      BY <2>4 DEF ReceiveSucc, IInv, TypeOK
    <3> QED BY <1>1, <3>1, <3>2 DEF GivenUp
  <2>5. CASE ReceiveFail(e)
    <3>1. dsid[e] \in Left(e)
      BY <1>1, <2>5 DEF GivenUp, ReceiveFail, Left, IInv, TypeOK
    <3>2. Left(e)' = Left(e) \ {dsid[e]}
      BY <2>5 DEF ReceiveFail, Left, IInv, TypeOK
    <3>3. Cardinality(Left(e)') = Cardinality(Left(e)) - 1
      BY <3>1, <3>2, LeftFinite, FS_RemoveElement
    <3>4. nsvr'[e] = nsvr[e] - 1 /\ pc'[e] = "pick" /\ pc[e] = "wait" /\ counter' = counter
      BY <2>5 DEF ReceiveFail, IInv, TypeOK
    <3> QED BY <1>1, <3>3, <3>4 DEF GivenUp
  <2>6. CASE Search(e)
    <3>1. Left(e)' = Left(e) /\ UNCHANGED <<hasQuery, nsvr, counter, dsid>>
      BY <2>6 DEF Search, Left
    <3>2. pc'[e] = "pick" /\ pc[e] = "search"
      BY <2>6 DEF Search, IInv, TypeOK
    <3> QED BY <1>1, <3>1, <3>2 DEF GivenUp
  <2>7. CASE Finish(e)
    <3>1. Left(e)' = Left(e) /\ UNCHANGED <<hasQuery, nsvr, counter, dsid>>
      BY <2>7 DEF Finish, Left
    <3>2. pc'[e] = "done" /\ pc[e] = "pick" /\ nsvr[e] = 0
      BY <2>7 DEF Finish, IInv, TypeOK
    <3> QED BY <1>1, <3>1, <3>2 DEF GivenUp
  <2> QED BY <2>1, <2>2, <2>3, <2>4, <2>5, <2>6, <2>7 DEF Engine
<1> QED BY <1>1, <1>2, <1>3, GivenUpKept

LEMMA StillGivenUp ==
  ASSUME GivenUpInv, UNCHANGED <<counter, engineVars>>
  PROVE  GivenUpInv'
BY DEF GivenUpInv, GivenUp, Left, engineVars

(* The steps of the other threads leave the variables of the engine threads
   and the counter alone. *)
LEMMA OtherThreads ==
  ASSUME \/ \E d \in Servers : Proxy(d)
         \/ \E s \in Servers : Main(s)
         \/ UNCHANGED vars
  PROVE  UNCHANGED <<counter, engineVars>>
<1>1. ASSUME NEW d \in Servers, Proxy(d)
      PROVE  UNCHANGED <<counter, engineVars>>
  BY <1>1 DEF Proxy, ProxyEnqueue, ProxyDequeueHigh, ProxyDequeueLow, ProxyDequeueFail, ProxyStop
<1>2. ASSUME NEW s \in Servers, Main(s)
      PROVE  UNCHANGED <<counter, engineVars>>
  BY <1>2 DEF Main, Join, StartGather, GatherReceive, EndGather, SendStop, JoinProxy
<1>3. CASE UNCHANGED vars
  BY <1>3 DEF vars
<1> QED BY <1>1, <1>2, <1>3

LEMMA NextGivenUp == IInv /\ GivenUpInv /\ [Next]_vars => GivenUpInv'
BY EngineGivenUp, StillGivenUp, OtherThreads DEF Next, Terminating

-----------------------------------------------------------------------------
(* What comes last in a channel *)

LEMMA TailEnds ==
  ASSUME NEW M, NEW seq \in Seq(M), seq # << >>, EndsInRequest(seq)
  PROVE  EndsInRequest(Tail(seq))
<1> DEFINE new == Tail(seq)
<1>1. /\ Len(seq) \in Nat \ {0} /\ Len(new) = Len(seq) - 1
      /\ \A i \in 1 .. Len(seq) - 1 : new[i] = seq[i + 1]
      /\ new \in Seq(M)
  BY TailFacts
<1>2. new # << >> => Len(new) > 0
  BY <1>1
<1> HIDE DEF new
<1>3. new # << >> => new[Len(new)] = seq[Len(seq)]
  BY <1>1, <1>2
<1>4. seq[Len(seq)].type # "enqueue"
  BY DEF EndsInRequest
<1>5. EndsInRequest(new)
  BY <1>3, <1>4 DEF EndsInRequest
<1> QED BY <1>5 DEF new

LEMMA InitBehind == Init => BehindInv
BY DEF Init, BehindInv, Behind, EndsInRequest, Engines

LEMMA BehindKept ==
  ASSUME NEW e \in Engines, NEW d \in Servers, Behind(e, d),
         Asking(e, d)' \/ ~ hasQuery'[e][d] => Asking(e, d) \/ ~ hasQuery[e][d],
         toProxy'[e][d] = toProxy[e][d]
  PROVE  Behind(e, d)'
BY DEF Behind

(* A thread asks a proxy: its request is the last message. *)
LEMMA AskBehind ==
  ASSUME IInv, BehindInv, NEW e \in Engines, NEW d \in Servers, pc[e] = "pick",
         Ask(e, d), dsid' = [dsid EXCEPT ![e] = d], UNCHANGED hasQuery
  PROVE  BehindInv'
<1>1. e[1] \in Servers
  BY EnginePair
<1> DEFINE m == Dequeue(e[1], d)
<1>2. m.type # "enqueue" /\ m \in ProxyMsg
  BY <1>1, MessageTypes DEF Dequeue
<1> HIDE DEF m
<1>3. /\ toProxy'[e][d] = Append(toProxy[e][d], m)
      /\ \A f \in Engines, c \in Servers : f # e \/ c # d => toProxy'[f][c] = toProxy[f][c]
  BY DEF Ask, m, IInv, TypeOK
<1>4. EndsInRequest(toProxy'[e][d])
  <2>1. toProxy[e][d] \in Seq(ProxyMsg)
    BY DEF IInv, TypeOK
  <2>2. /\ Append(toProxy[e][d], m)[Len(toProxy[e][d]) + 1] = m
        /\ Len(Append(toProxy[e][d], m)) = Len(toProxy[e][d]) + 1
    BY <1>2, <2>1, AppendFacts
  <2> QED BY <1>2, <1>3, <2>2 DEF EndsInRequest
<1>5. ASSUME NEW f \in Engines, NEW c \in Servers
      PROVE  Behind(f, c)'
  <2>1. CASE f = e /\ c = d
    BY <1>4, <2>1 DEF Behind
  <2>2. CASE f # e \/ c # d
    <3>1. Asking(f, c)' => Asking(f, c)
      BY <2>2 DEF Asking, Ask, IInv, TypeOK
    <3> QED BY <1>3, <2>2, <3>1, BehindKept DEF BehindInv
  <2> QED BY <2>1, <2>2
<1> QED BY <1>5 DEF BehindInv

LEMMA EngineBehind ==
  ASSUME IInv, GivenUpInv, BehindInv, NEW e \in Engines, Engine(e)
  PROVE  BehindInv'
<1>1. CASE Dispatch(e)
  <2>1. held[e] \in Queries
    BY <1>1 DEF IInv, TypeOK, HeldInv, Dispatch
  <2>2. PICK d \in Target(held[e]) :
          toProxy' = [toProxy EXCEPT ![e][d] = Append(@, Enqueue(held[e]))]
    BY <1>1 DEF Dispatch
  <2>3. d \in Servers
    BY <2>1, <2>2, TargetInServers
  <2>4. \A f \in Engines \ {e}, c \in Servers : toProxy'[f][c] = toProxy[f][c]
    BY <2>2, <2>3 DEF IInv, TypeOK
  <2>5. /\ UNCHANGED <<dsid, hasQuery>> /\ pc'[e] = "fetch"
        /\ \A f \in Engines \ {e} : pc'[f] = pc[f]
    BY <1>1 DEF Dispatch, IInv, TypeOK
  <2>6. \A c \in Servers : hasQuery[e][c]
    BY <1>1 DEF GivenUpInv, GivenUp, Dispatch
  <2>7. ASSUME NEW f \in Engines, NEW c \in Servers
        PROVE  Behind(f, c)'
    <3>1. CASE f = e
      BY <2>5, <2>6, <3>1 DEF Behind, Asking
    <3>2. CASE f # e
      <4>1. Asking(f, c)' => Asking(f, c)
        BY <2>5, <3>2 DEF Asking
      <4> QED BY <2>4, <2>5, <3>2, <4>1, BehindKept DEF BehindInv
    <3> QED BY <3>1, <3>2
  <2> QED BY <2>7 DEF BehindInv
<1>2. CASE AskOwn(e)
  BY <1>2, AskBehind, EnginePair DEF AskOwn
<1>3. CASE AskNext(e)
  <2> DEFINE d == (dsid[e] + 1) % NumServers
  <2>1. /\ d \in Servers /\ pc[e] = "pick" /\ dsid' = [dsid EXCEPT ![e] = d]
        /\ UNCHANGED hasQuery
    BY <1>3, NextServer DEF AskNext, IInv, TypeOK
  <2>2. Ask(e, d) \/ UNCHANGED <<toProxy, pc>>
    BY <1>3 DEF AskNext
  <2> HIDE DEF d
  <2>3. CASE Ask(e, d)
    BY <2>1, <2>3, AskBehind
  <2>4. CASE UNCHANGED <<toProxy, pc>>
    <3>1. \A f \in Engines, c \in Servers : Asking(f, c)' => Asking(f, c)
      BY <2>1, <2>4 DEF Asking, IInv, TypeOK
    <3> QED BY <2>1, <2>4, <3>1, BehindKept DEF BehindInv
  <2> QED BY <2>2, <2>3, <2>4
<1>4. CASE ReceiveFail(e)
  <2>1. \A f \in Engines, c \in Servers : Asking(f, c)' => Asking(f, c)
    BY <1>4 DEF ReceiveFail, Asking, IInv, TypeOK
  <2>2. \A f \in Engines, c \in Servers :
          ~ hasQuery'[f][c] => ~ hasQuery[f][c] \/ Asking(f, c)
    BY <1>4 DEF ReceiveFail, Asking, IInv, TypeOK
  <2>3. toProxy' = toProxy
    BY <1>4 DEF ReceiveFail
  <2> QED BY <2>1, <2>2, <2>3, BehindKept DEF BehindInv
<1>5. CASE FetchAdd(e) \/ ReceiveSucc(e) \/ Search(e) \/ Finish(e)
  <2>1. UNCHANGED <<toProxy, hasQuery, dsid>>
    BY <1>5 DEF FetchAdd, ReceiveSucc, Search, Finish, channelVars
  <2>2. \A f \in Engines, c \in Servers : Asking(f, c)' => Asking(f, c)
    BY <1>5, <2>1 DEF FetchAdd, ReceiveSucc, Search, Finish, Asking, IInv, TypeOK
  <2> QED BY <2>1, <2>2, BehindKept DEF BehindInv
<1> QED BY <1>1, <1>2, <1>3, <1>4, <1>5 DEF Engine

(* A proxy takes the messages from the front. *)
LEMMA TakeBehind ==
  ASSUME IInv, BehindInv, NEW d \in Servers, NEW e \in Engines, TakeMsg(d, e),
         UNCHANGED engineVars
  PROVE  BehindInv'
<1>1. /\ toProxy'[e][d] = Tail(toProxy[e][d])
      /\ \A f \in Engines, c \in Servers : f # e \/ c # d => toProxy'[f][c] = toProxy[f][c]
      /\ toProxy[e][d] \in Seq(ProxyMsg) /\ toProxy[e][d] # << >>
  BY DEF TakeMsg, IInv, TypeOK
<1>2. /\ UNCHANGED hasQuery
      /\ \A f \in Engines, c \in Servers : Asking(f, c)' <=> Asking(f, c)
  BY DEF engineVars, Asking
<1>3. EndsInRequest(toProxy[e][d]) => EndsInRequest(toProxy'[e][d])
  BY <1>1, TailEnds
<1>4. ASSUME NEW f \in Engines, NEW c \in Servers
      PROVE  Behind(f, c)'
  <2>1. CASE f = e /\ c = d
    BY <1>2, <1>3, <2>1 DEF BehindInv, Behind
  <2>2. CASE f # e \/ c # d
    BY <1>1, <1>2, <2>2, BehindKept DEF BehindInv
  <2> QED BY <2>1, <2>2
<1> QED BY <1>4 DEF BehindInv

LEMMA StillBehind ==
  ASSUME BehindInv, UNCHANGED <<toProxy, engineVars>>
  PROVE  BehindInv'
BY DEF BehindInv, Behind, Asking, engineVars

LEMMA NextBehind == IInv /\ GivenUpInv /\ BehindInv /\ [Next]_vars => BehindInv'
<1> SUFFICES ASSUME IInv, GivenUpInv, BehindInv, [Next]_vars
             PROVE  BehindInv'
  OBVIOUS
<1>1. ASSUME NEW d \in Servers, Proxy(d)
      PROVE  BehindInv'
  BY <1>1, TakeBehind, StillBehind
  DEF Proxy, ProxyEnqueue, ProxyDequeueHigh, ProxyDequeueLow, ProxyDequeueFail, ProxyStop,
      channelVars
<1>2. ASSUME NEW s \in Servers, Main(s)
      PROVE  BehindInv'
  <2>1. UNCHANGED <<toProxy, engineVars>>
    BY <1>2 DEF Main, Join, StartGather, GatherReceive, EndGather, SendStop, JoinProxy, channelVars
  <2> QED BY <2>1, StillBehind
<1>3. CASE UNCHANGED vars
  BY <1>3, StillBehind DEF vars, channelVars
<1> QED BY <1>1, <1>2, <1>3, EngineBehind DEF Next, Terminating

-----------------------------------------------------------------------------
(* A proxy with a queue is not forgotten *)

LEMMA InitRemembered == Init => RememberedInv
BY DEF Init, RememberedInv, Remembered

LEMMA RememberedKept ==
  ASSUME NEW d \in Servers, Remembered(d), taskQueue'[d] # << >> => taskQueue[d] # << >>,
         WillAsk(d) => WillAsk(d)', Requested(d) => Requested(d)',
         Delivering(d) => Delivering(d)'
  PROVE  Remembered(d)'
BY DEF Remembered

LEMMA WillAskKept ==
  ASSUME NEW d \in Servers, WillAsk(d),
         \A f \in Engines : hasQuery[f][d] /\ ~ Asking(f, d) => hasQuery'[f][d] /\ ~ Asking(f, d)'
  PROVE  WillAsk(d)'
BY DEF WillAsk

LEMMA RequestedKept ==
  ASSUME NEW d \in Servers, \A f \in Engines : toProxy'[f][d] = toProxy[f][d]
  PROVE  Requested(d) => Requested(d)'
BY DEF Requested

LEMMA DeliveringKept ==
  ASSUME NEW d \in Servers, \A s \in Servers : replies'[d][s] = replies[d][s]
  PROVE  Delivering(d) => Delivering(d)'
BY DEF Delivering

LEMMA SentRequested ==
  ASSUME IInv, NEW e \in Engines, NEW d \in Servers, NEW m \in ProxyMsg,
         toProxy' = [toProxy EXCEPT ![e][d] = Append(@, m)], NEW c \in Servers
  PROVE  Requested(c) => Requested(c)'
<1> toProxy \in [Engines -> [Servers -> Seq(ProxyMsg)]]
  BY DEF IInv, TypeOK
<1>1. /\ toProxy'[e][d] = Append(toProxy[e][d], m)
      /\ \A f \in Engines, x \in Servers : f # e \/ x # d => toProxy'[f][x] = toProxy[f][x]
      /\ toProxy[e][d] \in Seq(ProxyMsg)
  OBVIOUS
<1>2. ~ NotIn(toProxy[e][d], NoQuery) => ~ NotIn(toProxy'[e][d], NoQuery)
  BY <1>1, AppendFacts DEF NotIn
<1>3. SUFFICES ASSUME NEW f \in Engines, ~ NotIn(toProxy[f][c], NoQuery)
               PROVE  ~ NotIn(toProxy'[f][c], NoQuery)
  BY DEF Requested
<1>4. CASE f = e /\ c = d
  BY <1>2, <1>3, <1>4
<1>5. CASE f # e \/ c # d
  BY <1>1, <1>3, <1>5
<1> QED BY <1>4, <1>5

LEMMA AppendedIn ==
  ASSUME NEW M, NEW seq \in Seq(M), NEW m \in M
  PROVE  ~ NotIn(Append(seq, m), m.query)
<1>1. Len(seq) + 1 \in DOMAIN Append(seq, m) /\ Append(seq, m)[Len(seq) + 1] = m
  BY AppendFacts
<1> QED BY <1>1 DEF NotIn

LEMMA AskRemembered ==
  ASSUME IInv, RememberedInv, NEW e \in Engines, NEW d \in Servers, Ask(e, d),
         dsid' = [dsid EXCEPT ![e] = d], UNCHANGED <<hasQuery, replies, taskQueue>>
  PROVE  RememberedInv'
<1>1. e[1] \in Servers
  BY EnginePair
<1> DEFINE m == Dequeue(e[1], d)
<1>2. m.query = NoQuery /\ m \in ProxyMsg
  BY <1>1, MessageTypes DEF Dequeue
<1> HIDE DEF m
<1>3. toProxy' = [toProxy EXCEPT ![e][d] = Append(@, m)]
  BY DEF Ask, m
<1>4. ASSUME NEW c \in Servers
      PROVE  Remembered(c)'
  <2>1. CASE c = d
    <3> toProxy \in [Engines -> [Servers -> Seq(ProxyMsg)]]
      BY DEF IInv, TypeOK
    <3>1. toProxy'[e][d] = Append(toProxy[e][d], m) /\ toProxy[e][d] \in Seq(ProxyMsg)
      BY <1>3
    <3>2. ~ NotIn(toProxy'[e][d], NoQuery)
      BY <1>2, <3>1, AppendedIn
    <3>3. Requested(c)'
      BY <2>1, <3>2 DEF Requested
    <3> QED BY <3>3 DEF Remembered
  <2>2. CASE c # d
    <3>1. Requested(c) => Requested(c)'
      BY <1>2, <1>3, SentRequested
    <3>2. \A f \in Engines : Asking(f, c)' => Asking(f, c)
      BY <2>2 DEF Asking, Ask, IInv, TypeOK
    <3>3. WillAsk(c) => WillAsk(c)'
      BY <3>2, WillAskKept
    <3> QED BY <3>1, <3>3, DeliveringKept, RememberedKept DEF RememberedInv
  <2> QED BY <2>1, <2>2
<1> QED BY <1>4 DEF RememberedInv

(* The steps that neither ask nor receive leave every witness. *)
LEMMA OwnStepRemembered ==
  ASSUME RememberedInv, UNCHANGED <<hasQuery, replies, taskQueue>>,
         \A c \in Servers : Requested(c) => Requested(c)',
         \A f \in Engines, c \in Servers : Asking(f, c)' => Asking(f, c)
  PROVE  RememberedInv'
<1>1. ASSUME NEW c \in Servers
      PROVE  Remembered(c)'
  <2>1. WillAsk(c) => WillAsk(c)'
    BY WillAskKept
  <2> QED BY <2>1, DeliveringKept, RememberedKept DEF RememberedInv
<1> QED BY <1>1 DEF RememberedInv

LEMMA EngineRemembered ==
  ASSUME IInv, GivenUpInv, RememberedInv, NEW e \in Engines, Engine(e)
  PROVE  RememberedInv'
<1>1. CASE Dispatch(e)
  <2>1. held[e] \in Queries
    BY <1>1 DEF IInv, TypeOK, HeldInv, Dispatch
  <2>2. PICK d \in Target(held[e]) :
          toProxy' = [toProxy EXCEPT ![e][d] = Append(@, Enqueue(held[e]))]
    BY <1>1 DEF Dispatch
  <2>3. d \in Servers /\ Enqueue(held[e]) \in ProxyMsg
    BY <2>1, <2>2, TargetInServers, MessageTypes
  <2>4. \A c \in Servers : Requested(c) => Requested(c)'
    BY <2>2, <2>3, SentRequested
  <2>5. /\ UNCHANGED <<hasQuery, replies, taskQueue>>
        /\ \A f \in Engines, c \in Servers : Asking(f, c)' => Asking(f, c)
    BY <1>1 DEF Dispatch, Asking, IInv, TypeOK
  <2> QED BY <2>4, <2>5, OwnStepRemembered
<1>2. CASE AskOwn(e)
  BY <1>2, AskRemembered, EnginePair DEF AskOwn
<1>3. CASE AskNext(e)
  <2> DEFINE d == (dsid[e] + 1) % NumServers
  <2>1. /\ d \in Servers /\ pc[e] = "pick" /\ dsid' = [dsid EXCEPT ![e] = d]
        /\ UNCHANGED <<hasQuery, replies, taskQueue>>
    BY <1>3, NextServer DEF AskNext, IInv, TypeOK
  <2>2. Ask(e, d) \/ UNCHANGED <<toProxy, pc>>
    BY <1>3 DEF AskNext
  <2> HIDE DEF d
  <2>3. CASE Ask(e, d)
    BY <2>1, <2>3, AskRemembered
  <2>4. CASE UNCHANGED <<toProxy, pc>>
    <3>1. \A f \in Engines, c \in Servers : Asking(f, c)' => Asking(f, c)
      BY <2>1, <2>4 DEF Asking, IInv, TypeOK
    <3> QED BY <2>1, <2>4, <3>1, RequestedKept, OwnStepRemembered
  <2> QED BY <2>2, <2>3, <2>4
<1>4. CASE ReceiveSucc(e)
  <2> DEFINE d == dsid[e]
  <2>1. /\ d \in Servers /\ e[1] \in Servers /\ pc[e] = "wait" /\ pc'[e] = "search"
        /\ UNCHANGED <<hasQuery, taskQueue, toProxy, dsid>>
    BY <1>4, EnginePair DEF ReceiveSucc, IInv, TypeOK
  <2>2. hasQuery[e][d]
    BY <2>1 DEF GivenUpInv, GivenUp
  <2>3. \A c, s \in Servers : c # d => replies'[c][s] = replies[c][s]
    BY <1>4, <2>1 DEF ReceiveSucc, TakeReply, IInv, TypeOK
  <2>4. \A f \in Engines, c \in Servers : Asking(f, c)' => Asking(f, c)
    BY <1>4 DEF ReceiveSucc, Asking, IInv, TypeOK
  <2>5. ASSUME NEW c \in Servers
        PROVE  Remembered(c)'
    <3>1. CASE c = d
      <4>1. WillAsk(c)'
        BY <2>1, <2>2, <3>1 DEF WillAsk, Asking
      <4> QED BY <4>1 DEF Remembered
    <3>2. CASE c # d
      <4>1. WillAsk(c) => WillAsk(c)'
        BY <2>1, <2>4, WillAskKept
      <4> QED BY <2>1, <2>3, <3>2, <4>1, RequestedKept, DeliveringKept, RememberedKept
             DEF RememberedInv
    <3> QED BY <3>1, <3>2
  <2> QED BY <2>5 DEF RememberedInv
<1>5. CASE ReceiveFail(e)
  <2> DEFINE d == dsid[e]
  <2>1. /\ d \in Servers /\ e[1] \in Servers /\ Asking(e, d)
        /\ UNCHANGED <<taskQueue, toProxy, dsid>>
    BY <1>5, EnginePair DEF ReceiveFail, IInv, TypeOK, Asking
  <2>2. \A f \in Engines, c \in Servers : f # e \/ c # d => hasQuery'[f][c] = hasQuery[f][c]
    BY <1>5, <2>1 DEF ReceiveFail, IInv, TypeOK
  <2>3. \A f \in Engines, c \in Servers : Asking(f, c)' => Asking(f, c)
    BY <1>5 DEF ReceiveFail, Asking, IInv, TypeOK
  <2> DEFINE in == replies[d][e[1]]
  <2>4. /\ replies'[d][e[1]] = Tail(in) /\ in \in Seq(Reply) /\ in # << >>
        /\ Head(in).type = "dequeue_fail"
        /\ \A c, s \in Servers : c # d \/ s # e[1] => replies'[c][s] = replies[c][s]
    BY <1>5, <2>1 DEF ReceiveFail, TakeReply, IInv, TypeOK
  <2> HIDE DEF d
  <2>5. ASSUME NEW c \in Servers, Delivering(c)
        PROVE  Delivering(c)'
    <3>1. PICK s \in Servers : \E i \in DOMAIN replies[c][s] : replies[c][s][i].type = "dequeue_succ"
      BY <2>5 DEF Delivering
    <3>2. PICK i \in DOMAIN replies[c][s] : replies[c][s][i].type = "dequeue_succ"
      BY <3>1
    <3>3. CASE c = d /\ s = e[1]
      <4>1. /\ i \in 1 .. Len(in) /\ Len(in) \in Nat \ {0} /\ in[1] = Head(in)
            /\ DOMAIN Tail(in) = 1 .. Len(in) - 1
            /\ \A k \in 1 .. Len(in) - 1 : Tail(in)[k] = in[k + 1]
        BY <2>4, <3>2, <3>3, TailFacts
      <4>2. in[i].type = "dequeue_succ"
        BY <3>2, <3>3
      <4> HIDE DEF in
      <4>3. i # 1
        BY <2>4, <4>1, <4>2
      <4>4. i - 1 \in 1 .. Len(in) - 1 /\ (i - 1) + 1 = i
        BY <4>1, <4>3
      <4>5. i - 1 \in DOMAIN Tail(in) /\ Tail(in)[i - 1].type = "dequeue_succ"
        BY <4>1, <4>2, <4>4
      <4> QED BY <2>4, <3>3, <4>5 DEF Delivering
    <3>4. CASE c # d \/ s # e[1]
      BY <2>4, <3>2, <3>4 DEF Delivering
    <3> QED BY <3>3, <3>4
  <2>6. ASSUME NEW c \in Servers
        PROVE  Remembered(c)'
    <3>1. WillAsk(c) => WillAsk(c)'
      BY <2>1, <2>2, <2>3, WillAskKept
    <3> QED BY <2>1, <2>5, <3>1, RequestedKept, RememberedKept DEF RememberedInv
  <2> QED BY <2>6 DEF RememberedInv
<1>6. CASE FetchAdd(e) \/ Search(e) \/ Finish(e)
  <2>1. UNCHANGED <<toProxy, hasQuery, dsid, replies, taskQueue>>
    BY <1>6 DEF FetchAdd, Search, Finish, channelVars
  <2>2. \A f \in Engines, c \in Servers : Asking(f, c)' => Asking(f, c)
    BY <1>6, <2>1 DEF FetchAdd, Search, Finish, Asking, IInv, TypeOK
  <2> QED BY <2>1, <2>2, RequestedKept, OwnStepRemembered
<1> QED BY <1>1, <1>2, <1>3, <1>4, <1>5, <1>6 DEF Engine

(* A request behind a query is still there when the query is taken. *)
LEMMA RequestBehind ==
  ASSUME NEW seq \in Seq(ProxyMsg), seq # << >>, EndsInRequest(seq), Head(seq).type = "enqueue"
  PROVE  ~ NotIn(Tail(seq), NoQuery)
<1> DEFINE n == Len(seq)
<1> DEFINE new == Tail(seq)
<1>1. /\ n \in Nat \ {0} /\ DOMAIN new = 1 .. n - 1
      /\ \A i \in 1 .. n - 1 : new[i] = seq[i + 1]
      /\ Head(seq) = seq[1]
  BY TailFacts
<1>2. seq[n] \in ProxyMsg /\ seq[n].type # "enqueue"
  BY <1>1 DEF EndsInRequest
<1>3. seq[n].query = NoQuery
  BY <1>2 DEF ProxyMsg
<1> HIDE DEF n, new
<1>4. n # 1
  BY <1>1, <1>2
<1>5. n - 1 \in DOMAIN new /\ (n - 1) + 1 = n
  BY <1>1, <1>4
<1>6. new[n - 1] = seq[n]
  BY <1>1, <1>5
<1>7. ~ NotIn(new, NoQuery)
  BY <1>3, <1>5, <1>6 DEF NotIn
<1> QED BY <1>7 DEF new

LEMMA ProxyRemembered ==
  ASSUME IInv, BehindInv, RememberedInv, NEW d \in Servers, Proxy(d)
  PROVE  RememberedInv'
<1>1. UNCHANGED engineVars
  BY DEF Proxy, ProxyEnqueue, ProxyDequeueHigh, ProxyDequeueLow, ProxyDequeueFail, ProxyStop
<1>2. /\ UNCHANGED hasQuery
      /\ \A f \in Engines, c \in Servers : Asking(f, c)' <=> Asking(f, c)
  BY <1>1 DEF engineVars, Asking
<1>3. \A c \in Servers : WillAsk(c) => WillAsk(c)'
  BY <1>2, WillAskKept
<1>4. ASSUME NEW c \in Servers \ {d}
      PROVE  /\ taskQueue'[c] = taskQueue[c]
             /\ \A f \in Engines : toProxy'[f][c] = toProxy[f][c]
             /\ \A s \in Servers : replies'[c][s] = replies[c][s]
  <2>1. \A f \in Engines : toProxy'[f][c] = toProxy[f][c]
    <3>1. UNCHANGED toProxy \/ \E e \in Engines : TakeMsg(d, e)
      BY DEF Proxy, ProxyEnqueue, ProxyDequeueHigh, ProxyDequeueLow, ProxyDequeueFail,
             ProxyStop, channelVars
    <3>2. ASSUME NEW e \in Engines, TakeMsg(d, e)
          PROVE  \A f \in Engines : toProxy'[f][c] = toProxy[f][c]
      BY <3>2 DEF TakeMsg, IInv, TypeOK
    <3> QED BY <3>1, <3>2
  <2>2. \A s \in Servers : replies'[c][s] = replies[c][s]
    <3>1. \/ UNCHANGED replies
          \/ \E e \in Engines : \E type, q : SendReply(d, e[1], type, q)
      BY DEF Proxy, ProxyEnqueue, ProxyDequeueHigh, ProxyDequeueLow, ProxyDequeueFail,
             ProxyStop, channelVars
    <3>2. ASSUME NEW e \in Engines, NEW type, NEW q, SendReply(d, e[1], type, q)
          PROVE  \A s \in Servers : replies'[c][s] = replies[c][s]
      BY <3>2, EnginePair DEF SendReply, IInv, TypeOK
    <3> QED BY <3>1, <3>2
  <2>3. taskQueue'[c] = taskQueue[c]
    BY DEF Proxy, ProxyEnqueue, ProxyDequeueHigh, ProxyDequeueLow, ProxyDequeueFail, ProxyStop,
           IInv, TypeOK
  <2> QED BY <2>1, <2>2, <2>3
<1>5. \A c \in Servers \ {d} : Remembered(c)'
  BY <1>3, <1>4, RequestedKept, DeliveringKept, RememberedKept DEF RememberedInv
<1>6. Remembered(d)'
  <2>1. ASSUME NEW e \in Engines, ProxyEnqueue(d, e)
        PROVE  Remembered(d)'
    <3>1. /\ toProxy'[e][d] = Tail(toProxy[e][d]) /\ toProxy[e][d] # << >>
          /\ toProxy[e][d] \in Seq(ProxyMsg) /\ Head(toProxy[e][d]).type = "enqueue"
      BY <2>1 DEF ProxyEnqueue, TakeMsg, IInv, TypeOK
    <3>2. CASE WillAsk(d)
      BY <1>3, <3>2 DEF Remembered
    <3>3. CASE ~ WillAsk(d)
      <4>1. EndsInRequest(toProxy[e][d])
        BY <3>3 DEF WillAsk, BehindInv, Behind
      <4>2. ~ NotIn(toProxy'[e][d], NoQuery)
        BY <3>1, <4>1, RequestBehind
      <4> QED BY <4>2 DEF Remembered, Requested
    <3> QED BY <3>2, <3>3
  <2>2. ASSUME NEW e \in Engines, NEW q, SendReply(d, e[1], "dequeue_succ", q)
        PROVE  Remembered(d)'
    <3> DEFINE m == [type |-> "dequeue_succ", query |-> q]
    <3> DEFINE out == replies[d][e[1]]
    <3>1. e[1] \in Servers /\ out \in Seq(Reply)
      BY EnginePair DEF IInv, TypeOK
    <3>2. replies'[d][e[1]] = Append(out, m)
      BY <2>2, <3>1 DEF SendReply, IInv, TypeOK
    <3>3. /\ Len(out) + 1 \in DOMAIN Append(out, m)
          /\ Append(out, m)[Len(out) + 1].type = "dequeue_succ"
      BY <3>1
    <3>4. Delivering(d)'
      BY <3>1, <3>2, <3>3 DEF Delivering
    <3> QED BY <3>4 DEF Remembered
  <2>3. ASSUME NEW e \in Engines, ProxyDequeueFail(d, e)
        PROVE  Remembered(d)'
    BY <2>3 DEF ProxyDequeueFail, Remembered
  <2>4. CASE ProxyStop(d)
    <3>1. UNCHANGED <<taskQueue, toProxy, replies>>
      BY <2>4 DEF ProxyStop, channelVars
    <3> QED BY <1>3, <3>1, RequestedKept, DeliveringKept, RememberedKept DEF RememberedInv
  <2> QED BY <2>1, <2>2, <2>3, <2>4 DEF Proxy, ProxyDequeueHigh, ProxyDequeueLow
<1> QED BY <1>5, <1>6 DEF RememberedInv

LEMMA StillRemembered ==
  ASSUME RememberedInv, UNCHANGED <<engineVars, channelVars, taskQueue>>
  PROVE  RememberedInv'
BY DEF RememberedInv, Remembered, WillAsk, Requested, Delivering, Asking, engineVars, channelVars

LEMMA NextRemembered ==
  IInv /\ GivenUpInv /\ BehindInv /\ RememberedInv /\ [Next]_vars => RememberedInv'
<1> SUFFICES ASSUME IInv, GivenUpInv, BehindInv, RememberedInv, [Next]_vars
             PROVE  RememberedInv'
  OBVIOUS
<1>1. ASSUME NEW s \in Servers, Main(s)
      PROVE  RememberedInv'
  <2>1. UNCHANGED <<engineVars, channelVars, taskQueue>>
    BY <1>1 DEF Main, Join, StartGather, GatherReceive, EndGather, SendStop, JoinProxy
  <2> QED BY <2>1, StillRemembered
<1>2. CASE UNCHANGED vars
  BY <1>2, StillRemembered DEF vars
<1> QED BY <1>1, <1>2, EngineRemembered, ProxyRemembered DEF Next, Terminating

-----------------------------------------------------------------------------
(* When every engine thread is done *)

LEMMA ProxiesGivenUp ==
  ASSUME GivenUpInv, NEW e \in Engines, pc[e] = "done", NEW d \in Servers
  PROVE  ~ hasQuery[e][d]
<1>1. Cardinality(Left(e)) = 0
  BY DEF GivenUpInv, GivenUp
<1>2. Left(e) = {}
  BY <1>1, LeftFinite, FS_EmptySet
<1> QED BY <1>2 DEF Left

LEMMA NoneInFlight ==
  ASSUME IInv, MatchedInv, AllDone, NEW s \in Servers, NEW d \in Servers
  PROVE  Requests(s, d) = {} /\ replies[d][s] = << >>
<1>1. Waiting(s, d) = {}
  BY PairEngine DEF AllDone, Waiting
<1>2. Cardinality(Waiting(s, d)) = 0
  BY <1>1, FS_EmptySet
<1>3. /\ IsFiniteSet(Requests(s, d)) /\ Cardinality(Requests(s, d)) \in Nat
      /\ Cardinality(Waiting(s, d)) = Cardinality(Requests(s, d)) + Len(replies[d][s])
  BY FS_CardinalityType DEF MatchedInv, Matched
<1>4. replies[d][s] \in Seq(Reply) /\ Len(replies[d][s]) \in Nat
  BY DEF IInv, TypeOK
<1>5. Cardinality(Requests(s, d)) = 0 /\ Len(replies[d][s]) = 0
  BY <1>2, <1>3, <1>4
<1>6. Requests(s, d) = {}
  BY <1>3, <1>5, FS_EmptySet
<1> QED BY <1>4, <1>5, <1>6

LEMMA NothingSent ==
  ASSUME IInv, GivenUpInv, BehindInv, MatchedInv, AllDone,
         NEW e \in Engines, NEW d \in Servers
  PROVE  toProxy[e][d] = << >>
<1>1. EndsInRequest(toProxy[e][d])
  BY ProxiesGivenUp DEF AllDone, BehindInv, Behind
<1>2. toProxy[e][d] \in Seq(ProxyMsg)
  BY DEF IInv, TypeOK
<1>3. SUFFICES ASSUME toProxy[e][d] # << >>
               PROVE  FALSE
  OBVIOUS
<1> DEFINE n == Len(toProxy[e][d])
<1>4. n \in DOMAIN toProxy[e][d] /\ toProxy[e][d][n] \in ProxyMsg
  BY <1>2, <1>3
<1>5. toProxy[e][d][n].query = NoQuery
  BY <1>1, <1>3, <1>4 DEF EndsInRequest, ProxyMsg
<1> HIDE DEF n
<1>6. RequestIn(toProxy, e[1], d, e[2], n)
  BY <1>4, <1>5, EnginePair DEF RequestIn
<1>7. <<e[2], n>> \in Requests(e[1], d)
  BY <1>6, RequestsElements, RequestsBoth
<1> QED BY <1>7, NoneInFlight, EnginePair

LEMMA NothingQueued ==
  ASSUME IInv, GivenUpInv, BehindInv, RememberedInv, MatchedInv, AllDone, NEW d \in Servers
  PROVE  taskQueue[d] = << >>
<1>1. ~ WillAsk(d)
  BY ProxiesGivenUp DEF WillAsk, AllDone
<1>2. ~ Requested(d)
  BY NothingSent DEF Requested, NotIn
<1>3. ~ Delivering(d)
  BY NoneInFlight DEF Delivering
<1> QED BY <1>1, <1>2, <1>3 DEF RememberedInv, Remembered

LEMMA AllSearched ==
  ASSUME IInv, StageInv, GivenUpInv, BehindInv, RememberedInv, MatchedInv, AllDone,
         NEW q \in Queries
  PROVE  answered[q] = 1
<1>1. counter >= QueryNum /\ counter \in Nat
  <2>1. PICK t \in Threads : TRUE
    BY ThreadsAssumption
  <2>2. <<0, t>> \in Engines
    BY ServersFact, PairEngine
  <2> QED BY <2>2 DEF AllDone, GivenUpInv, GivenUp, IInv, TypeOK
<1>2. q \in Nat /\ q < QueryNum /\ QueryNum \in Nat
  BY ConstantsAssumption DEF Queries
<1>3. ~ q >= counter
  BY <1>1, <1>2
<1>4. ~ Held1(q)
  <2>1. \A e \in Engines : held[e] = NoQuery
    BY DEF IInv, HeldInv, AllDone
  <2> QED BY <2>1, QueryFacts DEF Held1
<1>5. ~ Sent1(q)
  BY NothingSent DEF Sent1, OneOf, OnceIn
<1>6. ~ Queued1(q)
  BY NothingQueued DEF Queued1, QueuedOnce
<1>7. ~ Replied1(q)
  BY NoneInFlight DEF Replied1, OneOf, OnceIn
<1> QED BY <1>3, <1>4, <1>5, <1>6, <1>7 DEF StageInv, Stage

-----------------------------------------------------------------------------
(* The main threads *)

LEMMA JoinedDone == ASSUME MainInv, AllJoined PROVE AllDone
BY EnginePair DEF MainInv, AllJoined, AllDone

LEMMA InitMain == Init => MainInv
BY DEF Init, MainInv

LEMMA MainKept ==
  ASSUME MainInv, UNCHANGED <<main, result>>,
         \A e \in Engines : pc[e] = "done" => pc'[e] = "done",
         AllJoined => UNCHANGED runCount
  PROVE  MainInv'
BY PairEngine DEF MainInv, AllJoined

LEMMA NextMain == IInv /\ MainInv /\ [Next]_vars => MainInv'
<1> SUFFICES ASSUME IInv, MainInv, [Next]_vars
             PROVE  MainInv'
  OBVIOUS
<1>1. ASSUME NEW e \in Engines, Engine(e)
      PROVE  MainInv'
  <2>1. /\ UNCHANGED <<main, result>> /\ pc[e] # "done"
        /\ \A f \in Engines \ {e} : pc'[f] = pc[f]
    BY <1>1 DEF Engine, FetchAdd, Dispatch, AskOwn, AskNext, Ask, ReceiveSucc, ReceiveFail,
                Search, Finish, mainVars, IInv, TypeOK
  <2>2. ~ AllJoined
    BY <2>1, JoinedDone DEF AllDone
  <2> QED BY <2>1, <2>2, MainKept
<1>2. ASSUME NEW d \in Servers, Proxy(d)
      PROVE  MainInv'
  <2>1. UNCHANGED <<main, result, pc, runCount>>
    BY <1>2 DEF Proxy, ProxyEnqueue, ProxyDequeueHigh, ProxyDequeueLow, ProxyDequeueFail,
                ProxyStop, engineVars, searchVars, mainVars
  <2> QED BY <2>1, MainKept
<1>3. ASSUME NEW s \in Servers, Main(s)
      PROVE  MainInv'
  <2> USE DEF IInv, TypeOK, MainInv, AllJoined, engineVars, searchVars
  <2>1. CASE Join(s)
    BY <1>3, <2>1 DEF Join
  <2>2. CASE StartGather(s)
    BY <1>3, <2>2 DEF StartGather
  <2>3. ASSUME NEW src \in Servers, GatherReceive(src)
        PROVE  MainInv'
    BY <1>3, <2>3 DEF GatherReceive
  <2>4. CASE EndGather(s)
    BY <1>3, <2>4 DEF EndGather
  <2>5. CASE SendStop(s)
    BY <1>3, <2>5 DEF SendStop
  <2>6. CASE JoinProxy(s)
    BY <1>3, <2>6 DEF JoinProxy
  <2> QED BY <1>3, <2>1, <2>2, <2>3, <2>4, <2>5, <2>6 DEF Main
<1>4. CASE UNCHANGED vars
  BY <1>4, MainKept DEF vars, engineVars, searchVars, mainVars
<1> QED BY <1>1, <1>2, <1>3, <1>4 DEF Next, Terminating

-----------------------------------------------------------------------------
(* The searches counted by the ranks *)

(* Those of a function c of counts, to reason about two states. *)
RunsOf(c, S) == UNION {{s} \X (1 .. c[s]) : s \in S}

LEMMA RunsBoth ==
  ASSUME NEW S
  PROVE  /\ Runs(S) = RunsOf(runCount, S)
         /\ Runs(S)' = RunsOf(runCount', S)
BY DEF Runs, RunsOf

LEMMA RunsElements ==
  ASSUME NEW c, NEW S
  PROVE  \A x : x \in RunsOf(c, S) <=> \E s \in S : \E k \in 1 .. c[s] : x = <<s, k>>
<1> DEFINE Of(s) == {s} \X (1 .. c[s])
<1>1. RunsOf(c, S) = UNION {Of(s) : s \in S}
  BY DEF RunsOf
<1>2. \A s, x : x \in Of(s) <=> \E k \in 1 .. c[s] : x = <<s, k>>
  OBVIOUS
<1> HIDE DEF Of
<1>3. \A x : x \in UNION {Of(s) : s \in S} <=> \E s \in S : x \in Of(s)
  OBVIOUS
<1> QED BY <1>1, <1>2, <1>3

LEMMA RunsPairs ==
  ASSUME NEW c, NEW S
  PROVE  \A s, k : <<s, k>> \in RunsOf(c, S) <=> s \in S /\ k \in 1 .. c[s]
<1> TAKE s, k
<1>1. <<s, k>> \in RunsOf(c, S) <=> \E r \in S : \E j \in 1 .. c[r] : <<s, k>> = <<r, j>>
  BY RunsElements
<1>2. \A r, j : <<s, k>> = <<r, j>> <=> s = r /\ k = j
  OBVIOUS
<1> QED BY <1>1, <1>2, Zenon

LEMMA RunsEqual ==
  ASSUME NEW c, NEW b, NEW S, \A s \in S : c[s] = b[s]
  PROVE  RunsOf(c, S) = RunsOf(b, S)
<1>1. \A x : x \in RunsOf(c, S) <=> x \in RunsOf(b, S)
  BY RunsElements
<1> QED BY <1>1

LEMMA RunsOfOne ==
  ASSUME NEW c, NEW s, c[s] \in Nat
  PROVE  IsFiniteSet(RunsOf(c, {s})) /\ Cardinality(RunsOf(c, {s})) = c[s]
<1> DEFINE I == 1 .. c[s]
<1> DEFINE f == [k \in I |-> <<s, k>>]
<1> DEFINE R == RunsOf(c, {s})
<1>1. \A k \in I : <<s, k>> \in R
  BY RunsPairs
<1>2. \A x \in R : \E k \in I : x = <<s, k>>
  BY RunsElements
<1> HIDE DEF R
<1>3. f \in [I -> R]
  BY <1>1
<1>4. \A a, b \in I : f[a] = f[b] => a = b
  OBVIOUS
<1>5. \A x \in R : \E k \in I : f[k] = x
  BY <1>2
<1>6. IsFiniteSet(I) /\ Cardinality(I) = c[s]
  BY FS_Interval
<1> HIDE DEF f, I
<1>7. IsFiniteSet(R) /\ Cardinality(R) = Cardinality(I)
  BY <1>3, <1>4, <1>5, <1>6, SameCardinality
<1> QED BY <1>6, <1>7 DEF R

LEMMA RunsOneMoreRank ==
  ASSUME NEW c, NEW S, NEW s, s \notin S, c[s] \in Nat, IsFiniteSet(RunsOf(c, S))
  PROVE  /\ IsFiniteSet(RunsOf(c, S \cup {s}))
         /\ Cardinality(RunsOf(c, S \cup {s})) = Cardinality(RunsOf(c, S)) + c[s]
<1> DEFINE A == RunsOf(c, S)
<1> DEFINE B == RunsOf(c, {s})
<1>1. \A x : x \in RunsOf(c, S \cup {s}) <=> x \in A \/ x \in B
  BY RunsElements
<1>2. RunsOf(c, S \cup {s}) = A \cup B
  BY <1>1
<1>3. A \cap B = {}
  <2>1. ASSUME NEW x, x \in A, x \in B
        PROVE  FALSE
    <3>1. PICK r \in S : \E k \in 1 .. c[r] : x = <<r, k>>
      BY <2>1, RunsElements
    <3>2. \E k \in 1 .. c[s] : x = <<s, k>>
      BY <2>1, RunsElements
    <3> QED BY <3>1, <3>2
  <2> QED BY <2>1
<1>4. IsFiniteSet(B) /\ Cardinality(B) = c[s]
  BY RunsOfOne
<1> HIDE DEF A, B
<1>5. IsFiniteSet(A) /\ Cardinality(A) \in Nat
  BY FS_CardinalityType DEF A
<1>6. /\ IsFiniteSet(A \cup B)
      /\ Cardinality(A \cup B) = Cardinality(A) + Cardinality(B) - Cardinality(A \cap B)
  BY <1>4, <1>5, FS_Union
<1>7. Cardinality(A \cap B) = 0
  BY <1>3, FS_EmptySet
<1>8. Cardinality(A \cup B) = Cardinality(A) + c[s]
  BY <1>4, <1>5, <1>6, <1>7
<1>9. IsFiniteSet(RunsOf(c, S \cup {s}))
  BY <1>2, <1>6
<1> QED BY <1>2, <1>8, <1>9 DEF A

LEMMA RunsOneMore ==
  ASSUME NEW c \in [Servers -> Nat], NEW s \in Servers, IsFiniteSet(RunsOf(c, Servers))
  PROVE  LET b == [c EXCEPT ![s] = @ + 1]
         IN  /\ IsFiniteSet(RunsOf(b, Servers))
             /\ Cardinality(RunsOf(b, Servers)) = Cardinality(RunsOf(c, Servers)) + 1
<1> DEFINE b == [c EXCEPT ![s] = @ + 1]
<1> DEFINE new == <<s, c[s] + 1>>
<1>1. /\ \A r \in Servers \ {s} : b[r] = c[r]
      /\ b[s] = c[s] + 1 /\ c[s] \in Nat
  OBVIOUS
<1> HIDE DEF b
<1>2. \A r \in Servers : \A k : k \in 1 .. b[r] <=> k \in 1 .. c[r] \/ (r = s /\ k = c[s] + 1)
  <2> TAKE r \in Servers
  <2> TAKE k
  <2>1. CASE r = s
    <3>1. k \in 1 .. c[s] + 1 <=> k \in 1 .. c[s] \/ k = c[s] + 1
      BY <1>1
    <3> QED BY <1>1, <2>1, <3>1
  <2>2. CASE r # s
    BY <1>1, <2>2
  <2> QED BY <2>1, <2>2
<1>3. \A x : x \in RunsOf(b, Servers) <=> x \in RunsOf(c, Servers) \/ x = new
  BY <1>2, RunsElements
<1>4. RunsOf(b, Servers) = RunsOf(c, Servers) \cup {new}
  BY <1>3
<1>5. new \notin RunsOf(c, Servers)
  BY <1>1, RunsPairs
<1> HIDE DEF new
<1>6. /\ IsFiniteSet(RunsOf(b, Servers))
      /\ Cardinality(RunsOf(b, Servers)) = Cardinality(RunsOf(c, Servers)) + 1
  BY <1>4, <1>5, FS_AddElement
<1> QED BY <1>6 DEF b

-----------------------------------------------------------------------------
(* CountInv, with the searches as a function of the counts *)

Counted(c, answers) ==
  /\ IsFiniteSet(RunsOf(c, Servers))
  /\ Cardinality(RunsOf(c, Servers)) = Cardinality({q \in Queries : answers[q] = 1})

Gathered(m, done, n, c) ==
  IF m = "join" THEN done = {} ELSE n = Cardinality(RunsOf(c, {Master} \cup done))

LEMMA CountBoth ==
  /\ CountInv <=>
       /\ collected \subseteq Servers \ {Master}
       /\ collected # {} => AllJoined
       /\ Counted(runCount, answered)
       /\ Gathered(main[Master], collected, total, runCount)
       /\ main[Master] \in {"reported", "stop", "exit"} => GatheredAll
  /\ CountInv' <=>
       /\ collected' \subseteq Servers \ {Master}
       /\ collected' # {} => AllJoined'
       /\ Counted(runCount', answered')
       /\ Gathered(main'[Master], collected', total', runCount')
       /\ main'[Master] \in {"reported", "stop", "exit"} => GatheredAll'
BY RunsBoth DEF CountInv, Counted, Gathered, Searched

LEMMA InitCount == Init => CountInv
<1> SUFFICES ASSUME Init PROVE CountInv
  OBVIOUS
<1>1. RunsOf(runCount, Servers) = {}
  <2>1. \A s \in Servers : runCount[s] = 0
    BY DEF Init
  <2>2. \A x : x \notin RunsOf(runCount, Servers)
    BY <2>1, RunsElements
  <2> QED BY <2>2
<1>2. {q \in Queries : answered[q] = 1} = {}
  BY DEF Init
<1>3. Counted(runCount, answered)
  BY <1>1, <1>2, FS_EmptySet DEF Counted
<1>4. main[Master] = "join" /\ collected = {}
  BY ServersFact DEF Init, Master
<1> QED BY <1>3, <1>4, CountBoth DEF Gathered

LEMMA MasterIsServer == Master \in Servers
BY ServersFact DEF Master

(* A search is counted by its rank and sets the row of one query. *)
LEMMA SearchCount ==
  ASSUME IInv, StageInv, MainInv, CountInv, NEW e \in Engines, Search(e)
  PROVE  CountInv'
<1>1. ~ AllJoined
  <2>1. pc[e] # "done"
    BY DEF Search
  <2> QED BY <2>1, JoinedDone DEF AllDone
<1>2. UNCHANGED <<main, collected, total>>
  BY DEF Search, mainVars
<1>3. collected = {}
  BY <1>1, CountBoth
<1>4. e[1] \in Servers /\ held[e] \in Queries
  BY EnginePair DEF IInv, TypeOK, HeldInv, Search
<1>5. runCount \in [Servers -> Nat] /\ answered \in [Queries -> Nat]
  BY DEF IInv, TypeOK
<1>6. runCount' = [runCount EXCEPT ![e[1]] = @ + 1]
  BY DEF Search
<1>7. answered' = [answered EXCEPT ![held[e]] = @ + 1]
  BY DEF Search
<1>8. answered[held[e]] = 0
  BY SearchStage
<1>9. Counted(runCount', answered')
  <2> DEFINE S == {q \in Queries : answered[q] = 1}
  <2> DEFINE S1 == {q \in Queries : answered'[q] = 1}
  <2>1. S1 = S \cup {held[e]} /\ held[e] \notin S
    BY <1>4, <1>5, <1>7, <1>8
  <2>2. IsFiniteSet(S)
    <3>1. IsFiniteSet(Queries)
      BY ConstantsAssumption, FS_Interval DEF Queries
    <3> QED BY <3>1, FS_Subset
  <2> HIDE DEF S, S1
  <2>3. Cardinality(S1) = Cardinality(S) + 1
    BY <2>1, <2>2, FS_AddElement
  <2>4. IsFiniteSet(RunsOf(runCount, Servers)) /\ Cardinality(RunsOf(runCount, Servers)) = Cardinality(S)
    BY CountBoth DEF Counted, S
  <2>5. /\ IsFiniteSet(RunsOf(runCount', Servers))
        /\ Cardinality(RunsOf(runCount', Servers)) = Cardinality(RunsOf(runCount, Servers)) + 1
    BY <1>4, <1>5, <1>6, <2>4, RunsOneMore
  <2> QED BY <2>3, <2>4, <2>5 DEF Counted, S1
<1>10. Gathered(main[Master], {}, total, runCount')
  <2>1. CASE main[Master] = "join"
    BY <2>1 DEF Gathered
  <2>2. CASE main[Master] # "join"
    <3>1. e[1] # Master
      <4>1. pc[e] # "done"
        BY DEF Search
      <4> QED BY <2>2, <4>1, MasterIsServer, EnginePair DEF MainInv
    <3>2. \A s \in {Master} : runCount'[s] = runCount[s]
      BY <1>4, <1>5, <1>6, <3>1, MasterIsServer
    <3>3. RunsOf(runCount', {Master}) = RunsOf(runCount, {Master})
      BY <3>2, RunsEqual
    <3>4. {Master} \cup {} = {Master}
      OBVIOUS
    <3> QED BY <1>3, <2>2, <3>3, <3>4, CountBoth DEF Gathered
  <2> QED BY <2>1, <2>2
<1>11. ~ main[Master] \in {"reported", "stop", "exit"}
  BY <1>1, MasterIsServer DEF MainInv
<1> QED BY <1>2, <1>3, <1>9, <1>10, <1>11, CountBoth

LEMMA CountKept ==
  ASSUME CountInv, UNCHANGED <<runCount, answered, collected, total>>,
         main'[Master] = "join" <=> main[Master] = "join",
         AllJoined => AllJoined',
         main'[Master] \in {"reported", "stop", "exit"} =>
           main[Master] \in {"reported", "stop", "exit"} \/ GatheredAll
  PROVE  CountInv'
<1>1. GatheredAll' <=> GatheredAll
  BY DEF GatheredAll
<1>2. Gathered(main'[Master], collected, total, runCount)
  BY CountBoth DEF Gathered
<1> QED BY <1>1, <1>2, CountBoth

(* The master adds up the counts of the ranks it has heard of, its own first. *)
LEMMA JoinCount ==
  ASSUME IInv, MainInv, CountInv, Join(Master)
  PROVE  CountInv'
<1>1. /\ main[Master] = "join" /\ main'[Master] = "finished"
      /\ total' = runCount[Master] /\ UNCHANGED <<runCount, answered, collected>>
  BY MasterIsServer DEF Join, IInv, TypeOK, searchVars
<1>2. collected = {} /\ Counted(runCount, answered)
  BY <1>1, CountBoth DEF Gathered
<1>3. runCount[Master] \in Nat
  BY MasterIsServer DEF IInv, TypeOK
<1>4. Cardinality(RunsOf(runCount, {Master})) = runCount[Master]
  BY <1>3, RunsOfOne
<1>5. {Master} \cup {} = {Master}
  OBVIOUS
<1>6. Gathered(main'[Master], collected', total', runCount')
  BY <1>1, <1>2, <1>4, <1>5 DEF Gathered
<1> QED BY <1>1, <1>2, <1>6, CountBoth

LEMMA GatherCount ==
  ASSUME IInv, MainInv, CountInv, NEW src \in Servers \ {Master}, GatherReceive(src)
  PROVE  CountInv'
<1>1. /\ main[Master] = "gather" /\ collected = 1 .. src - 1 /\ result[src] # -1
      /\ total' = total + result[src] /\ collected' = collected \cup {src}
      /\ UNCHANGED <<main, runCount, answered>>
  BY DEF GatherReceive, searchVars
<1>2. AllJoined /\ result[src] = runCount[src]
  BY <1>1, MasterIsServer DEF MainInv
<1>3. src \in Nat /\ src # 0 /\ src \notin collected
  BY <1>1, ServersFact DEF Master
<1>4. runCount \in [Servers -> Nat]
  BY DEF IInv, TypeOK
<1>5. collected \subseteq Servers \ {Master} /\ Counted(runCount, answered)
  BY CountBoth
<1> DEFINE S == {Master} \cup collected
<1>6. S \subseteq Servers /\ src \notin S /\ {Master} \cup (collected \cup {src}) = S \cup {src}
  BY <1>3, <1>5, MasterIsServer
<1>7. total = Cardinality(RunsOf(runCount, S))
  BY <1>1, CountBoth DEF Gathered
<1> HIDE DEF S
<1>8. IsFiniteSet(RunsOf(runCount, S))
  <2>1. RunsOf(runCount, S) \subseteq RunsOf(runCount, Servers)
    BY <1>6, RunsElements
  <2>2. IsFiniteSet(RunsOf(runCount, Servers))
    BY <1>5 DEF Counted
  <2> QED BY <2>1, <2>2, FS_Subset
<1>9. Cardinality(RunsOf(runCount, S \cup {src})) = Cardinality(RunsOf(runCount, S)) + runCount[src]
  BY <1>4, <1>6, <1>8, RunsOneMoreRank
<1>10. total' = Cardinality(RunsOf(runCount, {Master} \cup collected'))
  BY <1>1, <1>2, <1>6, <1>7, <1>9
<1>11. Gathered(main'[Master], collected', total', runCount')
  BY <1>1, <1>10 DEF Gathered
<1>12. AllJoined' /\ collected' \subseteq Servers \ {Master}
  BY <1>1, <1>2, <1>5 DEF AllJoined
<1> QED BY <1>1, <1>5, <1>11, <1>12, CountBoth

LEMMA NextCount == IInv /\ StageInv /\ MainInv /\ CountInv /\ [Next]_vars => CountInv'
<1> SUFFICES ASSUME IInv, StageInv, MainInv, CountInv, [Next]_vars
             PROVE  CountInv'
  OBVIOUS
<1>1. ASSUME NEW e \in Engines, Engine(e)
      PROVE  CountInv'
  <2>1. CASE Search(e)
    BY <2>1, SearchCount
  <2>2. CASE ~ Search(e)
    <3>1. UNCHANGED <<main, runCount, answered, collected, total>>
      BY <1>1, <2>2 DEF Engine, FetchAdd, Dispatch, AskOwn, AskNext, ReceiveSucc, ReceiveFail,
                        Finish, searchVars, mainVars
    <3> QED BY <3>1, CountKept DEF AllJoined
  <2> QED BY <2>1, <2>2
<1>2. ASSUME NEW d \in Servers, Proxy(d)
      PROVE  CountInv'
  <2>1. UNCHANGED <<main, runCount, answered, collected, total>>
    BY <1>2 DEF Proxy, ProxyEnqueue, ProxyDequeueHigh, ProxyDequeueLow, ProxyDequeueFail,
                ProxyStop, searchVars, mainVars
  <2> QED BY <2>1, CountKept DEF AllJoined
<1>3. ASSUME NEW s \in Servers, Main(s)
      PROVE  CountInv'
  <2> USE MasterIsServer
  <2> USE DEF IInv, TypeOK, AllJoined, searchVars
  <2>1. CASE Join(s)
    <3>1. CASE s = Master
      BY <2>1, <3>1, JoinCount
    <3>2. CASE s # Master
      <4>1. /\ UNCHANGED <<runCount, answered, collected, total>>
            /\ main'[Master] = main[Master]
            /\ AllJoined => AllJoined'
        BY <1>3, <2>1, <3>2 DEF Join
      <4> QED BY <4>1, CountKept
    <3> QED BY <3>1, <3>2
  <2>2. CASE StartGather(s)
    <3>1. /\ UNCHANGED <<runCount, answered, collected, total>>
          /\ main'[Master] \in {main[Master], "gather"} /\ main[Master] # "join"
          /\ AllJoined => AllJoined'
      BY <1>3, <2>2 DEF StartGather
    <3> QED BY <3>1, CountKept
  <2>3. ASSUME NEW src \in Servers \ {Master}, GatherReceive(src)
        PROVE  CountInv'
    BY <2>3, GatherCount
  <2>4. CASE EndGather(s)
    <3>1. /\ UNCHANGED <<runCount, answered, collected, total>>
          /\ main'[Master] = "join" <=> main[Master] = "join"
          /\ main'[Master] = main[Master] \/ GatheredAll
          /\ AllJoined => AllJoined'
      BY <1>3, <2>4 DEF EndGather
    <3> QED BY <3>1, CountKept
  <2>5. CASE SendStop(s)
    <3>1. /\ UNCHANGED <<runCount, answered, collected, total>>
          /\ main'[Master] = "join" <=> main[Master] = "join"
          /\ main'[Master] = main[Master] \/ main[Master] = "reported"
          /\ AllJoined => AllJoined'
      BY <1>3, <2>5 DEF SendStop
    <3> QED BY <3>1, CountKept
  <2>6. CASE JoinProxy(s)
    <3>1. /\ UNCHANGED <<runCount, answered, collected, total>>
          /\ main'[Master] = "join" <=> main[Master] = "join"
          /\ main'[Master] = main[Master] \/ main[Master] = "stop"
          /\ AllJoined => AllJoined'
      BY <1>3, <2>6 DEF JoinProxy
    <3> QED BY <3>1, CountKept
  <2> QED BY <1>3, <2>1, <2>2, <2>3, <2>4, <2>5, <2>6 DEF Main
<1>4. CASE UNCHANGED vars
  BY <1>4, CountKept DEF vars, searchVars, mainVars, AllJoined
<1> QED BY <1>1, <1>2, <1>3, <1>4 DEF Next, Terminating

-----------------------------------------------------------------------------
(* The invariant, and what it implies *)

LEMMA InitSInv == Init => SInv
BY InitIInv, InitStage, InitGivenUp, InitBehind, InitRemembered, InitMatched, InitMain, InitCount
DEF SInv

LEMMA NextSInv == SInv /\ [Next]_vars => SInv'
BY NextIInv, NextStage, NextGivenUp, NextBehind, NextRemembered, NextMatched, NextMain, NextCount
DEF SInv

(* The conjunction of the invariants of the protocol is inductive: the stages
   of a query, what the threads know of the proxies, the requests and replies
   under way, the stages of the main threads and the counts they add up. *)
THEOREM StrongInvariance == Spec => []SInv
BY InitSInv, NextSInv, PTL DEF Spec

LEMMA TotalIsQueryNum ==
  ASSUME SInv, main[Master] \in {"reported", "stop", "exit"}
  PROVE  total = QueryNum
<1>1. AllJoined
  BY MasterIsServer DEF SInv, MainInv
<1>2. AllDone
  BY <1>1, JoinedDone DEF SInv
<1>3. Searched = Queries
  BY <1>2, AllSearched DEF SInv, Searched
<1>4. Cardinality(Queries) = QueryNum
  BY ConstantsAssumption, FS_Interval DEF Queries
<1>5. {Master} \cup collected = Servers
  BY MasterIsServer DEF SInv, CountInv, GatheredAll
<1>6. total = Cardinality(Runs({Master} \cup collected))
  BY DEF SInv, CountInv
<1>7. Cardinality(Runs(Servers)) = Cardinality(Searched)
  BY DEF SInv, CountInv
<1> QED BY <1>3, <1>4, <1>5, <1>6, <1>7

LEMMA SInvNoQueryMissed == SInv => NoQueryMissed
BY AllSearched, TotalIsQueryNum DEF SInv, NoQueryMissed

(* No query is missed and none is searched twice: when the threads are done
   every query has been searched once, and the master reports query_num. *)
THEOREM NoQueryMissedHolds == Spec => []NoQueryMissed
BY StrongInvariance, SInvNoQueryMissed, PTL

LEMMA SInvEveryQueryInOnePlace == SInv => EveryQueryInOnePlace
BY InOnePlace DEF SInv

(* A query is in one place from the fetch-and-add that hands it out to its
   search: the buffer of a proxy, which drops its oldest query when it is full,
   never holds more queries than there are. *)
THEOREM EveryQueryInOnePlaceHolds == Spec => []EveryQueryInOnePlace
BY StrongInvariance, SInvEveryQueryInOnePlace, PTL

LEMMA SInvRepliesMatchWaiters == SInv => RepliesMatchWaiters
BY MatchedReplies DEF SInv

(* The requests and replies between the threads of a rank and a proxy are as
   many as the threads that wait for it, though any of them takes any reply. *)
THEOREM RepliesMatchWaitersHolds == Spec => []RepliesMatchWaiters
BY StrongInvariance, SInvRepliesMatchWaiters, PTL

LEMMA SInvQuietShutdown == SInv => QuietShutdown
<1> SUFFICES ASSUME SInv, NEW d \in Servers, main[d] \in {"stop", "exit"}
             PROVE  /\ taskQueue[d] = << >>
                    /\ \A e \in Engines : toProxy[e][d] = << >>
                    /\ \A s \in Servers : replies[d][s] = << >>
  BY DEF QuietShutdown
<1>1. AllDone
  <2>1. AllJoined
    BY DEF SInv, MainInv
  <2> QED BY <2>1, JoinedDone DEF SInv
<1> QED BY <1>1, NothingQueued, NothingSent, NoneInFlight DEF SInv

(* The stop message overtakes nothing: a proxy that its main thread stops has
   no message to receive, none on its way to a thread, and no query queued. *)
THEOREM QuietShutdownHolds == Spec => []QuietShutdown
BY StrongInvariance, SInvQuietShutdown, PTL

LEMMA SInvGatherUnambiguous == SInv => GatherUnambiguous
<1> SUFFICES ASSUME SInv PROVE GatherUnambiguous
  OBVIOUS
<1> USE MasterIsServer
<1>1. ASSUME main[Master] = "gather", NEW src \in Servers \ {Master}
      PROVE  /\ replies[src][Master] = << >>
             /\ \A t \in Threads : toProxy[<<src, t>>][Master] = << >>
  <2>1. AllDone
    <3>1. AllJoined
      BY <1>1 DEF SInv, MainInv
    <3> QED BY <3>1, JoinedDone DEF SInv
  <2> QED BY <2>1, NothingSent, NoneInFlight, PairEngine DEF SInv
<1>2. ASSUME NEW src \in Servers \ {Master}, result[src] # -1
      PROVE  Waiting(Master, src) = {}
  <2>1. AllDone
    <3>1. AllJoined
      BY <1>2 DEF SInv, MainInv
    <3> QED BY <3>1, JoinedDone DEF SInv
  <2> QED BY <2>1, PairEngine DEF AllDone, Waiting
<1> QED BY <1>1, <1>2 DEF GatherUnambiguous

(* Neither the master nor an engine thread takes a result for a reply, or a
   reply for a result, although their tags and sources may be the same. *)
THEOREM GatherUnambiguousHolds == Spec => []GatherUnambiguous
BY StrongInvariance, SInvGatherUnambiguous, PTL

-----------------------------------------------------------------------------
(* The refinement of the pool of queries *)

LEMMA InitPool == Init => Pool!Init
<1> SUFFICES ASSUME Init PROVE Pool!Init
  OBVIOUS
<1>1. ~ AllDone
  <2>1. PICK t \in Threads : TRUE
    BY ThreadsAssumption
  <2>2. <<0, t>> \in Engines
    BY ServersFact, PairEngine
  <2> QED BY <2>2 DEF AllDone, Init
<1>2. (IF counter < QueryNum THEN counter ELSE QueryNum) = 0
  BY ConstantsAssumption DEF Init
<1> QED BY <1>1, <1>2 DEF Init, Pool!Init, Pool!Queries, Queries

LEMMA FetchAddPool ==
  ASSUME SInv, NEW e \in Engines, FetchAdd(e)
  PROVE  Pool!Next \/ UNCHANGED Pool!vars
<1>1. UNCHANGED AllDone
  BY DEF SInv, IInv, TypeOK, AllDone, FetchAdd
<1>2. counter \in Nat /\ counter' = counter + 1 /\ answered' = answered
  BY DEF SInv, IInv, TypeOK, FetchAdd, searchVars
<1>3. CASE counter < QueryNum
  <2>1. (IF counter' < QueryNum THEN counter' ELSE QueryNum) = counter + 1
    BY <1>2, <1>3, ConstantsAssumption
  <2> QED BY <1>1, <1>2, <1>3, <2>1 DEF Pool!Next, Pool!HandOut
<1>4. CASE ~ counter < QueryNum
  BY <1>1, <1>2, <1>4, ConstantsAssumption DEF Pool!vars
<1> QED BY <1>3, <1>4

LEMMA SearchPool ==
  ASSUME SInv, NEW e \in Engines, Search(e)
  PROVE  Pool!Next
<1>1. UNCHANGED AllDone
  BY DEF SInv, IInv, TypeOK, AllDone, Search
<1>2. held[e] \in Queries /\ answered \in [Queries -> Nat] /\ counter \in Nat
  BY DEF SInv, IInv, TypeOK, HeldInv, Search
<1>3. answered[held[e]] = 0 /\ counter' = counter
  BY SearchStage DEF SInv, Search
<1>4. answered' = [answered EXCEPT ![held[e]] = 1]
  BY <1>2, <1>3 DEF Search
<1>5. held[e] < IF counter < QueryNum THEN counter ELSE QueryNum
  <2>1. held[e] < counter
    <3>1. ~ Held0(held[e])
      BY DEF Held0
    <3> QED BY <1>2, <1>3, <3>1 DEF SInv, StageInv, Stage
  <2> QED BY <1>2, <2>1, ConstantsAssumption DEF Queries
<1>6. Pool!Answer(held[e])
  BY <1>1, <1>3, <1>4, <1>5 DEF Pool!Answer
<1>7. held[e] \in Pool!Queries
  BY <1>2 DEF Queries, Pool!Queries
<1> QED BY <1>6, <1>7 DEF Pool!Next

(* The last thread to be done closes the pool. *)
LEMMA FinishPool ==
  ASSUME SInv, SInv', NEW e \in Engines, Finish(e)
  PROVE  Pool!Next \/ UNCHANGED Pool!vars
<1>1. counter' = counter /\ answered' = answered /\ ~ AllDone
  BY DEF Finish, searchVars, AllDone
<1>2. CASE ~ AllDone'
  <2>1. UNCHANGED <<counter, answered, AllDone>>
    BY <1>1, <1>2 DEF AllDone
  <2> QED BY <2>1 DEF Pool!vars
<1>3. CASE AllDone'
  <2>1. \A q \in Pool!Queries : answered[q] = 1
    <3>1. NoQueryMissed'
      BY SInvNoQueryMissed, PTL
    <3>2. \A q \in Queries : answered'[q] = 1
      BY <1>3, <3>1 DEF NoQueryMissed
    <3> QED BY <1>1, <3>2 DEF Queries, Pool!Queries
  <2> QED BY <1>1, <1>3, <2>1 DEF Pool!Next, Pool!Close
<1> QED BY <1>2, <1>3

LEMMA NextPool == SInv /\ SInv' /\ [Next]_vars => [Pool!Next]_(Pool!vars)
<1> SUFFICES ASSUME SInv, SInv', [Next]_vars
             PROVE  Pool!Next \/ UNCHANGED Pool!vars
  OBVIOUS
<1>1. ASSUME UNCHANGED <<counter, pc, answered>>
      PROVE  UNCHANGED Pool!vars
  BY <1>1 DEF Pool!vars, AllDone
<1>2. ASSUME NEW e \in Engines, Engine(e)
      PROVE  Pool!Next \/ UNCHANGED Pool!vars
  <2>1. CASE FetchAdd(e)
    BY <2>1, FetchAddPool
  <2>2. CASE Search(e)
    BY <2>2, SearchPool
  <2>3. CASE Finish(e)
    BY <2>3, FinishPool
  <2>4. CASE Dispatch(e) \/ AskOwn(e) \/ AskNext(e) \/ ReceiveSucc(e) \/ ReceiveFail(e)
    <3>1. UNCHANGED <<counter, answered>>
      BY <2>4 DEF Dispatch, AskOwn, AskNext, ReceiveSucc, ReceiveFail, searchVars
    <3>2. pc[e] # "done" /\ pc'[e] # "done"
      BY <2>4 DEF Dispatch, AskOwn, AskNext, Ask, ReceiveSucc, ReceiveFail, SInv, IInv, TypeOK
    <3>3. UNCHANGED AllDone
      BY <3>2 DEF AllDone
    <3> QED BY <3>1, <3>3 DEF Pool!vars
  <2> QED BY <1>2, <2>1, <2>2, <2>3, <2>4 DEF Engine
<1>3. ASSUME NEW d \in Servers, Proxy(d)
      PROVE  UNCHANGED Pool!vars
  BY <1>1, <1>3
  DEF Proxy, ProxyEnqueue, ProxyDequeueHigh, ProxyDequeueLow, ProxyDequeueFail, ProxyStop,
      engineVars, searchVars
<1>4. ASSUME NEW s \in Servers, Main(s)
      PROVE  UNCHANGED Pool!vars
  BY <1>1, <1>4
  DEF Main, Join, StartGather, GatherReceive, EndGather, SendStop, JoinProxy, engineVars, searchVars
<1>5. CASE UNCHANGED vars
  BY <1>1, <1>5 DEF vars, engineVars, searchVars
<1> QED BY <1>2, <1>3, <1>4, <1>5 DEF Next, Terminating

(* The scheduler is a pool of queries, up to liveness: it hands the queries out
   in order, searches each at most once and only after handing it out, and is
   over only when all of them have been searched. *)
THEOREM RefinesWorkPool == Spec => Pool!Init /\ [][Pool!Next]_(Pool!vars)
BY InitPool, NextPool, StrongInvariance, PTL DEF Spec
=============================================================================
