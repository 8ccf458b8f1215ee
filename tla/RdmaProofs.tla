----------------------------- MODULE RdmaProofs -----------------------------
(* Proofs about the RDMA layer: the queue pairs that the servers connect, for
   every number of servers and threads, and the one-sided calls on them, for
   every number of servers, capacity, threshold and batch size. *)
EXTENDS ConnectionSetup, QueuePair, FiniteSetTheorems, FunctionTheorems,
        SequenceTheorems, TLAPS

-----------------------------------------------------------------------------
(* Connecting the queue pairs *)

(* What a server was asked for on behalf of the queue pair the sweep of the
   sender is at. *)
RequestInv ==
  \A d \in Servers : \A r \in requests[d] :
    /\ pc[r.from] = "wait"
    /\ d = PeerOf(at[r.from])
    /\ r.qid = RequestedId(r.from, at[r.from])

(* The end that queue pair k of server s belongs to. *)
IsEndOf(end, s, k) ==
  /\ end[1] = PeerOf(k)
  /\ PeerOf(end[2]) = s
  /\ ThreadOf(end[2]) = ThreadOf(k)

(* A reply answers the one request of a thread that waits. *)
ReplyInv ==
  \A s \in Servers :
    reply[s] # None =>
      /\ pc[s] = "wait"
      /\ \A d \in Servers : \A r \in requests[d] : r.from # s
      /\ reply[s].status = "TCPSUCC" => IsEndOf(reply[s].qp, s, at[s])

WaitInv == \A s \in Servers : pc[s] = "wait" => at[s] < QpNum

(* The sweep has passed no more queue pairs than it counted, and when it has
   counted all those it passed, they are connected. *)
CountInv ==
  \A s \in Servers :
    /\ connected[s] <= at[s]
    /\ connected[s] = at[s] => \A k \in Qps : k < at[s] => Inited(s, k)

ReadyInv ==
  \A s \in Servers :
    pc[s] \in {"ready", "run"} => \A k \in Qps : Inited(s, k)

RunInv ==
  \A s, r \in Servers : pc[s] = "run" => pc[r] \in {"ready", "run"}

IInv ==
  /\ TypeOK
  /\ RequestInv
  /\ ReplyInv
  /\ WaitInv
  /\ CountInv
  /\ ReadyInv
  /\ RunInv
  /\ PairedQueuePairs

-----------------------------------------------------------------------------
(* The numbering of the queue pairs *)

LEMMA QpNumFact == QpNum \in Nat
BY ConnectionAssumption DEF QpNum

LEMMA DivBelow ==
  ASSUME NEW a \in Nat, NEW b \in Nat, NEW n \in Nat, b > 0, a < n * b
  PROVE  a \div b < n
<1>1. a \div b \in Nat /\ b * (a \div b) <= a
  OBVIOUS
<1>2. CASE n <= a \div b
  <2>1. n * b <= (a \div b) * b
    BY <1>1, <1>2
  <2> QED BY <1>1, <2>1
<1> QED BY <1>1, <1>2

LEMMA QpFacts ==
  ASSUME NEW k \in Qps
  PROVE  /\ k \in Nat
         /\ k < QpNum
         /\ PeerOf(k) \in Servers
         /\ ThreadOf(k) \in Nat
         /\ ThreadOf(k) < 65536
<1>1. k \in Nat /\ k < QpNum
  BY QpNumFact DEF Qps
<1>2. NumServers \in Nat /\ NumServers > 0 /\ NumThreads \in Nat /\ NumThreads <= 10000
  BY ConnectionAssumption
<1>3. PeerOf(k) \in 0 .. NumServers - 1
  BY <1>1, <1>2 DEF PeerOf
<1>4. ThreadOf(k) \in Nat
  BY <1>1, <1>2 DEF ThreadOf
<1>5. ThreadOf(k) < NumThreads
  BY <1>1, <1>2, DivBelow DEF ThreadOf, QpNum
<1>6. ThreadOf(k) < 65536
  BY <1>2, <1>4, <1>5
<1> QED BY <1>1, <1>3, <1>4, <1>6 DEF Servers

(* A queue pair is known by its thread and its peer. *)
LEMMA SameQp ==
  ASSUME NEW i \in Qps, NEW k \in Qps,
         ThreadOf(i) = ThreadOf(k), PeerOf(i) = PeerOf(k)
  PROVE  i = k
<1>1. ASSUME NEW a \in Nat, NEW b \in Nat, b > 0
      PROVE  a = b * (a \div b) + (a % b)
  BY <1>1
<1>2. NumServers \in Nat /\ NumServers > 0 /\ i \in Nat /\ k \in Nat
  BY QpFacts, ConnectionAssumption
<1>3. /\ i = NumServers * ThreadOf(i) + PeerOf(i)
      /\ k = NumServers * ThreadOf(k) + PeerOf(k)
  BY <1>1, <1>2 DEF ThreadOf, PeerOf
<1> QED BY <1>3

(* The ids of two queue pairs of a server are different: their indices are
   below 2^16. *)
LEMMA IdsDiffer ==
  ASSUME NEW m \in Int, NEW n \in Int, NEW i \in Int, NEW j \in Int,
         0 <= i, i < 65536, 0 <= j, j < 65536,
         QpId(m, i) = QpId(n, j)
  PROVE  m = n /\ i = j
<1>1. ~ (m < n)
  BY DEF QpId
<1>2. ~ (n < m)
  BY DEF QpId
<1> QED BY <1>1, <1>2 DEF QpId

(* What a request finds is the other end of the queue pair it was sent for. *)
LEMMA FoundIsEnd ==
  ASSUME NEW s \in Servers, NEW k \in Qps, NEW j \in Qps,
         Key(j) = RequestedId(s, k)
  PROVE  IsEndOf(<<PeerOf(k), j>>, s, k)
<1>1. PeerOf(j) \in Int /\ s \in Int
  BY QpFacts, ConnectionAssumption DEF Servers
<1>2. ThreadOf(j) \in Nat /\ ThreadOf(j) < 65536
  BY QpFacts
<1>3. ThreadOf(k) \in Nat /\ ThreadOf(k) < 65536
  BY QpFacts
<1>4. QpId(PeerOf(j), ThreadOf(j)) = QpId(s, ThreadOf(k))
  BY DEF Key, RequestedId
<1>5. PeerOf(j) = s /\ ThreadOf(j) = ThreadOf(k)
  BY <1>1, <1>2, <1>3, <1>4, IdsDiffer
<1> QED BY <1>5 DEF IsEndOf

LEMMA RequestedIdType ==
  ASSUME NEW s \in Servers, NEW k \in Qps
  PROVE  RequestedId(s, k) \in Nat
<1>1. s \in Nat
  BY ConnectionAssumption DEF Servers
<1>2. ThreadOf(k) \in Nat
  BY QpFacts
<1> QED BY <1>1, <1>2 DEF RequestedId, QpId

LEMMA EndNotNone == \A e \in Ends : e # None
BY DEF Ends, None

LEMMA ReplyFacts ==
  /\ None \notin Reply
  /\ \A r \in Reply : r.status = "TCPSUCC" => r.qp \in Ends
BY DEF Reply, None

-----------------------------------------------------------------------------
(* Each action preserves IInv *)

LEMMA InitIInv == Init => IInv
<1> SUFFICES ASSUME Init PROVE IInv
  OBVIOUS
<1>1. 0 \in 0 .. QpNum
  BY QpNumFact
<1>2. TypeOK
  BY <1>1 DEF Init, TypeOK
<1>3. CountInv
  BY QpNumFact DEF Init, CountInv, Qps
<1> QED
  BY <1>2, <1>3
  DEF Init, IInv, RequestInv, ReplyInv, WaitInv, ReadyInv, RunInv,
      PairedQueuePairs, Inited

LEMMA ListenIInv ==
  ASSUME IInv, NEW d \in Servers, Listen(d)
  PROVE  IInv'
BY DEF IInv, TypeOK, RequestInv, ReplyInv, WaitInv, CountInv, ReadyInv, RunInv,
       PairedQueuePairs, Inited, Listen, IsEndOf

(* The two actions that change neither the sweep nor a connection. *)
LEMMA CreateIInv ==
  ASSUME IInv, NEW s \in Servers, CreateQp(s) \/ EndCreate(s)
  PROVE  IInv'
<1>1. CASE CreateQp(s)
  <2>1. created' \in [Servers -> 0 .. QpNum]
    BY <1>1, QpNumFact DEF IInv, TypeOK, CreateQp
  <2> QED
    BY <1>1, <2>1
    DEF IInv, TypeOK, RequestInv, ReplyInv, WaitInv, CountInv, ReadyInv, RunInv,
        PairedQueuePairs, Inited, CreateQp, IsEndOf
<1>2. CASE EndCreate(s)
  BY <1>2
  DEF IInv, TypeOK, RequestInv, ReplyInv, WaitInv, CountInv, ReadyInv, RunInv,
      PairedQueuePairs, Inited, EndCreate, IsEndOf
<1> QED BY <1>1, <1>2

LEMMA ServeIInv ==
  ASSUME IInv, NEW d \in Servers, Serve(d)
  PROVE  IInv'
<1>1. PICK r \in requests[d] :
        /\ requests' = [requests EXCEPT ![d] = @ \ {r}]
        /\ \E answer \in Answers(d, r.qid) :
             reply' = [reply EXCEPT ![r.from] = answer]
  BY DEF Serve
<1>2. PICK answer \in Answers(d, r.qid) :
        reply' = [reply EXCEPT ![r.from] = answer]
  BY <1>1
<1> DEFINE s == r.from
           k == at[r.from]
<1>3. /\ r \in Request
      /\ s \in Servers
      /\ k \in Qps
      /\ pc[s] = "wait"
      /\ d = PeerOf(k)
      /\ r.qid = RequestedId(s, k)
  BY QpNumFact DEF IInv, TypeOK, RequestInv, WaitInv, Request, Qps
<1> HIDE DEF s, k
<1>4. /\ answer \in Reply
      /\ answer.status = "TCPSUCC" => IsEndOf(answer.qp, s, k)
  <2> DEFINE found == {j \in Qps : j < created[d] /\ Key(j) = r.qid}
  <2>1. CASE found = {}
    BY <2>1 DEF Answers, Reply
  <2>2. CASE found # {}
    <3>1. PICK j \in found : answer = [status |-> "TCPSUCC", qp |-> <<d, j>>]
      BY <2>2 DEF Answers
    <3>2. IsEndOf(<<d, j>>, s, k)
      BY <1>3, <3>1, FoundIsEnd
    <3>3. <<d, j>> \in Ends
      BY <3>1 DEF Ends
    <3>4. answer \in [status : {"TCPSUCC"}, qp : Ends]
      BY <3>1, <3>3
    <3>5. answer.qp = <<d, j>>
      BY <3>1
    <3> QED BY <3>2, <3>4, <3>5 DEF Reply
  <2> QED BY <2>1, <2>2
<1>5. requests' \in [Servers -> SUBSET Request] /\ reply' \in [Servers -> Reply \cup {None}]
  BY <1>1, <1>2, <1>3, <1>4 DEF IInv, TypeOK, s
<1>6. TypeOK'
  BY <1>5 DEF IInv, TypeOK, Serve
<1>7. RequestInv'
  BY <1>1 DEF IInv, TypeOK, RequestInv, Serve
<1>8. \A e \in Servers : \A q \in requests'[e] : q.from # s
  <2> SUFFICES ASSUME NEW e \in Servers, NEW q \in requests'[e], q.from = s
               PROVE  FALSE
    OBVIOUS
  <2>1. q \in requests[e] /\ q \in Request
    BY <1>1 DEF IInv, TypeOK
  <2>2. e = d /\ q.qid = r.qid
    BY <1>3, <2>1 DEF IInv, RequestInv, s, k
  <2>3. q = r
    BY <1>3, <2>1, <2>2 DEF Request, s
  <2> QED BY <1>1, <2>2, <2>3 DEF IInv, TypeOK
<1>9. ReplyInv'
  <2> SUFFICES ASSUME NEW t \in Servers, reply'[t] # None
               PROVE  /\ pc'[t] = "wait"
                      /\ \A e \in Servers : \A q \in requests'[e] : q.from # t
                      /\ reply'[t].status = "TCPSUCC" => IsEndOf(reply'[t].qp, t, at'[t])
    BY DEF ReplyInv, IsEndOf
  <2>1. CASE t = s
    BY <1>2, <1>3, <1>4, <1>8, <2>1 DEF IInv, TypeOK, Serve, s, k
  <2>2. CASE t # s
    <3>1. reply'[t] = reply[t]
      BY <1>2, <2>2 DEF IInv, TypeOK, s
    <3>2. \A e \in Servers : requests'[e] \subseteq requests[e]
      BY <1>1 DEF IInv, TypeOK
    <3> QED BY <3>1, <3>2 DEF IInv, ReplyInv, Serve
  <2> QED BY <2>1, <2>2
<1> QED
  BY <1>6, <1>7, <1>9
  DEF IInv, WaitInv, CountInv, ReadyInv, RunInv, PairedQueuePairs, Inited, Serve

(* A sweep goes past a queue pair that is connected, and counts it. *)
LEMMA CountStep ==
  ASSUME IInv, NEW s \in Servers, at[s] < QpNum, CountAndGoOn(s),
         \A t \in Servers, k \in Qps : remote[t][k] # None => remote'[t][k] # None,
         remote'[s][at[s]] # None
  PROVE  CountInv'
<1> SUFFICES ASSUME NEW t \in Servers
             PROVE  /\ connected'[t] <= at'[t]
                    /\ connected'[t] = at'[t] =>
                         \A k \in Qps : k < at'[t] => remote'[t][k] # None
  BY DEF CountInv, Inited
<1>1. /\ at[t] \in Int
      /\ connected[t] \in Int
      /\ connected[t] <= at[t]
      /\ connected[t] = at[t] => \A k \in Qps : k < at[t] => remote'[t][k] # None
  BY QpNumFact DEF IInv, TypeOK, CountInv, Inited
<1>2. CASE t = s
  <2>1. at'[t] = at[t] + 1 /\ connected'[t] = connected[t] + 1
    BY <1>2 DEF IInv, TypeOK, CountAndGoOn
  <2>2. \A k \in Qps : k < at[t] + 1 => k < at[t] \/ k = at[t]
    BY <1>1, QpNumFact DEF Qps
  <2> QED BY <1>1, <1>2, <2>1, <2>2
<1>3. CASE t # s
  <2>1. at'[t] = at[t] /\ connected'[t] = connected[t]
    BY <1>3 DEF IInv, TypeOK, CountAndGoOn
  <2> QED BY <1>1, <2>1
<1> QED BY <1>2, <1>3

LEMMA AlreadyConnectedIInv ==
  ASSUME IInv, NEW s \in Servers, AlreadyConnected(s)
  PROVE  IInv'
<1>1. at[s] \in Nat /\ at[s] + 1 \in 0 .. QpNum /\ connected[s] + 1 \in 0 .. QpNum
  BY QpNumFact DEF IInv, TypeOK, CountInv, AlreadyConnected
<1>2. TypeOK'
  BY <1>1 DEF IInv, TypeOK, AlreadyConnected, CountAndGoOn
<1>3. RequestInv' /\ ReplyInv' /\ WaitInv' /\ RunInv'
  BY DEF IInv, TypeOK, RequestInv, ReplyInv, WaitInv, RunInv, AlreadyConnected,
         CountAndGoOn
<1>4. CountInv'
  BY CountStep DEF AlreadyConnected, Inited
<1> QED
  BY <1>2, <1>3, <1>4
  DEF IInv, TypeOK, ReadyInv, PairedQueuePairs, Inited, AlreadyConnected, CountAndGoOn

LEMMA SendRequestIInv ==
  ASSUME IInv, NEW s \in Servers, SendRequest(s)
  PROVE  IInv'
<1> DEFINE d == PeerOf(at[s])
           r == [from |-> s, qid |-> RequestedId(s, at[s])]
<1>1. at[s] \in Qps /\ at[s] < QpNum
  BY QpNumFact DEF IInv, TypeOK, SendRequest, Qps
<1>2. d \in Servers /\ r \in Request
  BY <1>1, QpFacts, RequestedIdType DEF Request
<1>3. /\ requests' = [requests EXCEPT ![d] = @ \cup {r}]
      /\ pc' = [pc EXCEPT ![s] = "wait"]
      /\ pc[s] = "sweep"
      /\ UNCHANGED <<listening, created, at, connected, remote, reply>>
  BY DEF SendRequest
<1>4. TypeOK'
  BY <1>2, <1>3 DEF IInv, TypeOK
<1>5. RequestInv'
  <2> SUFFICES ASSUME NEW e \in Servers, NEW q \in requests'[e]
               PROVE  /\ pc'[q.from] = "wait"
                      /\ e = PeerOf(at'[q.from])
                      /\ q.qid = RequestedId(q.from, at'[q.from])
    BY DEF RequestInv, RequestedId, PeerOf, QpId, ThreadOf
  <2>1. CASE q \in requests[e]
    BY <1>3, <2>1 DEF IInv, TypeOK, RequestInv, Request
  <2>2. CASE q \notin requests[e]
    <3>1. e = d /\ q = r
      BY <1>2, <1>3, <2>2 DEF IInv, TypeOK
    <3> QED BY <1>3, <3>1 DEF IInv, TypeOK
  <2> QED BY <2>1, <2>2
<1>6. ReplyInv'
  <2> SUFFICES ASSUME NEW t \in Servers, reply[t] # None
               PROVE  /\ pc'[t] = "wait"
                      /\ \A e \in Servers : \A q \in requests'[e] : q.from # t
                      /\ reply[t].status = "TCPSUCC" => IsEndOf(reply[t].qp, t, at[t])
    BY <1>3 DEF ReplyInv, IsEndOf
  <2>1. t # s
    BY <1>3 DEF IInv, ReplyInv
  <2>2. \A e \in Servers : \A q \in requests'[e] : q \in requests[e] \/ q = r
    BY <1>2, <1>3 DEF IInv, TypeOK
  <2> QED BY <1>3, <2>1, <2>2 DEF IInv, TypeOK, ReplyInv
<1>7. WaitInv'
  BY <1>1, <1>3 DEF IInv, TypeOK, WaitInv
<1> QED
  BY <1>3, <1>4, <1>5, <1>6, <1>7
  DEF IInv, TypeOK, CountInv, ReadyInv, RunInv, PairedQueuePairs, Inited

(* An attempt that failed: the sweep passes the queue pair and does not count
   it, so that it counts fewer than it passed. *)
LEMMA FailIInv ==
  ASSUME IInv, NEW s \in Servers, ConnectFails(s) \/ ReplyFails(s)
  PROVE  IInv'
<1>1. /\ at[s] < QpNum
      /\ GoOn(s)
      /\ UNCHANGED <<listening, created, remote, requests>>
      /\ \A t \in Servers : t # s => reply'[t] = reply[t]
      /\ reply'[s] = None
  BY DEF ConnectFails, ReplyFails, TakeReply, IInv, TypeOK, WaitInv, ReplyInv
<1>2. at[s] + 1 \in 0 .. QpNum /\ at[s] \in Int
  BY <1>1, QpNumFact DEF IInv, TypeOK
<1>3. TypeOK'
  <2>1. reply' \in [Servers -> Reply \cup {None}]
    BY DEF ConnectFails, ReplyFails, TakeReply, IInv, TypeOK
  <2> QED BY <1>1, <1>2, <2>1 DEF IInv, TypeOK, GoOn
<1>4. \A d \in Servers : \A r \in requests[d] : r.from # s
  BY DEF ConnectFails, ReplyFails, IInv, RequestInv, ReplyInv
<1>5. RequestInv' /\ ReplyInv' /\ WaitInv'
  BY <1>1, <1>4 DEF IInv, TypeOK, RequestInv, ReplyInv, WaitInv, Request, GoOn, IsEndOf
<1>6. CountInv'
  <2> SUFFICES ASSUME NEW t \in Servers
               PROVE  /\ connected'[t] <= at'[t]
                      /\ connected'[t] = at'[t] =>
                           \A k \in Qps : k < at'[t] => remote'[t][k] # None
    BY DEF CountInv, Inited
  <2>1. /\ at[t] \in Int
        /\ connected[t] \in Int
        /\ connected[t] <= at[t]
        /\ connected[t] = at[t] => \A k \in Qps : k < at[t] => remote[t][k] # None
    BY QpNumFact DEF IInv, TypeOK, CountInv, Inited
  <2>2. CASE t = s
    <3>1. at'[t] = at[t] + 1 /\ connected'[t] = connected[t]
      BY <1>1, <2>2 DEF IInv, TypeOK, GoOn
    <3> QED BY <2>1, <3>1
  <2>3. CASE t # s
    <3>1. at'[t] = at[t] /\ connected'[t] = connected[t]
      BY <1>1, <2>3 DEF IInv, TypeOK, GoOn
    <3> QED BY <1>1, <2>1, <3>1
  <2> QED BY <2>2, <2>3
<1> QED
  BY <1>1, <1>3, <1>5, <1>6
  DEF IInv, TypeOK, ReadyInv, RunInv, PairedQueuePairs, Inited, ConnectFails,
      ReplyFails, GoOn

LEMMA ConnectIInv ==
  ASSUME IInv, NEW s \in Servers, Connect(s)
  PROVE  IInv'
<1> DEFINE k == at[s]
           e == reply[s].qp
<1>1. k \in Qps /\ k < QpNum /\ k + 1 \in 0 .. QpNum /\ connected[s] + 1 \in 0 .. QpNum
  BY QpNumFact DEF IInv, TypeOK, WaitInv, CountInv, Connect, Qps
<1>2. e \in Ends /\ e # None /\ IsEndOf(e, s, k)
  BY ReplyFacts, EndNotNone DEF IInv, TypeOK, ReplyInv, Connect
<1>3. /\ remote' = [remote EXCEPT ![s][k] = e]
      /\ reply' = [reply EXCEPT ![s] = None]
      /\ at' = [at EXCEPT ![s] = @ + 1]
      /\ connected' = [connected EXCEPT ![s] = @ + 1]
      /\ pc' = [pc EXCEPT ![s] = "sweep"]
      /\ pc[s] = "wait"
      /\ UNCHANGED <<listening, created, requests>>
  BY DEF Connect, CountAndGoOn, TakeReply
<1>4. \A d \in Servers : \A r \in requests[d] : r.from # s
  BY DEF Connect, IInv, ReplyInv
<1> HIDE DEF e
<1>5. remote' \in [Servers -> [Qps -> Ends \cup {None}]]
  BY <1>1, <1>2, <1>3 DEF IInv, TypeOK
<1>6. TypeOK'
  BY <1>1, <1>3, <1>5 DEF IInv, TypeOK
<1>7. RequestInv' /\ ReplyInv' /\ WaitInv' /\ RunInv'
  BY <1>3, <1>4
  DEF IInv, TypeOK, RequestInv, ReplyInv, WaitInv, RunInv, Request, IsEndOf
<1>8. \A t \in Servers, j \in Qps :
        \/ t = s /\ j = k /\ remote'[t][j] = e
        \/ remote'[t][j] = remote[t][j]
  BY <1>1, <1>3 DEF IInv, TypeOK
<1>9. remote'[s][k] = e
  BY <1>1, <1>3 DEF IInv, TypeOK
<1>10. CountInv'
  BY <1>1, <1>2, <1>8, <1>9, CountStep DEF Connect
<1>11. PairedQueuePairs'
  BY <1>2, <1>8 DEF IInv, PairedQueuePairs, Inited, IsEndOf
<1>12. ReadyInv'
  BY <1>2, <1>3, <1>8 DEF IInv, TypeOK, ReadyInv, Inited
<1> QED BY <1>6, <1>7, <1>10, <1>11, <1>12 DEF IInv

LEMMA EndSweepIInv ==
  ASSUME IInv, NEW s \in Servers, EndSweep(s)
  PROVE  IInv'
<1>1. CASE connected[s] = QpNum
  <2>1. \A k \in Qps : Inited(s, k)
    BY <1>1, QpNumFact DEF IInv, CountInv, EndSweep, Qps
  <2>2. /\ pc[s] = "sweep"
        /\ pc' = [pc EXCEPT ![s] = "ready"]
        /\ UNCHANGED <<listening, created, at, connected, remote, requests, reply>>
    BY <1>1 DEF EndSweep
  <2>3. TypeOK'
    BY <2>2 DEF IInv, TypeOK
  <2>4. RequestInv' /\ ReplyInv'
    BY <2>2 DEF IInv, TypeOK, RequestInv, ReplyInv, Request, IsEndOf
  <2>5. WaitInv' /\ CountInv' /\ RunInv'
    BY <2>2 DEF IInv, TypeOK, WaitInv, CountInv, RunInv, Inited
  <2> QED
    BY <2>1, <2>2, <2>3, <2>4, <2>5
    DEF IInv, TypeOK, ReadyInv, PairedQueuePairs, Inited
<1>2. CASE connected[s] # QpNum
  <2>1. /\ at' = [at EXCEPT ![s] = 0]
        /\ connected' = [connected EXCEPT ![s] = 0]
        /\ pc[s] = "sweep"
        /\ UNCHANGED <<listening, created, pc, remote, requests, reply>>
    BY <1>2 DEF EndSweep, FirstQp, NewCount
  <2>2. TypeOK'
    BY <2>1, QpNumFact DEF IInv, TypeOK
  <2>3. CountInv'
    BY <2>1, QpNumFact DEF IInv, TypeOK, CountInv, Inited, Qps
  <2> QED
    BY <2>1, <2>2, <2>3
    DEF IInv, TypeOK, RequestInv, ReplyInv, WaitInv, ReadyInv, RunInv, Request,
        PairedQueuePairs, Inited, IsEndOf
<1> QED BY <1>1, <1>2

LEMMA RunIInv ==
  ASSUME IInv, NEW s \in Servers, Run(s)
  PROVE  IInv'
BY DEF IInv, TypeOK, RequestInv, ReplyInv, WaitInv, CountInv, ReadyInv, RunInv,
       Request, PairedQueuePairs, Inited, Run, AllReady, IsEndOf

-----------------------------------------------------------------------------
(* The inductive invariant holds in every reachable state. *)
THEOREM Invariance == Spec => []IInv
<1>1. ASSUME IInv, [Next]_vars
      PROVE  IInv'
  <2>1. CASE UNCHANGED vars
    BY <1>1, <2>1
    DEF vars, IInv, TypeOK, RequestInv, ReplyInv, WaitInv, CountInv, ReadyInv,
        RunInv, PairedQueuePairs, Inited, IsEndOf
  <2>2. ASSUME NEW s \in Servers, Main(s) \/ Listen(s) \/ Serve(s)
        PROVE  IInv'
    BY <1>1, <2>2, ListenIInv, ServeIInv, CreateIInv, AlreadyConnectedIInv,
       SendRequestIInv, FailIInv, ConnectIInv, EndSweepIInv, RunIInv
    DEF Main
  <2> QED BY <1>1, <2>1, <2>2 DEF Next
<1> QED BY <1>1, InitIInv, PTL DEF Spec

(* The state of the connection protocol stays well typed: in particular the
   count of a sweep never passes the number of queue pairs, which is the test
   that ends RDMA_Device's loop. *)
THEOREM TypeCorrect == Spec => []TypeOK
<1>1. IInv => TypeOK
  BY DEF IInv
<1> QED BY <1>1, Invariance, PTL

(* A connected queue pair leads to the queue pair of the same thread at the
   peer, which leads back: connect_rc and recv_thread agree on the ids. *)
THEOREM AlwaysPaired == Spec => []PairedQueuePairs
<1>1. IInv => PairedQueuePairs
  BY DEF IInv
<1> QED BY <1>1, Invariance, PTL

(* After the barrier both ends of every queue pair are connected to each
   other. *)
THEOREM AlwaysPeersReady == Spec => []PeersReady
<1>1. IInv => PeersReady
  <2> SUFFICES ASSUME IInv, NEW s \in Servers, pc[s] = "run", NEW k \in Qps
               PROVE  /\ Inited(s, k)
                      /\ remote[remote[s][k][1]][remote[s][k][2]] = <<s, k>>
    BY DEF PeersReady
  <2>1. \A d \in Servers, j \in Qps :
          Inited(d, j) /\ remote[d][j] \in Ends /\ IsEndOf(remote[d][j], d, j)
    BY SMTT(30) DEF IInv, TypeOK, RunInv, ReadyInv, PairedQueuePairs, Inited, IsEndOf
  <2>2. PICK d \in Servers, j \in Qps : remote[s][k] = <<d, j>>
    BY <2>1 DEF Ends
  <2>3. PICK t \in Servers, i \in Qps : remote[d][j] = <<t, i>>
    BY <2>1 DEF Ends
  <2>4. d = PeerOf(k) /\ PeerOf(j) = s /\ ThreadOf(j) = ThreadOf(k)
    <3>1. IsEndOf(<<d, j>>, s, k)
      BY <2>1, <2>2
    <3> QED BY <3>1 DEF IsEndOf
  <2>5. t = PeerOf(j) /\ PeerOf(i) = d /\ ThreadOf(i) = ThreadOf(j)
    <3>1. IsEndOf(<<t, i>>, d, j)
      BY <2>1, <2>3
    <3> QED BY <3>1 DEF IsEndOf
  <2>6. t = s /\ i = k
    BY <2>4, <2>5, SameQp
  <2> QED BY <2>1, <2>2, <2>3, <2>6
<1> QED BY <1>1, Invariance, PTL

-----------------------------------------------------------------------------
(* The calls on the queue pairs of a thread.  Counting: the units of a list of numbers, from a position on *)

Weights == 0 .. MaxBatch

Units(f, m) ==
  {x \in (1 .. Len(f)) \X (1 .. MaxBatch) : x[1] >= m /\ x[2] <= f[x[1]]}

Total(f, m) == Cardinality(Units(f, m))

(* The same for what weighs as much as w says. *)
Values(q, w) == [n \in 1 .. Len(q) |-> w[q[n]]]
Weight(q, w, m) == Total(Values(q, w), m)

(* The signalled requests of a list, and those nobody waits for. *)
SignalOf == [wr \in Wrs |-> IF wr.signal THEN 1 ELSE 0]
BlindOf == [wr \in Wrs |-> IF wr.owner = Nobody THEN 1 ELSE 0]
Signals(q, i) == Weight(q, SignalOf, i)
Blind(q, i) == Weight(q, BlindOf, i)

(* The completions of s that waiting for the k-th batch and those after it
   will take. *)
Batches == [Servers -> 0 .. MaxBatch]
PollsOf(s) == [c \in Batches |-> c[s]]
OwedFrom(b, s, k) == Weight(b, PollsOf(s), k)

(* What a script is made of. *)
Posts ==
  {o \in [do : {"post"}, qp : Servers, wrs : Seq(Wrs)] :
     /\ Len(o.wrs) \in 1 .. MaxBatch
     /\ \A r \in 1 .. Len(o.wrs) : o.wrs[r].owner = o.wrs[1].owner
     /\ o.wrs[1].owner # Nobody => o.wrs[Len(o.wrs)].signal
     /\ o.wrs[1].owner = Nobody => Len(o.wrs) = 1}

Builds ==
  {o \in [do : {"build"}, qp : Servers, owner : 0 .. MaxHops, left : 1 .. MaxBatch,
          wrs : Seq(Wrs)] :
     /\ o.left + Len(o.wrs) <= MaxBatch
     /\ \A r \in 1 .. Len(o.wrs) : o.wrs[r] = [owner |-> o.owner, signal |-> TRUE]}

PollOps == [do : {"poll"}, qp : Servers, left : 1 .. MaxBatch]

Ops == Posts \cup Builds \cup PollOps

IsPoll(o, s) == o.do = "poll" /\ o.qp = s
IsWork(o, s) == o.do \in {"post", "build"} /\ o.qp = s

(* What it has left to do on the queue pair of s: the completions it takes,
   the requests it has to fill in, the signalled requests it posts. *)
PollOf(s) == [o \in Ops |-> IF IsPoll(o, s) THEN o.left ELSE 0]
BuildOf(s) == [o \in Ops |-> IF IsWork(o, s) /\ o.do = "build" THEN o.left ELSE 0]
WorkOf(s) ==
  [o \in Ops |-> IF ~ IsWork(o, s) THEN 0
                 ELSE IF o.do = "post" THEN Signals(o.wrs, 1) ELSE o.left + Len(o.wrs)]

ToPoll(t, s) == Weight(t, PollOf(s), 1)
ToBuild(t, s) == Weight(t, BuildOf(s), 1)
ToSignal(t, s) == Weight(t, WorkOf(s), 1)

-----------------------------------------------------------------------------
(* The inductive invariant *)

QpTypeInv ==
  /\ QpTypeOK
  /\ done \in [Servers -> Nat]
  /\ todo \in Seq(Ops)

OwnerOf(o) == IF o.do = "post" THEN o.wrs[1].owner ELSE o.owner

(* The request whose completion selective writes have left. *)
Kept(wr) == wr.signal /\ wr.owner = Nobody
NoneKept(s) == \A n \in 1 .. Len(sq[s]) : ~ Kept(sq[s][n])
KeptSlots == IF "WriteSelective" \in Calls THEN PollThreshold ELSE 0

(* What a queue pair still delivers is what will be taken, except for the one
   completion that selective writes leave for a later call. *)
Extra(s) ==
  IF pendings[s] > 0 /\ OwedFrom(batches, s, 1) = 0 /\ ToPoll(todo, s) = 0 THEN 1 ELSE 0
BalanceInv ==
  \A s \in Servers :
    Signals(sq[s], 1) + ToSignal(todo, s)
      = OwedFrom(batches, s, 1) + ToPoll(todo, s) + Extra(s)

(* A request of a batch belongs to one in flight. *)
OwnerInv ==
  \A s \in Servers : \A i \in 1 .. Len(sq[s]) :
    sq[s][i].owner \in 1 .. MaxHops =>
      sq[s][i].owner <= Len(batches) /\ batches[sq[s][i].owner][s] > 0

(* From a request on there are more completions to come than the batches
   after its own will take. *)
AheadInv ==
  \A s \in Servers : \A i \in 1 .. Len(sq[s]) :
    sq[s][i].owner \in 0 .. MaxHops =>
      Signals(sq[s], i) + ToSignal(todo, s) > OwedFrom(batches, s, sq[s][i].owner + 1)

(* A server the call polls no more has executed what the call posted. *)
MineInv ==
  \A s \in Servers :
    ToPoll(todo, s) = 0 => \A i \in 1 .. Len(sq[s]) : sq[s][i].owner # Mine

(* The requests of one call to a server lie close together. *)
Near(q) ==
  \A i, j \in 1 .. Len(q) :
    q[i].owner = q[j].owner /\ q[i].owner # Nobody => j - i < MaxBatch
NearInv == \A s \in Servers : Near(sq[s])

(* What the running call has left to post, and when. *)
OwnedShape(i, s, k) ==
  /\ \A n \in 1 .. Len(sq[s]) : sq[s][n].owner # k
  /\ k = Mine => batches = <<>> /\ \E j \in i + 1 .. Len(todo) : IsPoll(todo[j], s)
  /\ k # Mine => k = Len(batches) /\ batches[k][s] > 0
  /\ \/ \E j \in 1 .. i - 1 : IsPoll(todo[j], s)
     \/ NoneKept(s)

BlindShape(i, s, wr) ==
  /\ i = 1 /\ Len(todo) <= 2
  /\ Len(todo) = 2 => todo[2].do = "poll"
  /\ \/ ~ wr.signal /\ Len(sq[s]) < MaxBlind
     \/ /\ "WriteSelective" \in Calls /\ pendings[s] > 0 /\ batches = <<>>
        /\ \A n \in 1 .. Len(sq[s]) : sq[s][n].owner = Nobody
        /\ IF wr.signal
           THEN /\ \A n \in 1 .. Len(sq[s]) : ~ sq[s][n].signal
                /\ Blind(sq[s], 1) <= MaxBlind + PollThreshold
           ELSE \E p \in 1 .. Len(sq[s]) :
                  /\ Kept(sq[s][p])
                  /\ Blind(sq[s], p + 1) < MaxBlind + pendings[s] - 1
                  /\ Blind(sq[s], 1) < MaxBlind + PollThreshold + pendings[s]

WorkShape(i, s) ==
  /\ \A j \in 1 .. Len(todo) : IsWork(todo[j], s) => j = i
  /\ todo[i].do = "build" => \A j \in 1 .. i - 1 : ~ IsPoll(todo[j], s)
  /\ OwnerOf(todo[i]) # Nobody => OwnedShape(i, s, OwnerOf(todo[i]))
  /\ OwnerOf(todo[i]) = Nobody => BlindShape(i, s, todo[i].wrs[1])
ShapeInv ==
  \A s \in Servers : \A i \in 1 .. Len(todo) : IsWork(todo[i], s) => WorkShape(i, s)

(* How many slots requests take that nobody waits for. *)
BlindInv ==
  \A s \in Servers :
    /\ NoneKept(s) => Blind(sq[s], 1) <= MaxBlind + KeptSlots
    /\ \A p \in 1 .. Len(sq[s]) :
         Kept(sq[s][p]) =>
           /\ "WriteSelective" \in Calls /\ pendings[s] > 0 /\ OwedFrom(batches, s, 1) = 0
           /\ \A n \in 1 .. p - 1 : ~ sq[s][n].signal
           /\ Blind(sq[s], p + 1) <= MaxBlind + pendings[s] - 1
           /\ Blind(sq[s], 1) <= MaxBlind + PollThreshold + pendings[s]

(* A list that is being filled in never reaches the threshold. *)
PendingInv ==
  \A s \in Servers :
    LET owed == OwedFrom(batches, s, 1) + ToPoll(todo, s)
        build == ToBuild(todo, s)
    IN  /\ \/ OwedFrom(batches, s, 1) > 0 /\ ToPoll(todo, s) = 0
           \/ build > 0
           => pendings[s] + build <= owed
        /\ build > 0 => owed <= MaxHops * MaxBatch
        /\ pendings[s] <= PollThreshold + 1
        /\ pendings[s] = PollThreshold + 1 => ToPoll(todo, s) > 0

QpIInv ==
  /\ QpTypeInv
  /\ BalanceInv
  /\ OwnerInv
  /\ AheadInv
  /\ MineInv
  /\ NearInv
  /\ ShapeInv
  /\ BlindInv
  /\ PendingInv
  /\ ~ failed

-----------------------------------------------------------------------------
(* Counting *)

(* A number of a list is a natural, MaxBatch at most. *)
LEMMA MaxBatchFact == MaxBatch \in Nat /\ MaxBatch > 0 /\ Weights \in SUBSET Nat
BY QueuePairAssumption DEF Weights

(* How many numbers 1 .. n are. *)
LEMMA Upto ==
  ASSUME NEW n \in Nat
  PROVE  IsFiniteSet(1 .. n) /\ Cardinality(1 .. n) = n
BY FS_Interval

(* A list has finitely many units, MaxBatch for each position at most. *)
LEMMA UnitsFinite ==
  ASSUME NEW f \in Seq(Weights), NEW m \in Int
  PROVE  /\ IsFiniteSet(Units(f, m)) /\ Total(f, m) \in Nat
         /\ Total(f, m) <= Len(f) * MaxBatch
<1> DEFINE A == 1 .. Len(f)
           B == 1 .. MaxBatch
<1>1. Len(f) \in Nat /\ MaxBatch \in Nat
  BY MaxBatchFact
<1>2. IsFiniteSet(A) /\ Cardinality(A) = Len(f) /\ IsFiniteSet(B) /\ Cardinality(B) = MaxBatch
  BY <1>1, Upto
<1> HIDE DEF A, B
<1>3. IsFiniteSet(A \X B) /\ Cardinality(A \X B) = Len(f) * MaxBatch
  BY <1>2, FS_Product
<1>4. Units(f, m) \in SUBSET (A \X B)
  BY DEF Units, A, B
<1>5. IsFiniteSet(Units(f, m)) /\ Cardinality(Units(f, m)) <= Cardinality(A \X B)
  BY <1>3, <1>4, FS_Subset
<1>6. Cardinality(Units(f, m)) \in Nat
  BY <1>5, FS_CardinalityType
<1> QED BY <1>3, <1>5, <1>6 DEF Total

(* Where two lists agree they have as many units. *)
LEMMA TotalMoved ==
  ASSUME NEW f \in Seq(Weights), NEW g \in Seq(Weights), NEW m \in Int, NEW c \in Int,
         \A i \in 1 .. Len(f) : i >= m => i + c \in 1 .. Len(g) /\ g[i + c] = f[i],
         \A j \in 1 .. Len(g) : j >= m + c => j - c \in 1 .. Len(f)
  PROVE  Total(g, m + c) = Total(f, m)
<1> DEFINE S == Units(f, m)
           T == Units(g, m + c)
           h == [x \in S |-> <<x[1] + c, x[2]>>]
<1>1. \A x \in S : /\ x = <<x[1], x[2]>> /\ x[1] \in 1 .. Len(f) /\ x[2] \in 1 .. MaxBatch
                   /\ x[1] >= m /\ x[2] <= f[x[1]]
  BY DEF Units
<1>2. \A y \in T : /\ y = <<y[1], y[2]>> /\ y[1] \in 1 .. Len(g) /\ y[2] \in 1 .. MaxBatch
                   /\ y[1] >= m + c /\ y[2] <= g[y[1]]
  BY DEF Units
<1>3. \A a \in 1 .. Len(f), b \in 1 .. MaxBatch : a >= m /\ b <= f[a] => <<a, b>> \in S
  BY DEF Units
<1>4. \A a \in 1 .. Len(g), b \in 1 .. MaxBatch : a >= m + c /\ b <= g[a] => <<a, b>> \in T
  BY DEF Units
<1>5. IsFiniteSet(S) /\ Total(f, m) = Cardinality(S) /\ Total(g, m + c) = Cardinality(T)
  BY UnitsFinite DEF Total
<1> HIDE DEF S, T
<1>6. \A x \in S : h[x] \in T /\ h[x][1] = x[1] + c /\ h[x][2] = x[2]
  <2> TAKE x \in S
  <2>1. x[1] + c \in 1 .. Len(g) /\ g[x[1] + c] = f[x[1]]
    BY <1>1
  <2>2. x[1] + c >= m + c /\ x[2] \in 1 .. MaxBatch /\ x[2] <= g[x[1] + c]
    BY <1>1, <2>1
  <2>3. <<x[1] + c, x[2]>> \in T
    BY <1>4, <2>1, <2>2
  <2> QED BY <2>3
<1>7. \A x, y \in S : h[x] = h[y] => x = y
  <2> TAKE x, y \in S
  <2> HAVE h[x] = h[y]
  <2> HIDE DEF h
  <2>1. x[1] \in Int /\ y[1] \in Int
    BY <1>1
  <2>2. x[1] + c = y[1] + c /\ x[2] = y[2]
    BY <1>6
  <2>3. x[1] = y[1]
    BY <2>1, <2>2
  <2> QED BY <1>1, <2>2, <2>3
<1>8. \A y \in T : \E x \in S : h[x] = y
  <2> TAKE y \in T
  <2> DEFINE x == <<y[1] - c, y[2]>>
  <2>1. y[1] - c \in 1 .. Len(f) /\ y[1] - c >= m /\ (y[1] - c) + c = y[1]
    BY <1>2
  <2>2. g[y[1]] = f[y[1] - c]
    <3>1. g[(y[1] - c) + c] = f[y[1] - c]
      BY <2>1
    <3> QED BY <2>1, <3>1
  <2>3. x \in S
    BY <1>2, <1>3, <2>1, <2>2
  <2>4. h[x] = <<(y[1] - c) + c, y[2]>>
    BY <2>3
  <2> QED BY <1>2, <2>1, <2>3, <2>4
<1> HIDE DEF h
<1>9. h \in [S -> T]
  <2>1. h = [x \in S |-> h[x]]
    BY DEF h
  <2> QED BY <2>1, <1>6
<1>10. h \in Bijection(S, T)
  BY <1>7, <1>8, <1>9, Fun_IsInj, Fun_IsSurj, Fun_IsBij
<1> QED BY <1>5, <1>10, FS_Bijection DEF ExistsBijection

(* The units of a position and those after it. *)
LEMMA TotalStep ==
  ASSUME NEW f \in Seq(Weights), NEW m \in 1 .. Len(f)
  PROVE  Total(f, m) = f[m] + Total(f, m + 1) /\ f[m] \in Nat
<1> DEFINE A == {m} \X (1 .. f[m])
           B == Units(f, m + 1)
<1>1. f[m] \in Weights
  OBVIOUS
<1>2. f[m] \in Nat /\ f[m] <= MaxBatch
  BY <1>1, MaxBatchFact DEF Weights
<1>3. IsFiniteSet(A) /\ Cardinality(A) = f[m]
  <2>1. IsFiniteSet(1 .. f[m]) /\ Cardinality(1 .. f[m]) = f[m]
    BY <1>2, Upto
  <2>2. IsFiniteSet({m}) /\ Cardinality({m}) = 1
    BY FS_Singleton
  <2>3. IsFiniteSet(A) /\ Cardinality(A) = 1 * f[m]
    BY <2>1, <2>2, FS_Product, ZenonT(60)
  <2> QED BY <1>2, <2>3
<1>4. IsFiniteSet(B) /\ Total(f, m + 1) = Cardinality(B) /\ Cardinality(B) \in Nat
  BY UnitsFinite DEF Total
<1>5. Units(f, m) = A \cup B
  <2>1. \A x \in Units(f, m) : x \in A \cup B
    BY <1>2 DEF Units
  <2>2. \A x \in A : x \in Units(f, m)
    BY <1>2, MaxBatchFact DEF Units
  <2>3. \A x \in B : x \in Units(f, m)
    BY DEF Units
  <2> HIDE DEF A, B
  <2> QED BY <2>1, <2>2, <2>3
<1>6. A \cap B = {}
  BY DEF Units
<1> HIDE DEF A, B
<1>7. Cardinality(A \cup B) = Cardinality(A) + Cardinality(B) - Cardinality(A \cap B)
  BY <1>3, <1>4, FS_Union
<1>8. Cardinality(A \cap B) = 0
  BY <1>6, FS_EmptySet
<1> QED BY <1>2, <1>3, <1>4, <1>5, <1>7, <1>8 DEF Total

(* Only zeros: no units. *)
LEMMA TotalZero ==
  ASSUME NEW f \in Seq(Weights), NEW m \in Int,
         \A i \in 1 .. Len(f) : i >= m => f[i] = 0
  PROVE  Total(f, m) = 0
<1>1. Units(f, m) = {}
  <2>1. \A x \in Units(f, m) : /\ x[1] \in 1 .. Len(f) /\ x[1] >= m /\ x[2] \in 1 .. MaxBatch
                               /\ x[2] <= f[x[1]]
    BY DEF Units
  <2>2. \A x \in Units(f, m) : FALSE
    BY <2>1
  <2> QED BY <2>2
<1> QED BY <1>1, FS_EmptySet DEF Total

(* A number that is not 0 has a unit. *)
LEMMA TotalPositive ==
  ASSUME NEW f \in Seq(Weights), NEW m \in Int, NEW i \in 1 .. Len(f), i >= m, f[i] > 0
  PROVE  Total(f, m) > 0
<1>1. f[i] \in Weights
  OBVIOUS
<1>2. <<i, 1>> \in Units(f, m)
  BY <1>1, MaxBatchFact DEF Units, Weights
<1>3. IsFiniteSet(Units(f, m)) /\ Total(f, m) \in Nat
  BY UnitsFinite
<1>4. Cardinality(Units(f, m)) # 0
  BY <1>2, <1>3, FS_EmptySet
<1> QED BY <1>3, <1>4 DEF Total

(* From a later position on there are no more units. *)
LEMMA TotalMonotone ==
  ASSUME NEW f \in Seq(Weights), NEW m \in Int, NEW n \in Int, m <= n
  PROVE  Total(f, n) <= Total(f, m)
<1>1. Units(f, n) \in SUBSET Units(f, m)
  <2>1. \A i \in 1 .. Len(f) : i >= n => i >= m
    OBVIOUS
  <2> QED BY <2>1 DEF Units
<1>2. IsFiniteSet(Units(f, m))
  BY UnitsFinite
<1> QED BY <1>1, <1>2, FS_Subset DEF Total

(* Zeros in front do not count. *)
LEMMA TotalSkip ==
  ASSUME NEW f \in Seq(Weights), NEW m \in Int, NEW n \in Int, m <= n,
         \A i \in 1 .. Len(f) : m <= i /\ i < n => f[i] = 0
  PROVE  Total(f, n) = Total(f, m)
<1>1. \A x \in (1 .. Len(f)) \X (1 .. MaxBatch) :
        (x[1] >= n /\ x[2] <= f[x[1]]) <=> (x[1] >= m /\ x[2] <= f[x[1]])
  <2> TAKE x \in (1 .. Len(f)) \X (1 .. MaxBatch)
  <2>1. x[1] \in 1 .. Len(f) /\ x[2] \in 1 .. MaxBatch
    OBVIOUS
  <2>2. m <= x[1] /\ x[1] < n => f[x[1]] = 0
    BY <2>1
  <2> QED BY <2>1, <2>2
<1>2. Units(f, n) = Units(f, m)
  BY <1>1 DEF Units
<1> QED BY <1>2 DEF Total

(* A list with one number that is not 0. *)
LEMMA TotalSingle ==
  ASSUME NEW f \in Seq(Weights), NEW m \in Int, NEW i \in 1 .. Len(f), i >= m,
         \A j \in 1 .. Len(f) : j # i => f[j] = 0
  PROVE  Total(f, m) = f[i]
<1>1. Total(f, i) = Total(f, m)
  BY TotalSkip
<1>2. Total(f, i + 1) = 0
  BY TotalZero
<1> QED BY <1>1, <1>2, TotalStep

(* Two lists, one after the other. *)
LEMMA TotalConcat ==
  ASSUME NEW f \in Seq(Weights), NEW g \in Seq(Weights), NEW h \in Seq(Weights),
         Len(h) = Len(f) + Len(g), \A i \in 1 .. Len(f) : h[i] = f[i],
         \A i \in 1 .. Len(g) : h[i + Len(f)] = g[i],
         NEW m \in 1 .. Len(f) + 1
  PROVE  Total(h, m) = Total(f, m) + Total(g, 1)
<1> DEFINE A == Units(f, m)
           B == Units(h, Len(f) + 1)
<1>1. /\ Len(f) \in Nat /\ Len(g) \in Nat
      /\ \A i \in 1 .. Len(g) : i + Len(f) \in 1 .. Len(h) /\ h[i + Len(f)] = g[i]
  OBVIOUS
<1>2. IsFiniteSet(A) /\ Total(f, m) = Cardinality(A) /\ Cardinality(A) \in Nat
  BY UnitsFinite DEF Total
<1>3. /\ IsFiniteSet(B) /\ Total(h, Len(f) + 1) = Cardinality(B) /\ Cardinality(B) \in Nat
  BY <1>1, UnitsFinite DEF Total
<1>4. Units(h, m) = A \cup B
  <2>1. \A x : x \in Units(h, m) <=>
               /\ x \in (1 .. Len(h)) \X (1 .. MaxBatch) /\ x[1] >= m /\ x[2] <= h[x[1]]
    BY DEF Units
  <2>2. \A x : x \in A <=>
               /\ x \in (1 .. Len(f)) \X (1 .. MaxBatch) /\ x[1] >= m /\ x[2] <= f[x[1]]
    BY DEF Units
  <2>3. \A x : x \in B <=>
               /\ x \in (1 .. Len(h)) \X (1 .. MaxBatch) /\ x[1] >= Len(f) + 1 /\ x[2] <= h[x[1]]
    BY DEF Units
  <2> HIDE DEF A, B
  <2>4. \A x \in (1 .. Len(h)) \X (1 .. MaxBatch) :
          x[1] >= m /\ x[2] <= h[x[1]] <=> x \in A \/ x \in B
    <3> TAKE x \in (1 .. Len(h)) \X (1 .. MaxBatch)
    <3>1. x = <<x[1], x[2]>> /\ x[1] \in 1 .. Len(h) /\ x[2] \in 1 .. MaxBatch
      OBVIOUS
    <3>2. CASE x[1] <= Len(f)
      <4>1. x[1] \in 1 .. Len(f) /\ h[x[1]] = f[x[1]]
        BY <1>1, <3>1, <3>2
      <4>2. x \in (1 .. Len(f)) \X (1 .. MaxBatch)
        BY <3>1, <4>1
      <4>3. x \notin B
        BY <2>3, <3>1, <3>2
      <4> QED BY <2>2, <4>1, <4>2, <4>3
    <3>3. CASE x[1] > Len(f)
      <4>1. x[1] >= Len(f) + 1 /\ x[1] >= m
        BY <3>1, <3>3, <1>1
      <4>2. x \notin A
        BY <2>2, <3>1, <3>3
      <4> QED BY <2>3, <4>1, <4>2
    <3> QED BY <3>1, <3>2, <3>3
  <2>5. \A x \in A \cup B : x \in (1 .. Len(h)) \X (1 .. MaxBatch)
    <3>1. 1 .. Len(f) \subseteq 1 .. Len(h)
      BY <1>1
    <3> QED BY <2>2, <2>3, <3>1
  <2> QED BY <2>1, <2>4, <2>5
<1>5. A \cap B = {}
  BY DEF Units
<1> HIDE DEF A, B
<1>6. Cardinality(A \cup B) = Cardinality(A) + Cardinality(B) - Cardinality(A \cap B)
  BY <1>2, <1>3, FS_Union
<1>7. Cardinality(A \cap B) = 0
  BY <1>5, FS_EmptySet
<1>8. Total(h, 1 + Len(f)) = Total(g, 1)
  <2>1. \A j \in 1 .. Len(h) : j >= 1 + Len(f) => j - Len(f) \in 1 .. Len(g)
    BY <1>1
  <2>2. \A i \in 1 .. Len(g) : i >= 1 => i + Len(f) \in 1 .. Len(h) /\ h[i + Len(f)] = g[i]
    BY <1>1
  <2>3. Len(f) \in Int /\ 1 \in Int
    OBVIOUS
  <2> QED BY <1>1, <2>1, <2>2, <2>3, TotalMoved, Zenon
<1>9. Total(h, m) = Cardinality(A \cup B)
  BY <1>4 DEF Total
<1> QED BY <1>2, <1>3, <1>6, <1>7, <1>8, <1>9

(* What is left of a list when its first a numbers are gone. *)
LEMMA TotalRest ==
  ASSUME NEW f \in Seq(Weights), NEW g \in Seq(Weights), NEW a \in 0 .. Len(f),
         NEW m \in Nat, m >= 1, Len(g) = Len(f) - a,
         \A i \in 1 .. Len(g) : g[i] = f[i + a]
  PROVE  Total(g, m) = Total(f, m + a)
<1>1. \A i \in 1 .. Len(g) : i >= m => i + a \in 1 .. Len(f) /\ f[i + a] = g[i]
  <2> TAKE i \in 1 .. Len(g)
  <2>1. i + a \in 1 .. Len(f)
    OBVIOUS
  <2> QED BY <2>1
<1>2. \A j \in 1 .. Len(f) : j >= m + a => j - a \in 1 .. Len(g)
  OBVIOUS
<1>3. m \in Int /\ a \in Int
  OBVIOUS
<1> QED BY <1>1, <1>2, <1>3, TotalMoved, Zenon

(* A list of zeros and ones. *)
LEMMA TotalOfOnes ==
  ASSUME NEW f \in Seq(0 .. 1), NEW m \in Int
  PROVE  /\ f \in Seq(Weights)
         /\ LET S == {i \in 1 .. Len(f) : i >= m /\ f[i] = 1}
            IN  IsFiniteSet(S) /\ Cardinality(S) = Total(f, m)
<1> DEFINE S == {i \in 1 .. Len(f) : i >= m /\ f[i] = 1}
           T == Units(f, m)
           h == [i \in S |-> <<i, 1>>]
<1>1. f \in Seq(Weights)
  <2>1. 0 .. 1 \subseteq Weights
    BY MaxBatchFact DEF Weights
  <2> QED BY <2>1
<1>2. \A i \in 1 .. Len(f) : f[i] \in 0 .. 1
  OBVIOUS
<1>3. \A x \in T : x[1] \in S /\ x = <<x[1], 1>>
  <2> TAKE x \in T
  <2>1. /\ x = <<x[1], x[2]>> /\ x[1] \in 1 .. Len(f) /\ x[2] \in 1 .. MaxBatch
        /\ x[1] >= m /\ x[2] <= f[x[1]]
    BY DEF Units
  <2>2. f[x[1]] \in 0 .. 1
    BY <1>2, <2>1
  <2>3. x[2] = 1 /\ f[x[1]] = 1
    BY <2>1, <2>2
  <2> QED BY <2>1, <2>3
<1>4. \A i \in S : <<i, 1>> \in T
  BY MaxBatchFact DEF Units
<1>5. IsFiniteSet(S)
  <2>1. Len(f) \in Nat
    OBVIOUS
  <2>2. IsFiniteSet(1 .. Len(f)) /\ S \subseteq 1 .. Len(f)
    BY <2>1, FS_Interval
  <2> QED BY <2>2, FS_Subset
<1> HIDE DEF S, T
<1>6. h \in [S -> T] /\ \A i \in S : h[i] = <<i, 1>>
  BY <1>4
<1> HIDE DEF h
<1>7. \A i, j \in S : h[i] = h[j] => i = j
  BY <1>6
<1>8. \A x \in T : \E i \in S : h[i] = x
  BY <1>3, <1>6
<1>9. h \in Bijection(S, T)
  BY <1>6, <1>7, <1>8, Fun_IsInj, Fun_IsSurj, Fun_IsBij
<1>10. Cardinality(S) = Cardinality(T)
  BY <1>5, <1>9, FS_Bijection DEF ExistsBijection
<1> QED BY <1>1, <1>5, <1>10 DEF S, T, Total

-----------------------------------------------------------------------------
(* Lists of what weighs something *)

(* The list of weights of a list. *)
LEMMA ValuesType ==
  ASSUME NEW S, NEW w \in [S -> Weights], NEW q \in Seq(S)
  PROVE  /\ Values(q, w) \in Seq(Weights) /\ Len(Values(q, w)) = Len(q)
         /\ \A n \in 1 .. Len(q) : Values(q, w)[n] = w[q[n]] /\ w[q[n]] \in Nat
<1>1. Len(q) \in Nat /\ \A n \in 1 .. Len(q) : q[n] \in S
  OBVIOUS
<1>2. \A n \in 1 .. Len(q) : w[q[n]] \in Weights
  BY <1>1
<1>3. Values(q, w) \in [1 .. Len(q) -> Weights]
  BY <1>2 DEF Values
<1>4. Values(q, w) \in Seq(Weights) /\ Len(Values(q, w)) = Len(q)
  BY <1>1, <1>3
<1>5. \A n \in 1 .. Len(q) : Values(q, w)[n] = w[q[n]]
  BY DEF Values
<1> QED BY <1>2, <1>4, <1>5, MaxBatchFact

(* A weight is a natural, MaxBatch for each element at most. *)
LEMMA WeightType ==
  ASSUME NEW S, NEW w \in [S -> Weights], NEW q \in Seq(S), NEW m \in Int
  PROVE  Weight(q, w, m) \in Nat /\ Weight(q, w, m) <= Len(q) * MaxBatch
BY ValuesType, UnitsFinite DEF Weight

(* The first element and the rest. *)
LEMMA WeightStep ==
  ASSUME NEW S, NEW w \in [S -> Weights], NEW q \in Seq(S), NEW m \in 1 .. Len(q)
  PROVE  Weight(q, w, m) = w[q[m]] + Weight(q, w, m + 1) /\ w[q[m]] \in Nat
BY ValuesType, TotalStep DEF Weight

(* What weighs nothing. *)
LEMMA WeightZero ==
  ASSUME NEW S, NEW w \in [S -> Weights], NEW q \in Seq(S), NEW m \in Int,
         \A i \in 1 .. Len(q) : i >= m => w[q[i]] = 0
  PROVE  Weight(q, w, m) = 0
<1>1. \A i \in 1 .. Len(Values(q, w)) : i >= m => Values(q, w)[i] = 0
  BY ValuesType
<1> QED BY <1>1, ValuesType, TotalZero DEF Weight

(* What weighs something. *)
LEMMA WeightPositive ==
  ASSUME NEW S, NEW w \in [S -> Weights], NEW q \in Seq(S), NEW m \in Int,
         NEW i \in 1 .. Len(q), i >= m, w[q[i]] > 0
  PROVE  Weight(q, w, m) > 0
<1>1. i \in 1 .. Len(Values(q, w)) /\ Values(q, w)[i] > 0
  BY ValuesType
<1> QED BY <1>1, ValuesType, TotalPositive DEF Weight

(* From a later position on there is no more weight. *)
LEMMA WeightMonotone ==
  ASSUME NEW S, NEW w \in [S -> Weights], NEW q \in Seq(S),
         NEW m \in Int, NEW n \in Int, m <= n
  PROVE  Weight(q, w, n) <= Weight(q, w, m)
BY ValuesType, TotalMonotone DEF Weight

(* Elements in front that weigh nothing do not count. *)
LEMMA WeightSkip ==
  ASSUME NEW S, NEW w \in [S -> Weights], NEW q \in Seq(S),
         NEW m \in Int, NEW n \in Int, m <= n,
         \A i \in 1 .. Len(q) : m <= i /\ i < n => w[q[i]] = 0
  PROVE  Weight(q, w, n) = Weight(q, w, m)
<1>1. \A i \in 1 .. Len(Values(q, w)) : m <= i /\ i < n => Values(q, w)[i] = 0
  BY ValuesType
<1> QED BY <1>1, ValuesType, TotalSkip DEF Weight

(* One element that weighs something. *)
LEMMA WeightSingle ==
  ASSUME NEW S, NEW w \in [S -> Weights], NEW q \in Seq(S), NEW m \in Int,
         NEW i \in 1 .. Len(q), i >= m,
         \A j \in 1 .. Len(q) : j # i => w[q[j]] = 0
  PROVE  Weight(q, w, m) = w[q[i]]
<1>1. \A j \in 1 .. Len(Values(q, w)) : j # i => Values(q, w)[j] = 0
  BY ValuesType
<1>2. i \in 1 .. Len(Values(q, w)) /\ Values(q, w)[i] = w[q[i]]
  BY ValuesType
<1> QED BY <1>1, <1>2, ValuesType, TotalSingle DEF Weight

(* The weight of two lists, one after the other. *)
LEMMA WeightConcat ==
  ASSUME NEW S, NEW w \in [S -> Weights], NEW q \in Seq(S), NEW r \in Seq(S)
  PROVE  /\ \A m \in 1 .. Len(q) + 1 :
              Weight(q \o r, w, m) = Weight(q, w, m) + Weight(r, w, 1)
         /\ \A m \in Nat : m >= 1 => Weight(q \o r, w, m + Len(q)) = Weight(r, w, m)
<1> DEFINE h == q \o r
<1>1. /\ h \in Seq(S) /\ Len(h) = Len(q) + Len(r) /\ Len(q) \in Nat /\ Len(r) \in Nat
      /\ \A i \in 1 .. Len(q) : h[i] = q[i]
      /\ \A i \in 1 .. Len(r) : h[i + Len(q)] = r[i]
  OBVIOUS
<1> HIDE DEF h
<1>2. \A i \in 1 .. Len(q) : i \in 1 .. Len(h)
  BY <1>1
<1>3. \A i \in 1 .. Len(r) : i + Len(q) \in 1 .. Len(h)
  BY <1>1
<1> DEFINE f == Values(q, w)  g == Values(r, w)  k == Values(h, w)
<1>4. /\ f \in Seq(Weights) /\ g \in Seq(Weights) /\ k \in Seq(Weights)
      /\ Len(f) = Len(q) /\ Len(g) = Len(r) /\ Len(k) = Len(h)
  BY <1>1, ValuesType
<1>5. \A i \in 1 .. Len(q) : k[i] = f[i]
  <2>1. \A i \in 1 .. Len(q) : f[i] = w[q[i]]
    BY ValuesType
  <2>2. \A i \in 1 .. Len(h) : k[i] = w[h[i]]
    BY <1>1, ValuesType
  <2> QED BY <1>1, <1>2, <2>1, <2>2
<1>6. \A i \in 1 .. Len(r) : k[i + Len(q)] = g[i]
  <2>1. \A i \in 1 .. Len(r) : g[i] = w[r[i]]
    BY ValuesType
  <2>2. \A i \in 1 .. Len(h) : k[i] = w[h[i]]
    BY <1>1, ValuesType
  <2> QED BY <1>1, <1>3, <2>1, <2>2
<1>7. ASSUME NEW m \in 1 .. Len(q) + 1 PROVE Total(k, m) = Total(f, m) + Total(g, 1)
  <2> HIDE DEF f, g, k
  <2>1. /\ Len(k) = Len(f) + Len(g) /\ m \in 1 .. Len(f) + 1
        /\ \A i \in 1 .. Len(f) : k[i] = f[i]
        /\ \A i \in 1 .. Len(g) : k[i + Len(f)] = g[i]
    BY <1>1, <1>4, <1>5, <1>6
  <2> QED BY <1>4, <2>1, TotalConcat
<1>8. ASSUME NEW m \in Nat, m >= 1 PROVE Total(g, m) = Total(k, m + Len(q))
  <2> HIDE DEF f, g, k
  <2>1. Len(q) \in 0 .. Len(k) /\ Len(g) = Len(k) - Len(q)
    BY <1>1, <1>4
  <2>2. \A i \in 1 .. Len(g) : g[i] = k[i + Len(q)]
    BY <1>4, <1>6
  <2> QED BY <1>4, <1>8, <2>1, <2>2, TotalRest
<1> QED BY <1>7, <1>8 DEF Weight, h

(* What is left of q when the first a elements are gone. *)
IsRest(r, q, a) ==
  /\ a \in 0 .. Len(q) /\ Len(r) = Len(q) - a
  /\ \A i \in 1 .. Len(r) : r[i] = q[i + a]

(* The weight of what is left. *)
LEMMA WeightRest ==
  ASSUME NEW S, NEW w \in [S -> Weights], NEW q \in Seq(S), NEW r \in Seq(S),
         NEW a, IsRest(r, q, a)
  PROVE  \A m \in Nat : m >= 1 => Weight(r, w, m) = Weight(q, w, m + a)
<1>0. /\ a \in 0 .. Len(q) /\ Len(r) = Len(q) - a
      /\ \A i \in 1 .. Len(r) : r[i] = q[i + a]
  BY DEF IsRest
<1>1. \A i \in 1 .. Len(r) : i + a \in 1 .. Len(q)
  BY <1>0
<1>2. \A i \in 1 .. Len(Values(r, w)) : Values(r, w)[i] = Values(q, w)[i + a]
  BY <1>0, <1>1, ValuesType, SMTT(30)
<1>3. /\ Values(r, w) \in Seq(Weights) /\ Len(Values(r, w)) = Len(r)
      /\ Values(q, w) \in Seq(Weights) /\ Len(Values(q, w)) = Len(q)
  BY ValuesType
<1> QED BY <1>0, <1>2, <1>3, TotalRest DEF Weight

(* Two lists that weigh the same at each position. *)
LEMMA WeightSame ==
  ASSUME NEW q, NEW w, NEW r, NEW v, Len(q) = Len(r),
         \A n \in 1 .. Len(q) : w[q[n]] = v[r[n]], NEW m
  PROVE  Weight(q, w, m) = Weight(r, v, m)
<1>1. Values(q, w) = Values(r, v)
  BY DEF Values
<1> QED BY <1>1 DEF Weight

(* Weights of 0 and 1 count elements. *)
LEMMA WeightOfOnes ==
  ASSUME NEW S, NEW w \in [S -> 0 .. 1], NEW q \in Seq(S), NEW m \in Int
  PROVE  LET T == {i \in 1 .. Len(q) : i >= m /\ w[q[i]] = 1}
         IN  IsFiniteSet(T) /\ Cardinality(T) = Weight(q, w, m)
<1> DEFINE f == Values(q, w)
           T == {i \in 1 .. Len(q) : i >= m /\ w[q[i]] = 1}
<1>1. Len(q) \in Nat /\ \A n \in 1 .. Len(q) : q[n] \in S
  OBVIOUS
<1>2. f \in [1 .. Len(q) -> 0 .. 1] /\ \A n \in 1 .. Len(q) : f[n] = w[q[n]]
  BY <1>1 DEF Values
<1>3. f \in Seq(0 .. 1) /\ Len(f) = Len(q)
  BY <1>1, <1>2
<1> HIDE DEF f
<1>4. T = {i \in 1 .. Len(f) : i >= m /\ f[i] = 1}
  BY <1>2, <1>3
<1> QED BY <1>3, <1>4, TotalOfOnes DEF Weight, f

(* There are no more elements counted than elements. *)
LEMMA WeightOfOnesBound ==
  ASSUME NEW S, NEW w \in [S -> 0 .. 1], NEW q \in Seq(S), NEW m \in 1 .. Len(q) + 1
  PROVE  Weight(q, w, m) <= Len(q) - m + 1
<1> DEFINE T == {i \in 1 .. Len(q) : i >= m /\ w[q[i]] = 1}
<1>1. Len(q) \in Nat /\ m \in Nat
  OBVIOUS
<1>2. IsFiniteSet(m .. Len(q)) /\ Cardinality(m .. Len(q)) = Len(q) - m + 1
  <2>1. m \in Int /\ Len(q) \in Int /\ (m > Len(q) => Len(q) - m + 1 = 0)
    BY <1>1
  <2> QED BY <2>1, FS_Interval
<1>3. T \subseteq m .. Len(q)
  BY <1>1
<1>4. Cardinality(T) <= Cardinality(m .. Len(q))
  <2> HIDE DEF T
  <2> QED BY <1>2, <1>3, FS_Subset
<1>5. Cardinality(T) = Weight(q, w, m)
  <2>1. m \in Int
    BY <1>1
  <2> QED BY <2>1, WeightOfOnes, Zenon
<1> QED BY <1>2, <1>4, <1>5

(* One more element at the end. *)
LEMMA WeightAppend ==
  ASSUME NEW S, NEW w \in [S -> Weights], NEW q \in Seq(S), NEW r \in Seq(S)
  PROVE  Weight(q \o r, w, 1) = Weight(q, w, 1) + Weight(r, w, 1)
<1>1. 1 \in 1 .. Len(q) + 1
  OBVIOUS
<1> QED BY <1>1, WeightConcat

(* The head of a list and its tail. *)
LEMMA WeightHead ==
  ASSUME NEW S, NEW w \in [S -> Weights], NEW q \in Seq(S), q # <<>>
  PROVE  /\ Weight(q, w, 1) = w[Head(q)] + Weight(Tail(q), w, 1)
         /\ w[Head(q)] \in Nat /\ Weight(Tail(q), w, 1) \in Nat
<1> DEFINE r == Tail(q)
<1>1. /\ Len(q) \in Nat /\ Len(q) > 0 /\ r \in Seq(S) /\ Len(r) = Len(q) - 1
      /\ Head(q) = q[1] /\ \A i \in 1 .. Len(r) : r[i] = q[i + 1]
  OBVIOUS
<1> HIDE DEF r
<1>2. 1 \in Nat /\ 1 >= 1 /\ 1 \in Int /\ 1 \in 1 .. Len(q) /\ 1 \in 0 .. Len(q)
  BY <1>1
<1>3. Weight(q, w, 1) = w[q[1]] + Weight(q, w, 1 + 1) /\ w[q[1]] \in Nat
  BY <1>2, WeightStep
<1>4. Weight(r, w, 1) = Weight(q, w, 1 + 1)
  <2>1. IsRest(r, q, 1)
    BY <1>1, <1>2 DEF IsRest
  <2> QED BY <1>1, <1>2, <2>1, WeightRest
<1>5. Weight(r, w, 1) \in Nat
  BY <1>1, <1>2, WeightType
<1> QED BY <1>1, <1>3, <1>4, <1>5 DEF r

(* The list of one element. *)
LEMMA WeightOne ==
  ASSUME NEW S, NEW w \in [S -> Weights], NEW x \in S
  PROVE  Weight(<<x>>, w, 1) = w[x] /\ w[x] \in Nat
<1> DEFINE q == <<x>>
<1>1. q \in Seq(S) /\ Len(q) = 1 /\ q[1] = x /\ 1 \in 1 .. Len(q)
  OBVIOUS
<1>2. \A j \in 1 .. Len(q) : j = 1
  BY <1>1
<1> HIDE DEF q
<1>3. Weight(q, w, 1) = w[q[1]]
  BY <1>1, <1>2, WeightSingle
<1> QED BY <1>1, <1>3, MaxBatchFact DEF q

(* One more element in front. *)
LEMMA WeightPush ==
  ASSUME NEW S, NEW w \in [S -> Weights], NEW x \in S, NEW q \in Seq(S)
  PROVE  /\ Weight(<<x>> \o q, w, 1) = w[x] + Weight(q, w, 1)
         /\ w[x] \in Nat /\ Weight(q, w, 1) \in Nat
<1> DEFINE r == <<x>>
<1>1. r \in Seq(S) /\ Len(r) = 1 /\ 1 \in 1 .. Len(r) + 1
  OBVIOUS
<1> HIDE DEF r
<1>2. Weight(r \o q, w, 1) = Weight(r, w, 1) + Weight(q, w, 1)
  BY <1>1, WeightConcat
<1>3. Weight(r, w, 1) = w[x] /\ w[x] \in Nat
  BY WeightOne DEF r
<1> QED BY <1>2, <1>3, WeightType DEF r

-----------------------------------------------------------------------------
(* Requests, batches and scripts *)

(* The two ways in which requests are counted. *)
LEMMA RequestWeights ==
  /\ SignalOf \in [Wrs -> 0 .. 1] /\ SignalOf \in [Wrs -> Weights]
  /\ BlindOf \in [Wrs -> 0 .. 1] /\ BlindOf \in [Wrs -> Weights]
  /\ \A wr \in Wrs : /\ SignalOf[wr] = IF wr.signal THEN 1 ELSE 0
                     /\ BlindOf[wr] = IF wr.owner = Nobody THEN 1 ELSE 0
<1>1. 0 .. 1 \subseteq Weights
  BY MaxBatchFact DEF Weights
<1>2. SignalOf \in [Wrs -> 0 .. 1] /\ BlindOf \in [Wrs -> 0 .. 1]
  BY DEF SignalOf, BlindOf
<1> QED BY <1>1, <1>2 DEF SignalOf, BlindOf

(* The fields of an operation of a script. *)
LEMMA OpFacts ==
  ASSUME NEW o \in Ops
  PROVE  /\ o.qp \in Servers /\ o.do \in {"post", "build", "poll"}
         /\ o.do = "poll" => o \in PollOps /\ o.left \in 1 .. MaxBatch
         /\ o.do = "post" => o \in Posts /\ o.wrs \in Seq(Wrs) /\ Len(o.wrs) \in 1 .. MaxBatch
         /\ o.do = "build" => /\ o \in Builds /\ o.wrs \in Seq(Wrs) /\ o.left \in 1 .. MaxBatch
                              /\ o.left + Len(o.wrs) <= MaxBatch /\ o.owner \in 0 .. MaxHops
<1>1. CASE o \in Posts
  BY <1>1 DEF Posts
<1>2. CASE o \in Builds
  BY <1>2 DEF Builds
<1>3. CASE o \in PollOps
  BY <1>3 DEF PollOps
<1> QED BY <1>1, <1>2, <1>3 DEF Ops

(* There are no more requests counted than requests. *)
LEMMA SignalsBound ==
  ASSUME NEW q \in Seq(Wrs)
  PROVE  /\ Signals(q, 1) \in Nat /\ Signals(q, 1) <= Len(q)
         /\ Blind(q, 1) \in Nat /\ Blind(q, 1) <= Len(q)
<1>1. Len(q) \in Nat /\ 1 \in 1 .. Len(q) + 1
  OBVIOUS
<1>2. Signals(q, 1) <= Len(q) - 1 + 1 /\ Blind(q, 1) <= Len(q) - 1 + 1
  BY <1>1, RequestWeights, WeightOfOnesBound DEF Signals, Blind
<1>3. Signals(q, 1) \in Nat /\ Blind(q, 1) \in Nat
  BY RequestWeights, WeightType DEF Signals, Blind
<1> QED BY <1>1, <1>2, <1>3

(* The three ways in which operations are counted. *)
LEMMA ScriptWeights ==
  ASSUME NEW s
  PROVE  /\ PollOf(s) \in [Ops -> Weights]
         /\ BuildOf(s) \in [Ops -> Weights]
         /\ WorkOf(s) \in [Ops -> Weights]
         /\ \A o \in Ops :
              /\ PollOf(s)[o] = IF IsPoll(o, s) THEN o.left ELSE 0
              /\ BuildOf(s)[o] = IF IsWork(o, s) /\ o.do = "build" THEN o.left ELSE 0
              /\ WorkOf(s)[o] = IF ~ IsWork(o, s) THEN 0
                                ELSE IF o.do = "post" THEN Signals(o.wrs, 1)
                                ELSE o.left + Len(o.wrs)
<1>1. ASSUME NEW o \in Ops
      PROVE  /\ (IF IsPoll(o, s) THEN o.left ELSE 0) \in Weights
             /\ (IF IsWork(o, s) /\ o.do = "build" THEN o.left ELSE 0) \in Weights
  BY OpFacts, MaxBatchFact DEF IsPoll, IsWork, Weights
<1>2. ASSUME NEW o \in Ops
      PROVE  (IF ~ IsWork(o, s) THEN 0 ELSE IF o.do = "post" THEN Signals(o.wrs, 1)
              ELSE o.left + Len(o.wrs)) \in Weights
  <2>1. CASE ~ IsWork(o, s)
    BY <2>1, MaxBatchFact DEF Weights
  <2>2. CASE IsWork(o, s) /\ o.do = "post"
    <3>1. Signals(o.wrs, 1) \in Nat /\ Signals(o.wrs, 1) <= MaxBatch
      BY <2>2, OpFacts, SignalsBound, MaxBatchFact
    <3> QED BY <2>2, <3>1, MaxBatchFact DEF Weights
  <2>3. CASE IsWork(o, s) /\ o.do # "post"
    <3>1. o.do = "build"
      BY <2>3 DEF IsWork
    <3>2. o.left + Len(o.wrs) \in Nat /\ o.left + Len(o.wrs) <= MaxBatch
      BY <3>1, OpFacts
    <3> QED BY <2>3, <3>2, MaxBatchFact DEF Weights
  <2> QED BY <2>1, <2>2, <2>3
<1>3. PollOf(s) \in [Ops -> Weights] /\ BuildOf(s) \in [Ops -> Weights]
  BY <1>1 DEF PollOf, BuildOf
<1>4. WorkOf(s) \in [Ops -> Weights]
  BY <1>2 DEF WorkOf
<1> QED BY <1>3, <1>4 DEF PollOf, BuildOf, WorkOf

(* What a batch owes to a server. *)
LEMMA BatchWeights ==
  ASSUME NEW s \in Servers
  PROVE  PollsOf(s) \in [Batches -> Weights] /\ \A c \in Batches : PollsOf(s)[c] = c[s]
BY DEF PollsOf, Batches, Weights

(* The head of a script and the rest of it. *)
LEMMA ScriptHead ==
  ASSUME NEW t \in Seq(Ops), t # <<>>, NEW s
  PROVE  /\ Head(t) \in Ops /\ Tail(t) \in Seq(Ops)
         /\ ToPoll(t, s) = PollOf(s)[Head(t)] + ToPoll(Tail(t), s)
         /\ ToBuild(t, s) = BuildOf(s)[Head(t)] + ToBuild(Tail(t), s)
         /\ ToSignal(t, s) = WorkOf(s)[Head(t)] + ToSignal(Tail(t), s)
         /\ PollOf(s)[Head(t)] \in Nat /\ BuildOf(s)[Head(t)] \in Nat
         /\ WorkOf(s)[Head(t)] \in Nat
<1>1. Head(t) \in Ops /\ Tail(t) \in Seq(Ops)
  OBVIOUS
<1> QED BY <1>1, ScriptWeights, WeightHead DEF ToPoll, ToBuild, ToSignal

(* One more operation at the front of a script. *)
LEMMA ScriptPush ==
  ASSUME NEW t \in Seq(Ops), NEW o \in Ops, NEW s
  PROVE  /\ <<o>> \o t \in Seq(Ops)
         /\ ToPoll(<<o>> \o t, s) = PollOf(s)[o] + ToPoll(t, s)
         /\ ToBuild(<<o>> \o t, s) = BuildOf(s)[o] + ToBuild(t, s)
         /\ ToSignal(<<o>> \o t, s) = WorkOf(s)[o] + ToSignal(t, s)
         /\ PollOf(s)[o] \in Nat /\ BuildOf(s)[o] \in Nat /\ WorkOf(s)[o] \in Nat
<1>1. <<o>> \o t \in Seq(Ops)
  OBVIOUS
<1> QED BY <1>1, ScriptWeights, WeightPush, SMTT(30) DEF ToPoll, ToBuild, ToSignal

(* What is left to do is a natural, and 0 if no operation does it. *)
LEMMA ScriptType ==
  ASSUME NEW t \in Seq(Ops), NEW s
  PROVE  /\ ToPoll(t, s) \in Nat /\ ToBuild(t, s) \in Nat /\ ToSignal(t, s) \in Nat
         /\ \A i \in 1 .. Len(t) : IsPoll(t[i], s) => ToPoll(t, s) > 0
         /\ (\A i \in 1 .. Len(t) : ~ IsPoll(t[i], s)) => ToPoll(t, s) = 0
         /\ (\A i \in 1 .. Len(t) : ~ (IsWork(t[i], s) /\ t[i].do = "build"))
              => ToBuild(t, s) = 0
         /\ (\A i \in 1 .. Len(t) : ~ IsWork(t[i], s)) => ToSignal(t, s) = 0
<1>0. \A i \in 1 .. Len(t) : t[i] \in Ops /\ i >= 1
  OBVIOUS
<1>1. ToPoll(t, s) \in Nat /\ ToBuild(t, s) \in Nat /\ ToSignal(t, s) \in Nat
  <2>0. 1 \in Int
    OBVIOUS
  <2>1. ToPoll(t, s) \in Nat
    BY <2>0, ScriptWeights, WeightType DEF ToPoll
  <2>2. ToBuild(t, s) \in Nat
    BY <2>0, ScriptWeights, WeightType DEF ToBuild
  <2>3. ToSignal(t, s) \in Nat
    BY <2>0, ScriptWeights, WeightType DEF ToSignal
  <2> QED BY <2>1, <2>2, <2>3
<1>2. ASSUME NEW i \in 1 .. Len(t), IsPoll(t[i], s) PROVE ToPoll(t, s) > 0
  <2>1. PollOf(s)[t[i]] = t[i].left /\ t[i].left \in 1 .. MaxBatch
    BY <1>0, <1>2, ScriptWeights, OpFacts DEF IsPoll
  <2>2. PollOf(s)[t[i]] > 0
    BY <2>1, MaxBatchFact
  <2> QED BY <1>0, <2>2, ScriptWeights, WeightPositive DEF ToPoll
<1>3. ASSUME \A i \in 1 .. Len(t) : ~ IsPoll(t[i], s) PROVE ToPoll(t, s) = 0
  <2>1. \A i \in 1 .. Len(t) : i >= 1 => PollOf(s)[t[i]] = 0
    BY <1>0, <1>3, ScriptWeights
  <2> QED BY <2>1, ScriptWeights, WeightZero DEF ToPoll
<1>4. ASSUME \A i \in 1 .. Len(t) : ~ (IsWork(t[i], s) /\ t[i].do = "build")
      PROVE  ToBuild(t, s) = 0
  <2>1. \A i \in 1 .. Len(t) : i >= 1 => BuildOf(s)[t[i]] = 0
    BY <1>0, <1>4, ScriptWeights
  <2> QED BY <2>1, ScriptWeights, WeightZero DEF ToBuild
<1>5. ASSUME \A i \in 1 .. Len(t) : ~ IsWork(t[i], s) PROVE ToSignal(t, s) = 0
  <2>1. \A i \in 1 .. Len(t) : i >= 1 => WorkOf(s)[t[i]] = 0
    BY <1>0, <1>5, ScriptWeights
  <2> QED BY <2>1, ScriptWeights, WeightZero DEF ToSignal
<1> QED BY <1>1, <1>2, <1>3, <1>4, <1>5

(* Two scripts, one after the other. *)
LEMMA ScriptConcat ==
  ASSUME NEW t \in Seq(Ops), NEW u \in Seq(Ops), NEW s
  PROVE  /\ ToPoll(t \o u, s) = ToPoll(t, s) + ToPoll(u, s)
         /\ ToBuild(t \o u, s) = ToBuild(t, s) + ToBuild(u, s)
         /\ ToSignal(t \o u, s) = ToSignal(t, s) + ToSignal(u, s)
<1>2. ToPoll(t \o u, s) = ToPoll(t, s) + ToPoll(u, s)
  BY ScriptWeights, WeightAppend DEF ToPoll
<1>3. ToBuild(t \o u, s) = ToBuild(t, s) + ToBuild(u, s)
  BY ScriptWeights, WeightAppend DEF ToBuild
<1>4. ToSignal(t \o u, s) = ToSignal(t, s) + ToSignal(u, s)
  BY ScriptWeights, WeightAppend DEF ToSignal
<1> QED BY <1>2, <1>3, <1>4

(* Requests that are posted come after those in the send queue. *)
LEMMA RequestsConcat ==
  ASSUME NEW q \in Seq(Wrs), NEW r \in Seq(Wrs)
  PROVE  /\ \A m \in 1 .. Len(q) + 1 :
              /\ Signals(q \o r, m) = Signals(q, m) + Signals(r, 1)
              /\ Blind(q \o r, m) = Blind(q, m) + Blind(r, 1)
         /\ \A m \in Nat : m >= 1 =>
              /\ Signals(q \o r, m + Len(q)) = Signals(r, m)
              /\ Blind(q \o r, m + Len(q)) = Blind(r, m)
<1>1. ASSUME NEW w \in [Wrs -> Weights]
      PROVE  /\ \A m \in 1 .. Len(q) + 1 :
                  Weight(q \o r, w, m) = Weight(q, w, m) + Weight(r, w, 1)
             /\ \A m \in Nat : m >= 1 => Weight(q \o r, w, m + Len(q)) = Weight(r, w, m)
  BY WeightConcat, SMTT(30)
<1>2. SignalOf \in [Wrs -> Weights] /\ BlindOf \in [Wrs -> Weights]
  BY RequestWeights
<1> QED BY <1>1, <1>2 DEF Signals, Blind

(* A count is 0 exactly if nothing is counted. *)
LEMMA RequestsType ==
  ASSUME NEW q \in Seq(Wrs), NEW m \in Int
  PROVE  /\ Signals(q, m) \in Nat /\ Blind(q, m) \in Nat
         /\ \A i \in 1 .. Len(q) : i >= m /\ q[i].signal => Signals(q, m) > 0
         /\ (\A i \in 1 .. Len(q) : i >= m => ~ q[i].signal) => Signals(q, m) = 0
<1>0. \A i \in 1 .. Len(q) : q[i] \in Wrs
  OBVIOUS
<1>1. Signals(q, m) \in Nat /\ Blind(q, m) \in Nat
  BY RequestWeights, WeightType DEF Signals, Blind
<1>2. ASSUME NEW i \in 1 .. Len(q), i >= m, q[i].signal PROVE Signals(q, m) > 0
  <2>1. SignalOf[q[i]] > 0
    BY <1>0, <1>2, RequestWeights
  <2> QED BY <1>2, <2>1, RequestWeights, WeightPositive DEF Signals
<1>3. ASSUME \A i \in 1 .. Len(q) : i >= m => ~ q[i].signal PROVE Signals(q, m) = 0
  <2>1. \A i \in 1 .. Len(q) : i >= m => SignalOf[q[i]] = 0
    BY <1>0, <1>3, RequestWeights
  <2> QED BY <2>1, RequestWeights, WeightZero DEF Signals
<1> QED BY <1>1, <1>2, <1>3

(* A queue pair on which somebody waits for every request. *)
LEMMA NoneBlind ==
  ASSUME NEW q \in Seq(Wrs), \A i \in 1 .. Len(q) : q[i].owner # Nobody
  PROVE  Blind(q, 1) = 0
<1>1. \A i \in 1 .. Len(q) : i >= 1 => BlindOf[q[i]] = 0
  <2>1. \A i \in 1 .. Len(q) : q[i] \in Wrs
    OBVIOUS
  <2> QED BY <2>1, RequestWeights
<1> QED BY <1>1, RequestWeights, WeightZero DEF Blind

(* The requests that are left after a completion are counted as before. *)
LEMMA RequestsRest ==
  ASSUME NEW q \in Seq(Wrs), NEW r \in Seq(Wrs), NEW a, IsRest(r, q, a)
  PROVE  \A m \in Nat : m >= 1 => /\ Signals(r, m) = Signals(q, m + a)
                                  /\ Blind(r, m) = Blind(q, m + a)
<1>1. ASSUME NEW w \in [Wrs -> Weights]
      PROVE  \A m \in Nat : m >= 1 => Weight(r, w, m) = Weight(q, w, m + a)
  BY WeightRest
<1> QED BY <1>1, RequestWeights DEF Signals, Blind

(* A completion frees the first signalled request and those before it. *)
LEMMA RequestsFreed ==
  ASSUME NEW q \in Seq(Wrs), NEW a \in 1 .. Len(q), q[a].signal,
         \A n \in 1 .. a - 1 : ~ q[n].signal
  PROVE  LET r == SubSeq(q, a + 1, Len(q))
         IN  /\ r \in Seq(Wrs) /\ Len(r) = Len(q) - a
             /\ \A i \in 1 .. Len(r) : r[i] = q[i + a] /\ i + a \in 1 .. Len(q)
             /\ \A m \in Nat : m >= 1 => /\ Signals(r, m) = Signals(q, m + a)
                                        /\ Blind(r, m) = Blind(q, m + a)
             /\ Signals(q, 1) = Signals(r, 1) + 1
             /\ Blind(r, 1) <= Blind(q, 1)
<1> DEFINE r == SubSeq(q, a + 1, Len(q))
<1>1. /\ r \in Seq(Wrs) /\ Len(r) = Len(q) - a /\ a \in 0 .. Len(q) /\ a \in Nat /\ a >= 1
      /\ \A i \in 1 .. Len(r) : r[i] = q[i + a] /\ i + a \in 1 .. Len(q)
  BY SMTT(30)
<1>0. \A i \in 1 .. Len(q) : q[i] \in Wrs
  OBVIOUS
<1> HIDE DEF r
<1>2. ASSUME NEW m \in Nat, m >= 1
      PROVE  Signals(r, m) = Signals(q, m + a) /\ Blind(r, m) = Blind(q, m + a)
  <2>1. IsRest(r, q, a)
    BY <1>1 DEF IsRest
  <2> QED BY <1>1, <1>2, <2>1, RequestsRest, ZenonT(60)
<1>3. Signals(q, a) = 1 + Signals(q, a + 1)
  <2>1. SignalOf[q[a]] = 1
    BY <1>0, RequestWeights
  <2> QED BY <2>1, RequestWeights, WeightStep DEF Signals
<1>4. Signals(q, a) = Signals(q, 1)
  <2>1. \A i \in 1 .. Len(q) : 1 <= i /\ i < a => SignalOf[q[i]] = 0
    BY <1>0, RequestWeights
  <2>2. 1 \in Int /\ a \in Int /\ 1 <= a
    BY <1>1
  <2>3. SignalOf \in [Wrs -> Weights]
    BY RequestWeights
  <2>4. Weight(q, SignalOf, a) = Weight(q, SignalOf, 1)
    BY <2>1, <2>2, <2>3, WeightSkip
  <2> QED BY <2>4 DEF Signals
<1>5. Signals(r, 1) = Signals(q, a + 1) /\ Blind(r, 1) = Blind(q, a + 1)
  <2>1. Signals(r, 1) = Signals(q, 1 + a) /\ Blind(r, 1) = Blind(q, 1 + a)
    BY <1>2
  <2> QED BY <2>1
<1>6. Blind(q, a + 1) <= Blind(q, 1)
  <2>1. 1 <= a + 1 /\ a + 1 \in Int
    BY <1>1
  <2> QED BY <2>1, RequestWeights, WeightMonotone DEF Blind
<1>7. Signals(r, 1) \in Nat
  BY <1>1, RequestsType
<1>8. Signals(q, 1) = Signals(r, 1) + 1 /\ Blind(r, 1) <= Blind(q, 1)
  BY <1>3, <1>4, <1>5, <1>6, <1>7
<1>9. /\ r \in Seq(Wrs) /\ Len(r) = Len(q) - a
      /\ \A i \in 1 .. Len(r) : r[i] = q[i + a] /\ i + a \in 1 .. Len(q)
  BY <1>1
<1> QED BY <1>2, <1>8, <1>9, Zenon DEF r

(* Numbers less than n apart with the same remainder are the same. *)
LEMMA SameRest ==
  ASSUME NEW a \in Nat, NEW b \in Nat, NEW n \in Nat, n > 0,
         a % n = b % n, b - a < n, a - b < n
  PROVE  a = b
<1>1. ASSUME NEW c \in Nat
      PROVE  c = n * (c \div n) + (c % n) /\ c \div n \in Int
  BY <1>1
<1> DEFINE x == a \div n  y == b \div n
<1>2. x \in Int /\ y \in Int /\ a - b = n * x - n * y
  BY <1>1
<1> HIDE DEF x, y
<1>3. CASE x = y
  BY <1>2, <1>3
<1>4. CASE x > y
  <2>1. x - y >= 1
    BY <1>2, <1>4
  <2>2. n * (x - y) >= n /\ n * x - n * y = n * (x - y)
    BY <1>2, <2>1
  <2> QED BY <1>2, <2>2
<1>5. CASE x < y
  <2>1. y - x >= 1
    BY <1>2, <1>5
  <2>2. n * (y - x) >= n /\ n * y - n * x = n * (y - x)
    BY <1>2, <2>1
  <2> QED BY <1>2, <2>2
<1> QED BY <1>2, <1>3, <1>4, <1>5

(* The slots of a send queue: MaxBatch for each owner at most, and those that
   nobody waits for. *)
LEMMA NearLength ==
  ASSUME NEW q \in Seq(Wrs), Near(q)
  PROVE  /\ Len(q) <= (MaxHops + 1) * MaxBatch + Blind(q, 1)
         /\ (\A i \in 1 .. Len(q) : q[i].owner = Nobody) => Len(q) = Blind(q, 1)
<1> DEFINE O == {i \in 1 .. Len(q) : q[i].owner # Nobody}
           N == {i \in 1 .. Len(q) : q[i].owner = Nobody}
           A == 0 .. MaxHops
           B == 0 .. MaxBatch - 1
           h == [i \in O |-> <<q[i].owner, i % MaxBatch>>]
<1>1. /\ Len(q) \in Nat /\ MaxHops \in Nat /\ MaxBatch \in Nat /\ MaxBatch > 0
      /\ \A i \in 1 .. Len(q) : q[i] \in Wrs /\ q[i].owner \in 0 .. MaxHops + 1
  <2>1. \A i \in 1 .. Len(q) : q[i] \in Wrs
    OBVIOUS
  <2>2. \A wr \in Wrs : wr.owner \in 0 .. MaxHops + 1
    BY DEF Wrs
  <2>3. Len(q) \in Nat
    OBVIOUS
  <2> QED BY <2>1, <2>2, <2>3, QueuePairAssumption
<1>2. IsFiniteSet(A) /\ Cardinality(A) = MaxHops + 1
  BY <1>1, FS_Interval
<1>3. IsFiniteSet(B) /\ Cardinality(B) = MaxBatch
  BY <1>1, FS_Interval
<1>4. IsFiniteSet(A \X B) /\ Cardinality(A \X B) = (MaxHops + 1) * MaxBatch
  <2> HIDE DEF A, B
  <2> QED BY <1>2, <1>3, FS_Product
<1>5. IsFiniteSet(1 .. Len(q)) /\ Cardinality(1 .. Len(q)) = Len(q)
  BY <1>1, Upto
<1>6. /\ IsFiniteSet(N) /\ IsFiniteSet(O)
      /\ Cardinality(N) \in Nat /\ Cardinality(O) \in Nat
  BY <1>5, FS_Subset, FS_CardinalityType
<1>7. Cardinality(N) = Blind(q, 1)
  <2> DEFINE T == {i \in 1 .. Len(q) : i >= 1 /\ BlindOf[q[i]] = 1}
  <2>1. \A i \in 1 .. Len(q) : (i >= 1 /\ BlindOf[q[i]] = 1) <=> q[i].owner = Nobody
    BY <1>1, RequestWeights
  <2>2. N = T
    BY <2>1
  <2>3. Cardinality(T) = Weight(q, BlindOf, 1)
    <3>1. BlindOf \in [Wrs -> 0 .. 1] /\ 1 \in Int
      BY RequestWeights
    <3> QED BY <3>1, WeightOfOnes, Zenon
  <2> QED BY <2>2, <2>3 DEF Blind
<1>8. Len(q) = Cardinality(O) + Cardinality(N)
  <2>1. 1 .. Len(q) = O \cup N /\ O \cap N = {}
    OBVIOUS
  <2> HIDE DEF O, N
  <2>2. Cardinality(O \cup N) = Cardinality(O) + Cardinality(N) - Cardinality(O \cap N)
    BY <1>6, FS_Union
  <2>3. Cardinality(O \cap N) = 0
    BY <2>1, FS_EmptySet
  <2>4. Cardinality(O \cup N) = Len(q)
    BY <1>5, <2>1
  <2> QED BY <1>6, <2>2, <2>3, <2>4
<1>9. h \in [O -> A \X B]
  <2>1. \A i \in O : q[i].owner \in A /\ i % MaxBatch \in B
    BY <1>1 DEF Nobody
  <2> HIDE DEF O, A, B
  <2> QED BY <2>1
<1>10. \A i, j \in O : h[i] = h[j] => i = j
  <2> TAKE i, j \in O
  <2> HAVE h[i] = h[j]
  <2>1. q[i].owner = q[j].owner /\ i % MaxBatch = j % MaxBatch
    OBVIOUS
  <2>2. j - i < MaxBatch /\ i - j < MaxBatch
    BY <2>1 DEF Near
  <2>3. i \in Nat /\ j \in Nat
    OBVIOUS
  <2> QED BY <1>1, <2>1, <2>2, <2>3, SameRest
<1> HIDE DEF h, O, A, B
<1>11. h \in Injection(O, A \X B)
  BY <1>9, <1>10, Fun_IsInj
<1>12. Cardinality(O) <= Cardinality(A \X B)
  BY <1>4, <1>11, FS_Injection
<1>13. (MaxHops + 1) * MaxBatch \in Nat
  BY <1>1
<1>14. ASSUME \A i \in 1 .. Len(q) : q[i].owner = Nobody PROVE Len(q) = Blind(q, 1)
  <2>1. N = 1 .. Len(q)
    BY <1>14
  <2> QED BY <1>5, <1>7, <2>1
<1>15. Len(q) <= (MaxHops + 1) * MaxBatch + Blind(q, 1)
  <2> DEFINE x == (MaxHops + 1) * MaxBatch
  <2>1. x \in Nat /\ Cardinality(O) <= x
    BY <1>4, <1>12, <1>13
  <2> HIDE DEF x, N
  <2>2. Len(q) <= x + Blind(q, 1)
    BY <1>1, <1>6, <1>7, <1>8, <2>1
  <2> QED BY <2>2 DEF x
<1> QED BY <1>14, <1>15

-----------------------------------------------------------------------------
(* Calls to several servers *)

(* The positions below a higher one of a set are more. *)
LEMMA BelowGrows ==
  ASSUME NEW S \in SUBSET Nat, IsFiniteSet(S), NEW i \in S, NEW k \in Nat, i < k
  PROVE  /\ Cardinality({j \in S : j < i}) \in Nat /\ Cardinality({j \in S : j < k}) \in Nat
         /\ Cardinality({j \in S : j < i}) < Cardinality({j \in S : j < k})
<1> DEFINE A == {j \in S : j < i}
           B == {j \in S : j < k}
<1>0. \A j \in S : j \in Nat
  OBVIOUS
<1>1. A \in SUBSET B /\ B \in SUBSET S /\ i \in B /\ i \notin A
  <2>1. \A j \in S : j < i => j < k
    BY <1>0
  <2>2. ~ (i < i)
    BY <1>0
  <2> QED BY <2>1, <2>2
<1> HIDE DEF A, B
<1>2. IsFiniteSet(B) /\ Cardinality(B) \in Nat
  BY <1>1, FS_Subset, FS_CardinalityType
<1>3. Cardinality(A) <= Cardinality(B) /\ (Cardinality(B) = Cardinality(A) => B = A)
      /\ IsFiniteSet(A)
  BY <1>1, <1>2, FS_Subset
<1>4. Cardinality(A) \in Nat /\ Cardinality(A) < Cardinality(B)
  BY <1>1, <1>2, <1>3, FS_CardinalityType
<1> QED BY <1>2, <1>4 DEF A, B

(* InTurn lists the elements of a finite set of naturals, each once. *)
LEMMA InTurnOf ==
  ASSUME NEW c, NEW S \in SUBSET Nat, IsFiniteSet(S), S = Touched(c)
  PROVE  /\ Cardinality(S) \in Nat
         /\ InTurn(c) \in Seq(S) /\ Len(InTurn(c)) = Cardinality(S)
         /\ \A m, n \in 1 .. Cardinality(S) : InTurn(c)[m] = InTurn(c)[n] => m = n
         /\ \A i \in S : \E n \in 1 .. Cardinality(S) : InTurn(c)[n] = i
<1> DEFINE k == Cardinality(S)
           below(i) == Cardinality({j \in S : j < i})
           f == [i \in S |-> below(i) + 1]
<1>1. k \in Nat
  BY FS_CardinalityType
<1>2. ASSUME NEW i \in S
      PROVE  below(i) \in Nat /\ below(i) + 1 \in 1 .. k
  <2> DEFINE A == {j \in S : j < i}
  <2>1. A \in SUBSET S /\ i \notin A
    OBVIOUS
  <2> HIDE DEF A
  <2>2. IsFiniteSet(A) /\ Cardinality(A) <= k /\ (k = Cardinality(A) => S = A)
    BY <2>1, FS_Subset
  <2>3. Cardinality(A) \in Nat /\ Cardinality(A) < k
    BY <1>1, <2>1, <2>2, FS_CardinalityType
  <2>4. below(i) = Cardinality(A)
    BY DEF A
  <2> QED BY <1>1, <2>3, <2>4
<1>3. ASSUME NEW i \in S, NEW j \in S, below(i) = below(j)
      PROVE  i = j
  <2>1. i \in Nat /\ j \in Nat
    OBVIOUS
  <2>2. i < j => below(i) < below(j)
    BY <2>1, BelowGrows
  <2>3. j < i => below(j) < below(i)
    BY <2>1, BelowGrows
  <2>4. below(i) \in Nat
    BY <1>2
  <2> HIDE DEF below
  <2> QED BY <2>1, <2>2, <2>3, <2>4, <1>3
<1> HIDE DEF below
<1>4. f \in Injection(S, 1 .. k)
  <2> HIDE DEF k
  <2>1. f \in [S -> 1 .. k]
    BY <1>2
  <2>2. \A i, j \in S : f[i] = f[j] => i = j
    BY <1>2, <1>3
  <2> HIDE DEF f
  <2> QED BY <2>1, <2>2, Fun_IsInj
<1>5. IsFiniteSet(1 .. k) /\ Cardinality(1 .. k) = k
  BY <1>1, FS_Interval
<1>6. \A n \in 1 .. k : \E i \in S : below(i) = n - 1
  <2>1. f \in Surjection(S, 1 .. k)
    <3> HIDE DEF f
    <3> QED BY <1>4, <1>5, FS_Injection
  <2>2. \A n \in 1 .. k : \E i \in S : f[i] = n
    <3> HIDE DEF f, k
    <3> QED BY <2>1 DEF Surjection
  <2> HIDE DEF k
  <2> QED BY <1>2, <2>2
<1> DEFINE place(n) == CHOOSE i \in S : below(i) = n - 1
<1>7. \A n \in 1 .. k : place(n) \in S /\ below(place(n)) = n - 1
  BY <1>6
<1>8. InTurn(c) = [n \in 1 .. k |-> place(n)]
  BY DEF InTurn, below
<1>9. \A i \in S : place(below(i) + 1) = i
  <2>1. ASSUME NEW i \in S PROVE place(below(i) + 1) = i
    <3>1. place(below(i) + 1) \in S /\ below(place(below(i) + 1)) = below(i)
      <4>1. below(i) + 1 \in 1 .. k /\ (below(i) + 1) - 1 = below(i)
        BY <1>2
      <4> HIDE DEF k, place
      <4> QED BY <4>1, <1>7
    <3> HIDE DEF place
    <3> QED BY <3>1, <1>3
  <2> QED BY <2>1
<1> HIDE DEF k, place, f
<1>10. InTurn(c) \in [1 .. k -> S] /\ \A n \in 1 .. k : InTurn(c)[n] = place(n)
  BY <1>7, <1>8
<1>11. \A m, n \in 1 .. k : InTurn(c)[m] = InTurn(c)[n] => m = n
  <2>1. ASSUME NEW m \in 1 .. k, NEW n \in 1 .. k, InTurn(c)[m] = InTurn(c)[n] PROVE m = n
    <3>1. m - 1 = n - 1
      BY <2>1, <1>7, <1>10
    <3> QED BY <3>1, <1>1
  <2> QED BY <2>1
<1>12. \A i \in S : \E n \in 1 .. k : InTurn(c)[n] = i
  <2>1. ASSUME NEW i \in S PROVE InTurn(c)[below(i) + 1] = i /\ below(i) + 1 \in 1 .. k
    BY <1>2, <1>9, <1>10
  <2> QED BY <2>1
<1>13. InTurn(c) \in Seq(S) /\ Len(InTurn(c)) = k
  BY <1>1, <1>10
<1> QED BY <1>1, <1>11, <1>12, <1>13 DEF k

(* The servers a call has requests for, each once. *)
LEMMA InTurnLists ==
  ASSUME NEW c
  PROVE  LET S == Touched(c)
         IN  /\ Cardinality(S) \in Nat
             /\ InTurn(c) \in Seq(S) /\ Len(InTurn(c)) = Cardinality(S)
             /\ \A m, n \in 1 .. Cardinality(S) : InTurn(c)[m] = InTurn(c)[n] => m = n
             /\ \A i \in S : \E n \in 1 .. Cardinality(S) : InTurn(c)[n] = i
<1>1. NumServers \in Nat /\ NumServers > 0
  BY QueuePairAssumption
<1>2. IsFiniteSet(Servers)
  BY <1>1, FS_Interval DEF Servers
<1>3. Touched(c) \subseteq Servers /\ Servers \subseteq Nat
  BY <1>1 DEF Touched, Servers
<1>4. IsFiniteSet(Touched(c)) /\ Touched(c) \in SUBSET Nat
  BY <1>2, <1>3, FS_Subset
<1> QED BY <1>4, InTurnOf, Zenon

(* A part of a call: one operation on each server it has requests for. *)
LEMMA PerServerScript ==
  ASSUME NEW c, NEW op, \A s \in Touched(c) : op[s] \in Ops /\ op[s].qp = s
  PROVE  LET t == PerServer(c, op)
         IN  /\ t \in Seq(Ops)
             /\ \A i \in 1 .. Len(t) : t[i].qp \in Touched(c) /\ t[i] = op[t[i].qp]
             /\ \A i, j \in 1 .. Len(t) : t[i].qp = t[j].qp => i = j
             /\ \A s \in Touched(c) : \E i \in 1 .. Len(t) : t[i].qp = s
<1> DEFINE t == PerServer(c, op)
           S == Touched(c)
           place == InTurn(c)
<1>1. /\ Cardinality(S) \in Nat /\ place \in Seq(S) /\ Len(place) = Cardinality(S)
      /\ \A m, n \in 1 .. Cardinality(S) : place[m] = place[n] => m = n
      /\ \A i \in S : \E n \in 1 .. Cardinality(S) : place[n] = i
  BY InTurnLists, Zenon
<1>2. t = [n \in DOMAIN place |-> op[place[n]]]
  BY DEF PerServer
<1> HIDE DEF t, S, place
<1>3. \A n \in 1 .. Len(place) : place[n] \in S
  BY <1>1
<1>4. \A s \in S : op[s] \in Ops /\ op[s].qp = s
  BY DEF S
<1>5. \A n \in 1 .. Len(place) : op[place[n]] \in Ops /\ op[place[n]].qp = place[n]
  BY <1>3, <1>4
<1>6. DOMAIN place = 1 .. Len(place) /\ Len(place) \in Nat
  BY <1>1
<1>7. t \in [1 .. Len(place) -> Ops] /\ \A n \in 1 .. Len(place) : t[n] = op[place[n]]
  BY <1>2, <1>5, <1>6
<1>8. t \in Seq(Ops) /\ Len(t) = Len(place)
  BY <1>6, <1>7
<1>9. \A n \in 1 .. Len(t) : t[n].qp = place[n] /\ t[n] = op[place[n]]
  BY <1>5, <1>7, <1>8
<1> QED BY <1>1, <1>3, <1>8, <1>9 DEF S, t

(* A part of a call weighs on s what its operation on s weighs. *)
LEMMA PerServerWeight ==
  ASSUME NEW c, NEW op, \A s \in Touched(c) : op[s] \in Ops /\ op[s].qp = s,
         NEW s, NEW w \in [Ops -> Weights], \A o \in Ops : o.qp # s => w[o] = 0
  PROVE  Weight(PerServer(c, op), w, 1) = IF s \in Touched(c) THEN w[op[s]] ELSE 0
<1> DEFINE t == PerServer(c, op)
<1>1. /\ t \in Seq(Ops)
      /\ \A i \in 1 .. Len(t) : t[i].qp \in Touched(c) /\ t[i] = op[t[i].qp]
      /\ \A i, j \in 1 .. Len(t) : t[i].qp = t[j].qp => i = j
      /\ \A r \in Touched(c) : \E i \in 1 .. Len(t) : t[i].qp = r
  BY PerServerScript, Zenon
<1> HIDE DEF t
<1>2. \A i \in 1 .. Len(t) : t[i] \in Ops /\ i >= 1
  BY <1>1
<1>3. CASE s \in Touched(c)
  <2>1. PICK i \in 1 .. Len(t) : t[i].qp = s
    BY <1>1, <1>3
  <2>2. \A j \in 1 .. Len(t) : j # i => w[t[j]] = 0
    BY <1>1, <1>2, <2>1
  <2>3. Weight(t, w, 1) = w[t[i]]
    BY <1>1, <1>2, <2>2, WeightSingle
  <2>4. t[i] = op[s]
    BY <1>1, <2>1
  <2> QED BY <1>3, <2>3, <2>4 DEF t
<1>4. CASE s \notin Touched(c)
  <2>1. \A j \in 1 .. Len(t) : j >= 1 => w[t[j]] = 0
    BY <1>1, <1>2, <1>4
  <2> QED BY <1>1, <1>4, <2>1, WeightZero DEF t
<1> QED BY <1>3, <1>4

(* What a part of a call has left to do on s. *)
LEMMA PerServerTotals ==
  ASSUME NEW c, NEW op, \A s \in Touched(c) : op[s] \in Ops /\ op[s].qp = s, NEW s
  PROVE  LET t == PerServer(c, op)
         IN  /\ ToPoll(t, s) = IF s \in Touched(c) THEN PollOf(s)[op[s]] ELSE 0
             /\ ToBuild(t, s) = IF s \in Touched(c) THEN BuildOf(s)[op[s]] ELSE 0
             /\ ToSignal(t, s) = IF s \in Touched(c) THEN WorkOf(s)[op[s]] ELSE 0
<1>1. \A o \in Ops : o.qp # s => /\ PollOf(s)[o] = 0 /\ BuildOf(s)[o] = 0 /\ WorkOf(s)[o] = 0
  BY ScriptWeights DEF IsPoll, IsWork
<1>2. /\ PollOf(s) \in [Ops -> Weights] /\ BuildOf(s) \in [Ops -> Weights]
      /\ WorkOf(s) \in [Ops -> Weights]
  BY ScriptWeights
<1> QED BY <1>1, <1>2, PerServerWeight, ZenonT(60) DEF ToPoll, ToBuild, ToSignal

-----------------------------------------------------------------------------
(* What the invariant says of a state *)

(* What QueuePairAssumption says of the sizes, as it is used. *)
LEMMA CapacityFact ==
  /\ (MaxHops + 1) * MaxBatch + (MaxBlind + KeptSlots) <= Capacity
  /\ MaxBlind <= Capacity /\ MaxBlind \in Nat /\ Capacity \in Nat
  /\ PollThreshold \in Nat /\ PollThreshold > 0 /\ KeptSlots \in Nat
  /\ (MaxHops + 1) * MaxBatch \in Nat /\ MaxHops * MaxBatch \in Nat
  /\ MaxBatch <= MaxHops * MaxBatch /\ MaxHops * MaxBatch <= PollThreshold
  /\ "WriteSelective" \in Calls =>
       /\ MaxBlind + 2 * PollThreshold + 1 <= Capacity
       /\ KeptSlots = PollThreshold
  /\ MaxHops \in Nat /\ MaxHops > 0
<1> DEFINE x == MaxHops * MaxBatch
<1>1. /\ MaxHops \in Nat /\ MaxHops > 0 /\ MaxBatch \in Nat /\ MaxBatch > 0
      /\ MaxBlind \in Nat /\ Capacity \in Nat /\ PollThreshold \in Nat /\ PollThreshold > 0
  BY QueuePairAssumption
<1>2. x \in Nat /\ MaxBatch <= x /\ (MaxHops + 1) * MaxBatch = x + MaxBatch
  BY <1>1
<1>3. /\ x <= PollThreshold /\ MaxBlind + (MaxHops + 1) * MaxBatch <= Capacity
      /\ "WriteSelective" \in Calls => MaxBlind + 2 * PollThreshold + MaxBatch <= Capacity
  BY QueuePairAssumption
<1> HIDE DEF x
<1>4. CASE "WriteSelective" \in Calls
  <2>1. KeptSlots = PollThreshold
    BY <1>4 DEF KeptSlots
  <2> QED BY <1>1, <1>2, <1>3, <1>4, <2>1 DEF x
<1>5. CASE "WriteSelective" \notin Calls
  <2>1. KeptSlots = 0
    BY <1>5 DEF KeptSlots
  <2> QED BY <1>1, <1>2, <1>3, <1>5, <2>1 DEF x
<1> QED BY <1>4, <1>5

(* The types of the state, as they are used. *)
LEMMA StateFacts ==
  ASSUME QpTypeInv
  PROVE  /\ todo \in Seq(Ops) /\ batches \in Seq(Batches) /\ Len(batches) \in 0 .. MaxHops
         /\ sq \in [Servers -> Seq(Wrs)] /\ pendings \in [Servers -> Nat]
         /\ done \in [Servers -> Nat] /\ failed \in BOOLEAN
         /\ \A s \in Servers :
              /\ sq[s] \in Seq(Wrs) /\ pendings[s] \in Nat /\ Len(sq[s]) \in Nat
              /\ done[s] \in 0 .. Len(sq[s])
<1>1. /\ todo \in Seq(Ops) /\ sq \in [Servers -> Seq(Wrs)] /\ pendings \in [Servers -> Nat]
      /\ done \in [Servers -> Nat] /\ failed \in BOOLEAN
      /\ batches \in Seq(Batches) /\ Len(batches) <= MaxHops
      /\ \A s \in Servers : done[s] \in 0 .. Len(sq[s])
  BY DEF QpTypeInv, QpTypeOK, Batches
<1>2. Len(batches) \in 0 .. MaxHops
  BY <1>1, CapacityFact
<1>3. \A s \in Servers : sq[s] \in Seq(Wrs) /\ pendings[s] \in Nat
  BY <1>1
<1>4. \A s \in Servers : Len(sq[s]) \in Nat
  BY <1>3
<1> QED BY <1>1, <1>2, <1>3, <1>4

(* What batches are owed. *)
LEMMA OwedFacts ==
  ASSUME NEW b \in Seq(Batches), NEW s \in Servers
  PROVE  /\ \A k \in Int : OwedFrom(b, s, k) \in Nat
         /\ OwedFrom(b, s, 1) <= Len(b) * MaxBatch
         /\ \A k \in Int : k > Len(b) => OwedFrom(b, s, k) = 0
         /\ \A k \in 1 .. Len(b) : /\ b[k][s] \in 0 .. MaxBatch
                                   /\ OwedFrom(b, s, k) = b[k][s] + OwedFrom(b, s, k + 1)
                                   /\ b[k][s] > 0 => OwedFrom(b, s, 1) > 0
<1>0. \A k \in 1 .. Len(b) : b[k] \in Batches
  OBVIOUS
<1>1. PollsOf(s) \in [Batches -> Weights] /\ \A c \in Batches : PollsOf(s)[c] = c[s]
  BY BatchWeights
<1>2. \A k \in Int : OwedFrom(b, s, k) \in Nat /\ OwedFrom(b, s, k) <= Len(b) * MaxBatch
  BY <1>1, WeightType DEF OwedFrom
<1>3. ASSUME NEW k \in Int, k > Len(b) PROVE OwedFrom(b, s, k) = 0
  <2>1. \A i \in 1 .. Len(b) : i >= k => PollsOf(s)[b[i]] = 0
    BY <1>3
  <2> QED BY <1>1, <2>1, WeightZero DEF OwedFrom
<1>4. ASSUME NEW k \in 1 .. Len(b)
      PROVE  /\ b[k][s] \in 0 .. MaxBatch /\ PollsOf(s)[b[k]] = b[k][s]
             /\ OwedFrom(b, s, k) = b[k][s] + OwedFrom(b, s, k + 1)
             /\ b[k][s] > 0 => OwedFrom(b, s, 1) > 0
  <2>1. b[k] \in Batches /\ k >= 1
    BY <1>0
  <2>2. b[k][s] \in 0 .. MaxBatch /\ PollsOf(s)[b[k]] = b[k][s]
    BY <1>1, <2>1 DEF Batches
  <2>3. OwedFrom(b, s, k) = b[k][s] + OwedFrom(b, s, k + 1)
    BY <1>1, <2>2, WeightStep DEF OwedFrom
  <2>4. b[k][s] > 0 => OwedFrom(b, s, 1) > 0
    BY <1>1, <2>1, <2>2, WeightPositive DEF OwedFrom
  <2> QED BY <2>2, <2>3, <2>4
<1>5. OwedFrom(b, s, 1) <= Len(b) * MaxBatch
  BY <1>2
<1> QED BY <1>2, <1>3, <1>4, <1>5

(* Requests of one owner that follow a list without that owner. *)
LEMMA NearPosted ==
  ASSUME NEW q \in Seq(Wrs), NEW r \in Seq(Wrs), Near(q), Len(r) \in 1 .. MaxBatch,
         \A n \in 1 .. Len(r) : r[n].owner = r[1].owner,
         r[1].owner # Nobody => \A n \in 1 .. Len(q) : q[n].owner # r[1].owner
  PROVE  Near(q \o r)
<1> DEFINE h == q \o r
<1>1. /\ h \in Seq(Wrs) /\ Len(h) = Len(q) + Len(r) /\ Len(q) \in Nat /\ Len(r) \in Nat
      /\ \A i \in 1 .. Len(q) : h[i] = q[i]
      /\ \A i \in Len(q) + 1 .. Len(q) + Len(r) :
           h[i] = r[i - Len(q)] /\ i - Len(q) \in 1 .. Len(r)
  OBVIOUS
<1> HIDE DEF h
<1> SUFFICES ASSUME NEW i \in 1 .. Len(h), NEW j \in 1 .. Len(h),
                    h[i].owner = h[j].owner, h[i].owner # Nobody
             PROVE  j - i < MaxBatch
  BY DEF Near, h
<1>2. CASE j <= Len(q)
  <2>1. i <= Len(q) \/ i > Len(q)
    BY <1>1
  <2>2. CASE i > Len(q)
    BY <1>1, <1>2, <2>2, MaxBatchFact
  <2>3. CASE i <= Len(q)
    <3>1. i \in 1 .. Len(q) /\ j \in 1 .. Len(q)
      BY <1>1, <1>2, <2>3
    <3>2. h[i] = q[i] /\ h[j] = q[j]
      BY <1>1, <3>1
    <3> QED BY <3>1, <3>2 DEF Near
  <2> QED BY <2>1, <2>2, <2>3
<1>3. CASE j > Len(q)
  <2>1. j \in Len(q) + 1 .. Len(q) + Len(r)
    BY <1>1, <1>3
  <2>2. h[j].owner = r[1].owner
    BY <1>1, <2>1
  <2>3. CASE i <= Len(q)
    <3>1. i \in 1 .. Len(q) /\ h[i] = q[i]
      BY <1>1, <2>3
    <3> QED BY <2>2, <3>1
  <2>4. CASE i > Len(q)
    <3>1. Len(r) <= MaxBatch
      OBVIOUS
    <3>2. j <= Len(q) + Len(r) /\ i > Len(q)
      BY <2>1, <2>4
    <3> QED BY <1>1, <3>1, <3>2, MaxBatchFact
  <2> QED BY <1>1, <2>3, <2>4
<1> QED BY <1>1, <1>2, <1>3

-----------------------------------------------------------------------------
(* ibv_post_send of a list *)

(* The operation at the front of a script and the others. *)
LEMMA HeadShape ==
  ASSUME QpIInv, todo # <<>>
  PROVE  /\ Head(todo) = todo[1] /\ Head(todo) \in Ops /\ 1 \in 1 .. Len(todo)
         /\ Tail(todo) \in Seq(Ops) /\ Len(Tail(todo)) = Len(todo) - 1
         /\ \A i \in 1 .. Len(Tail(todo)) :
              Tail(todo)[i] = todo[i + 1] /\ i + 1 \in 1 .. Len(todo)
         /\ \A i \in 2 .. Len(todo) : i - 1 \in 1 .. Len(Tail(todo))
BY StateFacts DEF QpIInv

(* There is a slot for every request: what nobody waits for and one list more
   than the batches in flight fit the send queue. *)
LEMMA PostFits ==
  ASSUME QpIInv, Running("post")
  PROVE  Len(sq[Head(todo).qp]) + Len(Head(todo).wrs) <= Capacity
<1> DEFINE o == Head(todo)
           s == o.qp
           q == sq[s]
           k == o.wrs[1].owner
<1>1. /\ todo # <<>> /\ o.do = "post" /\ o = todo[1] /\ o \in Ops /\ 1 \in 1 .. Len(todo)
  BY HeadShape DEF Running
<1>2. /\ s \in Servers /\ o \in Posts /\ o.wrs \in Seq(Wrs) /\ Len(o.wrs) \in 1 .. MaxBatch
  BY <1>1, OpFacts
<1>3. /\ \A r \in 1 .. Len(o.wrs) : o.wrs[r].owner = k
      /\ k = Nobody => Len(o.wrs) = 1
  BY <1>2 DEF Posts
<1>4. q \in Seq(Wrs) /\ Len(q) \in Nat /\ pendings[s] \in Nat
  BY <1>2, StateFacts DEF QpIInv
<1>5. IsWork(todo[1], s) /\ OwnerOf(todo[1]) = k
  BY <1>1 DEF IsWork, OwnerOf
<1>6. Near(q) /\ pendings[s] <= PollThreshold + 1
  BY <1>2 DEF QpIInv, NearInv, PendingInv
<1>7. NoneKept(s) => Blind(q, 1) <= MaxBlind + KeptSlots
  BY <1>2 DEF QpIInv, BlindInv
<1>8. /\ k # Nobody => OwnedShape(1, s, k)
      /\ k = Nobody => BlindShape(1, s, o.wrs[1])
  BY <1>1, <1>2, <1>5 DEF QpIInv, ShapeInv, WorkShape
<1> HIDE DEF o, s, q, k
<1>9. Blind(q, 1) \in Nat /\ Len(o.wrs) \in Nat
  BY <1>2, <1>4, SignalsBound
<1>10. CASE k # Nobody
  <2>1. \A n \in 1 .. Len(q) : q[n].owner # k
    BY <1>8, <1>10 DEF OwnedShape, q
  <2>2. NoneKept(s)
    BY <1>8, <1>10 DEF OwnedShape
  <2>3. Near(q \o o.wrs)
    BY <1>2, <1>3, <1>4, <1>6, <2>1, NearPosted DEF k
  <2>4. q \o o.wrs \in Seq(Wrs) /\ Len(q \o o.wrs) = Len(q) + Len(o.wrs)
    BY <1>2, <1>4
  <2>5. Len(q \o o.wrs) <= (MaxHops + 1) * MaxBatch + Blind(q \o o.wrs, 1)
    BY <2>3, <2>4, NearLength
  <2>6. Blind(q \o o.wrs, 1) = Blind(q, 1) + Blind(o.wrs, 1)
    <3>1. 1 \in 1 .. Len(q) + 1
      BY <1>4
    <3> QED BY <1>2, <1>4, <3>1, RequestsConcat
  <2>7. Blind(o.wrs, 1) = 0
    <3>1. \A i \in 1 .. Len(o.wrs) : o.wrs[i].owner # Nobody
      BY <1>3, <1>10
    <3> QED BY <1>2, <3>1, NoneBlind
  <2>8. Blind(q, 1) <= MaxBlind + KeptSlots
    BY <1>7, <2>2
  <2> DEFINE x == (MaxHops + 1) * MaxBatch
  <2>9. x \in Nat /\ x + (MaxBlind + KeptSlots) <= Capacity /\ Capacity \in Nat
        /\ MaxBlind + KeptSlots \in Nat
    BY CapacityFact
  <2>10. Len(q) + Len(o.wrs) <= x + (Blind(q, 1) + 0)
    BY <2>4, <2>5, <2>6, <2>7
  <2> HIDE DEF x
  <2>11. Len(q) + Len(o.wrs) <= Capacity
    BY <1>4, <1>9, <2>8, <2>9, <2>10
  <2> QED BY <2>11 DEF o, s, q
<1>11. CASE k = Nobody
  <2>1. BlindShape(1, s, o.wrs[1]) /\ Len(o.wrs) = 1
    BY <1>3, <1>8, <1>11
  <2>2. CASE Len(q) < MaxBlind
    <3>1. Len(q) + Len(o.wrs) <= Capacity
      BY <1>4, <2>1, <2>2, CapacityFact
    <3> QED BY <3>1 DEF o, s, q
  <2>3. CASE ~ (Len(q) < MaxBlind)
    <3>1. /\ "WriteSelective" \in Calls
          /\ \A n \in 1 .. Len(q) : q[n].owner = Nobody
          /\ IF o.wrs[1].signal THEN Blind(q, 1) <= MaxBlind + PollThreshold
             ELSE Blind(q, 1) < MaxBlind + PollThreshold + pendings[s]
      BY <2>1, <2>3 DEF BlindShape, q
    <3>2. Len(q) = Blind(q, 1)
      BY <1>4, <1>6, <3>1, NearLength
    <3>3. Len(q) + 1 <= MaxBlind + 2 * PollThreshold + 1
      BY <1>4, <1>6, <3>1, <3>2, CapacityFact
    <3>4. Len(q) + Len(o.wrs) <= Capacity
      BY <1>4, <2>1, <3>1, <3>3, CapacityFact
    <3> QED BY <3>4 DEF o, s, q
  <2> QED BY <2>2, <2>3
<1> QED BY <1>10, <1>11

(* A post finds room for all its requests. *)
LEMMA PostResult ==
  ASSUME QpIInv, PostStep
  PROVE  LET o == Head(todo)  s == o.qp
         IN  /\ todo # <<>> /\ o.do = "post" /\ o = todo[1] /\ o \in Ops /\ s \in Servers
             /\ o \in Posts /\ o.wrs \in Seq(Wrs) /\ Len(o.wrs) \in 1 .. MaxBatch
             /\ \A r \in 1 .. Len(o.wrs) : o.wrs[r].owner = o.wrs[1].owner
             /\ o.wrs[1].owner # Nobody => o.wrs[Len(o.wrs)].signal
             /\ o.wrs[1].owner = Nobody => Len(o.wrs) = 1
             /\ o.wrs[1].owner # Nobody => OwnedShape(1, s, o.wrs[1].owner)
             /\ o.wrs[1].owner = Nobody => BlindShape(1, s, o.wrs[1])
             /\ sq' = [sq EXCEPT ![s] = @ \o o.wrs]
             /\ todo' = Tail(todo)
             /\ pendings' = pendings /\ done' = done /\ batches' = batches
             /\ failed' = failed
<1> DEFINE o == Head(todo)
           s == o.qp
<1>1. /\ todo # <<>> /\ o.do = "post" /\ o = todo[1] /\ o \in Ops /\ 1 \in 1 .. Len(todo)
      /\ Running("post")
  BY HeadShape DEF Running, PostStep
<1>2. /\ s \in Servers /\ o \in Posts /\ o.wrs \in Seq(Wrs) /\ Len(o.wrs) \in 1 .. MaxBatch
  BY <1>1, OpFacts
<1>3. /\ \A r \in 1 .. Len(o.wrs) : o.wrs[r].owner = o.wrs[1].owner
      /\ o.wrs[1].owner # Nobody => o.wrs[Len(o.wrs)].signal
      /\ o.wrs[1].owner = Nobody => Len(o.wrs) = 1
  BY <1>2 DEF Posts
<1>4. Len(o.wrs) <= Capacity - Len(sq[s]) /\ ~ (Len(o.wrs) > Capacity - Len(sq[s]))
  <2> DEFINE x == Len(sq[s])  y == Len(o.wrs)
  <2>1. x + y <= Capacity
    BY <1>1, PostFits
  <2>2. x \in Nat
    BY <1>2, StateFacts DEF QpIInv
  <2>3. y \in Nat /\ Capacity \in Nat
    BY <1>2, CapacityFact
  <2> HIDE DEF x, y
  <2>4. y <= Capacity - x /\ ~ (y > Capacity - x)
    BY <2>1, <2>2, <2>3
  <2> QED BY <2>4 DEF x, y
<1>5. SubSeq(o.wrs, 1, Len(o.wrs)) = o.wrs
  BY <1>2
<1>6. IsWork(todo[1], s) /\ OwnerOf(todo[1]) = o.wrs[1].owner
  BY <1>1 DEF IsWork, OwnerOf
<1>7. /\ o.wrs[1].owner # Nobody => OwnedShape(1, s, o.wrs[1].owner)
      /\ o.wrs[1].owner = Nobody => BlindShape(1, s, o.wrs[1])
  BY <1>1, <1>2, <1>6 DEF QpIInv, ShapeInv, WorkShape
<1>8. /\ sq' = [sq EXCEPT ![s] = @ \o SubSeq(o.wrs, 1, Len(o.wrs))]
      /\ failed' = (failed \/ Len(o.wrs) > Capacity - Len(sq[s]))
      /\ todo' = Tail(todo) /\ pendings' = pendings /\ done' = done /\ batches' = batches
  BY <1>4 DEF PostStep
<1>10. failed' = failed
  BY <1>4, <1>8, StateFacts DEF QpIInv
<1> HIDE DEF o, s
<1>11. sq' = [sq EXCEPT ![s] = @ \o o.wrs]
  BY <1>5, <1>8
<1> QED BY <1>1, <1>2, <1>3, <1>7, <1>8, <1>10, <1>11 DEF o, s

(* What a post changes: the requests move from the script to the send queue. *)
LEMMA PostEffect ==
  ASSUME QpIInv, PostStep
  PROVE  LET o == Head(todo)  s == o.qp
         IN  /\ todo' \in Seq(Ops) /\ Len(todo') = Len(todo) - 1 /\ Len(todo) \in Nat
             /\ \A i \in 1 .. Len(todo') : todo'[i] = todo[i + 1] /\ i + 1 \in 1 .. Len(todo)
             /\ sq' \in [Servers -> Seq(Wrs)]
             /\ sq'[s] = sq[s] \o o.wrs /\ \A r \in Servers : r # s => sq'[r] = sq[r]
             /\ \A r \in Servers :
                  /\ ToPoll(todo', r) = ToPoll(todo, r) /\ ToBuild(todo', r) = ToBuild(todo, r)
                  /\ ToSignal(todo, r)
                       = ToSignal(todo', r) + (IF r = s THEN Signals(o.wrs, 1) ELSE 0)
                  /\ ToPoll(todo, r) \in Nat /\ ToBuild(todo, r) \in Nat
                  /\ ToSignal(todo', r) \in Nat
<1> DEFINE o == Head(todo)
           s == o.qp
           t == Tail(todo)
<1>1. /\ todo # <<>> /\ o.do = "post" /\ o \in Ops /\ s \in Servers /\ o.wrs \in Seq(Wrs)
      /\ sq' = [sq EXCEPT ![s] = @ \o o.wrs] /\ todo' = t
  BY PostResult
<1>2. /\ t \in Seq(Ops) /\ Len(t) = Len(todo) - 1 /\ Len(todo) \in Nat
      /\ \A i \in 1 .. Len(t) : t[i] = todo[i + 1] /\ i + 1 \in 1 .. Len(todo)
      /\ todo \in Seq(Ops) /\ sq \in [Servers -> Seq(Wrs)]
  <2>1. todo \in Seq(Ops) /\ sq \in [Servers -> Seq(Wrs)]
    BY StateFacts DEF QpIInv
  <2>2. Len(todo) \in Nat
    BY <2>1
  <2> QED BY <1>1, <2>1, <2>2, HeadShape
<1>3. \A r \in Servers :
        /\ ToPoll(todo, r) = PollOf(r)[o] + ToPoll(t, r)
        /\ ToBuild(todo, r) = BuildOf(r)[o] + ToBuild(t, r)
        /\ ToSignal(todo, r) = WorkOf(r)[o] + ToSignal(t, r)
  BY <1>1, <1>2, ScriptHead
<1>4. \A r \in Servers : /\ ToPoll(t, r) \in Nat /\ ToBuild(t, r) \in Nat
                         /\ ToSignal(t, r) \in Nat
  BY <1>2, ScriptType
<1> HIDE DEF o, s, t
<1>5. \A r \in Servers :
        /\ PollOf(r)[o] = 0 /\ BuildOf(r)[o] = 0
        /\ WorkOf(r)[o] = IF r = s THEN Signals(o.wrs, 1) ELSE 0
  BY <1>1, ScriptWeights DEF IsPoll, IsWork, s
<1>6. Signals(o.wrs, 1) \in Nat
  BY <1>1, SignalsBound
<1>7. \A r \in Servers :
        /\ ToPoll(t, r) = ToPoll(todo, r) /\ ToBuild(t, r) = ToBuild(todo, r)
        /\ ToSignal(todo, r)
             = ToSignal(t, r) + (IF r = s THEN Signals(o.wrs, 1) ELSE 0)
        /\ ToPoll(todo, r) \in Nat /\ ToBuild(todo, r) \in Nat
  BY <1>3, <1>4, <1>5, <1>6
<1>8. sq[s] \o o.wrs \in Seq(Wrs)
  <2>1. sq[s] \in Seq(Wrs)
    BY <1>1, <1>2
  <2> QED BY <1>1, <2>1
<1>9. /\ sq' \in [Servers -> Seq(Wrs)]
      /\ sq'[s] = sq[s] \o o.wrs /\ \A r \in Servers : r # s => sq'[r] = sq[r]
  BY <1>1, <1>2, <1>8
<1> QED BY <1>1, <1>2, <1>4, <1>7, <1>9 DEF o, s, t

(* The types after a post. *)
LEMMA PostType ==
  ASSUME QpIInv, PostStep
  PROVE  QpTypeInv'
<1> DEFINE o == Head(todo)
           s == o.qp
<1>1. /\ o.wrs \in Seq(Wrs) /\ s \in Servers
      /\ pendings' = pendings /\ done' = done /\ batches' = batches /\ failed' = failed
      /\ todo' \in Seq(Ops) /\ sq' \in [Servers -> Seq(Wrs)]
      /\ sq'[s] = sq[s] \o o.wrs /\ \A r \in Servers : r # s => sq'[r] = sq[r]
  BY PostResult, PostEffect
<1> HIDE DEF o, s
<1>2. \A r \in Servers : done[r] \in 0 .. Len(sq[r]) /\ sq[r] \in Seq(Wrs)
  BY StateFacts DEF QpIInv
<1>3. \A r \in Servers : done[r] \in 0 .. Len(sq'[r])
  <2>1. Len(sq[s] \o o.wrs) = Len(sq[s]) + Len(o.wrs) /\ Len(o.wrs) \in Nat
        /\ Len(sq[s]) \in Nat
    BY <1>1, <1>2
  <2>2. done[s] \in 0 .. Len(sq[s]) /\ sq'[s] = sq[s] \o o.wrs
    BY <1>1, <1>2
  <2>3. done[s] \in 0 .. Len(sq[s] \o o.wrs)
    <3> DEFINE x == Len(sq[s])  y == Len(o.wrs)  z == Len(sq[s] \o o.wrs)
    <3>1. z = x + y /\ x \in Nat /\ y \in Nat /\ done[s] \in 0 .. x
      BY <2>1, <2>2
    <3> HIDE DEF x, y, z
    <3>2. done[s] \in 0 .. z
      BY <3>1
    <3> QED BY <3>2 DEF z
  <2> QED BY <1>1, <1>2, <2>2, <2>3
<1> QED BY <1>1, <1>3 DEF QpIInv, QpTypeInv, QpTypeOK

(* Posting turns requests to be posted into completions to come. *)
LEMMA PostBalance ==
  ASSUME QpIInv, PostStep
  PROVE  BalanceInv' /\ PendingInv'
<1> DEFINE o == Head(todo)
           s == o.qp
<1>1. /\ o.wrs \in Seq(Wrs) /\ s \in Servers
      /\ pendings' = pendings /\ batches' = batches
      /\ sq'[s] = sq[s] \o o.wrs /\ \A r \in Servers : r # s => sq'[r] = sq[r]
      /\ \A r \in Servers :
           /\ ToPoll(todo', r) = ToPoll(todo, r) /\ ToBuild(todo', r) = ToBuild(todo, r)
           /\ ToSignal(todo, r)
                = ToSignal(todo', r) + (IF r = s THEN Signals(o.wrs, 1) ELSE 0)
           /\ ToSignal(todo', r) \in Nat
  BY PostResult, PostEffect
<1> HIDE DEF o, s
<1>2. \A r \in Servers : /\ sq[r] \in Seq(Wrs)
                         /\ Signals(sq[r], 1) \in Nat
  BY StateFacts, SignalsBound DEF QpIInv
<1>3. Signals(sq'[s], 1) = Signals(sq[s], 1) + Signals(o.wrs, 1)
      /\ Signals(o.wrs, 1) \in Nat
  <2>1. 1 \in 1 .. Len(sq[s]) + 1
    BY <1>1, <1>2
  <2> QED BY <1>1, <1>2, <2>1, RequestsConcat, SignalsBound, SMTT(30)
<1>4. ASSUME NEW r \in Servers
      PROVE  Signals(sq'[r], 1) + ToSignal(todo', r) = Signals(sq[r], 1) + ToSignal(todo, r)
  <2>1. CASE r = s
    <3>1. ToSignal(todo, s) = ToSignal(todo', s) + Signals(o.wrs, 1)
      BY <1>1
    <3>2. Signals(sq'[s], 1) + ToSignal(todo', s) = Signals(sq[s], 1) + ToSignal(todo, s)
      BY <1>1, <1>2, <1>3, <3>1
    <3> QED BY <2>1, <3>2
  <2>2. CASE r # s
    <3>1. sq'[r] = sq[r] /\ ToSignal(todo, r) = ToSignal(todo', r) + 0
      BY <1>1, <2>2
    <3> QED BY <1>1, <3>1
  <2> QED BY <2>1, <2>2
<1>5. BalanceInv'
  BY <1>1, <1>4 DEF QpIInv, BalanceInv, Extra
<1>6. PendingInv'
  BY <1>1 DEF QpIInv, PendingInv
<1> QED BY <1>5, <1>6

(* The requests posted follow those of their owner, if any. *)
LEMMA PostOwners ==
  ASSUME QpIInv, PostStep
  PROVE  OwnerInv' /\ MineInv' /\ NearInv'
<1> DEFINE o == Head(todo)
           s == o.qp
           k == o.wrs[1].owner
           q == sq[s]
           p == sq'[s]
<1>1. /\ o.wrs \in Seq(Wrs) /\ Len(o.wrs) \in 1 .. MaxBatch /\ s \in Servers
      /\ batches' = batches /\ p = q \o o.wrs
      /\ \A n \in 1 .. Len(o.wrs) : o.wrs[n].owner = k
      /\ k # Nobody => OwnedShape(1, s, k)
  BY PostResult, PostEffect
<1>2. /\ \A r \in Servers : r # s => sq'[r] = sq[r]
      /\ \A r \in Servers : ToPoll(todo', r) = ToPoll(todo, r)
  BY PostEffect
<1>3. /\ \A r \in Servers : sq[r] \in Seq(Wrs)
      /\ todo \in Seq(Ops)
  BY StateFacts DEF QpIInv
<1>4. q \in Seq(Wrs) /\ Near(q)
  BY <1>1, <1>3 DEF QpIInv, NearInv
<1> HIDE DEF o, k
<1>5. \A i \in 1 .. Len(p) : (i \in 1 .. Len(q) /\ p[i] = q[i]) \/ p[i].owner = k
  <2> DEFINE w == o.wrs
  <2>1. w \in Seq(Wrs) /\ q \in Seq(Wrs) /\ p = q \o w
    BY <1>1, <1>4
  <2>2. \A n \in 1 .. Len(w) : w[n].owner = k
    BY <1>1
  <2> HIDE DEF p, q, w
  <2> TAKE i \in 1 .. Len(p)
  <2>3. Len(p) = Len(q) + Len(w) /\ Len(q) \in Nat /\ Len(w) \in Nat
    BY <2>1
  <2>4. CASE i <= Len(q)
    BY <2>1, <2>3, <2>4
  <2>5. CASE i > Len(q)
    <3>1. i - Len(q) \in 1 .. Len(w) /\ p[i] = w[i - Len(q)]
      BY <2>1, <2>3, <2>5
    <3> QED BY <2>2, <3>1
  <2> QED BY <2>3, <2>4, <2>5
<1>6. /\ k # Nobody => /\ \A n \in 1 .. Len(q) : q[n].owner # k
                       /\ k = Mine => ToPoll(todo, s) > 0
                       /\ k # Mine => k = Len(batches) /\ batches[k][s] > 0
  <2>1. k # Nobody => /\ \A n \in 1 .. Len(q) : q[n].owner # k
                      /\ k = Mine => \E j \in 2 .. Len(todo) : IsPoll(todo[j], s)
                      /\ k # Mine => k = Len(batches) /\ batches[k][s] > 0
    BY <1>1 DEF OwnedShape
  <2>2. ASSUME NEW j \in 2 .. Len(todo), IsPoll(todo[j], s) PROVE ToPoll(todo, s) > 0
    <3>1. j \in 1 .. Len(todo)
      OBVIOUS
    <3> QED BY <1>3, <2>2, <3>1, ScriptType
  <2> QED BY <2>1, <2>2
<1>7. OwnerInv'
  <2> SUFFICES ASSUME NEW r \in Servers, NEW i \in 1 .. Len(sq'[r]),
                      sq'[r][i].owner \in 1 .. MaxHops
               PROVE  sq'[r][i].owner <= Len(batches) /\ batches[sq'[r][i].owner][r] > 0
    BY <1>1 DEF OwnerInv
  <2>1. CASE r # s \/ (i \in 1 .. Len(q) /\ p[i] = q[i])
    BY <1>2, <2>1 DEF QpIInv, OwnerInv
  <2>2. CASE r = s /\ p[i].owner = k
    <3>1. k # Nobody /\ k # Mine
      BY <2>2, CapacityFact DEF Nobody, Mine
    <3>2. Len(batches) \in Nat
      BY StateFacts DEF QpIInv
    <3>3. k = Len(batches) /\ batches[k][s] > 0
      BY <1>6, <3>1
    <3> QED BY <2>2, <3>2, <3>3
  <2> QED BY <1>5, <2>1, <2>2
<1>8. MineInv'
  <2> SUFFICES ASSUME NEW r \in Servers, ToPoll(todo, r) = 0, NEW i \in 1 .. Len(sq'[r])
               PROVE  sq'[r][i].owner # Mine
    BY <1>2 DEF MineInv
  <2>1. CASE r # s \/ (i \in 1 .. Len(q) /\ p[i] = q[i])
    BY <1>2, <2>1 DEF QpIInv, MineInv
  <2>2. CASE r = s /\ p[i].owner = k
    <3>1. k = Mine => k # Nobody
      BY CapacityFact DEF Mine, Nobody
    <3> QED BY <1>6, <2>2, <3>1
  <2> QED BY <1>5, <2>1, <2>2
<1>9. NearInv'
  <2>1. Near(p)
    <3>1. k # Nobody => \A n \in 1 .. Len(q) : q[n].owner # k
      BY <1>6
    <3> HIDE DEF p, q
    <3> QED BY <1>1, <1>4, <3>1, NearPosted DEF k
  <2> QED BY <1>2, <2>1 DEF QpIInv, NearInv
<1> QED BY <1>7, <1>8, <1>9

(* The last request of a list is signalled, and comes after all others. *)
LEMMA PostAhead ==
  ASSUME QpIInv, PostStep
  PROVE  AheadInv'
<1> DEFINE o == Head(todo)
           s == o.qp
           k == o.wrs[1].owner
           q == sq[s]
           w == o.wrs
<1>1. /\ w \in Seq(Wrs) /\ Len(w) \in 1 .. MaxBatch /\ s \in Servers
      /\ batches' = batches /\ sq'[s] = q \o w
      /\ \A n \in 1 .. Len(w) : w[n].owner = k
      /\ k # Nobody => OwnedShape(1, s, k) /\ w[Len(w)].signal
      /\ \A r \in Servers : r # s => sq'[r] = sq[r]
  BY PostResult, PostEffect
<1>2. \A r \in Servers : /\ ToSignal(todo, r) = ToSignal(todo', r) + (IF r = s THEN Signals(w, 1) ELSE 0)
                         /\ ToSignal(todo', r) \in Nat
  BY PostEffect
<1>3. q \in Seq(Wrs) /\ batches \in Seq(Batches)
  BY <1>1, StateFacts DEF QpIInv
<1>4. \A r \in Servers : r # s => ToSignal(todo', r) = ToSignal(todo, r)
  BY <1>2
<1>5. ToSignal(todo, s) = ToSignal(todo', s) + Signals(w, 1) /\ ToSignal(todo', s) \in Nat
  BY <1>1, <1>2
<1> HIDE DEF o, s, k, q, w
<1> SUFFICES ASSUME NEW r \in Servers, NEW i \in 1 .. Len(sq'[r]),
                    sq'[r][i].owner \in 0 .. MaxHops
             PROVE  Signals(sq'[r], i) + ToSignal(todo', r)
                      > OwedFrom(batches, r, sq'[r][i].owner + 1)
  BY <1>1 DEF AheadInv
<1>6. CASE r # s
  BY <1>1, <1>4, <1>6 DEF QpIInv, AheadInv
<1>7. CASE r = s
  <2>0. /\ Len(q \o w) = Len(q) + Len(w) /\ Len(q) \in Nat /\ Len(w) \in Nat
        /\ \A n \in 1 .. Len(q) : (q \o w)[n] = q[n]
        /\ \A n \in 1 .. Len(w) : (q \o w)[n + Len(q)] = w[n]
    BY <1>1, <1>3
  <2>1. CASE i <= Len(q)
    <3>1. i \in 1 .. Len(q) /\ i \in 1 .. Len(q) + 1
      BY <2>0, <2>1, <1>7, <1>1
    <3>2. Signals(q \o w, i) = Signals(q, i) + Signals(w, 1)
      BY <1>1, <1>3, <3>1, RequestsConcat
    <3>3. sq'[r][i] = q[i]
      BY <1>1, <1>7, <2>0, <3>1
    <3>4. Signals(q, i) + ToSignal(todo, s) > OwedFrom(batches, s, q[i].owner + 1)
      BY <1>1, <1>7, <3>1, <3>3 DEF QpIInv, AheadInv, q
    <3>5. Signals(q, i) \in Nat /\ Signals(w, 1) \in Nat
      <4>1. i \in Int /\ 1 \in Int
        BY <3>1
      <4> QED BY <1>1, <1>3, <4>1, RequestsType
    <3>6. Signals(q, i) + ToSignal(todo, s) = Signals(q \o w, i) + ToSignal(todo', s)
      BY <1>5, <3>2, <3>5
    <3> QED BY <1>1, <1>7, <3>3, <3>4, <3>6
  <2>2. CASE i > Len(q)
    <3> DEFINE n == i - Len(q)
    <3>1. n \in 1 .. Len(w) /\ n \in Nat /\ n >= 1 /\ i = n + Len(q)
      BY <1>1, <1>7, <2>0, <2>2
    <3> HIDE DEF n
    <3>2. Signals(q \o w, i) = Signals(w, n)
      BY <1>1, <1>3, <3>1, RequestsConcat
    <3>3. sq'[r][i].owner = k
      BY <1>1, <1>7, <2>0, <3>1
    <3>4. k # Nobody /\ k \in 0 .. MaxHops
      BY <3>3, CapacityFact DEF Nobody
    <3>5. Signals(w, n) > 0
      <4>1. Len(w) \in 1 .. Len(w) /\ Len(w) >= n /\ w[Len(w)].signal /\ n \in Int
        BY <1>1, <3>1, <3>4
      <4> QED BY <1>1, <4>1, RequestsType
    <3>6. OwedFrom(batches, s, k + 1) = 0
      <4>1. k + 1 > Len(batches) /\ k + 1 \in Int
        <5>1. Len(batches) \in Nat
          BY <1>3
        <5>2. (k = Mine => batches = <<>>) /\ (k # Mine => k = Len(batches))
          BY <1>1, <3>4 DEF OwnedShape
        <5>3. batches = <<>> => Len(batches) = 0
          OBVIOUS
        <5> QED BY <3>4, <5>1, <5>2, <5>3 DEF Mine
      <4> QED BY <1>1, <1>3, <4>1, OwedFacts
    <3>7. Signals(w, n) \in Nat
      <4>1. n \in Int
        BY <3>1
      <4> QED BY <1>1, <4>1, RequestsType
    <3>8. Signals(w, n) + ToSignal(todo', s) > 0
      BY <1>5, <3>5, <3>7
    <3> QED BY <1>1, <1>7, <3>2, <3>3, <3>6, <3>8
  <2>3. i \in Nat
    OBVIOUS
  <2> QED BY <2>0, <2>1, <2>2, <2>3
<1> QED BY <1>6, <1>7

(* The operations after a post are as they were, one position earlier. *)
LEMMA PostShape ==
  ASSUME QpIInv, PostStep
  PROVE  ShapeInv'
<1> DEFINE o == Head(todo)
           s == o.qp
<1>1. /\ todo # <<>> /\ o = todo[1] /\ o.do = "post" /\ s \in Servers
      /\ pendings' = pendings /\ batches' = batches
      /\ \A r \in Servers : r # s => sq'[r] = sq[r]
      /\ Len(todo') = Len(todo) - 1 /\ Len(todo) \in Nat
      /\ \A i \in 1 .. Len(todo') : todo'[i] = todo[i + 1] /\ i + 1 \in 1 .. Len(todo)
  BY PostResult, PostEffect
<1>2. IsWork(todo[1], s) /\ 1 \in 1 .. Len(todo)
  BY <1>1, HeadShape DEF IsWork
<1>3. \A r : ~ IsPoll(todo[1], r)
  BY <1>1 DEF IsPoll
<1> HIDE DEF o, s
<1> SUFFICES ASSUME NEW r \in Servers, NEW i \in 1 .. Len(todo'), IsWork(todo'[i], r)
             PROVE  WorkShape(i, r)'
  BY DEF ShapeInv
<1> DEFINE k == OwnerOf(todo[i + 1])
<1>4. i + 1 \in 1 .. Len(todo) /\ todo'[i] = todo[i + 1] /\ IsWork(todo[i + 1], r)
  BY <1>1
<1>5. /\ \A j \in 1 .. Len(todo) : IsWork(todo[j], r) => j = i + 1
      /\ todo[i + 1].do = "build" => \A j \in 1 .. i : ~ IsPoll(todo[j], r)
      /\ k # Nobody => OwnedShape(i + 1, r, k)
      /\ k # Nobody
  <2>1. (i + 1) - 1 = i /\ i + 1 # 1
    OBVIOUS
  <2> QED BY <1>4, <2>1 DEF QpIInv, ShapeInv, WorkShape, BlindShape
<1>6. r # s /\ sq'[r] = sq[r]
  <2>1. r # s
    <3>1. i + 1 # 1
      OBVIOUS
    <3> QED BY <1>2, <1>5, <3>1
  <2> QED BY <1>1, <2>1
<1>7. \A j \in 1 .. Len(todo') : IsWork(todo'[j], r) => j = i
  <2> TAKE j \in 1 .. Len(todo')
  <2> HAVE IsWork(todo'[j], r)
  <2>1. j + 1 = i + 1
    BY <1>1, <1>5
  <2> QED BY <2>1
<1>8. todo'[i].do = "build" => \A j \in 1 .. i - 1 : ~ IsPoll(todo'[j], r)
  <2> HAVE todo'[i].do = "build"
  <2> TAKE j \in 1 .. i - 1
  <2>1. j + 1 \in 1 .. i /\ j \in 1 .. Len(todo')
    BY <1>1
  <2> QED BY <1>1, <1>4, <1>5, <2>1
<1>9. OwnerOf(todo'[i]) = k
  BY <1>4
<1> HIDE DEF k
<1>10. OwnedShape(i + 1, r, k)
  BY <1>5
<1>11. \A n \in 1 .. Len(sq'[r]) : sq'[r][n].owner # k
  BY <1>6, <1>10 DEF OwnedShape
<1>12. k = Mine => batches' = <<>> /\ \E j \in i + 1 .. Len(todo') : IsPoll(todo'[j], r)
  <2> HAVE k = Mine
  <2>1. batches = <<>> /\ \E j \in (i + 1) + 1 .. Len(todo) : IsPoll(todo[j], r)
    BY <1>10 DEF OwnedShape
  <2>2. PICK j \in (i + 1) + 1 .. Len(todo) : IsPoll(todo[j], r)
    BY <2>1
  <2>3. j - 1 \in i + 1 .. Len(todo') /\ j - 1 \in 1 .. Len(todo') /\ (j - 1) + 1 = j
    BY <1>1
  <2>4. todo'[j - 1] = todo[(j - 1) + 1]
    BY <1>1, <2>3
  <2> QED BY <1>1, <2>1, <2>2, <2>3, <2>4
<1>13. k # Mine => k = Len(batches') /\ batches'[k][r] > 0
  BY <1>1, <1>10 DEF OwnedShape
<1>14. (\E j \in 1 .. i - 1 : IsPoll(todo'[j], r)) \/ NoneKept(r)'
  <2>1. CASE NoneKept(r)
    BY <1>6, <2>1 DEF NoneKept
  <2>2. CASE \E j \in 1 .. (i + 1) - 1 : IsPoll(todo[j], r)
    <3>1. PICK j \in 1 .. (i + 1) - 1 : IsPoll(todo[j], r)
      BY <2>2
    <3>2. j # 1
      BY <1>3, <3>1
    <3>3. j - 1 \in 1 .. i - 1 /\ j - 1 \in 1 .. Len(todo') /\ (j - 1) + 1 = j
      BY <1>1, <3>2
    <3>4. todo'[j - 1] = todo[(j - 1) + 1]
      BY <1>1, <3>3
    <3> QED BY <3>1, <3>3, <3>4
  <2> QED BY <1>10, <2>1, <2>2 DEF OwnedShape
<1>16. k # Nobody
  BY <1>5 DEF k
<1> QED BY <1>7, <1>8, <1>9, <1>11, <1>12, <1>13, <1>14, <1>16 DEF WorkShape, OwnedShape

(* The slots after a position hold no more blind requests than slots. *)
LEMMA BlindAfter ==
  ASSUME NEW q \in Seq(Wrs), NEW p \in 1 .. Len(q)
  PROVE  Blind(q, p + 1) \in Nat /\ Blind(q, p + 1) <= Len(q) - p
<1>1. p + 1 \in 1 .. Len(q) + 1 /\ p + 1 \in Int /\ Len(q) \in Nat
  OBVIOUS
<1>2. Blind(q, p + 1) <= Len(q) - (p + 1) + 1
  BY <1>1, RequestWeights, WeightOfOnesBound DEF Blind
<1>3. Blind(q, p + 1) \in Nat
  BY <1>1, RequestsType
<1> QED BY <1>1, <1>2, <1>3

(* The slots of blind requests after a post. *)
LEMMA PostBlind ==
  ASSUME QpIInv, PostStep
  PROVE  BlindInv'
<1> DEFINE o == Head(todo)
           s == o.qp
           k == o.wrs[1].owner
           q == sq[s]
           w == o.wrs
           h == q \o w
<1>1. /\ w \in Seq(Wrs) /\ Len(w) \in 1 .. MaxBatch /\ s \in Servers
      /\ pendings' = pendings /\ batches' = batches /\ sq'[s] = h
      /\ \A n \in 1 .. Len(w) : w[n].owner = k
      /\ k # Nobody => OwnedShape(1, s, k)
      /\ k = Nobody => BlindShape(1, s, w[1]) /\ Len(w) = 1
      /\ \A r \in Servers : r # s => sq'[r] = sq[r]
  BY PostResult, PostEffect
<1>2. /\ q \in Seq(Wrs) /\ batches \in Seq(Batches) /\ pendings[s] \in Nat
      /\ pendings[s] <= PollThreshold + 1
  BY <1>1, StateFacts DEF QpIInv, PendingInv
<1>3. /\ NoneKept(s) => Blind(q, 1) <= MaxBlind + KeptSlots
      /\ \A p \in 1 .. Len(q) :
           Kept(q[p]) =>
             /\ "WriteSelective" \in Calls /\ pendings[s] > 0 /\ OwedFrom(batches, s, 1) = 0
             /\ \A n \in 1 .. p - 1 : ~ q[n].signal
             /\ Blind(q, p + 1) <= MaxBlind + pendings[s] - 1
             /\ Blind(q, 1) <= MaxBlind + PollThreshold + pendings[s]
  BY <1>1 DEF QpIInv, BlindInv
<1> HIDE DEF o, s, k, w, q
<1>4. /\ h \in Seq(Wrs) /\ Len(h) = Len(q) + Len(w) /\ Len(q) \in Nat /\ Len(w) \in Nat
      /\ \A n \in 1 .. Len(q) : h[n] = q[n]
      /\ \A n \in 1 .. Len(w) : h[n + Len(q)] = w[n]
  BY <1>1, <1>2
<1>5. /\ \A m \in 1 .. Len(q) + 1 : Blind(h, m) = Blind(q, m) + Blind(w, 1)
      /\ Blind(q, 1) \in Nat /\ Blind(w, 1) \in Nat /\ Blind(w, 1) <= Len(w)
      /\ Blind(h, 1) = Blind(q, 1) + Blind(w, 1)
  <2>1. 1 \in 1 .. Len(q) + 1
    BY <1>4
  <2> QED BY <1>1, <1>2, <2>1, RequestsConcat, SignalsBound
<1>6. \A p \in 1 .. Len(q) : p + 1 \in 1 .. Len(q) + 1 /\ Blind(h, p + 1) = Blind(q, p + 1) + Blind(w, 1)
                             /\ Blind(q, p + 1) \in Nat /\ Blind(q, p + 1) <= Len(q) - p
  <2> TAKE p \in 1 .. Len(q)
  <2>1. p + 1 \in 1 .. Len(q) + 1
    BY <1>4
  <2> QED BY <1>2, <1>5, <2>1, BlindAfter
<1>7. (\A n \in 1 .. Len(h) : ~ Kept(h[n])) => NoneKept(s)
  <2> HIDE DEF h
  <2>1. \A n \in 1 .. Len(q) : n \in 1 .. Len(h)
    BY <1>4
  <2> QED BY <1>4, <2>1 DEF NoneKept, q
<1> SUFFICES
      /\ (\A n \in 1 .. Len(h) : ~ Kept(h[n])) => Blind(h, 1) <= MaxBlind + KeptSlots
      /\ \A p \in 1 .. Len(h) :
           Kept(h[p]) =>
             /\ "WriteSelective" \in Calls /\ pendings[s] > 0 /\ OwedFrom(batches, s, 1) = 0
             /\ \A n \in 1 .. p - 1 : ~ h[n].signal
             /\ Blind(h, p + 1) <= MaxBlind + pendings[s] - 1
             /\ Blind(h, 1) <= MaxBlind + PollThreshold + pendings[s]
  <2> HIDE DEF h
  <2> SUFFICES ASSUME NEW r \in Servers
               PROVE  /\ (NoneKept(r) => Blind(sq[r], 1) <= MaxBlind + KeptSlots)'
                      /\ \A p \in 1 .. Len(sq'[r]) :
                           Kept(sq'[r][p]) =>
                             /\ "WriteSelective" \in Calls /\ pendings[r] > 0
                             /\ OwedFrom(batches, r, 1) = 0
                             /\ \A n \in 1 .. p - 1 : ~ sq'[r][n].signal
                             /\ Blind(sq'[r], p + 1) <= MaxBlind + pendings[r] - 1
                             /\ Blind(sq'[r], 1) <= MaxBlind + PollThreshold + pendings[r]
    BY <1>1 DEF BlindInv
  <2>1. CASE r = s
    BY <1>1, <2>1 DEF NoneKept
  <2>2. CASE r # s
    <3>1. sq'[r] = sq[r]
      BY <1>1, <2>2
    <3> QED BY <3>1 DEF QpIInv, BlindInv, NoneKept
  <2> QED BY <2>1, <2>2
<1>8. CASE k # Nobody
  <2>1. Blind(w, 1) = 0
    <3>1. \A i \in 1 .. Len(w) : w[i].owner # Nobody
      BY <1>1, <1>8
    <3> QED BY <1>1, <3>1, NoneBlind
  <2>2. ASSUME NEW p \in 1 .. Len(h), Kept(h[p])
        PROVE  p \in 1 .. Len(q) /\ Kept(q[p]) /\ h[p] = q[p]
    <3>1. p <= Len(q)
      <4>1. SUFFICES ASSUME p > Len(q) PROVE FALSE
        BY <1>4
      <4>2. p - Len(q) \in 1 .. Len(w) /\ (p - Len(q)) + Len(q) = p
        BY <1>4, <4>1
      <4>3. h[(p - Len(q)) + Len(q)] = w[p - Len(q)]
        BY <1>4, <4>2
      <4> HIDE DEF h
      <4> QED BY <1>1, <1>8, <2>2, <4>2, <4>3 DEF Kept
    <3> QED BY <1>4, <2>2, <3>1
  <2>3. ASSUME NEW p \in 1 .. Len(h), Kept(h[p])
        PROVE  \A n \in 1 .. p - 1 : ~ h[n].signal
    <3>1. p \in 1 .. Len(q) /\ \A n \in 1 .. p - 1 : ~ q[n].signal
      BY <1>3, <2>2, <2>3
    <3>2. \A n \in 1 .. p - 1 : n \in 1 .. Len(q)
      BY <3>1
    <3> HIDE DEF h
    <3> QED BY <1>4, <3>1, <3>2
  <2> HIDE DEF h
  <2>4. \A p \in 1 .. Len(q) : Blind(h, p + 1) = Blind(q, p + 1)
    BY <1>6, <2>1
  <2>5. Blind(h, 1) = Blind(q, 1)
    BY <1>5, <2>1
  <2> QED BY <1>3, <1>7, <2>2, <2>3, <2>4, <2>5
<1>9. CASE k = Nobody
  <2>1. BlindShape(1, s, w[1]) /\ Len(w) = 1 /\ Blind(w, 1) <= 1
    BY <1>1, <1>5, <1>9
  <2>2. Len(h) = Len(q) + 1 /\ h[Len(q) + 1] = w[1]
    <3>1. h[1 + Len(q)] = w[1]
      BY <1>4, <2>1
    <3> QED BY <1>4, <2>1, <3>1
  <2>3. \A n \in 1 .. Len(q) : h[n] = q[n]
    BY <1>4
  <2> HIDE DEF h
  <2>4. \A n \in 1 .. Len(h) : n \in 1 .. Len(q) \/ n = Len(q) + 1
    BY <1>4, <2>2
  <2>5. CASE w[1].signal
    <3>1. /\ "WriteSelective" \in Calls /\ pendings[s] > 0 /\ batches = <<>>
          /\ \A n \in 1 .. Len(q) : ~ q[n].signal
          /\ Blind(q, 1) <= MaxBlind + PollThreshold
      BY <2>1, <2>5 DEF BlindShape, q
    <3>2. OwedFrom(batches, s, 1) = 0
      <4>1. Len(batches) = 0 /\ 1 > Len(batches) /\ 1 \in Int
        BY <3>1
      <4> QED BY <1>1, <1>2, <4>1, OwedFacts
    <3>3. Blind(h, Len(q) + 2) = 0
      <4>1. Len(q) + 1 \in 1 .. Len(h)
        BY <1>4, <2>2
      <4>2. Blind(h, (Len(q) + 1) + 1) \in Nat /\ Blind(h, (Len(q) + 1) + 1) <= Len(h) - (Len(q) + 1)
        BY <1>4, <4>1, BlindAfter
      <4>3. (Len(q) + 1) + 1 = Len(q) + 2
        BY <1>4
      <4> QED BY <1>4, <2>2, <4>2, <4>3
    <3>4. Kept(w[1]) /\ Len(q) + 1 \in 1 .. Len(h)
      BY <1>1, <1>4, <1>9, <2>1, <2>2, <2>5 DEF Kept
    <3>5. Blind(h, 1) <= MaxBlind + PollThreshold + pendings[s]
      BY <1>2, <1>5, <2>1, <3>1, CapacityFact
    <3>6. ASSUME NEW p \in 1 .. Len(h), Kept(h[p]) PROVE p = Len(q) + 1
      BY <2>3, <2>4, <3>1, <3>6 DEF Kept
    <3>7. \A n \in 1 .. Len(q) : ~ h[n].signal
      BY <2>3, <3>1
    <3>8. ASSUME NEW p \in 1 .. Len(h), Kept(h[p])
          PROVE  /\ \A n \in 1 .. p - 1 : ~ h[n].signal
                 /\ Blind(h, p + 1) <= MaxBlind + pendings[s] - 1
      <4>1. p = Len(q) + 1 /\ p - 1 = Len(q) /\ p + 1 = Len(q) + 2
        BY <1>4, <3>6, <3>8
      <4>2. 0 <= MaxBlind + pendings[s] - 1
        BY <1>2, <3>1, CapacityFact, SMTT(30)
      <4> QED BY <3>3, <3>7, <4>1, <4>2
    <3>9. ~ (\A n \in 1 .. Len(h) : ~ Kept(h[n]))
      BY <2>2, <3>4
    <3> QED BY <3>1, <3>2, <3>5, <3>8, <3>9
  <2>6. CASE ~ w[1].signal
    <3>1. ASSUME NEW p \in 1 .. Len(h), Kept(h[p])
          PROVE  /\ p \in 1 .. Len(q) /\ Kept(q[p]) /\ \A n \in 1 .. p - 1 : ~ h[n].signal
      <4>1. p # Len(q) + 1
        BY <2>2, <2>6, <3>1 DEF Kept
      <4>2. p \in 1 .. Len(q) /\ Kept(q[p])
        BY <2>3, <2>4, <3>1, <4>1
      <4>3. \A n \in 1 .. p - 1 : ~ q[n].signal /\ n \in 1 .. Len(q)
        BY <1>3, <4>2
      <4> QED BY <2>3, <4>2, <4>3
    <3>2. CASE Len(q) < MaxBlind
      <4>1. Blind(q, 1) <= Len(q)
        BY <1>2, SignalsBound
      <4>2. Blind(h, 1) <= MaxBlind
        BY <1>4, <1>5, <2>1, <3>2, <4>1, CapacityFact
      <4>3. ASSUME NEW p \in 1 .. Len(q), pendings[s] > 0
            PROVE  Blind(h, p + 1) <= MaxBlind + pendings[s] - 1
        <5>1. /\ Blind(h, p + 1) = Blind(q, p + 1) + Blind(w, 1)
              /\ Blind(q, p + 1) \in Nat /\ Blind(q, p + 1) <= Len(q) - p
          BY <1>6
        <5>2. Blind(w, 1) \in Nat /\ Blind(w, 1) <= 1 /\ Len(q) \in Nat /\ p \in Nat /\ p >= 1
          BY <1>4, <1>5, <2>1
        <5>3. MaxBlind \in Nat /\ pendings[s] \in Nat
          BY <1>2, CapacityFact
        <5> DEFINE a == Blind(h, p + 1)
                   b == Blind(q, p + 1)
                   c == Blind(w, 1)
                   l == Len(q)
                   d == pendings[s]
        <5>4. a = b + c /\ b \in Nat /\ b <= l - p /\ c \in Nat /\ c <= 1 /\ l \in Nat /\ p \in Nat
              /\ p >= 1 /\ d \in Nat /\ d > 0 /\ l < MaxBlind
          BY <3>2, <4>3, <5>1, <5>2, <5>3
        <5>5. SUFFICES a <= MaxBlind + d - 1
          OBVIOUS
        <5> HIDE DEF a, b, c, d, l
        <5> QED BY <5>3, <5>4
      <4>4. Blind(h, 1) <= MaxBlind + KeptSlots
            /\ Blind(h, 1) <= MaxBlind + PollThreshold + pendings[s]
        BY <1>2, <1>5, <4>2, CapacityFact, SMTT(30)
      <4> QED BY <1>3, <3>1, <4>3, <4>4
    <3>3. CASE ~ (Len(q) < MaxBlind)
      <4>1. PICK e \in 1 .. Len(q) :
                    /\ Kept(q[e])
                    /\ Blind(q, e + 1) < MaxBlind + pendings[s] - 1
                    /\ Blind(q, 1) < MaxBlind + PollThreshold + pendings[s]
        BY <2>1, <2>6, <3>3 DEF BlindShape, q
      <4>2. ASSUME NEW p \in 1 .. Len(q), Kept(q[p]) PROVE p = e
        <5>1. q[p].signal /\ q[e].signal
          BY <4>1, <4>2 DEF Kept
        <5>2. /\ \A n \in 1 .. p - 1 : ~ q[n].signal
              /\ \A n \in 1 .. e - 1 : ~ q[n].signal
          BY <1>3, <4>1, <4>2
        <5>3. ~ (p < e) /\ ~ (e < p)
          BY <5>1, <5>2
        <5> QED BY <5>3
      <4>3. Blind(h, e + 1) <= MaxBlind + pendings[s] - 1
        <5>1. /\ Blind(h, e + 1) = Blind(q, e + 1) + Blind(w, 1) /\ Blind(q, e + 1) \in Nat
          BY <1>6
        <5>2. Blind(w, 1) \in Nat /\ Blind(w, 1) <= 1 /\ MaxBlind \in Nat /\ pendings[s] \in Nat
          BY <1>2, <1>5, <2>1, CapacityFact
        <5>3. Blind(q, e + 1) < MaxBlind + pendings[s] - 1
          BY <4>1
        <5> DEFINE a == Blind(h, e + 1)
                   b == Blind(q, e + 1)
                   c == Blind(w, 1)
                   d == pendings[s]
        <5>4. a = b + c /\ b \in Nat /\ c \in Nat /\ c <= 1 /\ d \in Nat /\ b < MaxBlind + d - 1
          BY <5>1, <5>2, <5>3
        <5>5. SUFFICES a <= MaxBlind + d - 1
          OBVIOUS
        <5> HIDE DEF a, b, c, d
        <5> QED BY <5>2, <5>4
      <4>4. Blind(h, 1) <= MaxBlind + PollThreshold + pendings[s]
        <5>1. Blind(h, 1) = Blind(q, 1) + Blind(w, 1) /\ Blind(q, 1) \in Nat
          BY <1>5
        <5>2. /\ Blind(w, 1) \in Nat /\ Blind(w, 1) <= 1 /\ MaxBlind \in Nat
              /\ PollThreshold \in Nat /\ pendings[s] \in Nat
          BY <1>2, <1>5, <2>1, CapacityFact
        <5>3. Blind(q, 1) < MaxBlind + PollThreshold + pendings[s]
          BY <4>1
        <5> DEFINE a == Blind(h, 1)
                   b == Blind(q, 1)
                   c == Blind(w, 1)
                   d == pendings[s]
        <5>4. /\ a = b + c /\ b \in Nat /\ c \in Nat /\ c <= 1 /\ d \in Nat
              /\ b < MaxBlind + PollThreshold + d
          BY <5>1, <5>2, <5>3
        <5>5. SUFFICES a <= MaxBlind + PollThreshold + d
          OBVIOUS
        <5> HIDE DEF a, b, c, d
        <5> QED BY <5>2, <5>4
      <4>5. ~ (\A n \in 1 .. Len(h) : ~ Kept(h[n]))
        <5>1. e \in 1 .. Len(h) /\ h[e] = q[e]
          BY <1>4, <2>2, <2>3
        <5> QED BY <4>1, <5>1
      <4>6. ASSUME NEW p \in 1 .. Len(h), Kept(h[p])
            PROVE  /\ "WriteSelective" \in Calls /\ pendings[s] > 0
                   /\ OwedFrom(batches, s, 1) = 0
                   /\ Blind(h, p + 1) <= MaxBlind + pendings[s] - 1
        <5>1. p \in 1 .. Len(q) /\ Kept(q[p])
          BY <3>1, <4>6
        <5>2. p = e
          BY <4>2, <5>1
        <5> QED BY <1>3, <4>3, <5>1, <5>2
      <4> QED BY <3>1, <4>4, <4>5, <4>6
    <3> QED BY <3>2, <3>3
  <2> QED BY <2>5, <2>6
<1> QED BY <1>8, <1>9

(* A post preserves the invariant. *)
LEMMA PostIInv ==
  ASSUME QpIInv, PostStep
  PROVE  QpIInv'
<1>1. ~ failed'
  BY PostResult DEF QpIInv
<1> QED BY <1>1, PostType, PostBalance, PostOwners, PostAhead, PostShape, PostBlind DEF QpIInv

-----------------------------------------------------------------------------
(* The initial state, the NIC, and steps that change nothing *)

(* What does not concern the NIC. *)
LEMMA NicIInv ==
  ASSUME QpIInv, QpTypeInv', UNCHANGED <<pendings, sq, todo, batches, failed>>
  PROVE  QpIInv'
<1>1. BalanceInv' /\ OwnerInv' /\ AheadInv' /\ MineInv'
  BY DEF QpIInv, BalanceInv, OwnerInv, AheadInv, MineInv, Extra
<1>2. NearInv' /\ BlindInv' /\ PendingInv' /\ ~ failed'
  BY DEF QpIInv, NearInv, BlindInv, PendingInv, NoneKept
<1>3. ShapeInv'
  BY DEF QpIInv, ShapeInv, WorkShape, OwnedShape, BlindShape, NoneKept
<1> QED BY <1>1, <1>2, <1>3 DEF QpIInv

(* The NIC preserves the invariant. *)
LEMMA NicStep ==
  ASSUME QpIInv, NEW s \in Servers, Nic(s)
  PROVE  QpIInv'
<1>1. /\ done' = [done EXCEPT ![s] = @ + 1] /\ done[s] < Len(sq[s])
      /\ UNCHANGED <<pendings, sq, todo, batches, failed>>
  BY DEF Nic
<1>2. /\ done \in [Servers -> Nat]
      /\ \A r \in Servers : done[r] \in 0 .. Len(sq[r]) /\ Len(sq[r]) \in Nat
  BY StateFacts DEF QpIInv
<1>3. done' \in [Servers -> Nat] /\ \A r \in Servers : done'[r] \in 0 .. Len(sq[r])
  BY <1>1, <1>2
<1>4. QpTypeInv'
  BY <1>1, <1>3 DEF QpIInv, QpTypeInv, QpTypeOK
<1> QED BY <1>1, <1>4, NicIInv

(* So does a step that changes nothing. *)
LEMMA StutterIInv ==
  ASSUME QpIInv, UNCHANGED qpVars
  PROVE  QpIInv'
<1>1. QpTypeInv'
  BY DEF QpIInv, QpTypeInv, QpTypeOK, qpVars
<1> QED BY <1>1, NicIInv DEF qpVars

(* At first there is nothing to be done. *)
LEMMA QpInitIInv ==
  ASSUME QpInit
  PROVE  QpIInv
<1>1. /\ pendings = [s \in Servers |-> 0] /\ sq = [s \in Servers |-> <<>>]
      /\ done = [s \in Servers |-> 0] /\ todo = <<>> /\ batches = <<>> /\ failed = FALSE
  BY DEF QpInit
<1>2. QpTypeInv
  <2>1. \A s \in Servers : sq[s] = <<>> /\ Len(sq[s]) = 0 /\ done[s] = 0
    BY <1>1
  <2>2. /\ pendings \in [Servers -> Nat] /\ done \in [Servers -> Nat]
        /\ sq \in [Servers -> Seq(Wrs)] /\ \A s \in Servers : done[s] \in 0 .. Len(sq[s])
    <3>1. <<>> \in Seq(Wrs)
      OBVIOUS
    <3> QED BY <1>1, <2>1, <3>1
  <2>3. /\ batches \in Seq([Servers -> 0 .. MaxBatch]) /\ Len(batches) = 0
        /\ todo \in Seq(Ops) /\ failed \in BOOLEAN
    <3>1. batches \in Seq([Servers -> 0 .. MaxBatch]) /\ Len(batches) = 0
      BY <1>1
    <3>2. todo \in Seq(Ops)
      BY <1>1
    <3>3. failed \in BOOLEAN
      BY <1>1
    <3> QED BY <3>1, <3>2, <3>3
  <2>4. Len(batches) <= MaxHops
    BY <2>3, CapacityFact
  <2> QED BY <2>2, <2>3, <2>4 DEF QpTypeInv, QpTypeOK
<1>3. \A s \in Servers : /\ sq[s] = <<>> /\ Len(sq[s]) = 0 /\ pendings[s] = 0
                         /\ sq[s] \in Seq(Wrs)
  BY <1>1
<1>4. <<>> \in Seq(Wrs) /\ Len(batches) = 0 /\ batches \in Seq(Batches) /\ Len(todo) = 0
      /\ todo \in Seq(Ops)
  BY <1>1
<1>5. \A s \in Servers : /\ Signals(sq[s], 1) = 0 /\ Blind(sq[s], 1) = 0
                         /\ OwedFrom(batches, s, 1) = 0
                         /\ ToPoll(todo, s) = 0 /\ ToBuild(todo, s) = 0 /\ ToSignal(todo, s) = 0
  <2> TAKE s \in Servers
  <2>1. Signals(sq[s], 1) = 0 /\ Blind(sq[s], 1) = 0
    <3>1. Signals(sq[s], 1) \in Nat /\ Signals(sq[s], 1) <= 0
          /\ Blind(sq[s], 1) \in Nat /\ Blind(sq[s], 1) <= 0
      BY <1>3, SignalsBound
    <3> QED BY <3>1
  <2>2. OwedFrom(batches, s, 1) = 0
    <3>1. 1 \in Int /\ 1 > Len(batches)
      BY <1>4
    <3> QED BY <1>4, <3>1, OwedFacts
  <2>3. ToPoll(todo, s) = 0 /\ ToBuild(todo, s) = 0 /\ ToSignal(todo, s) = 0
    <3>1. \A i \in 1 .. Len(todo) : FALSE
      BY <1>4
    <3> QED BY <1>4, <3>1, ScriptType
  <2> QED BY <2>1, <2>2, <2>3
<1>6. BalanceInv
  <2> SUFFICES ASSUME NEW s \in Servers
               PROVE  Signals(sq[s], 1) + ToSignal(todo, s)
                        = OwedFrom(batches, s, 1) + ToPoll(todo, s) + Extra(s)
    BY DEF BalanceInv
  <2>1. Extra(s) = 0
    BY <1>3 DEF Extra
  <2> QED BY <1>5, <2>1
<1>7. OwnerInv /\ AheadInv /\ MineInv /\ NearInv
  BY <1>3 DEF OwnerInv, AheadInv, MineInv, NearInv, Near
<1>8. ShapeInv
  BY <1>4 DEF ShapeInv
<1>9. BlindInv
  <2>1. 0 <= MaxBlind + KeptSlots
    BY CapacityFact
  <2> QED BY <1>3, <1>5, <2>1 DEF BlindInv
<1>10. PendingInv
  <2>1. \A s \in Servers : pendings[s] = 0 /\ OwedFrom(batches, s, 1) = 0 /\ ToBuild(todo, s) = 0
    BY <1>3, <1>5
  <2>2. 0 <= PollThreshold + 1 /\ PollThreshold + 1 # 0
    BY CapacityFact
  <2> SUFFICES ASSUME NEW s \in Servers
               PROVE  LET owed == OwedFrom(batches, s, 1) + ToPoll(todo, s)
                          build == ToBuild(todo, s)
                      IN  /\ \/ OwedFrom(batches, s, 1) > 0 /\ ToPoll(todo, s) = 0
                             \/ build > 0
                             => pendings[s] + build <= owed
                          /\ build > 0 => owed <= MaxHops * MaxBatch
                          /\ pendings[s] <= PollThreshold + 1
                          /\ pendings[s] = PollThreshold + 1 => ToPoll(todo, s) > 0
    BY DEF PendingInv
  <2>3. ~ (OwedFrom(batches, s, 1) > 0) /\ ~ (ToBuild(todo, s) > 0)
    BY <2>1
  <2>4. pendings[s] <= PollThreshold + 1 /\ pendings[s] # PollThreshold + 1
    BY <2>1, <2>2
  <2> QED BY <2>3, <2>4
<1> QED BY <1>1, <1>2, <1>6, <1>7, <1>8, <1>9, <1>10 DEF QpIInv

-----------------------------------------------------------------------------
(* A step that fills in a request *)

(* A list filled in by rc_post_doorbell never meets the threshold, so it is
   not polled for before it is posted. *)
LEMMA BuildResult ==
  ASSUME QpIInv, BuildStep
  PROVE  LET h == Head(todo)
             wr == [owner |-> h.owner, signal |-> TRUE]
             next == IF h.left = 1
                     THEN [do |-> "post", qp |-> h.qp, wrs |-> Append(h.wrs, wr)]
                     ELSE [h EXCEPT !.left = @ - 1, !.wrs = Append(@, wr)]
         IN  /\ todo # <<>> /\ h.do = "build" /\ h = todo[1] /\ h \in Ops /\ h \in Builds
             /\ h.qp \in Servers /\ todo' = <<next>> \o Tail(todo)
             /\ pendings' = [pendings EXCEPT ![h.qp] = @ + 1]
             /\ sq' = sq /\ done' = done /\ batches' = batches /\ failed' = failed
             /\ ToBuild(todo, h.qp) > 0
             /\ pendings[h.qp] + ToBuild(todo, h.qp)
                  <= OwedFrom(batches, h.qp, 1) + ToPoll(todo, h.qp)
             /\ OwedFrom(batches, h.qp, 1) + ToPoll(todo, h.qp) <= PollThreshold
<1> DEFINE h == Head(todo)
           s == h.qp
           wr == [owner |-> h.owner, signal |-> TRUE]
           next == IF h.left = 1
                   THEN [do |-> "post", qp |-> h.qp, wrs |-> Append(h.wrs, wr)]
                   ELSE [h EXCEPT !.left = @ - 1, !.wrs = Append(@, wr)]
           sweep == IF need_poll(h.qp) THEN <<Poll(h.qp, 1)>> ELSE <<>>
           owed == OwedFrom(batches, s, 1) + ToPoll(todo, s)
           build == ToBuild(todo, s)
<1>1. /\ todo # <<>> /\ h.do = "build" /\ h = todo[1] /\ h \in Ops /\ Tail(todo) \in Seq(Ops)
  BY HeadShape DEF BuildStep, Running
<1>2. h \in Builds /\ s \in Servers /\ h.left \in 1 .. MaxBatch
  BY <1>1, OpFacts
<1>3. /\ todo' = (sweep \o <<next>>) \o Tail(todo)
      /\ pendings' = [pendings EXCEPT ![h.qp] = @ + 1]
      /\ sq' = sq /\ done' = done /\ batches' = batches /\ failed' = failed
  BY DEF BuildStep
<1>4. /\ todo \in Seq(Ops) /\ batches \in Seq(Batches) /\ pendings[s] \in Nat
  BY <1>2, StateFacts DEF QpIInv
<1>5. BuildOf(s)[h] = h.left
  BY <1>1, ScriptWeights DEF IsWork
<1>6. build > 0 /\ build \in Nat
  <2>1. build = BuildOf(s)[h] + ToBuild(Tail(todo), s)
    BY <1>1, <1>4, ScriptHead
  <2>2. ToBuild(Tail(todo), s) \in Nat
    BY <1>1, ScriptType
  <2>3. h.left \in Nat /\ h.left > 0
    BY <1>2, MaxBatchFact
  <2> HIDE DEF build, h, s
  <2> QED BY <1>5, <2>1, <2>2, <2>3
<1>7. pendings[s] + build <= owed /\ owed <= MaxHops * MaxBatch
  BY <1>2, <1>6 DEF QpIInv, PendingInv
<1>8. owed <= PollThreshold /\ owed \in Nat
  <2>1. OwedFrom(batches, s, 1) \in Nat /\ ToPoll(todo, s) \in Nat
    <3>1. 1 \in Int
      OBVIOUS
    <3> QED BY <1>2, <1>4, <3>1, OwedFacts, ScriptType
  <2>2. owed \in Nat
    BY <2>1
  <2> HIDE DEF owed
  <2> QED BY <1>7, <2>2, CapacityFact
<1>9. ~ need_poll(h.qp)
  <2> DEFINE p == pendings[s]
  <2>1. p \in Nat /\ p + build <= owed
    BY <1>4, <1>7
  <2>2. SUFFICES ~ (p >= PollThreshold)
    BY DEF need_poll
  <2> HIDE DEF p, build, owed
  <2> QED BY <1>6, <1>8, <2>1, CapacityFact
<1>10. sweep \o <<next>> = <<next>>
  <2>1. sweep = <<>>
    BY <1>9
  <2> HIDE DEF sweep, next
  <2> QED BY <2>1
<1> QED BY <1>1, <1>2, <1>3, <1>6, <1>7, <1>8, <1>10

(* If every element counts, the count is the length. *)
LEMMA WeightOfAll ==
  ASSUME NEW S, NEW w \in [S -> 0 .. 1], NEW q \in Seq(S), NEW m \in Int, m = 1,
         \A n \in 1 .. Len(q) : w[q[n]] = 1
  PROVE  Weight(q, w, m) = Len(q)
<1> DEFINE T == {i \in 1 .. Len(q) : i >= m /\ w[q[i]] = 1}
<1>1. T = 1 .. Len(q)
  OBVIOUS
<1>2. Cardinality(T) = Weight(q, w, m)
  BY WeightOfOnes, Zenon
<1>3. Cardinality(1 .. Len(q)) = Len(q)
  BY Upto
<1> QED BY <1>1, <1>2, <1>3

(* The completions of a list whose requests are all signalled. *)
LEMMA AllSignalled ==
  ASSUME NEW q \in Seq(Wrs), \A n \in 1 .. Len(q) : q[n].signal
  PROVE  Signals(q, 1) = Len(q)
<1>1. \A n \in 1 .. Len(q) : SignalOf[q[n]] = 1
  BY RequestWeights
<1>2. 1 \in Int /\ SignalOf \in [Wrs -> 0 .. 1]
  BY RequestWeights
<1> QED BY <1>1, <1>2, WeightOfAll DEF Signals

(* A list that is being filled in, after an update of it. *)
LEMMA UpdatedList ==
  ASSUME NEW h, NEW a, NEW b, NEW c, NEW d, NEW y, NEW z,
         h = [do |-> "build", qp |-> a, owner |-> b, left |-> c, wrs |-> d]
  PROVE  [h EXCEPT !.left = y, !.wrs = z]
           = [do |-> "build", qp |-> a, owner |-> b, left |-> y, wrs |-> z]
<1> DEFINE n == [h EXCEPT !.left = y, !.wrs = z]
<1>1. DOMAIN h = {"do", "qp", "owner", "left", "wrs"}
  OBVIOUS
<1>2. n = [f \in DOMAIN h |-> IF f = "wrs" THEN z ELSE IF f = "left" THEN y ELSE h[f]]
  OBVIOUS
<1>3. n.do = "build" /\ n.qp = a /\ n.owner = b /\ n.left = y /\ n.wrs = z
  OBVIOUS
<1> QED BY <1>1, <1>2, <1>3

(* Filling in a request leaves everything to do but one request less to
   fill in; a full list is posted as it is. *)
LEMMA BuiltOp ==
  ASSUME NEW h \in Builds
  PROVE  LET wr == [owner |-> h.owner, signal |-> TRUE]
             next == IF h.left = 1
                     THEN [do |-> "post", qp |-> h.qp, wrs |-> Append(h.wrs, wr)]
                     ELSE [h EXCEPT !.left = @ - 1, !.wrs = Append(@, wr)]
         IN  /\ next \in Ops /\ next.qp = h.qp /\ next.do \in {"post", "build"}
             /\ OwnerOf(next) = h.owner /\ OwnerOf(h) = h.owner /\ h.owner # Nobody
             /\ WorkOf(h.qp)[next] = WorkOf(h.qp)[h]
             /\ BuildOf(h.qp)[h] = BuildOf(h.qp)[next] + 1
             /\ BuildOf(h.qp)[next] \in Nat
<1> DEFINE wr == [owner |-> h.owner, signal |-> TRUE]
           wrs == Append(h.wrs, wr)
           s == h.qp
<1>1. /\ h = [do |-> "build", qp |-> h.qp, owner |-> h.owner, left |-> h.left, wrs |-> h.wrs]
      /\ h.do = "build" /\ h.qp \in Servers /\ h.owner \in 0 .. MaxHops
      /\ h.left \in 1 .. MaxBatch /\ h.wrs \in Seq(Wrs)
      /\ h.left + Len(h.wrs) <= MaxBatch
      /\ \A r \in 1 .. Len(h.wrs) : h.wrs[r] = wr
  BY DEF Builds
<1>2. h \in Ops /\ MaxHops \in Nat /\ MaxBatch \in Nat
  BY CapacityFact, MaxBatchFact DEF Ops
<1>3. wr \in Wrs /\ wr.signal /\ wr.owner = h.owner /\ h.owner # Nobody
  BY <1>1, <1>2 DEF Wrs, Nobody
<1> HIDE DEF wr
<1>4. /\ wrs \in Seq(Wrs) /\ Len(wrs) = Len(h.wrs) + 1 /\ Len(h.wrs) \in Nat
      /\ \A r \in 1 .. Len(wrs) : wrs[r] = wr
  <2>1. wrs \in Seq(Wrs) /\ Len(wrs) = Len(h.wrs) + 1 /\ Len(h.wrs) \in Nat
    BY <1>1, <1>3
  <2>2. ASSUME NEW r \in 1 .. Len(wrs) PROVE wrs[r] = wr
    <3>1. r \in 1 .. Len(h.wrs) \/ r = Len(h.wrs) + 1
      BY <2>1
    <3>2. CASE r \in 1 .. Len(h.wrs)
      BY <1>1, <1>3, <3>2
    <3>3. CASE r = Len(h.wrs) + 1
      BY <1>1, <1>3, <3>3
    <3> QED BY <3>1, <3>2, <3>3
  <2> QED BY <2>1, <2>2
<1> HIDE DEF wrs
<1>5. CASE h.left = 1
  <2> DEFINE next == [do |-> "post", qp |-> h.qp, wrs |-> wrs]
  <2>1. Len(wrs) \in 1 .. MaxBatch
    BY <1>1, <1>2, <1>4, <1>5
  <2>2. 1 \in 1 .. Len(wrs) /\ Len(wrs) \in 1 .. Len(wrs)
    BY <2>1
  <2>3. next \in Posts
    <3>1. next \in [do : {"post"}, qp : Servers, wrs : Seq(Wrs)] /\ next.wrs = wrs
      BY <1>1, <1>4
    <3>2. /\ \A r \in 1 .. Len(wrs) : wrs[r].owner = wrs[1].owner
          /\ wrs[1].owner # Nobody /\ wrs[Len(wrs)].signal
      BY <1>3, <1>4, <2>2
    <3> HIDE DEF next
    <3> QED BY <2>1, <3>1, <3>2 DEF Posts
  <2>4. next \in Ops /\ next.do = "post" /\ next.qp = s /\ next.wrs = wrs
    BY <2>3 DEF Ops
  <2>5. OwnerOf(next) = h.owner
    BY <1>3, <1>4, <2>2, <2>4 DEF OwnerOf
  <2>6. Signals(wrs, 1) = Len(wrs)
    <3>1. \A n \in 1 .. Len(wrs) : wrs[n].signal
      BY <1>3, <1>4
    <3> QED BY <1>4, <3>1, AllSignalled
  <2>7. IsWork(next, s) /\ IsWork(h, s)
    BY <1>1, <2>4 DEF IsWork
  <2>8. WorkOf(s)[next] = Len(wrs) /\ BuildOf(s)[next] = 0
    BY <2>4, <2>6, <2>7, ScriptWeights
  <2>9. WorkOf(s)[h] = h.left + Len(h.wrs) /\ BuildOf(s)[h] = h.left
    BY <1>1, <1>2, <2>7, ScriptWeights
  <2>10. WorkOf(s)[next] = WorkOf(s)[h] /\ BuildOf(s)[h] = BuildOf(s)[next] + 1
    BY <1>4, <1>5, <2>8, <2>9
  <2>11. OwnerOf(h) = h.owner
    BY <1>1 DEF OwnerOf
  <2> QED BY <1>3, <1>5, <2>4, <2>5, <2>8, <2>10, <2>11 DEF wrs, wr
<1>6. CASE h.left # 1
  <2> DEFINE next == [h EXCEPT !.left = @ - 1, !.wrs = Append(@, wr)]
  <2>1. /\ next = [do |-> "build", qp |-> h.qp, owner |-> h.owner, left |-> h.left - 1, wrs |-> wrs]
    <3> DEFINE y == h.left - 1
    <3>1. next = [h EXCEPT !.left = y, !.wrs = wrs]
      BY DEF wrs
    <3> HIDE DEF next, y
    <3>2. next = [do |-> "build", qp |-> h.qp, owner |-> h.owner, left |-> y, wrs |-> wrs]
      BY <1>1, <3>1, UpdatedList
    <3> QED BY <3>2 DEF y
  <2>2. /\ next.do = "build" /\ next.qp = s /\ next.owner = h.owner /\ next.left = h.left - 1
        /\ next.wrs = wrs
    BY <2>1
  <2>3. /\ h.left - 1 \in 1 .. MaxBatch /\ (h.left - 1) + Len(wrs) <= MaxBatch
        /\ (h.left - 1) + Len(wrs) = h.left + Len(h.wrs)
    BY <1>1, <1>2, <1>4, <1>6
  <2>4. next \in Builds
    <3>1. next \in [do : {"build"}, qp : Servers, owner : 0 .. MaxHops, left : 1 .. MaxBatch,
                    wrs : Seq(Wrs)]
      BY <1>1, <1>4, <2>1, <2>3
    <3>2. \A r \in 1 .. Len(next.wrs) : next.wrs[r] = [owner |-> next.owner, signal |-> TRUE]
      BY <1>4, <2>2 DEF wr
    <3>3. next.left + Len(next.wrs) <= MaxBatch
      BY <2>2, <2>3
    <3> HIDE DEF next
    <3> QED BY <3>1, <3>2, <3>3 DEF Builds
  <2> HIDE DEF next
  <2>5. next \in Ops
    BY <2>4 DEF Ops
  <2>6. IsWork(next, s) /\ IsWork(h, s)
    BY <1>1, <2>2 DEF IsWork
  <2>7. WorkOf(s)[next] = (h.left - 1) + Len(wrs) /\ BuildOf(s)[next] = h.left - 1
    BY <2>2, <2>5, <2>6, ScriptWeights
  <2>8. WorkOf(s)[h] = h.left + Len(h.wrs) /\ BuildOf(s)[h] = h.left
    BY <1>1, <1>2, <2>6, ScriptWeights
  <2>9. /\ WorkOf(s)[next] = WorkOf(s)[h] /\ BuildOf(s)[h] = BuildOf(s)[next] + 1
        /\ BuildOf(s)[next] \in Nat
    BY <1>1, <1>2, <2>3, <2>7, <2>8
  <2>10. OwnerOf(h) = h.owner /\ OwnerOf(next) = h.owner
    BY <1>1, <2>2 DEF OwnerOf
  <2> QED BY <1>3, <1>6, <2>2, <2>5, <2>9, <2>10 DEF next, wr
<1> QED BY <1>5, <1>6

(* What filling in a request changes: the first operation only. *)
LEMMA BuildEffect ==
  ASSUME QpIInv, BuildStep
  PROVE  LET h == Head(todo)  s == h.qp
         IN  /\ todo' \in Seq(Ops) /\ Len(todo') = Len(todo) /\ Len(todo) \in Nat
             /\ s \in Servers
             /\ \A i \in 2 .. Len(todo) : todo'[i] = todo[i]
             /\ todo'[1].do \in {"post", "build"} /\ todo'[1].qp = s
             /\ todo[1].do = "build" /\ todo[1].qp = s
             /\ OwnerOf(todo'[1]) = OwnerOf(todo[1]) /\ OwnerOf(todo[1]) # Nobody
             /\ \A r \in Servers :
                  /\ ToPoll(todo', r) = ToPoll(todo, r)
                  /\ ToSignal(todo', r) = ToSignal(todo, r)
                  /\ ToBuild(todo, r) = ToBuild(todo', r) + (IF r = s THEN 1 ELSE 0)
                  /\ ToPoll(todo, r) \in Nat /\ ToBuild(todo', r) \in Nat
                  /\ ToSignal(todo, r) \in Nat
<1> DEFINE h == Head(todo)
           s == h.qp
           wr == [owner |-> h.owner, signal |-> TRUE]
           next == IF h.left = 1
                   THEN [do |-> "post", qp |-> h.qp, wrs |-> Append(h.wrs, wr)]
                   ELSE [h EXCEPT !.left = @ - 1, !.wrs = Append(@, wr)]
           t == Tail(todo)
<1>1. /\ todo # <<>> /\ h.do = "build" /\ h = todo[1] /\ h \in Ops /\ h \in Builds
      /\ s \in Servers /\ todo' = <<next>> \o t
  BY BuildResult
<1>2. /\ next \in Ops /\ next.qp = s /\ next.do \in {"post", "build"}
      /\ OwnerOf(next) = h.owner /\ OwnerOf(h) = h.owner /\ h.owner # Nobody
      /\ WorkOf(s)[next] = WorkOf(s)[h]
      /\ BuildOf(s)[h] = BuildOf(s)[next] + 1 /\ BuildOf(s)[next] \in Nat
  BY <1>1, BuiltOp
<1> HIDE DEF next
<1>3. todo \in Seq(Ops) /\ t \in Seq(Ops) /\ Len(t) = Len(todo) - 1 /\ Len(todo) \in Nat
      /\ \A i \in 1 .. Len(t) : t[i] = todo[i + 1]
  BY <1>1, HeadShape, StateFacts DEF QpIInv
<1>4. /\ todo' \in Seq(Ops) /\ Len(todo') = Len(todo) /\ todo'[1] = next
      /\ \A i \in 2 .. Len(todo) : todo'[i] = todo[i]
  <2>1. todo' \in Seq(Ops) /\ Len(todo') = Len(todo) /\ todo'[1] = next
    <3> HIDE DEF t
    <3> QED BY <1>1, <1>2, <1>3
  <2>2. ASSUME NEW i \in 2 .. Len(todo) PROVE todo'[i] = todo[i]
    <3>1. i - 1 \in 1 .. Len(t) /\ t[i - 1] = todo[(i - 1) + 1] /\ (i - 1) + 1 = i
      BY <1>3
    <3>2. (<<next>> \o t)[i] = t[i - 1]
      <4> HIDE DEF t
      <4> QED BY <1>3, <3>1
    <3> QED BY <1>1, <3>1, <3>2
  <2> QED BY <2>1, <2>2
<1>5. ASSUME NEW r \in Servers
      PROVE  /\ ToPoll(todo', r) = ToPoll(todo, r)
             /\ ToSignal(todo', r) = ToSignal(todo, r)
             /\ ToBuild(todo, r) = ToBuild(todo', r) + (IF r = s THEN 1 ELSE 0)
             /\ ToPoll(todo, r) \in Nat /\ ToBuild(todo', r) \in Nat
             /\ ToSignal(todo, r) \in Nat
  <2>1. /\ ToPoll(todo, r) = PollOf(r)[h] + ToPoll(t, r)
        /\ ToBuild(todo, r) = BuildOf(r)[h] + ToBuild(t, r)
        /\ ToSignal(todo, r) = WorkOf(r)[h] + ToSignal(t, r)
    BY <1>1, <1>3, ScriptHead
  <2>2. /\ ToPoll(<<next>> \o t, r) = PollOf(r)[next] + ToPoll(t, r)
        /\ ToBuild(<<next>> \o t, r) = BuildOf(r)[next] + ToBuild(t, r)
        /\ ToSignal(<<next>> \o t, r) = WorkOf(r)[next] + ToSignal(t, r)
    BY <1>2, <1>3, ScriptPush
  <2>3. /\ ToPoll(todo', r) = PollOf(r)[next] + ToPoll(t, r)
        /\ ToBuild(todo', r) = BuildOf(r)[next] + ToBuild(t, r)
        /\ ToSignal(todo', r) = WorkOf(r)[next] + ToSignal(t, r)
    BY <1>1, <2>2
  <2>4. /\ ToPoll(t, r) \in Nat /\ ToBuild(t, r) \in Nat /\ ToSignal(t, r) \in Nat
        /\ ToPoll(todo, r) \in Nat /\ ToSignal(todo, r) \in Nat
        /\ ToBuild(todo', r) \in Nat
    BY <1>3, <1>4, ScriptType
  <2>5. PollOf(r)[h] = 0 /\ PollOf(r)[next] = 0
    <3>1. ~ IsPoll(h, r) /\ ~ IsPoll(next, r)
      BY <1>1, <1>2 DEF IsPoll
    <3> QED BY <1>1, <1>2, <3>1, ScriptWeights
  <2>6. CASE r = s
    BY <1>2, <2>1, <2>3, <2>4, <2>5, <2>6
  <2>7. CASE r # s
    <3>1. ~ IsWork(h, r) /\ ~ IsWork(next, r)
      BY <1>2, <2>7 DEF IsWork
    <3>2. /\ WorkOf(r)[h] = 0 /\ WorkOf(r)[next] = 0 /\ BuildOf(r)[h] = 0 /\ BuildOf(r)[next] = 0
      BY <1>1, <1>2, <3>1, ScriptWeights
    <3> QED BY <2>1, <2>3, <2>4, <2>5, <2>7, <3>2
  <2> QED BY <2>6, <2>7
<1> QED BY <1>1, <1>2, <1>3, <1>4, <1>5

(* The types after it. *)
LEMMA BuildType ==
  ASSUME QpIInv, BuildStep
  PROVE  QpTypeInv'
<1>1. /\ \E s \in Servers : pendings' = [pendings EXCEPT ![s] = @ + 1]
      /\ sq' = sq /\ done' = done /\ batches' = batches /\ failed' = failed
  BY BuildResult
<1>2. pendings' \in [Servers -> Nat]
  BY <1>1, StateFacts DEF QpIInv
<1>3. todo' \in Seq(Ops)
  BY BuildEffect
<1> QED BY <1>1, <1>2, <1>3 DEF QpIInv, QpTypeInv, QpTypeOK

(* A request filled in is a completion to come as it was before. *)
LEMMA BuildBalance ==
  ASSUME QpIInv, BuildStep
  PROVE  BalanceInv' /\ PendingInv'
<1> DEFINE s == Head(todo).qp
<1>1. /\ s \in Servers /\ pendings' = [pendings EXCEPT ![s] = @ + 1]
      /\ sq' = sq /\ batches' = batches
      /\ ToBuild(todo, s) > 0
      /\ pendings[s] + ToBuild(todo, s) <= OwedFrom(batches, s, 1) + ToPoll(todo, s)
      /\ OwedFrom(batches, s, 1) + ToPoll(todo, s) <= PollThreshold
  BY BuildResult
<1>2. \A r \in Servers : /\ ToPoll(todo', r) = ToPoll(todo, r)
                         /\ ToSignal(todo', r) = ToSignal(todo, r)
                         /\ ToBuild(todo, r) = ToBuild(todo', r) + (IF r = s THEN 1 ELSE 0)
                         /\ ToPoll(todo, r) \in Nat /\ ToBuild(todo', r) \in Nat
  BY BuildEffect
<1>3. /\ pendings \in [Servers -> Nat]
      /\ \A r \in Servers : OwedFrom(batches, r, 1) \in Nat
  <2>1. 1 \in Int
    OBVIOUS
  <2> QED BY <2>1, StateFacts, OwedFacts DEF QpIInv
<1>4. /\ pendings'[s] = pendings[s] + 1 /\ pendings[s] \in Nat
      /\ \A r \in Servers : r # s => pendings'[r] = pendings[r]
  BY <1>1, <1>3
<1> HIDE DEF s
<1>5. BalanceInv'
  <2> SUFFICES ASSUME NEW r \in Servers
               PROVE  Signals(sq[r], 1) + ToSignal(todo, r)
                        = OwedFrom(batches, r, 1) + ToPoll(todo, r) + Extra(r)'
    BY <1>1, <1>2 DEF BalanceInv
  <2>1. Signals(sq[r], 1) + ToSignal(todo, r)
          = OwedFrom(batches, r, 1) + ToPoll(todo, r) + Extra(r)
    BY DEF QpIInv, BalanceInv
  <2>2. Extra(r)' = Extra(r)
    <3>1. CASE r # s
      BY <1>1, <1>2, <1>4, <3>1 DEF Extra
    <3>2. CASE r = s
      <4>1. ~ (OwedFrom(batches, s, 1) = 0 /\ ToPoll(todo, s) = 0)
        <5>1. ToBuild(todo, s) \in Nat
          BY <1>1, <1>2
        <5> QED BY <1>1, <1>4, <5>1
      <4> QED BY <1>1, <1>2, <3>2, <4>1 DEF Extra
    <3> QED BY <3>1, <3>2
  <2> QED BY <2>1, <2>2
<1>6. PendingInv'
  <2> SUFFICES ASSUME NEW r \in Servers
               PROVE  LET owed == OwedFrom(batches, r, 1) + ToPoll(todo, r)
                          build == ToBuild(todo', r)
                      IN  /\ \/ OwedFrom(batches, r, 1) > 0 /\ ToPoll(todo, r) = 0
                             \/ build > 0
                             => pendings'[r] + build <= owed
                          /\ build > 0 => owed <= MaxHops * MaxBatch
                          /\ pendings'[r] <= PollThreshold + 1
                          /\ pendings'[r] = PollThreshold + 1 => ToPoll(todo, r) > 0
    BY <1>1, <1>2 DEF PendingInv
  <2>1. CASE r # s
    <3>1. pendings'[r] = pendings[r] /\ ToBuild(todo', r) = ToBuild(todo, r)
      BY <1>2, <1>4, <2>1
    <3> QED BY <3>1 DEF QpIInv, PendingInv
  <2>2. CASE r = s
    <3> DEFINE x == OwedFrom(batches, s, 1)
               y == ToPoll(todo, s)
               b == ToBuild(todo, s)
               d == ToBuild(todo', s)
               p == pendings[s]
               v == pendings'[s]
    <3>1. /\ x \in Nat /\ y \in Nat /\ d \in Nat /\ p \in Nat /\ b = d + 1 /\ v = p + 1
          /\ p + b <= x + y /\ x + y <= PollThreshold
      BY <1>1, <1>2, <1>3, <1>4
    <3>2. x + y <= MaxHops * MaxBatch
      BY <1>1 DEF QpIInv, PendingInv
    <3>3. PollThreshold \in Nat
      BY CapacityFact
    <3> SUFFICES /\ v + d <= x + y /\ x + y <= MaxHops * MaxBatch
                 /\ v <= PollThreshold + 1 /\ v # PollThreshold + 1
      BY <2>2
    <3> HIDE DEF x, y, b, d, p, v
    <3>4. v + d <= x + y
      BY <3>1
    <3>5. v <= PollThreshold + 1 /\ v # PollThreshold + 1
      BY <3>1, <3>3
    <3> QED BY <3>2, <3>4, <3>5
  <2> QED BY <2>1, <2>2
<1> QED BY <1>5, <1>6

(* The send queues and the batches stay, and what is polled later. *)
LEMMA BuildRest ==
  ASSUME QpIInv, BuildStep
  PROVE  OwnerInv' /\ AheadInv' /\ MineInv' /\ NearInv' /\ BlindInv'
<1> DEFINE s == Head(todo).qp
<1>1. /\ s \in Servers /\ pendings' = [pendings EXCEPT ![s] = @ + 1]
      /\ sq' = sq /\ batches' = batches
  BY BuildResult
<1>2. \A r \in Servers : ToPoll(todo', r) = ToPoll(todo, r) /\ ToSignal(todo', r) = ToSignal(todo, r)
  BY BuildEffect
<1>3. OwnerInv' /\ AheadInv' /\ MineInv' /\ NearInv'
  BY <1>1, <1>2 DEF QpIInv, OwnerInv, AheadInv, MineInv, NearInv
<1>4. \A r \in Servers : pendings[r] \in Nat /\ sq[r] \in Seq(Wrs) /\ pendings'[r] \in {pendings[r], pendings[r] + 1}
  BY <1>1, StateFacts DEF QpIInv
<1>5. BlindInv'
  <2> SUFFICES ASSUME NEW r \in Servers
               PROVE  /\ NoneKept(r) => Blind(sq[r], 1) <= MaxBlind + KeptSlots
                      /\ \A p \in 1 .. Len(sq[r]) :
                           Kept(sq[r][p]) =>
                             /\ "WriteSelective" \in Calls /\ pendings'[r] > 0
                             /\ OwedFrom(batches, r, 1) = 0
                             /\ \A n \in 1 .. p - 1 : ~ sq[r][n].signal
                             /\ Blind(sq[r], p + 1) <= MaxBlind + pendings'[r] - 1
                             /\ Blind(sq[r], 1) <= MaxBlind + PollThreshold + pendings'[r]
    BY <1>1 DEF BlindInv, NoneKept
  <2>1. NoneKept(r) => Blind(sq[r], 1) <= MaxBlind + KeptSlots
    BY DEF QpIInv, BlindInv
  <2>2. ASSUME NEW p \in 1 .. Len(sq[r]), Kept(sq[r][p])
        PROVE  /\ "WriteSelective" \in Calls /\ pendings'[r] > 0
               /\ OwedFrom(batches, r, 1) = 0
               /\ \A n \in 1 .. p - 1 : ~ sq[r][n].signal
               /\ Blind(sq[r], p + 1) <= MaxBlind + pendings'[r] - 1
               /\ Blind(sq[r], 1) <= MaxBlind + PollThreshold + pendings'[r]
    <3>1. /\ "WriteSelective" \in Calls /\ pendings[r] > 0
          /\ OwedFrom(batches, r, 1) = 0
          /\ \A n \in 1 .. p - 1 : ~ sq[r][n].signal
          /\ Blind(sq[r], p + 1) <= MaxBlind + pendings[r] - 1
          /\ Blind(sq[r], 1) <= MaxBlind + PollThreshold + pendings[r]
      BY <2>2 DEF QpIInv, BlindInv
    <3>2. Blind(sq[r], p + 1) \in Nat /\ Blind(sq[r], 1) \in Nat
      <4>1. p + 1 \in Int /\ 1 \in Int
        OBVIOUS
      <4> QED BY <1>4, <4>1, RequestsType
    <3> DEFINE a == Blind(sq[r], p + 1)
               b == Blind(sq[r], 1)
               c == pendings[r]
               d == pendings'[r]
    <3>3. a <= MaxBlind + d - 1 /\ b <= MaxBlind + PollThreshold + d /\ d > 0
      <4>1. /\ a \in Nat /\ b \in Nat /\ c \in Nat /\ d \in {c, c + 1} /\ c > 0
            /\ a <= MaxBlind + c - 1 /\ b <= MaxBlind + PollThreshold + c
        BY <1>4, <3>1, <3>2
      <4> HIDE DEF a, b, c, d
      <4> QED BY <4>1, CapacityFact
    <3> QED BY <3>1, <3>3
  <2> QED BY <2>1, <2>2
<1> QED BY <1>3, <1>5

(* The list filled in is for the same owner. *)
LEMMA BuildShape ==
  ASSUME QpIInv, BuildStep
  PROVE  ShapeInv'
<1> DEFINE s == Head(todo).qp
<1>1. sq' = sq /\ batches' = batches
  BY BuildResult
<1>2. /\ Len(todo') = Len(todo) /\ Len(todo) \in Nat
      /\ \A i \in 2 .. Len(todo) : todo'[i] = todo[i]
      /\ todo'[1].do \in {"post", "build"} /\ todo'[1].qp = s
      /\ todo[1].do = "build" /\ todo[1].qp = s
      /\ OwnerOf(todo'[1]) = OwnerOf(todo[1]) /\ OwnerOf(todo[1]) # Nobody
  BY BuildEffect
<1> HIDE DEF s
<1>3. ASSUME NEW r \in Servers, NEW i \in 1 .. Len(todo)
      PROVE  /\ IsPoll(todo'[i], r) <=> IsPoll(todo[i], r)
             /\ IsWork(todo'[i], r) <=> IsWork(todo[i], r)
             /\ OwnerOf(todo'[i]) = OwnerOf(todo[i])
             /\ todo'[i].do = "build" => todo[i].do = "build"
  <2>1. CASE i = 1
    BY <1>2, <2>1 DEF IsPoll, IsWork
  <2>2. CASE i \in 2 .. Len(todo)
    BY <1>2, <2>2
  <2> QED BY <1>2, <2>1, <2>2
<1> SUFFICES ASSUME NEW r \in Servers, NEW i \in 1 .. Len(todo), IsWork(todo'[i], r)
             PROVE  WorkShape(i, r)'
  BY <1>2 DEF ShapeInv
<1>4. WorkShape(i, r)
  BY <1>3 DEF QpIInv, ShapeInv
<1>5. \A j \in 1 .. Len(todo') : IsWork(todo'[j], r) => j = i
  BY <1>2, <1>3, <1>4 DEF WorkShape
<1>6. ASSUME todo'[i].do = "build", NEW j \in 1 .. i - 1 PROVE ~ IsPoll(todo'[j], r)
  <2>1. j \in 1 .. Len(todo)
    OBVIOUS
  <2> QED BY <1>3, <1>4, <1>6, <2>1 DEF WorkShape
<1>7. ASSUME OwnerOf(todo'[i]) # Nobody PROVE OwnedShape(i, r, OwnerOf(todo[i]))'
  <2> DEFINE k == OwnerOf(todo[i])
  <2>1. OwnerOf(todo'[i]) = k /\ k # Nobody
    BY <1>3, <1>7
  <2>2. OwnedShape(i, r, k)
    BY <1>4, <2>1 DEF WorkShape
  <2> HIDE DEF k
  <2>3. /\ \A n \in 1 .. Len(sq'[r]) : sq'[r][n].owner # k
        /\ k # Mine => k = Len(batches') /\ batches'[k][r] > 0
    BY <1>1, <2>2 DEF OwnedShape
  <2>4. k = Mine => batches' = <<>> /\ \E j \in i + 1 .. Len(todo') : IsPoll(todo'[j], r)
    <3>1. \A j \in i + 1 .. Len(todo) : j \in 1 .. Len(todo)
      OBVIOUS
    <3> QED BY <1>1, <1>2, <1>3, <2>2, <3>1 DEF OwnedShape
  <2>5. (\E j \in 1 .. i - 1 : IsPoll(todo'[j], r)) \/ NoneKept(r)'
    <3>1. \A j \in 1 .. i - 1 : j \in 1 .. Len(todo)
      OBVIOUS
    <3> QED BY <1>1, <1>3, <2>2, <3>1 DEF OwnedShape, NoneKept
  <2> QED BY <2>1, <2>3, <2>4, <2>5 DEF OwnedShape
<1>8. OwnerOf(todo'[i]) # Nobody
  <2>1. SUFFICES ASSUME OwnerOf(todo[i]) = Nobody PROVE FALSE
    BY <1>3
  <2>2. i = 1
    BY <1>4, <2>1 DEF WorkShape, BlindShape
  <2> QED BY <1>2, <2>1, <2>2
<1> QED BY <1>5, <1>6, <1>7, <1>8 DEF WorkShape

(* Filling in a request preserves the invariant. *)
LEMMA BuildIInv ==
  ASSUME QpIInv, BuildStep
  PROVE  QpIInv'
<1>1. ~ failed'
  BY BuildResult DEF QpIInv
<1> QED BY <1>1, BuildType, BuildBalance, BuildRest, BuildShape DEF QpIInv

-----------------------------------------------------------------------------
(* A step that takes a completion *)

(* A set of naturals that is not empty has a least element.  If it had none,
   the naturals below all of T would be closed under successor and finite, and
   the successor would inject them into fewer. *)
LEMMA LeastNatural ==
  ASSUME NEW T \in SUBSET Nat, T # {}
  PROVE  \E x \in T : \A y \in T : x <= y
<1> SUFFICES ASSUME \A x \in T : \E y \in T : y < x
             PROVE  FALSE
  OBVIOUS
<1> DEFINE D == {n \in Nat : \A t \in T : n < t}
           f == [n \in D |-> n + 1]
<1>1. PICK t \in T : TRUE
  OBVIOUS
<1>2. 0 \in D
  OBVIOUS
<1>3. \A n \in D : n + 1 \in D
  OBVIOUS
<1>4. IsFiniteSet(D)
  BY <1>1, FS_BoundedSetOfNaturals, SMTT(30)
<1>5. f \in [D -> D \ {0}]
  BY <1>3
<1>6. \A a, b \in D : f[a] = f[b] => a = b
  OBVIOUS
<1>7. Cardinality(D \ {0}) = Cardinality(D) - 1 /\ IsFiniteSet(D \ {0})
  BY <1>2, <1>4, FS_RemoveElement
<1>8. Cardinality(D) \in Nat
  BY <1>4, FS_CardinalityType
<1> HIDE DEF D, f
<1>9. \E a, b \in D : a # b /\ f[a] = f[b]
  BY <1>4, <1>5, <1>7, <1>8, FS_PigeonHole
<1> QED BY <1>6, <1>9

(* The completion taken is that of the first signalled request of the queue
   pair, whoever posted it. *)
LEMMA PollResult ==
  ASSUME QpIInv, PollStep
  PROVE  LET h == Head(todo)  s == h.qp
         IN  /\ todo # <<>> /\ h.do = "poll" /\ h = todo[1] /\ h \in Ops /\ h \in PollOps
             /\ s \in Servers /\ h.left \in 1 .. MaxBatch
             /\ todo' = IF h.left = 1 THEN Tail(todo) ELSE <<Poll(s, h.left - 1)>> \o Tail(todo)
             /\ pendings' = [pendings EXCEPT ![s] = 0]
             /\ batches' = batches /\ failed' = failed
             /\ \E a \in 1 .. Len(sq[s]) :
                  /\ sq[s][a].signal /\ \A n \in 1 .. a - 1 : ~ sq[s][n].signal
                  /\ a <= done[s]
                  /\ sq' = [sq EXCEPT ![s] = SubSeq(@, a + 1, Len(@))]
                  /\ done' = [done EXCEPT ![s] = @ - a]
<1> DEFINE h == Head(todo)
           s == h.qp
           a == CHOOSE k \in Completed(s) : \A j \in Completed(s) : k <= j
<1>1. /\ todo # <<>> /\ h.do = "poll" /\ h = todo[1] /\ h \in Ops
  BY HeadShape DEF PollStep, Running
<1>2. h \in PollOps /\ s \in Servers /\ h.left \in 1 .. MaxBatch
  BY <1>1, OpFacts
<1>3. /\ Completed(s) # {}
      /\ sq' = [sq EXCEPT ![s] = SubSeq(@, a + 1, Len(@))]
      /\ done' = [done EXCEPT ![s] = @ - a]
      /\ todo' = IF h.left = 1 THEN Tail(todo) ELSE <<Poll(s, h.left - 1)>> \o Tail(todo)
      /\ pendings' = [pendings EXCEPT ![s] = 0]
      /\ batches' = batches /\ failed' = failed
  BY DEF PollStep
<1>4. done[s] \in 0 .. Len(sq[s]) /\ Len(sq[s]) \in Nat
  BY <1>2, StateFacts DEF QpIInv
<1>5. Completed(s) \in SUBSET Nat
  BY <1>4 DEF Completed
<1>6. a \in Completed(s) /\ \A j \in Completed(s) : a <= j
  <2>1. \E k \in Completed(s) : \A j \in Completed(s) : k <= j
    BY <1>3, <1>5, LeastNatural
  <2> QED BY <2>1
<1> HIDE DEF a, s, h
<1>7. a \in 1 .. done[s] /\ sq[s][a].signal
  BY <1>6 DEF Completed
<1>8. ASSUME NEW n \in 1 .. a - 1 PROVE ~ sq[s][n].signal
  <2>1. n \in 1 .. done[s] /\ ~ (a <= n)
    BY <1>4, <1>7
  <2> QED BY <1>6, <2>1 DEF Completed
<1>9. a \in 1 .. Len(sq[s]) /\ a <= done[s]
  BY <1>4, <1>7
<1>10. \E b \in 1 .. Len(sq[s]) :
          /\ sq[s][b].signal /\ \A n \in 1 .. b - 1 : ~ sq[s][n].signal
          /\ b <= done[s]
          /\ sq' = [sq EXCEPT ![s] = SubSeq(@, b + 1, Len(@))]
          /\ done' = [done EXCEPT ![s] = @ - b]
  BY <1>3, <1>7, <1>8, <1>9
<1> QED BY <1>1, <1>2, <1>3, <1>10 DEF h, s

(* What is left of the script: a shift by one, or one completion less. *)
LEMMA PollEffect ==
  ASSUME QpIInv, PollStep
  PROVE  LET s == Head(todo).qp
         IN  /\ todo' \in Seq(Ops) /\ Len(todo) \in Nat
             /\ \E a \in 0 .. 1 :
                  /\ Len(todo') = Len(todo) - a
                  /\ \A i \in 1 .. Len(todo') :
                       /\ i + a \in 1 .. Len(todo)
                       /\ \A r \in Servers :
                            /\ IsPoll(todo'[i], r) <=> IsPoll(todo[i + a], r)
                            /\ IsWork(todo'[i], r) <=> IsWork(todo[i + a], r)
                            /\ IsWork(todo'[i], r) => todo'[i] = todo[i + a]
             /\ \A r \in Servers :
                  /\ ToPoll(todo, r) = ToPoll(todo', r) + (IF r = s THEN 1 ELSE 0)
                  /\ ToBuild(todo', r) = ToBuild(todo, r)
                  /\ ToSignal(todo', r) = ToSignal(todo, r)
                  /\ ToPoll(todo', r) \in Nat /\ ToBuild(todo, r) \in Nat
                  /\ ToSignal(todo, r) \in Nat
<1> DEFINE h == Head(todo)
           s == h.qp
           t == Tail(todo)
           next == Poll(s, h.left - 1)
<1>1. /\ todo # <<>> /\ h.do = "poll" /\ h = todo[1] /\ h \in Ops
      /\ s \in Servers /\ h.left \in 1 .. MaxBatch
      /\ todo' = IF h.left = 1 THEN t ELSE <<next>> \o t
  BY PollResult
<1>2. todo \in Seq(Ops) /\ t \in Seq(Ops) /\ Len(t) = Len(todo) - 1 /\ Len(todo) \in Nat
      /\ \A i \in 1 .. Len(t) : t[i] = todo[i + 1] /\ i + 1 \in 1 .. Len(todo)
  BY <1>1, HeadShape, StateFacts DEF QpIInv
<1>3. ASSUME NEW r \in Servers
      PROVE  /\ ToPoll(todo, r) = (IF r = s THEN h.left ELSE 0) + ToPoll(t, r)
             /\ ToBuild(todo, r) = ToBuild(t, r)
             /\ ToSignal(todo, r) = ToSignal(t, r)
             /\ ToPoll(t, r) \in Nat /\ ToBuild(t, r) \in Nat /\ ToSignal(t, r) \in Nat
  <2>1. /\ ToPoll(todo, r) = PollOf(r)[h] + ToPoll(t, r)
        /\ ToBuild(todo, r) = BuildOf(r)[h] + ToBuild(t, r)
        /\ ToSignal(todo, r) = WorkOf(r)[h] + ToSignal(t, r)
    BY <1>1, <1>2, ScriptHead
  <2>2. /\ PollOf(r)[h] = (IF r = s THEN h.left ELSE 0) /\ BuildOf(r)[h] = 0 /\ WorkOf(r)[h] = 0
    BY <1>1, ScriptWeights DEF IsPoll, IsWork
  <2>3. ToPoll(t, r) \in Nat /\ ToBuild(t, r) \in Nat /\ ToSignal(t, r) \in Nat
    BY <1>2, ScriptType
  <2> QED BY <2>1, <2>2, <2>3
<1>4. MaxBatch \in Nat
  BY MaxBatchFact
<1> HIDE DEF h, s, t
<1>5. CASE h.left = 1
  <2>1. todo' = t
    BY <1>1, <1>5
  <2>2. \A r \in Servers :
          /\ ToPoll(todo, r) = ToPoll(todo', r) + (IF r = s THEN 1 ELSE 0)
          /\ ToBuild(todo', r) = ToBuild(todo, r)
          /\ ToSignal(todo', r) = ToSignal(todo, r)
          /\ ToPoll(todo', r) \in Nat /\ ToBuild(todo, r) \in Nat
          /\ ToSignal(todo, r) \in Nat
    <3> TAKE r \in Servers
    <3>1. ToPoll(todo', r) = ToPoll(t, r) /\ ToBuild(todo', r) = ToBuild(t, r)
          /\ ToSignal(todo', r) = ToSignal(t, r)
      BY <2>1
    <3>2. CASE r = s
      BY <1>3, <1>5, <3>1, <3>2
    <3>3. CASE r # s
      BY <1>3, <3>1, <3>3
    <3> QED BY <3>2, <3>3
  <2>3. \E a \in 0 .. 1 :
          /\ Len(todo') = Len(todo) - a
          /\ \A i \in 1 .. Len(todo') :
               /\ i + a \in 1 .. Len(todo)
               /\ \A r \in Servers :
                    /\ IsPoll(todo'[i], r) <=> IsPoll(todo[i + a], r)
                    /\ IsWork(todo'[i], r) <=> IsWork(todo[i + a], r)
                    /\ IsWork(todo'[i], r) => todo'[i] = todo[i + a]
    <3> WITNESS 1 \in 0 .. 1
    <3> QED BY <1>2, <2>1
  <2> QED BY <1>2, <2>1, <2>2, <2>3 DEF h, s
<1>6. CASE h.left # 1
  <2>1. todo' = <<next>> \o t /\ h.left - 1 \in 1 .. MaxBatch /\ h.left \in Nat
    BY <1>1, <1>4, <1>6
  <2>2. next \in Ops /\ next.do = "poll" /\ next.qp = s /\ next.left = h.left - 1
    BY <1>1, <2>1 DEF Poll, Ops, PollOps
  <2> HIDE DEF next
  <2>3. \A r \in Servers :
          /\ ToPoll(todo, r) = ToPoll(todo', r) + (IF r = s THEN 1 ELSE 0)
          /\ ToBuild(todo', r) = ToBuild(todo, r)
          /\ ToSignal(todo', r) = ToSignal(todo, r)
          /\ ToPoll(todo', r) \in Nat /\ ToBuild(todo, r) \in Nat
          /\ ToSignal(todo, r) \in Nat
    <3> TAKE r \in Servers
    <3>1. /\ ToPoll(<<next>> \o t, r) = PollOf(r)[next] + ToPoll(t, r)
          /\ ToBuild(<<next>> \o t, r) = BuildOf(r)[next] + ToBuild(t, r)
          /\ ToSignal(<<next>> \o t, r) = WorkOf(r)[next] + ToSignal(t, r)
      BY <1>2, <2>2, ScriptPush
    <3>2. /\ ToPoll(todo', r) = PollOf(r)[next] + ToPoll(t, r)
          /\ ToBuild(todo', r) = BuildOf(r)[next] + ToBuild(t, r)
          /\ ToSignal(todo', r) = WorkOf(r)[next] + ToSignal(t, r)
      BY <2>1, <3>1
    <3>3. /\ PollOf(r)[next] = (IF r = s THEN h.left - 1 ELSE 0)
          /\ BuildOf(r)[next] = 0 /\ WorkOf(r)[next] = 0
      BY <2>2, ScriptWeights DEF IsPoll, IsWork
    <3>4. CASE r = s
      BY <1>3, <2>1, <3>2, <3>3, <3>4
    <3>5. CASE r # s
      BY <1>3, <3>2, <3>3, <3>5
    <3> QED BY <3>4, <3>5
  <2>4. todo' \in Seq(Ops) /\ Len(todo') = Len(todo)
    BY <1>2, <2>1, <2>2
  <2>5. ASSUME NEW i \in 1 .. Len(todo'), NEW r \in Servers
        PROVE  /\ IsPoll(todo'[i], r) <=> IsPoll(todo[i], r)
               /\ IsWork(todo'[i], r) <=> IsWork(todo[i], r)
               /\ IsWork(todo'[i], r) => todo'[i] = todo[i]
    <3>1. CASE i = 1
      <4>1. todo'[1] = next
        BY <1>2, <2>1, <2>2
      <4> QED BY <1>1, <2>2, <3>1, <4>1 DEF IsPoll, IsWork, s
    <3>2. CASE i # 1
      <4>1. i - 1 \in 1 .. Len(t) /\ t[i - 1] = todo[(i - 1) + 1] /\ (i - 1) + 1 = i
        BY <1>2, <2>4, <3>2
      <4>2. (<<next>> \o t)[i] = t[i - 1]
        BY <1>2, <2>2, <4>1
      <4>3. todo'[i] = todo[i]
        BY <2>1, <4>1, <4>2
      <4> QED BY <4>3
    <3> QED BY <3>1, <3>2
  <2>6. \E a \in 0 .. 1 :
          /\ Len(todo') = Len(todo) - a
          /\ \A i \in 1 .. Len(todo') :
               /\ i + a \in 1 .. Len(todo)
               /\ \A r \in Servers :
                    /\ IsPoll(todo'[i], r) <=> IsPoll(todo[i + a], r)
                    /\ IsWork(todo'[i], r) <=> IsWork(todo[i + a], r)
                    /\ IsWork(todo'[i], r) => todo'[i] = todo[i + a]
    <3> WITNESS 0 \in 0 .. 1
    <3>1. Len(todo') = Len(todo) - 0
      BY <1>2, <2>4
    <3>2. \A i \in 1 .. Len(todo') : i + 0 = i /\ i \in 1 .. Len(todo)
      BY <2>4
    <3> QED BY <2>5, <3>1, <3>2
  <2> QED BY <1>2, <2>3, <2>4, <2>6 DEF h, s
<1> QED BY <1>5, <1>6

(* What the poll leaves of the queue pair polled. *)
LEMMA PollLeaves ==
  ASSUME QpIInv, PollStep
  PROVE  LET s == Head(todo).qp
         IN  /\ s \in Servers /\ sq[s] \in Seq(Wrs) /\ sq'[s] \in Seq(Wrs)
             /\ \A r \in Servers : r # s => sq'[r] = sq[r] /\ pendings'[r] = pendings[r]
             /\ pendings'[s] = 0 /\ batches' = batches
             /\ Signals(sq[s], 1) = Signals(sq'[s], 1) + 1
             /\ Signals(sq'[s], 1) \in Nat
             /\ Blind(sq'[s], 1) \in Nat /\ Blind(sq'[s], 1) <= Blind(sq[s], 1)
             /\ \E a \in 1 .. Len(sq[s]) :
                  /\ sq[s][a].signal /\ \A n \in 1 .. a - 1 : ~ sq[s][n].signal
                  /\ Len(sq'[s]) = Len(sq[s]) - a
                  /\ \A i \in 1 .. Len(sq'[s]) :
                       sq'[s][i] = sq[s][i + a] /\ i + a \in 1 .. Len(sq[s])
                  /\ \A m \in Nat : m >= 1 => /\ Signals(sq'[s], m) = Signals(sq[s], m + a)
                                             /\ Blind(sq'[s], m) = Blind(sq[s], m + a)
<1> DEFINE s == Head(todo).qp
           q == sq[s]
<1>1. /\ s \in Servers /\ pendings' = [pendings EXCEPT ![s] = 0] /\ batches' = batches
  BY PollResult
<1>2. PICK a \in 1 .. Len(q) :
        /\ q[a].signal /\ \A n \in 1 .. a - 1 : ~ q[n].signal
        /\ sq' = [sq EXCEPT ![s] = SubSeq(@, a + 1, Len(@))]
  BY PollResult
<1>3. sq \in [Servers -> Seq(Wrs)] /\ q \in Seq(Wrs) /\ pendings \in [Servers -> Nat]
  BY <1>1, StateFacts DEF QpIInv
<1>4. /\ sq'[s] = SubSeq(q, a + 1, Len(q))
      /\ \A r \in Servers : r # s => sq'[r] = sq[r]
  BY <1>1, <1>2, <1>3
<1>5. /\ pendings'[s] = 0 /\ \A r \in Servers : r # s => pendings'[r] = pendings[r]
  BY <1>1, <1>3
<1> DEFINE p == SubSeq(q, a + 1, Len(q))
<1>6. /\ p \in Seq(Wrs) /\ Len(p) = Len(q) - a
      /\ \A i \in 1 .. Len(p) : p[i] = q[i + a] /\ i + a \in 1 .. Len(q)
      /\ \A m \in Nat : m >= 1 => /\ Signals(p, m) = Signals(q, m + a)
                                 /\ Blind(p, m) = Blind(q, m + a)
      /\ Signals(q, 1) = Signals(p, 1) + 1
      /\ Blind(p, 1) <= Blind(q, 1)
  <2> HIDE DEF q
  <2> QED BY <1>2, <1>3, RequestsFreed
<1>7. sq'[s] = p
  BY <1>4
<1> HIDE DEF p, q, s
<1>8. Signals(p, 1) \in Nat /\ Blind(p, 1) \in Nat
  BY <1>6, SignalsBound
<1> QED BY <1>1, <1>2, <1>3, <1>4, <1>5, <1>6, <1>7, <1>8 DEF q, s

(* The types after a poll. *)
LEMMA PollType ==
  ASSUME QpIInv, PollStep
  PROVE  QpTypeInv'
<1> DEFINE s == Head(todo).qp
<1>1. /\ s \in Servers /\ pendings' = [pendings EXCEPT ![s] = 0] /\ batches' = batches
      /\ failed' = failed /\ todo' \in Seq(Ops)
  BY PollResult, PollEffect
<1>2. PICK a \in 1 .. Len(sq[s]) :
        /\ sq[s][a].signal /\ \A n \in 1 .. a - 1 : ~ sq[s][n].signal
        /\ a <= done[s]
        /\ sq' = [sq EXCEPT ![s] = SubSeq(@, a + 1, Len(@))]
        /\ done' = [done EXCEPT ![s] = @ - a]
  BY PollResult
<1>3. /\ sq \in [Servers -> Seq(Wrs)] /\ done \in [Servers -> Nat]
      /\ pendings \in [Servers -> Nat]
      /\ \A r \in Servers : done[r] \in 0 .. Len(sq[r]) /\ Len(sq[r]) \in Nat
  BY StateFacts DEF QpIInv
<1> HIDE DEF s
<1>4. pendings' \in [Servers -> Nat]
  BY <1>1, <1>3
<1>5. sq'[s] \in Seq(Wrs) /\ Len(sq'[s]) = Len(sq[s]) - a
  <2>1. sq'[s] = SubSeq(sq[s], a + 1, Len(sq[s])) /\ sq[s] \in Seq(Wrs)
    BY <1>1, <1>2, <1>3
  <2> QED BY <1>2, <2>1, RequestsFreed
<1>6. sq' \in [Servers -> Seq(Wrs)]
  <2>1. \A r \in Servers : sq'[r] \in Seq(Wrs)
    BY <1>1, <1>2, <1>3, <1>5
  <2>2. DOMAIN sq' = Servers /\ sq' = [r \in Servers |-> sq'[r]]
    BY <1>2, <1>3
  <2> QED BY <2>1, <2>2
<1>7. done' \in [Servers -> Nat] /\ \A r \in Servers : done'[r] \in 0 .. Len(sq'[r])
  <2>1. done[s] - a \in 0 .. Len(sq'[s])
    BY <1>1, <1>2, <1>3, <1>5
  <2>2. \A r \in Servers : done'[r] = (IF r = s THEN done[s] - a ELSE done[r])
    BY <1>2, <1>3
  <2>3. \A r \in Servers : r # s => sq'[r] = sq[r]
    BY <1>2, <1>3
  <2>4. \A r \in Servers : done'[r] \in 0 .. Len(sq'[r]) /\ done'[r] \in Nat
    <3> TAKE r \in Servers
    <3>1. CASE r = s
      BY <2>1, <2>2, <3>1
    <3>2. CASE r # s
      BY <1>3, <2>2, <2>3, <3>2
    <3> QED BY <3>1, <3>2
  <2>5. done' = [r \in Servers |-> done'[r]]
    BY <1>2, <1>3
  <2> QED BY <2>4, <2>5
<1> QED BY <1>1, <1>4, <1>6, <1>7 DEF QpIInv, QpTypeInv, QpTypeOK

(* A completion taken is one less to come and one less to take. *)
LEMMA PollBalance ==
  ASSUME QpIInv, PollStep
  PROVE  BalanceInv' /\ PendingInv'
<1>0. PICK s \in Servers : s = Head(todo).qp
  BY PollResult
<1>1. /\ s \in Servers
      /\ \A r \in Servers : r # s => sq'[r] = sq[r] /\ pendings'[r] = pendings[r]
      /\ pendings'[s] = 0 /\ batches' = batches
      /\ Signals(sq[s], 1) = Signals(sq'[s], 1) + 1 /\ Signals(sq'[s], 1) \in Nat
  BY <1>0, PollLeaves
<1>2. \A r \in Servers : /\ ToPoll(todo, r) = ToPoll(todo', r) + (IF r = s THEN 1 ELSE 0)
                         /\ ToBuild(todo', r) = ToBuild(todo, r)
                         /\ ToSignal(todo', r) = ToSignal(todo, r)
                         /\ ToPoll(todo', r) \in Nat /\ ToBuild(todo, r) \in Nat
                         /\ ToSignal(todo, r) \in Nat
  BY <1>0, PollEffect
<1>3. \A r \in Servers : OwedFrom(batches, r, 1) \in Nat
  <2>1. 1 \in Int
    OBVIOUS
  <2> QED BY <2>1, StateFacts, OwedFacts DEF QpIInv
<1>4. ToBuild(todo, s) = 0
  <2>1. /\ todo # <<>> /\ todo[1].do = "poll" /\ todo[1].qp = s
    BY <1>0, PollResult
  <2>2. todo \in Seq(Ops)
    BY StateFacts DEF QpIInv
  <2>3. ASSUME NEW i \in 1 .. Len(todo), IsWork(todo[i], s), todo[i].do = "build" PROVE FALSE
    <3>1. \A j \in 1 .. i - 1 : ~ IsPoll(todo[j], s)
      BY <1>1, <2>3 DEF QpIInv, ShapeInv, WorkShape
    <3>2. i # 1
      BY <2>1, <2>3
    <3>3. 1 \in 1 .. i - 1
      BY <3>2
    <3> QED BY <2>1, <3>1, <3>3 DEF IsPoll
  <2> QED BY <2>2, <2>3, ScriptType
<1>5. BalanceInv'
  <2> SUFFICES ASSUME NEW r \in Servers
               PROVE  Signals(sq'[r], 1) + ToSignal(todo, r)
                        = OwedFrom(batches, r, 1) + ToPoll(todo', r) + Extra(r)'
    BY <1>1, <1>2 DEF BalanceInv
  <2>1. Signals(sq[r], 1) + ToSignal(todo, r)
          = OwedFrom(batches, r, 1) + ToPoll(todo, r) + Extra(r)
    BY DEF QpIInv, BalanceInv
  <2>2. CASE r # s
    <3>1. ToPoll(todo', r) = ToPoll(todo, r)
      BY <1>2, <2>2
    <3>2. Extra(r)' = Extra(r)
      BY <1>1, <2>2, <3>1 DEF Extra
    <3> QED BY <1>1, <2>1, <2>2, <3>1, <3>2
  <2>3. CASE r = s
    <3>1. ToPoll(todo, s) = ToPoll(todo', s) + 1 /\ ToPoll(todo', s) \in Nat
      BY <1>1, <1>2
    <3>2. Extra(s) = 0
      BY <3>1 DEF Extra
    <3>3. Extra(s)' = 0
      BY <1>1 DEF Extra
    <3> QED BY <1>1, <1>2, <1>3, <2>1, <2>3, <3>1, <3>2, <3>3
  <2> QED BY <2>2, <2>3
<1>6. PendingInv'
  <2> SUFFICES ASSUME NEW r \in Servers
               PROVE  LET owed == OwedFrom(batches, r, 1) + ToPoll(todo', r)
                          build == ToBuild(todo, r)
                      IN  /\ \/ OwedFrom(batches, r, 1) > 0 /\ ToPoll(todo', r) = 0
                             \/ build > 0
                             => pendings'[r] + build <= owed
                          /\ build > 0 => owed <= MaxHops * MaxBatch
                          /\ pendings'[r] <= PollThreshold + 1
                          /\ pendings'[r] = PollThreshold + 1 => ToPoll(todo', r) > 0
    BY <1>1, <1>2 DEF PendingInv
  <2>1. CASE r # s
    <3>1. pendings'[r] = pendings[r] /\ ToPoll(todo', r) = ToPoll(todo, r)
      BY <1>1, <1>2, <2>1
    <3> QED BY <3>1 DEF QpIInv, PendingInv
  <2>2. CASE r = s
    <3>1. pendings'[r] = 0 /\ ToBuild(todo, r) = 0
      BY <1>1, <1>4, <2>2
    <3>2. 0 <= OwedFrom(batches, r, 1) + ToPoll(todo', r)
      BY <1>2, <1>3
    <3>3. 0 <= PollThreshold + 1 /\ 0 # PollThreshold + 1
      BY CapacityFact
    <3> QED BY <3>1, <3>2, <3>3
  <2> QED BY <2>1, <2>2
<1> QED BY <1>5, <1>6

(* The requests left are those further on in the queue. *)
LEMMA PollOwners ==
  ASSUME QpIInv, PollStep
  PROVE  OwnerInv' /\ AheadInv' /\ NearInv'
<1> DEFINE s == Head(todo).qp
           q == sq[s]
           p == sq'[s]
<1>1. /\ s \in Servers /\ q \in Seq(Wrs) /\ p \in Seq(Wrs)
      /\ \A r \in Servers : r # s => sq'[r] = sq[r]
      /\ batches' = batches
  BY PollLeaves
<1>2. PICK a \in 1 .. Len(q) :
        /\ Len(p) = Len(q) - a
        /\ \A i \in 1 .. Len(p) : p[i] = q[i + a] /\ i + a \in 1 .. Len(q)
        /\ \A m \in Nat : m >= 1 => Signals(p, m) = Signals(q, m + a)
  BY PollLeaves
<1>3. \A r \in Servers : ToSignal(todo', r) = ToSignal(todo, r)
  BY PollEffect
<1>4. OwnerInv'
  <2> SUFFICES ASSUME NEW r \in Servers, NEW i \in 1 .. Len(sq'[r]),
                      sq'[r][i].owner \in 1 .. MaxHops
               PROVE  sq'[r][i].owner <= Len(batches) /\ batches[sq'[r][i].owner][r] > 0
    BY <1>1 DEF OwnerInv
  <2>1. CASE r # s
    BY <1>1, <2>1 DEF QpIInv, OwnerInv
  <2>2. CASE r = s
    <3>1. p[i] = q[i + a] /\ i + a \in 1 .. Len(q)
      BY <1>2, <2>2
    <3>2. q[i + a].owner \in 1 .. MaxHops
      BY <2>2, <3>1
    <3>3. q[i + a].owner <= Len(batches) /\ batches[q[i + a].owner][s] > 0
      BY <1>1, <3>1, <3>2 DEF QpIInv, OwnerInv
    <3> QED BY <2>2, <3>1, <3>3
  <2> QED BY <2>1, <2>2
<1>5. AheadInv'
  <2> SUFFICES ASSUME NEW r \in Servers, NEW i \in 1 .. Len(sq'[r]),
                      sq'[r][i].owner \in 0 .. MaxHops
               PROVE  Signals(sq'[r], i) + ToSignal(todo, r)
                        > OwedFrom(batches, r, sq'[r][i].owner + 1)
    BY <1>1, <1>3 DEF AheadInv
  <2>1. CASE r # s
    BY <1>1, <2>1 DEF QpIInv, AheadInv
  <2>2. CASE r = s
    <3>1. p[i] = q[i + a] /\ i + a \in 1 .. Len(q) /\ i \in Nat /\ i >= 1
      <4>1. i \in 1 .. Len(p)
        BY <2>2
      <4>2. i \in Nat /\ i >= 1
        BY <4>1
      <4> QED BY <1>2, <4>1, <4>2
    <3>2. q[i + a].owner \in 0 .. MaxHops
      BY <2>2, <3>1
    <3>3. Signals(q, i + a) + ToSignal(todo, s) > OwedFrom(batches, s, q[i + a].owner + 1)
      BY <1>1, <3>1, <3>2 DEF QpIInv, AheadInv
    <3>4. Signals(p, i) = Signals(q, i + a)
      BY <1>2, <3>1
    <3> QED BY <2>2, <3>1, <3>3, <3>4
  <2> QED BY <2>1, <2>2
<1>6. NearInv'
  <2>1. Near(p)
    <3>1. Near(q)
      BY <1>1 DEF QpIInv, NearInv
    <3> SUFFICES ASSUME NEW i \in 1 .. Len(p), NEW j \in 1 .. Len(p),
                        p[i].owner = p[j].owner, p[i].owner # Nobody
                 PROVE  j - i < MaxBatch
      BY DEF Near
    <3>2. /\ p[i] = q[i + a] /\ i + a \in 1 .. Len(q)
          /\ p[j] = q[j + a] /\ j + a \in 1 .. Len(q)
      BY <1>2
    <3>3. (j + a) - (i + a) < MaxBatch
      BY <3>1, <3>2 DEF Near
    <3> QED BY <3>3
  <2> QED BY <1>1, <2>1 DEF QpIInv, NearInv
<1> QED BY <1>4, <1>5, <1>6

(* A request of the call's own would still be owed a completion. *)
LEMMA PollMine ==
  ASSUME QpIInv, PollStep
  PROVE  MineInv'
<1>0. PICK s \in Servers : s = Head(todo).qp
  BY PollResult
<1>1. /\ s \in Servers /\ \A r \in Servers : r # s => sq'[r] = sq[r]
      /\ batches' = batches /\ sq'[s] \in Seq(Wrs) /\ pendings'[s] = 0
  BY <1>0, PollLeaves
<1>2. \A r \in Servers : /\ ToPoll(todo, r) = ToPoll(todo', r) + (IF r = s THEN 1 ELSE 0)
                         /\ ToPoll(todo', r) \in Nat
                         /\ ToSignal(todo', r) = ToSignal(todo, r) /\ ToSignal(todo, r) \in Nat
  BY <1>0, PollEffect
<1> SUFFICES ASSUME NEW r \in Servers, ToPoll(todo', r) = 0, NEW i \in 1 .. Len(sq'[r]),
                    sq'[r][i].owner = Mine
             PROVE  FALSE
  BY DEF MineInv
<1>3. CASE r # s
  <2>1. ToPoll(todo, r) = 0
    BY <1>2, <1>3
  <2> QED BY <1>1, <1>3, <2>1 DEF QpIInv, MineInv
<1>4. CASE r = s
  <2> DEFINE p == sq'[s]
             x == ToSignal(todo, s)
             y == OwedFrom(batches, s, 1)
  <2>1. AheadInv' /\ BalanceInv'
    BY PollBalance, PollOwners
  <2>2. Signals(p, 1) + x = y + 0 + Extra(s)'
    BY <1>1, <1>2, <1>4, <2>1 DEF BalanceInv
  <2>3. Extra(s)' = 0
    BY <1>1 DEF Extra
  <2>4. Signals(p, i) + x > OwedFrom(batches, s, Mine + 1)
    <3>1. Mine \in 0 .. MaxHops
      BY CapacityFact DEF Mine
    <3> QED BY <1>1, <1>2, <1>4, <2>1, <3>1 DEF AheadInv
  <2>5. Mine + 1 = 1
    BY DEF Mine
  <2>6. Signals(p, i) <= Signals(p, 1)
    <3>1. i \in Int /\ 1 \in Int /\ 1 <= i
      OBVIOUS
    <3> QED BY <1>1, <3>1, RequestWeights, WeightMonotone DEF Signals
  <2>7. /\ Signals(p, i) \in Nat /\ Signals(p, 1) \in Nat /\ x \in Nat /\ y \in Nat
    <3>1. i \in Int /\ 1 \in Int
      OBVIOUS
    <3> QED BY <1>1, <1>2, <3>1, RequestsType, OwedFacts, StateFacts DEF QpIInv
  <2> DEFINE u == Signals(p, i)
             v == Signals(p, 1)
  <2>8. u + x > y /\ v + x = y + 0 + 0 /\ u <= v /\ u \in Nat /\ v \in Nat /\ x \in Nat /\ y \in Nat
    BY <2>2, <2>3, <2>4, <2>5, <2>6, <2>7
  <2> HIDE DEF u, v, x, y
  <2> QED BY <2>8
<1> QED BY <1>3, <1>4

(* A poll frees the slots up to the first signalled request; what selective
   writes have left is gone. *)
LEMMA PollNoneKept ==
  ASSUME QpIInv, PollStep
  PROVE  LET s == Head(todo).qp
         IN  (\A n \in 1 .. Len(sq'[s]) : ~ Kept(sq'[s][n])) /\ Blind(sq'[s], 1) <= MaxBlind + KeptSlots
<1> DEFINE s == Head(todo).qp
           q == sq[s]
           p == sq'[s]
<1>1. /\ s \in Servers /\ q \in Seq(Wrs) /\ Blind(p, 1) \in Nat /\ Blind(p, 1) <= Blind(q, 1)
  BY PollLeaves
<1>2. PICK a \in 1 .. Len(q) :
        /\ q[a].signal /\ \A n \in 1 .. a - 1 : ~ q[n].signal
        /\ Len(p) = Len(q) - a
        /\ \A i \in 1 .. Len(p) : p[i] = q[i + a] /\ i + a \in 1 .. Len(q)
        /\ \A m \in Nat : m >= 1 => Blind(p, m) = Blind(q, m + a)
  BY PollLeaves
<1>3. /\ NoneKept(s) => Blind(q, 1) <= MaxBlind + KeptSlots
      /\ \A n \in 1 .. Len(q) :
           Kept(q[n]) =>
             /\ "WriteSelective" \in Calls
             /\ \A m \in 1 .. n - 1 : ~ q[m].signal
             /\ Blind(q, n + 1) <= MaxBlind + pendings[s] - 1
  BY <1>1 DEF QpIInv, BlindInv
<1>4. pendings[s] \in Nat /\ pendings[s] <= PollThreshold + 1
  BY <1>1, StateFacts DEF QpIInv, PendingInv
<1>5. \A n \in 1 .. Len(p) : ~ Kept(p[n])
  <2> SUFFICES ASSUME NEW i \in 1 .. Len(p), Kept(p[i]) PROVE FALSE
    OBVIOUS
  <2>1. i + a \in 1 .. Len(q) /\ Kept(q[i + a])
    BY <1>2
  <2>2. a \in 1 .. (i + a) - 1
    OBVIOUS
  <2> QED BY <1>2, <1>3, <2>1, <2>2
<1>6. CASE NoneKept(s)
  <2> HIDE DEF p, q
  <2>1. Blind(q, 1) \in Nat
    BY <1>1, SignalsBound
  <2> QED BY <1>1, <1>3, <1>5, <1>6, <2>1, CapacityFact DEF p
<1>7. CASE ~ NoneKept(s)
  <2>1. PICK n \in 1 .. Len(q) : Kept(q[n])
    BY <1>7 DEF NoneKept
  <2> HIDE DEF p, q
  <2>2. n = a
    <3>1. q[n].signal /\ \A m \in 1 .. n - 1 : ~ q[m].signal
      BY <1>3, <2>1 DEF Kept
    <3>2. n \in Nat /\ a \in Nat /\ n >= 1 /\ a >= 1
      OBVIOUS
    <3>3. ~ (n < a)
      <4>1. n < a => n \in 1 .. a - 1
        BY <3>2
      <4>2. \A m \in 1 .. a - 1 : ~ q[m].signal
        BY <1>2
      <4> QED BY <3>1, <4>1, <4>2
    <3>4. ~ (a < n)
      <4>1. a < n => a \in 1 .. n - 1
        BY <3>2
      <4> QED BY <1>2, <3>1, <4>1
    <3> QED BY <3>2, <3>3, <3>4
  <2>3. Blind(p, 1) = Blind(q, a + 1)
    <3>1. Blind(p, 1) = Blind(q, 1 + a)
      BY <1>2
    <3>2. 1 + a = a + 1
      OBVIOUS
    <3> QED BY <3>1, <3>2
  <2>4. Blind(p, 1) <= MaxBlind + pendings[s] - 1 /\ "WriteSelective" \in Calls
    BY <1>3, <2>1, <2>2, <2>3
  <2>5. Blind(p, 1) <= MaxBlind + KeptSlots
    <3> DEFINE x == Blind(p, 1)
               y == pendings[s]
    <3>1. x \in Nat /\ y \in Nat /\ x <= MaxBlind + y - 1 /\ y <= PollThreshold + 1
      BY <1>1, <1>4, <2>4
    <3>2. KeptSlots = PollThreshold
      BY <2>4, CapacityFact
    <3> HIDE DEF x, y
    <3>3. x <= MaxBlind + PollThreshold
      BY <3>1, CapacityFact
    <3> QED BY <3>2, <3>3 DEF x
  <2> QED BY <1>5, <2>5 DEF p
<1> QED BY <1>6, <1>7

(* The slots of blind requests after a poll. *)
LEMMA PollBlind ==
  ASSUME QpIInv, PollStep
  PROVE  BlindInv'
<1>0. PICK s \in Servers : s = Head(todo).qp
  BY PollResult
<1>1. /\ \A r \in Servers : r # s => sq'[r] = sq[r] /\ pendings'[r] = pendings[r]
      /\ batches' = batches
  BY <1>0, PollLeaves
<1>2. /\ \A n \in 1 .. Len(sq'[s]) : ~ Kept(sq'[s][n])
      /\ Blind(sq'[s], 1) <= MaxBlind + KeptSlots
  BY <1>0, PollNoneKept
<1> SUFFICES ASSUME NEW r \in Servers
             PROVE  /\ (NoneKept(r) => Blind(sq[r], 1) <= MaxBlind + KeptSlots)'
                    /\ \A p \in 1 .. Len(sq'[r]) :
                         Kept(sq'[r][p]) =>
                           /\ "WriteSelective" \in Calls /\ pendings'[r] > 0
                           /\ OwedFrom(batches, r, 1) = 0
                           /\ \A n \in 1 .. p - 1 : ~ sq'[r][n].signal
                           /\ Blind(sq'[r], p + 1) <= MaxBlind + pendings'[r] - 1
                           /\ Blind(sq'[r], 1) <= MaxBlind + PollThreshold + pendings'[r]
  BY <1>1 DEF BlindInv
<1>3. CASE r = s
  BY <1>2, <1>3 DEF NoneKept
<1>4. CASE r # s
  BY <1>1, <1>4 DEF QpIInv, BlindInv, NoneKept
<1> QED BY <1>3, <1>4

(* The operations that are left after a poll. *)
LEMMA PollShape ==
  ASSUME QpIInv, PollStep
  PROVE  ShapeInv'
<1>0. PICK s \in Servers : s = Head(todo).qp
  BY PollResult
<1>1. /\ s \in Servers /\ \A r \in Servers : r # s => sq'[r] = sq[r]
      /\ batches' = batches
  BY <1>0, PollLeaves
<1>2. \A r \in Servers : \A k : (\A n \in 1 .. Len(sq[r]) : sq[r][n].owner # k)
                                => \A n \in 1 .. Len(sq'[r]) : sq'[r][n].owner # k
  <2> TAKE r \in Servers
  <2>1. CASE r # s
    BY <1>1, <2>1
  <2>2. CASE r = s
    <3>1. PICK b \in 1 .. Len(sq[s]) :
            \A i \in 1 .. Len(sq'[s]) : sq'[s][i] = sq[s][i + b] /\ i + b \in 1 .. Len(sq[s])
      BY <1>0, PollLeaves
    <3> QED BY <2>2, <3>1
  <2> QED BY <2>1, <2>2
<1>3. \A r \in Servers : NoneKept(r) \/ r = s => NoneKept(r)'
  <2>1. \A n \in 1 .. Len(sq'[s]) : ~ Kept(sq'[s][n])
    BY <1>0, PollNoneKept
  <2> QED BY <1>1, <2>1 DEF NoneKept
<1>4. PICK a \in 0 .. 1 :
        /\ Len(todo') = Len(todo) - a
        /\ \A i \in 1 .. Len(todo') :
             /\ i + a \in 1 .. Len(todo)
             /\ \A r \in Servers :
                  /\ IsPoll(todo'[i], r) <=> IsPoll(todo[i + a], r)
                  /\ IsWork(todo'[i], r) <=> IsWork(todo[i + a], r)
                  /\ IsWork(todo'[i], r) => todo'[i] = todo[i + a]
  BY <1>0, PollEffect
<1>5. Len(todo) \in Nat /\ todo[1].do = "poll" /\ todo[1].qp = s
  BY <1>0, PollEffect, PollResult
<1> SUFFICES ASSUME NEW r \in Servers, NEW i \in 1 .. Len(todo'), IsWork(todo'[i], r)
             PROVE  WorkShape(i, r)'
  BY DEF ShapeInv
<1>6. /\ i + a \in 1 .. Len(todo) /\ todo'[i] = todo[i + a] /\ IsWork(todo[i + a], r)
  BY <1>4
<1>7. WorkShape(i + a, r)
  BY <1>6 DEF QpIInv, ShapeInv
<1>8. \A j \in 1 .. Len(todo') : IsWork(todo'[j], r) => j = i
  <2> SUFFICES ASSUME NEW j \in 1 .. Len(todo'), IsWork(todo'[j], r) PROVE j = i
    OBVIOUS
  <2>1. j + a \in 1 .. Len(todo) /\ IsWork(todo[j + a], r)
    BY <1>4
  <2>2. j + a = i + a
    BY <1>7, <2>1 DEF WorkShape
  <2> QED BY <2>2
<1>9. ASSUME todo'[i].do = "build", NEW j \in 1 .. i - 1 PROVE ~ IsPoll(todo'[j], r)
  <2>1. j \in 1 .. Len(todo') /\ j + a \in 1 .. (i + a) - 1
    <3>1. Len(todo') \in Nat
      BY <1>4, <1>5
    <3> QED BY <3>1
  <2>2. ~ IsPoll(todo[j + a], r)
    BY <1>6, <1>7, <1>9, <2>1 DEF WorkShape
  <2> QED BY <1>4, <2>1, <2>2
<1>10. OwnerOf(todo[i + a]) # Nobody
  <2> SUFFICES ASSUME OwnerOf(todo[i + a]) = Nobody PROVE FALSE
    OBVIOUS
  <2>1. i + a = 1
    BY <1>7 DEF WorkShape, BlindShape
  <2> QED BY <1>5, <1>6, <2>1 DEF IsWork
<1>11. OwnedShape(i, r, OwnerOf(todo[i]))'
  <2> DEFINE k == OwnerOf(todo[i + a])
  <2>1. OwnerOf(todo'[i]) = k
    BY <1>6
  <2>2. OwnedShape(i + a, r, k)
    BY <1>7, <1>10 DEF WorkShape
  <2> HIDE DEF k
  <2>3. \A n \in 1 .. Len(sq'[r]) : sq'[r][n].owner # k
    BY <1>2, <2>2 DEF OwnedShape
  <2>4. k # Mine => k = Len(batches') /\ batches'[k][r] > 0
    BY <1>1, <2>2 DEF OwnedShape
  <2>5. k = Mine => batches' = <<>> /\ \E j \in i + 1 .. Len(todo') : IsPoll(todo'[j], r)
    <3> SUFFICES ASSUME k = Mine
                 PROVE  batches' = <<>> /\ \E j \in i + 1 .. Len(todo') : IsPoll(todo'[j], r)
      OBVIOUS
    <3>1. batches = <<>>
      BY <2>2 DEF OwnedShape
    <3>2. PICK j \in (i + a) + 1 .. Len(todo) : IsPoll(todo[j], r)
      BY <2>2 DEF OwnedShape
    <3>3. j - a \in i + 1 .. Len(todo') /\ j - a \in 1 .. Len(todo') /\ (j - a) + a = j
      BY <1>4, <1>5
    <3>4. IsPoll(todo'[j - a], r)
      BY <1>4, <3>2, <3>3
    <3> QED BY <1>1, <3>1, <3>3, <3>4
  <2>6. (\E j \in 1 .. i - 1 : IsPoll(todo'[j], r)) \/ NoneKept(r)'
    <3>1. CASE NoneKept(r) \/ r = s
      BY <1>3, <3>1
    <3>2. CASE r # s /\ ~ NoneKept(r)
      <4>1. PICK j \in 1 .. (i + a) - 1 : IsPoll(todo[j], r)
        BY <2>2, <3>2 DEF OwnedShape
      <4>2. j # 1
        BY <1>5, <3>2, <4>1 DEF IsPoll
      <4>3. j - a \in 1 .. i - 1 /\ j - a \in 1 .. Len(todo') /\ (j - a) + a = j
        <5>1. Len(todo') \in Nat
          BY <1>4, <1>5
        <5> QED BY <4>2, <5>1
      <4>4. IsPoll(todo'[j - a], r)
        BY <1>4, <4>1, <4>3
      <4> QED BY <4>3, <4>4
    <3> QED BY <3>1, <3>2
  <2> QED BY <2>1, <2>3, <2>4, <2>5, <2>6 DEF OwnedShape
<1>12. OwnerOf(todo'[i]) # Nobody
  BY <1>6, <1>10
<1> QED BY <1>8, <1>9, <1>11, <1>12 DEF WorkShape

(* A poll preserves the invariant. *)
LEMMA PollIInv ==
  ASSUME QpIInv, PollStep
  PROVE  QpIInv'
<1>1. ~ failed'
  BY PollResult DEF QpIInv
<1> QED BY <1>1, PollType, PollBalance, PollOwners, PollMine, PollBlind, PollShape DEF QpIInv

-----------------------------------------------------------------------------
(* Between calls *)

(* Between calls a queue pair delivers what its batches are owed. *)
LEMMA IdleFacts ==
  ASSUME QpIInv, todo = <<>>, NEW s \in Servers
  PROVE  /\ ToPoll(todo, s) = 0 /\ ToBuild(todo, s) = 0 /\ ToSignal(todo, s) = 0
         /\ OwedFrom(batches, s, 1) \in Nat /\ Signals(sq[s], 1) \in Nat
         /\ pendings[s] \in 0 .. PollThreshold
         /\ \A i \in 1 .. Len(sq[s]) : sq[s][i] \in Wrs /\ sq[s][i].owner # Mine
         /\ Signals(sq[s], 1)
              = OwedFrom(batches, s, 1)
                  + (IF pendings[s] > 0 /\ OwedFrom(batches, s, 1) = 0 THEN 1 ELSE 0)
         /\ OwedFrom(batches, s, 1) > 0 => pendings[s] <= OwedFrom(batches, s, 1)
         /\ pendings[s] = 0 \/ OwedFrom(batches, s, 1) > 0 => NoneKept(s)
<1>1. todo \in Seq(Ops) /\ batches \in Seq(Batches) /\ sq[s] \in Seq(Wrs) /\ pendings[s] \in Nat
  BY StateFacts DEF QpIInv
<1>2. ToPoll(todo, s) = 0 /\ ToBuild(todo, s) = 0 /\ ToSignal(todo, s) = 0
  <2>1. \A i \in 1 .. Len(todo) : FALSE
    OBVIOUS
  <2> QED BY <1>1, <2>1, ScriptType
<1>3. OwedFrom(batches, s, 1) \in Nat /\ Signals(sq[s], 1) \in Nat
  <2>1. 1 \in Int
    OBVIOUS
  <2> QED BY <1>1, <2>1, OwedFacts, SignalsBound
<1>4. pendings[s] \in 0 .. PollThreshold
  <2>1. pendings[s] <= PollThreshold + 1 /\ pendings[s] # PollThreshold + 1
    BY <1>2 DEF QpIInv, PendingInv
  <2> QED BY <1>1, <2>1, CapacityFact
<1>5. \A i \in 1 .. Len(sq[s]) : sq[s][i] \in Wrs /\ sq[s][i].owner # Mine
  BY <1>1, <1>2 DEF QpIInv, MineInv
<1>6. Signals(sq[s], 1)
        = OwedFrom(batches, s, 1)
            + (IF pendings[s] > 0 /\ OwedFrom(batches, s, 1) = 0 THEN 1 ELSE 0)
  <2>1. Signals(sq[s], 1) + ToSignal(todo, s)
          = OwedFrom(batches, s, 1) + ToPoll(todo, s) + Extra(s)
    BY DEF QpIInv, BalanceInv
  <2>2. Extra(s) = IF pendings[s] > 0 /\ OwedFrom(batches, s, 1) = 0 THEN 1 ELSE 0
    BY <1>2 DEF Extra
  <2> QED BY <1>2, <1>3, <2>1, <2>2
<1>7. OwedFrom(batches, s, 1) > 0 => pendings[s] <= OwedFrom(batches, s, 1)
  <2>1. OwedFrom(batches, s, 1) > 0
          => pendings[s] + ToBuild(todo, s) <= OwedFrom(batches, s, 1) + ToPoll(todo, s)
    BY <1>2 DEF QpIInv, PendingInv
  <2> QED BY <1>1, <1>2, <1>3, <2>1
<1>8. pendings[s] = 0 \/ OwedFrom(batches, s, 1) > 0 => NoneKept(s)
  BY <1>1, <1>3 DEF QpIInv, BlindInv, NoneKept
<1> QED BY <1>2, <1>3, <1>4, <1>5, <1>6, <1>7, <1>8

(* With no batch in flight every request on a queue pair is a blind one. *)
LEMMA QuietFacts ==
  ASSUME QpIInv, todo = <<>>, batches = <<>>, NEW s \in Servers
  PROVE  /\ OwedFrom(batches, s, 1) = 0
         /\ Signals(sq[s], 1) = IF pendings[s] > 0 THEN 1 ELSE 0
         /\ \A i \in 1 .. Len(sq[s]) : sq[s][i].owner = Nobody
<1>1. OwedFrom(batches, s, 1) = 0
  <2>1. batches \in Seq(Batches) /\ 1 \in Int /\ 1 > Len(batches)
    BY StateFacts DEF QpIInv
  <2> QED BY <2>1, OwedFacts
<1>2. ASSUME NEW i \in 1 .. Len(sq[s]) PROVE sq[s][i].owner = Nobody
  <2>1. sq[s][i].owner \in 0 .. MaxHops + 1 /\ sq[s][i].owner # 0
    BY IdleFacts DEF Wrs, Mine
  <2>2. sq[s][i].owner \in 1 .. MaxHops => sq[s][i].owner <= Len(batches)
    BY DEF QpIInv, OwnerInv
  <2>3. Len(batches) = 0 /\ MaxHops \in Nat
    BY CapacityFact
  <2> QED BY <2>1, <2>2, <2>3 DEF Nobody
<1> QED BY <1>1, <1>2, IdleFacts

(* What a call that returns when it has what it asked for does on s. *)
SyncShape(t, s) ==
  \/ \A i \in 1 .. Len(t) : ~ IsWork(t[i], s) /\ ~ IsPoll(t[i], s)
  \/ /\ ToPoll(t, s) > 0
     /\ ToPoll(t, s) = ToSignal(t, s) + (IF pendings[s] > 0 THEN 1 ELSE 0)
     /\ ToBuild(t, s) > 0 =>
          /\ pendings[s] = 0
          /\ ToBuild(t, s) <= ToPoll(t, s) /\ ToPoll(t, s) <= MaxBatch
     /\ \A i \in 1 .. Len(t) :
          IsWork(t[i], s) =>
            /\ OwnerOf(t[i]) = Mine
            /\ \A j \in 1 .. Len(t) : IsWork(t[j], s) => j = i
            /\ t[i].do = "build" => \A j \in 1 .. i - 1 : ~ IsPoll(t[j], s)
            /\ \E j \in i + 1 .. Len(t) : IsPoll(t[j], s)
            /\ pendings[s] = 0 \/ \E j \in 1 .. i - 1 : IsPoll(t[j], s)

(* A call whose script does so on every server keeps the invariant. *)
LEMMA SyncIInv ==
  ASSUME QpIInv, todo = <<>>, batches = <<>>, NEW t \in Seq(Ops), todo' = t,
         UNCHANGED <<pendings, sq, batches, done, failed>>,
         \A s \in Servers : SyncShape(t, s)
  PROVE  QpIInv'
<1>1. QpTypeInv' /\ OwnerInv' /\ NearInv' /\ BlindInv' /\ ~ failed'
  <2>1. QpTypeInv'
    BY DEF QpIInv, QpTypeInv, QpTypeOK
  <2>2. OwnerInv' /\ NearInv' /\ ~ failed'
    BY DEF QpIInv, OwnerInv, NearInv
  <2>3. BlindInv'
    BY DEF QpIInv, BlindInv, NoneKept
  <2> QED BY <2>1, <2>2, <2>3
<1>2. ASSUME NEW s \in Servers
      PROVE  /\ OwedFrom(batches, s, 1) = 0 /\ pendings[s] \in 0 .. PollThreshold
             /\ Signals(sq[s], 1) = IF pendings[s] > 0 THEN 1 ELSE 0
             /\ \A i \in 1 .. Len(sq[s]) : sq[s][i].owner = Nobody
             /\ pendings[s] = 0 => NoneKept(s)
             /\ ToPoll(t, s) \in Nat /\ ToBuild(t, s) \in Nat /\ ToSignal(t, s) \in Nat
             /\ ToPoll(todo, s) = 0
  BY IdleFacts, QuietFacts, ScriptType
<1>3. Nobody # Mine /\ Nobody \notin 0 .. MaxHops
  BY CapacityFact DEF Nobody, Mine
<1>4. AheadInv' /\ MineInv'
  BY <1>2, <1>3 DEF AheadInv, MineInv
<1>5. ASSUME NEW s \in Servers
      PROVE  \/ /\ ToPoll(t, s) = 0 /\ ToBuild(t, s) = 0 /\ ToSignal(t, s) = 0
             \/ /\ ToPoll(t, s) > 0
                /\ ToPoll(t, s) = ToSignal(t, s) + (IF pendings[s] > 0 THEN 1 ELSE 0)
                /\ ToBuild(t, s) > 0 =>
                     /\ pendings[s] = 0
                     /\ ToBuild(t, s) <= ToPoll(t, s) /\ ToPoll(t, s) <= MaxBatch
  <2>1. CASE \A i \in 1 .. Len(t) : ~ IsWork(t[i], s) /\ ~ IsPoll(t[i], s)
    BY <2>1, ScriptType
  <2> QED BY <2>1 DEF SyncShape
<1>6. BalanceInv'
  <2> SUFFICES ASSUME NEW s \in Servers
               PROVE  Signals(sq[s], 1) + ToSignal(t, s)
                        = OwedFrom(batches, s, 1) + ToPoll(t, s) + Extra(s)'
    BY DEF BalanceInv
  <2>1. Extra(s)' = IF pendings[s] > 0 /\ ToPoll(t, s) = 0 THEN 1 ELSE 0
    BY <1>2 DEF Extra
  <2> QED BY <1>2, <1>5, <2>1
<1>7. PendingInv'
  <2> SUFFICES ASSUME NEW s \in Servers
               PROVE  LET owed == OwedFrom(batches, s, 1) + ToPoll(t, s)
                          build == ToBuild(t, s)
                      IN  /\ \/ OwedFrom(batches, s, 1) > 0 /\ ToPoll(t, s) = 0
                             \/ build > 0
                             => pendings[s] + build <= owed
                          /\ build > 0 => owed <= MaxHops * MaxBatch
                          /\ pendings[s] <= PollThreshold + 1
                          /\ pendings[s] = PollThreshold + 1 => ToPoll(t, s) > 0
    BY DEF PendingInv
  <2> DEFINE a == ToPoll(t, s)
             b == ToBuild(t, s)
             p == pendings[s]
             m == MaxHops * MaxBatch
  <2>1. /\ a \in Nat /\ b \in Nat /\ p \in Nat /\ p <= PollThreshold /\ m \in Nat
        /\ MaxBatch <= m /\ MaxBatch \in Nat /\ PollThreshold \in Nat
        /\ b > 0 => p = 0 /\ b <= a /\ a <= MaxBatch
    BY <1>2, <1>5, CapacityFact, MaxBatchFact
  <2>2. OwedFrom(batches, s, 1) = 0
    BY <1>2
  <2> SUFFICES /\ b > 0 => p + b <= 0 + a
               /\ b > 0 => 0 + a <= m
               /\ p <= PollThreshold + 1 /\ p # PollThreshold + 1
    BY <2>2
  <2> HIDE DEF a, b, p, m
  <2> QED BY <2>1
<1>8. ShapeInv'
  <2> SUFFICES ASSUME NEW s \in Servers, NEW i \in 1 .. Len(t), IsWork(t[i], s)
               PROVE  WorkShape(i, s)'
    BY DEF ShapeInv
  <2>1. /\ OwnerOf(t[i]) = Mine
        /\ \A j \in 1 .. Len(t) : IsWork(t[j], s) => j = i
        /\ t[i].do = "build" => \A j \in 1 .. i - 1 : ~ IsPoll(t[j], s)
        /\ \E j \in i + 1 .. Len(t) : IsPoll(t[j], s)
        /\ pendings[s] = 0 \/ \E j \in 1 .. i - 1 : IsPoll(t[j], s)
    BY DEF SyncShape
  <2>2. OwnedShape(i, s, Mine)'
    <3>1. \A n \in 1 .. Len(sq'[s]) : sq'[s][n].owner # Mine
      BY <1>2, <1>3
    <3>2. (\E j \in 1 .. i - 1 : IsPoll(todo'[j], s)) \/ NoneKept(s)'
      BY <1>2, <2>1 DEF NoneKept
    <3>3. batches' = <<>> /\ \E j \in i + 1 .. Len(todo') : IsPoll(todo'[j], s)
      BY <2>1
    <3> QED BY <3>1, <3>2, <3>3 DEF OwnedShape
  <2> QED BY <1>3, <2>1, <2>2 DEF WorkShape
<1> QED BY <1>1, <1>4, <1>6, <1>7, <1>8 DEF QpIInv

-----------------------------------------------------------------------------
(* What the calls are made of *)

(* A poll as an operation of a script. *)
LEMMA PollOp ==
  ASSUME NEW s \in Servers, NEW n \in 1 .. MaxBatch
  PROVE  /\ Poll(s, n) \in Ops /\ Poll(s, n).do = "poll" /\ Poll(s, n).qp = s
         /\ \A r : /\ PollOf(r)[Poll(s, n)] = IF r = s THEN n ELSE 0
                   /\ BuildOf(r)[Poll(s, n)] = 0 /\ WorkOf(r)[Poll(s, n)] = 0
<1> DEFINE o == Poll(s, n)
<1>1. o \in PollOps /\ o.do = "poll" /\ o.qp = s /\ o.left = n
  BY DEF Poll, PollOps
<1> HIDE DEF o
<1>2. o \in Ops
  BY <1>1 DEF Ops
<1>3. \A r : /\ PollOf(r)[o] = (IF r = s THEN n ELSE 0)
             /\ BuildOf(r)[o] = 0 /\ WorkOf(r)[o] = 0
  BY <1>1, <1>2, ScriptWeights DEF IsPoll, IsWork
<1> QED BY <1>1, <1>2, <1>3 DEF o

(* A list of requests as an operation of a script. *)
LEMMA PostOp ==
  ASSUME NEW s \in Servers, NEW k \in 0 .. MaxHops, NEW f,
         NEW n \in 1 .. MaxBatch, f \in [1 .. n -> BOOLEAN], f[n]
  PROVE  LET o == Post(s, k, f)
         IN  /\ o \in Ops /\ o.do = "post" /\ o.qp = s /\ OwnerOf(o) = k /\ k # Nobody
             /\ \A r : /\ PollOf(r)[o] = 0 /\ BuildOf(r)[o] = 0
                       /\ r # s => WorkOf(r)[o] = 0
             /\ (\A i \in 1 .. n : f[i]) => WorkOf(s)[o] = n
             /\ (\A i \in 1 .. n : f[i] <=> i = n) => WorkOf(s)[o] = 1
<1> DEFINE o == Post(s, k, f)
           w == [i \in 1 .. n |-> [owner |-> k, signal |-> f[i]]]
<1>1. MaxHops \in Nat /\ MaxBatch \in Nat /\ n \in Nat /\ n >= 1
  BY CapacityFact, MaxBatchFact
<1>2. k # Nobody /\ k \in 0 .. MaxHops + 1
  BY <1>1 DEF Nobody
<1>3. /\ w \in Seq(Wrs) /\ Len(w) = n
      /\ \A i \in 1 .. n : w[i].owner = k /\ w[i].signal = f[i]
  <2>1. \A i \in 1 .. n : [owner |-> k, signal |-> f[i]] \in Wrs
    BY <1>2 DEF Wrs
  <2> QED BY <1>1, <2>1
<1>4. o = [do |-> "post", qp |-> s, wrs |-> w]
  BY DEF Post
<1>5. o.do = "post" /\ o.qp = s /\ o.wrs = w
  BY <1>4
<1> HIDE DEF w
<1>6. 1 \in 1 .. n /\ n \in 1 .. n
  BY <1>1
<1>7. o \in Posts
  <2>1. o \in [do : {"post"}, qp : Servers, wrs : Seq(Wrs)]
    BY <1>3, <1>4
  <2>2. /\ Len(w) \in 1 .. MaxBatch
        /\ \A r \in 1 .. Len(w) : w[r].owner = w[1].owner
        /\ w[1].owner = k /\ w[Len(w)].signal
    BY <1>1, <1>3, <1>6
  <2> HIDE DEF o
  <2> QED BY <1>2, <1>5, <2>1, <2>2 DEF Posts
<1> HIDE DEF o
<1>8. o \in Ops
  BY <1>7 DEF Ops
<1>9. OwnerOf(o) = k
  BY <1>3, <1>5, <1>6 DEF OwnerOf
<1>10. /\ \A r : PollOf(r)[o] = 0 /\ BuildOf(r)[o] = 0 /\ (r # s => WorkOf(r)[o] = 0)
       /\ WorkOf(s)[o] = Signals(w, 1)
  BY <1>5, <1>8, ScriptWeights DEF IsPoll, IsWork
<1>11. ASSUME \A i \in 1 .. n : f[i] PROVE Signals(w, 1) = n
  <2>1. \A i \in 1 .. Len(w) : w[i].signal
    BY <1>3, <1>11
  <2> QED BY <1>3, <2>1, AllSignalled
<1>12. ASSUME \A i \in 1 .. n : f[i] <=> i = n PROVE Signals(w, 1) = 1
  <2>1. \A i \in 1 .. Len(w) : w[i] \in Wrs /\ (w[i].signal <=> i = n)
    BY <1>3, <1>12
  <2>2. \A i \in 1 .. Len(w) : i # n => SignalOf[w[i]] = 0
    BY <2>1, RequestWeights
  <2>3. n \in 1 .. Len(w) /\ SignalOf[w[n]] = 1 /\ 1 \in Int /\ n >= 1
    BY <1>1, <1>3, <1>6, <2>1, RequestWeights
  <2> QED BY <1>3, <2>2, <2>3, RequestWeights, WeightSingle DEF Signals
<1> QED BY <1>2, <1>5, <1>8, <1>9, <1>10, <1>11, <1>12 DEF o

(* A list of one request. *)
LEMMA OnePost ==
  ASSUME NEW s \in Servers, NEW k \in 0 .. MaxHops + 1, NEW b \in BOOLEAN, k # Nobody => b
  PROVE  LET o == Post(s, k, <<b>>)
         IN  /\ o \in Ops /\ o.do = "post" /\ o.qp = s /\ OwnerOf(o) = k
             /\ o.wrs[1] = [owner |-> k, signal |-> b]
             /\ \A r : /\ PollOf(r)[o] = 0 /\ BuildOf(r)[o] = 0
                       /\ WorkOf(r)[o] = IF r = s /\ b THEN 1 ELSE 0
<1> DEFINE o == Post(s, k, <<b>>)
           x == [owner |-> k, signal |-> b]
           w == <<x>>
<1>1. MaxHops \in Nat /\ MaxBatch \in Nat /\ MaxBatch >= 1
  BY CapacityFact, MaxBatchFact
<1>2. x \in Wrs
  BY DEF Wrs
<1>3. o = [do |-> "post", qp |-> s, wrs |-> w]
  <2>1. [i \in DOMAIN <<b>> |-> [owner |-> k, signal |-> <<b>>[i]]] = w
    OBVIOUS
  <2> HIDE DEF w
  <2> QED BY <2>1 DEF Post
<1>4. o.do = "post" /\ o.qp = s /\ o.wrs = w
  BY <1>3
<1>5. x.owner = k /\ x.signal = b
  OBVIOUS
<1>6. w \in Seq(Wrs) /\ Len(w) = 1 /\ w[1] = x
  <2> HIDE DEF x
  <2> QED BY <1>2
<1> HIDE DEF w
<1>7. o \in Posts
  <2>1. o \in [do : {"post"}, qp : Servers, wrs : Seq(Wrs)]
    BY <1>3, <1>6
  <2>2. /\ Len(w) \in 1 .. MaxBatch /\ \A r \in 1 .. Len(w) : w[r].owner = w[1].owner
        /\ (w[1].owner # Nobody => w[Len(w)].signal)
    BY <1>1, <1>5, <1>6
  <2> HIDE DEF o, x
  <2> QED BY <1>4, <1>6, <2>1, <2>2 DEF Posts
<1> HIDE DEF o, x
<1>8. o \in Ops
  BY <1>7 DEF Ops
<1>9. OwnerOf(o) = k
  BY <1>4, <1>5, <1>6 DEF OwnerOf
<1>10. /\ \A r : /\ PollOf(r)[o] = 0 /\ BuildOf(r)[o] = 0
                 /\ WorkOf(r)[o] = IF r = s THEN Signals(w, 1) ELSE 0
  BY <1>4, <1>8, ScriptWeights DEF IsPoll, IsWork
<1>11. Signals(w, 1) = IF b THEN 1 ELSE 0
  <2>1. Signals(w, 1) = SignalOf[x]
    BY <1>2, RequestWeights, WeightOne DEF Signals, w
  <2> QED BY <1>2, <1>5, <2>1, RequestWeights
<1> QED BY <1>4, <1>6, <1>8, <1>9, <1>10, <1>11 DEF o, x

(* A list to be filled in as an operation of a script. *)
LEMMA BuildOp ==
  ASSUME NEW s \in Servers, NEW k \in 0 .. MaxHops, NEW n \in 1 .. MaxBatch
  PROVE  LET o == Build(s, k, n, <<>>)
         IN  /\ o \in Ops /\ o.do = "build" /\ o.qp = s /\ OwnerOf(o) = k /\ k # Nobody
             /\ \A r : /\ PollOf(r)[o] = 0
                       /\ BuildOf(r)[o] = IF r = s THEN n ELSE 0
                       /\ WorkOf(r)[o] = IF r = s THEN n ELSE 0
<1> DEFINE o == Build(s, k, n, <<>>)
<1>1. MaxHops \in Nat /\ MaxBatch \in Nat
  BY CapacityFact, MaxBatchFact
<1>2. k # Nobody
  BY <1>1 DEF Nobody
<1>3. /\ o.do = "build" /\ o.qp = s /\ o.owner = k /\ o.left = n /\ o.wrs = <<>>
  BY DEF Build
<1>4. o \in [do : {"build"}, qp : Servers, owner : 0 .. MaxHops, left : 1 .. MaxBatch,
             wrs : Seq(Wrs)]
  <2>1. <<>> \in Seq(Wrs)
    OBVIOUS
  <2> QED BY <2>1 DEF Build
<1> HIDE DEF o
<1>5. Len(o.wrs) = 0
  BY <1>3
<1>6. o \in Ops
  <2>1. o \in Builds
    BY <1>1, <1>3, <1>4, <1>5 DEF Builds
  <2> QED BY <2>1 DEF Ops
<1>7. \A r : /\ PollOf(r)[o] = 0
             /\ BuildOf(r)[o] = (IF r = s THEN n ELSE 0)
             /\ WorkOf(r)[o] = (IF r = s THEN n ELSE 0)
  <2> TAKE r
  <2>1. ~ IsPoll(o, r) /\ (IsWork(o, r) <=> r = s)
    BY <1>3 DEF IsPoll, IsWork
  <2>2. n + 0 = n
    OBVIOUS
  <2> QED BY <1>3, <1>5, <1>6, <2>1, <2>2, ScriptWeights
<1>8. OwnerOf(o) = k
  BY <1>3 DEF OwnerOf
<1> QED BY <1>2, <1>3, <1>6, <1>7, <1>8 DEF o

(* A script of two operations. *)
LEMMA PairConcat ==
  ASSUME NEW a \in Ops, NEW b \in Ops
  PROVE  <<a, b>> = <<a>> \o <<b>>
<1> DEFINE t == <<a, b>>
           u == <<a>> \o <<b>>
<1>1. t \in Seq(Ops) /\ Len(t) = 2 /\ t[1] = a /\ t[2] = b
  OBVIOUS
<1>2. u \in Seq(Ops) /\ Len(u) = 2 /\ u[1] = a /\ u[2] = b
  <2>1. <<a>> \in Seq(Ops) /\ <<b>> \in Seq(Ops) /\ Len(<<a>>) = 1 /\ Len(<<b>>) = 1
    OBVIOUS
  <2> QED BY <2>1
<1> HIDE DEF t, u
<1>3. Len(t) = Len(u) /\ \A i \in 1 .. Len(t) : t[i] = u[i]
  BY <1>1, <1>2
<1>4. t = u
  BY <1>1, <1>2, <1>3, SeqEqual
<1> QED BY <1>4 DEF t, u

(* What two operations have left to do. *)
LEMMA ScriptPair ==
  ASSUME NEW a \in Ops, NEW b \in Ops, NEW s
  PROVE  /\ <<a, b>> \in Seq(Ops) /\ Len(<<a, b>>) = 2
         /\ <<a, b>>[1] = a /\ <<a, b>>[2] = b
         /\ ToPoll(<<a, b>>, s) = PollOf(s)[a] + PollOf(s)[b]
         /\ ToBuild(<<a, b>>, s) = BuildOf(s)[a] + BuildOf(s)[b]
         /\ ToSignal(<<a, b>>, s) = WorkOf(s)[a] + WorkOf(s)[b]
<1> DEFINE t == <<a, b>>
<1>1. <<a>> \in Seq(Ops) /\ <<b>> \in Seq(Ops) /\ Len(<<a>>) = 1 /\ Len(<<b>>) = 1
  OBVIOUS
<1>2. t \in Seq(Ops)
  OBVIOUS
<1>3. Len(t) = 2 /\ t[1] = a /\ t[2] = b
  OBVIOUS
<1>4. t = <<a>> \o <<b>>
  BY PairConcat
<1> HIDE DEF t
<1>5. /\ ToPoll(<<b>>, s) = PollOf(s)[b] /\ ToBuild(<<b>>, s) = BuildOf(s)[b]
      /\ ToSignal(<<b>>, s) = WorkOf(s)[b]
  BY ScriptWeights, WeightOne DEF ToPoll, ToBuild, ToSignal
<1>6. /\ ToPoll(<<a>> \o <<b>>, s) = PollOf(s)[a] + ToPoll(<<b>>, s)
      /\ ToBuild(<<a>> \o <<b>>, s) = BuildOf(s)[a] + ToBuild(<<b>>, s)
      /\ ToSignal(<<a>> \o <<b>>, s) = WorkOf(s)[a] + ToSignal(<<b>>, s)
  BY <1>1, ScriptPush, ZenonT(60)
<1>7. /\ ToPoll(t, s) = PollOf(s)[a] + PollOf(s)[b]
      /\ ToBuild(t, s) = BuildOf(s)[a] + BuildOf(s)[b]
      /\ ToSignal(t, s) = WorkOf(s)[a] + WorkOf(s)[b]
  BY <1>4, <1>5, <1>6
<1> QED BY <1>4, <1>2, <1>3, <1>7 DEF t

(* What three operations have left to do. *)
LEMMA ScriptTriple ==
  ASSUME NEW a \in Ops, NEW u \in Seq(Ops), Len(u) = 2
  PROVE  LET t == <<a>> \o u
         IN  Len(t) = 3 /\ t[1] = a /\ t[2] = u[1] /\ t[3] = u[2]
<1> DEFINE v == <<a>>
<1>1. v \in Seq(Ops) /\ Len(v) = 1 /\ v[1] = a
  OBVIOUS
<1> HIDE DEF v
<1> DEFINE w == v \o u
<1>2. /\ Len(w) = Len(v) + Len(u)
      /\ \A i \in 1 .. Len(v) + Len(u) : w[i] = IF i <= Len(v) THEN v[i] ELSE u[i - Len(v)]
  BY <1>1, ConcatProperties
<1> HIDE DEF w
<1>4. 1 \in 1 .. 3 /\ 2 \in 1 .. 3 /\ 3 \in 1 .. 3 /\ 1 <= 1 /\ ~ (2 <= 1) /\ ~ (3 <= 1)
      /\ 2 - 1 = 1 /\ 3 - 1 = 2 /\ 1 + 2 = 3
  OBVIOUS
<1>5. Len(w) = 3 /\ w[1] = v[1] /\ w[2] = u[1] /\ w[3] = u[2]
  BY <1>1, <1>2, <1>4
<1> QED BY <1>1, <1>5 DEF v, w

-----------------------------------------------------------------------------
(* Calls that return when they have what they asked for *)

(* A request of the call's own and the poll for it. *)
LEMMA OneRequest ==
  ASSUME NEW s \in Servers
  PROVE  LET o == Post(s, Mine, <<TRUE>>)  p == Poll(s, 1)
         IN  /\ o \in Ops /\ o.do = "post" /\ o.qp = s /\ OwnerOf(o) = Mine
             /\ p \in Ops /\ p.do = "poll" /\ p.qp = s
             /\ \A r : /\ PollOf(r)[o] = 0 /\ BuildOf(r)[o] = 0 /\ BuildOf(r)[p] = 0
                       /\ WorkOf(r)[p] = 0
                       /\ PollOf(r)[p] = IF r = s THEN 1 ELSE 0
                       /\ WorkOf(r)[o] = IF r = s THEN 1 ELSE 0
<1>1. 1 \in 1 .. MaxBatch /\ Mine \in 0 .. MaxHops + 1
  BY MaxBatchFact, CapacityFact DEF Mine
<1> DEFINE b == TRUE
<1>2. b \in BOOLEAN /\ b
  OBVIOUS
<1> HIDE DEF b
<1> DEFINE o == Post(s, Mine, <<b>>)
<1>4. /\ o \in Ops /\ o.do = "post" /\ o.qp = s /\ OwnerOf(o) = Mine
      /\ \A r : /\ PollOf(r)[o] = 0 /\ BuildOf(r)[o] = 0
                /\ WorkOf(r)[o] = IF r = s /\ b THEN 1 ELSE 0
  BY <1>1, <1>2, OnePost, ZenonT(60)
<1>5. o = Post(s, Mine, <<TRUE>>)
  BY DEF b
<1> HIDE DEF o
<1>6. /\ Poll(s, 1) \in Ops /\ Poll(s, 1).do = "poll" /\ Poll(s, 1).qp = s
      /\ \A r : /\ PollOf(r)[Poll(s, 1)] = IF r = s THEN 1 ELSE 0
                /\ BuildOf(r)[Poll(s, 1)] = 0 /\ WorkOf(r)[Poll(s, 1)] = 0
  BY <1>1, PollOp
<1>7. \A r : WorkOf(r)[o] = IF r = s THEN 1 ELSE 0
  BY <1>2, <1>4
<1> QED BY <1>4, <1>5, <1>6, <1>7

(* One request, and the completion it is for: FetchAndAdd, Write, and a Read
   of a queue pair that selective writes left nothing on. *)
LEMMA AskOne ==
  ASSUME QpIInv, todo = <<>>, batches = <<>>, NEW s \in Servers, pendings[s] = 0,
         todo' = <<Post(s, Mine, <<TRUE>>), Poll(s, 1)>>,
         UNCHANGED <<pendings, sq, batches, done, failed>>
  PROVE  QpIInv'
<1> DEFINE o == Post(s, Mine, <<TRUE>>)
           p == Poll(s, 1)
           t == <<o, p>>
<1>1. /\ o \in Ops /\ o.do = "post" /\ o.qp = s /\ OwnerOf(o) = Mine
      /\ p \in Ops /\ p.do = "poll" /\ p.qp = s
      /\ \A r : /\ PollOf(r)[o] = 0 /\ BuildOf(r)[o] = 0 /\ BuildOf(r)[p] = 0
                /\ WorkOf(r)[p] = 0
                /\ PollOf(r)[p] = IF r = s THEN 1 ELSE 0
                /\ WorkOf(r)[o] = IF r = s THEN 1 ELSE 0
  BY OneRequest
<1> HIDE DEF o, p
<1>2. /\ t \in Seq(Ops) /\ Len(t) = 2 /\ t[1] = o /\ t[2] = p
      /\ ToPoll(t, s) = PollOf(s)[o] + PollOf(s)[p]
      /\ ToBuild(t, s) = BuildOf(s)[o] + BuildOf(s)[p]
      /\ ToSignal(t, s) = WorkOf(s)[o] + WorkOf(s)[p]
  BY <1>1, ScriptPair
<1>3. todo' = t
  BY DEF o, p
<1> HIDE DEF t
<1>4. ASSUME NEW r \in Servers PROVE SyncShape(t, r)
  <2>1. \A i \in 1 .. Len(t) : i = 1 \/ i = 2
    BY <1>2
  <2>2. CASE r # s
    BY <1>1, <1>2, <2>1, <2>2 DEF SyncShape, IsWork, IsPoll
  <2>3. CASE r = s
    <3>1. ToPoll(t, s) = 1 /\ ToBuild(t, s) = 0 /\ ToSignal(t, s) = 1
      BY <1>1, <1>2
    <3>2. IsWork(t[1], s) /\ ~ IsPoll(t[1], s) /\ IsPoll(t[2], s) /\ ~ IsWork(t[2], s)
          /\ t[1].do # "build" /\ OwnerOf(t[1]) = Mine
      BY <1>1, <1>2 DEF IsWork, IsPoll
    <3>3. 2 \in 1 + 1 .. Len(t)
      BY <1>2
    <3>4. ASSUME NEW i \in 1 .. Len(t), IsWork(t[i], s)
          PROVE  /\ i = 1 /\ OwnerOf(t[i]) = Mine
                 /\ \A j \in 1 .. Len(t) : IsWork(t[j], s) => j = i
                 /\ t[i].do # "build"
                 /\ \E j \in i + 1 .. Len(t) : IsPoll(t[j], s)
      BY <2>1, <3>2, <3>3, <3>4
    <3> QED BY <2>3, <3>1, <3>4 DEF SyncShape
  <2> QED BY <2>2, <2>3
<1> QED BY <1>2, <1>3, <1>4, SyncIInv

(* A Read that takes the completion of the selective writes first. *)
LEMMA SweepOne ==
  ASSUME QpIInv, todo = <<>>, batches = <<>>, NEW s \in Servers, pendings[s] # 0,
         todo' = <<Poll(s, 1)>> \o <<Post(s, Mine, <<TRUE>>), Poll(s, 1)>>,
         UNCHANGED <<pendings, sq, batches, done, failed>>
  PROVE  QpIInv'
<1> DEFINE o == Post(s, Mine, <<TRUE>>)
           p == Poll(s, 1)
           u == <<o, p>>
           t == <<p>> \o u
<1>1. /\ o \in Ops /\ o.do = "post" /\ o.qp = s /\ OwnerOf(o) = Mine
      /\ p \in Ops /\ p.do = "poll" /\ p.qp = s
      /\ \A r : /\ PollOf(r)[o] = 0 /\ BuildOf(r)[o] = 0 /\ BuildOf(r)[p] = 0
                /\ WorkOf(r)[p] = 0
                /\ PollOf(r)[p] = IF r = s THEN 1 ELSE 0
                /\ WorkOf(r)[o] = IF r = s THEN 1 ELSE 0
  BY OneRequest
<1>2. todo' = t
  OBVIOUS
<1> HIDE DEF o, p
<1>3. /\ u \in Seq(Ops) /\ Len(u) = 2 /\ u[1] = o /\ u[2] = p
      /\ ToPoll(u, s) = PollOf(s)[o] + PollOf(s)[p]
      /\ ToBuild(u, s) = BuildOf(s)[o] + BuildOf(s)[p]
      /\ ToSignal(u, s) = WorkOf(s)[o] + WorkOf(s)[p]
  BY <1>1, ScriptPair
<1> HIDE DEF u
<1>4. /\ t \in Seq(Ops)
      /\ ToPoll(t, s) = PollOf(s)[p] + ToPoll(u, s)
      /\ ToBuild(t, s) = BuildOf(s)[p] + ToBuild(u, s)
      /\ ToSignal(t, s) = WorkOf(s)[p] + ToSignal(u, s)
  BY <1>1, <1>3, ScriptPush
<1>5. Len(t) = 3 /\ t[1] = p /\ t[2] = o /\ t[3] = p
  BY <1>1, <1>3, ScriptTriple DEF t
<1>6. pendings[s] > 0
  BY IdleFacts
<1> HIDE DEF t
<1>7. ASSUME NEW r \in Servers PROVE SyncShape(t, r)
  <2>1. \A i \in 1 .. Len(t) : i = 1 \/ i = 2 \/ i = 3
    BY <1>5
  <2>2. CASE r # s
    <3>1. \A i \in 1 .. Len(t) : t[i] = o \/ t[i] = p
      BY <1>5, <2>1
    <3> QED BY <1>1, <2>2, <3>1 DEF SyncShape, IsWork, IsPoll
  <2>3. CASE r = s
    <3>1. ToPoll(t, s) = 2 /\ ToBuild(t, s) = 0 /\ ToSignal(t, s) = 1
      BY <1>1, <1>3, <1>4
    <3>2. /\ IsPoll(t[1], s) /\ ~ IsWork(t[1], s)
          /\ IsWork(t[2], s) /\ ~ IsPoll(t[2], s) /\ t[2].do # "build" /\ OwnerOf(t[2]) = Mine
          /\ IsPoll(t[3], s) /\ ~ IsWork(t[3], s)
      BY <1>1, <1>5 DEF IsWork, IsPoll
    <3>3. 3 \in 2 + 1 .. Len(t) /\ 1 \in 1 .. 2 - 1
      BY <1>5
    <3>4. ASSUME NEW i \in 1 .. Len(t), IsWork(t[i], s)
          PROVE  /\ i = 2 /\ OwnerOf(t[i]) = Mine
                 /\ \A j \in 1 .. Len(t) : IsWork(t[j], s) => j = i
                 /\ t[i].do # "build"
                 /\ \E j \in i + 1 .. Len(t) : IsPoll(t[j], s)
                 /\ \E j \in 1 .. i - 1 : IsPoll(t[j], s)
      <4>1. i = 2
        BY <2>1, <3>2, <3>4
      <4> QED BY <2>1, <3>2, <3>3, <4>1
    <3>5. ToPoll(t, s) = ToSignal(t, s) + (IF pendings[s] > 0 THEN 1 ELSE 0)
      BY <1>6, <3>1
    <3>6. ToPoll(t, s) > 0 /\ ~ (ToBuild(t, s) > 0)
      BY <3>1
    <3> QED BY <2>3, <3>4, <3>5, <3>6 DEF SyncShape
  <2> QED BY <2>2, <2>3
<1> QED BY <1>2, <1>4, <1>7, SyncIInv

(* FetchAndAdd, Read and Write preserve the invariant. *)
LEMMA SingleCalls ==
  ASSUME QpIInv, NEW s \in Servers, FetchAndAdd(s) \/ Read(s) \/ Write(s)
  PROVE  QpIInv'
<1>1. /\ todo = <<>> /\ batches = <<>>
      /\ UNCHANGED <<pendings, sq, batches, done, failed>>
  BY DEF FetchAndAdd, Read, Write, Start, Quiet
<1>2. CASE FetchAndAdd(s) \/ Write(s)
  <2>1. todo' = <<Post(s, Mine, <<TRUE>>), Poll(s, 1)>> /\ Swept(Only(s))
    BY <1>2 DEF FetchAndAdd, Write, Start
  <2>2. pendings[s] = 0
    BY <2>1 DEF Swept, Only
  <2> QED BY <1>1, <2>1, <2>2, AskOne
<1>3. CASE Read(s)
  <2> DEFINE u == <<Post(s, Mine, <<TRUE>>), Poll(s, 1)>>
  <2>1. todo' = (IF pendings[s] = 0 THEN <<>> ELSE <<Poll(s, 1)>>) \o u
    BY <1>3 DEF Read, Start, first_send
  <2>2. CASE pendings[s] = 0
    <3>1. todo' = <<>> \o u
      BY <2>1, <2>2
    <3>2. u \in Seq(Ops)
      <4>1. Post(s, Mine, <<TRUE>>) \in Ops /\ Poll(s, 1) \in Ops
        BY OneRequest
      <4> QED BY <4>1, ScriptPair
    <3>3. <<>> \o u = u
      <4> HIDE DEF u
      <4> QED BY <3>2
    <3>4. todo' = u
      BY <3>1, <3>3
    <3> QED BY <1>1, <2>2, <3>4, AskOne
  <2>3. CASE pendings[s] # 0
    <3>1. todo' = <<Poll(s, 1)>> \o u
      BY <2>1, <2>3
    <3> QED BY <1>1, <2>3, <3>1, SweepOne
  <2> QED BY <2>2, <2>3
<1> QED BY <1>2, <1>3

(* A call that posts lists of requests, one per server, and then polls each of
   these servers for as many completions as signalled requests. *)
LEMMA AskMany ==
  ASSUME QpIInv, todo = <<>>, batches = <<>>, NEW c, NEW op, NEW polls,
         todo' = PerServer(c, op) \o PerServer(c, polls),
         UNCHANGED <<pendings, sq, batches, done, failed>>,
         \A s \in Touched(c) :
           /\ pendings[s] = 0
           /\ op[s] \in Ops /\ op[s].qp = s /\ op[s].do \in {"post", "build"}
           /\ OwnerOf(op[s]) = Mine
           /\ BuildOf(s)[op[s]] \in {0, WorkOf(s)[op[s]]}
           /\ polls[s] \in Ops /\ polls[s].qp = s /\ polls[s].do = "poll"
           /\ PollOf(s)[polls[s]] = WorkOf(s)[op[s]]
           /\ WorkOf(s)[op[s]] \in 1 .. MaxBatch
  PROVE  QpIInv'
<1> DEFINE a == PerServer(c, op)
           b == PerServer(c, polls)
           t == a \o b
<1>1. /\ a \in Seq(Ops)
      /\ \A i \in 1 .. Len(a) : a[i].qp \in Touched(c) /\ a[i] = op[a[i].qp]
      /\ \A i, j \in 1 .. Len(a) : a[i].qp = a[j].qp => i = j
      /\ \A r : /\ ToPoll(a, r) = IF r \in Touched(c) THEN PollOf(r)[op[r]] ELSE 0
                /\ ToBuild(a, r) = IF r \in Touched(c) THEN BuildOf(r)[op[r]] ELSE 0
                /\ ToSignal(a, r) = IF r \in Touched(c) THEN WorkOf(r)[op[r]] ELSE 0
  <2>1. \A s \in Touched(c) : op[s] \in Ops /\ op[s].qp = s
    OBVIOUS
  <2>2. /\ a \in Seq(Ops)
        /\ \A i \in 1 .. Len(a) : a[i].qp \in Touched(c) /\ a[i] = op[a[i].qp]
        /\ \A i, j \in 1 .. Len(a) : a[i].qp = a[j].qp => i = j
    BY <2>1, PerServerScript
  <2>3. \A r :
              /\ ToPoll(a, r) = IF r \in Touched(c) THEN PollOf(r)[op[r]] ELSE 0
              /\ ToBuild(a, r) = IF r \in Touched(c) THEN BuildOf(r)[op[r]] ELSE 0
              /\ ToSignal(a, r) = IF r \in Touched(c) THEN WorkOf(r)[op[r]] ELSE 0
    BY <2>1, PerServerTotals
  <2> QED BY <2>2, <2>3
<1>2. /\ b \in Seq(Ops)
      /\ \A i \in 1 .. Len(b) : b[i].qp \in Touched(c) /\ b[i] = polls[b[i].qp]
      /\ \A s \in Touched(c) : \E i \in 1 .. Len(b) : b[i].qp = s
      /\ \A r : /\ ToPoll(b, r) = IF r \in Touched(c) THEN PollOf(r)[polls[r]] ELSE 0
                /\ ToBuild(b, r) = IF r \in Touched(c) THEN BuildOf(r)[polls[r]] ELSE 0
                /\ ToSignal(b, r) = IF r \in Touched(c) THEN WorkOf(r)[polls[r]] ELSE 0
  <2>1. \A s \in Touched(c) : polls[s] \in Ops /\ polls[s].qp = s
    OBVIOUS
  <2>2. /\ b \in Seq(Ops)
        /\ \A i \in 1 .. Len(b) : b[i].qp \in Touched(c) /\ b[i] = polls[b[i].qp]
        /\ \A s \in Touched(c) : \E i \in 1 .. Len(b) : b[i].qp = s
    BY <2>1, PerServerScript
  <2>3. \A r :
              /\ ToPoll(b, r) = IF r \in Touched(c) THEN PollOf(r)[polls[r]] ELSE 0
              /\ ToBuild(b, r) = IF r \in Touched(c) THEN BuildOf(r)[polls[r]] ELSE 0
              /\ ToSignal(b, r) = IF r \in Touched(c) THEN WorkOf(r)[polls[r]] ELSE 0
    BY <2>1, PerServerTotals
  <2> QED BY <2>2, <2>3
<1>3. todo' = t
  OBVIOUS
<1> HIDE DEF a, b
<1>4. /\ t \in Seq(Ops) /\ Len(t) = Len(a) + Len(b) /\ Len(a) \in Nat /\ Len(b) \in Nat
      /\ \A i \in 1 .. Len(a) : t[i] = a[i]
      /\ \A i \in 1 .. Len(b) : t[i + Len(a)] = b[i]
  <2>1. /\ t \in Seq(Ops) /\ Len(t) = Len(a) + Len(b)
        /\ \A i \in 1 .. Len(a) + Len(b) : t[i] = IF i <= Len(a) THEN a[i] ELSE b[i - Len(a)]
    BY <1>1, <1>2, ConcatProperties
  <2>2. Len(a) \in Nat /\ Len(b) \in Nat
    BY <1>1, <1>2
  <2> HIDE DEF t
  <2>3. \A i \in 1 .. Len(a) : t[i] = a[i]
    BY <2>1, <2>2
  <2>4. \A i \in 1 .. Len(b) : t[i + Len(a)] = b[i]
    <3> TAKE i \in 1 .. Len(b)
    <3>1. i + Len(a) \in 1 .. Len(a) + Len(b) /\ ~ (i + Len(a) <= Len(a)) /\ (i + Len(a)) - Len(a) = i
      BY <2>2
    <3> QED BY <2>1, <3>1
  <2> QED BY <2>1, <2>2, <2>3, <2>4
<1>5. \A r : /\ ToPoll(t, r) = ToPoll(a, r) + ToPoll(b, r)
             /\ ToBuild(t, r) = ToBuild(a, r) + ToBuild(b, r)
             /\ ToSignal(t, r) = ToSignal(a, r) + ToSignal(b, r)
  BY <1>1, <1>2, ScriptConcat
<1> HIDE DEF t
<1>6. \A i \in 1 .. Len(t) : i \in 1 .. Len(a) \/ (i - Len(a) \in 1 .. Len(b) /\ t[i] = b[i - Len(a)])
  <2> TAKE i \in 1 .. Len(t)
  <2>1. CASE i <= Len(a)
    BY <1>4, <2>1
  <2>2. CASE i > Len(a)
    <3>1. i - Len(a) \in 1 .. Len(b) /\ (i - Len(a)) + Len(a) = i
      BY <1>4, <2>2
    <3>2. t[(i - Len(a)) + Len(a)] = b[i - Len(a)]
      BY <1>4, <3>1
    <3> QED BY <3>1, <3>2
  <2> QED BY <1>4, <2>1, <2>2
<1>7. ASSUME NEW i \in 1 .. Len(t) PROVE t[i].qp \in Touched(c)
  <2>1. CASE i \in 1 .. Len(a)
    <3>1. t[i] = a[i] /\ a[i].qp \in Touched(c)
      BY <1>1, <1>4, <2>1
    <3> QED BY <3>1
  <2>2. CASE i - Len(a) \in 1 .. Len(b) /\ t[i] = b[i - Len(a)]
    <3>1. b[i - Len(a)].qp \in Touched(c)
      BY <1>2, <2>2
    <3> QED BY <2>2, <3>1
  <2> QED BY <1>6, <2>1, <2>2
<1>8. ASSUME NEW s, NEW i \in 1 .. Len(t), IsWork(t[i], s)
      PROVE  i \in 1 .. Len(a) /\ t[i] = a[i] /\ a[i].qp = s
  <2>1. i \in 1 .. Len(a)
    <3>1. SUFFICES ASSUME i - Len(a) \in 1 .. Len(b), t[i] = b[i - Len(a)] PROVE FALSE
      BY <1>6
    <3>2. t[i].do = "poll"
      BY <1>2, <3>1
    <3> QED BY <1>8, <3>2 DEF IsWork
  <2> QED BY <1>4, <1>8, <2>1 DEF IsWork
<1>9. ASSUME NEW i \in 1 .. Len(a), NEW s PROVE ~ IsPoll(t[i], s)
  <2>1. t[i] = a[i]
    BY <1>4
  <2>2. a[i].do # "poll"
    BY <1>1
  <2> QED BY <2>1, <2>2 DEF IsPoll
<1>10. ASSUME NEW s \in Servers PROVE SyncShape(t, s)
  <2>1. CASE s \notin Touched(c)
    <3>1. \A i \in 1 .. Len(t) : ~ IsWork(t[i], s) /\ ~ IsPoll(t[i], s)
      BY <1>7, <2>1 DEF IsWork, IsPoll
    <3> QED BY <3>1 DEF SyncShape
  <2>2. CASE s \in Touched(c)
    <3> DEFINE w == WorkOf(s)[op[s]]
               f == BuildOf(s)[op[s]]
    <3>1. /\ PollOf(s)[op[s]] = 0 /\ BuildOf(s)[polls[s]] = 0 /\ WorkOf(s)[polls[s]] = 0
      <4>1. /\ op[s] \in Ops /\ op[s].do # "poll" /\ polls[s] \in Ops /\ polls[s].do = "poll"
        BY <2>2
      <4>2. ~ IsPoll(op[s], s) /\ ~ IsWork(polls[s], s)
        BY <4>1 DEF IsPoll, IsWork
      <4> QED BY <4>1, <4>2, ScriptWeights
    <3>2. /\ f \in {0, w} /\ PollOf(s)[polls[s]] = w /\ w \in 1 .. MaxBatch /\ pendings[s] = 0
      BY <2>2
    <3>3. MaxBatch \in Nat
      BY MaxBatchFact
    <3>4. ToPoll(t, s) = 0 + w /\ ToBuild(t, s) = f + 0 /\ ToSignal(t, s) = w + 0
      BY <1>1, <1>2, <1>5, <2>2, <3>1, <3>2
    <3> HIDE DEF w, f
    <3>5. /\ ToPoll(t, s) = w /\ ToSignal(t, s) = w /\ ToBuild(t, s) \in {0, w} /\ w > 0
          /\ w <= MaxBatch /\ w \in Nat
      BY <3>2, <3>3, <3>4
    <3>6. ASSUME NEW i \in 1 .. Len(t), IsWork(t[i], s)
          PROVE  /\ OwnerOf(t[i]) = Mine
                 /\ \A j \in 1 .. Len(t) : IsWork(t[j], s) => j = i
                 /\ \A j \in 1 .. i - 1 : ~ IsPoll(t[j], s)
                 /\ \E j \in i + 1 .. Len(t) : IsPoll(t[j], s)
      <4>1. i \in 1 .. Len(a) /\ t[i] = a[i] /\ a[i].qp = s
        BY <1>8, <3>6, ZenonT(60)
      <4>2. OwnerOf(t[i]) = Mine
        BY <1>1, <4>1
      <4>3. \A j \in 1 .. Len(t) : IsWork(t[j], s) => j = i
        <5> TAKE j \in 1 .. Len(t)
        <5> HAVE IsWork(t[j], s)
        <5>1. j \in 1 .. Len(a) /\ a[j].qp = s
          BY <1>8, ZenonT(60)
        <5> QED BY <1>1, <4>1, <5>1
      <4>4. \A j \in 1 .. i - 1 : ~ IsPoll(t[j], s)
        <5>1. \A j \in 1 .. i - 1 : j \in 1 .. Len(a)
          BY <1>4, <4>1
        <5> QED BY <1>9, <5>1
      <4>5. \E j \in i + 1 .. Len(t) : IsPoll(t[j], s)
        <5>1. PICK j \in 1 .. Len(b) : b[j].qp = s
          BY <1>2, <2>2
        <5>2. t[j + Len(a)] = b[j] /\ j + Len(a) \in i + 1 .. Len(t)
          BY <1>4, <4>1
        <5>3. b[j].do = "poll"
          BY <1>2
        <5> QED BY <5>1, <5>2, <5>3 DEF IsPoll
      <4> QED BY <4>2, <4>3, <4>4, <4>5
    <3>7. /\ ToPoll(t, s) > 0
          /\ ToPoll(t, s) = ToSignal(t, s) + (IF pendings[s] > 0 THEN 1 ELSE 0)
          /\ ToBuild(t, s) <= ToPoll(t, s) /\ ToPoll(t, s) <= MaxBatch
      BY <3>2, <3>5
    <3> QED BY <3>2, <3>6, <3>7 DEF SyncShape
  <2> QED BY <2>1, <2>2
<1> QED BY <1>3, <1>4, <1>10, SyncIInv

(* Flags that are all set. *)
LEMMA FlagsAll ==
  ASSUME NEW n \in 1 .. MaxBatch
  PROVE  /\ Flags(n, "all") \in [1 .. n -> BOOLEAN]
         /\ \A i \in 1 .. n : Flags(n, "all")[i]
BY DEF Flags

(* Flags of which the last one is set. *)
LEMMA FlagsLast ==
  ASSUME NEW n \in 1 .. MaxBatch
  PROVE  /\ Flags(n, "last") \in [1 .. n -> BOOLEAN]
         /\ \A i \in 1 .. n : Flags(n, "last")[i] <=> i = n
BY DEF Flags

(* The lists that a call posts to a server, by the way they are posted. *)
LEMMA ListOps ==
  ASSUME NEW s \in Servers, NEW k \in 0 .. MaxHops, NEW n \in 1 .. MaxBatch
  PROVE  /\ LET o == Post(s, k, Flags(n, "all"))
            IN  /\ o \in Ops /\ o.do = "post" /\ o.qp = s /\ OwnerOf(o) = k
                /\ BuildOf(s)[o] = 0 /\ WorkOf(s)[o] = n
         /\ LET o == Post(s, k, Flags(n, "last"))
            IN  /\ o \in Ops /\ o.do = "post" /\ o.qp = s /\ OwnerOf(o) = k
                /\ BuildOf(s)[o] = 0 /\ WorkOf(s)[o] = 1
         /\ LET o == Build(s, k, n, <<>>)
            IN  /\ o \in Ops /\ o.do = "build" /\ o.qp = s /\ OwnerOf(o) = k
                /\ BuildOf(s)[o] = n /\ WorkOf(s)[o] = n
<1>1. n \in 1 .. n
  BY MaxBatchFact
<1>2. LET o == Post(s, k, Flags(n, "all"))
      IN  /\ o \in Ops /\ o.do = "post" /\ o.qp = s /\ OwnerOf(o) = k
          /\ BuildOf(s)[o] = 0 /\ WorkOf(s)[o] = n
  <2> DEFINE f == Flags(n, "all")
  <2>1. f \in [1 .. n -> BOOLEAN] /\ f[n] /\ \A i \in 1 .. n : f[i]
    BY <1>1, FlagsAll
  <2> HIDE DEF f
  <2> QED BY <2>1, PostOp DEF f
<1>3. LET o == Post(s, k, Flags(n, "last"))
      IN  /\ o \in Ops /\ o.do = "post" /\ o.qp = s /\ OwnerOf(o) = k
          /\ BuildOf(s)[o] = 0 /\ WorkOf(s)[o] = 1
  <2> DEFINE f == Flags(n, "last")
  <2>1. f \in [1 .. n -> BOOLEAN] /\ f[n] /\ \A i \in 1 .. n : f[i] <=> i = n
    BY <1>1, FlagsLast
  <2> HIDE DEF f
  <2> QED BY <2>1, PostOp DEF f
<1> QED BY <1>2, <1>3, BuildOp

(* How many requests a call has for a server. *)
LEMMA CountsFacts ==
  ASSUME NEW c \in Counts
  PROVE  /\ \A s \in Touched(c) : s \in Servers /\ c[s] \in 1 .. MaxBatch
         /\ \A s \in Servers : c[s] \in 0 .. MaxBatch /\ (s \notin Touched(c) => c[s] = 0)
<1>1. c \in [Servers -> 0 .. MaxBatch]
  BY DEF Counts
<1> QED BY <1>1, MaxBatchFact DEF Touched

(* The three synchronous batch reads preserve the invariant. *)
LEMMA BatchCalls ==
  ASSUME QpIInv, NEW c \in Counts,
         ReadBatch(c) \/ ReadBatchDoorbell(c) \/ ReadBatchUnsignal(c)
  PROVE  QpIInv'
<1>1. /\ todo = <<>> /\ batches = <<>> /\ Swept(c)
      /\ UNCHANGED <<pendings, sq, batches, done, failed>>
  BY DEF ReadBatch, ReadBatchDoorbell, ReadBatchUnsignal, Start, Quiet
<1>2. \A s \in Touched(c) : s \in Servers /\ c[s] \in 1 .. MaxBatch /\ c[s] \in Nat
  BY CountsFacts
<1>3. \A s \in Touched(c) : pendings[s] = 0
  BY <1>1, <1>2 DEF Swept
<1>4. Mine \in 0 .. MaxHops /\ 1 \in 1 .. MaxBatch
  BY MaxBatchFact, CapacityFact DEF Mine
<1>5. CASE ReadBatch(c)
  <2> DEFINE op == [s \in Servers |-> Post(s, Mine, Flags(c[s], "all"))]
             polls == [s \in Servers |-> Poll(s, c[s])]
  <2>1. todo' = PerServer(c, op) \o PerServer(c, polls)
    BY <1>5 DEF ReadBatch, Start
  <2>2. ASSUME NEW s \in Touched(c)
        PROVE  /\ op[s] \in Ops /\ op[s].qp = s /\ op[s].do \in {"post", "build"}
               /\ OwnerOf(op[s]) = Mine
               /\ BuildOf(s)[op[s]] \in {0, WorkOf(s)[op[s]]}
               /\ polls[s] \in Ops /\ polls[s].qp = s /\ polls[s].do = "poll"
               /\ PollOf(s)[polls[s]] = WorkOf(s)[op[s]]
               /\ WorkOf(s)[op[s]] \in 1 .. MaxBatch
    <3> DEFINE n == c[s]
               o == Post(s, Mine, Flags(n, "all"))
               p == Poll(s, n)
    <3>1. s \in Servers /\ n \in 1 .. MaxBatch
      BY <1>2
    <3>2. op[s] = o /\ polls[s] = p
      BY <3>1
    <3> HIDE DEF n, op, polls
    <3>3. /\ o \in Ops /\ o.do = "post" /\ o.qp = s /\ OwnerOf(o) = Mine
          /\ BuildOf(s)[o] = 0 /\ WorkOf(s)[o] = n
      BY <1>4, <3>1, ListOps
    <3>4. p \in Ops /\ p.do = "poll" /\ p.qp = s /\ PollOf(s)[p] = n
      BY <3>1, PollOp
    <3> HIDE DEF o, p
    <3> QED BY <3>1, <3>2, <3>3, <3>4
  <2> HIDE DEF op, polls
  <2> QED BY <1>1, <1>3, <2>1, <2>2, AskMany
<1>6. CASE ReadBatchDoorbell(c)
  <2> DEFINE op == [s \in Servers |-> Build(s, Mine, c[s], <<>>)]
             polls == [s \in Servers |-> Poll(s, c[s])]
  <2>1. todo' = PerServer(c, op) \o PerServer(c, polls)
    BY <1>6 DEF ReadBatchDoorbell, Start
  <2>2. ASSUME NEW s \in Touched(c)
        PROVE  /\ op[s] \in Ops /\ op[s].qp = s /\ op[s].do \in {"post", "build"}
               /\ OwnerOf(op[s]) = Mine
               /\ BuildOf(s)[op[s]] \in {0, WorkOf(s)[op[s]]}
               /\ polls[s] \in Ops /\ polls[s].qp = s /\ polls[s].do = "poll"
               /\ PollOf(s)[polls[s]] = WorkOf(s)[op[s]]
               /\ WorkOf(s)[op[s]] \in 1 .. MaxBatch
    <3> DEFINE n == c[s]
               o == Build(s, Mine, n, <<>>)
               p == Poll(s, n)
    <3>1. s \in Servers /\ n \in 1 .. MaxBatch
      BY <1>2
    <3>2. op[s] = o /\ polls[s] = p
      BY <3>1
    <3> HIDE DEF n, op, polls
    <3>3. /\ o \in Ops /\ o.do = "build" /\ o.qp = s /\ OwnerOf(o) = Mine
          /\ BuildOf(s)[o] = n /\ WorkOf(s)[o] = n
      BY <1>4, <3>1, ListOps
    <3>4. p \in Ops /\ p.do = "poll" /\ p.qp = s /\ PollOf(s)[p] = n
      BY <3>1, PollOp
    <3> HIDE DEF o, p
    <3> QED BY <3>1, <3>2, <3>3, <3>4
  <2> HIDE DEF op, polls
  <2> QED BY <1>1, <1>3, <2>1, <2>2, AskMany
<1>7. CASE ReadBatchUnsignal(c)
  <2> DEFINE op == [s \in Servers |-> Post(s, Mine, Flags(c[s], "last"))]
             polls == [s \in Servers |-> Poll(s, 1)]
  <2>1. todo' = PerServer(c, op) \o PerServer(c, polls)
    BY <1>7 DEF ReadBatchUnsignal, Start
  <2>2. ASSUME NEW s \in Touched(c)
        PROVE  /\ op[s] \in Ops /\ op[s].qp = s /\ op[s].do \in {"post", "build"}
               /\ OwnerOf(op[s]) = Mine
               /\ BuildOf(s)[op[s]] \in {0, WorkOf(s)[op[s]]}
               /\ polls[s] \in Ops /\ polls[s].qp = s /\ polls[s].do = "poll"
               /\ PollOf(s)[polls[s]] = WorkOf(s)[op[s]]
               /\ WorkOf(s)[op[s]] \in 1 .. MaxBatch
    <3> DEFINE n == c[s]
               o == Post(s, Mine, Flags(n, "last"))
               p == Poll(s, 1)
    <3>1. s \in Servers /\ n \in 1 .. MaxBatch
      BY <1>2
    <3>2. op[s] = o /\ polls[s] = p
      BY <3>1
    <3> HIDE DEF n, op, polls
    <3>3. /\ o \in Ops /\ o.do = "post" /\ o.qp = s /\ OwnerOf(o) = Mine
          /\ BuildOf(s)[o] = 0 /\ WorkOf(s)[o] = 1
      BY <1>4, <3>1, ListOps
    <3>4. p \in Ops /\ p.do = "poll" /\ p.qp = s /\ PollOf(s)[p] = 1
      BY <1>4, <3>1, PollOp
    <3> HIDE DEF o, p
    <3> QED BY <1>4, <3>2, <3>3, <3>4
  <2> HIDE DEF op, polls
  <2> QED BY <1>1, <1>3, <2>1, <2>2, AskMany
<1> QED BY <1>5, <1>6, <1>7

-----------------------------------------------------------------------------
(* Calls that leave a batch in flight, and the wait for it *)

(* A new batch adds what it is owed, whatever the position. *)
LEMMA OwedAppend ==
  ASSUME NEW b \in Seq(Batches), NEW p \in Batches, NEW s \in Servers
  PROVE  /\ \A k \in 1 .. Len(b) + 1 :
              OwedFrom(Append(b, p), s, k) = OwedFrom(b, s, k) + p[s]
         /\ p[s] \in 0 .. MaxBatch
<1>1. PollsOf(s) \in [Batches -> Weights] /\ \A c \in Batches : PollsOf(s)[c] = c[s]
  BY BatchWeights
<1>2. <<p>> \in Seq(Batches) /\ Append(b, p) = b \o <<p>>
  OBVIOUS
<1>3. Weight(<<p>>, PollsOf(s), 1) = p[s]
  <2>1. Weight(<<p>>, PollsOf(s), 1) = PollsOf(s)[p]
    BY <1>1, WeightOne
  <2> QED BY <1>1, <2>1
<1>4. \A k \in 1 .. Len(b) + 1 :
        Weight(b \o <<p>>, PollsOf(s), k) = Weight(b, PollsOf(s), k) + Weight(<<p>>, PollsOf(s), 1)
  <2> DEFINE v == <<p>>
             w == PollsOf(s)
  <2>1. v \in Seq(Batches) /\ w \in [Batches -> Weights]
    BY <1>1, <1>2
  <2> SUFFICES \A k \in 1 .. Len(b) + 1 : Weight(b \o v, w, k) = Weight(b, w, k) + Weight(v, w, 1)
    OBVIOUS
  <2> HIDE DEF v, w
  <2> QED BY <2>1, WeightConcat
<1>5. p[s] \in 0 .. MaxBatch
  BY DEF Batches
<1>6. \A k \in 1 .. Len(b) + 1 : Weight(b \o <<p>>, PollsOf(s), k) = Weight(b, PollsOf(s), k) + p[s]
  BY <1>3, <1>4
<1> QED BY <1>2, <1>5, <1>6 DEF OwedFrom

(* A batch sent to a server: its requests are one list, of as many signalled
   requests as waiting for the batch will take. *)
LEMMA EnqueueIInv ==
  ASSUME QpIInv, todo = <<>>, NEW c, NEW op, NEW p \in Batches, Len(batches) < MaxHops,
         todo' = PerServer(c, op), batches' = Append(batches, p),
         UNCHANGED <<pendings, sq, done, failed>>,
         \A s \in Servers : s \notin Touched(c) => p[s] = 0,
         \A s \in Touched(c) :
           /\ s \in Servers
           /\ pendings[s] = 0 \/ \E k \in DOMAIN batches : batches[k][s] > 0
           /\ op[s] \in Ops /\ op[s].qp = s /\ op[s].do \in {"post", "build"}
           /\ OwnerOf(op[s]) = Len(batches) + 1
           /\ BuildOf(s)[op[s]] \in {0, WorkOf(s)[op[s]]}
           /\ WorkOf(s)[op[s]] = p[s] /\ p[s] > 0
  PROVE  QpIInv'
<1> DEFINE t == PerServer(c, op)
<1>0. PICK k : k = Len(batches) + 1
  OBVIOUS
<1>1. \A s \in Touched(c) : op[s] \in Ops /\ op[s].qp = s
  OBVIOUS
<1>2. /\ t \in Seq(Ops)
      /\ \A i \in 1 .. Len(t) : t[i].qp \in Touched(c) /\ t[i] = op[t[i].qp]
      /\ \A i, j \in 1 .. Len(t) : t[i].qp = t[j].qp => i = j
  BY <1>1, PerServerScript
<1>3. todo' = t
  OBVIOUS
<1>4. ASSUME NEW s \in Servers
      PROVE  /\ ToPoll(t, s) = 0 /\ ToSignal(t, s) = p[s]
             /\ ToBuild(t, s) \in {0, p[s]}
  <2>1. /\ ToPoll(t, s) = (IF s \in Touched(c) THEN PollOf(s)[op[s]] ELSE 0)
        /\ ToBuild(t, s) = (IF s \in Touched(c) THEN BuildOf(s)[op[s]] ELSE 0)
        /\ ToSignal(t, s) = (IF s \in Touched(c) THEN WorkOf(s)[op[s]] ELSE 0)
    BY <1>1, PerServerTotals
  <2>2. CASE s \notin Touched(c)
    BY <2>1, <2>2
  <2>3. CASE s \in Touched(c)
    <3>1. op[s] \in Ops /\ op[s].do # "poll"
      BY <2>3
    <3>2. PollOf(s)[op[s]] = 0
      BY <3>1, ScriptWeights DEF IsPoll
    <3>3. WorkOf(s)[op[s]] = p[s] /\ BuildOf(s)[op[s]] \in {0, p[s]}
      BY <2>3
    <3> QED BY <2>1, <2>3, <3>2, <3>3
  <2> QED BY <2>2, <2>3
<1> HIDE DEF t
<1>5. /\ batches \in Seq(Batches) /\ Len(batches) \in 0 .. MaxHops /\ MaxHops \in Nat
      /\ MaxBatch \in Nat
  BY StateFacts, CapacityFact, MaxBatchFact DEF QpIInv
<1>6. /\ batches' \in Seq(Batches) /\ Len(batches') = k /\ batches'[k] = p
      /\ \A n \in 1 .. Len(batches) : batches'[n] = batches[n]
      /\ k \in 1 .. MaxHops /\ k # Mine /\ k # Nobody
  <2>1. k \in 1 .. MaxHops
    BY <1>0, <1>5
  <2>2. k # Mine /\ k # Nobody
    BY <1>5, <2>1 DEF Mine, Nobody
  <2>3. /\ batches' \in Seq(Batches) /\ Len(batches') = k /\ batches'[k] = p
        /\ \A n \in 1 .. Len(batches) : batches'[n] = batches[n]
    BY <1>0, <1>5
  <2> QED BY <2>1, <2>2, <2>3
<1>7. ASSUME NEW s \in Servers
      PROVE  /\ \A n \in 1 .. Len(batches) + 1 : OwedFrom(batches', s, n) = OwedFrom(batches, s, n) + p[s]
             /\ p[s] \in 0 .. MaxBatch /\ p[s] \in Nat
             /\ OwedFrom(batches', s, 1) = OwedFrom(batches, s, 1) + p[s]
             /\ OwedFrom(batches, s, 1) \in Nat
             /\ OwedFrom(batches', s, 1) <= MaxHops * MaxBatch
  <2>1. /\ \A n \in 1 .. Len(batches) + 1 : OwedFrom(batches', s, n) = OwedFrom(batches, s, n) + p[s]
        /\ p[s] \in 0 .. MaxBatch
    BY <1>5, OwedAppend
  <2>2. 1 \in 1 .. Len(batches) + 1 /\ 1 \in Int
    BY <1>5
  <2>3. OwedFrom(batches, s, 1) \in Nat /\ OwedFrom(batches', s, 1) \in Nat
        /\ OwedFrom(batches', s, 1) <= Len(batches') * MaxBatch
    BY <1>5, <1>6, <2>2, OwedFacts
  <2>4. Len(batches') * MaxBatch <= MaxHops * MaxBatch
    <3>1. \A x, y, z \in Nat : x <= y => x * z <= y * z
      OBVIOUS
    <3>2. Len(batches') \in Nat /\ Len(batches') <= MaxHops
      BY <1>0, <1>5, <1>6
    <3> QED BY <1>5, <3>1, <3>2
  <2>5. OwedFrom(batches', s, 1) <= MaxHops * MaxBatch
    <3> DEFINE x == OwedFrom(batches', s, 1)
               y == Len(batches') * MaxBatch
               z == MaxHops * MaxBatch
    <3>1. x \in Nat /\ y \in Nat /\ z \in Nat /\ x <= y /\ y <= z
      BY <1>5, <1>6, <2>3, <2>4
    <3> HIDE DEF x, y, z
    <3>2. x <= z
      BY <3>1
    <3> QED BY <3>2 DEF x, z
  <2>6. p[s] \in Nat
    BY <1>5, <2>1
  <2> QED BY <2>1, <2>2, <2>3, <2>5, <2>6
<1>8. ASSUME NEW s \in Servers
      PROVE  /\ ToPoll(todo, s) = 0 /\ ToBuild(todo, s) = 0 /\ ToSignal(todo, s) = 0
             /\ pendings[s] \in 0 .. PollThreshold /\ pendings[s] \in Nat
             /\ \A i \in 1 .. Len(sq[s]) : sq[s][i] \in Wrs /\ sq[s][i].owner # Mine
             /\ Signals(sq[s], 1) = OwedFrom(batches, s, 1)
                  + (IF pendings[s] > 0 /\ OwedFrom(batches, s, 1) = 0 THEN 1 ELSE 0)
             /\ OwedFrom(batches, s, 1) > 0 => pendings[s] <= OwedFrom(batches, s, 1)
             /\ pendings[s] = 0 \/ OwedFrom(batches, s, 1) > 0 => NoneKept(s)
             /\ p[s] > 0 => pendings[s] = 0 \/ OwedFrom(batches, s, 1) > 0
  <2>1. /\ ToPoll(todo, s) = 0 /\ ToBuild(todo, s) = 0 /\ ToSignal(todo, s) = 0
        /\ pendings[s] \in 0 .. PollThreshold /\ pendings[s] \in Nat
        /\ \A i \in 1 .. Len(sq[s]) : sq[s][i] \in Wrs /\ sq[s][i].owner # Mine
        /\ Signals(sq[s], 1) = OwedFrom(batches, s, 1)
             + (IF pendings[s] > 0 /\ OwedFrom(batches, s, 1) = 0 THEN 1 ELSE 0)
        /\ OwedFrom(batches, s, 1) > 0 => pendings[s] <= OwedFrom(batches, s, 1)
        /\ pendings[s] = 0 \/ OwedFrom(batches, s, 1) > 0 => NoneKept(s)
    BY IdleFacts
  <2>2. ASSUME p[s] > 0 PROVE pendings[s] = 0 \/ OwedFrom(batches, s, 1) > 0
    <3>1. s \in Touched(c)
      BY <2>2
    <3>2. pendings[s] = 0 \/ \E n \in 1 .. Len(batches) : batches[n][s] > 0
      BY <1>5, <3>1
    <3> QED BY <1>5, <3>2, OwedFacts
  <2> QED BY <2>1, <2>2
<1>9. QpTypeInv' /\ ~ failed' /\ NearInv'
  <2>1. NearInv' /\ ~ failed'
    BY DEF QpIInv, NearInv
  <2>2. QpTypeOK'
    <3>1. batches' \in Seq([Servers -> 0 .. MaxBatch]) /\ Len(batches') <= MaxHops
      BY <1>5, <1>6 DEF Batches
    <3> QED BY <3>1 DEF QpIInv, QpTypeInv, QpTypeOK
  <2>3. done' \in [Servers -> Nat] /\ todo' \in Seq(Ops)
    BY <1>2, <1>3 DEF QpIInv, QpTypeInv
  <2> QED BY <2>1, <2>2, <2>3 DEF QpTypeInv
<1>10. BalanceInv'
  <2> SUFFICES ASSUME NEW s \in Servers
               PROVE  Signals(sq[s], 1) + ToSignal(t, s)
                        = OwedFrom(batches', s, 1) + ToPoll(t, s) + Extra(s)'
    BY <1>3 DEF BalanceInv
  <2>1. Extra(s)' = IF pendings[s] > 0 /\ OwedFrom(batches', s, 1) = 0 THEN 1 ELSE 0
    BY <1>3, <1>4 DEF Extra
  <2> DEFINE x == OwedFrom(batches, s, 1)
             y == OwedFrom(batches', s, 1)
             z == p[s]
             v == pendings[s]
             u == Signals(sq[s], 1)
             e == Extra(s)'
  <2>2. /\ x \in Nat /\ z \in Nat /\ y = x + z /\ v \in Nat
        /\ u = x + (IF v > 0 /\ x = 0 THEN 1 ELSE 0)
        /\ z > 0 => v = 0 \/ x > 0
        /\ e = IF v > 0 /\ y = 0 THEN 1 ELSE 0
    BY <1>7, <1>8, <2>1
  <2>3. ToPoll(t, s) = 0 /\ ToSignal(t, s) = z
    BY <1>4
  <2> SUFFICES u + z = y + 0 + e
    BY <2>3
  <2> HIDE DEF x, y, z, v, u, e
  <2>4. CASE z = 0
    BY <2>2, <2>4
  <2>5. CASE z > 0
    BY <2>2, <2>5
  <2> QED BY <2>2, <2>4, <2>5
<1>11. OwnerInv' /\ MineInv'
  <2>1. OwnerInv'
    <3> SUFFICES ASSUME NEW s \in Servers, NEW i \in 1 .. Len(sq[s]),
                        sq[s][i].owner \in 1 .. MaxHops
                 PROVE  sq[s][i].owner <= Len(batches') /\ batches'[sq[s][i].owner][s] > 0
      BY DEF OwnerInv
    <3>1. sq[s][i].owner <= Len(batches) /\ batches[sq[s][i].owner][s] > 0
      BY DEF QpIInv, OwnerInv
    <3>2. sq[s][i].owner \in 1 .. Len(batches)
      BY <1>5, <3>1
    <3>3. sq[s][i].owner <= Len(batches')
      BY <1>0, <1>5, <1>6, <3>2
    <3> QED BY <1>6, <3>1, <3>2, <3>3
  <2> QED BY <1>8, <2>1 DEF MineInv
<1>12. AheadInv'
  <2> SUFFICES ASSUME NEW s \in Servers, NEW i \in 1 .. Len(sq[s]),
                      sq[s][i].owner \in 0 .. MaxHops
               PROVE  Signals(sq[s], i) + ToSignal(t, s)
                        > OwedFrom(batches', s, sq[s][i].owner + 1)
    BY <1>3 DEF AheadInv
  <2> DEFINE o == sq[s][i].owner
  <2>1. Signals(sq[s], i) + ToSignal(todo, s) > OwedFrom(batches, s, o + 1)
    BY DEF QpIInv, AheadInv
  <2>2. o \in 1 .. MaxHops
    <3>1. o # 0
      BY <1>8 DEF Mine
    <3> QED BY <1>5, <3>1
  <2>3. o <= Len(batches)
    BY <2>2 DEF QpIInv, OwnerInv
  <2>4. o + 1 \in 1 .. Len(batches) + 1 /\ o + 1 \in Int
    BY <1>5, <2>2, <2>3
  <2>5. OwedFrom(batches', s, o + 1) = OwedFrom(batches, s, o + 1) + p[s]
    BY <1>7, <2>4
  <2>6. Signals(sq[s], i) \in Nat /\ OwedFrom(batches, s, o + 1) \in Nat /\ p[s] \in Nat
    <3>1. sq[s] \in Seq(Wrs) /\ i \in Int
      BY StateFacts DEF QpIInv
    <3> QED BY <1>5, <1>7, <2>4, <3>1, RequestsType, OwedFacts
  <2> DEFINE a == Signals(sq[s], i)
             x == OwedFrom(batches, s, o + 1)
             y == OwedFrom(batches', s, o + 1)
             z == p[s]
  <2>7. a + 0 > x /\ a \in Nat /\ x \in Nat /\ z \in Nat /\ y = x + z
    BY <1>8, <2>1, <2>5, <2>6
  <2> SUFFICES a + z > y
    BY <1>4
  <2> HIDE DEF a, x, y, z
  <2> QED BY <2>7
<1>13. BlindInv'
  <2> SUFFICES ASSUME NEW s \in Servers
               PROVE  /\ NoneKept(s) => Blind(sq[s], 1) <= MaxBlind + KeptSlots
                      /\ \A n \in 1 .. Len(sq[s]) :
                           Kept(sq[s][n]) =>
                             /\ "WriteSelective" \in Calls /\ pendings[s] > 0
                             /\ OwedFrom(batches', s, 1) = 0
                             /\ \A m \in 1 .. n - 1 : ~ sq[s][m].signal
                             /\ Blind(sq[s], n + 1) <= MaxBlind + pendings[s] - 1
                             /\ Blind(sq[s], 1) <= MaxBlind + PollThreshold + pendings[s]
    BY DEF BlindInv, NoneKept
  <2>1. /\ NoneKept(s) => Blind(sq[s], 1) <= MaxBlind + KeptSlots
        /\ \A n \in 1 .. Len(sq[s]) :
             Kept(sq[s][n]) =>
               /\ "WriteSelective" \in Calls /\ pendings[s] > 0
               /\ OwedFrom(batches, s, 1) = 0
               /\ \A m \in 1 .. n - 1 : ~ sq[s][m].signal
               /\ Blind(sq[s], n + 1) <= MaxBlind + pendings[s] - 1
               /\ Blind(sq[s], 1) <= MaxBlind + PollThreshold + pendings[s]
    BY DEF QpIInv, BlindInv
  <2>2. ASSUME NEW n \in 1 .. Len(sq[s]), Kept(sq[s][n]) PROVE OwedFrom(batches', s, 1) = 0
    <3>1. ~ (pendings[s] = 0) /\ OwedFrom(batches, s, 1) = 0
      BY <1>8, <2>1, <2>2
    <3>2. ~ (p[s] > 0)
      BY <1>8, <3>1
    <3> QED BY <1>7, <3>1, <3>2
  <2> QED BY <2>1, <2>2
<1>14. PendingInv'
  <2> SUFFICES ASSUME NEW s \in Servers
               PROVE  LET owed == OwedFrom(batches', s, 1) + ToPoll(t, s)
                          build == ToBuild(t, s)
                      IN  /\ \/ OwedFrom(batches', s, 1) > 0 /\ ToPoll(t, s) = 0
                             \/ build > 0
                             => pendings[s] + build <= owed
                          /\ build > 0 => owed <= MaxHops * MaxBatch
                          /\ pendings[s] <= PollThreshold + 1
                          /\ pendings[s] = PollThreshold + 1 => ToPoll(t, s) > 0
    BY <1>3 DEF PendingInv
  <2> DEFINE x == OwedFrom(batches, s, 1)
             y == OwedFrom(batches', s, 1)
             z == p[s]
             v == pendings[s]
             b == ToBuild(t, s)
             m == MaxHops * MaxBatch
  <2>1. /\ x \in Nat /\ z \in Nat /\ y = x + z /\ v \in Nat /\ v <= PollThreshold
        /\ PollThreshold \in Nat /\ b \in {0, z}
        /\ x > 0 => v <= x
        /\ z > 0 => v = 0 \/ x > 0
        /\ y <= m
    BY <1>4, <1>7, <1>8, CapacityFact
  <2>2. ToPoll(t, s) = 0
    BY <1>4
  <2> SUFFICES /\ y > 0 \/ b > 0 => v + b <= y + 0
               /\ y + 0 <= m
               /\ v <= PollThreshold + 1 /\ v # PollThreshold + 1
    BY <2>2
  <2> HIDE DEF x, y, z, v, b, m
  <2>3. y > 0 \/ b > 0 => v + b <= y + 0
    BY <2>1
  <2>4. y + 0 <= m
    BY <2>1
  <2>5. v <= PollThreshold + 1 /\ v # PollThreshold + 1
    BY <2>1
  <2> QED BY <2>3, <2>4, <2>5
<1>15. ShapeInv'
  <2> SUFFICES ASSUME NEW s \in Servers, NEW i \in 1 .. Len(t), IsWork(t[i], s)
               PROVE  WorkShape(i, s)'
    BY <1>3 DEF ShapeInv
  <2>1. t[i].qp = s /\ s \in Touched(c) /\ t[i] = op[s]
    BY <1>2 DEF IsWork
  <2>2. OwnerOf(t[i]) = k
    BY <1>0, <2>1
  <2>3. \A j \in 1 .. Len(t) : ~ IsPoll(t[j], s)
    BY <1>2 DEF IsPoll
  <2>4. \A j \in 1 .. Len(t) : IsWork(t[j], s) => j = i
    BY <1>2, <2>1 DEF IsWork
  <2>5. OwnedShape(i, s, k)'
    <3>1. \A n \in 1 .. Len(sq'[s]) : sq'[s][n].owner # k
      <4> SUFFICES ASSUME NEW n \in 1 .. Len(sq[s]), sq[s][n].owner = k PROVE FALSE
        OBVIOUS
      <4>1. k <= Len(batches)
        BY <1>6 DEF QpIInv, OwnerInv
      <4> QED BY <1>0, <1>5, <4>1
    <3>2. batches'[k][s] > 0
      BY <1>6, <2>1
    <3>3. NoneKept(s)'
      <4>1. pendings[s] = 0 \/ OwedFrom(batches, s, 1) > 0
        BY <1>8, <2>1
      <4>2. NoneKept(s)
        BY <1>8, <4>1
      <4> QED BY <4>2 DEF NoneKept
    <3>4. Len(batches') = k /\ k # Mine
      BY <1>6
    <3> QED BY <3>1, <3>2, <3>3, <3>4 DEF OwnedShape
  <2> QED BY <1>3, <1>6, <2>2, <2>3, <2>4, <2>5 DEF WorkShape
<1> QED BY <1>9, <1>10, <1>11, <1>12, <1>13, <1>14, <1>15 DEF QpIInv

(* What a batch will be owed by each server. *)
LEMMA PollsFacts ==
  ASSUME NEW c \in Counts, NEW all \in BOOLEAN
  PROVE  /\ Polls(c, all) \in Batches
         /\ \A s \in Servers : s \notin Touched(c) => Polls(c, all)[s] = 0
         /\ \A s \in Touched(c) : Polls(c, all)[s] = IF all THEN c[s] ELSE 1
<1>1. /\ \A s \in Touched(c) : s \in Servers /\ c[s] \in 1 .. MaxBatch
      /\ \A s \in Servers : c[s] \in 0 .. MaxBatch /\ (s \notin Touched(c) => c[s] = 0)
  BY CountsFacts
<1>2. MaxBatch \in Nat /\ MaxBatch > 0
  BY MaxBatchFact
<1>3. \A s \in Servers : Polls(c, all)[s] = IF c[s] > 0 /\ ~ all THEN 1 ELSE c[s]
  BY DEF Polls
<1>4. Polls(c, all) \in Batches
  <2>1. \A s \in Servers : (IF c[s] > 0 /\ ~ all THEN 1 ELSE c[s]) \in 0 .. MaxBatch
    BY <1>1, <1>2
  <2> QED BY <2>1 DEF Polls, Batches
<1>5. \A s \in Touched(c) : s \in Servers /\ c[s] > 0
  BY <1>1, <1>2
<1>6. \A s \in Servers : s \notin Touched(c) => Polls(c, all)[s] = 0
  BY <1>1, <1>3
<1>7. \A s \in Touched(c) : Polls(c, all)[s] = IF all THEN c[s] ELSE 1
  BY <1>3, <1>5
<1> QED BY <1>4, <1>6, <1>7

(* The three asynchronous sends preserve the invariant. *)
LEMMA SendCalls ==
  ASSUME QpIInv, NEW c \in Counts, SendSignalled(c) \/ SendDoorbell(c) \/ SendLast(c)
  PROVE  QpIInv'
<1>1. /\ todo = <<>> /\ Len(batches) < MaxHops
      /\ UNCHANGED <<pendings, sq, done, failed>>
      /\ \A s \in Servers : c[s] > 0 => pendings[s] = 0 \/ \E k \in DOMAIN batches : batches[k][s] > 0
  BY DEF SendSignalled, SendDoorbell, SendLast, Start, Enqueue, first_send
<1>2. PICK k : k = Len(batches) + 1
  OBVIOUS
<1>3. \A s \in Touched(c) : s \in Servers /\ c[s] \in 1 .. MaxBatch /\ c[s] \in Nat /\ c[s] > 0
  BY CountsFacts
<1>4. \A s \in Touched(c) : pendings[s] = 0 \/ \E n \in DOMAIN batches : batches[n][s] > 0
  BY <1>1, <1>3
<1>5. k \in 0 .. MaxHops
  <2>1. Len(batches) \in 0 .. MaxHops /\ MaxHops \in Nat
    BY StateFacts, CapacityFact DEF QpIInv
  <2> QED BY <1>1, <1>2, <2>1
<1>6. CASE SendSignalled(c)
  <2> DEFINE op == [s \in Servers |-> Post(s, k, Flags(c[s], "all"))]
             p == Polls(c, TRUE)
  <2>1. todo' = PerServer(c, op) /\ batches' = Append(batches, p)
    BY <1>2, <1>6 DEF SendSignalled, Start, Enqueue
  <2>2. /\ p \in Batches /\ \A s \in Servers : s \notin Touched(c) => p[s] = 0
        /\ \A s \in Touched(c) : p[s] = c[s]
    BY PollsFacts
  <2>3. ASSUME NEW s \in Touched(c)
        PROVE  /\ op[s] \in Ops /\ op[s].qp = s /\ op[s].do \in {"post", "build"}
               /\ OwnerOf(op[s]) = k /\ BuildOf(s)[op[s]] \in {0, WorkOf(s)[op[s]]}
               /\ WorkOf(s)[op[s]] = p[s] /\ p[s] > 0
    <3> DEFINE n == c[s]
               o == Post(s, k, Flags(n, "all"))
    <3>1. s \in Servers /\ n \in 1 .. MaxBatch /\ n > 0 /\ p[s] = n
      BY <1>3, <2>2
    <3>2. op[s] = o
      BY <3>1
    <3> HIDE DEF n, op, p
    <3>3. /\ o \in Ops /\ o.do = "post" /\ o.qp = s /\ OwnerOf(o) = k
          /\ BuildOf(s)[o] = 0 /\ WorkOf(s)[o] = n
      BY <1>5, <3>1, ListOps
    <3> HIDE DEF o
    <3> QED BY <3>1, <3>2, <3>3
  <2> HIDE DEF op, p
  <2> QED BY <1>1, <1>2, <1>3, <1>4, <2>1, <2>2, <2>3, EnqueueIInv
<1>7. CASE SendDoorbell(c)
  <2> DEFINE op == [s \in Servers |-> Build(s, k, c[s], <<>>)]
             p == Polls(c, TRUE)
  <2>1. todo' = PerServer(c, op) /\ batches' = Append(batches, p)
    BY <1>2, <1>7 DEF SendDoorbell, Start, Enqueue
  <2>2. /\ p \in Batches /\ \A s \in Servers : s \notin Touched(c) => p[s] = 0
        /\ \A s \in Touched(c) : p[s] = c[s]
    BY PollsFacts
  <2>3. ASSUME NEW s \in Touched(c)
        PROVE  /\ op[s] \in Ops /\ op[s].qp = s /\ op[s].do \in {"post", "build"}
               /\ OwnerOf(op[s]) = k /\ BuildOf(s)[op[s]] \in {0, WorkOf(s)[op[s]]}
               /\ WorkOf(s)[op[s]] = p[s] /\ p[s] > 0
    <3> DEFINE n == c[s]
               o == Build(s, k, n, <<>>)
    <3>1. s \in Servers /\ n \in 1 .. MaxBatch /\ n > 0 /\ p[s] = n
      BY <1>3, <2>2
    <3>2. op[s] = o
      BY <3>1
    <3> HIDE DEF n, op, p
    <3>3. /\ o \in Ops /\ o.do = "build" /\ o.qp = s /\ OwnerOf(o) = k
          /\ BuildOf(s)[o] = n /\ WorkOf(s)[o] = n
      BY <1>5, <3>1, ListOps
    <3> HIDE DEF o
    <3> QED BY <3>1, <3>2, <3>3
  <2> HIDE DEF op, p
  <2> QED BY <1>1, <1>2, <1>3, <1>4, <2>1, <2>2, <2>3, EnqueueIInv
<1>8. CASE SendLast(c)
  <2> DEFINE op == [s \in Servers |-> Post(s, k, Flags(c[s], "last"))]
             p == Polls(c, FALSE)
  <2>1. todo' = PerServer(c, op) /\ batches' = Append(batches, p)
    BY <1>2, <1>8 DEF SendLast, Start, Enqueue
  <2>2. /\ p \in Batches /\ \A s \in Servers : s \notin Touched(c) => p[s] = 0
        /\ \A s \in Touched(c) : p[s] = 1
    BY PollsFacts
  <2>3. ASSUME NEW s \in Touched(c)
        PROVE  /\ op[s] \in Ops /\ op[s].qp = s /\ op[s].do \in {"post", "build"}
               /\ OwnerOf(op[s]) = k /\ BuildOf(s)[op[s]] \in {0, WorkOf(s)[op[s]]}
               /\ WorkOf(s)[op[s]] = p[s] /\ p[s] > 0
    <3> DEFINE n == c[s]
               o == Post(s, k, Flags(n, "last"))
    <3>1. s \in Servers /\ n \in 1 .. MaxBatch /\ p[s] = 1
      BY <1>3, <2>2
    <3>2. op[s] = o
      BY <3>1
    <3> HIDE DEF n, op, p
    <3>3. /\ o \in Ops /\ o.do = "post" /\ o.qp = s /\ OwnerOf(o) = k
          /\ BuildOf(s)[o] = 0 /\ WorkOf(s)[o] = 1
      BY <1>5, <3>1, ListOps
    <3> HIDE DEF o
    <3> QED BY <3>1, <3>2, <3>3
  <2> HIDE DEF op, p
  <2> QED BY <1>1, <1>2, <1>3, <1>4, <2>1, <2>2, <2>3, EnqueueIInv
<1> QED BY <1>6, <1>7, <1>8

(* The oldest batch leaves: the completions owed for the others stay. *)
LEMMA OwedTail ==
  ASSUME NEW b \in Seq(Batches), b # <<>>, NEW s \in Servers
  PROVE  /\ Tail(b) \in Seq(Batches) /\ Len(Tail(b)) = Len(b) - 1
         /\ \A n \in 1 .. Len(Tail(b)) : Tail(b)[n] = b[n + 1]
         /\ \A k \in Nat : k >= 1 => OwedFrom(Tail(b), s, k) = OwedFrom(b, s, k + 1)
         /\ OwedFrom(b, s, 1) = b[1][s] + OwedFrom(Tail(b), s, 1)
         /\ b[1][s] \in 0 .. MaxBatch /\ OwedFrom(Tail(b), s, 1) \in Nat
<1> DEFINE r == Tail(b)
<1>1. /\ r \in Seq(Batches) /\ Len(r) = Len(b) - 1 /\ Len(b) \in Nat /\ Len(b) >= 1
      /\ \A n \in 1 .. Len(r) : r[n] = b[n + 1]
  OBVIOUS
<1> HIDE DEF r
<1>2. PollsOf(s) \in [Batches -> Weights]
  BY BatchWeights
<1>3. IsRest(r, b, 1)
  BY <1>1 DEF IsRest
<1>4. \A k \in Nat : k >= 1 => Weight(r, PollsOf(s), k) = Weight(b, PollsOf(s), k + 1)
  BY <1>1, <1>2, <1>3, WeightRest
<1>5. \A k \in Nat : k >= 1 => OwedFrom(r, s, k) = OwedFrom(b, s, k + 1)
  BY <1>4 DEF OwedFrom
<1>6. 1 \in 1 .. Len(b) /\ 1 \in Int /\ 1 \in Nat /\ 1 >= 1
  BY <1>1
<1>7. /\ b[1][s] \in 0 .. MaxBatch
      /\ OwedFrom(b, s, 1) = b[1][s] + OwedFrom(b, s, 1 + 1)
      /\ OwedFrom(r, s, 1) \in Nat
  BY <1>1, <1>6, OwedFacts
<1> QED BY <1>1, <1>5, <1>6, <1>7 DEF r

(* Ownership moves up by one. *)
LEMMA OwnersMoveUp ==
  ASSUME NEW q \in Seq(Wrs), NEW p,
         p = [i \in DOMAIN q |-> [q[i] EXCEPT !.owner = OwnerAfterPop(@)]]
  PROVE  /\ p \in Seq(Wrs) /\ Len(p) = Len(q)
         /\ \A i \in 1 .. Len(q) : /\ p[i].signal = q[i].signal
                                   /\ p[i].owner = OwnerAfterPop(q[i].owner)
                                   /\ (p[i].owner = Nobody) <=> (q[i].owner = Nobody)
         /\ \A m : Signals(p, m) = Signals(q, m) /\ Blind(p, m) = Blind(q, m)
<1> DEFINE r == [i \in DOMAIN q |-> [q[i] EXCEPT !.owner = OwnerAfterPop(@)]]
<1>1. MaxHops \in Nat /\ Nobody = MaxHops + 1
  BY CapacityFact DEF Nobody
<1>2. ASSUME NEW w \in Wrs
      PROVE  LET v == [w EXCEPT !.owner = OwnerAfterPop(@)]
             IN  /\ v \in Wrs /\ v.signal = w.signal /\ v.owner = OwnerAfterPop(w.owner)
                 /\ (v.owner = Nobody) <=> (w.owner = Nobody)
  <2>1. w.owner \in 0 .. MaxHops + 1
    BY DEF Wrs
  <2>2. /\ OwnerAfterPop(w.owner) \in 0 .. MaxHops + 1
        /\ (OwnerAfterPop(w.owner) = Nobody) <=> (w.owner = Nobody)
    BY <1>1, <2>1 DEF OwnerAfterPop
  <2> DEFINE a == OwnerAfterPop(w.owner)
  <2> HIDE DEF a
  <2>3. [w EXCEPT !.owner = a] \in [owner : {a}, signal : {w.signal}]
    BY DEF Wrs
  <2>4. [w EXCEPT !.owner = a] \in Wrs
    BY <2>2 DEF a, Wrs
  <2> QED BY <2>2, <2>3, <2>4 DEF a
<1>3. \A i \in 1 .. Len(q) : q[i] \in Wrs
  OBVIOUS
<1>4. DOMAIN q = 1 .. Len(q) /\ Len(q) \in Nat
  OBVIOUS
<1>5. \A i \in 1 .. Len(q) : r[i] = [q[i] EXCEPT !.owner = OwnerAfterPop(@)]
  BY <1>4
<1>6. \A i \in 1 .. Len(q) : /\ r[i] \in Wrs /\ r[i].signal = q[i].signal
                             /\ r[i].owner = OwnerAfterPop(q[i].owner)
                             /\ (r[i].owner = Nobody) <=> (q[i].owner = Nobody)
  BY <1>2, <1>3, <1>5
<1>7. r \in Seq(Wrs) /\ Len(r) = Len(q)
  <2>1. DOMAIN r = 1 .. Len(q) /\ r = [i \in 1 .. Len(q) |-> r[i]]
    BY <1>4
  <2> HIDE DEF r
  <2> QED BY <1>4, <1>6, <2>1
<1> HIDE DEF r
<1>8. \A i \in 1 .. Len(q) : SignalOf[r[i]] = SignalOf[q[i]] /\ BlindOf[r[i]] = BlindOf[q[i]]
  BY <1>3, <1>6, RequestWeights
<1>9. \A m : Signals(r, m) = Signals(q, m) /\ Blind(r, m) = Blind(q, m)
  <2> TAKE m
  <2>1. /\ Len(r) = Len(q)
        /\ \A n \in 1 .. Len(r) : SignalOf[r[n]] = SignalOf[q[n]]
        /\ \A n \in 1 .. Len(r) : BlindOf[r[n]] = BlindOf[q[n]]
    BY <1>7, <1>8
  <2>2. Weight(r, SignalOf, m) = Weight(q, SignalOf, m)
    <3>1. Values(r, SignalOf) = Values(q, SignalOf)
      BY <2>1 DEF Values
    <3> QED BY <3>1 DEF Weight
  <2>3. Weight(r, BlindOf, m) = Weight(q, BlindOf, m)
    <3>1. Values(r, BlindOf) = Values(q, BlindOf)
      BY <2>1 DEF Values
    <3> QED BY <3>1 DEF Weight
  <2> QED BY <2>2, <2>3 DEF Signals, Blind
<1> QED BY <1>6, <1>7, <1>9 DEF r

(* The script of a wait: as many completions as the batch owes. *)
LEMMA WaitScript ==
  ASSUME NEW c \in Batches
  PROVE  LET t == PerServer(c, [s \in Servers |-> Poll(s, c[s])])
         IN  /\ t \in Seq(Ops)
             /\ \A i \in 1 .. Len(t) : t[i].do = "poll"
             /\ \A s \in Servers : ToPoll(t, s) = c[s] /\ ToBuild(t, s) = 0 /\ ToSignal(t, s) = 0
<1> DEFINE op == [s \in Servers |-> Poll(s, c[s])]
           t == PerServer(c, op)
<1>1. MaxBatch \in Nat /\ \A s \in Servers : c[s] \in 0 .. MaxBatch
  BY MaxBatchFact DEF Batches
<1>2. ASSUME NEW s \in Touched(c)
      PROVE  /\ s \in Servers /\ op[s] \in Ops /\ op[s].qp = s /\ op[s].do = "poll"
             /\ PollOf(s)[op[s]] = c[s] /\ BuildOf(s)[op[s]] = 0 /\ WorkOf(s)[op[s]] = 0
  <2> DEFINE n == c[s]
             o == Poll(s, n)
  <2>1. s \in Servers /\ n \in 1 .. MaxBatch
    BY <1>1 DEF Touched
  <2>2. op[s] = o
    BY <2>1
  <2> HIDE DEF n, op
  <2>3. /\ o \in Ops /\ o.do = "poll" /\ o.qp = s
        /\ PollOf(s)[o] = n /\ BuildOf(s)[o] = 0 /\ WorkOf(s)[o] = 0
    BY <2>1, PollOp
  <2> HIDE DEF o
  <2> QED BY <2>1, <2>2, <2>3 DEF n
<1> HIDE DEF op
<1>3. \A s \in Touched(c) : op[s] \in Ops /\ op[s].qp = s
  BY <1>2
<1>4. /\ t \in Seq(Ops)
      /\ \A i \in 1 .. Len(t) : t[i].qp \in Touched(c) /\ t[i] = op[t[i].qp]
  BY <1>3, PerServerScript
<1>5. \A i \in 1 .. Len(t) : t[i].do = "poll"
  BY <1>2, <1>4
<1>6. ASSUME NEW s \in Servers
      PROVE  ToPoll(t, s) = c[s] /\ ToBuild(t, s) = 0 /\ ToSignal(t, s) = 0
  <2>1. /\ ToPoll(t, s) = (IF s \in Touched(c) THEN PollOf(s)[op[s]] ELSE 0)
        /\ ToBuild(t, s) = (IF s \in Touched(c) THEN BuildOf(s)[op[s]] ELSE 0)
        /\ ToSignal(t, s) = (IF s \in Touched(c) THEN WorkOf(s)[op[s]] ELSE 0)
    BY <1>3, PerServerTotals
  <2>2. CASE s \in Touched(c)
    BY <1>2, <2>1, <2>2
  <2>3. CASE s \notin Touched(c)
    <3>1. c[s] = 0
      BY <1>1, <2>3 DEF Touched
    <3> QED BY <2>1, <2>3, <3>1
  <2> QED BY <2>2, <2>3
<1> QED BY <1>4, <1>5, <1>6 DEF op

(* The batch waited for becomes the call's own. *)
LEMMA WaitIInv ==
  ASSUME QpIInv, Wait
  PROVE  QpIInv'
<1>1. PICK c : c = Head(batches)
  OBVIOUS
<1>2. PICK t : t = PerServer(c, [s \in Servers |-> Poll(s, c[s])])
  OBVIOUS
<1>3. /\ batches # <<>> /\ todo = <<>> /\ todo' = t /\ batches' = Tail(batches)
      /\ sq' = [s \in Servers |-> [i \in DOMAIN sq[s] |->
                                     [sq[s][i] EXCEPT !.owner = OwnerAfterPop(@)]]]
      /\ UNCHANGED <<pendings, done, failed>>
  BY <1>1, <1>2 DEF Wait, Start
<1>4. /\ batches \in Seq(Batches) /\ Len(batches) \in 0 .. MaxHops /\ MaxHops \in Nat
      /\ MaxBatch \in Nat /\ MaxHops > 0 /\ PollThreshold \in Nat
      /\ sq \in [Servers -> Seq(Wrs)] /\ done \in [Servers -> Nat]
      /\ pendings \in [Servers -> Nat] /\ failed \in BOOLEAN
  BY StateFacts, CapacityFact, MaxBatchFact DEF QpIInv
<1>5. /\ c \in Batches /\ c = batches[1] /\ Len(batches) \in 1 .. MaxHops
      /\ batches' \in Seq(Batches) /\ Len(batches') = Len(batches) - 1
      /\ \A n \in 1 .. Len(batches') : batches'[n] = batches[n + 1]
  BY <1>1, <1>3, <1>4
<1>6. /\ t \in Seq(Ops)
      /\ \A i \in 1 .. Len(t) : t[i].do = "poll"
      /\ \A s \in Servers : ToPoll(t, s) = c[s] /\ ToBuild(t, s) = 0 /\ ToSignal(t, s) = 0
  BY <1>2, <1>5, WaitScript
<1>7. ASSUME NEW s \in Servers
      PROVE  /\ c[s] \in 0 .. MaxBatch /\ c[s] \in Nat
             /\ OwedFrom(batches, s, 1) = c[s] + OwedFrom(batches', s, 1)
             /\ OwedFrom(batches', s, 1) \in Nat /\ OwedFrom(batches, s, 1) \in Nat
  <2>1. /\ OwedFrom(batches, s, 1) = c[s] + OwedFrom(batches', s, 1)
        /\ c[s] \in 0 .. MaxBatch /\ OwedFrom(batches', s, 1) \in Nat
    BY <1>3, <1>4, <1>5, OwedTail
  <2>2. c[s] \in Nat
    BY <1>4, <2>1
  <2>3. OwedFrom(batches, s, 1) \in Nat
    BY <2>1, <2>2
  <2> QED BY <2>1, <2>2, <2>3
<1>7a. \A s \in Servers : \A k \in Nat :
         k >= 1 => OwedFrom(batches', s, k) = OwedFrom(batches, s, k + 1)
  BY <1>3, <1>4, OwedTail
<1>8. ASSUME NEW s \in Servers
      PROVE  /\ sq[s] \in Seq(Wrs) /\ sq'[s] \in Seq(Wrs) /\ Len(sq'[s]) = Len(sq[s])
             /\ Len(sq[s]) \in Nat
             /\ \A i \in 1 .. Len(sq[s]) :
                  /\ sq'[s][i].signal = sq[s][i].signal
                  /\ sq'[s][i].owner = OwnerAfterPop(sq[s][i].owner)
                  /\ (sq'[s][i].owner = Nobody) <=> (sq[s][i].owner = Nobody)
                  /\ sq[s][i].owner \in 1 .. MaxHops + 1
             /\ \A m : Signals(sq'[s], m) = Signals(sq[s], m) /\ Blind(sq'[s], m) = Blind(sq[s], m)
  <2>1. sq[s] \in Seq(Wrs)
    BY <1>4
  <2>2. sq'[s] = [i \in DOMAIN sq[s] |-> [sq[s][i] EXCEPT !.owner = OwnerAfterPop(@)]]
    BY <1>3
  <2>3. \A i \in 1 .. Len(sq[s]) : sq[s][i] \in Wrs /\ sq[s][i].owner # Mine
    BY <1>3, IdleFacts
  <2>4. \A i \in 1 .. Len(sq[s]) : sq[s][i].owner \in 1 .. MaxHops + 1
    BY <1>4, <2>3 DEF Wrs, Mine
  <2>5. Len(sq[s]) \in Nat
    BY <2>1
  <2>6. /\ sq'[s] \in Seq(Wrs) /\ Len(sq'[s]) = Len(sq[s])
        /\ \A i \in 1 .. Len(sq[s]) :
             /\ sq'[s][i].signal = sq[s][i].signal
             /\ sq'[s][i].owner = OwnerAfterPop(sq[s][i].owner)
             /\ (sq'[s][i].owner = Nobody) <=> (sq[s][i].owner = Nobody)
        /\ \A m : Signals(sq'[s], m) = Signals(sq[s], m) /\ Blind(sq'[s], m) = Blind(sq[s], m)
    BY <2>1, <2>2, OwnersMoveUp
  <2> QED BY <2>1, <2>4, <2>5, <2>6
<1>9. ASSUME NEW s \in Servers, NEW i \in 1 .. Len(sq[s]), sq[s][i].owner # Nobody
      PROVE  /\ sq[s][i].owner \in 1 .. MaxHops
             /\ sq'[s][i].owner = sq[s][i].owner - 1
             /\ sq'[s][i].owner + 1 = sq[s][i].owner
  <2>1. sq[s][i].owner \in 1 .. MaxHops + 1 /\ sq'[s][i].owner = OwnerAfterPop(sq[s][i].owner)
    BY <1>8
  <2>2. sq[s][i].owner \in 1 .. MaxHops
    BY <1>4, <1>9, <2>1 DEF Nobody
  <2> QED BY <1>4, <2>1, <2>2 DEF OwnerAfterPop
<1>10. ASSUME NEW s \in Servers
       PROVE  /\ ToPoll(todo, s) = 0 /\ ToBuild(todo, s) = 0 /\ ToSignal(todo, s) = 0
              /\ pendings[s] \in 0 .. PollThreshold /\ pendings[s] \in Nat
              /\ Signals(sq[s], 1) \in Nat
              /\ Signals(sq[s], 1) = OwedFrom(batches, s, 1)
                   + (IF pendings[s] > 0 /\ OwedFrom(batches, s, 1) = 0 THEN 1 ELSE 0)
              /\ OwedFrom(batches, s, 1) > 0 => pendings[s] <= OwedFrom(batches, s, 1)
  BY <1>3, <1>4, IdleFacts
<1>11. QpTypeInv' /\ ~ failed'
  <2>1. ~ failed'
    BY <1>3 DEF QpIInv
  <2>2. sq' \in [Servers -> Seq(Wrs)]
    <3>1. sq' = [s \in Servers |-> sq'[s]]
      BY <1>3
    <3> QED BY <1>8, <3>1
  <2>3. \A s \in Servers : done'[s] \in 0 .. Len(sq'[s])
    <3> SUFFICES ASSUME NEW s \in Servers PROVE done[s] \in 0 .. Len(sq'[s])
      BY <1>3
    <3>1. done[s] \in 0 .. Len(sq[s])
      BY StateFacts DEF QpIInv
    <3> QED BY <1>8, <3>1
  <2>4. batches' \in Seq([Servers -> 0 .. MaxBatch]) /\ Len(batches') <= MaxHops
    BY <1>4, <1>5 DEF Batches
  <2>5. QpTypeOK'
    <3>1. pendings' \in [Servers -> Nat] /\ failed' \in BOOLEAN
      <4>1. pendings' = pendings /\ failed' = failed
        BY <1>3
      <4> QED BY <1>4, <4>1
    <3> QED BY <2>2, <2>3, <2>4, <3>1 DEF QpTypeOK
  <2> QED BY <1>3, <1>4, <1>6, <2>1, <2>5 DEF QpTypeInv
<1>12. BalanceInv'
  <2> SUFFICES ASSUME NEW s \in Servers
               PROVE  Signals(sq'[s], 1) + ToSignal(t, s)
                        = OwedFrom(batches', s, 1) + ToPoll(t, s) + Extra(s)'
    BY <1>3 DEF BalanceInv
  <2>1. Extra(s)' = IF pendings[s] > 0 /\ OwedFrom(batches', s, 1) = 0 /\ c[s] = 0 THEN 1 ELSE 0
    BY <1>3, <1>6 DEF Extra
  <2> DEFINE x == OwedFrom(batches, s, 1)
             y == OwedFrom(batches', s, 1)
             z == c[s]
             v == pendings[s]
             u == Signals(sq[s], 1)
             e == Extra(s)'
  <2>2. /\ x \in Nat /\ z \in Nat /\ y \in Nat /\ x = z + y /\ v \in Nat /\ u \in Nat
        /\ u = x + (IF v > 0 /\ x = 0 THEN 1 ELSE 0)
        /\ e = IF v > 0 /\ y = 0 /\ z = 0 THEN 1 ELSE 0
    BY <1>7, <1>10, <2>1
  <2>3. Signals(sq'[s], 1) = u /\ ToPoll(t, s) = z /\ ToSignal(t, s) = 0
    BY <1>6, <1>8
  <2> SUFFICES u + 0 = y + z + e
    BY <2>3
  <2> HIDE DEF x, y, z, v, u, e
  <2> QED BY <2>2
<1>13. OwnerInv'
  <2> SUFFICES ASSUME NEW s \in Servers, NEW i \in 1 .. Len(sq[s]),
                      sq'[s][i].owner \in 1 .. MaxHops
               PROVE  sq'[s][i].owner <= Len(batches') /\ batches'[sq'[s][i].owner][s] > 0
    BY <1>8 DEF OwnerInv
  <2>1. sq[s][i].owner # Nobody
    <3>1. sq'[s][i].owner # Nobody
      BY <1>4 DEF Nobody
    <3> QED BY <1>8, <3>1
  <2>2. sq[s][i].owner \in 1 .. MaxHops /\ sq'[s][i].owner + 1 = sq[s][i].owner
    BY <1>9, <2>1
  <2>3. sq[s][i].owner <= Len(batches) /\ batches[sq[s][i].owner][s] > 0
    BY <2>2 DEF QpIInv, OwnerInv
  <2>4. sq'[s][i].owner <= Len(batches') /\ sq'[s][i].owner \in 1 .. Len(batches')
    BY <1>4, <1>5, <2>2, <2>3, SMTT(30)
  <2> QED BY <1>5, <2>2, <2>3, <2>4
<1>14. AheadInv'
  <2> SUFFICES ASSUME NEW s \in Servers, NEW i \in 1 .. Len(sq[s]),
                      sq'[s][i].owner \in 0 .. MaxHops
               PROVE  Signals(sq'[s], i) + ToSignal(t, s)
                        > OwedFrom(batches', s, sq'[s][i].owner + 1)
    BY <1>3, <1>8 DEF AheadInv
  <2>1. sq[s][i].owner # Nobody
    <3>1. sq'[s][i].owner # Nobody
      BY <1>4 DEF Nobody
    <3> QED BY <1>8, <3>1
  <2>2. sq[s][i].owner \in 1 .. MaxHops /\ sq'[s][i].owner + 1 = sq[s][i].owner
    BY <1>9, <2>1
  <2>3. Signals(sq[s], i) + ToSignal(todo, s) > OwedFrom(batches, s, sq[s][i].owner + 1)
    <3>1. sq[s][i].owner \in 0 .. MaxHops
      BY <1>4, <2>2
    <3> QED BY <3>1 DEF QpIInv, AheadInv
  <2>4. sq[s][i].owner \in Nat /\ sq[s][i].owner >= 1
    BY <1>4, <2>2
  <2>5. OwedFrom(batches', s, sq[s][i].owner) = OwedFrom(batches, s, sq[s][i].owner + 1)
    BY <1>7a, <2>4
  <2>6. Signals(sq'[s], i) = Signals(sq[s], i) /\ ToSignal(t, s) = 0 /\ ToSignal(todo, s) = 0
    BY <1>6, <1>8, <1>10
  <2> QED BY <2>2, <2>3, <2>5, <2>6
<1>15. MineInv'
  <2> SUFFICES ASSUME NEW s \in Servers, ToPoll(t, s) = 0, NEW i \in 1 .. Len(sq[s]),
                      sq'[s][i].owner = Mine
               PROVE  FALSE
    BY <1>3, <1>8 DEF MineInv
  <2>1. sq[s][i].owner # Nobody
    <3>1. sq'[s][i].owner # Nobody
      BY <1>4 DEF Nobody, Mine
    <3> QED BY <1>8, <3>1
  <2>2. sq[s][i].owner = 1
    BY <1>9, <2>1 DEF Mine
  <2>3. batches[1][s] > 0
    <3>1. 1 \in 1 .. MaxHops
      BY <1>4
    <3> QED BY <2>2, <3>1 DEF QpIInv, OwnerInv
  <2>4. c[s] > 0 /\ ToPoll(t, s) = c[s]
    BY <1>5, <1>6, <2>3
  <2> QED BY <2>4
<1>16. NearInv'
  <2> SUFFICES ASSUME NEW s \in Servers, NEW i \in 1 .. Len(sq[s]), NEW j \in 1 .. Len(sq[s]),
                      sq'[s][i].owner = sq'[s][j].owner, sq'[s][i].owner # Nobody
               PROVE  j - i < MaxBatch
    BY <1>8 DEF NearInv, Near
  <2>1. sq[s][i].owner # Nobody /\ sq[s][j].owner # Nobody
    BY <1>8
  <2>2. sq[s][i].owner = sq[s][j].owner
    <3>1. sq'[s][i].owner + 1 = sq[s][i].owner /\ sq'[s][j].owner + 1 = sq[s][j].owner
      BY <1>9, <2>1
    <3> QED BY <3>1
  <2> QED BY <2>1, <2>2 DEF QpIInv, NearInv, Near
<1>17. ASSUME NEW s \in Servers
       PROVE  /\ \A n \in 1 .. Len(sq[s]) : Kept(sq'[s][n]) <=> Kept(sq[s][n])
              /\ NoneKept(s)' <=> NoneKept(s)
  <2>1. \A n \in 1 .. Len(sq[s]) : Kept(sq'[s][n]) <=> Kept(sq[s][n])
    BY <1>8 DEF Kept
  <2>2. Len(sq'[s]) = Len(sq[s])
    BY <1>8
  <2> QED BY <2>1, <2>2 DEF NoneKept
<1>18. BlindInv'
  <2> SUFFICES ASSUME NEW s \in Servers
               PROVE  /\ NoneKept(s)' => Blind(sq'[s], 1) <= MaxBlind + KeptSlots
                      /\ \A n \in 1 .. Len(sq[s]) :
                           Kept(sq'[s][n]) =>
                             /\ "WriteSelective" \in Calls /\ pendings[s] > 0
                             /\ OwedFrom(batches', s, 1) = 0
                             /\ \A m \in 1 .. n - 1 : ~ sq'[s][m].signal
                             /\ Blind(sq'[s], n + 1) <= MaxBlind + pendings[s] - 1
                             /\ Blind(sq'[s], 1) <= MaxBlind + PollThreshold + pendings[s]
    BY <1>3, <1>8 DEF BlindInv
  <2>1. /\ NoneKept(s) => Blind(sq[s], 1) <= MaxBlind + KeptSlots
        /\ \A n \in 1 .. Len(sq[s]) :
             Kept(sq[s][n]) =>
               /\ "WriteSelective" \in Calls /\ pendings[s] > 0
               /\ OwedFrom(batches, s, 1) = 0
               /\ \A m \in 1 .. n - 1 : ~ sq[s][m].signal
               /\ Blind(sq[s], n + 1) <= MaxBlind + pendings[s] - 1
               /\ Blind(sq[s], 1) <= MaxBlind + PollThreshold + pendings[s]
    BY DEF QpIInv, BlindInv
  <2>2. \A m : Blind(sq'[s], m) = Blind(sq[s], m)
    BY <1>8
  <2>3. NoneKept(s)' => Blind(sq'[s], 1) <= MaxBlind + KeptSlots
    BY <1>17, <2>1, <2>2
  <2>4. ASSUME NEW n \in 1 .. Len(sq[s]), Kept(sq'[s][n])
        PROVE  /\ "WriteSelective" \in Calls /\ pendings[s] > 0
               /\ OwedFrom(batches', s, 1) = 0
               /\ \A m \in 1 .. n - 1 : ~ sq'[s][m].signal
               /\ Blind(sq'[s], n + 1) <= MaxBlind + pendings[s] - 1
               /\ Blind(sq'[s], 1) <= MaxBlind + PollThreshold + pendings[s]
    <3>1. Kept(sq[s][n])
      BY <1>17, <2>4
    <3>2. /\ "WriteSelective" \in Calls /\ pendings[s] > 0
          /\ OwedFrom(batches, s, 1) = 0
          /\ \A m \in 1 .. n - 1 : ~ sq[s][m].signal
          /\ Blind(sq[s], n + 1) <= MaxBlind + pendings[s] - 1
          /\ Blind(sq[s], 1) <= MaxBlind + PollThreshold + pendings[s]
      BY <2>1, <3>1
    <3>3. OwedFrom(batches', s, 1) = 0
      BY <1>7, <3>2
    <3>4. \A m \in 1 .. n - 1 : m \in 1 .. Len(sq[s])
      BY <1>8
    <3>5. \A m \in 1 .. n - 1 : ~ sq'[s][m].signal
      BY <1>8, <3>2, <3>4
    <3> QED BY <2>2, <3>2, <3>3, <3>5
  <2> QED BY <2>3, <2>4
<1>19. PendingInv'
  <2> SUFFICES ASSUME NEW s \in Servers
               PROVE  LET owed == OwedFrom(batches', s, 1) + ToPoll(t, s)
                          build == ToBuild(t, s)
                      IN  /\ \/ OwedFrom(batches', s, 1) > 0 /\ ToPoll(t, s) = 0
                             \/ build > 0
                             => pendings[s] + build <= owed
                          /\ build > 0 => owed <= MaxHops * MaxBatch
                          /\ pendings[s] <= PollThreshold + 1
                          /\ pendings[s] = PollThreshold + 1 => ToPoll(t, s) > 0
    BY <1>3 DEF PendingInv
  <2> DEFINE x == OwedFrom(batches, s, 1)
             y == OwedFrom(batches', s, 1)
             z == c[s]
             v == pendings[s]
             m == MaxHops * MaxBatch
  <2>1. /\ x \in Nat /\ z \in Nat /\ y \in Nat /\ x = z + y /\ v \in Nat /\ v <= PollThreshold
        /\ PollThreshold \in Nat
        /\ x > 0 => v <= x
    BY <1>4, <1>7, <1>10
  <2>2. ToPoll(t, s) = z /\ ToBuild(t, s) = 0
    BY <1>6
  <2> SUFFICES /\ y > 0 /\ z = 0 => v + 0 <= y + z
               /\ v <= PollThreshold + 1 /\ v # PollThreshold + 1
    BY <2>2
  <2> HIDE DEF x, y, z, v, m
  <2>3. y > 0 /\ z = 0 => v + 0 <= y + z
    BY <2>1
  <2>4. v <= PollThreshold + 1 /\ v # PollThreshold + 1
    BY <2>1
  <2> QED BY <2>3, <2>4
<1>20. ShapeInv'
  <2>1. \A s \in Servers : \A i \in 1 .. Len(t) : ~ IsWork(t[i], s)
    BY <1>6 DEF IsWork
  <2> QED BY <1>3, <2>1 DEF ShapeInv
<1> QED BY <1>11, <1>12, <1>13, <1>14, <1>15, <1>16, <1>18, <1>19, <1>20 DEF QpIInv

-----------------------------------------------------------------------------
(* Writes nobody waits for *)

(* A write nobody waits for, and the poll of a burst that reaches the threshold. *)
LEMMA BlindIInv ==
  ASSUME QpIInv, todo = <<>>, NEW s \in Servers, NEW m \in 0 .. 1, NEW n \in 0 .. 1,
         NEW o, o.do = "post", o.qp = s, OwnerOf(o) = Nobody,
         NEW t \in Seq(Ops), todo' = t, UNCHANGED <<sq, batches, done, failed>>,
         pendings' \in [Servers -> Nat], pendings'[s] >= pendings[s],
         \A r \in Servers : r # s => pendings'[r] = pendings[r],
         Len(t) >= 1, t[1] = o,
         \A i \in 2 .. Len(t) : t[i].do = "poll",
         \A r \in Servers : /\ ToPoll(t, r) = IF r = s THEN n ELSE 0
                            /\ ToBuild(t, r) = 0
                            /\ ToSignal(t, r) = IF r = s THEN m ELSE 0,
         Signals(sq[s], 1) + m
           = OwedFrom(batches, s, 1) + n
               + (IF pendings'[s] > 0 /\ OwedFrom(batches, s, 1) = 0 /\ n = 0 THEN 1 ELSE 0),
         OwedFrom(batches, s, 1) > 0 /\ n = 0 => pendings'[s] <= OwedFrom(batches, s, 1),
         pendings'[s] <= PollThreshold + 1,
         pendings'[s] = PollThreshold + 1 => n = 1,
         BlindShape(1, s, o.wrs[1])'
  PROVE  QpIInv'
<1>1. QpTypeInv' /\ OwnerInv' /\ NearInv' /\ ~ failed'
  <2>1. QpTypeInv'
    BY DEF QpIInv, QpTypeInv, QpTypeOK
  <2>2. OwnerInv' /\ NearInv' /\ ~ failed'
    BY DEF QpIInv, OwnerInv, NearInv
  <2> QED BY <2>1, <2>2
<1>2. ASSUME NEW r \in Servers
      PROVE  /\ OwedFrom(batches, r, 1) \in Nat /\ Signals(sq[r], 1) \in Nat
             /\ pendings[r] \in 0 .. PollThreshold /\ pendings[r] \in Nat
             /\ sq[r] \in Seq(Wrs)
             /\ \A i \in 1 .. Len(sq[r]) : sq[r][i].owner # Mine
             /\ Signals(sq[r], 1) = OwedFrom(batches, r, 1)
                  + (IF pendings[r] > 0 /\ OwedFrom(batches, r, 1) = 0 THEN 1 ELSE 0)
             /\ OwedFrom(batches, r, 1) > 0 => pendings[r] <= OwedFrom(batches, r, 1)
             /\ ToSignal(todo, r) = 0
  <2>1. sq[r] \in Seq(Wrs) /\ pendings[r] \in Nat
    BY StateFacts DEF QpIInv
  <2> QED BY <2>1, IdleFacts
<1>3. BalanceInv'
  <2> SUFFICES ASSUME NEW r \in Servers
               PROVE  Signals(sq[r], 1) + ToSignal(t, r)
                        = OwedFrom(batches, r, 1) + ToPoll(t, r) + Extra(r)'
    BY DEF BalanceInv
  <2>1. Extra(r)' = IF pendings'[r] > 0 /\ OwedFrom(batches, r, 1) = 0 /\ ToPoll(t, r) = 0 THEN 1 ELSE 0
    BY DEF Extra
  <2>2. CASE r = s
    BY <2>1, <2>2
  <2>3. CASE r # s
    <3>1. ToSignal(t, r) = 0 /\ ToPoll(t, r) = 0 /\ pendings'[r] = pendings[r]
      BY <2>3
    <3>2. Extra(r)' = IF pendings[r] > 0 /\ OwedFrom(batches, r, 1) = 0 THEN 1 ELSE 0
      BY <2>1, <3>1
    <3> DEFINE x == OwedFrom(batches, r, 1)
               u == Signals(sq[r], 1)
               v == pendings[r]
               e == Extra(r)'
    <3>3. /\ x \in Nat /\ u \in Nat /\ u = x + (IF v > 0 /\ x = 0 THEN 1 ELSE 0)
          /\ e = IF v > 0 /\ x = 0 THEN 1 ELSE 0
      BY <1>2, <3>2
    <3> SUFFICES u + 0 = x + 0 + e
      BY <3>1
    <3> HIDE DEF x, u, v, e
    <3> QED BY <3>3
  <2> QED BY <2>2, <2>3
<1>4. AheadInv'
  <2> SUFFICES ASSUME NEW r \in Servers, NEW i \in 1 .. Len(sq[r]),
                      sq[r][i].owner \in 0 .. MaxHops
               PROVE  Signals(sq[r], i) + ToSignal(t, r) > OwedFrom(batches, r, sq[r][i].owner + 1)
    BY DEF AheadInv
  <2>1. Signals(sq[r], i) + ToSignal(todo, r) > OwedFrom(batches, r, sq[r][i].owner + 1)
    BY DEF QpIInv, AheadInv
  <2>2. ToSignal(todo, r) = 0 /\ ToSignal(t, r) \in {0, 1}
    BY <1>2
  <2>3. Signals(sq[r], i) \in Nat /\ OwedFrom(batches, r, sq[r][i].owner + 1) \in Nat
    <3>1. i \in Int /\ sq[r][i].owner + 1 \in Int /\ batches \in Seq(Batches)
      <4>1. MaxHops \in Nat
        BY CapacityFact
      <4>2. batches \in Seq(Batches)
        BY StateFacts DEF QpIInv
      <4> QED BY <4>1, <4>2
    <3> QED BY <1>2, <3>1, RequestsType, OwedFacts
  <2> DEFINE u == Signals(sq[r], i)
             x == OwedFrom(batches, r, sq[r][i].owner + 1)
             z == ToSignal(t, r)
  <2>4. u \in Nat /\ x \in Nat /\ z \in {0, 1} /\ u + 0 > x
    BY <2>1, <2>2, <2>3
  <2> HIDE DEF u, x, z
  <2>5. u + z > x
    BY <2>4
  <2> QED BY <2>5 DEF u, x, z
<1>5. MineInv'
  BY <1>2 DEF MineInv
<1>6. BlindInv'
  <2> SUFFICES ASSUME NEW r \in Servers
               PROVE  /\ NoneKept(r) => Blind(sq[r], 1) <= MaxBlind + KeptSlots
                      /\ \A p \in 1 .. Len(sq[r]) :
                           Kept(sq[r][p]) =>
                             /\ "WriteSelective" \in Calls /\ pendings'[r] > 0
                             /\ OwedFrom(batches, r, 1) = 0
                             /\ \A j \in 1 .. p - 1 : ~ sq[r][j].signal
                             /\ Blind(sq[r], p + 1) <= MaxBlind + pendings'[r] - 1
                             /\ Blind(sq[r], 1) <= MaxBlind + PollThreshold + pendings'[r]
    BY DEF BlindInv, NoneKept
  <2>1. /\ NoneKept(r) => Blind(sq[r], 1) <= MaxBlind + KeptSlots
        /\ \A p \in 1 .. Len(sq[r]) :
             Kept(sq[r][p]) =>
               /\ "WriteSelective" \in Calls /\ pendings[r] > 0
               /\ OwedFrom(batches, r, 1) = 0
               /\ \A j \in 1 .. p - 1 : ~ sq[r][j].signal
               /\ Blind(sq[r], p + 1) <= MaxBlind + pendings[r] - 1
               /\ Blind(sq[r], 1) <= MaxBlind + PollThreshold + pendings[r]
    BY DEF QpIInv, BlindInv
  <2>2. pendings'[r] >= pendings[r] /\ pendings'[r] \in Nat /\ pendings[r] \in Nat
    <3>1. pendings'[r] \in Nat /\ pendings[r] \in Nat
      BY <1>2
    <3>2. r = s \/ pendings'[r] = pendings[r]
      OBVIOUS
    <3> QED BY <3>1, <3>2
  <2>3. ASSUME NEW p \in 1 .. Len(sq[r]), Kept(sq[r][p])
        PROVE  /\ pendings'[r] > 0
               /\ Blind(sq[r], p + 1) <= MaxBlind + pendings'[r] - 1
               /\ Blind(sq[r], 1) <= MaxBlind + PollThreshold + pendings'[r]
    <3> DEFINE x == Blind(sq[r], p + 1)
               y == Blind(sq[r], 1)
               v == pendings[r]
               w == pendings'[r]
    <3>1. p + 1 \in Int /\ 1 \in Int
      OBVIOUS
    <3>2. x \in Nat /\ y \in Nat /\ v \in Nat /\ w \in Nat /\ w >= v /\ v > 0
          /\ x <= MaxBlind + v - 1 /\ y <= MaxBlind + PollThreshold + v
          /\ MaxBlind \in Nat /\ PollThreshold \in Nat
      BY <1>2, <2>1, <2>2, <2>3, <3>1, RequestsType, CapacityFact
    <3> HIDE DEF x, y, v, w
    <3>3. w > 0 /\ x <= MaxBlind + w - 1 /\ y <= MaxBlind + PollThreshold + w
      BY <3>2, SMTT(30)
    <3> QED BY <3>3 DEF x, y, w
  <2> QED BY <2>1, <2>3
<1>7. PendingInv'
  <2> SUFFICES ASSUME NEW r \in Servers
               PROVE  LET owed == OwedFrom(batches, r, 1) + ToPoll(t, r)
                          build == ToBuild(t, r)
                      IN  /\ \/ OwedFrom(batches, r, 1) > 0 /\ ToPoll(t, r) = 0
                             \/ build > 0
                             => pendings'[r] + build <= owed
                          /\ build > 0 => owed <= MaxHops * MaxBatch
                          /\ pendings'[r] <= PollThreshold + 1
                          /\ pendings'[r] = PollThreshold + 1 => ToPoll(t, r) > 0
    BY DEF PendingInv
  <2> DEFINE x == OwedFrom(batches, r, 1)
             a == ToPoll(t, r)
             w == pendings'[r]
  <2>1. x \in Nat /\ a \in 0 .. 1 /\ w \in Nat /\ PollThreshold \in Nat /\ ToBuild(t, r) = 0
    <3>1. x \in Nat
      BY <1>2
    <3>2. PollThreshold \in Nat
      BY CapacityFact
    <3>3. ToBuild(t, r) = 0 /\ a = IF r = s THEN n ELSE 0
      OBVIOUS
    <3>4. w \in Nat
      OBVIOUS
    <3> HIDE DEF x, a, w
    <3> QED BY <3>1, <3>2, <3>3, <3>4
  <2>2. /\ x > 0 /\ a = 0 => w <= x
        /\ w <= PollThreshold + 1
        /\ w = PollThreshold + 1 => a = 1
    <3>1. CASE r = s
      BY <3>1
    <3>2. CASE r # s
      <4>1. w = pendings[r]
        BY <3>2
      <4>2. x > 0 => w <= x
        BY <1>2, <4>1
      <4>3. w \in 0 .. PollThreshold
        BY <1>2, <4>1
      <4> HIDE DEF x, a, w
      <4> QED BY <2>1, <4>2, <4>3
    <3> QED BY <3>1, <3>2
  <2> SUFFICES /\ x > 0 /\ a = 0 => w + 0 <= x + a
               /\ w <= PollThreshold + 1
               /\ w = PollThreshold + 1 => a > 0
    BY <2>1
  <2> HIDE DEF x, a, w
  <2> QED BY <2>1, <2>2
<1>8. ShapeInv'
  <2> SUFFICES ASSUME NEW r \in Servers, NEW i \in 1 .. Len(t), IsWork(t[i], r)
               PROVE  WorkShape(i, r)'
    BY DEF ShapeInv
  <2>1. t[1].do = "post" /\ t[1].qp = s /\ OwnerOf(t[1]) = Nobody /\ t[1].wrs[1] = o.wrs[1]
    OBVIOUS
  <2>2. i = 1
    <3>1. i \notin 2 .. Len(t)
      BY DEF IsWork
    <3> QED BY <3>1
  <2>3. r = s
    BY <2>1, <2>2 DEF IsWork
  <2>4. \A j \in 1 .. Len(t) : IsWork(t[j], r) => j = 1
    <3>1. \A j \in 1 .. Len(t) : j = 1 \/ j \in 2 .. Len(t)
      OBVIOUS
    <3> QED BY <3>1 DEF IsWork
  <2> QED BY <2>1, <2>2, <2>3, <2>4 DEF WorkShape
<1> QED BY <1>1, <1>3, <1>4, <1>5, <1>6, <1>7, <1>8 DEF QpIInv

(* The script of such a write, with or without a completion to take. *)
LEMMA BlindScript ==
  ASSUME NEW s \in Servers, NEW o \in Ops, o.do = "post", NEW n \in 0 .. 1, NEW t,
         n = 0 => t = <<o>>, n = 1 => t = <<o, Poll(s, 1)>>
  PROVE  /\ t \in Seq(Ops) /\ Len(t) = n + 1 /\ t[1] = o
         /\ \A i \in 2 .. Len(t) : t[i].do = "poll"
         /\ \A r : /\ ToPoll(t, r) = IF r = s THEN n ELSE 0
                   /\ ToBuild(t, r) = 0
                   /\ ToSignal(t, r) = WorkOf(r)[o]
<1>1. 1 \in 1 .. MaxBatch
  BY MaxBatchFact
<1>2. ASSUME NEW r
      PROVE  /\ PollOf(r)[o] = 0 /\ BuildOf(r)[o] = 0 /\ WorkOf(r)[o] \in Nat
             /\ PollOf(r) \in [Ops -> Weights] /\ BuildOf(r) \in [Ops -> Weights]
             /\ WorkOf(r) \in [Ops -> Weights]
  <2>1. o.do # "poll" /\ o.do # "build"
    OBVIOUS
  <2>2. /\ PollOf(r) \in [Ops -> Weights] /\ BuildOf(r) \in [Ops -> Weights]
        /\ WorkOf(r) \in [Ops -> Weights]
    BY ScriptWeights
  <2>3. PollOf(r)[o] = 0 /\ BuildOf(r)[o] = 0
    BY <2>1, ScriptWeights DEF IsPoll
  <2>4. WorkOf(r)[o] \in Nat
    BY <2>2, MaxBatchFact DEF Weights
  <2> QED BY <2>2, <2>3, <2>4
<1>3. CASE n = 0
  <2>1. t = <<o>>
    BY <1>3
  <2>2. t \in Seq(Ops) /\ Len(t) = n + 1 /\ t[1] = o /\ \A i \in 2 .. Len(t) : FALSE
    BY <1>3, <2>1
  <2>3. ASSUME NEW r
        PROVE  /\ ToPoll(t, r) = 0 /\ ToBuild(t, r) = 0
               /\ ToSignal(t, r) = WorkOf(r)[o]
    <3>1. /\ ToPoll(t, r) = PollOf(r)[o] /\ ToBuild(t, r) = BuildOf(r)[o]
          /\ ToSignal(t, r) = WorkOf(r)[o]
      BY <1>2, <2>1, WeightOne DEF ToPoll, ToBuild, ToSignal
    <3> QED BY <1>2, <3>1
  <2> QED BY <1>3, <2>2, <2>3
<1>4. CASE n = 1
  <2> DEFINE p == Poll(s, 1)
  <2>1. /\ p \in Ops /\ p.do = "poll"
        /\ \A r : /\ PollOf(r)[p] = IF r = s THEN 1 ELSE 0
                  /\ BuildOf(r)[p] = 0 /\ WorkOf(r)[p] = 0
    BY <1>1, PollOp
  <2>2. t = <<o, p>>
    BY <1>4
  <2> HIDE DEF p
  <2>3. t \in Seq(Ops) /\ Len(t) = 2 /\ t[1] = o /\ t[2] = p
    BY <2>1, <2>2
  <2>4. \A i \in 2 .. Len(t) : t[i].do = "poll"
    BY <2>1, <2>3
  <2>5. ASSUME NEW r
        PROVE  /\ ToPoll(t, r) = IF r = s THEN 1 ELSE 0
               /\ ToBuild(t, r) = 0 /\ ToSignal(t, r) = WorkOf(r)[o]
    <3>1. /\ ToPoll(t, r) = PollOf(r)[o] + PollOf(r)[p]
          /\ ToBuild(t, r) = BuildOf(r)[o] + BuildOf(r)[p]
          /\ ToSignal(t, r) = WorkOf(r)[o] + WorkOf(r)[p]
      BY <2>1, <2>2, ScriptPair
    <3>2. PollOf(r)[p] = (IF r = s THEN 1 ELSE 0) /\ BuildOf(r)[p] = 0 /\ WorkOf(r)[p] = 0
      BY <2>1
    <3> QED BY <1>2, <3>1, <3>2
  <2> QED BY <1>4, <2>3, <2>4, <2>5
<1> QED BY <1>3, <1>4

(* The request of such a write. *)
LEMMA BlindPost ==
  ASSUME NEW s \in Servers, NEW b \in BOOLEAN
  PROVE  LET o == Post(s, Nobody, <<b>>)
         IN  /\ o \in Ops /\ o.do = "post" /\ o.qp = s /\ OwnerOf(o) = Nobody
             /\ o.wrs[1].owner = Nobody /\ (o.wrs[1].signal <=> b)
             /\ \A r : /\ PollOf(r)[o] = 0 /\ BuildOf(r)[o] = 0
                       /\ WorkOf(r)[o] = IF r = s THEN (IF b THEN 1 ELSE 0) ELSE 0
<1> DEFINE o == Post(s, Nobody, <<b>>)
<1>1. Nobody \in 0 .. MaxHops + 1
  BY CapacityFact DEF Nobody
<1>2. /\ o \in Ops /\ o.do = "post" /\ o.qp = s /\ OwnerOf(o) = Nobody
      /\ o.wrs[1] = [owner |-> Nobody, signal |-> b]
      /\ \A r : /\ PollOf(r)[o] = 0 /\ BuildOf(r)[o] = 0
                /\ WorkOf(r)[o] = IF r = s /\ b THEN 1 ELSE 0
  BY <1>1, OnePost
<1> HIDE DEF o
<1>3. o.wrs[1].owner = Nobody /\ (o.wrs[1].signal <=> b)
  BY <1>2
<1>4. \A r : WorkOf(r)[o] = IF r = s THEN (IF b THEN 1 ELSE 0) ELSE 0
  BY <1>2
<1> QED BY <1>2, <1>3, <1>4 DEF o

(* An unsignalled write preserves the invariant. *)
LEMMA WriteNonSignalIInv ==
  ASSUME QpIInv, NEW s \in Servers, WriteNonSignal(s)
  PROVE  QpIInv'
<1>1. /\ todo = <<>> /\ Len(sq[s]) < MaxBlind
      /\ UNCHANGED <<pendings, sq, batches, done, failed>>
  BY DEF WriteNonSignal, Start
<1>2. PICK o : o = Post(s, Nobody, <<FALSE>>)
  OBVIOUS
<1>3. todo' = <<o>>
  BY <1>2 DEF WriteNonSignal, Start
<1>4. /\ o \in Ops /\ o.do = "post" /\ o.qp = s /\ OwnerOf(o) = Nobody
      /\ ~ o.wrs[1].signal
      /\ \A r : /\ PollOf(r)[o] = 0 /\ BuildOf(r)[o] = 0 /\ WorkOf(r)[o] = 0
  <2> DEFINE b == FALSE
  <2>1. b \in BOOLEAN /\ ~ b /\ o = Post(s, Nobody, <<b>>)
    BY <1>2
  <2> HIDE DEF b
  <2> DEFINE a == Post(s, Nobody, <<b>>)
  <2>2. /\ a \in Ops /\ a.do = "post" /\ a.qp = s /\ OwnerOf(a) = Nobody
        /\ (a.wrs[1].signal <=> b)
        /\ \A r : /\ PollOf(r)[a] = 0 /\ BuildOf(r)[a] = 0
                  /\ WorkOf(r)[a] = IF r = s THEN (IF b THEN 1 ELSE 0) ELSE 0
    BY <2>1, BlindPost
  <2>3. o = a
    BY <2>1
  <2> HIDE DEF a
  <2> QED BY <2>1, <2>2, <2>3
<1>5. PICK n \in 0 .. 1 : n = 0
  OBVIOUS
<1>6. PICK t : t = <<o>>
  OBVIOUS
<1>7. /\ t \in Seq(Ops) /\ Len(t) = n + 1 /\ t[1] = o
      /\ \A i \in 2 .. Len(t) : t[i].do = "poll"
      /\ \A r \in Servers : /\ ToPoll(t, r) = IF r = s THEN n ELSE 0
                            /\ ToBuild(t, r) = 0
                            /\ ToSignal(t, r) = IF r = s THEN n ELSE 0
  <2>1. \A r : WorkOf(r)[o] = IF r = s THEN n ELSE 0
    BY <1>4, <1>5
  <2>2. /\ t \in Seq(Ops) /\ Len(t) = n + 1 /\ t[1] = o
        /\ \A i \in 2 .. Len(t) : t[i].do = "poll"
        /\ \A r : /\ ToPoll(t, r) = IF r = s THEN n ELSE 0
                  /\ ToBuild(t, r) = 0
                  /\ ToSignal(t, r) = WorkOf(r)[o]
    BY <1>4, <1>5, <1>6, BlindScript
  <2> QED BY <2>1, <2>2
<1>8. todo' = t
  BY <1>3, <1>6
<1>9. /\ OwedFrom(batches, s, 1) \in Nat /\ Signals(sq[s], 1) \in Nat
      /\ pendings[s] \in 0 .. PollThreshold /\ PollThreshold \in Nat
      /\ Signals(sq[s], 1) = OwedFrom(batches, s, 1)
           + (IF pendings[s] > 0 /\ OwedFrom(batches, s, 1) = 0 THEN 1 ELSE 0)
      /\ OwedFrom(batches, s, 1) > 0 => pendings[s] <= OwedFrom(batches, s, 1)
  BY <1>1, IdleFacts, CapacityFact
<1>10. BlindShape(1, s, o.wrs[1])'
  <2>1. Len(sq'[s]) < MaxBlind
    BY <1>1
  <2>2. Len(todo') = 1
    BY <1>5, <1>7, <1>8
  <2> QED BY <1>4, <2>1, <2>2 DEF BlindShape
<1>11. /\ pendings' \in [Servers -> Nat] /\ pendings'[s] >= pendings[s]
       /\ pendings'[s] = pendings[s]
       /\ \A r \in Servers : r # s => pendings'[r] = pendings[r]
  <2>1. pendings' = pendings /\ pendings \in [Servers -> Nat]
    BY <1>1, StateFacts DEF QpIInv
  <2> QED BY <2>1
<1>12. /\ Signals(sq[s], 1) + n
            = OwedFrom(batches, s, 1) + n
                + (IF pendings'[s] > 0 /\ OwedFrom(batches, s, 1) = 0 /\ n = 0 THEN 1 ELSE 0)
       /\ OwedFrom(batches, s, 1) > 0 /\ n = 0 => pendings'[s] <= OwedFrom(batches, s, 1)
       /\ pendings'[s] <= PollThreshold + 1
       /\ pendings'[s] = PollThreshold + 1 => n = 1
  <2> DEFINE x == OwedFrom(batches, s, 1)
             u == Signals(sq[s], 1)
             v == pendings'[s]
  <2>1. /\ x \in Nat /\ u \in Nat /\ v \in 0 .. PollThreshold /\ PollThreshold \in Nat
        /\ u = x + (IF v > 0 /\ x = 0 THEN 1 ELSE 0)
        /\ x > 0 => v <= x
    BY <1>9, <1>11
  <2> SUFFICES /\ u + n = x + n + (IF v > 0 /\ x = 0 /\ n = 0 THEN 1 ELSE 0)
               /\ x > 0 /\ n = 0 => v <= x
               /\ v <= PollThreshold + 1
               /\ v = PollThreshold + 1 => n = 1
    OBVIOUS
  <2> HIDE DEF x, u, v
  <2> QED BY <1>5, <2>1
<1>13. Len(t) >= 1
  BY <1>5, <1>7
<1> QED BY <1>1, <1>4, <1>7, <1>8, <1>10, <1>11, <1>12, <1>13, BlindIInv

(* A selective write preserves the invariant. *)
LEMMA WriteSelectiveIInv ==
  ASSUME QpIInv, NEW s \in Servers, WriteSelective(s)
  PROVE  QpIInv'
<1>1. PICK v : v = pendings[s]
  OBVIOUS
<1>2. PICK b \in BOOLEAN : b <=> v = 0
  OBVIOUS
<1>3. PICK n \in 0 .. 1 : n = 1 <=> v >= PollThreshold
  OBVIOUS
<1>4. PICK m \in 0 .. 1 : m = IF b THEN 1 ELSE 0
  OBVIOUS
<1>5. PICK o : o = Post(s, Nobody, <<b>>)
  OBVIOUS
<1>6. PICK t : t = IF n = 1 THEN <<o, Poll(s, 1)>> ELSE <<o>>
  OBVIOUS
<1>7. /\ todo = <<>> /\ batches = <<>> /\ "WriteSelective" \in Calls
      /\ pendings' = [pendings EXCEPT ![s] = @ + 1]
      /\ UNCHANGED <<sq, batches, done, failed>>
  BY DEF WriteSelective, Start, Quiet
<1>8. v \in 0 .. PollThreshold /\ v \in Nat /\ PollThreshold \in Nat /\ PollThreshold > 0
  BY <1>1, <1>7, IdleFacts, CapacityFact
<1>9. /\ b \in BOOLEAN /\ (b <=> v = 0) /\ n \in 0 .. 1
      /\ n = 1 => v = PollThreshold
      /\ v = PollThreshold => n = 1
  BY <1>2, <1>3, <1>8
<1>10. /\ o \in Ops /\ o.do = "post" /\ o.qp = s /\ OwnerOf(o) = Nobody
       /\ o.wrs[1].owner = Nobody /\ (o.wrs[1].signal <=> b)
       /\ \A r : /\ PollOf(r)[o] = 0 /\ BuildOf(r)[o] = 0
                 /\ WorkOf(r)[o] = IF r = s THEN m ELSE 0
  <2> DEFINE a == Post(s, Nobody, <<b>>)
  <2>1. /\ a \in Ops /\ a.do = "post" /\ a.qp = s /\ OwnerOf(a) = Nobody
        /\ a.wrs[1].owner = Nobody /\ (a.wrs[1].signal <=> b)
        /\ \A r : /\ PollOf(r)[a] = 0 /\ BuildOf(r)[a] = 0
                  /\ WorkOf(r)[a] = IF r = s THEN (IF b THEN 1 ELSE 0) ELSE 0
    BY BlindPost
  <2>2. o = a
    BY <1>5
  <2> HIDE DEF a
  <2> QED BY <1>4, <2>1, <2>2
<1>11. todo' = t
  <2>1. todo' = <<Post(s, Nobody, <<first_send(s)>>)>>
                  \o (IF need_poll(s) THEN <<Poll(s, 1)>> ELSE <<>>)
    BY DEF WriteSelective, Start
  <2>2. (first_send(s) = b) /\ (need_poll(s) <=> n = 1)
    BY <1>1, <1>2, <1>3 DEF first_send, need_poll
  <2>3. CASE n = 1
    <3>1. todo' = <<o>> \o <<Poll(s, 1)>> /\ t = <<o, Poll(s, 1)>>
      BY <1>5, <1>6, <2>1, <2>2, <2>3 DEF first_send
    <3> DEFINE p == Poll(s, 1)
    <3>2. p \in Ops
      <4>1. 1 \in 1 .. MaxBatch
        BY MaxBatchFact
      <4> QED BY <4>1, PollOp
    <3>3. <<o>> \o <<p>> = <<o, p>>
      <4> HIDE DEF p
      <4> QED BY <1>10, <3>2, PairConcat
    <3> QED BY <3>1, <3>3
  <2>4. CASE n = 0
    <3>1. todo' = <<o>> \o <<>> /\ t = <<o>>
      BY <1>5, <1>6, <2>1, <2>2, <2>4 DEF first_send
    <3> QED BY <3>1
  <2>5. n = 0 \/ n = 1
    BY <1>3
  <2> QED BY <2>3, <2>4, <2>5
<1>12. /\ t \in Seq(Ops) /\ Len(t) = n + 1 /\ t[1] = o
       /\ \A i \in 2 .. Len(t) : t[i].do = "poll"
       /\ \A r \in Servers : /\ ToPoll(t, r) = IF r = s THEN n ELSE 0
                             /\ ToBuild(t, r) = 0
                             /\ ToSignal(t, r) = IF r = s THEN m ELSE 0
  <2>1. /\ n = 0 => t = <<o>>
        /\ n = 1 => t = <<o, Poll(s, 1)>>
        /\ n \in 0 .. 1 /\ o \in Ops /\ o.do = "post"
    BY <1>3, <1>6, <1>10
  <2>2. /\ t \in Seq(Ops) /\ Len(t) = n + 1 /\ t[1] = o
        /\ \A i \in 2 .. Len(t) : t[i].do = "poll"
        /\ \A r : /\ ToPoll(t, r) = IF r = s THEN n ELSE 0
                  /\ ToBuild(t, r) = 0
                  /\ ToSignal(t, r) = WorkOf(r)[o]
    <3>1. o.do = "post" /\ o \in Ops /\ n \in 0 .. 1
      BY <2>1
    <3>2. n = 0 => t = <<o>>
      BY <2>1
    <3>3. n = 1 => t = <<o, Poll(s, 1)>>
      BY <2>1
    <3> QED BY <3>1, <3>2, <3>3, BlindScript
  <2> QED BY <1>10, <2>2
<1>13. /\ OwedFrom(batches, s, 1) = 0
       /\ Signals(sq[s], 1) = IF v > 0 THEN 1 ELSE 0
       /\ \A i \in 1 .. Len(sq[s]) : sq[s][i].owner = Nobody
       /\ v = 0 => NoneKept(s)
  BY <1>1, <1>7, QuietFacts, IdleFacts
<1>14. /\ pendings' \in [Servers -> Nat] /\ pendings'[s] = v + 1
       /\ \A r \in Servers : r # s => pendings'[r] = pendings[r]
  <2>1. pendings \in [Servers -> Nat]
    BY StateFacts DEF QpIInv
  <2> QED BY <1>1, <1>7, <2>1
<1>15. BlindShape(1, s, o.wrs[1])'
  <2>1. sq[s] \in Seq(Wrs) /\ 1 \in Int
    BY StateFacts DEF QpIInv
  <2>2. CASE v = 0
    <3>1. \A i \in 1 .. Len(sq[s]) : ~ sq[s][i].signal
      <4>1. ~ (Signals(sq[s], 1) > 0)
        BY <1>13, <2>2
      <4>2. \A i \in 1 .. Len(sq[s]) : i >= 1
        OBVIOUS
      <4> QED BY <2>1, <4>1, <4>2, RequestsType
    <3>2. Blind(sq[s], 1) <= MaxBlind + PollThreshold
      <4>1. KeptSlots = PollThreshold
        BY <1>7, CapacityFact
      <4>2. Blind(sq[s], 1) <= MaxBlind + KeptSlots
        BY <1>13, <2>2 DEF QpIInv, BlindInv
      <4> QED BY <4>1, <4>2
    <3>3. pendings'[s] > 0 /\ o.wrs[1].signal
      BY <1>2, <1>8, <1>9, <1>10, <1>14, <2>2
    <3>4. Len(todo') <= 2 /\ (Len(todo') = 2 => todo'[2].do = "poll")
      BY <1>11, <1>9, <1>12
    <3> QED BY <1>7, <1>13, <3>1, <3>2, <3>3, <3>4 DEF BlindShape
  <2>3. CASE v # 0
    <3>1. PICK p \in 1 .. Len(sq[s]) : sq[s][p].signal
      <4>1. Signals(sq[s], 1) # 0
        BY <1>8, <1>13, <2>3
      <4> QED BY <2>1, <4>1, RequestsType
    <3>2. Kept(sq[s][p])
      BY <1>13, <3>1 DEF Kept
    <3>3. Blind(sq[s], p + 1) <= MaxBlind + v - 1 /\ Blind(sq[s], 1) <= MaxBlind + PollThreshold + v
      BY <1>1, <3>2 DEF QpIInv, BlindInv
    <3>4. /\ Blind(sq[s], p + 1) < MaxBlind + pendings'[s] - 1
          /\ Blind(sq[s], 1) < MaxBlind + PollThreshold + pendings'[s]
      <4> DEFINE x == Blind(sq[s], p + 1)
                 y == Blind(sq[s], 1)
      <4>1. p + 1 \in Int
        OBVIOUS
      <4>2. x \in Nat /\ y \in Nat
        BY <2>1, <4>1, RequestsType
      <4>3. /\ x <= MaxBlind + v - 1 /\ y <= MaxBlind + PollThreshold + v
            /\ MaxBlind \in Nat
        BY <3>3, CapacityFact
      <4> HIDE DEF x, y
      <4>4. x < MaxBlind + (v + 1) - 1 /\ y < MaxBlind + PollThreshold + (v + 1)
        BY <1>8, <4>2, <4>3
      <4> QED BY <1>14, <4>4 DEF x, y
    <3>5. pendings'[s] > 0 /\ ~ o.wrs[1].signal
      BY <1>2, <1>8, <1>9, <1>10, <1>14, <2>3
    <3>6. Len(todo') <= 2 /\ (Len(todo') = 2 => todo'[2].do = "poll")
      BY <1>11, <1>9, <1>12
    <3>7. \E q \in 1 .. Len(sq[s]) :
            /\ Kept(sq[s][q])
            /\ Blind(sq[s], q + 1) < MaxBlind + pendings'[s] - 1
            /\ Blind(sq[s], 1) < MaxBlind + PollThreshold + pendings'[s]
      BY <3>2, <3>4
    <3> QED BY <1>7, <1>13, <3>5, <3>6, <3>7 DEF BlindShape
  <2> QED BY <2>2, <2>3
<1>16. /\ Signals(sq[s], 1) + m
            = OwedFrom(batches, s, 1) + n
                + (IF pendings'[s] > 0 /\ OwedFrom(batches, s, 1) = 0 /\ n = 0 THEN 1 ELSE 0)
       /\ OwedFrom(batches, s, 1) > 0 /\ n = 0 => pendings'[s] <= OwedFrom(batches, s, 1)
       /\ pendings'[s] <= PollThreshold + 1
       /\ pendings'[s] = PollThreshold + 1 => n = 1
       /\ pendings'[s] >= pendings[s]
  <2> DEFINE x == OwedFrom(batches, s, 1)
             u == Signals(sq[s], 1)
             w == pendings'[s]
  <2>1. /\ x = 0 /\ u = (IF v > 0 THEN 1 ELSE 0) /\ w = v + 1
    BY <1>13, <1>14
  <2> SUFFICES /\ u + m = x + n + (IF w > 0 /\ x = 0 /\ n = 0 THEN 1 ELSE 0)
               /\ x > 0 /\ n = 0 => w <= x
               /\ w <= PollThreshold + 1
               /\ w = PollThreshold + 1 => n = 1
               /\ w >= v
    BY <1>1
  <2> HIDE DEF x, u, w
  <2>2. u + m = 1
    BY <1>2, <1>4, <1>8, <2>1
  <2>3. x + n + (IF w > 0 /\ x = 0 /\ n = 0 THEN 1 ELSE 0) = 1
    BY <1>8, <1>9, <2>1
  <2>4. /\ x > 0 /\ n = 0 => w <= x
        /\ w <= PollThreshold + 1
        /\ w = PollThreshold + 1 => n = 1
        /\ w >= v
    BY <1>3, <1>8, <1>9, <2>1
  <2> QED BY <2>2, <2>3, <2>4
<1>17. Len(t) >= 1
  BY <1>9, <1>12
<1>18. /\ m \in 0 .. 1 /\ n \in 0 .. 1
  BY <1>3, <1>4
<1>19. /\ o.do = "post" /\ o.qp = s /\ OwnerOf(o) = Nobody
       /\ t \in Seq(Ops) /\ todo' = t /\ UNCHANGED <<sq, batches, done, failed>>
       /\ pendings' \in [Servers -> Nat] /\ pendings'[s] >= pendings[s]
       /\ todo = <<>>
  <2>1. o.do = "post" /\ o.qp = s /\ OwnerOf(o) = Nobody
    BY <1>10
  <2>2. t \in Seq(Ops)
    BY <1>12
  <2>3. todo = <<>> /\ UNCHANGED <<sq, batches, done, failed>>
    BY <1>7
  <2>4. pendings' \in [Servers -> Nat] /\ pendings'[s] >= pendings[s]
    BY <1>14, <1>16
  <2> QED BY <1>11, <2>1, <2>2, <2>3, <2>4
<1>20. /\ \A r \in Servers : r # s => pendings'[r] = pendings[r]
       /\ Len(t) >= 1 /\ t[1] = o
  BY <1>12, <1>14, <1>17
<1> QED BY <1>12, <1>15, <1>16, <1>18, <1>19, <1>20, BlindIInv

-----------------------------------------------------------------------------
(* Every step *)

(* Every call preserves the invariant. *)
LEMMA CallIInv ==
  ASSUME QpIInv, Call
  PROVE  QpIInv'
<1>1. CASE \E s \in Servers : FetchAndAdd(s) \/ Read(s) \/ Write(s)
  BY <1>1, SingleCalls
<1>2. CASE \E s \in Servers : WriteNonSignal(s)
  BY <1>2, WriteNonSignalIInv
<1>3. CASE \E s \in Servers : WriteSelective(s)
  BY <1>3, WriteSelectiveIInv
<1>4. CASE \E c \in Counts : ReadBatch(c) \/ ReadBatchDoorbell(c) \/ ReadBatchUnsignal(c)
  BY <1>4, BatchCalls
<1>5. CASE \E c \in Counts : SendSignalled(c) \/ SendDoorbell(c) \/ SendLast(c)
  BY <1>5, SendCalls
<1>6. CASE Wait
  BY <1>6, WaitIInv
<1> QED BY <1>1, <1>2, <1>3, <1>4, <1>5, <1>6 DEF Call

(* So does every step. *)
LEMMA QpNextIInv ==
  ASSUME QpIInv, [QpNext]_qpVars
  PROVE  QpIInv'
<1>1. CASE Call
  BY <1>1, CallIInv
<1>2. CASE PostStep
  BY <1>2, PostIInv
<1>3. CASE BuildStep
  BY <1>3, BuildIInv
<1>4. CASE PollStep
  BY <1>4, PollIInv
<1>5. CASE \E s \in Servers : Nic(s)
  BY <1>5, NicStep
<1>6. CASE UNCHANGED qpVars
  BY <1>6, StutterIInv
<1> QED BY <1>1, <1>2, <1>3, <1>4, <1>5, <1>6 DEF QpNext, Thread

(* The inductive invariant holds of every state the calls can reach. *)
THEOREM QpInvariant == QpSpec => []QpIInv
<1>1. QpInit => QpIInv
  BY QpInitIInv
<1>2. QpIInv /\ [QpNext]_qpVars => QpIInv'
  BY QpNextIInv
<1> QED BY <1>1, <1>2, PTL DEF QpSpec

(* What was executed is in the send queue, and the batches in flight are at *)
(* most MaxHops: RDMA_Device's calls and rc_post_send, rc_post_doorbell,    *)
(* poll_completion keep the types.                                          *)
THEOREM QpTypeCorrect == QpSpec => []QpTypeOK
<1>1. QpIInv => QpTypeOK
  BY DEF QpIInv, QpTypeInv
<1> QED BY <1>1, QpInvariant, PTL

(* When a call or a wait has returned, what it was about has been executed: *)
(* the completions that poll_completion gave it were its own.               *)
THEOREM DataArrived == QpSpec => []OwnDataArrived
<1>1. ASSUME QpIInv PROVE OwnDataArrived
  <2> SUFFICES ASSUME todo = <<>>, NEW s \in Servers, NEW i \in done[s] + 1 .. Len(sq[s])
               PROVE  sq[s][i].owner # Mine
    BY DEF OwnDataArrived
  <2>1. done[s] \in 0 .. Len(sq[s]) /\ Len(sq[s]) \in Nat
    BY <1>1, StateFacts DEF QpIInv
  <2>2. i \in 1 .. Len(sq[s])
    BY <2>1
  <2> QED BY <1>1, <2>2, IdleFacts
<1> QED BY <1>1, QpInvariant, PTL

(* The count of signalled requests is the number of their positions. *)
LEMMA SignalledCount ==
  ASSUME NEW q \in Seq(Wrs)
  PROVE  Cardinality({i \in DOMAIN q : q[i].signal}) = Signals(q, 1)
<1> DEFINE T == {i \in 1 .. Len(q) : i >= 1 /\ SignalOf[q[i]] = 1}
<1>1. Cardinality(T) = Weight(q, SignalOf, 1)
  <2>1. SignalOf \in [Wrs -> 0 .. 1] /\ 1 \in Int
    BY RequestWeights
  <2> QED BY <2>1, WeightOfOnes
<1>2. {i \in DOMAIN q : q[i].signal} = T
  <2>1. \A i \in 1 .. Len(q) : i >= 1 /\ (SignalOf[q[i]] = 1 <=> q[i].signal)
    <3> TAKE i \in 1 .. Len(q)
    <3>1. q[i] \in Wrs
      OBVIOUS
    <3> QED BY <3>1, RequestWeights
  <2>2. DOMAIN q = 1 .. Len(q)
    OBVIOUS
  <2> QED BY <2>1, <2>2
<1> HIDE DEF T
<1> QED BY <1>1, <1>2 DEF Signals

(* What the batches are owed, as CompletionsAccounted counts it. *)
LEMMA OwedCount ==
  ASSUME QpTypeInv, NEW s \in Servers
  PROVE  Cardinality(Owed(s)) = OwedFrom(batches, s, 1)
<1> DEFINE f == Values(batches, PollsOf(s))
<1>1. batches \in Seq(Batches) /\ Len(batches) \in Nat
  BY StateFacts
<1>2. Len(f) = Len(batches) /\ \A n \in 1 .. Len(batches) : f[n] = batches[n][s]
  <2>1. /\ Len(f) = Len(batches)
        /\ \A n \in 1 .. Len(batches) : f[n] = PollsOf(s)[batches[n]]
    BY <1>1, BatchWeights, ValuesType
  <2>2. \A n \in 1 .. Len(batches) : batches[n] \in Batches
    BY <1>1
  <2> QED BY <2>1, <2>2, BatchWeights
<1> HIDE DEF f
<1>3. Owed(s) = Units(f, 1)
  <2> SUFFICES ASSUME NEW x \in (1 .. Len(batches)) \X (1 .. MaxBatch)
               PROVE  x[2] <= batches[x[1]][s] <=> x[1] >= 1 /\ x[2] <= f[x[1]]
    BY <1>2 DEF Owed, Units
  <2>1. x[1] \in 1 .. Len(batches) /\ x[1] >= 1
    OBVIOUS
  <2> QED BY <1>2, <2>1
<1> QED BY <1>3 DEF OwedFrom, Weight, Total, f

(* Between calls the completions a queue pair still delivers are those that *)
(* the waits for the batches of thd_polls will take, and one more after     *)
(* selective writes: no later call takes them for its own.                  *)
THEOREM NoneLeftOver == QpSpec => []CompletionsAccounted
<1>1. ASSUME QpIInv PROVE CompletionsAccounted
  <2> SUFFICES ASSUME todo = <<>>, NEW s \in Servers
               PROVE  Cardinality({i \in DOMAIN sq[s] : sq[s][i].signal})
                        = IF Cardinality(Owed(s)) = 0 /\ ~ first_send(s) THEN 1
                          ELSE Cardinality(Owed(s))
    BY <1>1 DEF CompletionsAccounted, QpIInv, QpTypeInv
  <2>1. sq[s] \in Seq(Wrs)
    BY <1>1, StateFacts DEF QpIInv
  <2>2. Cardinality({i \in DOMAIN sq[s] : sq[s][i].signal}) = Signals(sq[s], 1)
    BY <2>1, SignalledCount
  <2>3. Cardinality(Owed(s)) = OwedFrom(batches, s, 1)
    BY <1>1, OwedCount DEF QpIInv
  <2>4. /\ Signals(sq[s], 1) = OwedFrom(batches, s, 1)
             + (IF pendings[s] > 0 /\ OwedFrom(batches, s, 1) = 0 THEN 1 ELSE 0)
        /\ OwedFrom(batches, s, 1) \in Nat /\ pendings[s] \in 0 .. PollThreshold
    BY <1>1, IdleFacts
  <2>5. ~ first_send(s) <=> pendings[s] > 0
    BY <2>4, CapacityFact DEF first_send
  <2> QED BY <2>2, <2>3, <2>4, <2>5
<1> QED BY <1>1, QpInvariant, PTL

(* No ibv_post_send finds the send queue full, so the error rc_post_send    *)
(* drops never occurs: the requests of the batches in flight and the blind  *)
(* writes together fit the RC_MAX_SEND_SIZE slots.                          *)
THEOREM PostsFit == QpSpec => []NoPostFails
<1>1. QpIInv => NoPostFails
  BY DEF QpIInv, NoPostFails
<1> QED BY <1>1, QpInvariant, PTL
=============================================================================
