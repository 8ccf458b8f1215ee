--------------------------- MODULE ConnectionSetup ---------------------------
(***************************************************************************)
(* How the servers connect their queue pairs: RDMA_Device (core/rdma.hpp,  *)
(* lines 62-152) over RdmaCtrl, Qp and PreConnector (rdma_lib).            *)
(*                                                                         *)
(* The main thread of a server starts a thread that answers requests,      *)
(* creates one queue pair per thread and peer, and then sweeps over them:  *)
(* for each one that is not connected it asks the peer, over TCP, for the  *)
(* queue pair at the other end.  The peer may not listen yet, may not have *)
(* created that queue pair yet, and TCP may be slow: the attempt then      *)
(* fails, and a later sweep repeats it.  After the barrier that follows    *)
(* the initialisation, threads read the memory of any server.              *)
(*                                                                         *)
(* A main thread has one connection open at a time.  A connection that is  *)
(* closed before a request was sent on it has no effect on the peer.       *)
(***************************************************************************)
EXTENDS RdmaServers

CONSTANT NumThreads    \* nthds

ASSUME ConnectionAssumption ==
  /\ NumServers \in Nat \ {0}
  /\ NumThreads \in 1 .. 10000   \* RC_ID_BASE .. UC_ID_BASE

(* The queue pairs of a server, in the order of the two nested loops. *)
QpNum == NumThreads * NumServers
Qps == 0 .. QpNum - 1
ThreadOf(k) == k \div NumServers
PeerOf(k) == k % NumServers

(* _QP_ENCODE_ID of an index below 2^16. *)
QpId(mac, index) == mac * 65536 + index

(* The key of queue pair k in the map qps_ of its server (line 1329). *)
Key(k) == QpId(PeerOf(k), ThreadOf(k))

(* Fault: the request names the peer instead of the sender. *)
RequestedIdOfPeer(s, k) == QpId(PeerOf(k), ThreadOf(k))

(* remote_qid of connect_rc (line 318): the queue pair of the peer for the
   same thread of this server. *)
RequestedId(s, k) == QpId(s, ThreadOf(k))

None == <<>>

VARIABLES
  listening,  \* does the recv_thread of a server listen?
  created,    \* the number of queue pairs a server has created
  pc,         \* where the main thread of a server is
  at,         \* the queue pair its sweep is at
  connected,  \* the local variable of that name
  remote,     \* remote[s][k]: the end a queue pair is connected to, or None
  requests,   \* requests[d]: the connections to server d with a request sent
  reply       \* reply[s]: the reply to the main thread of s, or None

vars == <<listening, created, pc, at, connected, remote, requests, reply>>

Request == [from : Servers, qid : Nat]
Ends == Servers \X Qps
Reply == [status : {"TCPSUCC"}, qp : Ends] \cup [status : {"TCPFAIL"}]

TypeOK ==
  /\ listening \in [Servers -> BOOLEAN]
  /\ created \in [Servers -> 0 .. QpNum]
  /\ pc \in [Servers -> {"create", "sweep", "wait", "ready", "run"}]
  /\ at \in [Servers -> 0 .. QpNum]
  /\ connected \in [Servers -> 0 .. QpNum]
  /\ remote \in [Servers -> [Qps -> Ends \cup {None}]]
  /\ requests \in [Servers -> SUBSET Request]
  /\ reply \in [Servers -> Reply \cup {None}]

Init ==
  /\ listening = [s \in Servers |-> FALSE]
  /\ created = [s \in Servers |-> 0]
  /\ pc = [s \in Servers |-> "create"]
  /\ at = [s \in Servers |-> 0]
  /\ connected = [s \in Servers |-> 0]
  /\ remote = [s \in Servers |-> [k \in Qps |-> None]]
  /\ requests = [s \in Servers |-> {}]
  /\ reply = [s \in Servers |-> None]

-----------------------------------------------------------------------------
(* recv_thread *)

Listen(d) ==
  /\ ~ listening[d]
  /\ listening' = [listening EXCEPT ![d] = TRUE]
  /\ UNCHANGED <<created, pc, at, connected, remote, requests, reply>>

(* The lookup in qps_, under the lock that create_rc_qp takes. *)
Answers(d, qid) ==
  LET found == {k \in Qps : k < created[d] /\ Key(k) = qid} IN
  IF found = {} THEN [status : {"TCPFAIL"}]
  ELSE [status : {"TCPSUCC"}, qp : {d} \X found]

(* One request: accept, look up, reply. *)
Serve(d) ==
  /\ listening[d]
  /\ \E r \in requests[d] :
       /\ requests' = [requests EXCEPT ![d] = @ \ {r}]
       /\ \E answer \in Answers(d, r.qid) :
            reply' = [reply EXCEPT ![r.from] = answer]
  /\ UNCHANGED <<listening, created, pc, at, connected, remote>>

-----------------------------------------------------------------------------
(* The main thread *)

CreateQp(s) ==
  /\ pc[s] = "create"
  /\ created[s] < QpNum
  /\ created' = [created EXCEPT ![s] = @ + 1]
  /\ UNCHANGED <<listening, pc, at, connected, remote, requests, reply>>

EndCreate(s) ==
  /\ pc[s] = "create"
  /\ created[s] = QpNum
  /\ pc' = [pc EXCEPT ![s] = "sweep"]
  /\ UNCHANGED <<listening, created, at, connected, remote, requests, reply>>

Inited(s, k) == remote[s][k] # None

CountAndGoOn(s) ==
  /\ at' = [at EXCEPT ![s] = @ + 1]
  /\ connected' = [connected EXCEPT ![s] = @ + 1]
  /\ pc' = [pc EXCEPT ![s] = "sweep"]

GoOn(s) ==
  /\ at' = [at EXCEPT ![s] = @ + 1]
  /\ pc' = [pc EXCEPT ![s] = "sweep"]
  /\ UNCHANGED connected

(* qp->inited_, lines 144-145. *)
AlreadyConnected(s) ==
  /\ pc[s] = "sweep"
  /\ at[s] < QpNum
  /\ Inited(s, at[s])
  /\ CountAndGoOn(s)
  /\ UNCHANGED <<listening, created, remote, requests, reply>>

(* connect_rc up to its wait for the reply ... *)
SendRequest(s) ==
  LET d == PeerOf(at[s]) IN
  /\ pc[s] = "sweep"
  /\ at[s] < QpNum
  /\ ~ Inited(s, at[s])
  /\ listening[d]
  /\ requests' =
       [requests EXCEPT ![d] =
          @ \cup {[from |-> s, qid |-> RequestedId(s, at[s])]}]
  /\ pc' = [pc EXCEPT ![s] = "wait"]
  /\ UNCHANGED <<listening, created, at, connected, remote, reply>>

(* ... or its failure before that: the peer refuses the connection, or it is
   not established within the timeout of get_send_socket. *)
ConnectFails(s) ==
  /\ pc[s] = "sweep"
  /\ at[s] < QpNum
  /\ ~ Inited(s, at[s])
  /\ GoOn(s)
  /\ UNCHANGED <<listening, created, remote, requests, reply>>

TakeReply(s) == reply' = [reply EXCEPT ![s] = None]

(* TCPSUCC: change_qp_states with the attributes of the peer's queue pair. *)
Connect(s) ==
  /\ pc[s] = "wait"
  /\ reply[s] # None
  /\ reply[s].status = "TCPSUCC"
  /\ remote' = [remote EXCEPT ![s][at[s]] = reply[s].qp]
  /\ CountAndGoOn(s)
  /\ TakeReply(s)
  /\ UNCHANGED <<listening, created, requests>>

(* TCPFAIL, or a recv on the non-blocking socket that returned a part of the
   reply: lines 351-371. *)
ReplyFails(s) ==
  /\ pc[s] = "wait"
  /\ reply[s] # None
  /\ GoOn(s)
  /\ TakeReply(s)
  /\ UNCHANGED <<listening, created, remote, requests>>

NewCount(s) == 0

(* Fault: only the first sweep begins at the first queue pair. *)
SecondQp == 1

FirstQp == 0

EndSweep(s) ==
  /\ pc[s] = "sweep"
  /\ at[s] = QpNum
  /\ IF connected[s] = QpNum
       THEN /\ pc' = [pc EXCEPT ![s] = "ready"]
            /\ UNCHANGED <<at, connected>>
       ELSE /\ at' = [at EXCEPT ![s] = FirstQp]
            /\ connected' = [connected EXCEPT ![s] = NewCount(s)]
            /\ UNCHANGED pc
  /\ UNCHANGED <<listening, created, remote, requests, reply>>

(* Fault: no barrier. *)
NoBarrier == TRUE

AllReady == \A r \in Servers : pc[r] \in {"ready", "run"}

(* world.barrier() after RDMA_init (tests/test_search_distributed.cpp, line
   785): from here on the threads of this server read remote memory. *)
Run(s) ==
  /\ pc[s] = "ready"
  /\ AllReady
  /\ pc' = [pc EXCEPT ![s] = "run"]
  /\ UNCHANGED <<listening, created, at, connected, remote, requests, reply>>

Main(s) ==
  \/ CreateQp(s)
  \/ EndCreate(s)
  \/ AlreadyConnected(s)
  \/ SendRequest(s)
  \/ ConnectFails(s)
  \/ Connect(s)
  \/ ReplyFails(s)
  \/ EndSweep(s)
  \/ Run(s)

AllRun == \A s \in Servers : pc[s] = "run"

Next ==
  \/ \E s \in Servers : Main(s) \/ Listen(s) \/ Serve(s)
  \/ AllRun /\ UNCHANGED vars

Spec == Init /\ [][Next]_vars

(* The threads run.  An attempt to connect one queue pair that is made again
   and again does not fail every time for want of a connection, nor is its
   reply cut short every time. *)
FairSpec ==
  /\ Spec
  /\ \A s \in Servers : WF_vars(Main(s)) /\ WF_vars(Listen(s)) /\ WF_vars(Serve(s))
  /\ \A s \in Servers, k \in Qps :
       /\ SF_vars(at[s] = k /\ SendRequest(s))
       /\ SF_vars(at[s] = k /\ Connect(s))

-----------------------------------------------------------------------------
(* Properties *)

(* A connected queue pair leads to the queue pair of the peer that belongs to
   the same thread and leads back here: the reads of a thread to a server run
   between these two ends whatever attempts failed before. *)
PairedQueuePairs ==
  \A s \in Servers, k \in Qps :
    Inited(s, k) =>
      LET end == remote[s][k] IN
      /\ end[1] = PeerOf(k)
      /\ PeerOf(end[2]) = s
      /\ ThreadOf(end[2]) = ThreadOf(k)

(* When a thread may read, its queue pairs are connected, and the other end of
   each is connected back to it: a read to a queue pair that its server has not
   connected yet would fail, and poll_completion asserts that none does. *)
PeersReady ==
  \A s \in Servers :
    pc[s] = "run" =>
      \A k \in Qps :
        /\ Inited(s, k)
        /\ remote[remote[s][k][1]][remote[s][k][2]] = <<s, k>>

(* Every server gets to run: the sweeps of the servers do not wait for each
   other in a circle, and a failed attempt is repeated until it succeeds. *)
EveryServerRuns == <>AllRun
=============================================================================
