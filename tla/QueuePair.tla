----------------------------- MODULE QueuePair -----------------------------
(***************************************************************************)
(* The RC queue pairs of one thread and the one-sided calls of RDMA_Device *)
(* on them.  A thread owns one queue pair per server; a call posts work    *)
(* requests (rc_post_send, rc_post_doorbell) and spins on the completion   *)
(* queue (poll_completion, poll_completions).  Completions carry nothing   *)
(* that the calls look at, so a call returns when it has taken the right   *)
(* NUMBER of them: whether they were its own is what this module is about. *)
(*                                                                         *)
(* A call is a script, `todo': what is left to post and to poll.  The NIC  *)
(* executes the requests of one queue pair in order and reclaims the slots *)
(* of the send queue up to the last request whose completion was polled.   *)
(***************************************************************************)
EXTENDS RdmaServers, Sequences, FiniteSets

CONSTANTS Capacity,       \* RC_MAX_SEND_SIZE: slots of a send queue
          PollThreshold,  \* POLL_THRSHOLD
          MaxBatch,       \* requests of a call to one server (MAX_DOORBELL_SIZE)
          MaxHops,        \* batches in flight (relax + 1)
          MaxBlind,       \* slots that blind writes may take before a polled call
          Calls           \* the calls this client makes

CallNames == {"FetchAndAdd", "Read", "ReadBatch", "ReadBatchDoorbell",
              "ReadBatchUnsignal", "SendSignalled", "SendDoorbell", "SendLast",
              "Wait", "Write", "WriteNonSignal", "WriteSelective"}

\* What the client owes the library: the batches in flight fit the send
\* queue and stay below the polling threshold, and a burst of selective
\* writes, whose slots come back one burst late, fits twice.
ASSUME QueuePairAssumption ==
    /\ NumServers \in Nat \ {0} /\ MaxBatch \in Nat \ {0}
    /\ MaxHops \in Nat \ {0} /\ MaxBlind \in Nat
    /\ Capacity \in Nat /\ PollThreshold \in Nat \ {0}
    /\ Calls \subseteq CallNames
    /\ MaxHops * MaxBatch <= PollThreshold
    /\ MaxBlind + (MaxHops + 1) * MaxBatch <= Capacity
    /\ "WriteSelective" \in Calls => MaxBlind + 2 * PollThreshold + MaxBatch <= Capacity

Counts == {c \in [Servers -> 0 .. MaxBatch] : \E s \in Servers : c[s] > 0}

VARIABLES pendings,  \* Qp::pendings of each queue pair
          sq,        \* requests whose slot of the send queue is taken, oldest first
          done,      \* how many of them the NIC has executed
          todo,      \* what the running call has left to do
          batches,   \* asynchronous batches not waited for: thd_polls
          failed     \* an ibv_post_send found no slot; rc_post_send ignores it

qpVars == <<pendings, sq, done, todo, batches, failed>>

\* Who waits for a request: the running call, the k-th batch in flight, nobody.
Mine == 0
Nobody == MaxHops + 1
Wrs == [owner : 0 .. MaxHops + 1, signal : BOOLEAN]

-----------------------------------------------------------------------------
(* Qp *)

first_send(s) == pendings[s] = 0

\* Fault: the threshold is the length of the send queue, or no
\* threshold at all.
NeedPollLate(s) == pendings[s] >= Capacity
NeedPollAlways(s) == pendings[s] > 0
need_poll(s) == pendings[s] >= PollThreshold

\* Fault: the first request of a list is signalled, not the last.
FlagsFirst(n, which) == [i \in 1 .. n |-> which = "all" \/ (which = "last" /\ i = 1)]

\* The send flags of n requests: all signalled, the last one only, or none.
Flags(n, which) == [i \in 1 .. n |-> which = "all" \/ (which = "last" /\ i = n)]

Post(s, owner, flags) ==
    [do |-> "post", qp |-> s, wrs |-> [i \in DOMAIN flags |->
                                         [owner |-> owner, signal |-> flags[i]]]]
Build(s, owner, n, wrs) == [do |-> "build", qp |-> s, owner |-> owner, left |-> n, wrs |-> wrs]
Poll(s, n) == [do |-> "poll", qp |-> s, left |-> n]

Running(what) == todo # <<>> /\ Head(todo).do = what

\* ibv_post_send of a list: requests take slots until none is left.
PostStep ==
    /\ Running("post")
    /\ LET s == Head(todo).qp
           wrs == Head(todo).wrs
           room == Capacity - Len(sq[s])
       IN  /\ sq' = [sq EXCEPT ![s] = @ \o SubSeq(wrs, 1, IF Len(wrs) <= room THEN Len(wrs) ELSE room)]
           /\ failed' = (failed \/ Len(wrs) > room)
    /\ todo' = Tail(todo)
    /\ UNCHANGED <<pendings, done, batches>>

\* rc_post_doorbell fills in one request: signalled anyway by its flags and
\* by first_send, counted by need_poll, which may poll before anything of
\* the list is posted.
BuildStep ==
    /\ Running("build")
    /\ LET h == Head(todo)
           wr == [owner |-> h.owner, signal |-> TRUE]
           next == IF h.left = 1
                   THEN [do |-> "post", qp |-> h.qp, wrs |-> Append(h.wrs, wr)]
                   ELSE [h EXCEPT !.left = @ - 1, !.wrs = Append(@, wr)]
           sweep == IF need_poll(h.qp) THEN <<Poll(h.qp, 1)>> ELSE <<>>
       IN  /\ todo' = sweep \o <<next>> \o Tail(todo)
           /\ pendings' = [pendings EXCEPT ![h.qp] = @ + 1]
    /\ UNCHANGED <<sq, done, batches, failed>>

\* The requests of s that are executed, signalled and not polled.
Completed(s) == {i \in 1 .. done[s] : sq[s][i].signal}

\* poll_completion, poll_completions: take one completion; the slots of the
\* request and of all before it are free again.
PollStep ==
    /\ Running("poll")
    /\ LET s == Head(todo).qp
           left == Head(todo).left
       IN  /\ Completed(s) # {}
           /\ LET i == CHOOSE k \in Completed(s) : \A j \in Completed(s) : k <= j
              IN  /\ sq' = [sq EXCEPT ![s] = SubSeq(@, i + 1, Len(@))]
                  /\ done' = [done EXCEPT ![s] = @ - i]
           /\ pendings' = [pendings EXCEPT ![s] = 0]
           /\ todo' = IF left = 1 THEN Tail(todo) ELSE <<Poll(s, left - 1)>> \o Tail(todo)
    /\ UNCHANGED <<batches, failed>>

\* The NIC executes the oldest request it has not executed yet.
Nic(s) ==
    /\ done[s] < Len(sq[s])
    /\ done' = [done EXCEPT ![s] = @ + 1]
    /\ UNCHANGED <<pendings, sq, todo, batches, failed>>

-----------------------------------------------------------------------------
(* RDMA_Device: the calls *)

Start(name, script) ==
    /\ name \in Calls
    /\ todo = <<>>
    /\ todo' = script
    /\ UNCHANGED <<done, failed>>

\* The servers a call has requests for, in server order.
Touched(c) == {s \in Servers : c[s] > 0}
InTurn(c) ==
    [n \in 1 .. Cardinality(Touched(c)) |->
       CHOOSE s \in Touched(c) : Cardinality({r \in Touched(c) : r < s}) = n - 1]

\* What a call does for each of them.
PerServer(c, op) == [n \in DOMAIN InTurn(c) |-> op[InTurn(c)[n]]]

\* A client that knows what the calls poll for makes no synchronous call
\* with a batch in flight, and after selective writes nothing but RdmaRead.
Quiet == batches = <<>>
Swept(c) == \A s \in Servers : c[s] > 0 => pendings[s] = 0
Only(s) == [r \in Servers |-> IF r = s THEN 1 ELSE 0]

\* RdmaFetchAndAdd
FetchAndAdd(s) ==
    /\ Quiet /\ Swept(Only(s))
    /\ Start("FetchAndAdd", <<Post(s, Mine, <<TRUE>>), Poll(s, 1)>>)
    /\ UNCHANGED <<pendings, sq, batches>>

\* Fault: RdmaRead without the sweep.
ReadUnswept(s) ==
    /\ Quiet
    /\ Start("Read", <<Post(s, Mine, <<TRUE>>), Poll(s, 1)>>)
    /\ UNCHANGED <<pendings, sq, batches>>

\* RdmaRead sweeps the completion that selective writes have left.
Read(s) ==
    /\ Quiet
    /\ Start("Read", (IF first_send(s) THEN <<>> ELSE <<Poll(s, 1)>>)
                       \o <<Post(s, Mine, <<TRUE>>), Poll(s, 1)>>)
    /\ UNCHANGED <<pendings, sq, batches>>

\* RdmaReadBatch: all posted, then as many completions as requests.
ReadBatch(c) ==
    /\ Quiet /\ Swept(c)
    /\ Start("ReadBatch",
             PerServer(c, [s \in Servers |-> Post(s, Mine, Flags(c[s], "all"))])
               \o PerServer(c, [s \in Servers |-> Poll(s, c[s])]))
    /\ UNCHANGED <<pendings, sq, batches>>

\* RdmaReadBatchDoorbell: one list per server.
ReadBatchDoorbell(c) ==
    /\ Quiet /\ Swept(c)
    /\ Start("ReadBatchDoorbell",
             PerServer(c, [s \in Servers |-> Build(s, Mine, c[s], <<>>)])
               \o PerServer(c, [s \in Servers |-> Poll(s, c[s])]))
    /\ UNCHANGED <<pendings, sq, batches>>

\* RdmaReadBatchUnsignal: only the last request to each server completes.
ReadBatchUnsignal(c) ==
    /\ Quiet /\ Swept(c)
    /\ Start("ReadBatchUnsignal",
             PerServer(c, [s \in Servers |-> Post(s, Mine, Flags(c[s], "last"))])
               \o PerServer(c, [s \in Servers |-> Poll(s, 1)]))
    /\ UNCHANGED <<pendings, sq, batches>>

\* The completions that waiting for a batch takes from each server.
Polls(c, all) == [s \in Servers |-> IF c[s] > 0 /\ ~all THEN 1 ELSE c[s]]

Enqueue(c, all) ==
    /\ Len(batches) < MaxHops
    /\ \A s \in Servers : c[s] > 0 => first_send(s) \/ \E k \in DOMAIN batches : batches[k][s] > 0
    /\ batches' = Append(batches, Polls(c, all))
    /\ UNCHANGED <<pendings, sq>>

\* RdmaReadBatch_Async_Send
SendSignalled(c) ==
    /\ Start("SendSignalled",
             PerServer(c, [s \in Servers |-> Post(s, Len(batches) + 1, Flags(c[s], "all"))]))
    /\ Enqueue(c, TRUE)

\* RdmaReadBatchDoorbell_Async_Send
SendDoorbell(c) ==
    /\ Start("SendDoorbell",
             PerServer(c, [s \in Servers |-> Build(s, Len(batches) + 1, c[s], <<>>)]))
    /\ Enqueue(c, TRUE)

\* RdmaReadBatchUnsignal_Async_Send and, with one list per server, the call
\* get_vertex_batch makes: RdmaReadBatchDoorbellUnsignal_Async_Send.
SendLast(c) ==
    /\ Start("SendLast",
             PerServer(c, [s \in Servers |-> Post(s, Len(batches) + 1, Flags(c[s], "last"))]))
    /\ Enqueue(c, FALSE)

\* The batch waited for becomes the call's own, the others move up.
OwnerAfterPop(owner) ==
    IF owner \in 1 .. MaxHops THEN owner - 1 ELSE owner

\* RdmaReadBatch_Async_Wait, RdmaReadBatchUnsignal_Async_Wait on the oldest
\* batch (get_vertex_batch_wait takes the front of thd_polls).
Wait ==
    /\ batches # <<>>
    /\ Start("Wait", PerServer(Head(batches), [s \in Servers |-> Poll(s, Head(batches)[s])]))
    /\ batches' = Tail(batches)
    /\ sq' = [s \in Servers |-> [i \in DOMAIN sq[s] |->
                                   [sq[s][i] EXCEPT !.owner = OwnerAfterPop(@)]]]
    /\ UNCHANGED pendings

\* RdmaWrite
Write(s) ==
    /\ Quiet /\ Swept(Only(s))
    /\ Start("Write", <<Post(s, Mine, <<TRUE>>), Poll(s, 1)>>)
    /\ UNCHANGED <<pendings, sq, batches>>

\* RdmaWriteNonSignal: its slot comes back with a later completion.
WriteNonSignal(s) ==
    /\ Len(sq[s]) < MaxBlind
    /\ Start("WriteNonSignal", <<Post(s, Nobody, <<FALSE>>)>>)
    /\ UNCHANGED <<pendings, sq, batches>>

\* RdmaWriteSelective: the first write of a burst is signalled, the one that
\* reaches the threshold polls for it.
WriteSelective(s) ==
    /\ Quiet
    /\ Start("WriteSelective",
             <<Post(s, Nobody, <<first_send(s)>>)>>
               \o (IF need_poll(s) THEN <<Poll(s, 1)>> ELSE <<>>))
    /\ pendings' = [pendings EXCEPT ![s] = @ + 1]
    /\ UNCHANGED <<sq, batches>>

-----------------------------------------------------------------------------
QpInit ==
    /\ pendings = [s \in Servers |-> 0]
    /\ sq = [s \in Servers |-> <<>>]
    /\ done = [s \in Servers |-> 0]
    /\ todo = <<>> /\ batches = <<>> /\ failed = FALSE

Call ==
    \/ \E s \in Servers : \/ FetchAndAdd(s) \/ Read(s) \/ Write(s)
                          \/ WriteNonSignal(s) \/ WriteSelective(s)
    \/ \E c \in Counts : \/ ReadBatch(c) \/ ReadBatchDoorbell(c) \/ ReadBatchUnsignal(c)
                         \/ SendSignalled(c) \/ SendDoorbell(c) \/ SendLast(c)
    \/ Wait

Thread == PostStep \/ BuildStep \/ PollStep

QpNext == Call \/ Thread \/ \E s \in Servers : Nic(s)

\* A running call goes on and the NIC executes what was posted; nothing
\* makes the client call again.
QpSpec == QpInit /\ [][QpNext]_qpVars /\ WF_qpVars(Thread) /\ \A s \in Servers : WF_qpVars(Nic(s))

-----------------------------------------------------------------------------
(* Properties *)

\* Types: what has been executed is in the send queue, batches in flight are
\* at most MaxHops.
QpTypeOK ==
    /\ pendings \in [Servers -> Nat]
    /\ sq \in [Servers -> Seq(Wrs)]
    /\ \A s \in Servers : done[s] \in 0 .. Len(sq[s])
    /\ batches \in Seq([Servers -> 0 .. MaxBatch]) /\ Len(batches) <= MaxHops
    /\ failed \in BOOLEAN

\* When a synchronous call or a wait has returned, every request it was
\* about has been executed: the completions it took were its own
\* (gstore.hpp:204 doubts it for RdmaRead).
OwnDataArrived ==
    todo = <<>> =>
        \A s \in Servers : \A i \in done[s] + 1 .. Len(sq[s]) : sq[s][i].owner # Mine

\* The completions of s that waiting for the batches in flight will take.
Owed(s) == {x \in (1 .. Len(batches)) \X (1 .. MaxBatch) : x[2] <= batches[x[1]][s]}

\* Between calls the completions a queue pair still has to deliver are those
\* that waiting for its batches will take, and one more after selective
\* writes: none is left over for a later call to mistake for its own.
CompletionsAccounted ==
    /\ QpTypeOK
    /\ todo = <<>> =>
          \A s \in Servers :
              LET owed == Cardinality(Owed(s))
              IN  Cardinality({i \in DOMAIN sq[s] : sq[s][i].signal})
                    = IF owed = 0 /\ ~first_send(s) THEN 1 ELSE owed

\* No ibv_post_send finds the send queue full: rc_post_send would drop the
\* error and the call would poll for a completion that never comes.
NoPostFails == ~failed

\* Every call returns: poll_completion has no timeout (the one in its loop
\* is commented out), so a miscounted completion is a thread that spins.
CallsReturn == todo # <<>> ~> todo = <<>>
=============================================================================
