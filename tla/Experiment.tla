----------------------------- MODULE Experiment -----------------------------
(***************************************************************************)
(* One experiment: client threads that drive the table and report, and the *)
(* server that lets all of them stop together.                             *)
(*                                                                         *)
(* A thread connects to the server, populates the table, runs a workload   *)
(* driver over a stream of operations and stops: it tells the server, and  *)
(* waits for the answer that everybody is done.  The threads of a node     *)
(* share one std::barrier, used before they populate, before they start    *)
(* and after they have stopped.  Sockets are byte streams: a read returns  *)
(* between one byte and a message, and zero bytes from a process that has  *)
(* died.  Nodes and the server may die.                                    *)
(***************************************************************************)
EXTENDS Integers, Sequences, FiniteSets

CONSTANTS
    Node, Thread, Home,   \* nodes, their client threads, the node of a thread
    MayCrash,             \* nodes whose process may die
    ServerMayCrash,       \* phases of the server in which it may die
    MsgSize,              \* TCP_MESSAGE_SIZE + 1, in units of a partial read
    op_count,
    LapTimes,             \* what GetLapSplit of a thread may measure, in milliseconds
    qps_sampling_rate, lat_sampling_rate,
    MaxTimedOps           \* bound: operations of a thread in the runtime of its
                          \* TimedStream

ASSUME ExperimentAssumption ==
    /\ IsFiniteSet(Thread) /\ Thread # {} /\ Home \in [Thread -> Node]
    /\ MayCrash \subseteq Node /\ ServerMayCrash \subseteq {"accept", "recv", "send", "close"}
    /\ MsgSize \in Nat \ {0} /\ op_count \in Nat
    /\ MaxTimedOps \in [Thread -> Nat]
    /\ LapTimes \in [Thread -> SUBSET Nat]
    /\ qps_sampling_rate \in Nat /\ lat_sampling_rate \in Nat

VARIABLES
    unlimited_stream,   \* a parameter of the experiment: a TimedStream is used
    pc,                 \* where a thread is
    arrived,            \* std::barrier: the threads of a node that wait in it
    owner, closes,      \* EndpointManager objects that own the socket of a
                        \* thread, and how often it was closed
    backlog,            \* connections that wait for accept
    client_sockets,     \* connections accepted, by their threads
    up, down,           \* unread bytes to the server, and from it
    spc, i,             \* where the server is, and its loop variable
    count_, curr_lap,   \* of a stream: operations asked for; of a driver: the lap
                        \* time measured before the operation,
    ops_, prev_ops_,    \* operations done, and those covered by samples,
    qps, lat            \* history: operations the qps samples stand for; the
                        \* number of samples of each kind

endpoint == <<owner, closes>>
sockets == <<backlog, client_sockets, up, down>>
server == <<spc, i>>
driver == <<count_, curr_lap, ops_, prev_ops_, qps, lat>>
vars == <<unlimited_stream, pc, arrived, endpoint, sockets, server, driver>>

ThreadsOf(n) == {t \in Thread : Home[t] = n}
Dead(t) == pc[t] = "crashed"
Closed(t) == Dead(t) \/ closes[t] > 0
ServerGone == spc \in {"crashed", "closed"}

Init ==
    /\ unlimited_stream \in BOOLEAN
    /\ pc = [t \in Thread |-> "connect"]
    /\ arrived = [n \in Node |-> {}]
    /\ owner = [t \in Thread |-> {"caller"}]
    /\ closes = [t \in Thread |-> 0]
    /\ backlog = <<>> /\ client_sockets = <<>>
    /\ up = [t \in Thread |-> 0] /\ down = [t \in Thread |-> 0]
    /\ spc = "accept" /\ i = 1
    /\ count_ = [t \in Thread |-> 0]
    /\ curr_lap = [t \in Thread |-> 0]
    /\ ops_ = [t \in Thread |-> 0] /\ prev_ops_ = [t \in Thread |-> 0]
    /\ qps = [t \in Thread |-> [samples |-> 0, ops |-> 0]]
    /\ lat = [t \in Thread |-> 0]

-----------------------------------------------------------------------------
(* EndpointManager and Client::Create.                                      *)

\* The server has made its socket and has not closed it.
Listening == ~ServerGone

\* The constructor tries again until the server listens.
Connect(t) ==
    /\ pc[t] = "connect" /\ Listening
    /\ backlog' = Append(backlog, t)
    /\ pc' = [pc EXCEPT ![t] = "create"]
    /\ UNCHANGED <<unlimited_stream, arrived, endpoint, client_sockets, up, down,
                   server, driver>>

\* The owners after the caller's object was copied into the client's.
Copy(objects) == (objects \ {"caller"}) \cup {"client"}

Create(t) ==
    /\ pc[t] = "create"
    /\ owner' = [owner EXCEPT ![t] = Copy(@)]
    /\ pc' = [pc EXCEPT ![t] = "sync"]
    /\ UNCHANGED <<unlimited_stream, arrived, closes, sockets, server, driver>>

\* ~EndpointManager of all objects of a thread.
Destruct(t) == /\ closes' = [closes EXCEPT ![t] = @ + Cardinality(owner[t])]
               /\ UNCHANGED owner

-----------------------------------------------------------------------------
(* Client::Run and the workload driver.                                     *)

\* What a thread does after a barrier.
AfterBarrier(label) == CASE label = "sync" -> "prepare"
                         [] label = "start" -> "next"
                         [] label = "stopped" -> "report"

\* Mutant: the barrier is made for one thread too few.
ReleaseEarly(n, waiting) == Cardinality(waiting) >= Cardinality(ThreadsOf(n)) - 1
\* The barrier opens for its last thread.
Releases(n, waiting) == waiting = ThreadsOf(n)

\* barrier_->arrive_and_wait().
Arrive(t) ==
    LET n == Home[t]
        waiting == arrived[n] \cup {t}
    IN /\ pc[t] \in {"sync", "start", "stopped"} /\ t \notin arrived[n]
       /\ \/ /\ Releases(n, waiting)
             /\ arrived' = [arrived EXCEPT ![n] = {}]
             /\ pc' = [u \in Thread |->
                         IF u \in waiting THEN AfterBarrier(pc[u]) ELSE pc[u]]
          \/ /\ ~Releases(n, waiting)
             /\ arrived' = [arrived EXCEPT ![n] = waiting]
             /\ UNCHANGED pc
       /\ UNCHANGED <<unlimited_stream, endpoint, sockets, server, driver>>

\* The thread's share of the population, and the second of sleep after it.
Prepare(t) ==
    /\ pc[t] = "prepare"
    /\ pc' = [pc EXCEPT ![t] = "start"]
    /\ UNCHANGED <<unlimited_stream, arrived, endpoint, sockets, server, driver>>

\* Whether NextInternal finds the end of the stream.  That of a FixedLengthStream
\* counts first; that of a TimedStream looks at the time.
Terminates(t) == IF ~unlimited_stream THEN {op_count < count_[t] + 1}
                 ELSE IF count_[t] < MaxTimedOps[t] THEN BOOLEAN ELSE {TRUE}

\* GetLapSplit: any of the lap times of the thread.
Laps(t) == LapTimes[t]

\* stream_->Next() yields an operation, and the lap time is taken.
NextOp(t) ==
    /\ pc[t] = "next" /\ FALSE \in Terminates(t)
    /\ count_' = [count_ EXCEPT ![t] = @ + 1]
    /\ \E lap \in Laps(t) : curr_lap' = [curr_lap EXCEPT ![t] = lap]
    /\ pc' = [pc EXCEPT ![t] = "apply"]
    /\ UNCHANGED <<unlimited_stream, arrived, endpoint, sockets, server, ops_,
                   prev_ops_, qps, lat>>

\* stream_->Next() returns StreamTerminatedStatus.
NextEnds(t) ==
    /\ pc[t] = "next" /\ TRUE \in Terminates(t)
    /\ count_' = [count_ EXCEPT ![t] = @ + 1]
    /\ pc' = [pc EXCEPT ![t] = "send"]
    /\ UNCHANGED <<unlimited_stream, arrived, endpoint, sockets, server, curr_lap,
                   ops_, prev_ops_, qps, lat>>

\* Mutant: a sample does not restart the count of operations.
SampleAll(t) == [samples |-> qps[t].samples + 1, ops |-> qps[t].ops + ops_[t] + 1]
\* The qps sample after one more operation, with its number of operations.
Sample(t) == [samples |-> qps[t].samples + 1,
              ops |-> qps[t].ops + (ops_[t] + 1 - prev_ops_[t])]

\* client_->Apply, which returns Ok or ends the process, and the samples of it.
Apply(t) ==
    /\ pc[t] = "apply"
    /\ lat' = [lat EXCEPT ![t] = @ + IF curr_lap[t] > lat_sampling_rate THEN 1 ELSE 0]
    /\ ops_' = [ops_ EXCEPT ![t] = @ + 1]
    /\ IF curr_lap[t] > qps_sampling_rate
       THEN /\ qps' = [qps EXCEPT ![t] = Sample(t)]
            /\ prev_ops_' = [prev_ops_ EXCEPT ![t] = ops_[t] + 1]
       ELSE UNCHANGED <<qps, prev_ops_>>
    /\ curr_lap' = [curr_lap EXCEPT ![t] = 0]
    /\ pc' = [pc EXCEPT ![t] = "next"]
    /\ UNCHANGED <<unlimited_stream, arrived, endpoint, sockets, server, count_>>

-----------------------------------------------------------------------------
(* Client::Stop, and the end.                                               *)

\* A thread throws: its process dies, as it does in Crash.
Die(n) ==
    /\ pc' = [t \in Thread |-> IF Home[t] = n THEN "crashed" ELSE pc[t]]
    /\ arrived' = [arrived EXCEPT ![n] = {}]

\* send_server.  A write to a server that is gone is lost, or fails.
Send(t) ==
    /\ pc[t] = "send"
    /\ \/ /\ up' = [up EXCEPT ![t] = @ + MsgSize]
          /\ pc' = [pc EXCEPT ![t] = "recv"]
          /\ UNCHANGED arrived
       \/ /\ ServerGone
          /\ Die(Home[t])
          /\ UNCHANGED up
    /\ UNCHANGED <<unlimited_stream, endpoint, backlog, client_sockets, down, server,
                   driver>>

\* recv_server, stopwatch_->Stop() and the return from driver.Run().
Recv(t) ==
    /\ pc[t] = "recv" /\ down[t] > 0
    /\ \E bytes \in 1 .. MsgSize : /\ bytes <= down[t]
                                   /\ down' = [down EXCEPT ![t] = @ - bytes]
    /\ pc' = [pc EXCEPT ![t] = "stopped"]
    /\ UNCHANGED <<unlimited_stream, arrived, endpoint, backlog, client_sockets, up,
                   server, driver>>

\* The server is gone: read returns zero, which is no error; it fails when the
\* server has left bytes unread.
RecvEnd(t) ==
    /\ pc[t] = "recv" /\ down[t] = 0 /\ ServerGone
    /\ \/ /\ pc' = [pc EXCEPT ![t] = "stopped"]
          /\ UNCHANGED arrived
       \/ /\ up[t] > 0
          /\ Die(Home[t])
    /\ UNCHANGED <<unlimited_stream, endpoint, sockets, server, driver>>

\* The result is taken; the client's endpoint goes with the driver, then the
\* caller's.
Report(t) ==
    /\ pc[t] = "report"
    /\ Destruct(t)
    /\ pc' = [pc EXCEPT ![t] = "done"]
    /\ UNCHANGED <<unlimited_stream, arrived, sockets, server, driver>>

-----------------------------------------------------------------------------
(* The server: SocketManager and ClientStopBarrier.                         *)

\* accept_conn, once for every client thread of the experiment.
Accept ==
    /\ spc = "accept" /\ backlog # <<>>
    /\ client_sockets' = Append(client_sockets, Head(backlog))
    /\ backlog' = Tail(backlog)
    /\ spc' = IF Len(client_sockets') = Cardinality(Thread) THEN "recv" ELSE "accept"
    /\ UNCHANGED <<unlimited_stream, pc, arrived, endpoint, up, down, i, driver>>

\* Mutant: the last client is left out.
LoopShort(here, after) ==
    IF i < Len(client_sockets) - 1 THEN spc' = here /\ i' = i + 1
    ELSE spc' = after /\ i' = 1
\* The next client of a for loop over client_sockets, or the end of the loop.
LoopNext(here, after) ==
    IF i < Len(client_sockets) THEN spc' = here /\ i' = i + 1
    ELSE spc' = after /\ i' = 1

\* Mutant: the end of the stream does not count.
ReadData(t) == 1 .. (IF up[t] < MsgSize THEN up[t] ELSE MsgSize)
\* What read may return: some bytes, or zero at the end of the stream.
Readable(t) == (1 .. (IF up[t] < MsgSize THEN up[t] ELSE MsgSize))
                 \cup (IF up[t] = 0 /\ Closed(t) THEN {0} ELSE {})

\* recv_from_all: one read of every client in turn.
RecvFromAll ==
    LET t == client_sockets[i]
    IN /\ spc = "recv"
       /\ \E bytes \in Readable(t) : up' = [up EXCEPT ![t] = @ - bytes]
       /\ LoopNext("recv", "send")
       /\ UNCHANGED <<unlimited_stream, pc, arrived, endpoint, backlog, client_sockets,
                      down, driver>>

\* send_to_all.  The one write to a client that died succeeds, and is lost.
SendToAll ==
    LET t == client_sockets[i]
    IN /\ spc = "send"
       /\ down' = [down EXCEPT ![t] = @ + IF Closed(t) THEN 0 ELSE MsgSize]
       /\ LoopNext("send", "close")
       /\ UNCHANGED <<unlimited_stream, pc, arrived, endpoint, backlog, client_sockets,
                      up, driver>>

\* ~SocketManager.
CloseAll ==
    /\ spc = "close"
    /\ spc' = "closed"
    /\ UNCHANGED <<unlimited_stream, pc, arrived, endpoint, sockets, i, driver>>

-----------------------------------------------------------------------------
Crash(n) ==
    /\ n \in MayCrash /\ \E t \in ThreadsOf(n) : pc[t] \notin {"done", "crashed"}
    /\ Die(n)
    /\ UNCHANGED <<unlimited_stream, endpoint, sockets, server, driver>>

ServerCrash ==
    /\ spc \in ServerMayCrash
    /\ spc' = "crashed"
    /\ UNCHANGED <<unlimited_stream, pc, arrived, endpoint, sockets, i, driver>>

Client(t) ==
    \/ Connect(t) \/ Create(t) \/ Arrive(t) \/ Prepare(t)
    \/ NextOp(t) \/ NextEnds(t) \/ Apply(t)
    \/ Send(t) \/ Recv(t) \/ RecvEnd(t) \/ Report(t)
Serve == Accept \/ RecvFromAll \/ SendToAll \/ CloseAll

Next ==
    \/ \E t \in Thread : Client(t)
    \/ Serve
    \/ \E n \in Node : Crash(n)
    \/ ServerCrash

Spec == Init /\ [][Next]_vars

\* Threads and server run while they have something to do.
FairSpec == /\ Spec
            /\ \A t \in Thread : WF_vars(Client(t))
            /\ WF_vars(Serve)

-----------------------------------------------------------------------------
(* Properties.                                                              *)

Labels == {"connect", "create", "sync", "prepare", "start", "next", "apply", "send",
           "recv", "stopped", "report", "done", "crashed"}
TypeOK ==
    /\ pc \in [Thread -> Labels]
    /\ \A n \in Node : arrived[n] \subseteq ThreadsOf(n)
    /\ \A t \in Thread : /\ owner[t] \subseteq {"caller", "client"} /\ closes[t] \in 0 .. 2
                         /\ up[t] \in 0 .. MsgSize /\ down[t] \in 0 .. MsgSize
                         /\ prev_ops_[t] \in 0 .. ops_[t] /\ ops_[t] \in 0 .. count_[t]
    /\ spc \in {"accept", "recv", "send", "close", "closed", "crashed"}
    /\ i \in 1 .. Cardinality(Thread)

Finished(t) == pc[t] \in {"recv", "stopped", "report", "done", "crashed"}
Stopped(t) == pc[t] \in {"stopped", "report", "done"}

\* "Once we receive a message from everyone, everyone is done": as long as the
\* server lives, no client gets past Stop and the server sends no answer while
\* some client anywhere still has operations to apply, whatever a read returns
\* and whoever dies.
StopIsBarrier ==
    /\ spc # "crashed"
    /\ (\E t \in Thread : Stopped(t)) \/ spc \in {"send", "close", "closed"}
    => \A t \in Thread : Finished(t)

\* The three uses of one std::barrier do not mix: who waits in it waits for the
\* same thing, no thread of a node measures while another one populates, and
\* none reports before all of them have stopped their stopwatch.
LocalPhases ==
    \A n \in Node : \A t, u \in ThreadsOf(n) :
      /\ {t, u} \subseteq arrived[n] => pc[t] = pc[u]
      /\ pc[t] \in {"next", "apply", "send", "recv"} => pc[u] \notin {"sync", "prepare"}
      /\ pc[t] \in {"report", "done"} => Stopped(u)

\* What a thread reports: with a FixedLengthStream as many operations as were
\* asked for; every operation is in at most one sample of the throughput, and
\* all up to the last sample are in one.  Both kinds of samples are as many when
\* they have one rate.
Reports ==
    \A t \in Thread : pc[t] \in {"report", "done"} =>
      /\ ~unlimited_stream => ops_[t] = op_count
      /\ qps[t].ops = prev_ops_[t] /\ prev_ops_[t] <= ops_[t]
      /\ qps_sampling_rate = lat_sampling_rate => lat[t] = qps[t].samples

\* The socket of a thread that ends is closed, once, and not before it has heard
\* from the server, although two objects name it.
ClosedOnce ==
    \A t \in Thread : /\ closes[t] > 0 => pc[t] \in {"done", "crashed"}
                      /\ closes[t] <= 1
                      /\ pc[t] = "done" => closes[t] = 1

\* The threads of a node keep in step, and none touches the socket of another.
NodesOK == TypeOK /\ LocalPhases /\ ClosedOnce

\* Once the server has accepted every client, every client ends, although some of
\* them, or the server, may die.
AllAccepted == Len(client_sockets) = Cardinality(Thread)
EveryoneEnds == AllAccepted ~> \A t \in Thread : pc[t] \in {"done", "crashed"}

\* "The socket manager blocks waiting for a message from the retired instance of
\* the endpoint": recv_from_all stays at a client that is gone and has left
\* nothing to read.  (EveryoneEnds relies on the contrary.)
BlocksForRetired ==
    [][spc = "recv" /\ Closed(client_sockets[i]) /\ up[client_sockets[i]] = 0
         => i' = i /\ spc' \in {"recv", "crashed"}]_vars
=============================================================================
