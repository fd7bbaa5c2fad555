-------------------------- MODULE ExperimentProofs --------------------------
(***************************************************************************)
(* Theorems about Experiment, for any nodes and threads, any sizes of      *)
(* messages and any streams and lap times.                                 *)
(***************************************************************************)
EXTENDS Experiment, TLAPS, SequenceTheorems, FiniteSetTheorems

\* The type of every variable, without the bounds that follow from the rest.
Types ==
    /\ unlimited_stream \in BOOLEAN
    /\ pc \in [Thread -> Labels]
    /\ arrived \in [Node -> SUBSET Thread]
    /\ owner \in [Thread -> SUBSET {"caller", "client"}]
    /\ closes \in [Thread -> Nat]
    /\ backlog \in Seq(Thread) /\ client_sockets \in Seq(Thread)
    /\ up \in [Thread -> Nat] /\ down \in [Thread -> Nat]
    /\ spc \in {"accept", "recv", "send", "close", "closed", "crashed"}
    /\ i \in 1 .. Cardinality(Thread)
    /\ count_ \in [Thread -> Nat] /\ curr_lap \in [Thread -> Nat]
    /\ ops_ \in [Thread -> Nat] /\ prev_ops_ \in [Thread -> Nat]
    /\ qps \in [Thread -> [samples : Nat, ops : Nat]]
    /\ lat \in [Thread -> Nat]

\* A thread has one connection, which waits or is accepted; the server leaves its
\* accept loop with those of all threads.
Connections ==
    /\ \A j, k \in 1..Len(client_sockets) : client_sockets[j] = client_sockets[k] => j = k
    /\ \A j, k \in 1..Len(backlog) : backlog[j] = backlog[k] => j = k
    /\ \A j \in 1..Len(client_sockets), k \in 1..Len(backlog) : client_sockets[j] # backlog[k]
    /\ \A j \in 1..Len(client_sockets) : pc[client_sockets[j]] # "connect"
    /\ \A k \in 1..Len(backlog) : pc[backlog[k]] # "connect"
    /\ spc = "accept" => i = 1 /\ Len(client_sockets) < Cardinality(Thread)
    /\ spc \in {"recv", "send", "close", "closed"} => Len(client_sockets) = Cardinality(Thread)

\* What a thread does before, between and behind the three uses of the barrier.
Phase(label) == CASE label \in {"connect", "create", "sync"} -> 1
                  [] label \in {"prepare", "start"} -> 2
                  [] label \in {"next", "apply", "send", "recv", "stopped"} -> 3
                  [] label \in {"report", "done"} -> 4
                  [] label = "crashed" -> 5
\* The threads of a node are in the same phase; those that wait are at its end.
InPhase ==
    /\ \A t, u \in Thread : Home[t] = Home[u] => Phase(pc[t]) = Phase(pc[u])
    /\ \A n \in Node : \A t \in arrived[n] : Home[t] = n /\ pc[t] \in {"sync", "start", "stopped"}

\* One object owns the socket of a thread: the caller's, then the client's.
OneOwner ==
    \A t \in Thread :
      /\ pc[t] \in {"connect", "create"} => owner[t] = {"caller"}
      /\ pc[t] \notin {"connect", "create", "crashed"} => owner[t] = {"client"}
      /\ closes[t] = IF pc[t] = "done" THEN 1 ELSE IF pc[t] = "crashed" THEN closes[t] ELSE 0
      /\ closes[t] <= 1

Unsent == {"connect", "create", "sync", "prepare", "start", "next", "apply", "send"}
\* One message per thread goes to the server, when the thread has finished, and
\* one comes from it.
Bytes ==
    \A t \in Thread :
      /\ up[t] <= MsgSize /\ (pc[t] \in Unsent => up[t] = 0)
      /\ down[t] <= MsgSize /\ (spc \in {"accept", "recv"} => down[t] = 0)
      /\ spc = "send" => \A j \in i..Len(client_sockets) : down[client_sockets[j]] = 0

\* The clients the server has read from have finished.
Heard ==
    /\ spc = "recv" => \A j \in 1 .. i - 1 : Finished(client_sockets[j])
    /\ spc \in {"send", "close", "closed"} => \A t \in Thread : Finished(t)
    /\ spc \in {"accept", "recv"} => \A t \in Thread : ~Stopped(t)

\* The counters of a stream and of its driver.
Counted ==
    \A t \in Thread :
      /\ pc[t] \in {"connect", "create", "sync", "prepare", "start", "next"} => count_[t] = ops_[t]
      /\ pc[t] \in {"apply", "send", "recv", "stopped", "report", "done"} => count_[t] = ops_[t] + 1
      /\ ops_[t] <= count_[t] /\ prev_ops_[t] <= ops_[t] /\ qps[t].ops = prev_ops_[t]
      /\ qps_sampling_rate = lat_sampling_rate => lat[t] = qps[t].samples
      /\ ~unlimited_stream =>
           /\ pc[t] \in {"connect", "create", "sync", "prepare", "start", "next", "apply"}
                => count_[t] <= op_count
           /\ pc[t] \in {"send", "recv", "stopped", "report", "done"} => ops_[t] = op_count

IInv == Types /\ Connections /\ InPhase /\ OneOwner /\ Bytes /\ Heard /\ Counted

-----------------------------------------------------------------------------
(* Where threads go.                                                        *)

LEMMA ThreadCount == Cardinality(Thread) \in Nat \ {0}
  BY ExperimentAssumption, FS_CardinalityType, FS_EmptySet DEF ExperimentAssumption

LEMMA ConstantTypes ==
    /\ MsgSize \in Nat /\ MsgSize >= 1 /\ op_count \in Nat
    /\ qps_sampling_rate \in Nat /\ lat_sampling_rate \in Nat
    /\ \A t \in Thread : LapTimes[t] \subseteq Nat
  BY ExperimentAssumption DEF ExperimentAssumption

\* A counter that is raised, or lowered by no more than it holds.
LEMMA CountType ==
    ASSUME NEW f \in [Thread -> Nat], NEW t \in Thread, NEW n \in Nat
    PROVE  /\ [f EXCEPT ![t] = @ + n] \in [Thread -> Nat]
           /\ n <= f[t] => [f EXCEPT ![t] = @ - n] \in [Thread -> Nat]
  OBVIOUS

LEMMA HomeType == \A t \in Thread : Home[t] \in Node
  BY ExperimentAssumption DEF ExperimentAssumption

\* A process that dies takes its threads with it, and the barrier.
LEMMA DieMoves ==
    ASSUME Types, NEW n \in Node, Die(n)
    PROVE  /\ pc' \in [Thread -> Labels]
           /\ arrived' \in [Node -> SUBSET Thread]
           /\ \A u \in Thread : pc'[u] = IF Home[u] = n THEN "crashed" ELSE pc[u]
           /\ \A m \in Node : arrived'[m] = IF m = n THEN {} ELSE arrived[m]
  BY DEF Types, Die, Labels

\* Who waits in the barrier when it opens goes on, and nobody else.
LEMMA ArriveMoves ==
    ASSUME Types, InPhase, NEW t \in Thread, Arrive(t)
    PROVE  /\ pc' \in [Thread -> Labels]
           /\ arrived' \in [Node -> SUBSET Thread]
           /\ \A u \in Thread : \/ pc'[u] = pc[u]
                                \/ pc[u] = "sync" /\ pc'[u] = "prepare"
                                \/ pc[u] = "start" /\ pc'[u] = "next"
                                \/ pc[u] = "stopped" /\ pc'[u] = "report"
<1> DEFINE waiting == arrived[Home[t]] \cup {t}
<1>1. Home[t] \in Node /\ arrived[Home[t]] \subseteq Thread
  BY HomeType DEF Types
<1>2. \A u \in waiting : u \in Thread /\ pc[u] \in {"sync", "start", "stopped"}
  BY <1>1 DEF Arrive, InPhase
<1>3. \A u \in waiting : AfterBarrier(pc[u]) = CASE pc[u] = "sync" -> "prepare"
                                                [] pc[u] = "start" -> "next"
                                                [] pc[u] = "stopped" -> "report"
  BY DEF AfterBarrier
<1>4. arrived' \in [Node -> SUBSET Thread]
  <2>1. waiting \in SUBSET Thread /\ {} \in SUBSET Thread
    BY <1>1
  <2>2. arrived' = [arrived EXCEPT ![Home[t]] = {}] \/ arrived' = [arrived EXCEPT ![Home[t]] = waiting]
    BY DEF Arrive
  <2>3. arrived \in [Node -> SUBSET Thread]
    BY DEF Types
  <2> HIDE DEF waiting
  <2>4. QED
    BY <1>1, <2>1, <2>2, <2>3
<1>5. ASSUME NEW u \in Thread
      PROVE  /\ pc'[u] \in Labels
             /\ \/ pc'[u] = pc[u]
                \/ pc[u] = "sync" /\ pc'[u] = "prepare"
                \/ pc[u] = "start" /\ pc'[u] = "next"
                \/ pc[u] = "stopped" /\ pc'[u] = "report"
  <2>1. pc[u] \in Labels
    BY DEF Types
  <2>2. pc'[u] = pc[u] \/ (u \in waiting /\ pc'[u] = AfterBarrier(pc[u]))
    BY DEF Arrive
  <2>3. CASE u \in waiting /\ pc'[u] = AfterBarrier(pc[u])
    BY <1>2, <1>3, <2>3 DEF Labels
  <2>4. QED
    BY <2>1, <2>2, <2>3
<1>6. DOMAIN pc' = Thread /\ pc' = [u \in DOMAIN pc' |-> pc'[u]]
  <2>1. pc \in [Thread -> Labels]
    BY DEF Types
  <2>2. QED
    BY <2>1 DEF Arrive
<1>7. pc' \in [Thread -> Labels]
  BY <1>5, <1>6
<1>8. QED
  BY <1>4, <1>5, <1>7

LEMMA GoType ==
    ASSUME Types, NEW t \in Thread, NEW label \in Labels
    PROVE  [pc EXCEPT ![t] = label] \in [Thread -> Labels]
  BY DEF Types

\* The labels a thread may go to in one step.
Move(from, to) ==
    \/ to = from \/ to = "crashed"
    \/ from = "connect" /\ to = "create"
    \/ from = "create" /\ to = "sync"
    \/ from = "sync" /\ to = "prepare"
    \/ from = "prepare" /\ to = "start"
    \/ from = "start" /\ to = "next"
    \/ from = "next" /\ to \in {"apply", "send"}
    \/ from = "apply" /\ to = "next"
    \/ from = "send" /\ to = "recv"
    \/ from = "recv" /\ to = "stopped"
    \/ from = "stopped" /\ to = "report"
    \/ from = "report" /\ to = "done"

LEMMA Moves ==
    ASSUME Types, InPhase, [Next]_vars
    PROVE  /\ pc' \in [Thread -> Labels]
           /\ \A u \in Thread : Move(pc[u], pc'[u])
<1> USE DEF Move
<1>1. ASSUME NEW n \in Node, Die(n)
      PROVE  pc' \in [Thread -> Labels] /\ \A u \in Thread : Move(pc[u], pc'[u])
  BY <1>1, DieMoves
<1>2. ASSUME NEW t \in Thread, Arrive(t)
      PROVE  pc' \in [Thread -> Labels] /\ \A u \in Thread : Move(pc[u], pc'[u])
  BY <1>2, ArriveMoves
<1>3. ASSUME NEW t \in Thread, NEW label \in Labels, pc' = [pc EXCEPT ![t] = label],
             Move(pc[t], label)
      PROVE  pc' \in [Thread -> Labels] /\ \A u \in Thread : Move(pc[u], pc'[u])
  BY <1>3, GoType DEF Types
<1>4. CASE UNCHANGED pc
  BY <1>4 DEF Types
<1>5. ASSUME NEW t \in Thread, Client(t)
      PROVE  pc' \in [Thread -> Labels] /\ \A u \in Thread : Move(pc[u], pc'[u])
  <2>1. Home[t] \in Node
    BY HomeType
  <2>2. CASE Connect(t) \/ Create(t) \/ Prepare(t)
    BY <1>3, <2>2 DEF Connect, Create, Prepare, Labels
  <2>3. CASE NextOp(t) \/ NextEnds(t) \/ Apply(t)
    BY <1>3, <2>3 DEF NextOp, NextEnds, Apply, Labels
  <2>4. CASE Send(t) \/ Recv(t) \/ RecvEnd(t) \/ Report(t)
    BY <1>1, <1>3, <2>1, <2>4 DEF Send, Recv, RecvEnd, Report, Labels
  <2>5. QED
    BY <1>2, <1>5, <2>2, <2>3, <2>4 DEF Client
<1>6. QED
  BY <1>1, <1>4, <1>5
  DEF Next, Serve, Accept, RecvFromAll, SendToAll, CloseAll, Crash, ServerCrash, vars

-----------------------------------------------------------------------------
(* The invariant is kept: types and connections.                            *)

\* The loops over client_sockets stay inside it.
LEMMA LoopType ==
    ASSUME Types, Connections, NEW here \in {"recv", "send"}, spc = here,
           NEW after \in {"send", "close"}, LoopNext(here, after)
    PROVE  /\ i' \in 1 .. Cardinality(Thread)
           /\ spc' \in {here, after}
           /\ spc' = here /\ here # after => i' = i + 1
           /\ spc' = after /\ here # after => i' = 1 /\ i = Cardinality(Thread)
<1>1. Len(client_sockets) = Cardinality(Thread)
  BY DEF Connections
<1>2. i \in 1 .. Cardinality(Thread)
  BY DEF Types
<1>3. CASE i < Cardinality(Thread)
  BY <1>1, <1>2, <1>3, ThreadCount DEF LoopNext
<1>4. CASE ~ (i < Cardinality(Thread))
  BY <1>1, <1>2, <1>4, ThreadCount DEF LoopNext
<1>5. QED
  BY <1>3, <1>4

LEMMA TypesStep ==
    ASSUME IInv, [Next]_vars
    PROVE  Types'
<1> USE DEF endpoint, sockets, server, driver
<1>0. Types /\ Connections /\ InPhase
  BY DEF IInv
<1>1. pc' \in [Thread -> Labels]
  BY <1>0, Moves
<1>2. ASSUME NEW n \in Node, Die(n)
      PROVE  arrived' \in [Node -> SUBSET Thread]
  BY <1>0, <1>2, DieMoves
<1>3. ASSUME NEW t \in Thread, Client(t)
      PROVE  Types'
  <2>1. CASE Connect(t)
    <3>1. backlog' \in Seq(Thread)
      BY <1>0, <2>1 DEF Connect, Types
    <3>2. QED
      BY <1>0, <1>1, <2>1, <3>1 DEF Connect, Types
  <2>2. CASE Create(t)
    <3>1. owner' \in [Thread -> SUBSET {"caller", "client"}]
      BY <1>0, <2>2 DEF Create, Copy, Types
    <3>2. QED
      BY <1>0, <1>1, <2>2, <3>1 DEF Create, Types
  <2>3. CASE Arrive(t)
    <3>1. arrived' \in [Node -> SUBSET Thread]
      BY <1>0, <2>3, ArriveMoves
    <3>2. QED
      BY <1>0, <1>1, <2>3, <3>1 DEF Arrive, Types
  <2>4. CASE Prepare(t)
    BY <1>0, <1>1, <2>4 DEF Prepare, Types
  <2>5. CASE NextOp(t)
    <3>1. count_' \in [Thread -> Nat] /\ curr_lap' \in [Thread -> Nat]
      <4>1. PICK lap \in LapTimes[t] : curr_lap' = [curr_lap EXCEPT ![t] = lap]
        BY <2>5 DEF NextOp, Laps
      <4>2. lap \in Nat
        BY ConstantTypes
      <4>3. QED
        BY <1>0, <2>5, <4>1, <4>2 DEF NextOp, Types
    <3>2. QED
      BY <1>0, <1>1, <2>5, <3>1 DEF NextOp, Types
  <2>6. CASE NextEnds(t)
    <3>1. count_' \in [Thread -> Nat]
      BY <1>0, <2>6 DEF NextEnds, Types
    <3>2. QED
      BY <1>0, <1>1, <2>6, <3>1 DEF NextEnds, Types
  <2>7. CASE Apply(t)
    <3>1. ops_' \in [Thread -> Nat] /\ curr_lap' \in [Thread -> Nat]
      BY <1>0, <2>7, SMTT(30) DEF Apply, Types
    <3>2. lat' \in [Thread -> Nat]
      <4>1. (IF curr_lap[t] > lat_sampling_rate THEN 1 ELSE 0) \in Nat
        OBVIOUS
      <4>2. QED
        BY <1>0, <2>7, <4>1 DEF Apply, Types
    <3>3. qps' \in [Thread -> [samples : Nat, ops : Nat]] /\ prev_ops_' \in [Thread -> Nat]
      <4>1. Sample(t) \in [samples : Nat, ops : Nat]
        BY <1>0 DEF IInv, Counted, Sample, Types
      <4>2. CASE UNCHANGED <<qps, prev_ops_>>
        BY <1>0, <4>2 DEF Types
      <4>3. CASE /\ qps' = [qps EXCEPT ![t] = Sample(t)]
                 /\ prev_ops_' = [prev_ops_ EXCEPT ![t] = ops_[t] + 1]
        BY <1>0, <4>1, <4>3 DEF Types
      <4>4. QED
        BY <2>7, <4>2, <4>3 DEF Apply
    <3>4. QED
      BY <1>0, <1>1, <2>7, <3>1, <3>2, <3>3 DEF Apply, Types
  <2>8. CASE Send(t)
    <3>1. up' \in [Thread -> Nat]
      <4>1. up' = [up EXCEPT ![t] = @ + MsgSize] \/ up' = up
        BY <2>8 DEF Send
      <4>2. QED
        <5>1. up \in [Thread -> Nat] /\ MsgSize \in Nat
          BY <1>0, ConstantTypes DEF Types
        <5>2. [up EXCEPT ![t] = @ + MsgSize] \in [Thread -> Nat]
          BY <5>1, CountType
        <5>3. QED
          BY <4>1, <5>1, <5>2
    <3>2. arrived' \in [Node -> SUBSET Thread]
      BY <1>0, <1>2, <2>8, HomeType DEF Send, Types
    <3>3. QED
      BY <1>0, <1>1, <2>8, <3>1, <3>2 DEF Send, Types
  <2>9. CASE Recv(t)
    <3>1. down' \in [Thread -> Nat]
      <4>1. PICK bytes \in 1 .. MsgSize : /\ bytes <= down[t]
                                          /\ down' = [down EXCEPT ![t] = @ - bytes]
        BY <2>9 DEF Recv
      <4>2. bytes \in Nat /\ down[t] \in Nat /\ down[t] - bytes \in Nat
        BY <1>0, <4>1, ConstantTypes DEF Types
      <4>3. QED
        BY <1>0, <4>1, <4>2 DEF Types
    <3>2. QED
      BY <1>0, <1>1, <2>9, <3>1 DEF Recv, Types
  <2>10. CASE RecvEnd(t)
    <3>1. arrived' \in [Node -> SUBSET Thread]
      BY <1>0, <1>2, <2>10, HomeType DEF RecvEnd, Types
    <3>2. QED
      BY <1>0, <1>1, <2>10, <3>1 DEF RecvEnd, Types
  <2>11. CASE Report(t)
    <3>1. Cardinality(owner[t]) = 1
      BY <2>11, FS_Singleton DEF IInv, OneOwner, Report
    <3>2. closes' \in [Thread -> Nat]
      BY <1>0, <2>11, <3>1 DEF Report, Destruct, Types
    <3>3. QED
      BY <1>0, <1>1, <2>11, <3>2 DEF Report, Destruct, Types
  <2>12. QED
    BY <1>3, <2>1, <2>2, <2>3, <2>4, <2>5, <2>6, <2>7, <2>8, <2>9, <2>10, <2>11 DEF Client
<1>4. CASE Accept
  <2>1. client_sockets' \in Seq(Thread) /\ backlog' \in Seq(Thread)
    BY <1>0, <1>4, HeadTailProperties DEF Accept, Types
  <2>2. spc' \in {"accept", "recv"}
    BY <1>4 DEF Accept
  <2>3. QED
    BY <1>0, <1>1, <1>4, <2>1, <2>2 DEF Accept, Types
<1>5. CASE RecvFromAll
  <2>1. i' \in 1 .. Cardinality(Thread) /\ spc' \in {"recv", "send"}
    BY <1>0, <1>5, LoopType DEF RecvFromAll
  <2>2. up' \in [Thread -> Nat]
    <3>1. client_sockets[i] \in Thread
      BY <1>0, <1>5, ThreadCount DEF RecvFromAll, Types, Connections
    <3>2. \A b \in Readable(client_sockets[i]) : b \in Nat /\ b <= up[client_sockets[i]]
      <4>1. up[client_sockets[i]] \in Nat
        BY <1>0, <3>1 DEF Types
      <4>2. QED
        BY <4>1, ConstantTypes DEF Readable
    <3>3. PICK b \in Readable(client_sockets[i]) : up' = [up EXCEPT ![client_sockets[i]] = @ - b]
      BY <1>5 DEF RecvFromAll
    <3>4. QED
      BY <1>0, <3>1, <3>2, <3>3, CountType DEF Types
  <2>3. QED
    BY <1>0, <1>1, <1>5, <2>1, <2>2 DEF RecvFromAll, Types
<1>6. CASE SendToAll
  <2>1. i' \in 1 .. Cardinality(Thread) /\ spc' \in {"send", "close"}
    BY <1>0, <1>6, LoopType DEF SendToAll
  <2>2. down' \in [Thread -> Nat]
    <3> DEFINE sent == IF Closed(client_sockets[i]) THEN 0 ELSE MsgSize
    <3>1. sent \in Nat /\ client_sockets[i] \in Thread
      BY <1>0, <1>6, ThreadCount, ConstantTypes DEF SendToAll, Types, Connections
    <3>2. down' = [down EXCEPT ![client_sockets[i]] = @ + sent]
      BY <1>6 DEF SendToAll
    <3> HIDE DEF sent
    <3>3. QED
      BY <1>0, <3>1, <3>2, CountType DEF Types
  <2>3. QED
    BY <1>0, <1>1, <1>6, <2>1, <2>2 DEF SendToAll, Types
<1>7. CASE CloseAll \/ ServerCrash
  BY <1>0, <1>1, <1>7 DEF CloseAll, ServerCrash, Types
<1>8. ASSUME NEW n \in Node, Crash(n)
      PROVE  Types'
  <2>1. arrived' \in [Node -> SUBSET Thread]
    BY <1>2, <1>8 DEF Crash
  <2>2. QED
    BY <1>0, <1>1, <1>8, <2>1 DEF Crash, Types
<1>9. CASE UNCHANGED vars
  BY <1>0, <1>9 DEF vars, Types
<1>10. QED
  BY <1>3, <1>4, <1>5, <1>6, <1>7, <1>8, <1>9 DEF Next, Serve

LEMMA SocketTypes ==
    ASSUME Types
    PROVE  /\ Len(backlog) \in Nat /\ Len(client_sockets) \in Nat
           /\ \A k \in 1..Len(backlog) : backlog[k] \in Thread
           /\ \A j \in 1..Len(client_sockets) : client_sockets[j] \in Thread
<1>1. backlog \in Seq(Thread) /\ client_sockets \in Seq(Thread)
  BY DEF Types
<1>2. QED
  BY <1>1, ElementOfSeq, LenProperties

LEMMA ConnectionsStep ==
    ASSUME IInv, [Next]_vars
    PROVE  Connections'
<1> USE DEF endpoint, sockets, server, driver
<1>0. Types /\ Connections /\ InPhase
  BY DEF IInv
<1>1. /\ \A j \in 1..Len(client_sockets) : /\ client_sockets[j] \in Thread
                                           /\ pc[client_sockets[j]] # "connect"
                                           /\ pc'[client_sockets[j]] # "connect"
      /\ \A k \in 1..Len(backlog) : /\ backlog[k] \in Thread
                                    /\ pc[backlog[k]] # "connect"
                                    /\ pc'[backlog[k]] # "connect"
  <2>1. \A u \in Thread : pc[u] # "connect" => pc'[u] # "connect"
    BY <1>0, Moves DEF Move
  <2>2. QED
    BY <1>0, <2>1, SocketTypes DEF Connections
<1>2. CASE UNCHANGED <<backlog, client_sockets, spc, i>>
  BY <1>0, <1>1, <1>2 DEF Connections
<1>3. ASSUME NEW t \in Thread, Connect(t)
      PROVE  Connections'
  <2>1. /\ Len(backlog) \in Nat
        /\ Len(backlog') = Len(backlog) + 1 /\ backlog'[Len(backlog) + 1] = t
        /\ \A k \in 1..Len(backlog) : backlog'[k] = backlog[k]
    BY <1>0, <1>3 DEF Connect, Types
  <2>2. pc[t] = "connect" /\ pc'[t] = "create" /\ UNCHANGED <<client_sockets, spc, i>>
    BY <1>0, <1>3 DEF Connect, Types
  <2>3. \A k \in 1..Len(backlog) : backlog[k] \in Thread /\ backlog[k] # t
    BY <1>1, <2>2
  <2>4. \A j \in 1..Len(client_sockets) : client_sockets[j] \in Thread /\ client_sockets[j] # t
    BY <1>1, <2>2
  <2>5. \A k \in 1..Len(backlog') : k \in 1..Len(backlog) \/ k = Len(backlog) + 1
    BY <2>1
  <2>6. \A j, k \in 1..Len(backlog') : backlog'[j] = backlog'[k] => j = k
    BY <1>0, <2>1, <2>3, <2>5 DEF Connections
  <2>7. \A j \in 1..Len(client_sockets), k \in 1..Len(backlog') : client_sockets[j] # backlog'[k]
    BY <1>0, <2>1, <2>4, <2>5 DEF Connections
  <2>8. \A k \in 1..Len(backlog') : pc'[backlog'[k]] # "connect"
    BY <1>0, <1>1, <2>1, <2>2, <2>3, <2>5 DEF Connections
  <2>9. \A j \in 1..Len(client_sockets) : pc'[client_sockets[j]] # "connect"
    BY <1>0, <1>1, <2>4 DEF Connections
  <2>10. QED
    BY <1>0, <2>2, <2>6, <2>7, <2>8, <2>9 DEF Connections
<1>4. CASE Accept
  <2> DEFINE n == Len(client_sockets)
  <2>1. /\ backlog # <<>> /\ Len(backlog) \in Nat /\ Len(backlog) >= 1
        /\ Len(backlog') = Len(backlog) - 1
        /\ \A k \in 1..Len(backlog') : backlog'[k] = backlog[k + 1]
    BY <1>0, <1>4, HeadTailProperties, EmptySeq DEF Accept, Types
  <2>2. /\ n \in Nat
        /\ Len(client_sockets') = n + 1 /\ client_sockets'[n + 1] = backlog[1]
        /\ \A j \in 1..n : client_sockets'[j] = client_sockets[j]
    <3>1. client_sockets \in Seq(Thread) /\ backlog[1] \in Thread
      BY <1>0, <1>1, <2>1 DEF Types
    <3>2. client_sockets' = Append(client_sockets, backlog[1])
      BY <1>4 DEF Accept
    <3>3. QED
      BY <3>1, <3>2
  <2>3. /\ \A k \in 1..Len(backlog) : backlog[k] \in Thread /\ pc'[backlog[k]] # "connect"
        /\ \A j \in 1..n : client_sockets[j] \in Thread /\ pc'[client_sockets[j]] # "connect"
    BY <1>1
  <2> HIDE DEF n
  <2>4. \A j \in 1..Len(client_sockets') : j \in 1..n \/ j = n + 1
    BY <2>2
  <2>5. \A j \in 1..n : client_sockets[j] # backlog[1]
    BY <1>0, <2>1 DEF Connections, n
  <2>6. \A j, k \in 1..Len(client_sockets') : client_sockets'[j] = client_sockets'[k] => j = k
    BY <1>0, <2>2, <2>4, <2>5 DEF Connections, n
  <2>7. \A k \in 1..Len(backlog') : k + 1 \in 1..Len(backlog) /\ backlog[k + 1] # backlog[1]
    BY <1>0, <2>1 DEF Connections
  <2>8. \A j \in 1..Len(client_sockets'), k \in 1..Len(backlog') : client_sockets'[j] # backlog'[k]
    <3>1. ASSUME NEW j \in 1..Len(client_sockets'), NEW k \in 1..Len(backlog')
          PROVE  client_sockets'[j] # backlog'[k]
      <4>1. CASE j \in 1..n
        BY <1>0, <2>1, <2>2, <2>7, <4>1 DEF Connections, n
      <4>2. CASE j = n + 1
        BY <2>1, <2>2, <2>7, <4>2
      <4>3. QED
        BY <2>4, <4>1, <4>2
    <3>2. QED
      BY <3>1
  <2>9. \A j, k \in 1..Len(backlog') : backlog'[j] = backlog'[k] => j = k
    <3>1. ASSUME NEW j \in 1..Len(backlog'), NEW k \in 1..Len(backlog'),
                 backlog'[j] = backlog'[k]
          PROVE  j = k
      <4>1. backlog[j + 1] = backlog[k + 1] /\ j + 1 \in 1..Len(backlog) /\ k + 1 \in 1..Len(backlog)
        BY <2>1, <2>7, <3>1
      <4>2. j + 1 = k + 1
        BY <1>0, <4>1 DEF Connections
      <4>3. QED
        BY <4>2
    <3>2. QED
      BY <3>1
  <2>10. \A j \in 1..Len(client_sockets') : pc'[client_sockets'[j]] # "connect"
    BY <2>1, <2>2, <2>3, <2>4
  <2>11. \A k \in 1..Len(backlog') : pc'[backlog'[k]] # "connect"
    BY <2>1, <2>3, <2>7
  <2>12. /\ spc' = "accept" => i' = 1 /\ Len(client_sockets') < Cardinality(Thread)
         /\ spc' # "accept" => spc' = "recv" /\ Len(client_sockets') = Cardinality(Thread)
    BY <1>0, <1>4, <2>2, ThreadCount DEF Accept, Connections, n
  <2>13. QED
    BY <2>6, <2>8, <2>9, <2>10, <2>11, <2>12 DEF Connections
<1>5. CASE RecvFromAll
  <2>1. spc' \in {"recv", "send"} /\ UNCHANGED <<backlog, client_sockets>> /\ spc = "recv"
    BY <1>0, <1>5, LoopType DEF RecvFromAll
  <2>2. QED
    BY <1>0, <1>1, <2>1 DEF Connections
<1>6. CASE SendToAll
  <2>1. spc' \in {"send", "close"} /\ UNCHANGED <<backlog, client_sockets>> /\ spc = "send"
    BY <1>0, <1>6, LoopType DEF SendToAll
  <2>2. QED
    BY <1>0, <1>1, <2>1 DEF Connections
<1>7. CASE CloseAll \/ ServerCrash
  <2>1. UNCHANGED <<backlog, client_sockets>> /\ (spc' = "crashed" \/ (spc = "close" /\ spc' = "closed"))
    BY <1>7 DEF CloseAll, ServerCrash
  <2>2. QED
    BY <1>0, <1>1, <2>1 DEF Connections
<1>8. ASSUME NEW t \in Thread, Client(t)
      PROVE  Connections'
  BY <1>2, <1>3, <1>8
  DEF Client, Create, Arrive, Prepare, NextOp, NextEnds, Apply, Send, Recv, RecvEnd, Report
<1>9. QED
  BY <1>2, <1>4, <1>5, <1>6, <1>7, <1>8 DEF Next, Serve, Crash, vars

-----------------------------------------------------------------------------
(* The phases of a node, and the sockets of its threads.                    *)

\* The threads that go through a barrier together were and are in one phase.
LEMMA ArrivePhase ==
    ASSUME Types, InPhase, NEW t \in Thread, Arrive(t)
    PROVE  InPhase'
<1> DEFINE n == Home[t]
           waiting == arrived[n] \cup {t}
<1>1. n \in Node /\ \A u \in waiting : u \in Thread /\ Home[u] = n /\ pc[u] \in {"sync", "start", "stopped"}
  <2>1. n \in Node /\ arrived \in [Node -> SUBSET Thread]
    BY HomeType DEF Types
  <2>2. pc[t] \in {"sync", "start", "stopped"}
    BY DEF Arrive
  <2>3. \A u \in arrived[n] : u \in Thread /\ Home[u] = n /\ pc[u] \in {"sync", "start", "stopped"}
    BY <2>1 DEF InPhase
  <2>4. QED
    BY <2>1, <2>2, <2>3
<1>2. arrived \in [Node -> SUBSET Thread] /\ pc \in [Thread -> Labels]
  BY DEF Types
<1>3. CASE ~Releases(n, waiting)
  <2>1. arrived' = [arrived EXCEPT ![n] = waiting] /\ pc' = pc
    BY <1>3 DEF Arrive
  <2>2. \A m \in Node : \A u \in arrived'[m] : Home[u] = m /\ pc'[u] \in {"sync", "start", "stopped"}
    <3> HIDE DEF n, waiting
    <3>1. ASSUME NEW m \in Node, NEW u \in arrived'[m]
          PROVE  Home[u] = m /\ pc'[u] \in {"sync", "start", "stopped"}
      <4>1. CASE m = n
        BY <1>1, <1>2, <2>1, <4>1
      <4>2. CASE m # n
        BY <1>1, <1>2, <2>1, <4>2 DEF InPhase
      <4>3. QED
        BY <4>1, <4>2
    <3>2. QED
      BY <3>1
  <2>3. QED
    BY <2>1, <2>2 DEF InPhase
<1>4. CASE Releases(n, waiting)
  <2>1. /\ arrived' = [arrived EXCEPT ![n] = {}] /\ waiting = ThreadsOf(n)
        /\ pc' = [u \in Thread |-> IF u \in waiting THEN AfterBarrier(pc[u]) ELSE pc[u]]
    BY <1>4 DEF Arrive, Releases
  <2>2. \A u \in Thread : u \in waiting <=> Home[u] = n
    BY <2>1 DEF ThreadsOf
  <2> HIDE DEF n, waiting
  <2>3. \A m \in Node : \A u \in arrived'[m] : /\ u \in Thread /\ Home[u] = m /\ m # n
                                               /\ pc[u] \in {"sync", "start", "stopped"}
    BY <1>1, <1>2, <2>1 DEF InPhase
  <2>4. \A u \in Thread : Home[u] # n => pc'[u] = pc[u]
    BY <2>1, <2>2
  <2>5. ASSUME NEW u \in Thread, NEW v \in Thread, Home[u] = n, Home[v] = n
        PROVE  Phase(pc'[u]) = Phase(pc'[v])
    <3>1. /\ pc[u] \in {"sync", "start", "stopped"} /\ pc[v] \in {"sync", "start", "stopped"}
          /\ pc'[u] = AfterBarrier(pc[u]) /\ pc'[v] = AfterBarrier(pc[v])
      BY <1>1, <2>1, <2>2, <2>5
    <3>2. Phase(pc[u]) = Phase(pc[v])
      BY <2>5 DEF InPhase
    <3>3. pc[u] = pc[v]
      BY <3>1, <3>2 DEF Phase
    <3>4. QED
      BY <3>1, <3>3
  <2>6. \A u, v \in Thread : Home[u] = Home[v] => Phase(pc'[u]) = Phase(pc'[v])
    BY <2>4, <2>5 DEF InPhase
  <2>7. QED
    BY <2>3, <2>4, <2>6 DEF InPhase
<1>5. QED
  BY <1>3, <1>4

LEMMA InPhaseStep ==
    ASSUME Types, InPhase, [Next]_vars
    PROVE  InPhase'
<1>1. ASSUME NEW t \in Thread, NEW label \in Labels, pc' = [pc EXCEPT ![t] = label],
             UNCHANGED arrived, Phase(label) = Phase(pc[t]),
             pc[t] \notin {"sync", "start", "stopped"}
      PROVE  InPhase'
  <2>1. pc \in [Thread -> Labels] /\ arrived \in [Node -> SUBSET Thread]
    BY DEF Types
  <2>2. \A u \in Thread : pc'[u] = IF u = t THEN label ELSE pc[u]
    BY <1>1, <2>1
  <2>3. \A u \in Thread : Phase(pc'[u]) = Phase(pc[u])
    BY <1>1, <2>2
  <2>4. \A m \in Node : \A u \in arrived[m] : u \in Thread /\ u # t
    BY <1>1, <2>1 DEF InPhase
  <2>5. QED
    BY <1>1, <2>2, <2>3, <2>4 DEF InPhase
<1>2. ASSUME NEW n \in Node, Die(n)
      PROVE  InPhase'
  <2>1. /\ \A u \in Thread : pc'[u] = IF Home[u] = n THEN "crashed" ELSE pc[u]
        /\ \A m \in Node : arrived'[m] = IF m = n THEN {} ELSE arrived[m]
    BY <1>2, DieMoves
  <2>2. \A m \in Node : \A u \in arrived[m] : u \in Thread
    BY DEF Types
  <2>3. \A u, v \in Thread : Home[u] = Home[v] => Phase(pc'[u]) = Phase(pc'[v])
    BY <2>1 DEF InPhase
  <2>4. QED
    BY <2>1, <2>2, <2>3 DEF InPhase
<1>3. CASE UNCHANGED <<pc, arrived>>
  BY <1>3 DEF InPhase
<1>4. ASSUME NEW t \in Thread, Client(t)
      PROVE  InPhase'
  <2>1. Home[t] \in Node
    BY HomeType
  <2>2. CASE Connect(t) \/ Create(t) \/ Prepare(t)
    BY <1>1, <2>2 DEF Connect, Create, Prepare, Labels, Phase
  <2>3. CASE NextOp(t) \/ NextEnds(t) \/ Apply(t)
    BY <1>1, <2>3 DEF NextOp, NextEnds, Apply, Labels, Phase
  <2>4. CASE Send(t) \/ Recv(t) \/ RecvEnd(t) \/ Report(t)
    BY <1>1, <1>2, <2>1, <2>4 DEF Send, Recv, RecvEnd, Report, Labels, Phase
  <2>5. QED
    BY <1>4, <2>2, <2>3, <2>4, ArrivePhase DEF Client
<1>5. QED
  BY <1>2, <1>3, <1>4
  DEF Next, Serve, Accept, RecvFromAll, SendToAll, CloseAll, Crash, ServerCrash, vars

LEMMA OneOwnerStep ==
    ASSUME IInv, [Next]_vars
    PROVE  OneOwner'
<1> USE DEF endpoint
<1>0. Types /\ InPhase /\ OneOwner
  BY DEF IInv
<1>1. ASSUME NEW t \in Thread, Create(t)
      PROVE  OneOwner'
  <2>1. owner[t] = {"caller"} /\ closes[t] = 0
    BY <1>0, <1>1 DEF OneOwner, Create
  <2>2. Copy(owner[t]) = {"client"}
    BY <2>1 DEF Copy
  <2>3. \A u \in Thread : /\ pc'[u] = IF u = t THEN "sync" ELSE pc[u]
                          /\ owner'[u] = IF u = t THEN {"client"} ELSE owner[u]
                          /\ closes'[u] = closes[u]
    BY <1>0, <1>1, <2>2 DEF Create, Types
  <2>4. QED
    BY <1>0, <2>1, <2>3 DEF OneOwner
<1>2. ASSUME NEW t \in Thread, Report(t)
      PROVE  OneOwner'
  <2>1. owner[t] = {"client"} /\ closes[t] = 0
    BY <1>0, <1>2 DEF OneOwner, Report
  <2>2. Cardinality(owner[t]) = 1
    BY <2>1, FS_Singleton
  <2>3. \A u \in Thread : /\ pc'[u] = IF u = t THEN "done" ELSE pc[u]
                          /\ closes'[u] = IF u = t THEN 1 ELSE closes[u]
                          /\ owner'[u] = owner[u]
    BY <1>0, <1>2, <2>1, <2>2 DEF Report, Destruct, Types
  <2>4. QED
    BY <1>0, <2>1, <2>3 DEF OneOwner
<1>3. ASSUME UNCHANGED endpoint,
             \A u \in Thread : /\ pc'[u] \in {"connect", "create"} => pc[u] \in {"connect", "create"}
                               /\ pc[u] \in {"connect", "create"} => pc'[u] \in {"connect", "create", "crashed"}
                               /\ pc'[u] = "done" <=> (pc[u] = "done" /\ pc'[u] # "crashed")
                               /\ pc[u] = "crashed" => pc'[u] = "crashed"
      PROVE  OneOwner'
  BY <1>0, <1>3 DEF OneOwner
<1>4. ASSUME NEW n \in Node, Die(n), UNCHANGED endpoint
      PROVE  OneOwner'
  BY <1>0, <1>3, <1>4, DieMoves
<1>5. ASSUME NEW t \in Thread, NEW label, pc' = [pc EXCEPT ![t] = label], UNCHANGED endpoint,
             pc[t] \notin {"create", "report", "done", "crashed"},
             label \notin {"connect", "done", "crashed"},
             pc[t] = "connect" <=> label = "create"
      PROVE  OneOwner'
  <2>1. \A u \in Thread : pc'[u] = IF u = t THEN label ELSE pc[u]
    BY <1>0, <1>5 DEF Types
  <2>2. QED
    BY <1>3, <1>5, <2>1
<1>6. ASSUME NEW t \in Thread, Arrive(t)
      PROVE  OneOwner'
  BY <1>0, <1>3, <1>6, ArriveMoves DEF Arrive
<1>7. ASSUME NEW t \in Thread, Client(t)
      PROVE  OneOwner'
  <2>1. Home[t] \in Node
    BY HomeType
  <2>2. CASE Connect(t) \/ Prepare(t) \/ NextOp(t) \/ NextEnds(t) \/ Apply(t) \/ Recv(t)
    BY <1>5, <2>2 DEF Connect, Prepare, NextOp, NextEnds, Apply, Recv
  <2>3. CASE Send(t) \/ RecvEnd(t)
    BY <1>4, <1>5, <2>1, <2>3 DEF Send, RecvEnd
  <2>4. QED
    BY <1>1, <1>2, <1>6, <1>7, <2>2, <2>3 DEF Client
<1>8. CASE UNCHANGED <<pc, endpoint>>
  BY <1>0, <1>8 DEF OneOwner
<1>9. QED
  BY <1>4, <1>7, <1>8
  DEF Next, Serve, Accept, RecvFromAll, SendToAll, CloseAll, Crash, ServerCrash, vars

-----------------------------------------------------------------------------
(* The messages to the server and from it.                                  *)

LEMMA BytesStep ==
    ASSUME IInv, Types', [Next]_vars
    PROVE  Bytes'
<1> USE DEF server
<1>0. Types /\ Connections /\ InPhase /\ Bytes
  BY DEF IInv
<1>1. /\ up \in [Thread -> Nat] /\ down \in [Thread -> Nat]
      /\ up' \in [Thread -> Nat] /\ down' \in [Thread -> Nat]
      /\ MsgSize \in Nat /\ i \in Nat
  BY <1>0, ConstantTypes, ThreadCount DEF Types
<1>2. \A j \in 1..Len(client_sockets) : client_sockets[j] \in Thread
  BY <1>0, SocketTypes
<1>3. \A u \in Thread : pc'[u] \in Unsent => pc[u] \in Unsent
  BY <1>0, Moves DEF Move, Unsent
<1>4. ASSUME UNCHANGED <<spc, i, client_sockets>>,
             \A u \in Thread : up'[u] <= up[u] /\ down'[u] <= down[u]
      PROVE  Bytes'
  <2>1. \A u \in Thread : up[u] = 0 => up'[u] = 0
    BY <1>1, <1>4
  <2>2. \A u \in Thread : down[u] = 0 => down'[u] = 0
    BY <1>1, <1>4
  <2>3. ASSUME NEW u \in Thread
        PROVE  up'[u] <= MsgSize /\ down'[u] <= MsgSize
    <3>1. up[u] <= MsgSize /\ down[u] <= MsgSize
      BY <1>0 DEF Bytes
    <3>2. QED
      BY <1>1, <1>4, <3>1
  <2>4. spc' = "send" => \A j \in i'..Len(client_sockets') : down'[client_sockets'[j]] = 0
    <3>1. ASSUME spc = "send", NEW j \in i..Len(client_sockets)
          PROVE  down'[client_sockets[j]] = 0
      <4>1. j \in 1..Len(client_sockets)
        BY <1>0, <3>1, ThreadCount DEF Types
      <4>2. client_sockets[j] \in Thread /\ down[client_sockets[j]] = 0
        BY <1>0, <1>2, <3>1, <4>1 DEF Bytes
      <4>3. QED
        BY <2>2, <4>2
    <3>2. QED
      BY <1>4, <3>1
  <2>5. QED
    BY <1>0, <1>3, <1>4, <2>1, <2>2, <2>3, <2>4 DEF Bytes
<1>5. CASE UNCHANGED <<up, down, spc, i, client_sockets>>
  BY <1>1, <1>4, <1>5
<1>6. ASSUME NEW t \in Thread, Send(t)
      PROVE  Bytes'
  <2>1. CASE UNCHANGED up
    BY <1>5, <1>6, <2>1 DEF Send
  <2>2. CASE up' = [up EXCEPT ![t] = @ + MsgSize] /\ pc' = [pc EXCEPT ![t] = "recv"]
    <3>1. up[t] = 0 /\ pc'[t] = "recv" /\ \A u \in Thread \ {t} : pc'[u] = pc[u]
      BY <1>0, <1>6, <2>2 DEF Send, Bytes, Unsent, Types
    <3>2. up'[t] = MsgSize /\ \A u \in Thread \ {t} : up'[u] = up[u]
      BY <1>1, <2>2, <3>1
    <3>3. UNCHANGED <<down, spc, i, client_sockets>>
      BY <1>6 DEF Send
    <3>4. QED
      BY <1>0, <1>1, <1>2, <3>1, <3>2, <3>3, SMTT(30) DEF Bytes, Unsent
  <2>3. QED
    BY <1>6, <2>1, <2>2 DEF Send
<1>7. ASSUME NEW t \in Thread, Recv(t)
      PROVE  Bytes'
  <2>1. PICK bytes \in 1 .. MsgSize : bytes <= down[t] /\ down' = [down EXCEPT ![t] = @ - bytes]
    BY <1>7 DEF Recv
  <2>2. \A u \in Thread : down'[u] <= down[u]
    BY <1>1, <2>1
  <2>3. UNCHANGED <<up, spc, i, client_sockets>>
    BY <1>7 DEF Recv
  <2>4. QED
    BY <1>1, <1>4, <2>2, <2>3
<1>8. ASSUME NEW t \in Thread, Client(t)
      PROVE  Bytes'
  BY <1>5, <1>6, <1>7, <1>8
  DEF Client, Connect, Create, Arrive, Prepare, NextOp, NextEnds, Apply, RecvEnd, Report, sockets
<1>9. CASE Accept
  <2>1. UNCHANGED <<up, down>> /\ spc = "accept" /\ spc' # "send"
    BY <1>9 DEF Accept
  <2>2. QED
    BY <1>0, <1>3, <2>1 DEF Bytes
<1>10. CASE RecvFromAll
  <2> DEFINE t == client_sockets[i]
  <2>1. t \in Thread
    BY <1>0, <1>2, <1>10, ThreadCount DEF RecvFromAll, Types, Connections
  <2>2. PICK b \in Readable(t) : up' = [up EXCEPT ![t] = @ - b]
    BY <1>10 DEF RecvFromAll
  <2>3. up[t] \in Nat /\ b \in Nat
    BY <1>1, <2>1, <2>2 DEF Readable
  <2> HIDE DEF t
  <2>4. \A u \in Thread : up'[u] <= up[u]
    BY <1>1, <2>1, <2>2, <2>3
  <2>5. \A u \in Thread : up[u] = 0 => up'[u] = 0
    BY <1>1, <2>4
  <2>6. \A u \in Thread : down'[u] = 0
    BY <1>0, <1>10 DEF RecvFromAll, Bytes
  <2>7. UNCHANGED client_sockets /\ i' \in Nat /\ i' >= 1
    BY <1>0, <1>10, ThreadCount, LoopType DEF RecvFromAll
  <2>8. \A j \in i'..Len(client_sockets') : client_sockets'[j] \in Thread
    BY <1>0, <1>2, <2>7, SocketTypes
  <2>9. \A u \in Thread : up'[u] <= MsgSize
    <3>1. ASSUME NEW u \in Thread PROVE up'[u] <= MsgSize
      <4>1. up[u] <= MsgSize /\ up'[u] <= up[u]
        BY <1>0, <2>4 DEF Bytes
      <4>2. QED
        BY <1>1, <4>1
    <3>2. QED
      BY <3>1
  <2>10. QED
    BY <1>0, <1>1, <1>3, <2>5, <2>6, <2>8, <2>9 DEF Bytes
<1>11. CASE SendToAll
  <2> DEFINE t == client_sockets[i]
             sent == IF Closed(t) THEN 0 ELSE MsgSize
  <2>1. /\ i \in 1..Len(client_sockets) /\ t \in Thread /\ spc = "send"
        /\ Len(client_sockets) = Cardinality(Thread)
    BY <1>0, <1>2, <1>11, ThreadCount DEF SendToAll, Types, Connections
  <2>2. down[t] = 0
    BY <1>0, <2>1 DEF Bytes
  <2>3. down' = [down EXCEPT ![t] = @ + sent] /\ sent \in Nat /\ sent <= MsgSize
    BY <1>1, <1>11 DEF SendToAll
  <2>4. /\ UNCHANGED <<up, client_sockets>>
        /\ spc' = "send" => i' = i + 1
        /\ spc' \in {"send", "close"}
    BY <1>0, <1>11, LoopType DEF SendToAll
  <2>5. \A j \in i + 1 .. Len(client_sockets) : client_sockets[j] \in Thread /\ client_sockets[j] # t
    BY <1>0, <1>2, <2>1 DEF Connections
  <2> HIDE DEF t, sent
  <2>6. down'[t] <= MsgSize /\ \A u \in Thread \ {t} : down'[u] = down[u]
    BY <1>1, <2>1, <2>2, <2>3
  <2>7. \A j \in i + 1 .. Len(client_sockets) : down[client_sockets[j]] = 0
    BY <1>0, <1>1, <2>1 DEF Bytes
  <2>8. spc' = "send" => \A j \in i'..Len(client_sockets') : down'[client_sockets'[j]] = 0
    BY <2>4, <2>5, <2>6, <2>7
  <2>9. QED
    BY <1>0, <1>3, <2>1, <2>4, <2>6, <2>8 DEF Bytes
<1>12. CASE CloseAll \/ ServerCrash
  <2>1. UNCHANGED <<up, down>> /\ spc' \in {"closed", "crashed"}
    BY <1>12 DEF CloseAll, ServerCrash, sockets
  <2>2. QED
    BY <1>0, <1>3, <2>1 DEF Bytes
<1>13. QED
  BY <1>5, <1>8, <1>9, <1>10, <1>11, <1>12 DEF Next, Serve, Crash, vars, sockets

\* The server that has left its accept loop has accepted every thread.
LEMMA EveryoneAccepted ==
    ASSUME Types, Connections, Len(client_sockets) = Cardinality(Thread), NEW t \in Thread
    PROVE  \E j \in 1..Len(client_sockets) : client_sockets[j] = t
<1> DEFINE N == Cardinality(Thread)
<1>1. client_sockets \in [1..N -> Thread] /\ DOMAIN client_sockets = 1..N
  BY LenProperties DEF Types
<1>2. client_sockets \in Injection(1..N, Thread)
  BY <1>1 DEF Injection, IsInjective, Connections
<1>3. Cardinality(1..N) = Cardinality(Thread)
  BY ThreadCount, FS_Interval
<1>4. client_sockets \in Surjection(1..N, Thread)
  BY <1>2, <1>3, FS_Injection, ExperimentAssumption DEF ExperimentAssumption
<1>5. QED
  BY <1>4 DEF Surjection

LEMMA HeardStep ==
    ASSUME IInv, [Next]_vars
    PROVE  Heard'
<1> USE DEF server
<1>0. Types /\ Connections /\ InPhase /\ Bytes /\ Heard /\ OneOwner
  BY DEF IInv
<1>1. \A u \in Thread : Finished(u) => Finished(u)'
  BY <1>0, Moves DEF Move, Finished
<1>2. \A j \in 1..Len(client_sockets) : client_sockets[j] \in Thread
  BY <1>0, SocketTypes
<1>3. ASSUME UNCHANGED <<spc, i, client_sockets>>,
             \A u \in Thread : Stopped(u)' => Stopped(u) \/ spc \notin {"accept", "recv"}
      PROVE  Heard'
  <2>1. spc = "recv" => \A j \in 1 .. i - 1 : client_sockets[j] \in Thread
    BY <1>0, <1>2, ThreadCount DEF Types, Connections
  <2>2. QED
    BY <1>0, <1>1, <1>3, <2>1 DEF Heard
<1>4. ASSUME NEW t \in Thread, Client(t)
      PROVE  Heard'
  <2>1. UNCHANGED <<spc, i, client_sockets>>
    BY <1>4 DEF Client, Connect, Create, Arrive, Prepare, NextOp, NextEnds, Apply, Send, Recv,
                RecvEnd, Report, sockets
  <2>2. ASSUME NEW u \in Thread, Stopped(u)', ~Stopped(u)
        PROVE  spc \notin {"accept", "recv"}
    <3>1. pc[u] = "recv" /\ pc'[u] = "stopped"
      BY <1>0, <2>2, Moves DEF Move, Stopped, Types
    <3>2. u = t /\ (Recv(t) \/ RecvEnd(t))
      <4>1. ASSUME NEW label, pc' = [pc EXCEPT ![t] = label], label # "stopped"
            PROVE  FALSE
        BY <1>0, <3>1, <4>1 DEF Types
      <4>2. ~Arrive(t)
        BY <1>0, <3>1, ArriveMoves
      <4>3. Recv(t) \/ RecvEnd(t)
        <5>1. ASSUME NEW n \in Node, Die(n) PROVE FALSE
          BY <1>0, <3>1, <5>1, DieMoves
        <5>2. QED
          BY <1>4, <4>1, <4>2, <5>1, HomeType
          DEF Client, Connect, Create, Prepare, NextOp, NextEnds, Apply, Send, Report
      <4>4. u = t
        <5>1. ASSUME NEW n \in Node, Die(n) PROVE FALSE
          BY <1>0, <3>1, <5>1, DieMoves
        <5>2. pc' = [pc EXCEPT ![t] = "stopped"]
          BY <4>3, <5>1, HomeType DEF Recv, RecvEnd
        <5>3. QED
          BY <1>0, <3>1, <5>2 DEF Types
      <4>5. QED
        BY <4>3, <4>4
    <3>3. CASE Recv(t)
      BY <1>0, <3>3 DEF Recv, Bytes
    <3>4. CASE RecvEnd(t)
      BY <3>4 DEF RecvEnd, ServerGone
    <3>5. QED
      BY <3>2, <3>3, <3>4
  <2>3. QED
    BY <1>3, <2>1, <2>2
<1>5. ASSUME NEW n \in Node, Crash(n)
      PROVE  Heard'
  <2>1. UNCHANGED <<spc, i, client_sockets>>
    BY <1>5 DEF Crash, sockets
  <2>2. \A u \in Thread : Stopped(u)' => Stopped(u)
    BY <1>0, <1>5, DieMoves DEF Crash, Stopped
  <2>3. QED
    BY <1>3, <2>1, <2>2
<1>6. CASE Accept
  <2>1. spc = "accept" /\ spc' \in {"accept", "recv"} /\ i' = 1 /\ UNCHANGED pc
    BY <1>0, <1>6 DEF Accept, Connections
  <2>2. QED
    BY <1>0, <2>1 DEF Heard, Stopped
<1>7. CASE RecvFromAll
  <2> DEFINE t == client_sockets[i]
  <2>1. /\ t \in Thread /\ spc = "recv" /\ UNCHANGED <<pc, client_sockets>>
        /\ i \in 1..Len(client_sockets) /\ Len(client_sockets) = Cardinality(Thread)
    BY <1>0, <1>2, <1>7, ThreadCount DEF RecvFromAll, Types, Connections
  <2>2. Finished(t)
    <3>1. CASE up[t] # 0
      BY <1>0, <2>1, <3>1 DEF Bytes, Unsent, Finished, Types, Labels
    <3>2. CASE up[t] = 0
      <4>1. Closed(t)
        BY <1>7, <3>2, ConstantTypes DEF RecvFromAll, Readable
      <4>2. QED
        BY <1>0, <2>1, <4>1 DEF Closed, Dead, OneOwner, Finished
    <3>3. QED
      BY <3>1, <3>2
  <2>3. \A j \in 1..i : Finished(client_sockets[j])
    BY <1>0, <2>1, <2>2 DEF Heard
  <2>4. \A u \in Thread : ~Stopped(u)
    BY <1>0, <2>1 DEF Heard
  <2>5. CASE spc' = "recv"
    <3>1. i' = i + 1
      BY <1>0, <1>7, <2>5, LoopType DEF RecvFromAll
    <3>2. \A j \in 1 .. i' - 1 : j \in 1..i
      BY <2>1, <3>1
    <3>3. QED
      BY <2>1, <2>3, <2>4, <2>5, <3>2 DEF Heard, Finished, Stopped
  <2>6. CASE spc' = "send"
    <3>1. i = Cardinality(Thread)
      BY <1>0, <1>7, <2>6, LoopType DEF RecvFromAll
    <3>2. \A u \in Thread : Finished(u)
      BY <1>0, <2>1, <2>3, <3>1, EveryoneAccepted
    <3>3. QED
      BY <2>1, <2>6, <3>2 DEF Heard, Finished
  <2>7. QED
    BY <1>0, <1>7, <2>5, <2>6, LoopType DEF RecvFromAll
<1>8. CASE SendToAll
  <2>1. spc = "send" /\ spc' \in {"send", "close"} /\ UNCHANGED pc
    BY <1>0, <1>8, LoopType DEF SendToAll
  <2>2. QED
    BY <1>0, <2>1 DEF Heard, Finished
<1>9. CASE CloseAll \/ ServerCrash
  BY <1>0, <1>9 DEF CloseAll, ServerCrash, Heard, Finished
<1>10. CASE UNCHANGED vars
  BY <1>3, <1>10 DEF vars, sockets, Stopped
<1>11. QED
  BY <1>4, <1>5, <1>6, <1>7, <1>8, <1>9, <1>10 DEF Next, Serve

-----------------------------------------------------------------------------
(* The workload driver.                                                     *)

Before == {"connect", "create", "sync", "prepare", "start", "next"}
Behind == {"send", "recv", "stopped", "report", "done"}

LEMMA CountedStep ==
    ASSUME IInv, [Next]_vars
    PROVE  Counted'
<1> USE DEF driver
<1>0. Types /\ InPhase /\ Counted
  BY DEF IInv
<1>1. ASSUME UNCHANGED <<unlimited_stream, driver>>,
             \A u \in Thread : /\ pc'[u] \in Before => pc[u] \in Before
                               /\ pc'[u] = "apply" => pc[u] = "apply"
                               /\ pc'[u] \in Behind => pc[u] \in Behind
      PROVE  Counted'
  BY <1>0, <1>1 DEF Counted, Before, Behind
<1>2. ASSUME NEW t \in Thread, NEW label, pc' = [pc EXCEPT ![t] = label],
             UNCHANGED <<unlimited_stream, driver>>,
             {pc[t], label} \subseteq Before \/ {pc[t], label} \subseteq Behind
      PROVE  Counted'
  <2>1. \A u \in Thread : pc'[u] = IF u = t THEN label ELSE pc[u]
    BY <1>0, <1>2 DEF Types
  <2>2. QED
    BY <1>1, <1>2, <2>1 DEF Before, Behind
<1>3. ASSUME NEW n \in Node, Die(n), UNCHANGED <<unlimited_stream, driver>>
      PROVE  Counted'
  BY <1>0, <1>1, <1>3, DieMoves DEF Before, Behind
<1>4. ASSUME NEW t \in Thread, Arrive(t)
      PROVE  Counted'
  BY <1>0, <1>1, <1>4, ArriveMoves DEF Arrive, Before, Behind
<1>5. ASSUME NEW t \in Thread, NextOp(t) \/ NextEnds(t)
      PROVE  Counted'
  <2>1. pc[t] = "next" /\ count_[t] = ops_[t] /\ count_[t] \in Nat /\ ops_[t] \in Nat
        /\ (~unlimited_stream => count_[t] <= op_count)
    BY <1>0, <1>5 DEF NextOp, NextEnds, Counted, Types
  <2>2. \A u \in Thread : count_'[u] = IF u = t THEN count_[t] + 1 ELSE count_[u]
    BY <1>0, <1>5 DEF NextOp, NextEnds, Types
  <2>3. \/ pc'[t] = "apply" /\ (~unlimited_stream => count_[t] + 1 <= op_count)
        \/ pc'[t] = "send" /\ (~unlimited_stream => ops_[t] = op_count)
    <3>1. CASE NextOp(t)
      <4>1. pc'[t] = "apply" /\ FALSE \in Terminates(t)
        BY <1>0, <3>1 DEF NextOp, Types
      <4>2. ~unlimited_stream => ~(op_count < count_[t] + 1)
        BY <4>1 DEF Terminates
      <4>3. QED
        BY <2>1, <4>1, <4>2, ConstantTypes
    <3>2. CASE NextEnds(t)
      <4>1. pc'[t] = "send" /\ TRUE \in Terminates(t)
        BY <1>0, <3>2 DEF NextEnds, Types
      <4>2. ~unlimited_stream => op_count < count_[t] + 1
        BY <4>1 DEF Terminates
      <4>3. QED
        BY <2>1, <4>1, <4>2, ConstantTypes
    <3>3. QED
      BY <1>5, <3>1, <3>2
  <2>4. \A u \in Thread \ {t} : pc'[u] = pc[u]
    BY <1>0, <1>5 DEF NextOp, NextEnds, Types
  <2>5. UNCHANGED <<unlimited_stream, ops_, prev_ops_, qps, lat>>
    BY <1>5 DEF NextOp, NextEnds
  <2>6. QED
    <3>1. prev_ops_[t] <= ops_[t] /\ qps[t].ops = prev_ops_[t]
          /\ (qps_sampling_rate = lat_sampling_rate => lat[t] = qps[t].samples)
      BY <1>0 DEF Counted
    <3>2. \A u \in Thread \ {t} : count_'[u] = count_[u]
      BY <2>2
    <3>3. count_'[t] = ops_[t] + 1 /\ ops_[t] <= ops_[t] + 1
      BY <2>1, <2>2
    <3>4. QED
      BY <1>0, <2>1, <2>3, <2>4, <2>5, <3>1, <3>2, <3>3 DEF Counted
<1>6. ASSUME NEW t \in Thread, Apply(t)
      PROVE  Counted'
  <2>1. /\ pc[t] = "apply" /\ pc'[t] = "next" /\ \A u \in Thread \ {t} : pc'[u] = pc[u]
        /\ UNCHANGED <<unlimited_stream, count_>>
    BY <1>0, <1>6 DEF Apply, Types
  <2>2. /\ ops_'[t] = ops_[t] + 1 /\ \A u \in Thread \ {t} : ops_'[u] = ops_[u]
        /\ lat'[t] = lat[t] + IF curr_lap[t] > lat_sampling_rate THEN 1 ELSE 0
        /\ \A u \in Thread \ {t} : lat'[u] = lat[u]
    BY <1>0, <1>6 DEF Apply, Types
  <2>3. \A u \in Thread \ {t} : qps'[u] = qps[u] /\ prev_ops_'[u] = prev_ops_[u]
    BY <1>0, <1>6 DEF Apply, Types
  <2>4. \/ /\ curr_lap[t] > qps_sampling_rate
           /\ qps'[t] = Sample(t) /\ prev_ops_'[t] = ops_[t] + 1
        \/ /\ ~(curr_lap[t] > qps_sampling_rate)
           /\ qps'[t] = qps[t] /\ prev_ops_'[t] = prev_ops_[t]
    BY <1>0, <1>6 DEF Apply, Types
  <2>5. /\ ops_[t] \in Nat /\ prev_ops_[t] \in Nat /\ count_[t] = ops_[t] + 1 /\ lat[t] \in Nat
        /\ prev_ops_[t] <= ops_[t] /\ qps[t].ops = prev_ops_[t]
        /\ qps[t].samples \in Nat
        /\ (qps_sampling_rate = lat_sampling_rate => lat[t] = qps[t].samples)
        /\ (~unlimited_stream => count_[t] <= op_count)
    BY <1>0, <2>1 DEF Counted, Types
  <2>6. /\ prev_ops_'[t] <= ops_'[t] /\ qps'[t].ops = prev_ops_'[t]
        /\ qps_sampling_rate = lat_sampling_rate => lat'[t] = qps'[t].samples
    BY <2>2, <2>4, <2>5 DEF Sample
  <2>7. QED
    BY <1>0, <2>1, <2>2, <2>3, <2>5, <2>6 DEF Counted
<1>7. ASSUME NEW t \in Thread, Client(t)
      PROVE  Counted'
  <2>1. Home[t] \in Node
    BY HomeType
  <2>2. CASE Connect(t) \/ Create(t) \/ Prepare(t)
    BY <1>2, <2>2 DEF Connect, Create, Prepare, Before
  <2>3. CASE Send(t) \/ Recv(t) \/ RecvEnd(t) \/ Report(t)
    BY <1>2, <1>3, <2>1, <2>3 DEF Send, Recv, RecvEnd, Report, Behind
  <2>4. QED
    BY <1>4, <1>5, <1>6, <1>7, <2>2, <2>3 DEF Client
<1>8. CASE UNCHANGED <<unlimited_stream, pc, driver>>
  BY <1>1, <1>8
<1>9. QED
  BY <1>3, <1>7, <1>8
  DEF Next, Serve, Accept, RecvFromAll, SendToAll, CloseAll, Crash, ServerCrash, vars

-----------------------------------------------------------------------------
LEMMA InitInv == Init => IInv
<1> SUFFICES ASSUME Init PROVE IInv
  OBVIOUS
<1> USE DEF Init
<1>1. Types
  BY ThreadCount DEF Types, Labels
<1>2. Connections /\ InPhase
  BY ThreadCount DEF Connections, InPhase, Phase
<1>3. OneOwner /\ Bytes /\ Heard
  BY ConstantTypes DEF OneOwner, Bytes, Heard, Unsent, Stopped
<1>4. Counted
  BY ConstantTypes DEF Counted
<1>5. QED
  BY <1>1, <1>2, <1>3, <1>4 DEF IInv

LEMMA StepInv == IInv /\ [Next]_vars => IInv'
<1> SUFFICES ASSUME IInv, [Next]_vars PROVE IInv'
  OBVIOUS
<1>1. Types'
  BY TypesStep
<1>2. QED
  BY <1>1, ConnectionsStep, InPhaseStep, OneOwnerStep, BytesStep, HeardStep, CountedStep DEF IInv

LEMMA Invariant == Spec => []IInv
  BY InitInv, StepInv, PTL DEF Spec

LEMMA InvStop == IInv => StopIsBarrier
  BY DEF IInv, Types, Heard, StopIsBarrier

LEMMA InvReports == IInv => Reports
  BY DEF IInv, Counted, Reports

LEMMA InvNodes == IInv => NodesOK
<1> SUFFICES ASSUME IInv PROVE NodesOK
  OBVIOUS
<1>1. TypeOK
  <2>1. \A n \in Node : arrived[n] \subseteq ThreadsOf(n)
    BY DEF IInv, InPhase, Types, ThreadsOf
  <2>2. ASSUME NEW t \in Thread
        PROVE  /\ owner[t] \subseteq {"caller", "client"} /\ closes[t] \in 0 .. 2
               /\ up[t] \in 0 .. MsgSize /\ down[t] \in 0 .. MsgSize
               /\ prev_ops_[t] \in 0 .. ops_[t] /\ ops_[t] \in 0 .. count_[t]
    <3>1. owner[t] \subseteq {"caller", "client"}
      BY DEF IInv, Types
    <3>2. /\ closes[t] \in Nat /\ up[t] \in Nat /\ down[t] \in Nat
          /\ prev_ops_[t] \in Nat /\ ops_[t] \in Nat /\ count_[t] \in Nat
      BY DEF IInv, Types
    <3>3. /\ closes[t] <= 1 /\ up[t] <= MsgSize /\ down[t] <= MsgSize
          /\ prev_ops_[t] <= ops_[t] /\ ops_[t] <= count_[t]
      BY DEF IInv, OneOwner, Bytes, Counted
    <3>4. QED
      BY <3>1, <3>2, <3>3, ConstantTypes
  <2>3. QED
    BY <2>1, <2>2 DEF IInv, Types, TypeOK
<1>2. LocalPhases
  <2>1. SUFFICES ASSUME NEW n \in Node, NEW t \in ThreadsOf(n), NEW u \in ThreadsOf(n)
                 PROVE  /\ {t, u} \subseteq arrived[n] => pc[t] = pc[u]
                        /\ pc[t] \in {"next", "apply", "send", "recv"}
                             => pc[u] \notin {"sync", "prepare"}
                        /\ pc[t] \in {"report", "done"} => Stopped(u)
    BY DEF LocalPhases
  <2>2. t \in Thread /\ u \in Thread /\ Phase(pc[t]) = Phase(pc[u]) /\ pc[u] \in Labels
    <3>1. t \in Thread /\ u \in Thread /\ Home[t] = Home[u]
      BY <2>1 DEF ThreadsOf
    <3>2. QED
      BY <3>1 DEF IInv, InPhase, Types
  <2>3. \A v \in arrived[n] : pc[v] \in {"sync", "start", "stopped"}
    BY DEF IInv, InPhase
  <2>4. QED
    BY <2>2, <2>3 DEF Phase, Stopped, Labels
<1>3. ClosedOnce
  BY DEF IInv, OneOwner, Types, ClosedOnce
<1>4. QED
  BY <1>1, <1>2, <1>3 DEF NodesOK

\* ClientStopBarrier and Client::Stop are a barrier for any number of clients, as
\* long as the server lives: nobody gets past it, and the server sends no answer,
\* while a client anywhere has operations to apply, whatever reads return and
\* whoever dies.
THEOREM StopBarrier == Spec => []StopIsBarrier
  BY Invariant, InvStop, PTL

\* The threads of a node keep in step through the three uses of their barrier, and
\* the socket of a thread is closed once, although two objects name it.
THEOREM NodesInStep == Spec => []NodesOK
  BY Invariant, InvNodes, PTL

\* A WorkloadDriver over a stream of any length reports the number of operations
\* it was asked for, and no operation is in two samples of the throughput.
THEOREM ReportsAreRight == Spec => []Reports
  BY Invariant, InvReports, PTL
=============================================================================
