---------------------- MODULE ConnectionManagerProofs ----------------------
(***************************************************************************)
(* Theorems about ConnectionManager, for any set of nodes and any order in *)
(* which they go through their peers.                                      *)
(***************************************************************************)
EXTENDS ConnectionManager, TLAPS

\* A thread inside Connect, GetConnection, Send or Deliver is at a peer of the
\* vector it was started with, and has disconnected nobody.
AtPeer ==
    \A n \in Node :
        /\ pc[n] \in {"retry", "locked", "waiting", "returning", "getting", "using"}
             => next[n] <= Len(Peers[n])
        /\ disconnected[n] # {} => pc[n] \in {"disconnecting", "closed", "aborted"}

\* Sequences: what Append, Tail and an index within bounds yield.
LEMMA AppendType ==
    ASSUME NEW S, NEW s \in Seq(S), NEW e \in S
    PROVE  Append(s, e) \in Seq(S)
  OBVIOUS

LEMMA TailType ==
    ASSUME NEW S, NEW s \in Seq(S), s # <<>>
    PROVE  Tail(s) \in Seq(S)
  OBVIOUS

LEMMA ElementType ==
    ASSUME NEW S, NEW s \in Seq(S), NEW i \in Nat \ {0}, i <= Len(s)
    PROVE  s[i] \in S
  OBVIOUS

\* Queueing an event, or taking the first one, keeps the type of the queues.
LEMMA QueueType ==
    ASSUME NEW q \in [Node -> Seq(Event)], NEW n \in Node, NEW e \in Event
    PROVE  /\ [q EXCEPT ![n] = Append(@, e)] \in [Node -> Seq(Event)]
           /\ q[n] # <<>> => [q EXCEPT ![n] = Tail(@)] \in [Node -> Seq(Event)]
  BY AppendType, TailType

\* A loop of init_cm that has not ended is at a peer of the node.
LEMMA PeerType ==
    ASSUME TypeOK, NEW n \in Node, next[n] <= Len(Peers[n])
    PROVE  Peer(n) \in Node
<1>1. Peers[n] \in Seq(Node)
  BY NodeAssumption DEF NodeAssumption
<1>2. next[n] \in Nat \ {0}
  BY DEF TypeOK
<1>3. QED
  BY <1>1, <1>2, ElementType DEF Peer

LEMMA InitType == Init => TypeOK /\ AtPeer
  BY DEF Init, TypeOK, AtPeer, AppPc, Poll

LEMMA StepType ==
    ASSUME TypeOK, AtPeer, [Next]_vars
    PROVE  TypeOK' /\ AtPeer'
<1> USE DEF TypeOK, AtPeer, AppPc
<1>1. ASSUME NEW n \in Node, Start(n)
      PROVE  TypeOK' /\ AtPeer'
  BY <1>1 DEF Start, Go, brokerVars
<1>2. ASSUME NEW n \in Node, Connect(n)
      PROVE  TypeOK' /\ AtPeer'
  <2>1. CASE ConnectCall(n)
    BY <2>1 DEF ConnectCall, Acquire, InLoop, Go, brokerVars
  <2>2. CASE ConnectFound(n)
    BY <2>2 DEF ConnectFound, Release, Go, brokerVars
  <2>3. CASE ConnectReturn(n)
    BY <2>3 DEF ConnectReturn, Visited, Go, brokerVars, cmVars
  <2>4. CASE ConnectLoopback(n)
    BY <2>4 DEF ConnectLoopback, Release, Go, brokerVars
  <2>5. CASE ConnectSend(n)
    <3>1. Ev("CONNECT_REQUEST", n) \in Event
      BY DEF Ev, Event
    <3>2. Peer(n) \in Node
      BY <2>5, PeerType DEF ConnectSend
    <3>3. pending' \in [Node -> Seq(Event)]
      <4>1. CASE pending' = [pending EXCEPT ![Peer(n)] = Append(@, Ev("CONNECT_REQUEST", n))]
        BY <4>1, <3>1, <3>2, QueueType
      <4>2. CASE UNCHANGED pending
        BY <4>2
      <4>3. QED
        BY <2>5, <4>1, <4>2 DEF ConnectSend
    <3>4. answer' \in [Node -> {"none", "ESTABLISHED", "REJECTED", "UNREACHABLE"}]
      BY <2>5 DEF ConnectSend
    <3>5. QED
      BY <2>5, <3>3, <3>4 DEF ConnectSend, Go, cmVars
  <2>6. CASE ConnectFails(n)
    <3>1. mu' \in [Node -> Node \cup {kUnlocked}]
      BY <2>6 DEF ConnectFails, Release
    <3>2. QED
      BY <2>6, <3>1 DEF ConnectFails, Go, brokerVars
  <2>7. CASE ConnectEstablished(n)
    <3>1. established' \in [Node -> [Node -> Node \cup {NoConn}]]
      BY <2>7 DEF ConnectEstablished
    <3>2. QED
      BY <2>7, <3>1 DEF ConnectEstablished, Reply, Release, Visited, Go, brokerVars
  <2>8. CASE ConnectEstablishedFails(n)
    BY <2>8 DEF ConnectEstablishedFails, Reply, Go, brokerVars, cmVars
  <2>9. CASE ConnectRejected(n)
    BY <2>9 DEF ConnectRejected, Reply, Release, Go, brokerVars
  <2>10. CASE ConnectUnexpected(n)
    BY <2>10 DEF ConnectUnexpected, Reply, Release, Go, brokerVars
  <2>11. QED
    BY <1>2, <2>1, <2>2, <2>3, <2>4, <2>5, <2>6, <2>7, <2>8, <2>9, <2>10 DEF Connect
<1>3. ASSUME NEW n \in Node, NextPhase(n)
      PROVE  TypeOK' /\ AtPeer'
  <2>1. phase' \in [Node -> {"connect", "send", "deliver", "up"}]
    BY <1>3 DEF NextPhase
  <2>2. next' \in [Node -> Nat \ {0}] /\ \A m \in Node : m # n => next'[m] = next[m]
    <3>1. CASE next' = [next EXCEPT ![n] = 1]
      BY <3>1
    <3>2. CASE UNCHANGED next
      BY <3>2
    <3>3. QED
      BY <1>3, <3>1, <3>2 DEF NextPhase
  <2>3. pc[n] = "idle"
    BY <1>3 DEF NextPhase
  <2>4. QED
    BY <1>3, <2>1, <2>2, <2>3 DEF NextPhase, brokerVars, cmVars
<1>4. ASSUME NEW n \in Node, GetConnection(n) \/ GetConnectionReturn(n)
      PROVE  TypeOK' /\ AtPeer'
  <2>1. CASE GetConnection(n)
    BY <2>1 DEF GetConnection, Acquire, InLoop, Go, brokerVars
  <2>2. CASE GetConnectionReturn(n)
    <3>1. PICK label \in {"using", "failed"} : Go(n, label)
      BY <2>2 DEF GetConnectionReturn
    <3>2. QED
      BY <2>2, <3>1 DEF GetConnectionReturn, Release, Go, brokerVars
  <2>3. QED
    BY <1>4, <2>1, <2>2
<1>5. ASSUME NEW n \in Node, Send(n)
      PROVE  TypeOK' /\ AtPeer'
  <2>1. Peer(n) \in Node
    BY <1>5, PeerType DEF Send
  <2>2. QED
    BY <1>5, <2>1 DEF Send, Visited, Go, brokerVars, cmVars
<1>6. ASSUME NEW n \in Node, SendFails(n) \/ Deliver(n) \/ DeliverAborted(n)
      PROVE  TypeOK' /\ AtPeer'
  <2>1. CASE SendFails(n)
    BY <2>1 DEF SendFails, Go, brokerVars, cmVars
  <2>2. CASE Deliver(n)
    BY <2>2 DEF Deliver, Visited, Go, brokerVars, cmVars
  <2>3. CASE DeliverAborted(n)
    BY <2>3 DEF DeliverAborted, Go, brokerVars, cmVars
  <2>4. QED
    BY <1>6, <2>1, <2>2, <2>3
<1>7. ASSUME NEW n \in Node, CloseBegin(n)
      PROVE  TypeOK' /\ AtPeer'
  <2>1. mu' \in [Node -> Node \cup {kUnlocked}]
    <3>1. CASE mu' = [mu EXCEPT ![n] = n]
      BY <3>1
    <3>2. CASE UNCHANGED mu
      BY <3>2
    <3>3. QED
      BY <1>7, <3>1, <3>2 DEF CloseBegin, AcquireUnchecked, Acquire
  <2>2. QED
    BY <1>7, <2>1 DEF CloseBegin, Go, brokerVars
<1>8. ASSUME NEW n \in Node, BrokerStop(n) \/ CloseEnd(n) \/ ProcessEnds(n)
      PROVE  TypeOK' /\ AtPeer'
  <2>1. pending' \in [Node -> Seq(Event)]
    <3>1. <<>> \in Seq(Event)
      OBVIOUS
    <3>2. pending' = pending \/ pending' = [pending EXCEPT ![n] = <<>>]
      BY <1>8 DEF BrokerStop, CloseEnd, ProcessEnds, brokerVars
    <3>3. QED
      BY <3>1, <3>2
  <2>2. established' \in [Node -> [Node -> Node \cup {NoConn}]]
    <3>1. \/ established' = established
          \/ established' = [established EXCEPT ![n] = [p \in Node |-> NoConn]]
      BY <1>8 DEF BrokerStop, CloseEnd, ProcessEnds, cmVars
    <3>2. [p \in Node |-> NoConn] \in [Node -> Node \cup {NoConn}]
      OBVIOUS
    <3>3. QED
      BY <3>1, <3>2
  <2>3. CASE BrokerStop(n)
    BY <2>1, <2>3 DEF BrokerStop, Go, cmVars
  <2>4. CASE CloseEnd(n)
    BY <2>2, <2>4 DEF CloseEnd, Release, Go, brokerVars
  <2>5. CASE ProcessEnds(n)
    <3>1. brk' \in [Node -> Poll]
      BY <2>5 DEF ProcessEnds, Poll
    <3>2. QED
      BY <2>1, <2>2, <2>5, <3>1 DEF ProcessEnds, Go
  <2>6. QED
    BY <1>8, <2>3, <2>4, <2>5
<1>14. ASSUME NEW n \in Node, NEW p \in Node, Disconnect(n, p) \/ KernelDisconnects(n, p)
       PROVE  TypeOK' /\ AtPeer'
  <2>1. Ev("DISCONNECTED", n) \in Event
    BY DEF Ev, Event
  <2>2. EndGone(n, p)
    BY <1>14 DEF Disconnect, KernelDisconnects
  <2>3. pending' \in [Node -> Seq(Event)]
    BY <2>1, <2>2, QueueType DEF EndGone
  <2>4. UNCHANGED <<accepting, mu, established, brk, pc, phase, next, answer, sent>>
    BY <2>2 DEF EndGone, cmVars, appVars
  <2>5. disconnected' = [disconnected EXCEPT ![n] = @ \cup {p}]
    BY <2>2 DEF EndGone
  <2>6. pc[n] \in {"disconnecting", "closed", "aborted"}
    BY <1>14 DEF Disconnect, KernelDisconnects
  <2>7. disconnected' \in [Node -> SUBSET Node]
    BY <2>5
  <2>8. AtPeer'
    BY <2>4, <2>5, <2>6
  <2>9. QED
    BY <2>3, <2>4, <2>7, <2>8
<1>9. ASSUME NEW n \in Node, HandleRequest(n) \/ HandleDisconnect(n)
      PROVE  TypeOK' /\ AtPeer'
  <2>1. CASE HandleRequest(n)
    <3>1. brk[n].from \in Node
      BY DEF Poll
    <3>2. /\ established' \in [Node -> [Node -> Node \cup {NoConn}]]
          /\ answer' \in [Node -> {"none", "ESTABLISHED", "REJECTED", "UNREACHABLE"}]
      <4>1. CASE established[n][brk[n].from] # NoConn
        <5>1. established' = established
          BY <2>1, <4>1 DEF HandleRequest
        <5>2. answer' = [answer EXCEPT ![brk[n].from] = "REJECTED"]
          BY <2>1, <4>1 DEF HandleRequest, Tell
        <5>3. QED
          BY <5>1, <5>2
      <4>2. CASE established[n][brk[n].from] = NoConn
        <5>1. established' = [established EXCEPT ![n][brk[n].from] = brk[n].from]
          BY <2>1, <4>2 DEF HandleRequest
        <5>2. answer' = [answer EXCEPT ![brk[n].from] = "ESTABLISHED"]
          BY <2>1, <4>2 DEF HandleRequest, Tell
        <5>3. QED
          BY <3>1, <5>1, <5>2
      <4>3. QED
        BY <4>1, <4>2
    <3>3. brk' \in [Node -> Poll]
      BY <2>1, <3>1 DEF HandleRequest, Poll
    <3>4. QED
      BY <2>1, <3>2, <3>3 DEF HandleRequest, Release
  <2>2. CASE HandleDisconnect(n)
    <3>1. established' \in [Node -> [Node -> Node \cup {NoConn}]]
      <4>1. PICK q : q = brk[n].from
        OBVIOUS
      <4>2. q \in Node
        BY <4>1 DEF Poll
      <4>3. established' = [established EXCEPT ![n][q] = IF @ = q THEN NoConn ELSE @]
        BY <2>2, <4>1 DEF HandleDisconnect
      <4>4. CASE established[n][q] = q
        <5>1. established' = [established EXCEPT ![n][q] = NoConn]
          BY <4>3, <4>4
        <5>2. QED
          BY <4>2, <5>1
      <4>5. CASE established[n][q] # q
        <5>1. established' = established
          BY <4>2, <4>3, <4>5
        <5>2. QED
          BY <5>1
      <4>6. QED
        BY <4>4, <4>5
    <3>2. brk' \in [Node -> Poll]
      BY <2>2 DEF HandleDisconnect, Poll
    <3>3. mu' \in [Node -> Node \cup {kUnlocked}]
      BY <2>2 DEF HandleDisconnect, Release
    <3>4. QED
      BY <2>2, <3>1, <3>2, <3>3 DEF HandleDisconnect, appVars
  <2>3. QED
    BY <1>9, <2>1, <2>2
<1>10. ASSUME NEW n \in Node, NEW p \in Node,
              \/ OnConnectRequestIgnored(n, p) \/ OnConnectRequestBusy(n, p)
              \/ OnConnectRequest(n, p) \/ OnDisconnect(n, p)
       PROVE  TypeOK' /\ AtPeer'
  <2>1. pending' \in [Node -> Seq(Event)]
    <3>1. pending[n] # <<>> /\ pending' = [pending EXCEPT ![n] = Tail(@)]
      BY <1>10 DEF OnConnectRequestIgnored, OnConnectRequestBusy, OnConnectRequest,
                   OnDisconnect, Take
    <3>2. QED
      BY <3>1, TailType
  <2>2. CASE OnConnectRequestIgnored(n, p)
    BY <2>1, <2>2 DEF OnConnectRequestIgnored, cmVars, appVars
  <2>3. CASE OnConnectRequestBusy(n, p)
    BY <2>1, <2>3 DEF OnConnectRequestBusy, Tell, cmVars
  <2>4. CASE OnConnectRequest(n, p)
    BY <2>1, <2>4 DEF OnConnectRequest, Acquire, Poll, appVars
  <2>5. CASE OnDisconnect(n, p)
    BY <2>1, <2>5 DEF OnDisconnect, AcquireUnchecked, Acquire, GivesUp, Poll, appVars
  <2>6. QED
    BY <1>10, <2>2, <2>3, <2>4, <2>5
<1>11. ASSUME NEW n \in Node, TransportAnswers(n)
       PROVE  TypeOK' /\ AtPeer'
  BY <1>11 DEF TransportAnswers, Tell, cmVars, brokerVars
<1>12. CASE UNCHANGED vars
  BY <1>12 DEF vars, cmVars, brokerVars, appVars
<1>13. QED
  BY <1>1, <1>2, <1>3, <1>4, <1>5, <1>6, <1>7, <1>8, <1>9, <1>10, <1>11, <1>12, <1>14
     DEF Next, InitCm, Broker, Transport, Terminated

\* Every variable keeps its type, whatever fails and whoever leaves: the loops of
\* init_cm never read behind the vector of peers.
THEOREM TypeCorrect == Spec => []TypeOK
<1>1. Spec => [](TypeOK /\ AtPeer)
  BY InitType, StepType, PTL DEF Spec
<1>2. QED
  BY <1>1, PTL

-----------------------------------------------------------------------------
(* An installation in which no verbs call fails and nobody leaves           *)
(* (Unstable = {}).  The invariants that make set-up correct are proved     *)
(* together: each needs the others.                                         *)

\* Nobody fails, stops or disconnects.
Quiet ==
    \A n \in Node :
        /\ pc[n] \in {"start", "idle", "retry", "locked", "waiting", "returning",
                      "getting", "using"}
        /\ brk[n].op \in {"poll", "request"}
        /\ answer[n] # "UNREACHABLE"
        /\ \A i \in 1..Len(pending[n]) : pending[n][i].type = "CONNECT_REQUEST"

Asks(p, n) == Queued(p, Ev("CONNECT_REQUEST", n))
Serves(p, n) == brk[p].op = "request" /\ brk[p].from = n
Waits(n) == pc[n] = "waiting"

\* A request is in one place: in the queue of the peer its sender waits for, in
\* the hands of that peer's broker, or answered or lost.
Requests ==
    /\ \A p \in Node : \A i, j \in 1..Len(pending[p]) : pending[p][i] = pending[p][j] => i = j
    /\ \A p, n \in Node : Asks(p, n) => Waits(n) /\ Peer(n) = p /\ answer[n] = "none" /\ ~ Serves(p, n)
    /\ \A p, n \in Node : Serves(p, n) => Waits(n) /\ Peer(n) = p /\ answer[n] = "none"
    /\ \A n \in Node : answer[n] # "none" => Waits(n)
    /\ \A n \in Node : Waits(n) => Peer(n) # n /\ established[n][Peer(n)] = NoConn

\* Nobody waits for a peer that has not started.
OneRequest ==
    /\ Requests
    /\ \A n \in Node : Waits(n) /\ answer[n] = "none" => pc[Peer(n)] # "start"

\* The two ends of a connection, while the answer travels and after it arrived.
Ends ==
    \A a, b \in Node :
        /\ established[a][b] \in {a, b, NoConn}
        /\ established[a][b] = a => established[b][a] = a
        /\ a # b /\ established[a][b] = b =>
             \/ established[b][a] = b
             \/ Waits(b) /\ Peer(b) = a /\ answer[b] = "ESTABLISHED"
        /\ Waits(b) /\ Peer(b) = a /\ answer[b] = "ESTABLISHED" => established[a][b] = b

\* Which loop of init_cm a thread is in.
Loop(n) ==
    /\ pc[n] \in {"start", "retry", "locked", "waiting", "returning"} => phase[n] = "connect"
    /\ pc[n] \in {"getting", "using"} => phase[n] \in {"send", "deliver"}
    /\ pc[n] = "returning" => established[n][Peer(n)] # NoConn

\* What the first loop has done so far, and what it leaves behind.
Connected(n) ==
    /\ phase[n] = "connect" =>
         \A i \in 1..Len(Peers[n]) : i < next[n] => established[n][Peers[n][i]] # NoConn
    /\ phase[n] # "connect" => \A p \in Node : established[n][p] # NoConn
    /\ sent[n] # {} => phase[n] # "connect"

\* What the last loop has done so far, and what it leaves behind.
Told(n) ==
    /\ phase[n] = "deliver" =>
         \A i \in 1..Len(Peers[n]) : i < next[n] => n \in sent[Peers[n][i]]
    /\ phase[n] = "up" => \A p \in Node : n \in sent[p]

Progress == \A n \in Node : Loop(n) /\ Connected(n) /\ Told(n)

StableInv == TypeOK /\ AtPeer /\ Quiet /\ LockExclusion /\ OneRequest /\ Ends /\ Progress

LEMMA StableInit == Init => StableInv
<1>1. ASSUME Init PROVE StableInv
  <2>1. TypeOK /\ AtPeer
    BY <1>1, InitType
  <2>2. Quiet /\ LockExclusion
    BY <1>1 DEF Init, Quiet, LockExclusion, AppHoldsLock, BrokerInside
  <2>3. OneRequest
    BY <1>1 DEF Init, OneRequest, Requests, Asks, Queued, Serves, Waits
  <2>4. Ends /\ Progress
    BY <1>1, NodeAssumption DEF NodeAssumption, Init, Ends, Waits, Progress, Loop, Connected, Told
  <2>5. QED
    BY <2>1, <2>2, <2>3, <2>4 DEF StableInv
<1>2. QED
  BY <1>1

\* Of the queues, the invariant speaks through Asks only.  What queueing an event
\* and taking the first one do to it:
LEMMA Append1 ==
    ASSUME NEW q \in [Node -> Seq(Event)], NEW p \in Node, NEW e \in Event,
           NEW m \in Node, NEW f,
           \A i \in 1..Len(q[p]) : q[p][i] # e
    PROVE  LET r == [q EXCEPT ![p] = Append(@, e)] IN
           /\ (\E i \in 1..Len(r[m]) : r[m][i] = f) <=>
                (\E i \in 1..Len(q[m]) : q[m][i] = f) \/ (m = p /\ f = e)
           /\ (\A i, j \in 1..Len(q[m]) : q[m][i] = q[m][j] => i = j) =>
                \A i, j \in 1..Len(r[m]) : r[m][i] = r[m][j] => i = j
  OBVIOUS

LEMMA Tail1 ==
    ASSUME NEW S, NEW s \in Seq(S), s # <<>>, NEW f,
           \A i, j \in 1..Len(s) : s[i] = s[j] => i = j
    PROVE  /\ (\E i \in 1..Len(Tail(s)) : Tail(s)[i] = f) <=>
                (\E i \in 1..Len(s) : s[i] = f) /\ f # Head(s)
           /\ \A i, j \in 1..Len(Tail(s)) : Tail(s)[i] = Tail(s)[j] => i = j
<1>1. /\ Len(s) \in Nat \ {0} /\ Len(Tail(s)) = Len(s) - 1 /\ Head(s) = s[1]
      /\ \A i \in 1..Len(Tail(s)) : Tail(s)[i] = s[i + 1]
  OBVIOUS
<1>2. ASSUME NEW i \in 1..Len(Tail(s))
      PROVE  i + 1 \in 1..Len(s) /\ i + 1 # 1 /\ Tail(s)[i] = s[i + 1]
  BY <1>1
<1>3. ASSUME NEW i \in 1..Len(s), i # 1
      PROVE  i - 1 \in 1..Len(Tail(s)) /\ Tail(s)[i - 1] = s[i]
  <2>1. i - 1 \in 1..Len(Tail(s)) /\ (i - 1) + 1 = i
    BY <1>1, <1>3
  <2>2. Tail(s)[i - 1] = s[(i - 1) + 1]
    BY <1>1, <2>1
  <2>3. QED
    BY <2>1, <2>2
<1>4. (\E i \in 1..Len(Tail(s)) : Tail(s)[i] = f) => (\E i \in 1..Len(s) : s[i] = f) /\ f # s[1]
  BY <1>1, <1>2
<1>5. (\E i \in 1..Len(s) : s[i] = f) /\ f # s[1] => \E i \in 1..Len(Tail(s)) : Tail(s)[i] = f
  BY <1>3
<1>6. ASSUME NEW i \in 1..Len(Tail(s)), NEW j \in 1..Len(Tail(s)), Tail(s)[i] = Tail(s)[j]
      PROVE  i = j
  <2>1. i + 1 = j + 1
    BY <1>2, <1>6
  <2>2. QED
    BY <2>1
<1>7. QED
  BY <1>1, <1>4, <1>5, <1>6

\* Steps of a thread that is not waiting for an answer leave the requests alone.
LEMMA QuietStep ==
    ASSUME StableInv, NEW n \in Node,
           UNCHANGED <<pending, brk, answer, established>>,
           \A m \in Node \ {n} : pc'[m] = pc[m] /\ next'[m] = next[m],
           ~ Waits(n), ~ Waits(n)', pc'[n] # "start"
    PROVE  OneRequest' /\ Ends'
<1> USE DEF StableInv
<1>1. \A m \in Node : Waits(m)' <=> Waits(m)
  BY DEF Waits
<1>2. \A m \in Node : Waits(m) => m # n /\ Peer(m)' = Peer(m)
  BY DEF Waits, Peer
<1>3. \A p, m \in Node : (Asks(p, m)' <=> Asks(p, m)) /\ (Serves(p, m)' <=> Serves(p, m))
  BY DEF Asks, Queued, Serves
<1>4. \A m \in Node : pc[m] # "start" => pc'[m] # "start"
  OBVIOUS
<1>5. \A m \in Node : Waits(m) => Peer(m) \in Node
  BY PeerType DEF AtPeer, Waits
<1>6. OneRequest'
  BY <1>1, <1>2, <1>3, <1>4, <1>5 DEF OneRequest, Requests
<1>7. Ends'
  BY <1>1, <1>2 DEF Ends
<1>8. QED
  BY <1>6, <1>7

\* A step of one node keeps what it does not undo: entries and messages are only
\* added, and the others' threads stay where they are.
LEMMA ProgressFrame ==
    ASSUME StableInv, NEW n \in Node,
           \A m \in Node \ {n} : /\ pc'[m] = pc[m] /\ phase'[m] = phase[m]
                                /\ next'[m] = next[m] /\ sent'[m] = sent[m],
           \A a, b \in Node : established[a][b] # NoConn => established'[a][b] # NoConn,
           \A m \in Node : sent[m] \subseteq sent'[m]
    PROVE  /\ \A m \in Node \ {n} : (Loop(m) /\ Connected(m) /\ Told(m))'
           /\ phase'[n] = phase[n] /\ next'[n] = next[n] /\ sent' = sent
                => Connected(n)' /\ Told(n)'
<1> USE DEF StableInv
<1>1. \A m \in Node : \A i \in 1..Len(Peers[m]) : Peers[m][i] \in Node
  BY NodeAssumption, ElementType DEF NodeAssumption
<1>2. ASSUME NEW m \in Node \ {n}
      PROVE  (Loop(m) /\ Connected(m) /\ Told(m))'
  <2>1. Loop(m) /\ Connected(m) /\ Told(m)
    BY DEF Progress
  <2>2. pc[m] = "returning" => Peer(m) \in Node /\ Peer(m)' = Peer(m)
    BY PeerType DEF AtPeer, Peer
  <2>3. Loop(m)'
    BY <2>1, <2>2 DEF Loop
  <2>4. Connected(m)'
    BY <1>1, <2>1 DEF Connected
  <2>5. Told(m)'
    BY <1>1, <2>1 DEF Told
  <2>6. QED
    BY <2>3, <2>4, <2>5
<1>3. ASSUME phase'[n] = phase[n], next'[n] = next[n], sent' = sent
      PROVE  Connected(n)' /\ Told(n)'
  <2>1. Connected(n) /\ Told(n)
    BY DEF Progress
  <2>2. Connected(n)'
    BY <1>1, <1>3, <2>1 DEF Connected
  <2>3. Told(n)'
    BY <1>1, <1>3, <2>1 DEF Told
  <2>4. QED
    BY <2>2, <2>3
<1>4. QED
  BY <1>2, <1>3

\* A lock that is free is held by neither thread.
LEMMA FreeLock ==
    ASSUME StableInv, NEW n \in Node
    PROVE  /\ brk[n].from \in Node
           /\ mu[n] = kUnlocked => ~ AppHoldsLock(n) /\ ~ BrokerInside(n)
<1>1. brk[n].from \in Node
  BY DEF StableInv, TypeOK, Poll
<1>2. QED
  BY <1>1, NodeAssumption DEF NodeAssumption, StableInv, LockExclusion

LEMMA StableApp ==
    ASSUME StableInv, TypeOK', AtPeer', NEW n \in Node,
           \/ Start(n) \/ ConnectCall(n) \/ ConnectFound(n) \/ ConnectReturn(n)
           \/ GetConnection(n) \/ GetConnectionReturn(n)
    PROVE  StableInv'
<1> USE DEF StableInv
<1>1. OneRequest' /\ Ends'
  <2>1. /\ UNCHANGED <<pending, brk, answer, established>>
        /\ \A m \in Node \ {n} : pc'[m] = pc[m] /\ next'[m] = next[m]
        /\ ~ Waits(n) /\ ~ Waits(n)' /\ pc'[n] # "start"
    BY DEF Start, ConnectCall, ConnectFound, ConnectReturn, GetConnection, GetConnectionReturn,
           Visited, Go, Waits, TypeOK, brokerVars, cmVars
  <2>2. QED
    BY <2>1, QuietStep
<1>2. /\ \A m \in Node \ {n} : /\ pc'[m] = pc[m] /\ phase'[m] = phase[m]
                              /\ next'[m] = next[m] /\ sent'[m] = sent[m]
      /\ established' = established /\ sent' = sent /\ phase' = phase
  BY DEF Start, ConnectCall, ConnectFound, ConnectReturn, GetConnection, GetConnectionReturn,
         Visited, Go, TypeOK, brokerVars, cmVars
<1>3. /\ \A m \in Node \ {n} : (Loop(m) /\ Connected(m) /\ Told(m))'
      /\ next'[n] = next[n] => Connected(n)' /\ Told(n)'
  BY <1>2, ProgressFrame
<1>4. Loop(n) /\ Connected(n) /\ Told(n)
  BY DEF Progress
<1>5. CASE Start(n)
  <2>1. Quiet'
    BY <1>5 DEF Start, Go, Quiet, brokerVars, TypeOK
  <2>2. LockExclusion'
    BY <1>5, FreeLock DEF Start, Go, LockExclusion, AppHoldsLock, BrokerInside,
                        brokerVars, TypeOK
  <2>3. Loop(n)'
    BY <1>5, <1>4 DEF Start, Go, Loop, Peer, TypeOK
  <2>4. next' = next
    BY <1>5 DEF Start
  <2>5. QED
    BY <1>1, <1>3, <2>1, <2>2, <2>3, <2>4 DEF Progress
<1>6. CASE ConnectCall(n)
  <2>1. Quiet'
    BY <1>6 DEF ConnectCall, Acquire, Go, Quiet, brokerVars, TypeOK
  <2>2. LockExclusion'
    BY <1>6, FreeLock DEF ConnectCall, Acquire, Go, LockExclusion, AppHoldsLock, BrokerInside,
                        brokerVars, TypeOK
  <2>3. Loop(n)'
    BY <1>6, <1>4 DEF ConnectCall, Acquire, Go, Loop, Peer, TypeOK
  <2>4. next' = next
    BY <1>6 DEF ConnectCall
  <2>5. QED
    BY <1>1, <1>3, <2>1, <2>2, <2>3, <2>4 DEF Progress
<1>7. CASE ConnectFound(n)
  <2>1. Quiet'
    BY <1>7 DEF ConnectFound, Release, Go, Quiet, brokerVars, TypeOK
  <2>2. LockExclusion'
    BY <1>7, FreeLock DEF ConnectFound, Release, Go, LockExclusion, AppHoldsLock, BrokerInside,
                        brokerVars, TypeOK
  <2>3. Loop(n)'
    BY <1>7, <1>4 DEF ConnectFound, Release, Go, Loop, Peer, TypeOK
  <2>4. next' = next
    BY <1>7 DEF ConnectFound
  <2>5. QED
    BY <1>1, <1>3, <2>1, <2>2, <2>3, <2>4 DEF Progress
<1>8. CASE ConnectReturn(n)
  <2>1. Quiet'
    BY <1>8 DEF ConnectReturn, Visited, cmVars, Go, Quiet, brokerVars, TypeOK
  <2>2. LockExclusion'
    BY <1>8, FreeLock DEF ConnectReturn, Visited, cmVars, Go, LockExclusion, AppHoldsLock, BrokerInside,
                        brokerVars, TypeOK
  <2>3. Loop(n)'
    BY <1>8, <1>4 DEF ConnectReturn, Visited, cmVars, Go, Loop, Peer, TypeOK
  <2>4. Connected(n)' /\ Told(n)'
    BY <1>8, <1>2, <1>4 DEF ConnectReturn, Visited, cmVars, Go, Loop, Connected, Told, Peer, TypeOK
  <2>5. QED
    BY <1>1, <1>3, <2>1, <2>2, <2>3, <2>4 DEF Progress
<1>9. CASE GetConnection(n)
  <2>1. Quiet'
    BY <1>9 DEF GetConnection, Acquire, Go, Quiet, brokerVars, TypeOK
  <2>2. LockExclusion'
    BY <1>9, FreeLock DEF GetConnection, Acquire, Go, LockExclusion, AppHoldsLock, BrokerInside,
                        brokerVars, TypeOK
  <2>3. Loop(n)'
    BY <1>9, <1>4 DEF GetConnection, Acquire, Go, Loop, Peer, TypeOK
  <2>4. next' = next
    BY <1>9 DEF GetConnection
  <2>5. QED
    BY <1>1, <1>3, <2>1, <2>2, <2>3, <2>4 DEF Progress
<1>10. CASE GetConnectionReturn(n)
  <2>1. Go(n, "using")
    BY <1>10, <1>4, PeerType DEF GetConnectionReturn, AtPeer, Connected, Loop
  <2>2. Quiet'
    BY <1>10, <2>1 DEF GetConnectionReturn, Release, Go, Quiet, brokerVars, TypeOK
  <2>3. LockExclusion'
    BY <1>10, <2>1, FreeLock DEF GetConnectionReturn, Release, Go, LockExclusion, AppHoldsLock, BrokerInside,
                        brokerVars, TypeOK
  <2>4. Loop(n)'
    BY <1>10, <2>1, <1>4 DEF GetConnectionReturn, Release, Go, Loop, Peer, TypeOK
  <2>5. next' = next
    BY <1>10 DEF GetConnectionReturn
  <2>6. QED
    BY <1>1, <1>3, <2>1, <2>2, <2>3, <2>4, <2>5 DEF Progress
<1>11. QED
  BY <1>5, <1>6, <1>7, <1>8, <1>9, <1>10

LEMMA StableLoops ==
    ASSUME StableInv, TypeOK', AtPeer', NEW n \in Node,
           NextPhase(n) \/ Send(n) \/ Deliver(n)
    PROVE  StableInv'
<1> USE DEF StableInv
<1>1. OneRequest' /\ Ends'
  <2>1. /\ UNCHANGED <<pending, brk, answer, established>>
        /\ \A m \in Node \ {n} : pc'[m] = pc[m] /\ next'[m] = next[m]
        /\ ~ Waits(n) /\ ~ Waits(n)' /\ pc'[n] # "start"
    BY DEF NextPhase, Send, Deliver, Visited, Go, Waits, TypeOK, brokerVars, cmVars
  <2>2. QED
    BY <2>1, QuietStep
<1>2. Quiet' /\ LockExclusion'
  <2>1. /\ UNCHANGED <<pending, brk, answer, mu>>
        /\ pc'[n] = "idle" /\ \A m \in Node \ {n} : pc'[m] = pc[m]
    BY DEF NextPhase, Send, Deliver, Visited, Go, TypeOK, brokerVars, cmVars
  <2>2. QED
    BY <2>1 DEF Quiet, LockExclusion, AppHoldsLock, BrokerInside
<1>3. \A m \in Node \ {n} : (Loop(m) /\ Connected(m) /\ Told(m))'
  <2>1. /\ \A m \in Node \ {n} : /\ pc'[m] = pc[m] /\ phase'[m] = phase[m]
                                /\ next'[m] = next[m] /\ sent'[m] = sent[m]
        /\ established' = established
    <3>1. CASE NextPhase(n)
      <4>1. UNCHANGED <<pc, sent, established>>
        BY <3>1 DEF NextPhase, cmVars
      <4>2. \A m \in Node \ {n} : phase'[m] = phase[m]
        <5>1. PICK l : phase' = [phase EXCEPT ![n] = l]
          BY <3>1 DEF NextPhase
        <5>2. QED
          BY <5>1 DEF TypeOK
      <4>3. \A m \in Node \ {n} : next'[m] = next[m]
        <5>1. next' = [next EXCEPT ![n] = 1] \/ next' = next
          BY <3>1 DEF NextPhase
        <5>2. QED
          BY <5>1 DEF TypeOK
      <4>4. QED
        BY <4>1, <4>2, <4>3
    <3>2. CASE Send(n)
      BY <3>2 DEF Send, Visited, Go, TypeOK, cmVars
    <3>3. CASE Deliver(n)
      BY <3>3 DEF Deliver, Visited, Go, TypeOK, cmVars
    <3>4. QED
      BY <3>1, <3>2, <3>3
  <2>2. sent[n] \subseteq sent'[n]
    BY DEF NextPhase, Send, Deliver, TypeOK
  <2>3. QED
    BY <2>1, <2>2, ProgressFrame
<1>4. Loop(n) /\ Connected(n) /\ Told(n)
  BY DEF Progress
<1>5. Loop(n)'
  BY DEF NextPhase, Send, Deliver, Visited, Go, Loop, TypeOK
<1>6. CASE NextPhase(n)
  <2>1. \A p \in Node : \E i \in 1..Len(Peers[n]) : Peers[n][i] = p /\ i < next[n]
    <3>1. \A i \in 1..Len(Peers[n]) : i < next[n]
      BY <1>6, NodeAssumption DEF NodeAssumption, NextPhase, InLoop, TypeOK
    <3>2. QED
      BY <3>1, NodeAssumption DEF NodeAssumption
  <2>2. UNCHANGED <<established, sent>>
    BY <1>6 DEF NextPhase, cmVars
  <2>3. CASE phase[n] = "connect"
    <3>1. phase'[n] = "send"
      BY <1>6, <2>3 DEF NextPhase, TypeOK
    <3>2. Connected(n)'
      BY <1>4, <2>1, <2>2, <2>3, <3>1 DEF Connected
    <3>3. Told(n)'
      BY <3>1 DEF Told
    <3>4. QED
      BY <1>1, <1>2, <1>3, <1>5, <3>2, <3>3 DEF Progress
  <2>4. CASE phase[n] = "send"
    <3>1. phase'[n] = "deliver" /\ next'[n] = 1
      BY <1>6, <2>4 DEF NextPhase, TypeOK
    <3>2. Connected(n)'
      BY <1>4, <2>2, <2>4, <3>1 DEF Connected
    <3>3. Told(n)'
      BY <3>1 DEF Told
    <3>4. QED
      BY <1>1, <1>2, <1>3, <1>5, <3>2, <3>3 DEF Progress
  <2>5. CASE phase[n] = "deliver"
    <3>1. phase'[n] = "up"
      BY <1>6, <2>5 DEF NextPhase, TypeOK
    <3>2. Connected(n)'
      BY <1>4, <2>2, <2>5, <3>1 DEF Connected
    <3>3. Told(n)'
      BY <1>4, <2>1, <2>2, <2>5, <3>1 DEF Told
    <3>4. QED
      BY <1>1, <1>2, <1>3, <1>5, <3>2, <3>3 DEF Progress
  <2>6. QED
    BY <1>6, <2>3, <2>4, <2>5 DEF NextPhase
<1>7. CASE Send(n)
  <2>1. phase[n] = "send" /\ phase'[n] = "send" /\ established' = established
    BY <1>7 DEF Send, cmVars
  <2>2. Connected(n)' /\ Told(n)'
    BY <1>4, <2>1 DEF Connected, Told
  <2>3. QED
    BY <1>1, <1>2, <1>3, <1>5, <2>2 DEF Progress
<1>8. CASE Deliver(n)
  <2>1. /\ phase[n] = "deliver" /\ phase'[n] = "deliver"
        /\ UNCHANGED <<established, sent>>
        /\ next'[n] = next[n] + 1 /\ n \in sent[Peers[n][next[n]]]
    BY <1>8 DEF Deliver, Visited, Peer, TypeOK, cmVars
  <2>2. Connected(n)'
    BY <1>4, <2>1 DEF Connected
  <2>3. Told(n)'
    BY <1>4, <2>1 DEF Told, TypeOK
  <2>4. QED
    BY <1>1, <1>2, <1>3, <1>5, <2>2, <2>3 DEF Progress
<1>9. QED
  BY <1>6, <1>7, <1>8

LEMMA StableLoopback ==
    ASSUME StableInv, TypeOK', AtPeer', NEW n \in Node, ConnectLoopback(n)
    PROVE  StableInv'
<1> USE DEF StableInv
<1>1. /\ \A m \in Node \ {n} : pc'[m] = pc[m]
      /\ UNCHANGED <<pending, brk, answer, next, phase, sent>>
      /\ \A a, b \in Node : established'[a][b] = IF a = n /\ b = n THEN n ELSE established[a][b]
      /\ pc[n] = "locked" /\ pc'[n] = "returning" /\ Peer(n) = n
  BY DEF ConnectLoopback, Go, TypeOK, brokerVars
<1>2. \A m \in Node : (Waits(m)' <=> Waits(m)) /\ (Waits(m) => m # n /\ Peer(m) \in Node)
  BY <1>1, PeerType DEF Waits, AtPeer
<1>3. \A p, m \in Node : /\ (Asks(p, m)' <=> Asks(p, m)) /\ (Serves(p, m)' <=> Serves(p, m))
                         /\ Peer(m)' = Peer(m)
  BY <1>1 DEF Asks, Queued, Serves, Peer
<1>4. OneRequest'
  BY <1>1, <1>2, <1>3 DEF OneRequest, Requests
<1>5. Ends'
  BY <1>1, <1>2, <1>3 DEF Ends
<1>6. Quiet' /\ LockExclusion'
  BY DEF ConnectLoopback, Release, Go, Quiet, LockExclusion, AppHoldsLock, BrokerInside,
         TypeOK, brokerVars
<1>7. Progress'
  <2>1. Loop(n) /\ Connected(n) /\ Told(n)
    BY DEF Progress
  <2>2. n # NoConn
    BY NodeAssumption DEF NodeAssumption
  <2>3. Loop(n)'
    BY <1>1, <1>3, <2>1, <2>2 DEF Loop
  <2>4. QED
    BY <1>1, <2>2, <2>3, ProgressFrame DEF Progress
<1>8. QED
  BY <1>4, <1>5, <1>6, <1>7

LEMMA StableRejected ==
    ASSUME StableInv, TypeOK', AtPeer', NEW n \in Node, ConnectRejected(n)
    PROVE  StableInv'
<1> USE DEF StableInv
<1>1. /\ \A m \in Node \ {n} : pc'[m] = pc[m] /\ answer'[m] = answer[m]
      /\ UNCHANGED <<pending, brk, established, next, phase, sent>>
      /\ pc[n] = "waiting" /\ pc'[n] = "retry" /\ answer[n] = "REJECTED" /\ answer'[n] = "none"
  BY DEF ConnectRejected, Reply, Go, TypeOK, brokerVars
<1>2. \A p, m \in Node : /\ (Asks(p, m)' <=> Asks(p, m)) /\ (Serves(p, m)' <=> Serves(p, m))
                         /\ Peer(m)' = Peer(m)
  BY <1>1 DEF Asks, Queued, Serves, Peer
<1>3. \A m \in Node : Waits(m)' <=> Waits(m) /\ m # n
  BY <1>1 DEF Waits
<1>4. \A m \in Node : Waits(m) => Peer(m) \in Node
  BY PeerType DEF Waits, AtPeer
<1>5. OneRequest'
  BY <1>1, <1>2, <1>3, <1>4 DEF OneRequest, Requests
<1>6. Ends'
  BY <1>1, <1>2, <1>3 DEF Ends
<1>7. Quiet' /\ LockExclusion'
  <2>1. \A m \in Node \ {n} : mu'[m] = mu[m]
    BY DEF ConnectRejected, Release, TypeOK
  <2>2. ~ BrokerInside(n)
    BY <1>1 DEF LockExclusion, AppHoldsLock
  <2>3. LockExclusion'
    BY <1>1, <2>1, <2>2 DEF LockExclusion, AppHoldsLock, BrokerInside
  <2>4. Quiet'
    BY <1>1 DEF Quiet
  <2>5. QED
    BY <2>3, <2>4
<1>8. Progress'
  <2>1. Loop(n)'
    BY <1>1 DEF Progress, Loop
  <2>2. QED
    BY <1>1, <2>1, ProgressFrame DEF Progress
<1>9. QED
  BY <1>5, <1>6, <1>7, <1>8

LEMMA StableSend ==
    ASSUME StableInv, TypeOK', AtPeer', NEW n \in Node, ConnectSend(n)
    PROVE  StableInv'
<1> USE DEF StableInv
<1>1. /\ \A m \in Node \ {n} : pc'[m] = pc[m] /\ answer'[m] = answer[m]
      /\ UNCHANGED <<mu, brk, established, next, phase, sent>>
      /\ pc[n] = "locked" /\ pc'[n] = "waiting"
      /\ Peer(n) # n /\ established[n][Peer(n)] = NoConn
  BY DEF ConnectSend, Go, TypeOK, cmVars
<1>2. Peer(n) \in Node /\ ~ Waits(n) /\ answer[n] = "none"
  BY <1>1, PeerType DEF AtPeer, Waits, OneRequest, Requests
<1>3. \A m \in Node : Peer(m)' = Peer(m) /\ (Waits(m)' <=> Waits(m) \/ m = n)
  BY <1>1 DEF Peer, Waits
<1>4. \A m \in Node : Waits(m) => Peer(m) \in Node
  BY PeerType DEF AtPeer, Waits
<1>5. \A p, m \in Node : Serves(p, m)' <=> Serves(p, m)
  BY <1>1 DEF Serves
<1>6. LockExclusion'
  BY <1>1 DEF LockExclusion, AppHoldsLock, BrokerInside
<1>7. Progress'
  <2>1. Loop(n)'
    BY <1>1 DEF Progress, Loop
  <2>2. QED
    BY <1>1, <2>1, ProgressFrame DEF Progress
<1>8. CASE Listening(Peer(n))
  <2> DEFINE e == Ev("CONNECT_REQUEST", n)
  <2>1. /\ pending' = [pending EXCEPT ![Peer(n)] = Append(@, e)]
        /\ answer' = answer
        /\ pc[Peer(n)] # "start"
    BY <1>8 DEF ConnectSend, Listening
  <2>2. e \in Event /\ e.type = "CONNECT_REQUEST"
    BY DEF Ev, Event
  <2>3. ~ Asks(Peer(n), n) /\ \A p \in Node : ~ Serves(p, n)
    BY <1>2 DEF OneRequest, Requests
  <2>4. \A i \in 1..Len(pending[Peer(n)]) : pending[Peer(n)][i] # e
    BY <2>3 DEF Asks, Queued
  <2>5. ASSUME NEW p \in Node, NEW f
        PROVE  /\ (\E i \in 1..Len(pending'[p]) : pending'[p][i] = f) <=>
                    (\E i \in 1..Len(pending[p]) : pending[p][i] = f) \/ (p = Peer(n) /\ f = e)
               /\ \A i, j \in 1..Len(pending'[p]) : pending'[p][i] = pending'[p][j] => i = j
    BY <1>2, <2>1, <2>2, <2>4, Append1, SMTT(30) DEF OneRequest, Requests, TypeOK
  <2>6. ASSUME NEW p \in Node, NEW m \in Node
        PROVE  Asks(p, m)' <=> Asks(p, m) \/ (p = Peer(n) /\ m = n)
    <3> DEFINE f == Ev("CONNECT_REQUEST", m)
    <3>1. f = e <=> m = n
      BY DEF Ev
    <3> HIDE DEF e, f
    <3>2. (\E i \in 1..Len(pending'[p]) : pending'[p][i] = f) <=>
            (\E i \in 1..Len(pending[p]) : pending[p][i] = f) \/ (p = Peer(n) /\ f = e)
      BY <2>5
    <3>3. Asks(p, m) <=> \E i \in 1..Len(pending[p]) : pending[p][i] = f
      BY DEF Asks, Queued, f
    <3>4. Asks(p, m)' <=> \E i \in 1..Len(pending'[p]) : pending'[p][i] = f
      BY DEF Asks, Queued, f, Ev
    <3>5. QED
      BY <3>1, <3>2, <3>3, <3>4
  <2>7. OneRequest'
    BY <1>1, <1>2, <1>3, <1>4, <1>5, <2>1, <2>3, <2>5, <2>6, SMTT(30) DEF OneRequest, Requests
  <2>8. Ends'
    BY <1>1, <1>2, <1>3, <2>1 DEF Ends
  <2>9. Quiet'
    <3>1. ASSUME NEW m \in Node, NEW i \in 1..Len(pending'[m])
          PROVE  pending'[m][i].type = "CONNECT_REQUEST"
      <4>1. \/ \E j \in 1..Len(pending[m]) : pending[m][j] = pending'[m][i]
            \/ pending'[m][i] = e
        BY <2>5
      <4>2. QED
        BY <2>2, <4>1 DEF Quiet
    <3>2. QED
      BY <1>1, <2>1, <3>1 DEF Quiet
  <2>10. QED
    BY <1>6, <1>7, <2>7, <2>8, <2>9
<1>9. CASE ~ Listening(Peer(n))
  <2>1. pending' = pending /\ answer'[n] = "REJECTED"
    BY <1>9 DEF ConnectSend, TypeOK
  <2>2. \A p, m \in Node : Asks(p, m)' <=> Asks(p, m)
    BY <2>1 DEF Asks, Queued
  <2>3. OneRequest'
    BY <1>1, <1>2, <1>3, <1>4, <1>5, <2>1, <2>2 DEF OneRequest, Requests
  <2>4. Ends'
    BY <1>1, <1>2, <1>3, <2>1 DEF Ends
  <2>5. Quiet'
    BY <1>1, <2>1 DEF Quiet
  <2>6. QED
    BY <1>6, <1>7, <2>3, <2>4, <2>5
<1>10. QED
  BY <1>8, <1>9

LEMMA StableEstablished ==
    ASSUME StableInv, TypeOK', AtPeer', NEW n \in Node, ConnectEstablished(n)
    PROVE  StableInv'
<1> USE DEF StableInv
<1>1. Peer(n) \in Node
  BY PeerType DEF ConnectEstablished, Reply, AtPeer
<1>2. /\ \A m \in Node \ {n} : pc'[m] = pc[m] /\ answer'[m] = answer[m] /\ next'[m] = next[m]
      /\ UNCHANGED <<pending, brk, phase, sent>>
      /\ \A a, b \in Node : established'[a][b] =
            IF a = n /\ b = Peer(n) THEN n ELSE established[a][b]
      /\ pc[n] = "waiting" /\ pc'[n] = "idle"
      /\ answer[n] = "ESTABLISHED" /\ answer'[n] = "none"
      /\ next'[n] = next[n] + 1
  BY <1>1 DEF ConnectEstablished, Reply, Visited, Go, TypeOK, brokerVars
<1>3. \A m \in Node : /\ Waits(m)' <=> Waits(m) /\ m # n
                      /\ m # n => Peer(m)' = Peer(m)
                      /\ Waits(m) => Peer(m) \in Node
  BY <1>2, PeerType DEF Waits, Peer, AtPeer
<1>4. \A p, m \in Node : (Asks(p, m)' <=> Asks(p, m)) /\ (Serves(p, m)' <=> Serves(p, m))
  BY <1>2 DEF Asks, Queued, Serves
<1>5. n # NoConn /\ Peer(n) # n /\ established[n][Peer(n)] = NoConn
      /\ established[Peer(n)][n] = n
  <2>1. n # NoConn
    BY NodeAssumption DEF NodeAssumption
  <2>2. Peer(n) # n /\ established[n][Peer(n)] = NoConn
    BY <1>2 DEF OneRequest, Requests, Waits
  <2>3. established[Peer(n)][n] = n
    BY <1>1, <1>2 DEF Ends, Waits
  <2>4. QED
    BY <2>1, <2>2, <2>3
<1>6. OneRequest'
  BY <1>2, <1>3, <1>4 DEF OneRequest, Requests
<1>7. Ends'
  <2>1. ASSUME NEW a \in Node, NEW b \in Node
        PROVE  /\ established'[a][b] \in {a, b, NoConn}
               /\ established'[a][b] = a => established'[b][a] = a
    BY <1>1, <1>2, <1>5 DEF Ends
  <2>2. ASSUME NEW a \in Node, NEW b \in Node, a # b, established'[a][b] = b
        PROVE  established'[b][a] = b \/ (Waits(b) /\ Peer(b) = a /\ answer[b] = "ESTABLISHED")'
    <3>1. a # n \/ b # Peer(n)
      BY <1>2, <2>2
    <3>2. established[a][b] = b
      BY <1>2, <2>2, <3>1
    <3>3. CASE b = n
      BY <1>1, <1>2, <1>5, <2>2, <3>2, <3>3 DEF Ends
    <3>4. CASE b # n
      BY <1>2, <1>3, <1>5, <2>2, <3>2, <3>4 DEF Ends
    <3>5. QED
      BY <3>3, <3>4
  <2>3. ASSUME NEW a \in Node, NEW b \in Node,
               (Waits(b) /\ Peer(b) = a /\ answer[b] = "ESTABLISHED")'
        PROVE  established'[a][b] = b
    <3>1. b # n /\ established[a][b] = b
      BY <1>2, <1>3, <2>3 DEF Ends
    <3>2. b # NoConn
      BY NodeAssumption DEF NodeAssumption
    <3>3. ~ (a = n /\ b = Peer(n))
      BY <1>5, <3>1, <3>2
    <3>4. QED
      BY <1>2, <3>1, <3>3
  <2>4. QED
    BY <2>1, <2>2, <2>3 DEF Ends
<1>8. LockExclusion'
  <2>1. \A m \in Node \ {n} : mu'[m] = mu[m]
    BY DEF ConnectEstablished, Release, TypeOK
  <2>2. ~ BrokerInside(n)
    BY <1>2 DEF LockExclusion, AppHoldsLock
  <2>3. QED
    BY <1>2, <2>1, <2>2 DEF LockExclusion, AppHoldsLock, BrokerInside
<1>9. Quiet'
  BY <1>2 DEF Quiet
<1>10. Progress'
  <2>1. Loop(n) /\ Connected(n) /\ Told(n) /\ phase[n] = "connect"
    BY <1>2 DEF Progress, Loop
  <2>2. Loop(n)' /\ Told(n)'
    BY <1>2, <2>1 DEF Loop, Told
  <2>3. \A a, b \in Node : established[a][b] # NoConn => established'[a][b] # NoConn
    BY <1>2, <1>5
  <2>4. established'[n][Peers[n][next[n]]] # NoConn
    BY <1>1, <1>2, <1>5 DEF Peer
  <2>5. Connected(n)'
    <3>1. \A i \in 1..Len(Peers[n]) : Peers[n][i] \in Node
      BY NodeAssumption, ElementType DEF NodeAssumption
    <3>2. ASSUME NEW i \in 1..Len(Peers[n]), i < next[n] + 1
          PROVE  established'[n][Peers[n][i]] # NoConn
      <4>1. i < next[n] \/ i = next[n]
        BY <3>2, NodeAssumption DEF NodeAssumption, TypeOK
      <4>2. QED
        BY <2>1, <2>3, <2>4, <3>1, <4>1 DEF Connected
    <3>3. QED
      BY <1>2, <2>1, <3>2 DEF Connected
  <2>6. QED
    BY <1>2, <2>2, <2>3, <2>5, ProgressFrame DEF Progress
<1>11. QED
  BY <1>6, <1>7, <1>8, <1>9, <1>10

\* Taking the first event of a queue takes it out, and nothing else.
LEMMA TakeEvent ==
    ASSUME TypeOK, Requests, NEW n \in Node, NEW e, Take(n, e)
    PROVE  /\ \A q \in Node : \A f : Queued(q, f)' <=> Queued(q, f) /\ ~ (q = n /\ f = e)
           /\ \A q \in Node : \A i, j \in 1..Len(pending'[q]) :
                pending'[q][i] = pending'[q][j] => i = j
           /\ Queued(n, e)
<1>1. /\ pending[n] # <<>> /\ Head(pending[n]) = e
      /\ pending'[n] = Tail(pending[n])
      /\ \A q \in Node \ {n} : pending'[q] = pending[q]
      /\ pending[n] \in Seq(Event)
  BY DEF Take, TypeOK
<1>2. ASSUME NEW q \in Node, NEW f
      PROVE  /\ (\E i \in 1..Len(pending'[q]) : pending'[q][i] = f) <=>
                  (\E i \in 1..Len(pending[q]) : pending[q][i] = f) /\ ~ (q = n /\ f = e)
             /\ \A i, j \in 1..Len(pending'[q]) : pending'[q][i] = pending'[q][j] => i = j
  <2>1. CASE q = n
    <3>1. \A i, j \in 1..Len(pending[n]) : pending[n][i] = pending[n][j] => i = j
      BY DEF Requests
    <3>2. /\ (\E i \in 1..Len(Tail(pending[n])) : Tail(pending[n])[i] = f) <=>
               (\E i \in 1..Len(pending[n]) : pending[n][i] = f) /\ f # Head(pending[n])
          /\ \A i, j \in 1..Len(Tail(pending[n])) :
               Tail(pending[n])[i] = Tail(pending[n])[j] => i = j
      BY <1>1, <3>1, Tail1
    <3>3. pending'[q] = Tail(pending[n]) /\ pending[q] = pending[n] /\ Head(pending[n]) = e
      BY <1>1, <2>1
    <3>4. (\E i \in 1..Len(pending'[q]) : pending'[q][i] = f) <=>
            (\E i \in 1..Len(pending[q]) : pending[q][i] = f) /\ f # e
      BY <3>2, <3>3, Zenon
    <3>5. \A i, j \in 1..Len(pending'[q]) : pending'[q][i] = pending'[q][j] => i = j
      BY <3>2, <3>3, Zenon
    <3>6. QED
      BY <2>1, <3>4, <3>5, Zenon
  <2>2. CASE q # n
    BY <1>1, <2>2 DEF Requests
  <2>3. QED
    BY <2>1, <2>2
<1>3. \A q \in Node : \A f : Queued(q, f)' <=> Queued(q, f) /\ ~ (q = n /\ f = e)
  BY <1>2 DEF Queued
<1>4. Queued(n, e)
  <2>1. 1 \in 1..Len(pending[n]) /\ pending[n][1] = e
    BY <1>1
  <2>2. QED
    BY <2>1 DEF Queued
<1>5. QED
  BY <1>2, <1>3, <1>4

LEMMA TakeRequest ==
    ASSUME StableInv, NEW n \in Node, NEW p \in Node, Take(n, Ev("CONNECT_REQUEST", p))
    PROVE  /\ \A q, m \in Node : Asks(q, m)' <=> Asks(q, m) /\ ~ (q = n /\ m = p)
           /\ \A q \in Node : \A i, j \in 1..Len(pending'[q]) :
                pending'[q][i] = pending'[q][j] => i = j
           /\ \A q \in Node : \A i \in 1..Len(pending'[q]) :
                pending'[q][i].type = "CONNECT_REQUEST"
           /\ Asks(n, p)
<1>1. PICK e : e = Ev("CONNECT_REQUEST", p)
  OBVIOUS
<1>2. TypeOK /\ Requests /\ Quiet
  BY DEF StableInv, OneRequest
<1>3. /\ \A q \in Node : \A f : Queued(q, f)' <=> Queued(q, f) /\ ~ (q = n /\ f = e)
      /\ \A q \in Node : \A i, j \in 1..Len(pending'[q]) :
           pending'[q][i] = pending'[q][j] => i = j
      /\ Queued(n, e)
  BY <1>1, <1>2, TakeEvent
<1>4. \A q, m \in Node : Asks(q, m)' <=> Asks(q, m) /\ ~ (q = n /\ m = p)
  <2>1. \A m \in Node : Ev("CONNECT_REQUEST", m) = e <=> m = p
    BY <1>1 DEF Ev
  <2>2. QED
    BY <1>3, <2>1 DEF Asks
<1>5. ASSUME NEW q \in Node, NEW i \in 1..Len(pending'[q])
      PROVE  pending'[q][i].type = "CONNECT_REQUEST"
  <2>1. PICK f : f = pending'[q][i]
    OBVIOUS
  <2>2. Queued(q, f)'
    BY <2>1 DEF Queued
  <2>3. Queued(q, f)
    BY <2>2, <1>3
  <2>4. QED
    BY <2>1, <2>3, <1>2 DEF Quiet, Queued
<1>6. QED
  BY <1>1, <1>3, <1>4, <1>5 DEF Asks

LEMMA StableTake ==
    ASSUME StableInv, TypeOK', AtPeer', NEW n \in Node, NEW p \in Node,
           \/ OnConnectRequestIgnored(n, p) \/ OnConnectRequestBusy(n, p)
           \/ OnConnectRequest(n, p)
    PROVE  StableInv'
<1> USE DEF StableInv
<1>1. Take(n, Ev("CONNECT_REQUEST", p))
  BY DEF OnConnectRequestIgnored, OnConnectRequestBusy, OnConnectRequest
<1>2. /\ \A q, m \in Node : Asks(q, m)' <=> Asks(q, m) /\ ~ (q = n /\ m = p)
      /\ \A q \in Node : \A i, j \in 1..Len(pending'[q]) :
           pending'[q][i] = pending'[q][j] => i = j
      /\ \A q \in Node : \A i \in 1..Len(pending'[q]) :
           pending'[q][i].type = "CONNECT_REQUEST"
      /\ Asks(n, p)
  BY <1>1, TakeRequest
<1>3. Waits(p) /\ Peer(p) = n /\ answer[p] = "none" /\ p # n /\ ~ Serves(n, p)
      /\ pc[n] # "start"
  BY <1>2 DEF OneRequest, Requests
<1>4. UNCHANGED <<established, pc, phase, next, sent>>
  BY DEF OnConnectRequestIgnored, OnConnectRequestBusy, OnConnectRequest, cmVars, appVars
<1>5. \A m \in Node : (Waits(m)' <=> Waits(m)) /\ Peer(m)' = Peer(m)
                     /\ (Waits(m) => Peer(m) \in Node)
  BY <1>4, PeerType DEF Waits, Peer, AtPeer
<1>6. Progress'
  BY <1>4 DEF Progress, Loop, Connected, Told, Peer
<1>7. CASE OnConnectRequestIgnored(n, p)
  <2>1. UNCHANGED <<brk, answer, mu>>
    BY <1>7 DEF OnConnectRequestIgnored, cmVars, appVars
  <2>2. \A q, m \in Node : Serves(q, m)' <=> Serves(q, m)
    BY <2>1 DEF Serves
  <2>3. OneRequest'
    BY <1>2, <1>4, <1>5, <2>1, <2>2 DEF OneRequest, Requests
  <2>4. Ends'
    BY <1>4, <1>5, <2>1 DEF Ends
  <2>5. Quiet' /\ LockExclusion'
    BY <1>2, <1>4, <2>1 DEF Quiet, LockExclusion, AppHoldsLock, BrokerInside
  <2>6. QED
    BY <1>6, <2>3, <2>4, <2>5
<1>8. CASE OnConnectRequestBusy(n, p)
  <2>1. UNCHANGED <<brk, mu>> /\ answer' = [answer EXCEPT ![p] = "REJECTED"]
    BY <1>8 DEF OnConnectRequestBusy, Tell, cmVars
  <2>2. \A q, m \in Node : Serves(q, m)' <=> Serves(q, m)
    BY <2>1 DEF Serves
  <2>3. answer'[p] = "REJECTED" /\ \A m \in Node \ {p} : answer'[m] = answer[m]
    BY <2>1 DEF TypeOK
  <2>4. \A q \in Node : ~ Serves(q, p) /\ (Asks(q, p) => q = n)
    BY <1>3 DEF OneRequest, Requests
  <2>5. OneRequest'
    BY <1>2, <1>3, <1>4, <1>5, <2>2, <2>3, <2>4 DEF OneRequest, Requests
  <2>6. Ends'
    BY <1>3, <1>4, <1>5, <2>3 DEF Ends
  <2>7. Quiet' /\ LockExclusion'
    BY <1>2, <1>4, <2>1, <2>3 DEF Quiet, LockExclusion, AppHoldsLock, BrokerInside
  <2>8. QED
    BY <1>6, <2>5, <2>6, <2>7
<1>9. CASE OnConnectRequest(n, p)
  <2>1. /\ UNCHANGED answer /\ mu[n] = kUnlocked
        /\ brk'[n].op = "request" /\ brk'[n].from = p /\ mu'[n] = p
        /\ \A m \in Node \ {n} : brk'[m] = brk[m] /\ mu'[m] = mu[m]
    BY <1>9 DEF OnConnectRequest, Acquire, TypeOK, appVars
  <2>2. ~ AppHoldsLock(n) /\ ~ BrokerInside(n)
    BY <2>1, FreeLock
  <2>3. \A q, m \in Node : Serves(q, m)' <=> Serves(q, m) \/ (q = n /\ m = p)
    BY <2>1, <2>2 DEF Serves, BrokerInside
  <2>4. OneRequest'
    BY <1>2, <1>3, <1>4, <1>5, <2>1, <2>3 DEF OneRequest, Requests
  <2>5. Ends'
    BY <1>4, <1>5, <2>1 DEF Ends
  <2>6. LockExclusion'
    BY <1>3, <1>4, <2>1, <2>2 DEF LockExclusion, AppHoldsLock, BrokerInside
  <2>7. Quiet'
    BY <1>2, <1>4, <2>1 DEF Quiet
  <2>8. QED
    BY <1>6, <2>4, <2>5, <2>6, <2>7
<1>10. QED
  BY <1>7, <1>8, <1>9

LEMMA StableHandle ==
    ASSUME StableInv, TypeOK', AtPeer', NEW n \in Node, HandleRequest(n)
    PROVE  StableInv'
<1> USE DEF StableInv
<1> DEFINE p == brk[n].from
<1>1. p \in Node /\ Serves(n, p) /\ BrokerInside(n)
  BY FreeLock DEF HandleRequest, Serves, BrokerInside
<1>2. Waits(p) /\ Peer(p) = n /\ answer[p] = "none" /\ p # n
      /\ established[p][n] = NoConn /\ pc[n] # "start"
  BY <1>1 DEF OneRequest, Requests
<1>3. p # NoConn /\ n # NoConn
  BY <1>1, NodeAssumption DEF NodeAssumption
<1>4. established[n][p] = NoConn
  BY <1>1, <1>2, <1>3 DEF Ends
<1>5. /\ established' = [established EXCEPT ![n][p] = p]
      /\ answer' = [answer EXCEPT ![p] = "ESTABLISHED"]
      /\ mu' = [mu EXCEPT ![n] = kUnlocked]
      /\ brk' = [brk EXCEPT ![n] = [op |-> "poll", from |-> p]]
      /\ UNCHANGED <<pending, pc, phase, next, sent>>
  BY <1>4 DEF HandleRequest, Tell, Release
<1>6. /\ \A a, b \in Node : established'[a][b] = IF a = n /\ b = p THEN p ELSE established[a][b]
      /\ answer'[p] = "ESTABLISHED" /\ \A m \in Node \ {p} : answer'[m] = answer[m]
      /\ brk'[n].op = "poll" /\ \A m \in Node \ {n} : brk'[m] = brk[m] /\ mu'[m] = mu[m]
  BY <1>1, <1>5 DEF TypeOK
<1>7. \A m \in Node : (Waits(m)' <=> Waits(m)) /\ Peer(m)' = Peer(m)
                     /\ (Waits(m) => Peer(m) \in Node)
  BY <1>5, PeerType DEF Waits, Peer, AtPeer
<1>8. \A q, m \in Node : /\ Asks(q, m)' <=> Asks(q, m)
                        /\ Serves(q, m)' <=> Serves(q, m) /\ q # n
  BY <1>5, <1>6 DEF Asks, Queued, Serves
<1>9. \A q \in Node : (Serves(q, p) => q = n) /\ ~ Asks(q, p)
  BY <1>1, <1>2 DEF OneRequest, Requests
<1>10. ~ AppHoldsLock(n)
  BY <1>1 DEF LockExclusion
<1>11. OneRequest'
  <2>1. \A m \in Node : Waits(m) => established'[m][Peer(m)] = NoConn
    BY <1>6, <1>7, <1>10 DEF OneRequest, Requests, Waits, AppHoldsLock
  <2>2. QED
    <3>1. ASSUME NEW q \in Node, NEW m \in Node, Asks(q, m)'
          PROVE  Waits(m) /\ Peer(m) = q /\ answer'[m] = "none" /\ ~ Serves(q, m)'
      <4>1. Asks(q, m) /\ m # p
        <5>1. Asks(q, m)
          BY <1>5, <3>1 DEF Asks, Queued
        <5>2. QED
          BY <1>9, <5>1
      <4>2. answer'[m] = answer[m]
        BY <1>6, <4>1
      <4>3. Waits(m) /\ Peer(m) = q /\ answer[m] = "none" /\ ~ Serves(q, m)
        BY <4>1 DEF OneRequest, Requests
      <4>4. ~ Serves(q, m)'
        BY <1>6, <4>3 DEF Serves
      <4>5. QED
        BY <4>2, <4>3, <4>4
    <3>2. ASSUME NEW q \in Node, NEW m \in Node, Serves(q, m)'
          PROVE  Waits(m) /\ Peer(m) = q /\ answer'[m] = "none"
      <4>1. Serves(q, m) /\ m # p
        <5>1. Serves(q, m) /\ q # n
          BY <1>6, <3>2 DEF Serves
        <5>2. QED
          BY <1>9, <5>1
      <4>2. answer'[m] = answer[m]
        BY <1>6, <4>1
      <4>3. Waits(m) /\ Peer(m) = q /\ answer[m] = "none"
        BY <4>1 DEF OneRequest, Requests
      <4>4. QED
        BY <4>2, <4>3
    <3>3. \A m \in Node : answer'[m] # "none" => Waits(m)
      BY <1>2, <1>6 DEF OneRequest, Requests
    <3>4. \A m \in Node : Waits(m) /\ answer'[m] = "none" => pc'[Peer(m)] # "start"
      BY <1>5, <1>6, <1>7 DEF OneRequest, Requests
    <3>5. \A q \in Node : \A i, j \in 1..Len(pending'[q]) :
            pending'[q][i] = pending'[q][j] => i = j
      BY <1>5 DEF OneRequest, Requests
    <3>6. \A m \in Node : Waits(m) => Peer(m) # m
      BY DEF OneRequest, Requests
    <3>7. QED
      BY <1>7, <2>1, <3>1, <3>2, <3>3, <3>4, <3>5, <3>6 DEF OneRequest, Requests
<1>12. Ends'
  BY <1>1, <1>2, <1>3, <1>4, <1>6, <1>7 DEF Ends
<1>13. LockExclusion'
  BY <1>5, <1>6, <1>10 DEF LockExclusion, AppHoldsLock, BrokerInside
<1>14. Quiet'
  BY <1>1, <1>5, <1>6 DEF Quiet
<1>15. Progress'
  <2>1. Loop(n) /\ pc'[n] = pc[n]
    BY <1>5 DEF Progress
  <2>2. \A a, b \in Node : established[a][b] # NoConn => established'[a][b] # NoConn
    BY <1>3, <1>6
  <2>3. pc[n] = "returning" => Peer(n) \in Node
    BY PeerType DEF AtPeer
  <2>4. Loop(n)'
    BY <1>5, <1>7, <2>1, <2>2, <2>3 DEF Loop
  <2>5. QED
    BY <1>5, <2>2, <2>4, ProgressFrame DEF Progress
<1>16. QED
  BY <1>11, <1>12, <1>13, <1>14, <1>15

\* Steps that take a failure or a departure do not happen.
LEMMA NoFailure ==
    ASSUME StableInv, Unstable = {}, NEW n \in Node, NEW p \in Node
    PROVE  /\ ~ ConnectFails(n) /\ ~ ConnectEstablishedFails(n) /\ ~ ConnectUnexpected(n)
           /\ ~ SendFails(n) /\ ~ DeliverAborted(n) /\ ~ CloseBegin(n) /\ ~ BrokerStop(n)
           /\ ~ Disconnect(n, p) /\ ~ CloseEnd(n) /\ ~ ProcessEnds(n)
           /\ ~ OnDisconnect(n, p) /\ ~ HandleDisconnect(n)
           /\ ~ TransportAnswers(n) /\ ~ KernelDisconnects(n, p)
<1> USE DEF StableInv
<1>1. /\ ~ ConnectFails(n) /\ ~ ConnectEstablishedFails(n) /\ ~ ConnectUnexpected(n)
      /\ ~ CloseBegin(n) /\ ~ BrokerStop(n) /\ ~ Disconnect(n, p) /\ ~ CloseEnd(n)
      /\ ~ ProcessEnds(n) /\ ~ HandleDisconnect(n) /\ ~ KernelDisconnects(n, p)
  BY DEF Quiet, ConnectFails, ConnectEstablishedFails, ConnectUnexpected, Reply,
         CloseBegin, BrokerStop, Disconnect, CloseEnd, ProcessEnds, HandleDisconnect,
         KernelDisconnects
<1>2. pc[n] \in {"using", "waiting"} => Peer(n) \in Node
  BY PeerType DEF AtPeer
<1>3. ~ SendFails(n) /\ ~ DeliverAborted(n)
  BY <1>2 DEF Quiet, AtPeer, SendFails, DeliverAborted, Severed
<1>4. ~ OnDisconnect(n, p)
  <2>1. SUFFICES ASSUME OnDisconnect(n, p) PROVE FALSE
    OBVIOUS
  <2>2. pending[n] \in Seq(Event) /\ pending[n] # <<>>
        /\ Head(pending[n]).type = "DISCONNECTED"
    BY <2>1 DEF OnDisconnect, Take, Ev, TypeOK
  <2>3. 1 \in 1..Len(pending[n]) /\ Head(pending[n]) = pending[n][1]
    BY <2>2
  <2>4. QED
    BY <2>2, <2>3 DEF Quiet
<1>5. ~ TransportAnswers(n)
  <2>1. SUFFICES ASSUME TransportAnswers(n) PROVE FALSE
    OBVIOUS
  <2>2. pc[n] = "waiting" /\ answer[n] = "none"
    BY <2>1 DEF TransportAnswers
  <2>3. pc[Peer(n)] # "start"
    BY <2>2 DEF OneRequest, Requests, Waits
  <2>4. QED
    BY <1>2, <2>1, <2>2, <2>3 DEF TransportAnswers, Listening, Quiet
<1>6. QED
  BY <1>1, <1>3, <1>4, <1>5

LEMMA StableNext ==
    ASSUME Unstable = {}, StableInv, [Next]_vars
    PROVE  StableInv'
<1>1. TypeOK' /\ AtPeer'
  BY StepType DEF StableInv
<1>2. CASE UNCHANGED vars
  <2>1. Quiet' /\ LockExclusion'
    BY <1>2 DEF StableInv, vars, cmVars, brokerVars, appVars, Quiet, LockExclusion,
                AppHoldsLock, BrokerInside
  <2>2. OneRequest' /\ Ends'
    BY <1>2 DEF StableInv, vars, cmVars, brokerVars, appVars, OneRequest, Requests, Ends, Asks, Queued,
                Serves, Waits, Peer
  <2>3. Progress'
    BY <1>2 DEF StableInv, vars, cmVars, brokerVars, appVars, Progress, Loop, Connected,
                Told, Peer
  <2>4. QED
    BY <1>1, <2>1, <2>2, <2>3 DEF StableInv
<1>3. ASSUME NEW n \in Node, Connect(n)
      PROVE  StableInv'
  BY <1>1, <1>3, NoFailure, StableApp, StableLoopback, StableSend, StableEstablished,
     StableRejected DEF Connect
<1>4. ASSUME NEW n \in Node, InitCm(n)
      PROVE  StableInv'
  BY <1>1, <1>3, <1>4, NoFailure, StableApp, StableLoops DEF InitCm
<1>5. ASSUME NEW n \in Node, Broker(n)
      PROVE  StableInv'
  BY <1>1, <1>5, NoFailure, StableTake, StableHandle DEF Broker
<1>6. QED
  BY <1>2, <1>4, <1>5, NoFailure DEF Next, Transport, Terminated

LEMMA StableImplies ==
    ASSUME StableInv
    PROVE  LockExclusion /\ NoHalfOpen /\ InitBarrier
<1> USE DEF StableInv
<1>1. NoHalfOpen
  BY DEF NoHalfOpen, Ends
<1>2. InitBarrier
  BY DEF InitBarrier, Progress, Told, Connected
<1>3. QED
  BY <1>1, <1>2

LEMMA StableAlways == ASSUME Unstable = {} PROVE Spec => []StableInv
<1>1. StableInv /\ [Next]_vars => StableInv'
  BY StableNext
<1>2. QED
  BY <1>1, StableInit, PTL DEF Spec

\* When no verbs call fails and nobody leaves, mu_ protects established_: Connect
\* and GetConnection never overlap a callback of the broker.
THEOREM StableLockExclusion == ASSUME Unstable = {} PROVE Spec => []LockExclusion
<1>1. StableInv => LockExclusion
  BY StableImplies
<1>2. QED
  BY <1>1, StableAlways, PTL

\* When no verbs call fails and nobody leaves, a connection that a node requested
\* and recorded is recorded by the peer whose OnConnectRequest accepted it: it has
\* both ends, and a message sent on it finds a receiver.
THEOREM StableNoHalfOpen == ASSUME Unstable = {} PROVE Spec => []NoHalfOpen
<1>1. StableInv => NoHalfOpen
  BY StableImplies
<1>2. QED
  BY <1>1, StableAlways, PTL

\* init_cm is a barrier: a node returns from it only after every node has made
\* all its connections.
THEOREM StableBarrier == ASSUME Unstable = {} PROVE Spec => []InitBarrier
<1>1. StableInv => InitBarrier
  BY StableImplies
<1>2. QED
  BY <1>1, StableAlways, PTL

-----------------------------------------------------------------------------
(* An installation in which anything may fail and anybody may leave.  The   *)
(* lock is no longer exclusive: the callback for a peer that left releases  *)
(* it, whoever has it.  But that callback is the broker's last.             *)

\* The news that p has left is in the queue or in the hands of n's broker.
Learns(n, p) == Queued(n, Ev("DISCONNECTED", p)) \/ (brk[n].op = "disconnect" /\ brk[n].from = p)

\* The broker of n is done for.
Stopped(n) == pc[n] \in {"disconnecting", "closed", "aborted"}

\* The manager of n is gone.
Over(n) == pc[n] \in {"closed", "aborted"}

\* Who is gone has left nothing behind, and only of an end that is gone there is
\* news.
Gone ==
    /\ \A n \in Node : Stopped(n) => ~ BrokerInside(n)
    /\ \A n \in Node : Over(n) => \A p \in Node : established[n][p] = NoConn
    /\ \A n, p \in Node : Learns(n, p) => n \in disconnected[p]

\* What is left of LockExclusion.
Guarded ==
    \A n \in Node :
        /\ AppHoldsLock(n) => mu[n] = n \/ brk[n].op = "ended"
        /\ brk[n].op = "request" => mu[n] = brk[n].from /\ mu[n] # n

\* A request that was accepted is recorded, unless the peer is gone meanwhile.
Accepted ==
    \A n \in Node : answer[n] = "ESTABLISHED" =>
        established[Peer(n)][n] = n \/ Over(Peer(n))

LeaverInv ==
    TypeOK /\ AtPeer /\ Requests /\ Gone /\ Guarded /\ Accepted /\ AgreedConnection

LEMMA LeaverInit == Init => LeaverInv
<1> SUFFICES ASSUME Init
             PROVE  LeaverInv
  OBVIOUS
<1>1. TypeOK /\ AtPeer
  BY InitType
<1>2. Requests
  BY DEF Init, Requests, Asks, Queued, Serves, Waits
<1>3. Gone /\ Guarded
  BY DEF Init, Gone, Stopped, Over, Learns, Queued, Guarded, AppHoldsLock, BrokerInside
<1>4. Accepted /\ AgreedConnection
  BY DEF Init, Accepted, AgreedConnection
<1>5. QED
  BY <1>1, <1>2, <1>3, <1>4 DEF LeaverInv

\* Who is waiting, and for whom; nobody is both named and nobody.
LEMMA LeaverTypes ==
    ASSUME TypeOK, AtPeer
    PROVE  /\ \A m \in Node : /\ Waits(m) => Peer(m) \in Node
                              /\ brk[m].from \in Node /\ m # NoConn /\ m # kUnlocked
                              /\ brk[m].op \in {"poll", "request", "disconnect", "ended"}
<1>1. \A m \in Node : Waits(m) => Peer(m) \in Node
  BY PeerType DEF AtPeer, Waits
<1>2. \A m \in Node : m # NoConn /\ m # kUnlocked
  BY NodeAssumption DEF NodeAssumption
<1>3. \A m \in Node : brk[m].from \in Node /\ brk[m].op \in {"poll", "request", "disconnect", "ended"}
  BY DEF TypeOK, Poll
<1>4. QED
  BY <1>1, <1>2, <1>3

\* Nothing arrives and the brokers rest.
LEMMA SameBroker ==
    ASSUME UNCHANGED <<pending, brk>>
    PROVE  /\ \A p, m \in Node : Asks(p, m)' <=> Asks(p, m)
           /\ \A p, m \in Node : Serves(p, m)' <=> Serves(p, m)
           /\ \A p, m \in Node : Learns(p, m)' <=> Learns(p, m)
           /\ \A p \in Node : BrokerInside(p)' <=> BrokerInside(p)
<1>1. \A p \in Node : BrokerInside(p)' <=> BrokerInside(p)
  BY DEF BrokerInside
<1>2. \A p, m \in Node : Serves(p, m)' <=> Serves(p, m)
  BY DEF Serves
<1>3. \A p \in Node : \A f : Queued(p, f)' <=> Queued(p, f)
  BY DEF Queued
<1>4. \A p, m \in Node : Asks(p, m)' <=> Asks(p, m)
  BY <1>3 DEF Asks
<1>5. \A p, m \in Node : Learns(p, m)' <=> Learns(p, m)
  <2>1. UNCHANGED brk
    OBVIOUS
  <2>2. QED
    BY <1>3, <2>1 DEF Learns
<1>6. QED
  BY <1>1, <1>2, <1>4, <1>5

\* Steps of a thread that neither waits nor leaves: only the lock is at stake.
LEMMA LeaverQuiet ==
    ASSUME LeaverInv, TypeOK', AtPeer', NEW n \in Node,
           UNCHANGED <<pending, brk, answer, established>>,
           \A m \in Node \ {n} : pc'[m] = pc[m] /\ next'[m] = next[m] /\ mu'[m] = mu[m],
           UNCHANGED disconnected,
           pc[n] \notin {"waiting", "disconnecting", "closed", "aborted"},
           pc'[n] \notin {"waiting", "disconnecting", "closed", "aborted"},
           AppHoldsLock(n)' => mu'[n] = n \/ brk[n].op = "ended",
           brk[n].op = "request" => mu'[n] = mu[n]
    PROVE  LeaverInv'
<1>1. \A m \in Node : /\ Waits(m)' <=> Waits(m)
                      /\ Waits(m) => Peer(m)' = Peer(m) /\ Peer(m) \in Node
                      /\ (Stopped(m)' <=> Stopped(m)) /\ (Over(m)' <=> Over(m))
  BY LeaverTypes DEF Waits, Peer, LeaverInv, Stopped, Over
<1>2. /\ \A p, m \in Node : Asks(p, m)' <=> Asks(p, m)
      /\ \A p, m \in Node : Serves(p, m)' <=> Serves(p, m)
      /\ \A p, m \in Node : Learns(p, m)' <=> Learns(p, m)
      /\ \A p \in Node : BrokerInside(p)' <=> BrokerInside(p)
  <2>1. UNCHANGED <<pending, brk>>
    OBVIOUS
  <2>2. QED
    BY <2>1, SameBroker
<1>3. Requests'
  <2>1. UNCHANGED <<pending, answer, established>>
    OBVIOUS
  <2>2. QED
    BY <1>1, <1>2, <2>1 DEF LeaverInv, Requests
<1>4. Gone'
  <2>1. UNCHANGED established
    OBVIOUS
  <2>2. QED
    BY <1>1, <1>2, <2>1 DEF LeaverInv, Gone
<1>5. Guarded'
  BY DEF LeaverInv, Guarded, AppHoldsLock
<1>6. Accepted'
  <2>1. \A m \in Node : answer[m] = "ESTABLISHED" => Waits(m)
    BY DEF LeaverInv, Requests
  <2>2. QED
    BY <1>1, <2>1 DEF LeaverInv, Accepted
<1>7. AgreedConnection'
  BY DEF LeaverInv, AgreedConnection
<1>8. QED
  BY <1>3, <1>4, <1>5, <1>6, <1>7 DEF LeaverInv

\* A thread that gives the lock back does not take it from its broker.
LEMMA LeaverApp ==
    ASSUME LeaverInv, TypeOK', AtPeer', NEW n \in Node,
           \/ Start(n) \/ ConnectCall(n) \/ ConnectFound(n) \/ ConnectReturn(n) \/ ConnectFails(n)
           \/ NextPhase(n) \/ GetConnection(n) \/ GetConnectionReturn(n)
           \/ Send(n) \/ SendFails(n) \/ Deliver(n) \/ DeliverAborted(n) \/ CloseBegin(n)
    PROVE  LeaverInv'
<1> USE DEF cmVars, brokerVars, Go, Visited
<1>1. TypeOK /\ Guarded
  BY DEF LeaverInv
<1>2. /\ UNCHANGED <<pending, brk, answer, established>>
      /\ \A m \in Node \ {n} : pc'[m] = pc[m] /\ next'[m] = next[m]
  <2>1. UNCHANGED <<pending, brk, answer, established>>
    BY DEF Start, ConnectCall, ConnectFound, ConnectReturn, ConnectFails, NextPhase,
           GetConnection, GetConnectionReturn, Send, SendFails, Deliver, DeliverAborted, CloseBegin
  <2>2. \A m \in Node \ {n} : pc'[m] = pc[m]
    <3>1. CASE Start(n) \/ ConnectCall(n) \/ ConnectFound(n) \/ ConnectReturn(n) \/ ConnectFails(n)
      BY <1>1, <3>1 DEF Start, ConnectCall, ConnectFound, ConnectReturn, ConnectFails, TypeOK
    <3>2. CASE NextPhase(n) \/ GetConnection(n) \/ GetConnectionReturn(n) \/ CloseBegin(n)
      BY <1>1, <3>2 DEF NextPhase, GetConnection, GetConnectionReturn, CloseBegin, TypeOK
    <3>3. CASE Send(n) \/ SendFails(n) \/ Deliver(n) \/ DeliverAborted(n)
      BY <1>1, <3>3 DEF Send, SendFails, Deliver, DeliverAborted, TypeOK
    <3>4. QED
      BY <3>1, <3>2, <3>3
  <2>3. \A m \in Node \ {n} : next'[m] = next[m]
    <3>1. CASE Start(n) \/ ConnectCall(n) \/ ConnectFound(n) \/ ConnectReturn(n) \/ ConnectFails(n)
      BY <1>1, <3>1 DEF Start, ConnectCall, ConnectFound, ConnectReturn, ConnectFails, TypeOK
    <3>2. CASE NextPhase(n) \/ GetConnection(n) \/ GetConnectionReturn(n) \/ CloseBegin(n)
      BY <1>1, <3>2 DEF NextPhase, GetConnection, GetConnectionReturn, CloseBegin, TypeOK
    <3>3. CASE Send(n) \/ SendFails(n) \/ Deliver(n) \/ DeliverAborted(n)
      BY <1>1, <3>3 DEF Send, SendFails, Deliver, DeliverAborted, TypeOK
    <3>4. QED
      BY <3>1, <3>2, <3>3
  <2>4. QED
    BY <2>1, <2>2, <2>3
<1>3. /\ pc[n] \notin {"waiting", "disconnecting", "closed", "aborted"}
      /\ pc'[n] \notin {"waiting", "disconnecting", "closed", "aborted"}
  BY <1>1 DEF Start, ConnectCall, ConnectFound, ConnectReturn, ConnectFails, NextPhase,
         GetConnection, GetConnectionReturn, Send, SendFails, Deliver, DeliverAborted, CloseBegin,
         TypeOK
<1>4. /\ \A m \in Node \ {n} : mu'[m] = mu[m]
      /\ AppHoldsLock(n)' => mu'[n] = n \/ brk[n].op = "ended"
      /\ brk[n].op = "request" => mu'[n] = mu[n]
  <2>1. CASE ConnectCall(n) \/ GetConnection(n)
    <3>1. mu[n] = kUnlocked /\ mu' = [mu EXCEPT ![n] = n]
      BY <2>1 DEF ConnectCall, GetConnection, Acquire
    <3>2. brk[n].op # "request"
      BY <3>1, LeaverTypes DEF LeaverInv, Guarded
    <3>3. QED
      BY <1>1, <3>1, <3>2 DEF TypeOK
  <2>2. CASE ConnectFound(n) \/ GetConnectionReturn(n) \/ ConnectFails(n)
    <3>1. AppHoldsLock(n) /\ ~ AppHoldsLock(n)'
      BY <1>1, <2>2 DEF ConnectFound, GetConnectionReturn, ConnectFails, AppHoldsLock, TypeOK
    <3>2. brk[n].op # "request"
      BY <1>1, <3>1 DEF Guarded
    <3>3. \A m \in Node \ {n} : mu'[m] = mu[m]
      BY <1>1, <2>2 DEF ConnectFound, GetConnectionReturn, ConnectFails, Release, TypeOK
    <3>4. QED
      BY <3>1, <3>2, <3>3
  <2>3. CASE CloseBegin(n)
    <3>1. ~ AppHoldsLock(n)'
      BY <1>1, <2>3 DEF CloseBegin, AppHoldsLock, TypeOK
    <3>2. CASE Acquire(n, n)
      <4>1. mu[n] = kUnlocked /\ mu' = [mu EXCEPT ![n] = n]
        BY <3>2 DEF Acquire
      <4>2. brk[n].op # "request"
        BY <4>1, LeaverTypes DEF LeaverInv, Guarded
      <4>3. QED
        BY <1>1, <3>1, <4>1, <4>2 DEF TypeOK
    <3>3. CASE UNCHANGED mu
      BY <3>1, <3>3
    <3>4. QED
      BY <2>3, <3>2, <3>3 DEF CloseBegin, AcquireUnchecked
  <2>4. CASE \/ Start(n) \/ ConnectReturn(n) \/ NextPhase(n) \/ Send(n) \/ SendFails(n)
             \/ Deliver(n) \/ DeliverAborted(n)
    <3>1. mu' = mu
      BY <2>4 DEF Start, ConnectReturn, NextPhase, Send, SendFails, Deliver, DeliverAborted
    <3>2. ~ AppHoldsLock(n)'
      BY <1>1, <2>4 DEF Start, ConnectReturn, NextPhase, Send, SendFails, Deliver, DeliverAborted,
                        AppHoldsLock, TypeOK
    <3>3. QED
      BY <3>1, <3>2
  <2>5. QED
    BY <2>1, <2>2, <2>3, <2>4
<1>5. UNCHANGED disconnected
  BY DEF Start, ConnectCall, ConnectFound, ConnectReturn, ConnectFails, NextPhase,
         GetConnection, GetConnectionReturn, Send, SendFails, Deliver, DeliverAborted, CloseBegin
<1>6. QED
  BY <1>2, <1>3, <1>4, <1>5, LeaverQuiet

\* A thread that has the lock may give it back.
LEMMA LeaverReleases ==
    ASSUME LeaverInv, NEW n \in Node, AppHoldsLock(n), UNCHANGED brk,
           pc'[n] \notin {"locked", "waiting", "getting"},
           \A m \in Node \ {n} : pc'[m] = pc[m] /\ mu'[m] = mu[m]
    PROVE  Guarded'
<1>1. brk[n].op # "request"
  BY DEF LeaverInv, Guarded
<1>2. QED
  BY <1>1 DEF LeaverInv, Guarded, AppHoldsLock

LEMMA LeaverLoopback ==
    ASSUME LeaverInv, TypeOK', AtPeer', NEW n \in Node, ConnectLoopback(n)
    PROVE  LeaverInv'
<1>1. TypeOK /\ AtPeer
  BY DEF LeaverInv
<1>2. /\ \A m \in Node \ {n} : pc'[m] = pc[m] /\ mu'[m] = mu[m]
      /\ UNCHANGED <<pending, brk, answer, next, disconnected>>
      /\ \A a, b \in Node : established'[a][b] = IF a = n /\ b = n THEN n ELSE established[a][b]
      /\ pc[n] = "locked" /\ pc'[n] = "returning"
  BY <1>1 DEF ConnectLoopback, Release, Go, TypeOK, brokerVars
<1>3. \A m \in Node : /\ Waits(m)' <=> Waits(m)
                      /\ Waits(m) => m # n /\ Peer(m) \in Node
                      /\ Peer(m)' = Peer(m)
                      /\ (Stopped(m)' <=> Stopped(m)) /\ (Over(m)' <=> Over(m))
  BY <1>1, <1>2, LeaverTypes DEF Waits, Peer, Stopped, Over
<1>4. /\ \A p, m \in Node : Asks(p, m)' <=> Asks(p, m)
      /\ \A p, m \in Node : Serves(p, m)' <=> Serves(p, m)
      /\ \A p, m \in Node : Learns(p, m)' <=> Learns(p, m)
      /\ \A p \in Node : BrokerInside(p)' <=> BrokerInside(p)
  BY <1>2, SameBroker
<1>5. Requests'
  BY <1>2, <1>3, <1>4 DEF LeaverInv, Requests
<1>6. Gone'
  BY <1>2, <1>3, <1>4 DEF LeaverInv, Gone, Stopped, Over
<1>7. Guarded'
  BY <1>2, LeaverReleases DEF AppHoldsLock
<1>8. Accepted'
  <2>1. \A m \in Node : answer[m] = "ESTABLISHED" => Waits(m)
    BY DEF LeaverInv, Requests
  <2>2. QED
    BY <1>2, <1>3, <2>1 DEF LeaverInv, Accepted
<1>9. AgreedConnection'
  BY <1>2 DEF LeaverInv, AgreedConnection
<1>10. QED
  BY <1>5, <1>6, <1>7, <1>8, <1>9 DEF LeaverInv

LEMMA LeaverSend ==
    ASSUME LeaverInv, TypeOK', AtPeer', NEW n \in Node, ConnectSend(n)
    PROVE  LeaverInv'
<1>1. TypeOK /\ AtPeer /\ Requests
  BY DEF LeaverInv
<1>2. /\ \A m \in Node \ {n} : pc'[m] = pc[m] /\ answer'[m] = answer[m]
      /\ UNCHANGED <<mu, brk, established, next, disconnected>>
      /\ pc[n] = "locked" /\ pc'[n] = "waiting"
      /\ Peer(n) # n /\ established[n][Peer(n)] = NoConn
      /\ answer'[n] \in {answer[n], "REJECTED"}
  BY <1>1 DEF ConnectSend, Go, TypeOK, cmVars
<1>3. Peer(n) \in Node /\ ~ Waits(n) /\ answer[n] = "none"
  BY <1>1, <1>2, PeerType DEF AtPeer, Waits, Requests
<1>4. \A m \in Node : /\ Peer(m)' = Peer(m) /\ (Waits(m)' <=> Waits(m) \/ m = n)
                      /\ Waits(m) => Peer(m) \in Node
                      /\ (Stopped(m)' <=> Stopped(m)) /\ (Over(m)' <=> Over(m))
  BY <1>1, <1>2, LeaverTypes DEF Peer, Waits, Stopped, Over
<1>5. /\ \A p, m \in Node : Serves(p, m)' <=> Serves(p, m)
      /\ \A p \in Node : BrokerInside(p)' <=> BrokerInside(p)
  BY <1>2 DEF Serves, BrokerInside
<1>6. Guarded'
  BY <1>2 DEF LeaverInv, Guarded, AppHoldsLock
<1>7. Accepted'
  <2>1. \A m \in Node : answer'[m] = "ESTABLISHED" => answer[m] = "ESTABLISHED" /\ Waits(m)
    BY <1>1, <1>2, <1>3 DEF Requests
  <2>2. QED
    BY <1>2, <1>4, <2>1 DEF LeaverInv, Accepted
<1>8. AgreedConnection'
  BY <1>2 DEF LeaverInv, AgreedConnection
<1>9. CASE Listening(Peer(n))
  <2>1. PICK e : e = Ev("CONNECT_REQUEST", n)
    OBVIOUS
  <2>2. /\ pending' = [pending EXCEPT ![Peer(n)] = Append(@, e)]
        /\ answer' = answer
    BY <1>9, <2>1 DEF ConnectSend
  <2>3. e \in Event /\ e.type = "CONNECT_REQUEST"
    BY <2>1 DEF Ev, Event
  <2>4. ~ Asks(Peer(n), n) /\ \A p \in Node : ~ Serves(p, n)
    BY <1>1, <1>3 DEF Requests
  <2>5. \A i \in 1..Len(pending[Peer(n)]) : pending[Peer(n)][i] # e
    BY <2>1, <2>4 DEF Asks, Queued
  <2>6. ASSUME NEW p \in Node, NEW f
        PROVE  /\ (\E i \in 1..Len(pending'[p]) : pending'[p][i] = f) <=>
                    (\E i \in 1..Len(pending[p]) : pending[p][i] = f) \/ (p = Peer(n) /\ f = e)
               /\ \A i, j \in 1..Len(pending'[p]) : pending'[p][i] = pending'[p][j] => i = j
    BY <1>1, <1>3, <2>2, <2>3, <2>5, Append1, SMTT(30) DEF Requests, TypeOK
  <2>7. \A p \in Node : \A f : Queued(p, f)' <=> Queued(p, f) \/ (p = Peer(n) /\ f = e)
    BY <2>6 DEF Queued
  <2>8. \A p, m \in Node : Asks(p, m)' <=> Asks(p, m) \/ (p = Peer(n) /\ m = n)
    <3>1. \A m \in Node : Ev("CONNECT_REQUEST", m) = e <=> m = n
      BY <2>1 DEF Ev
    <3>2. QED
      BY <2>7, <3>1 DEF Asks
  <2>9. \A p, m \in Node : Learns(p, m)' <=> Learns(p, m)
    <3>1. \A m \in Node : Ev("DISCONNECTED", m) # e
      BY <2>1 DEF Ev
    <3>2. QED
      BY <1>2, <2>7, <3>1 DEF Learns
  <2>10. Requests'
    <3>1. \A p \in Node : \A i, j \in 1..Len(pending'[p]) :
            pending'[p][i] = pending'[p][j] => i = j
      BY <2>6
    <3>2. \A m \in Node : Waits(m)' => Peer(m)' # m /\ established'[m][Peer(m)'] = NoConn
      BY <1>1, <1>2, <1>4 DEF Requests
    <3>3. \A m \in Node : answer'[m] # "none" => Waits(m)'
      BY <1>1, <1>4, <2>2 DEF Requests
    <3>4. \A p, m \in Node : Asks(p, m)' =>
            Waits(m)' /\ Peer(m)' = p /\ answer'[m] = "none" /\ ~ Serves(p, m)'
      BY <1>1, <1>3, <1>4, <1>5, <2>2, <2>4, <2>8 DEF Requests
    <3>5. \A p, m \in Node : Serves(p, m)' => Waits(m)' /\ Peer(m)' = p /\ answer'[m] = "none"
      BY <1>1, <1>4, <1>5, <2>2 DEF Requests
    <3>6. QED
      BY <3>1, <3>2, <3>3, <3>4, <3>5 DEF Requests
  <2>11. Gone'
    BY <1>2, <1>4, <1>5, <2>9 DEF LeaverInv, Gone
  <2>12. QED
    BY <1>6, <1>7, <1>8, <2>10, <2>11 DEF LeaverInv
<1>10. CASE ~ Listening(Peer(n))
  <2>1. pending' = pending /\ answer'[n] = "REJECTED"
    BY <1>1, <1>10 DEF ConnectSend, TypeOK
  <2>2. /\ \A p, m \in Node : Asks(p, m)' <=> Asks(p, m)
        /\ \A p, m \in Node : Learns(p, m)' <=> Learns(p, m)
    BY <1>2, <2>1, SameBroker
  <2>3. Requests'
    BY <1>1, <1>2, <1>3, <1>4, <1>5, <2>1, <2>2 DEF Requests
  <2>4. Gone'
    BY <1>2, <1>4, <1>5, <2>2 DEF LeaverInv, Gone
  <2>5. QED
    BY <1>6, <1>7, <1>8, <2>3, <2>4 DEF LeaverInv
<1>11. QED
  BY <1>9, <1>10

\* Who was accepted records the same connection as its peer, or one of a peer
\* that has left.
LEMMA LeaverEstablished ==
    ASSUME LeaverInv, TypeOK', AtPeer', NEW n \in Node, ConnectEstablished(n)
    PROVE  LeaverInv'
<1>1. TypeOK /\ AtPeer /\ Requests
  BY DEF LeaverInv
<1>2. Peer(n) \in Node
  BY <1>1, PeerType DEF ConnectEstablished, Reply, AtPeer
<1>3. /\ \A m \in Node \ {n} : /\ pc'[m] = pc[m] /\ answer'[m] = answer[m]
                               /\ next'[m] = next[m] /\ mu'[m] = mu[m]
      /\ UNCHANGED <<pending, brk, disconnected>>
      /\ \A a, b \in Node : established'[a][b] =
            IF a = n /\ b = Peer(n) THEN n ELSE established[a][b]
      /\ pc[n] = "waiting" /\ pc'[n] = "idle"
      /\ answer[n] = "ESTABLISHED" /\ answer'[n] = "none"
  BY <1>1, <1>2 DEF ConnectEstablished, Reply, Visited, Release, Go, TypeOK, brokerVars
<1>4. \A m \in Node : /\ Waits(m)' <=> Waits(m) /\ m # n
                      /\ m # n => Peer(m)' = Peer(m)
                      /\ Waits(m) => Peer(m) \in Node
                      /\ (Stopped(m)' <=> Stopped(m)) /\ (Over(m)' <=> Over(m))
  BY <1>1, <1>3, LeaverTypes DEF Waits, Peer, Stopped, Over
<1>5. /\ \A p, m \in Node : Asks(p, m)' <=> Asks(p, m)
      /\ \A p, m \in Node : Serves(p, m)' <=> Serves(p, m)
      /\ \A p, m \in Node : Learns(p, m)' <=> Learns(p, m)
      /\ \A p \in Node : BrokerInside(p)' <=> BrokerInside(p)
  BY <1>3, SameBroker
<1>6. n # NoConn /\ Peer(n) # n /\ established[n][Peer(n)] = NoConn
      /\ established[Peer(n)][n] \in {n, NoConn}
  <2>1. n # NoConn
    BY <1>1, LeaverTypes
  <2>2. Peer(n) # n /\ established[n][Peer(n)] = NoConn
    BY <1>1, <1>3 DEF Requests, Waits
  <2>3. established[Peer(n)][n] = n \/ Over(Peer(n))
    BY <1>3 DEF LeaverInv, Accepted
  <2>4. established[Peer(n)][n] \in {n, NoConn}
    BY <1>2, <2>3 DEF LeaverInv, Gone
  <2>5. QED
    BY <2>1, <2>2, <2>4
<1>7. Requests'
  BY <1>1, <1>3, <1>4, <1>5 DEF Requests
<1>8. Gone'
  BY <1>3, <1>4, <1>5 DEF LeaverInv, Gone, Stopped, Over
<1>9. Guarded'
  BY <1>3, LeaverReleases DEF AppHoldsLock
<1>10. Accepted'
  <2>1. ASSUME NEW m \in Node, answer'[m] = "ESTABLISHED"
        PROVE  established'[Peer(m)'][m] = m \/ Over(Peer(m))'
    <3>1. m # n /\ answer[m] = "ESTABLISHED" /\ Peer(m)' = Peer(m)
      BY <1>3, <1>4, <2>1
    <3>2. Waits(m) /\ Peer(m) \in Node
      BY <1>1, <1>4, <3>1 DEF Requests
    <3>3. established[Peer(m)][m] = m \/ Over(Peer(m))
      BY <3>1 DEF LeaverInv, Accepted
    <3>4. Over(Peer(m)) => Over(Peer(m))'
      BY <1>3, <3>1, <3>2 DEF Over
    <3>5. established[Peer(m)][m] = m => established'[Peer(m)][m] = m
      <4>1. m # NoConn
        BY <1>1, LeaverTypes
      <4>2. established[Peer(m)][m] = m => ~ (Peer(m) = n /\ m = Peer(n))
        BY <1>6, <4>1
      <4>3. QED
        BY <1>3, <3>2, <4>2
    <3>6. QED
      BY <3>1, <3>3, <3>4, <3>5
  <2>2. QED
    BY <2>1 DEF Accepted
<1>11. AgreedConnection'
  BY <1>2, <1>3, <1>6 DEF LeaverInv, AgreedConnection
<1>12. QED
  BY <1>7, <1>8, <1>9, <1>10, <1>11 DEF LeaverInv

\* An answer that leads to no connection.
LEMMA LeaverReply ==
    ASSUME LeaverInv, TypeOK', AtPeer', NEW n \in Node,
           ConnectEstablishedFails(n) \/ ConnectRejected(n) \/ ConnectUnexpected(n)
    PROVE  LeaverInv'
<1>1. TypeOK /\ AtPeer /\ Requests
  BY DEF LeaverInv
<1>2. /\ \A m \in Node \ {n} : pc'[m] = pc[m] /\ answer'[m] = answer[m] /\ mu'[m] = mu[m]
      /\ UNCHANGED <<pending, brk, established, next, disconnected>>
      /\ pc[n] = "waiting" /\ pc'[n] \in {"retry", "failed"}
      /\ answer[n] # "none" /\ answer'[n] = "none"
  BY <1>1 DEF ConnectEstablishedFails, ConnectRejected, ConnectUnexpected, Reply, Release, Go,
              TypeOK, brokerVars, cmVars
<1>3. \A m \in Node : /\ Waits(m)' <=> Waits(m) /\ m # n
                      /\ Peer(m)' = Peer(m)
                      /\ Waits(m) => Peer(m) \in Node
                      /\ (Stopped(m)' <=> Stopped(m)) /\ (Over(m)' <=> Over(m))
  BY <1>1, <1>2, LeaverTypes DEF Waits, Peer, Stopped, Over
<1>4. /\ \A p, m \in Node : Asks(p, m)' <=> Asks(p, m)
      /\ \A p, m \in Node : Serves(p, m)' <=> Serves(p, m)
      /\ \A p, m \in Node : Learns(p, m)' <=> Learns(p, m)
      /\ \A p \in Node : BrokerInside(p)' <=> BrokerInside(p)
  BY <1>2, SameBroker
<1>5. Requests'
  BY <1>1, <1>2, <1>3, <1>4 DEF Requests
<1>6. Gone'
  BY <1>2, <1>3, <1>4 DEF LeaverInv, Gone
<1>7. Guarded'
  BY <1>2, LeaverReleases DEF AppHoldsLock
<1>8. Accepted'
  <2>1. \A m \in Node : answer'[m] = "ESTABLISHED" => answer[m] = "ESTABLISHED" /\ Waits(m)
    BY <1>1, <1>2 DEF Requests
  <2>2. QED
    BY <1>2, <1>3, <2>1 DEF LeaverInv, Accepted
<1>9. AgreedConnection'
  BY <1>2 DEF LeaverInv, AgreedConnection
<1>10. QED
  BY <1>5, <1>6, <1>7, <1>8, <1>9 DEF LeaverInv

LEMMA AppendFresh ==
    ASSUME NEW S, NEW s \in Seq(S), NEW e \in S,
           \A i \in 1..Len(s) : s[i] # e,
           \A i, j \in 1..Len(s) : s[i] = s[j] => i = j
    PROVE  LET r == Append(s, e) IN
           /\ \A i, j \in 1..Len(r) : r[i] = r[j] => i = j
           /\ \A i \in 1..Len(r) : r[i] = e \/ \E j \in 1..Len(s) : s[j] = r[i]
  OBVIOUS

\* Who stops its broker, destroys its manager or ends takes the requests it has
\* queued, and in the end its half of every connection, with it.
LEMMA LeaverClose ==
    ASSUME LeaverInv, TypeOK', AtPeer', NEW n \in Node,
           BrokerStop(n) \/ CloseEnd(n) \/ ProcessEnds(n)
    PROVE  LeaverInv'
<1>1. TypeOK /\ AtPeer /\ Requests /\ Gone
  BY DEF LeaverInv
<1>2. /\ \A m \in Node \ {n} : pc'[m] = pc[m] /\ mu'[m] = mu[m] /\ brk'[m] = brk[m]
      /\ UNCHANGED <<answer, next, disconnected>>
      /\ pc[n] # "waiting" /\ Stopped(n)'
  <2>1. CASE BrokerStop(n)
    BY <1>1, <2>1 DEF BrokerStop, Go, TypeOK, Stopped, cmVars
  <2>2. CASE CloseEnd(n)
    BY <1>1, <2>2 DEF CloseEnd, Release, Go, TypeOK, Stopped, brokerVars
  <2>3. CASE ProcessEnds(n)
    BY <1>1, <2>3 DEF ProcessEnds, Go, TypeOK, Stopped
  <2>4. QED
    BY <2>1, <2>2, <2>3
<1>3. /\ brk'[n] = brk[n] \/ brk'[n].op = "ended"
      /\ ~ BrokerInside(n)'
  <2>1. CASE BrokerStop(n)
    BY <2>1 DEF BrokerStop, BrokerInside
  <2>2. CASE CloseEnd(n)
    <3>1. Stopped(n) /\ UNCHANGED brk
      BY <2>2 DEF CloseEnd, Stopped, brokerVars
    <3>2. QED
      BY <1>1, <3>1 DEF Gone, BrokerInside
  <2>3. CASE ProcessEnds(n)
    BY <1>1, <2>3 DEF ProcessEnds, BrokerInside, TypeOK
  <2>4. QED
    BY <2>1, <2>2, <2>3
<1>4. \A a, b \in Node : /\ established'[a][b] = IF a = n /\ Over(n)' THEN NoConn ELSE established[a][b]
                         /\ Over(n) => Over(n)'
  <2>1. CASE BrokerStop(n)
    BY <1>1, <2>1 DEF BrokerStop, Go, TypeOK, Over, cmVars
  <2>2. CASE CloseEnd(n)
    BY <1>1, <2>2 DEF CloseEnd, Go, TypeOK, Over
  <2>3. CASE ProcessEnds(n)
    BY <1>1, <2>3 DEF ProcessEnds, Go, TypeOK, Over
  <2>4. QED
    BY <2>1, <2>2, <2>3
<1>5. \A m \in Node : /\ Waits(m)' <=> Waits(m)
                      /\ Waits(m) => m # n /\ Peer(m) \in Node
                      /\ Peer(m)' = Peer(m)
                      /\ m # n => (Stopped(m)' <=> Stopped(m)) /\ (Over(m)' <=> Over(m))
  BY <1>1, <1>2, LeaverTypes DEF Waits, Peer, Stopped, Over
<1>6. \A p \in Node : pending'[p] = <<>> \/ pending'[p] = pending[p]
  BY <1>1 DEF BrokerStop, CloseEnd, ProcessEnds, brokerVars, TypeOK
<1>7. ASSUME NEW p \in Node
      PROVE  /\ \A f : Queued(p, f)' => Queued(p, f)
             /\ \A i, j \in 1..Len(pending'[p]) : pending'[p][i] = pending'[p][j] => i = j
  <2>1. CASE pending'[p] = <<>>
    BY <2>1 DEF Queued
  <2>2. CASE pending'[p] = pending[p]
    BY <1>1, <2>2 DEF Queued, Requests
  <2>3. QED
    BY <1>6, <2>1, <2>2
<1>8. /\ \A p, m \in Node : Asks(p, m)' => Asks(p, m)
      /\ \A p, m \in Node : Serves(p, m)' => Serves(p, m)
      /\ \A p, m \in Node : Learns(p, m)' => Learns(p, m)
      /\ \A p \in Node : BrokerInside(p)' => BrokerInside(p) /\ p # n
  <2>1. \A p \in Node : brk'[p] = brk[p] \/ brk'[p].op = "ended"
    BY <1>2, <1>3
  <2>2. QED
    BY <1>3, <1>7, <2>1 DEF Asks, Serves, Learns, BrokerInside
<1>11. Requests'
  <2>1. \A m \in Node : Waits(m)' => Peer(m)' # m /\ established'[m][Peer(m)'] = NoConn
    BY <1>1, <1>4, <1>5 DEF Requests
  <2>2. QED
    BY <1>1, <1>2, <1>5, <1>7, <1>8, <2>1 DEF Requests
<1>12. Gone'
  <2>1. \A m \in Node : Stopped(m)' => ~ BrokerInside(m)'
    BY <1>1, <1>5, <1>8 DEF Gone
  <2>2. \A m \in Node : Over(m)' => \A p \in Node : established'[m][p] = NoConn
    BY <1>1, <1>4, <1>5 DEF Gone
  <2>3. \A m, p \in Node : Learns(m, p)' => m \in disconnected'[p]
    BY <1>1, <1>2, <1>8 DEF Gone
  <2>4. QED
    BY <2>1, <2>2, <2>3 DEF Gone
<1>13. Guarded'
  BY <1>2, <1>3 DEF LeaverInv, Guarded, AppHoldsLock, BrokerInside, Stopped
<1>14. Accepted'
  <2>1. \A m \in Node : answer[m] = "ESTABLISHED" => Waits(m)
    BY <1>1 DEF Requests
  <2>2. ASSUME NEW m \in Node, answer'[m] = "ESTABLISHED"
        PROVE  established'[Peer(m)'][m] = m \/ Over(Peer(m))'
    <3>1. answer[m] = "ESTABLISHED" /\ Peer(m) \in Node /\ Peer(m)' = Peer(m)
      BY <1>2, <1>5, <2>1, <2>2
    <3>2. established[Peer(m)][m] = m \/ Over(Peer(m))
      BY <3>1 DEF LeaverInv, Accepted
    <3>3. CASE Peer(m) = n
      BY <1>4, <3>1, <3>2, <3>3 DEF Over
    <3>4. CASE Peer(m) # n
      BY <1>2, <1>4, <3>1, <3>2, <3>4 DEF Over
    <3>5. QED
      BY <3>3, <3>4
  <2>3. QED
    BY <2>2 DEF Accepted
<1>15. AgreedConnection'
  BY <1>4 DEF LeaverInv, AgreedConnection
<1>16. QED
  BY <1>11, <1>12, <1>13, <1>14, <1>15 DEF LeaverInv

\* An end that goes away is announced for the first time.
LEMMA LeaverTells ==
    ASSUME LeaverInv, TypeOK', AtPeer', NEW n \in Node, NEW q \in Node,
           Disconnect(n, q) \/ KernelDisconnects(n, q)
    PROVE  LeaverInv'
<1>1. TypeOK /\ AtPeer /\ Requests /\ Gone
  BY DEF LeaverInv
<1>2. /\ EndGone(n, q) /\ q \notin disconnected[n]
      /\ UNCHANGED <<mu, established, brk, pc, next, answer>>
      /\ \A m \in Node : disconnected[m] \subseteq disconnected'[m]
      /\ q \in disconnected'[n]
  <2>1. EndGone(n, q)
    BY DEF Disconnect, KernelDisconnects
  <2>2. UNCHANGED <<mu, established, brk, pc, next, answer>>
    BY <2>1 DEF EndGone, cmVars, appVars
  <2>3. q \notin disconnected[n] /\ disconnected' = [disconnected EXCEPT ![n] = @ \cup {q}]
    BY <2>1 DEF EndGone
  <2>4. \A m \in Node : disconnected[m] \subseteq disconnected'[m] /\ q \in disconnected'[n]
    BY <1>1, <2>3 DEF TypeOK
  <2>5. QED
    BY <2>1, <2>2, <2>3, <2>4
<1>3. \A m \in Node : /\ Waits(m)' <=> Waits(m)
                      /\ Peer(m)' = Peer(m)
                      /\ (Stopped(m)' <=> Stopped(m)) /\ (Over(m)' <=> Over(m))
  BY <1>2 DEF Waits, Peer, Stopped, Over
<1>4. PICK e : e = Ev("DISCONNECTED", n)
  OBVIOUS
<1>5. e \in Event /\ ~ Queued(q, e)
  <2>1. e \in Event
    BY <1>4 DEF Ev, Event
  <2>2. ASSUME Queued(q, e)
        PROVE  FALSE
    <3>1. Learns(q, n)
      BY <1>4, <2>2 DEF Learns
    <3>2. QED
      BY <1>1, <1>2, <3>1 DEF Gone
  <2>3. QED
    BY <2>1, <2>2
<1>6. \A p \in Node : \/ pending'[p] = pending[p]
                      \/ p = q /\ pending'[p] = Append(pending[p], e)
  BY <1>1, <1>2, <1>4 DEF EndGone, TypeOK
<1>7. ASSUME NEW p \in Node
      PROVE  /\ \A f : Queued(p, f)' => Queued(p, f) \/ (p = q /\ f = e)
             /\ \A i, j \in 1..Len(pending'[p]) : pending'[p][i] = pending'[p][j] => i = j
  <2>1. \A i, j \in 1..Len(pending[p]) : pending[p][i] = pending[p][j] => i = j
    BY <1>1 DEF Requests
  <2>2. pending[p] \in Seq(Event)
    BY <1>1 DEF TypeOK
  <2>4. CASE pending'[p] = pending[p]
    BY <2>1, <2>4 DEF Queued
  <2>5. CASE p = q /\ pending'[p] = Append(pending[p], e)
    <3>1. \A i \in 1..Len(pending[p]) : pending[p][i] # e
      BY <1>5, <2>5 DEF Queued
    <3>2. PICK s : s = Append(pending[p], e)
      OBVIOUS
    <3>3. /\ \A i, j \in 1..Len(s) : s[i] = s[j] => i = j
          /\ \A i \in 1..Len(s) : s[i] = e \/ \E j \in 1..Len(pending[p]) : pending[p][j] = s[i]
      BY <1>5, <2>1, <2>2, <3>1, <3>2, AppendFresh
    <3>4. pending'[p] = s
      BY <2>5, <3>2
    <3>5. \A i, j \in 1..Len(pending'[p]) : pending'[p][i] = pending'[p][j] => i = j
      BY <3>3, <3>4, Zenon
    <3>6. \A f : (\E i \in 1..Len(pending'[p]) : pending'[p][i] = f)
                   => (\E j \in 1..Len(pending[p]) : pending[p][j] = f) \/ f = e
      BY <3>3, <3>4
    <3>7. QED
      BY <2>5, <3>5, <3>6 DEF Queued
  <2>6. QED
    BY <1>6, <2>4, <2>5
<1>8. \A p, m \in Node : Asks(p, m)' => Asks(p, m)
  <2>1. \A m \in Node : Ev("CONNECT_REQUEST", m) # e
    BY <1>4 DEF Ev
  <2>2. QED
    BY <1>7, <2>1 DEF Asks
<1>9. \A p, m \in Node : Learns(p, m)' => Learns(p, m) \/ (p = q /\ m = n)
  <2>1. \A m \in Node : Ev("DISCONNECTED", m) = e <=> m = n
    BY <1>4 DEF Ev
  <2>2. QED
    BY <1>2, <1>7, <2>1 DEF Learns
<1>10. /\ \A p, m \in Node : Serves(p, m)' <=> Serves(p, m)
       /\ \A p \in Node : BrokerInside(p)' <=> BrokerInside(p)
  BY <1>2 DEF Serves, BrokerInside
<1>11. Requests'
  <2>1. \A m \in Node : Waits(m)' => Peer(m)' # m /\ established'[m][Peer(m)'] = NoConn
    BY <1>1, <1>2, <1>3 DEF Requests
  <2>2. QED
    BY <1>1, <1>2, <1>3, <1>7, <1>8, <1>10, <2>1 DEF Requests
<1>12. Gone'
  BY <1>1, <1>2, <1>3, <1>9, <1>10 DEF Gone
<1>13. Guarded'
  BY <1>2 DEF LeaverInv, Guarded, AppHoldsLock, BrokerInside
<1>14. Accepted' /\ AgreedConnection'
  BY <1>2, <1>3 DEF LeaverInv, Accepted, AgreedConnection, Stopped, Over
<1>16. QED
  BY <1>11, <1>12, <1>13, <1>14 DEF LeaverInv

LEMMA LeaverTake ==
    ASSUME LeaverInv, TypeOK', AtPeer', NEW n \in Node, NEW p \in Node,
           \/ OnConnectRequestIgnored(n, p) \/ OnConnectRequestBusy(n, p)
           \/ OnConnectRequest(n, p)
    PROVE  LeaverInv'
<1>1. TypeOK /\ AtPeer /\ Requests
  BY DEF LeaverInv
<1>2. PICK e : e = Ev("CONNECT_REQUEST", p)
  OBVIOUS
<1>3. Take(n, e) /\ brk[n].op = "poll" /\ ~ Stopped(n)
  BY <1>2 DEF OnConnectRequestIgnored, OnConnectRequestBusy, OnConnectRequest, Take, Listening, Stopped
<1>4. /\ \A q \in Node : \A f : Queued(q, f)' <=> Queued(q, f) /\ ~ (q = n /\ f = e)
      /\ \A q \in Node : \A i, j \in 1..Len(pending'[q]) :
           pending'[q][i] = pending'[q][j] => i = j
      /\ Queued(n, e)
  BY <1>1, <1>3, TakeEvent
<1>5. /\ \A q, m \in Node : Asks(q, m)' <=> Asks(q, m) /\ ~ (q = n /\ m = p)
      /\ Asks(n, p)
      /\ \A q, m \in Node : Queued(q, Ev("DISCONNECTED", m))' => Queued(q, Ev("DISCONNECTED", m))
  <2>1. \A m \in Node : Ev("CONNECT_REQUEST", m) = e <=> m = p
    BY <1>2 DEF Ev
  <2>2. QED
    BY <1>2, <1>4, <2>1 DEF Asks
<1>6. /\ Waits(p) /\ Peer(p) = n /\ answer[p] = "none" /\ p # n
      /\ \A q \in Node : ~ Serves(q, p) /\ (Asks(q, p) => q = n)
  BY <1>1, <1>3, <1>5 DEF Requests, Serves
<1>7. UNCHANGED <<established, pc, next, disconnected>>
  BY DEF OnConnectRequestIgnored, OnConnectRequestBusy, OnConnectRequest, cmVars, appVars
<1>8. \A m \in Node : (Waits(m)' <=> Waits(m)) /\ Peer(m)' = Peer(m)
                     /\ (Waits(m) => Peer(m) \in Node)
  BY <1>1, <1>7, LeaverTypes DEF Waits, Peer, Stopped, Over
<1>9. AgreedConnection'
  BY <1>7 DEF LeaverInv, AgreedConnection
<1>10. \A m \in Node : answer[m] = "ESTABLISHED" => Waits(m)
  BY <1>1 DEF Requests
<1>11. CASE OnConnectRequestIgnored(n, p) \/ OnConnectRequestBusy(n, p)
  <2>1. /\ UNCHANGED <<brk, mu>>
        /\ answer'[p] \in {"none", "REJECTED"}
        /\ \A m \in Node \ {p} : answer'[m] = answer[m]
    BY <1>1, <1>6, <1>11 DEF OnConnectRequestIgnored, OnConnectRequestBusy, Tell, TypeOK,
                             cmVars, appVars
  <2>2. /\ \A q, m \in Node : Serves(q, m)' <=> Serves(q, m)
        /\ \A q \in Node : BrokerInside(q)' <=> BrokerInside(q)
        /\ \A q, m \in Node : Learns(q, m)' => Learns(q, m)
    BY <1>5, <2>1 DEF Serves, BrokerInside, Learns
  <2>3. Requests'
    BY <1>1, <1>4, <1>5, <1>6, <1>7, <1>8, <2>1, <2>2 DEF Requests
  <2>4. Gone'
    BY <1>7, <2>2 DEF LeaverInv, Gone, Stopped, Over
  <2>5. Guarded'
    BY <1>7, <2>1 DEF LeaverInv, Guarded, AppHoldsLock
  <2>6. Accepted'
    BY <1>7, <1>8, <1>10, <2>1 DEF LeaverInv, Accepted, Stopped, Over
  <2>7. QED
    BY <1>9, <2>3, <2>4, <2>5, <2>6 DEF LeaverInv
<1>12. CASE OnConnectRequest(n, p)
  <2>1. /\ UNCHANGED answer /\ mu[n] = kUnlocked
        /\ brk'[n].op = "request" /\ brk'[n].from = p /\ mu'[n] = p
        /\ \A m \in Node \ {n} : brk'[m] = brk[m] /\ mu'[m] = mu[m]
    BY <1>1, <1>12 DEF OnConnectRequest, Acquire, TypeOK, appVars
  <2>2. \A q, m \in Node : Serves(q, m)' <=> Serves(q, m) \/ (q = n /\ m = p)
    BY <1>3, <2>1 DEF Serves
  <2>3. \A q, m \in Node : Learns(q, m)' => Learns(q, m)
    BY <1>5, <2>1 DEF Learns
  <2>4. \A q \in Node : BrokerInside(q)' => BrokerInside(q) \/ q = n
    BY <2>1 DEF BrokerInside
  <2>5. Requests'
    BY <1>1, <1>4, <1>5, <1>6, <1>7, <1>8, <2>1, <2>2 DEF Requests
  <2>6. Gone'
    BY <1>3, <1>7, <2>3, <2>4 DEF LeaverInv, Gone, Stopped, Over
  <2>7. ~ AppHoldsLock(n)
    BY <1>1, <1>3, <2>1, LeaverTypes DEF LeaverInv, Guarded
  <2>8. Guarded'
    BY <1>6, <1>7, <2>1, <2>7 DEF LeaverInv, Guarded, AppHoldsLock
  <2>9. Accepted'
    BY <1>7, <1>8, <1>10, <2>1 DEF LeaverInv, Accepted, Stopped, Over
  <2>10. QED
    BY <1>9, <2>5, <2>6, <2>8, <2>9 DEF LeaverInv
<1>13. QED
  BY <1>11, <1>12

\* The broker answers a request: its own thread is outside, and the requester has
\* recorded nothing.
LEMMA LeaverHandle ==
    ASSUME LeaverInv, TypeOK', AtPeer', NEW n \in Node, HandleRequest(n)
    PROVE  LeaverInv'
<1>1. TypeOK /\ AtPeer /\ Requests /\ Gone /\ Guarded
  BY DEF LeaverInv
<1>2. PICK p \in Node : p = brk[n].from
  BY <1>1, LeaverTypes
<1>3. Serves(n, p) /\ BrokerInside(n) /\ ~ Stopped(n) /\ ~ AppHoldsLock(n)
  BY <1>1, <1>2 DEF HandleRequest, Serves, BrokerInside, Gone, Guarded
<1>4. /\ Waits(p) /\ Peer(p) = n /\ answer[p] = "none" /\ p # n
      /\ established[p][n] = NoConn
  BY <1>1, <1>3 DEF Requests
<1>5. \A q \in Node : (Serves(q, p) => q = n) /\ ~ Asks(q, p)
  BY <1>1, <1>3, <1>4 DEF Requests
<1>6. /\ UNCHANGED <<pending, pc, next, disconnected>>
      /\ brk'[n].op = "poll" /\ \A m \in Node \ {n} : brk'[m] = brk[m] /\ mu'[m] = mu[m]
  BY <1>1 DEF HandleRequest, Release, TypeOK
<1>7. /\ \A m \in Node \ {p} : answer'[m] = answer[m]
      /\ \A a, b \in Node : ~ (a = n /\ b = p) => established'[a][b] = established[a][b]
      /\ answer'[p] \in {"REJECTED", "ESTABLISHED"}
      /\ answer'[p] = "ESTABLISHED" => established'[n][p] = p
  <2>1. CASE established[n][p] # NoConn
    <3>1. answer' = [answer EXCEPT ![p] = "REJECTED"] /\ established' = established
      BY <1>2, <2>1 DEF HandleRequest, Tell
    <3>2. QED
      BY <1>1, <3>1 DEF TypeOK
  <2>2. CASE established[n][p] = NoConn
    <3>1. /\ answer' = [answer EXCEPT ![p] = "ESTABLISHED"]
          /\ established' = [established EXCEPT ![n][p] = p]
      BY <1>2, <2>2 DEF HandleRequest, Tell
    <3>2. QED
      BY <1>1, <3>1 DEF TypeOK
  <2>3. QED
    BY <2>1, <2>2
<1>8. \A m \in Node : (Waits(m)' <=> Waits(m)) /\ Peer(m)' = Peer(m)
                     /\ (Waits(m) => Peer(m) \in Node /\ m # n)
  BY <1>1, <1>3, <1>6, LeaverTypes DEF Waits, Peer, AppHoldsLock
<1>9. /\ \A q \in Node : \A f : Queued(q, f)' <=> Queued(q, f)
      /\ \A q, m \in Node : Serves(q, m)' <=> Serves(q, m) /\ q # n
      /\ \A q \in Node : BrokerInside(q)' => BrokerInside(q)
  BY <1>6 DEF Queued, Serves, BrokerInside
<1>10. /\ \A q, m \in Node : Asks(q, m)' <=> Asks(q, m)
       /\ \A q, m \in Node : Learns(q, m)' => Learns(q, m)
  BY <1>6, <1>9 DEF Asks, Learns
<1>11. Requests'
  <2>1. \A m \in Node : Waits(m)' => Peer(m)' # m /\ established'[m][Peer(m)'] = NoConn
    BY <1>1, <1>7, <1>8 DEF Requests
  <2>2. \A m \in Node : answer'[m] # "none" => Waits(m)'
    BY <1>1, <1>4, <1>7, <1>8 DEF Requests
  <2>3. \A q, m \in Node : Asks(q, m)' =>
          Waits(m)' /\ Peer(m)' = q /\ answer'[m] = "none" /\ ~ Serves(q, m)'
    BY <1>1, <1>5, <1>7, <1>8, <1>9, <1>10 DEF Requests
  <2>4. \A q, m \in Node : Serves(q, m)' => Waits(m)' /\ Peer(m)' = q /\ answer'[m] = "none"
    BY <1>1, <1>5, <1>7, <1>8, <1>9 DEF Requests
  <2>5. \A q \in Node : \A i, j \in 1..Len(pending'[q]) :
          pending'[q][i] = pending'[q][j] => i = j
    BY <1>1, <1>6 DEF Requests
  <2>6. QED
    BY <2>1, <2>2, <2>3, <2>4, <2>5 DEF Requests
<1>12. Gone'
  BY <1>1, <1>3, <1>6, <1>7, <1>9, <1>10 DEF Gone, Stopped, Over
<1>13. Guarded'
  BY <1>1, <1>3, <1>6 DEF Guarded, AppHoldsLock
<1>14. Accepted'
  <2>1. ASSUME NEW m \in Node, answer'[m] = "ESTABLISHED"
        PROVE  established'[Peer(m)'][m] = m \/ Over(Peer(m))'
    <3>1. CASE m = p
      BY <1>4, <1>7, <1>8, <2>1, <3>1
    <3>2. CASE m # p
      <4>1. answer[m] = "ESTABLISHED" /\ Peer(m) \in Node /\ Peer(m)' = Peer(m)
        BY <1>1, <1>7, <1>8, <2>1, <3>2 DEF Requests
      <4>2. QED
        BY <1>6, <1>7, <3>2, <4>1 DEF LeaverInv, Accepted, Stopped, Over
    <3>3. QED
      BY <3>1, <3>2
  <2>2. QED
    BY <2>1 DEF Accepted
<1>15. AgreedConnection'
  <2>1. established'[p][n] = NoConn
    BY <1>4, <1>7
  <2>2. QED
    BY <1>7, <2>1 DEF LeaverInv, AgreedConnection
<1>16. QED
  BY <1>11, <1>12, <1>13, <1>14, <1>15 DEF LeaverInv

\* The callback for a peer that has left.  The broker's last step gives away the
\* lock, but there is no broker left to take it.
LEMMA LeaverDisconnect ==
    ASSUME LeaverInv, TypeOK', AtPeer', NEW n \in Node, NEW p \in Node,
           OnDisconnect(n, p) \/ (HandleDisconnect(n) /\ p = brk[n].from)
    PROVE  LeaverInv'
<1>1. TypeOK /\ AtPeer /\ Requests /\ Gone /\ Guarded
  BY DEF LeaverInv
<1>2. UNCHANGED <<pc, next, answer, disconnected>>
  BY DEF OnDisconnect, HandleDisconnect, appVars
<1>3. \A m \in Node : (Waits(m)' <=> Waits(m)) /\ Peer(m)' = Peer(m)
                     /\ (Waits(m) => Peer(m) \in Node)
  BY <1>1, <1>2, LeaverTypes DEF Waits, Peer, Stopped, Over
<1>4. \A m \in Node : answer[m] = "ESTABLISHED" => Waits(m)
  BY <1>1 DEF Requests
<1>5. CASE OnDisconnect(n, p)
  <2>1. PICK e : e = Ev("DISCONNECTED", p)
    OBVIOUS
  <2>2. Take(n, e) /\ brk[n].op = "poll" /\ ~ Stopped(n) /\ UNCHANGED established
    BY <1>5, <2>1 DEF OnDisconnect, Take, Listening, Stopped
  <2>3. /\ \A q \in Node : \A f : Queued(q, f)' <=> Queued(q, f) /\ ~ (q = n /\ f = e)
        /\ \A q \in Node : \A i, j \in 1..Len(pending'[q]) :
             pending'[q][i] = pending'[q][j] => i = j
        /\ Queued(n, e)
    BY <1>1, <2>2, TakeEvent
  <2>4. Learns(n, p)
    BY <2>1, <2>3 DEF Learns
  <2>5. /\ brk'[n].op = "disconnect" /\ brk'[n].from = p
        /\ \A m \in Node \ {n} : brk'[m] = brk[m]
    BY <1>1, <1>5 DEF OnDisconnect, TypeOK
  <2>6. /\ \A m \in Node \ {n} : mu'[m] = mu[m]
        /\ mu[n] = kUnlocked \/ mu'[n] = mu[n]
    BY <1>1, <1>5 DEF OnDisconnect, AcquireUnchecked, Acquire, TypeOK
  <2>7. \A q, m \in Node : Asks(q, m)' <=> Asks(q, m)
    <3>1. \A m \in Node : Ev("CONNECT_REQUEST", m) # e
      BY <2>1 DEF Ev
    <3>2. QED
      BY <2>3, <3>1 DEF Asks
  <2>8. \A q, m \in Node : Serves(q, m)' => Serves(q, m)
    BY <2>5 DEF Serves
  <2>9. \A q, m \in Node : Learns(q, m)' => Learns(q, m)
    <3>1. ASSUME NEW q \in Node, NEW m \in Node, Learns(q, m)'
          PROVE  Learns(q, m)
      <4>1. CASE Queued(q, Ev("DISCONNECTED", m))'
        BY <2>3, <4>1 DEF Learns
      <4>2. CASE brk'[q].op = "disconnect" /\ brk'[q].from = m
        BY <2>4, <2>5, <4>2 DEF Learns
      <4>3. QED
        BY <3>1, <4>1, <4>2 DEF Learns
    <3>2. QED
      BY <3>1
  <2>10. \A q \in Node : BrokerInside(q)' => BrokerInside(q) \/ q = n
    BY <2>5 DEF BrokerInside
  <2>11. Requests'
    BY <1>1, <1>2, <1>3, <2>2, <2>3, <2>7, <2>8 DEF Requests
  <2>12. Gone'
    BY <1>1, <1>2, <2>2, <2>9, <2>10 DEF Gone, Stopped, Over
  <2>13. Guarded'
    <3>1. AppHoldsLock(n) => mu[n] = n
      BY <1>1, <2>2 DEF Guarded
    <3>2. n # kUnlocked
      BY <1>1, LeaverTypes
    <3>3. QED
      BY <1>1, <1>2, <2>5, <2>6, <3>1, <3>2 DEF Guarded, AppHoldsLock
  <2>14. Accepted' /\ AgreedConnection'
    BY <1>2, <1>3, <2>2 DEF LeaverInv, Accepted, AgreedConnection, Stopped, Over
  <2>15. QED
    BY <2>11, <2>12, <2>13, <2>14 DEF LeaverInv
<1>6. CASE HandleDisconnect(n) /\ p = brk[n].from
  <2>1. Learns(n, p) /\ brk[n].op = "disconnect"
    BY <1>6 DEF HandleDisconnect, Learns
  <2>2. p \in Node /\ n \in disconnected[p] /\ pc[p] # "waiting"
    BY <1>1, <2>1 DEF Gone, AtPeer
  <2>3. /\ \A a, b \in Node : established'[a][b] = established[a][b]
             \/ (a = n /\ b = p /\ established'[a][b] = NoConn)
        /\ brk'[n].op = "ended"
        /\ \A m \in Node \ {n} : brk'[m] = brk[m] /\ mu'[m] = mu[m]
        /\ pending'[n] = <<>> /\ \A q \in Node \ {n} : pending'[q] = pending[q]
    BY <1>1, <1>6 DEF HandleDisconnect, Release, TypeOK
  <2>4. \A q \in Node : \A f : Queued(q, f)' => Queued(q, f)
    <3>1. ASSUME NEW q \in Node, NEW f, Queued(q, f)'
          PROVE  Queued(q, f)
      <4>1. pending'[q] # <<>>
        BY <3>1 DEF Queued
      <4>2. pending'[q] = pending[q]
        BY <2>3, <4>1
      <4>3. QED
        BY <3>1, <4>2 DEF Queued
    <3>2. QED
      BY <3>1
  <2>5. /\ \A q, m \in Node : Asks(q, m)' => Asks(q, m)
        /\ \A q, m \in Node : Serves(q, m)' => Serves(q, m)
        /\ \A q, m \in Node : Learns(q, m)' => Learns(q, m)
        /\ \A q \in Node : BrokerInside(q)' => BrokerInside(q)
    BY <2>3, <2>4 DEF Asks, Serves, Learns, BrokerInside
  <2>6. \A q \in Node : \A i, j \in 1..Len(pending'[q]) :
          pending'[q][i] = pending'[q][j] => i = j
    <3>1. ASSUME NEW q \in Node
          PROVE  \A i, j \in 1..Len(pending'[q]) : pending'[q][i] = pending'[q][j] => i = j
      <4>1. CASE pending'[q] = <<>>
        BY <4>1
      <4>2. CASE pending'[q] = pending[q]
        BY <1>1, <4>2 DEF Requests
      <4>3. QED
        BY <2>3, <4>1, <4>2
    <3>2. QED
      BY <3>1
  <2>7. Requests'
    BY <1>1, <1>2, <1>3, <2>3, <2>5, <2>6 DEF Requests
  <2>8. Gone'
    BY <1>1, <1>2, <2>3, <2>5 DEF Gone, Stopped, Over
  <2>9. Guarded'
    BY <1>1, <1>2, <2>3 DEF Guarded, AppHoldsLock
  <2>10. Accepted'
    <3>1. ~ Waits(p)
      BY <2>2 DEF Waits
    <3>2. QED
      BY <1>2, <1>3, <1>4, <2>3, <3>1 DEF LeaverInv, Accepted, Stopped, Over
  <2>11. AgreedConnection'
    BY <2>3 DEF LeaverInv, AgreedConnection
  <2>12. QED
    BY <2>7, <2>8, <2>9, <2>10, <2>11 DEF LeaverInv
<1>7. QED
  BY <1>5, <1>6

\* The transport answers only for a peer that does not.
LEMMA LeaverTransport ==
    ASSUME LeaverInv, TypeOK', AtPeer', NEW n \in Node, TransportAnswers(n)
    PROVE  LeaverInv'
<1>1. TypeOK /\ AtPeer /\ Requests
  BY DEF LeaverInv
<1>2. /\ UNCHANGED <<pending, brk, established, mu, pc, next, disconnected>>
      /\ \A m \in Node \ {n} : answer'[m] = answer[m]
      /\ answer'[n] \in {"REJECTED", "UNREACHABLE"}
      /\ Waits(n)
  BY <1>1 DEF TransportAnswers, Tell, TypeOK, Waits, cmVars, brokerVars
<1>3. Peer(n) \in Node
  BY <1>1, <1>2, LeaverTypes
<1>4. ~ Asks(Peer(n), n) /\ ~ Serves(Peer(n), n)
  <2>1. ~ Asks(Peer(n), n)
    BY DEF TransportAnswers, Asks
  <2>2. brk[Peer(n)] # [op |-> "request", from |-> n] /\ brk[Peer(n)] \in Poll
    BY <1>1, <1>3 DEF TransportAnswers, TypeOK
  <2>3. QED
    BY <2>1, <2>2 DEF Serves, Poll
<1>5. \A q \in Node : ~ Asks(q, n) /\ ~ Serves(q, n)
  BY <1>1, <1>4 DEF Requests
<1>6. \A m \in Node : (Waits(m)' <=> Waits(m)) /\ Peer(m)' = Peer(m)
                     /\ (Waits(m) => Peer(m) \in Node)
  BY <1>1, <1>2, LeaverTypes DEF Waits, Peer, Stopped, Over
<1>7. /\ \A p, m \in Node : Asks(p, m)' <=> Asks(p, m)
      /\ \A p, m \in Node : Serves(p, m)' <=> Serves(p, m)
      /\ \A p, m \in Node : Learns(p, m)' <=> Learns(p, m)
      /\ \A p \in Node : BrokerInside(p)' <=> BrokerInside(p)
  BY <1>2, SameBroker
<1>8. Requests'
  BY <1>1, <1>2, <1>5, <1>6, <1>7 DEF Requests
<1>9. Gone'
  BY <1>2, <1>7 DEF LeaverInv, Gone, Stopped, Over
<1>10. Guarded'
  BY <1>2 DEF LeaverInv, Guarded, AppHoldsLock
<1>11. Accepted' /\ AgreedConnection'
  BY <1>2, <1>6 DEF LeaverInv, Accepted, AgreedConnection, Stopped, Over
<1>12. QED
  BY <1>8, <1>9, <1>10, <1>11 DEF LeaverInv

LEMMA LeaverNext ==
    ASSUME LeaverInv, [Next]_vars
    PROVE  LeaverInv'
<1>1. TypeOK' /\ AtPeer'
  BY StepType DEF LeaverInv
<1>2. CASE UNCHANGED vars
  <2>1. UNCHANGED <<mu, established, brk, pending, pc, next, answer, disconnected>>
    BY <1>2 DEF vars, cmVars, brokerVars, appVars
  <2>2. /\ \A p, m \in Node : Asks(p, m)' <=> Asks(p, m)
        /\ \A p, m \in Node : Serves(p, m)' <=> Serves(p, m)
        /\ \A p, m \in Node : Learns(p, m)' <=> Learns(p, m)
        /\ \A p \in Node : BrokerInside(p)' <=> BrokerInside(p)
    BY <2>1, SameBroker
  <2>3. \A m \in Node : (Waits(m)' <=> Waits(m)) /\ Peer(m)' = Peer(m)
    BY <2>1 DEF Waits, Peer
  <2>4. Requests'
    BY <2>1, <2>2, <2>3 DEF LeaverInv, Requests
  <2>5. Gone'
    BY <2>1, <2>2 DEF LeaverInv, Gone, Stopped, Over
  <2>6. Guarded' /\ Accepted' /\ AgreedConnection'
    BY <2>1, <2>3 DEF LeaverInv, Guarded, AppHoldsLock, Accepted, AgreedConnection, Stopped, Over
  <2>7. QED
    BY <1>1, <2>4, <2>5, <2>6 DEF LeaverInv
<1>3. ASSUME NEW n \in Node, Connect(n)
      PROVE  LeaverInv'
  BY <1>1, <1>3, LeaverApp, LeaverLoopback, LeaverSend, LeaverEstablished, LeaverReply
     DEF Connect
<1>4. ASSUME NEW n \in Node, InitCm(n)
      PROVE  LeaverInv'
  BY <1>1, <1>3, <1>4, LeaverApp, LeaverClose, LeaverTells DEF InitCm
<1>5. ASSUME NEW n \in Node, Broker(n)
      PROVE  LeaverInv'
  <2>1. brk[n].from \in Node
    BY LeaverTypes DEF LeaverInv
  <2>2. QED
    BY <1>1, <1>5, <2>1, LeaverTake, LeaverHandle, LeaverDisconnect DEF Broker
<1>6. QED
  BY <1>1, <1>2, <1>4, <1>5, LeaverTransport, LeaverTells DEF Next, Transport, Terminated

LEMMA LeaverAlways == Spec => []LeaverInv
<1>1. LeaverInv /\ [Next]_vars => LeaverInv'
  BY LeaverNext
<1>2. QED
  BY <1>1, LeaverInit, PTL DEF Spec

\* Whatever fails and whoever leaves, at any moment: when the two ends of a pair
\* have an entry for each other, both entries are the same queue pair, although
\* Connect and OnConnectRequest of either end may have made it.
THEOREM Agreement == Spec => []AgreedConnection
<1>1. LeaverInv => AgreedConnection
  BY DEF LeaverInv
<1>2. QED
  BY <1>1, LeaverAlways, PTL

\* The "already connected" path of Connect, which gives up a queue pair that the
\* peer has accepted, is dead code, whatever fails and whoever leaves.
THEOREM NoDuplicates == Spec => []NoDuplicate
<1>1. LeaverInv => NoDuplicate
  BY DEF LeaverInv, Requests, NoDuplicate, Waits
<1>2. QED
  BY <1>1, LeaverAlways, PTL

\* What one step takes away: the end of a manager everything of its own node, the
\* callback for a peer whose end is gone the entry of that peer, and nobody else
\* anything.
LEMMA Removed ==
    ASSUME LeaverInv, [Next]_vars, NEW n \in Node, NEW p \in Node,
           established[n][p] = p, established'[n][p] # p, n # p
    PROVE  pc'[n] \in {"closed", "aborted"} \/ n \in disconnected[p]
<1>1. TypeOK /\ AtPeer /\ Requests /\ Gone
  BY DEF LeaverInv
<1>2. p # NoConn /\ established' # established
  <2>1. p # NoConn
    BY <1>1, LeaverTypes
  <2>2. QED
    BY <2>1
<1>3. ASSUME NEW m \in Node, Connect(m)
      PROVE  FALSE
  <2>1. CASE ConnectLoopback(m)
    BY <1>1, <2>1 DEF ConnectLoopback, TypeOK
  <2>2. CASE ConnectEstablished(m)
    <3>1. Peer(m) \in Node /\ established[m][Peer(m)] = NoConn
      BY <1>1, <2>2, PeerType DEF ConnectEstablished, Reply, AtPeer
    <3>2. established' = [established EXCEPT ![m][Peer(m)] = m]
      BY <2>2 DEF ConnectEstablished
    <3>3. QED
      BY <1>1, <1>2, <3>1, <3>2 DEF TypeOK
  <2>3. QED
    BY <1>2, <1>3, <2>1, <2>2 DEF Connect, ConnectCall, ConnectFound, ConnectReturn, ConnectSend,
       ConnectFails, ConnectEstablishedFails, ConnectRejected, ConnectUnexpected, cmVars
<1>4. ASSUME NEW m \in Node, InitCm(m)
      PROVE  pc'[n] \in {"closed", "aborted"}
  <2>1. CloseEnd(m) \/ ProcessEnds(m)
    BY <1>2, <1>3, <1>4 DEF InitCm, Start, NextPhase, GetConnection, GetConnectionReturn, Send,
       SendFails, Deliver, DeliverAborted, CloseBegin, BrokerStop, Disconnect, EndGone, cmVars
  <2>2. /\ established' = [established EXCEPT ![m] = [x \in Node |-> NoConn]]
        /\ pc'[m] \in {"closed", "aborted"}
    BY <1>1, <2>1 DEF CloseEnd, ProcessEnds, Go, TypeOK
  <2>3. m = n
    BY <1>1, <2>2 DEF TypeOK
  <2>4. QED
    BY <2>2, <2>3
<1>5. ASSUME NEW m \in Node, Broker(m)
      PROVE  n \in disconnected[p]
  <2>1. CASE HandleRequest(m)
    <3>1. established' = [established EXCEPT ![m][brk[m].from] = brk[m].from]
          /\ established[m][brk[m].from] = NoConn
      BY <1>2, <2>1 DEF HandleRequest
    <3>2. QED
      BY <1>1, <1>2, <3>1 DEF TypeOK
  <2>2. CASE HandleDisconnect(m)
    <3>1. established' = [established EXCEPT ![m][brk[m].from] =
                             IF @ = brk[m].from THEN NoConn ELSE @]
      BY <2>2 DEF HandleDisconnect
    <3>2. m = n /\ brk[m].from = p
      BY <1>1, <3>1 DEF TypeOK
    <3>3. Learns(n, p)
      BY <2>2, <3>2 DEF HandleDisconnect, Learns
    <3>4. QED
      BY <1>1, <3>3 DEF Gone
  <2>3. QED
    BY <1>2, <1>5, <2>1, <2>2 DEF Broker, OnConnectRequestIgnored, OnConnectRequestBusy,
       OnConnectRequest, OnDisconnect, cmVars
<1>6. ~ UNCHANGED vars /\ \A m \in Node : ~ Transport(m)
  BY <1>2 DEF vars, cmVars, Transport, TransportAnswers, KernelDisconnects, EndGone
<1>7. QED
  BY <1>4, <1>5, <1>6 DEF Next, Terminated

\* A node that is not ending itself drops a connection it accepted only when the
\* requester's end of it is gone: OnDisconnect never frees a queue pair whose
\* other end can still be used, although the destructor's map keeps its entry
\* and although OnDisconnect ignores whether it got the lock.
THEOREM KeptUntilLeft == Spec => KeptWhileUsed
<1> DEFINE Kept == \A n, p \in Node :
         n # p /\ established[n][p] = p /\ established'[n][p] # p
            => pc'[n] \in {"closed", "aborted"} \/ n \in disconnected[p]
<1>1. LeaverInv /\ [Next]_vars => Kept
  BY Removed
<1>2. Spec => [][Kept]_vars
  BY <1>1, LeaverAlways, PTL DEF Spec
<1>3. QED
  BY <1>2 DEF KeptWhileUsed
=============================================================================
