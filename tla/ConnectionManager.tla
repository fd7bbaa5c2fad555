------------------------- MODULE ConnectionManager -------------------------
(***************************************************************************)
(* Connection set-up between the nodes of an experiment.                   *)
(*                                                                         *)
(* Every node runs two threads over one ConnectionManager: the application *)
(* thread, which executes init_cm (connect to every peer, send to every    *)
(* peer, deliver from every peer), and the broker thread, which serves the *)
(* events of the listening channel.  They share established_ and the spin  *)
(* lock mu_, whose value is the node on whose behalf it is held.           *)
(*                                                                         *)
(* A connection between two nodes is named by the node that requested it:  *)
(* a node has at most one request under way, and one that was rejected     *)
(* leaves nothing behind.                                                  *)
(***************************************************************************)
EXTENDS Integers, Sequences

CONSTANTS
    Node,       \* the nodes
    Peers,      \* Peers[n]: the vector of peers n is started with, n included
    kUnlocked,  \* the value of mu_ when nobody holds it
    NoConn,     \* established_ has no entry
    Unstable    \* nodes whose verbs calls may fail and that may leave early

ASSUME NodeAssumption ==
    /\ Peers \in [Node -> Seq(Node)]
    /\ \A n, p \in Node : \E i \in 1..Len(Peers[n]) : Peers[n][i] = p
    /\ kUnlocked \notin Node
    /\ NoConn \notin Node
    /\ Unstable \subseteq Node

VARIABLES
    accepting,        \* accepting_
    mu,               \* mu_
    established,      \* established_: established[n][p] names the connection
    brk,              \* what the broker thread is doing
    pending,          \* events queued on the broker's listening channel
    pc,               \* where the application thread is
    phase,            \* which loop of init_cm it is in
    next,             \* the position of the loop in Peers[n]
    answer,           \* event waiting on the channel of the node's request
    sent,             \* sent[n]: the peers n's message has reached
    disconnected      \* disconnected[n]: the peers n's end is gone for

cmVars     == <<accepting, mu, established>>
brokerVars == <<brk, pending>>
appVars    == <<pc, phase, next, answer, sent>>
vars == <<cmVars, brokerVars, appVars, disconnected>>

Event == [type : {"CONNECT_REQUEST", "DISCONNECTED"},
          from : Node]
Ev(t, p) == [type |-> t, from |-> p]
Queued(n, e) == \E i \in 1..Len(pending[n]) : pending[n][i] = e

Poll == [op : {"poll", "request", "disconnect", "ended"}, from : Node]

\* rdma_conn_param.rnr_retry_count as the code sets it; verbs reads 7 as
\* "retry for ever" and any smaller value as that many retries.
rnr_retry_count == 1
RnrRetryForever == rnr_retry_count = 7

Init ==
    /\ accepting = [n \in Node |-> FALSE]
    /\ mu = [n \in Node |-> kUnlocked]
    /\ established = [n \in Node |-> [p \in Node |-> NoConn]]
    /\ brk = [n \in Node |-> [op |-> "poll", from |-> n]]
    /\ pending = [n \in Node |-> <<>>]
    /\ pc = [n \in Node |-> "start"]
    /\ phase = [n \in Node |-> "connect"]
    /\ next = [n \in Node |-> 1]
    /\ answer = [n \in Node |-> "none"]
    /\ sent = [n \in Node |-> {}]
    /\ disconnected = [n \in Node |-> {}]

-----------------------------------------------------------------------------
(* The lock.  Acquire spins while a peer holds mu_ (no step), and gives up  *)
(* when the node's own application holds it.                                *)

\* Mutant: the lock is taken whoever holds it.
AcquireAlways(n, who) == mu' = [mu EXCEPT ![n] = who]

Acquire(n, who) == /\ mu[n] = kUnlocked
                   /\ mu' = [mu EXCEPT ![n] = who]
GivesUp(n) == mu[n] = n
Release(n) == mu' = [mu EXCEPT ![n] = kUnlocked]

\* Acquire with its result ignored, as OnDisconnect and the destructor call it.
AcquireUnchecked(n, who) == \/ Acquire(n, who)
                            \/ GivesUp(n) /\ UNCHANGED mu

-----------------------------------------------------------------------------
(* The application thread: Start, then Connect for every peer.              *)

Go(n, label) == pc' = [pc EXCEPT ![n] = label]

\* The broker is inside a callback.
BrokerInside(n) == brk[n].op \in {"request", "disconnect"}

\* A broker thread serves the node's listening channel.
Listening(n) == /\ pc[n] \notin {"start", "disconnecting", "closed", "aborted"}
                /\ brk[n].op # "ended"

\* The loops of init_cm visit the peers in the order of the vector.
InLoop(n) == next[n] <= Len(Peers[n])
Peer(n) == Peers[n][next[n]]
\* Mutant: the loop runs backwards.
VisitedBackwards(n) == /\ next' = [next EXCEPT ![n] = @ - 1]
                       /\ Go(n, "idle")

Visited(n) == /\ next' = [next EXCEPT ![n] = @ + 1]
              /\ Go(n, "idle")

Start(n) ==
    /\ pc[n] = "start"
    /\ accepting' = [accepting EXCEPT ![n] = TRUE]
    /\ Go(n, "idle")
    /\ UNCHANGED <<mu, established, brokerVars, phase, next, answer, sent, disconnected>>

\* Connect takes the lock; a rejected request is retried for the same peer.
ConnectCall(n) ==
    /\ phase[n] = "connect"
    /\ pc[n] \in {"idle", "retry"}
    /\ InLoop(n)
    /\ Acquire(n, n)
    /\ Go(n, "locked")
    /\ UNCHANGED <<accepting, established, brokerVars, phase, next, answer, sent, disconnected>>

\* The peer's own request got here first.  The lock is released before the
\* entry that was found is dereferenced (ConnectReturn).
ConnectFound(n) ==
    /\ pc[n] = "locked"
    /\ established[n][Peer(n)] # NoConn
    /\ Release(n)
    /\ Go(n, "returning")
    /\ UNCHANGED <<accepting, established, brokerVars, phase, next, answer, sent, disconnected>>

ConnectReturn(n) ==
    /\ pc[n] = "returning"
    /\ Visited(n)
    /\ UNCHANGED <<cmVars, brokerVars, phase, answer, sent, disconnected>>

ConnectLoopback(n) ==
    /\ pc[n] = "locked"
    /\ Peer(n) = n
    /\ established[n][n] = NoConn
    /\ established' = [established EXCEPT ![n][n] = n]
    /\ Release(n)
    /\ Go(n, "returning")
    /\ UNCHANGED <<accepting, brokerVars, phase, next, answer, sent, disconnected>>

\* Mutant: the lock is released while the request is under way.
ConnectSendUnlocked(n) ==
    /\ pc[n] = "locked"
    /\ Peer(n) # n
    /\ established[n][Peer(n)] = NoConn
    /\ Listening(Peer(n))
    /\ pending' = [pending EXCEPT ![Peer(n)] = Append(@, Ev("CONNECT_REQUEST", n))]
    /\ Release(n)
    /\ Go(n, "waiting")
    /\ UNCHANGED <<accepting, established, brk, phase, next, answer, sent, disconnected>>

\* rdma_connect: the request travels to the peer, or is rejected by the
\* transport when nobody listens there; the thread polls its private event
\* channel with the lock held.
ConnectSend(n) ==
    /\ pc[n] = "locked"
    /\ Peer(n) # n
    /\ established[n][Peer(n)] = NoConn
    /\ \/ /\ Listening(Peer(n))
          /\ pending' = [pending EXCEPT ![Peer(n)] = Append(@, Ev("CONNECT_REQUEST", n))]
          /\ UNCHANGED answer
       \/ /\ ~ Listening(Peer(n))
          /\ answer' = [answer EXCEPT ![n] = "REJECTED"]
          /\ UNCHANGED pending
    /\ Go(n, "waiting")
    /\ UNCHANGED <<cmVars, brk, phase, next, sent, disconnected>>

\* A verbs call of Connect or ConnectLoopback fails and the call returns
\* InternalError: after rdma_create_ep the lock is released, after any other
\* call it is not.
ConnectFails(n) ==
    /\ n \in Unstable
    /\ pc[n] = "locked"
    /\ established[n][Peer(n)] = NoConn
    /\ Release(n) \/ UNCHANGED mu
    /\ Go(n, "failed")
    /\ UNCHANGED <<accepting, established, brokerVars, phase, next, answer, sent, disconnected>>

Reply(n, a) ==
    /\ pc[n] = "waiting"
    /\ answer[n] = a
    /\ answer' = [answer EXCEPT ![n] = "none"]

\* Mutant: the test of rdma_connect's result is inverted, and the identifier of
\* the new connection is destroyed.
ConnectEstablishedDropped(n) ==
    /\ Reply(n, "ESTABLISHED")
    /\ established' = [established EXCEPT ![n][Peer(n)] = n]
    /\ pending' = [pending EXCEPT ![Peer(n)] = Append(@, Ev("DISCONNECTED", n))]
    /\ Release(n)
    /\ Visited(n)
    /\ UNCHANGED <<accepting, brk, phase, sent, disconnected>>

\* Nothing was recorded meanwhile (NoDuplicate): the connection goes into the
\* map.
ConnectEstablished(n) ==
    /\ Reply(n, "ESTABLISHED")
    /\ established[n][Peer(n)] = NoConn
    /\ established' = [established EXCEPT ![n][Peer(n)] = n]
    /\ Release(n)
    /\ Visited(n)
    /\ UNCHANGED <<accepting, brokerVars, phase, sent, disconnected>>

\* fcntl or rdma_ack_cm_event fails once the connection is up: InternalError,
\* with the lock held and the connection in no map.
ConnectEstablishedFails(n) ==
    /\ n \in Unstable
    /\ Reply(n, "ESTABLISHED")
    /\ Go(n, "failed")
    /\ UNCHANGED <<cmVars, brokerVars, phase, next, sent, disconnected>>

\* Mutant: a rejected Connect keeps the lock.
ConnectRejectedLocked(n) ==
    /\ Reply(n, "REJECTED")
    /\ Go(n, "retry")
    /\ UNCHANGED <<cmVars, brokerVars, phase, next, sent, disconnected>>

\* REJECTED: release, sleep for the back-off, report Unavailable; init_cm
\* calls Connect again.
ConnectRejected(n) ==
    /\ Reply(n, "REJECTED")
    /\ Release(n)
    /\ Go(n, "retry")
    /\ UNCHANGED <<accepting, established, brokerVars, phase, next, sent, disconnected>>

ConnectUnexpected(n) ==
    /\ Reply(n, "UNREACHABLE")
    /\ Release(n)
    /\ Go(n, "failed")
    /\ UNCHANGED <<accepting, established, brokerVars, phase, next, sent, disconnected>>

-----------------------------------------------------------------------------
(* init_cm after the connections are made: GetConnection and Send for every *)
(* peer, then GetConnection and Deliver for every peer.                     *)

NextPhase(n) ==
    /\ pc[n] = "idle"
    /\ ~ InLoop(n)
    /\ \/ /\ phase[n] = "connect"
          /\ phase' = [phase EXCEPT ![n] = "send"]
          /\ next' = [next EXCEPT ![n] = 1]
       \/ /\ phase[n] = "send"
          /\ phase' = [phase EXCEPT ![n] = "deliver"]
          /\ next' = [next EXCEPT ![n] = 1]
       \/ /\ phase[n] = "deliver"
          /\ phase' = [phase EXCEPT ![n] = "up"]
          /\ UNCHANGED next
    /\ UNCHANGED <<cmVars, brokerVars, pc, answer, sent, disconnected>>

GetConnection(n) ==
    /\ pc[n] = "idle"
    /\ phase[n] \in {"send", "deliver"}
    /\ InLoop(n)
    /\ Acquire(n, n)
    /\ Go(n, "getting")
    /\ UNCHANGED <<accepting, established, brokerVars, phase, next, answer, sent, disconnected>>

\* STATUSVAL_OR_DIE ends the program when the connection is not found.
GetConnectionReturn(n) ==
    /\ pc[n] = "getting"
    /\ Release(n)
    /\ Go(n, IF established[n][Peer(n)] # NoConn THEN "using" ELSE "failed")
    /\ UNCHANGED <<accepting, established, brokerVars, phase, next, answer, sent, disconnected>>

\* The peer's end of the queue pair is gone.
Severed(n) == \/ n \in disconnected[Peer(n)]
              \/ pc[Peer(n)] \in {"closed", "aborted"}

\* The peer has built its Connection for this queue pair, which is what posts
\* the receives.
ReceiverReady(n) == /\ established[Peer(n)][n] = established[n][Peer(n)]
                    /\ n \notin disconnected[Peer(n)]

Send(n) ==
    /\ pc[n] = "using"
    /\ phase[n] = "send"
    /\ ReceiverReady(n)
    /\ sent' = [sent EXCEPT ![n] = @ \cup {Peer(n)}]
    /\ Visited(n)
    /\ UNCHANGED <<cmVars, brokerVars, phase, answer, disconnected>>

\* The queue pair of a peer that left, or that has not posted its receives
\* before the retries ran out, fails the send.
SendFails(n) ==
    /\ pc[n] = "using"
    /\ phase[n] = "send"
    /\ ~ ReceiverReady(n)
    /\ \/ Severed(n)
       \/ n \in Unstable /\ ~ RnrRetryForever
    /\ Go(n, "failed")
    /\ UNCHANGED <<cmVars, brokerVars, phase, next, answer, sent, disconnected>>

\* Mutant: a message is taken that has not arrived.
DeliverEarly(n) ==
    /\ pc[n] = "using"
    /\ phase[n] = "deliver"
    /\ Visited(n)
    /\ UNCHANGED <<cmVars, brokerVars, phase, answer, sent, disconnected>>

Deliver(n) ==
    /\ pc[n] = "using"
    /\ phase[n] = "deliver"
    /\ n \in sent[Peer(n)]
    /\ Visited(n)
    /\ UNCHANGED <<cmVars, brokerVars, phase, answer, sent, disconnected>>

\* The posted receives are flushed when the peer leaves.
DeliverAborted(n) ==
    /\ pc[n] = "using"
    /\ phase[n] = "deliver"
    /\ n \notin sent[Peer(n)]
    /\ Severed(n)
    /\ Go(n, "failed")
    /\ UNCHANGED <<cmVars, brokerVars, phase, next, answer, sent, disconnected>>

-----------------------------------------------------------------------------
(* The end of a node.  An error that Connect, Send or Deliver return goes   *)
(* to the caller of init_cm, with the lock as it is: the programs of the    *)
(* repository abort, another owner may destroy the manager.                 *)

CloseBegin(n) ==
    /\ \/ pc[n] = "failed"
       \/ pc[n] = "idle" /\ phase[n] = "up" /\ n \in Unstable
    /\ AcquireUnchecked(n, n)
    /\ accepting' = [accepting EXCEPT ![n] = FALSE]
    /\ Go(n, "stopping")
    /\ UNCHANGED <<established, brokerVars, phase, next, answer, sent, disconnected>>

\* The broker thread is joined; what its channel still holds is thrown away.
BrokerStop(n) ==
    /\ pc[n] = "stopping"
    /\ ~ BrokerInside(n)
    /\ pending' = [pending EXCEPT ![n] = <<>>]
    /\ Go(n, "disconnecting")
    /\ UNCHANGED <<cmVars, brk, phase, next, answer, sent, disconnected>>

\* n's end of its connection with p goes away.  Only an accepting end gets the
\* event on a channel it polls.
EndGone(n, p) ==
    /\ p \notin disconnected[n]
    /\ disconnected' = [disconnected EXCEPT ![n] = @ \cup {p}]
    /\ pending' = IF established[p][n] = n /\ Listening(p)
                    THEN [pending EXCEPT ![p] = Append(@, Ev("DISCONNECTED", n))]
                    ELSE pending
    /\ UNCHANGED <<cmVars, brk, appVars>>

\* rdma_disconnect and rdma_destroy_ep for one entry of the map, which keeps it.
Disconnect(n, p) ==
    /\ pc[n] = "disconnecting"
    /\ p # n
    /\ established[n][p] # NoConn
    /\ EndGone(n, p)

\* When all are gone the lock is released and the map destroyed.
CloseEnd(n) ==
    /\ pc[n] = "disconnecting"
    /\ \A p \in Node \ {n} : established[n][p] # NoConn => p \in disconnected[n]
    /\ established' = [established EXCEPT ![n] = [p \in Node |-> NoConn]]
    /\ Release(n)
    /\ Go(n, "closed")
    /\ UNCHANGED <<accepting, brokerVars, phase, next, answer, sent, disconnected>>

\* The process ends with its manager as it is: aborted after an error, or at the
\* end of main, which never deletes it.
ProcessEnds(n) ==
    /\ \/ pc[n] = "failed"
       \/ pc[n] = "idle" /\ phase[n] = "up" /\ n \in Unstable
    /\ established' = [established EXCEPT ![n] = [p \in Node |-> NoConn]]
    /\ brk' = [brk EXCEPT ![n] = [op |-> "ended", from |-> n]]
    /\ pending' = [pending EXCEPT ![n] = <<>>]
    /\ Go(n, "aborted")
    /\ UNCHANGED <<accepting, mu, phase, next, answer, sent, disconnected>>

\* The kernel disconnects, one by one, what a process that is over has left.
KernelDisconnects(n, p) ==
    /\ pc[n] \in {"closed", "aborted"}
    /\ established[p][n] = n
    /\ EndGone(n, p)

-----------------------------------------------------------------------------
(* The broker thread: HandleConnectionRequests and its callbacks.           *)

Take(n, e) ==
    /\ Listening(n)
    /\ brk[n].op = "poll"
    /\ pending[n] # <<>>
    /\ Head(pending[n]) = e
    /\ pending' = [pending EXCEPT ![n] = Tail(@)]

Tell(p, a) == answer' = [answer EXCEPT ![p] = a]

\* Not accepting: the request is neither accepted nor rejected.
OnConnectRequestIgnored(n, p) ==
    /\ Take(n, Ev("CONNECT_REQUEST", p))
    /\ ~ accepting[n]
    /\ UNCHANGED <<cmVars, brk, appVars, disconnected>>

\* Mutant: a request that finds the lock taken is dropped.
OnConnectRequestBusyDropped(n, p) ==
    /\ Take(n, Ev("CONNECT_REQUEST", p))
    /\ accepting[n]
    /\ GivesUp(n)
    /\ UNCHANGED <<cmVars, brk, appVars, disconnected>>

\* The lock is held by this node's own application: reject.
OnConnectRequestBusy(n, p) ==
    /\ Take(n, Ev("CONNECT_REQUEST", p))
    /\ accepting[n]
    /\ GivesUp(n)
    /\ Tell(p, "REJECTED")
    /\ UNCHANGED <<cmVars, brk, pc, phase, next, sent, disconnected>>

OnConnectRequest(n, p) ==
    /\ Take(n, Ev("CONNECT_REQUEST", p))
    /\ accepting[n]
    /\ Acquire(n, p)
    /\ brk' = [brk EXCEPT ![n] = [op |-> "request", from |-> p]]
    /\ UNCHANGED <<accepting, established, appVars, disconnected>>

\* With the lock: reject a second connection, otherwise record and accept.
HandleRequest(n) ==
    LET p == brk[n].from IN
    /\ brk[n].op = "request"
    /\ \/ /\ established[n][p] # NoConn
          /\ Tell(p, "REJECTED")
          /\ UNCHANGED established
       \/ /\ established[n][p] = NoConn
          /\ established' = [established EXCEPT ![n][p] = p]
          /\ Tell(p, "ESTABLISHED")
    /\ Release(n)
    /\ brk' = [brk EXCEPT ![n] = [op |-> "poll", from |-> p]]
    /\ UNCHANGED <<accepting, pending, pc, phase, next, sent, disconnected>>

OnDisconnect(n, p) ==
    /\ Take(n, Ev("DISCONNECTED", p))
    /\ AcquireUnchecked(n, p)
    /\ brk' = [brk EXCEPT ![n] = [op |-> "disconnect", from |-> p]]
    /\ UNCHANGED <<accepting, established, appVars, disconnected>>

\* Release is unconditional, whoever holds the lock.  The channel destroyed at
\* the end is the one of the identifier the event came with, which librdmacm
\* creates on the listener's channel: the queue of events is gone, and the
\* broker's next poll fails with an error other than EAGAIN and ends the thread.
HandleDisconnect(n) ==
    LET p == brk[n].from IN
    /\ brk[n].op = "disconnect"
    /\ established' = [established EXCEPT ![n][p] = IF @ = p THEN NoConn ELSE @]
    /\ Release(n)
    /\ brk' = [brk EXCEPT ![n] = [op |-> "ended", from |-> p]]
    /\ pending' = [pending EXCEPT ![n] = <<>>]
    /\ UNCHANGED <<accepting, appVars, disconnected>>

\* The RDMA connection manager answers for a peer that went away, and for a
\* request that the peer's broker dropped.
TransportAnswers(n) ==
    LET p == Peer(n) IN
    /\ pc[n] = "waiting"
    /\ answer[n] = "none"
    /\ pc[p] = "stopping" \/ ~ Listening(p)
    /\ ~ Queued(p, Ev("CONNECT_REQUEST", n))
    /\ brk[p] # [op |-> "request", from |-> n]
    /\ \E a \in {"REJECTED", "UNREACHABLE"} : Tell(n, a)
    /\ UNCHANGED <<cmVars, brokerVars, pc, phase, next, sent, disconnected>>

-----------------------------------------------------------------------------
Connect(n) ==
    \/ ConnectCall(n)
    \/ ConnectFound(n)
    \/ ConnectReturn(n)
    \/ ConnectLoopback(n)
    \/ ConnectSend(n)
    \/ ConnectFails(n)
    \/ ConnectEstablished(n)
    \/ ConnectEstablishedFails(n)
    \/ ConnectRejected(n)
    \/ ConnectUnexpected(n)

InitCm(n) ==
    \/ Start(n)
    \/ Connect(n)
    \/ NextPhase(n)
    \/ GetConnection(n)
    \/ GetConnectionReturn(n)
    \/ Send(n)
    \/ SendFails(n)
    \/ Deliver(n)
    \/ DeliverAborted(n)
    \/ CloseBegin(n)
    \/ BrokerStop(n)
    \/ \E p \in Node : Disconnect(n, p)
    \/ CloseEnd(n)
    \/ ProcessEnds(n)

Broker(n) ==
    \/ HandleRequest(n)
    \/ HandleDisconnect(n)
    \/ \E p \in Node : \/ OnConnectRequestIgnored(n, p)
                       \/ OnConnectRequestBusy(n, p)
                       \/ OnConnectRequest(n, p)
                       \/ OnDisconnect(n, p)

Transport(n) ==
    \/ TransportAnswers(n)
    \/ \E p \in Node : KernelDisconnects(n, p)

Finished(n) == (pc[n] = "idle" /\ phase[n] = "up") \/ pc[n] \in {"closed", "aborted"}

\* Everybody is done: the programs go on outside this module.
Terminated == (\A n \in Node : Finished(n)) /\ UNCHANGED vars

Next == \/ \E n \in Node : InitCm(n) \/ Broker(n) \/ Transport(n)
        \/ Terminated

Spec == Init /\ [][Next]_vars

\* Both threads of a node keep running and the transport answers eventually.
Fairness == \A n \in Node : /\ WF_vars(InitCm(n))
                            /\ WF_vars(Broker(n))
                            /\ WF_vars(TransportAnswers(n))
FairSpec == Spec /\ Fairness

-----------------------------------------------------------------------------
AppPc == {"start", "idle", "retry", "locked", "waiting", "returning",
          "getting", "using", "failed", "stopping", "disconnecting", "closed", "aborted"}

\* The type of every variable.
TypeOK ==
    /\ accepting \in [Node -> BOOLEAN]
    /\ mu \in [Node -> Node \cup {kUnlocked}]
    /\ established \in [Node -> [Node -> Node \cup {NoConn}]]
    /\ brk \in [Node -> Poll]
    /\ pending \in [Node -> Seq(Event)]
    /\ pc \in [Node -> AppPc]
    /\ phase \in [Node -> {"connect", "send", "deliver", "up"}]
    /\ next \in [Node -> Nat \ {0}]
    /\ answer \in [Node -> {"none", "ESTABLISHED", "REJECTED", "UNREACHABLE"}]
    /\ sent \in [Node -> SUBSET Node]
    /\ disconnected \in [Node -> SUBSET Node]

\* Inside a critical section of the application.
AppHoldsLock(n) == pc[n] \in {"locked", "waiting", "getting"}

\* mu_ does its job ("a mutex for protecting accesses to established_"): the
\* application inside Connect or GetConnection owns it in its own name, the
\* broker inside a callback owns it in the peer's name, hence never both.
LockExclusion ==
    \A n \in Node : /\ AppHoldsLock(n) => mu[n] = n
                    /\ BrokerInside(n) => mu[n] = brk[n].from /\ mu[n] # n

\* "A connection manager only maintains a single connection per node": when
\* the two ends of a pair have an entry for each other, both entries are the
\* same queue pair, although either end may have requested it.
AgreedConnection ==
    \A a, b \in Node :
        established[a][b] # NoConn /\ established[b][a] # NoConn
            => established[a][b] = established[b][a]

\* The connection a node requested and recorded is recorded by its peer too, so
\* a message sent on it finds a receiver.
NoHalfOpen ==
    \A a, b \in Node : established[a][b] = a => established[b][a] = a

\* The answer to a request is never a second connection: the "already connected"
\* path of Connect, which gives up the new queue pair, is dead code.
NoDuplicate ==
    \A n \in Node : pc[n] = "waiting" /\ answer[n] = "ESTABLISHED"
                     => established[n][Peer(n)] = NoConn

\* init_cm is a barrier: a node that has finished knows that every peer has made
\* all its connections.
InitBarrier ==
    \A n, p \in Node : phase[n] = "up" => phase[p] # "connect"

\* Connecting "avoid[s] distributed deadlock": a thread that waits for the
\* answer to its request with its lock held gets one, whatever the others do.
ConnectAnswered ==
    \A n \in Node : pc[n] = "waiting" ~> pc[n] # "waiting"

\* The lock comes back: whoever holds mu_, application or broker, gives it up,
\* unless a call of the application fails or the process ends.  A call that fails
\* behind Acquire keeps the lock ("Error: returns without releasing locks"), and
\* the destructor is not counted as its release.
LockReturned ==
    \A n \in Node :
        mu[n] # kUnlocked ~> mu[n] = kUnlocked \/ pc[n] \in {"failed", "aborted"}

\* OnDisconnect only takes away what its requester has given up: a node that is
\* not ending itself drops an accepted connection only when the requester's end
\* of it is gone, be it by the destructor, whose map still has the entry, or with
\* its process.
KeptWhileUsed ==
    [][\A n, p \in Node :
         n # p /\ established[n][p] = p /\ established'[n][p] # p
            => pc'[n] \in {"closed", "aborted"} \/ n \in disconnected[p]]_vars
=============================================================================
