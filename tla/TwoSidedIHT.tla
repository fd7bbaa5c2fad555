---------------------------- MODULE TwoSidedIHT ----------------------------
(***************************************************************************)
(* The hash table that is partitioned among nodes and reached by messages. *)
(*                                                                         *)
(* Every node holds the keys of its part in an iht_carumap of its own.     *)
(* An operation on a key of another node is a request over the connection  *)
(* receiver_map of that node, answered over its sender_map; a pool of      *)
(* threads per node serves the requests of all others in turn.  One mutex  *)
(* per peer lets one client thread at a time use the pair of connections,  *)
(* and another one serves the server threads.                              *)
(*                                                                         *)
(* A channel is reliable and ordered (FifoChannel) until a server thread   *)
(* takes an empty queue for a completion (Messenger); then its reader is   *)
(* ahead of its writer for good.  An operation on a node's table is atomic *)
(* (LocalIHT); a rehash makes pairs of the table invisible.                *)
(***************************************************************************)
EXTENDS Integers, Sequences, FiniteSets

CONSTANTS
    count,            \* number of nodes; their ids are 0 .. count - 1
    MAX_THREAD_POOL,
    ELIST_SIZE,       \* of a table: pairs per bucket before it is rehashed
    Thread,           \* client threads
    Home,             \* the node of a client thread
    keyspace_lb, keyspace_ub,
    Val, None,
    Nobody,           \* no owner of a mutex
    Calls,            \* the operations a client thread may ask for
    MaxOps,           \* bound: operations of every client thread
    MayRunAhead,      \* bound: connections on which a server may read too early
    OldRequests       \* bound: the requests that a slot may hold from before

Node == 0 .. count - 1
Key == keyspace_lb .. keyspace_ub
Request == [op : {"insert"}, key : Key, val : Val]
             \cup [op : {"get", "remove"}, key : Key, val : {None}]

ASSUME TwoSidedAssumption ==
    /\ count \in Nat \ {0, 1} /\ MAX_THREAD_POOL \in Nat \ {0}
    /\ ELIST_SIZE \in Nat \ {0}
    /\ Home \in [Thread -> 0 .. count - 1]
    /\ keyspace_lb \in Int /\ keyspace_ub \in Int /\ keyspace_lb < keyspace_ub
    /\ None \notin Val /\ \A t \in Thread : Calls[t] \subseteq Request
    /\ MaxOps \in [Thread -> Nat] /\ OldRequests \subseteq Request

PoolSize == IF count < MAX_THREAD_POOL THEN count ELSE MAX_THREAD_POOL
Server == Node \X (1 .. PoolSize)

ASSUME NobodyAssumption == Nobody \notin Thread \cup Server

VARIABLES
    table,              \* internal_data_: the value a node finds for every key
    deleted,            \* internal_data_ was deleted
    stop_listening,
    lock_table_client,  \* owners of the mutexes, by node and peer
    lock_table_server,
    requests,           \* what a node's clients have sent to a peer
    responses,          \* what a node's servers have sent to a peer
    pc, ops,            \* of a client thread: where it is, its operations
    req, got,           \* its operation, and what the operation returned
    spc, id,            \* of a server thread: where it is, the peer it looks at,
    taken, answer,      \* the request it serves and the response
    fatal,              \* why the program was aborted, "" when it was not
    ahead,              \* history: the connections <<from, to>> on which a request
                        \* was read that nobody had sent,
    lost,               \* whether a table has lost sight of a pair,
    dangling,           \* whether a deleted table was used,
    effect, old         \* whether an operation has taken effect, and the value
                        \* its key had then

tableVars == <<table, deleted, stop_listening>>
clientVars == <<pc, ops, req, got>>
serverVars == <<spc, id, taken, answer>>
mishaps == <<ahead, lost, dangling>>
history == <<effect, old>>
vars == <<tableVars, lock_table_client, lock_table_server, requests, responses,
          clientVars, serverVars, fatal, mishaps, history>>

NoRequest == [op |-> "get", key |-> keyspace_lb, val |-> None]
NoMessage == [from |-> Nobody, req |-> NoRequest]
NoAnswer == [to |-> Nobody, op |-> "ERR", val |-> None]
\* What a slot without a request in it parses to, and all that an old one may.
Unknown == [op |-> "unknown", key |-> keyspace_lb, val |-> None]
Old == OldRequests \cup {Unknown}

-----------------------------------------------------------------------------
keyspace_len == keyspace_ub - keyspace_lb

\* The upper bound is a key too, and would be that of one node too many.
to_id(key) ==
    LET n == (count * (key - keyspace_lb)) \div keyspace_len
    IN IF n = count THEN n - 1 ELSE n

\* The peers from i on in the for loop of node n.
PeersFrom(n, i) == {m \in Node : m >= i /\ m # n}
Least(S) == CHOOSE m \in S : \A o \in S : m <= o

Init ==
    /\ table = [n \in Node |-> [k \in Key |-> None]]
    /\ deleted = [n \in Node |-> FALSE]
    /\ stop_listening = [n \in Node |-> FALSE]
    /\ lock_table_client = [n \in Node |-> [m \in Node |-> Nobody]]
    /\ lock_table_server = [n \in Node |-> [m \in Node |-> Nobody]]
    /\ requests = [n \in Node |-> [m \in Node |-> <<>>]]
    /\ responses = [n \in Node |-> [m \in Node |-> <<>>]]
    /\ pc = [t \in Thread |-> "idle"]
    /\ ops = [t \in Thread |-> 0]
    /\ req = [t \in Thread |-> NoRequest]
    /\ got = [t \in Thread |-> None]
    /\ spc = [s \in Server |-> "lock"]
    /\ id = [s \in Server |-> Least(PeersFrom(s[1], 0))]
    /\ taken = [s \in Server |-> NoMessage]
    /\ answer = [s \in Server |-> NoAnswer]
    /\ fatal = "" /\ ahead = {} /\ lost = FALSE /\ dangling = FALSE
    /\ effect = [t \in Thread |-> "idle"]
    /\ old = [t \in Thread |-> None]

\* What get, insert and remove of iht_carumap do to a value.
NewValue(r, v) == CASE r.op = "get" -> v
                    [] r.op = "insert" -> IF v = None THEN r.val ELSE v
                    [] r.op = "remove" -> None

Running == fatal = ""

\* The operation r of a thread on the table of node n, which finds value v.
Perform(t, n, r, v) ==
    /\ table' = [table EXCEPT ![n][r.key] = NewValue(r, v)]
    /\ old' = [old EXCEPT ![t] = v]
    /\ effect' = [effect EXCEPT ![t] = "applied"]
    /\ UNCHANGED <<deleted, stop_listening, ahead, lost>>

Stored(n) == {k \in Key : table[n][k] # None}

\* On its way an insert rehashes a full bucket of node n's table, and the pairs
\* it puts where no search will look for them are as good as gone.  Bound: the
\* first such rehash only; nothing is claimed of the tables after it.
Rehash(n, r) ==
    /\ Running /\ ~deleted[n] /\ ~lost
    /\ r.op = "insert" /\ table[n][r.key] = None
    /\ Cardinality(Stored(n)) >= ELIST_SIZE
    /\ \E S \in SUBSET Stored(n) :
         /\ S # {} /\ Cardinality(S) <= ELIST_SIZE
         /\ table' = [table EXCEPT ![n] = [k \in Key |-> IF k \in S THEN None ELSE @[k]]]
    /\ lost' = TRUE
    /\ UNCHANGED <<deleted, stop_listening, lock_table_client, lock_table_server,
                   requests, responses, clientVars, serverVars, fatal, ahead,
                   dangling, history>>

-----------------------------------------------------------------------------
(* The client threads.                                                      *)

Target(t) == to_id(req[t].key)

\* get, insert or remove is called.
Call(t, r) ==
    /\ Running /\ pc[t] = "idle" /\ ops[t] < MaxOps[t]
    /\ effect[t] = "idle"
    /\ req' = [req EXCEPT ![t] = r]
    /\ ops' = [ops EXCEPT ![t] = @ + 1]
    /\ pc' = [pc EXCEPT ![t] = IF to_id(r.key) = Home[t] THEN "local" ELSE "lock"]
    /\ effect' = [effect EXCEPT ![t] = "called"]
    /\ UNCHANGED <<tableVars, lock_table_client, lock_table_server, requests,
                   responses, got, serverVars, fatal, mishaps, old>>

\* "don't use connections for self"
Local(t) ==
    /\ Running /\ pc[t] = "local"
    /\ Perform(t, Home[t], req[t], table[Home[t]][req[t].key])
    /\ got' = [got EXCEPT ![t] = table[Home[t]][req[t].key]]
    /\ pc' = [pc EXCEPT ![t] = "return"]
    /\ UNCHANGED <<lock_table_client, lock_table_server, requests, responses, ops,
                   req, serverVars, fatal, dangling>>

Lock(t) ==
    /\ Running /\ pc[t] = "lock"
    /\ lock_table_client[Home[t]][Target(t)] = Nobody
    /\ lock_table_client' = [lock_table_client EXCEPT ![Home[t]][Target(t)] = t]
    /\ pc' = [pc EXCEPT ![t] = "send"]
    /\ UNCHANGED <<tableVars, lock_table_server, requests, responses, ops, req, got,
                   serverVars, fatal, mishaps, history>>

\* The request goes out on receiver_map; who sends it is not part of it.
Send(t) ==
    /\ Running /\ pc[t] = "send"
    /\ requests' = [requests EXCEPT ![Home[t]][Target(t)] =
                      Append(@, [from |-> t, req |-> req[t]])]
    /\ pc' = [pc EXCEPT ![t] = "deliver"]
    /\ UNCHANGED <<tableVars, lock_table_client, lock_table_server, responses, ops,
                   req, got, serverVars, fatal, mishaps, history>>

\* Messages lie unread where one at a time is meant to: the peer may be out of
\* receives, and a send that runs out of retries aborts the program.
SendFails(t) ==
    /\ Running /\ pc[t] = "send"
    /\ requests[Home[t]][Target(t)] # <<>>
    /\ fatal' = "Operation failed"
    /\ UNCHANGED <<tableVars, lock_table_client, lock_table_server, requests,
                   responses, clientVars, serverVars, mishaps, history>>

\* The opcode of an answer other than ERR.
Expected(r) == CASE r.op = "get" -> "GET_RES" [] r.op = "insert" -> "INS_RES"
                 [] r.op = "remove" -> "RMV_RES"

\* What the caller makes of an answer.
Decode(r, m) == IF (m.op = "ERR") = (r.op = "insert") THEN m.val ELSE None

\* Mutant: the connection is not unlocked.
DeliverLocked(t) ==
    /\ Running /\ pc[t] = "deliver"
    /\ responses[Target(t)][Home[t]] # <<>>
    /\ responses' = [responses EXCEPT ![Target(t)][Home[t]] = Tail(@)]
    /\ got' = [got EXCEPT ![t] = Decode(req[t], Head(responses[Target(t)][Home[t]]))]
    /\ pc' = [pc EXCEPT ![t] = "return"]
    /\ UNCHANGED <<tableVars, lock_table_client, lock_table_server, requests, ops, req,
                   serverVars, fatal, mishaps, history>>

\* The answer is taken from sender_map and the connection unlocked.
Deliver(t) ==
    LET m == Head(responses[Target(t)][Home[t]])
    IN /\ Running /\ pc[t] = "deliver"
       /\ responses[Target(t)][Home[t]] # <<>>
       /\ responses' = [responses EXCEPT ![Target(t)][Home[t]] = Tail(@)]
       /\ lock_table_client' = [lock_table_client EXCEPT ![Home[t]][Target(t)] = Nobody]
       /\ got' = [got EXCEPT ![t] = Decode(req[t], m)]
       /\ pc' = [pc EXCEPT ![t] = "return"]
       /\ fatal' = IF m.op \in {"ERR", Expected(req[t])} THEN ""
                   ELSE "Response has unexpected opcode"
       /\ UNCHANGED <<tableVars, lock_table_server, requests, ops, req, serverVars,
                      mishaps, history>>

Return(t) ==
    /\ Running /\ pc[t] = "return"
    /\ pc' = [pc EXCEPT ![t] = "idle"]
    /\ effect' = [effect EXCEPT ![t] = "idle"]
    /\ UNCHANGED <<tableVars, lock_table_client, lock_table_server, requests,
                   responses, ops, req, got, serverVars, fatal, mishaps, old>>

-----------------------------------------------------------------------------
(* The server threads.                                                      *)

\* The next round of the for loop.  stop_listening is looked at between two
\* sweeps over the peers only.
Advance(s) ==
    LET rest == PeersFrom(s[1], id[s] + 1)
        next == IF rest = {} THEN PeersFrom(s[1], 0) ELSE rest
    IN /\ spc' = [spc EXCEPT ![s] =
                    IF rest = {} /\ stop_listening[s[1]] THEN "joined" ELSE "lock"]
       /\ id' = [id EXCEPT ![s] = Least(next)]

Unlock(s) == lock_table_server' = [lock_table_server EXCEPT ![s[1]][id[s]] = Nobody]

\* Mutant: the connection is not locked.
ServerLockNothing(s) ==
    /\ Running /\ spc[s] = "lock"
    /\ spc' = [spc EXCEPT ![s] = "poll"]
    /\ UNCHANGED <<tableVars, lock_table_client, lock_table_server, requests,
                   responses, clientVars, id, taken, answer, fatal, mishaps, history>>

ServerLock(s) ==
    /\ Running /\ spc[s] = "lock"
    /\ lock_table_server[s[1]][id[s]] = Nobody
    /\ lock_table_server' = [lock_table_server EXCEPT ![s[1]][id[s]] = s]
    /\ spc' = [spc EXCEPT ![s] = "poll"]
    /\ UNCHANGED <<tableVars, lock_table_client, requests, responses, clientVars,
                   id, taken, answer, fatal, mishaps, history>>

\* TryReceive on an empty queue, when the wc that nobody wrote does not say SUCCESS.
PollNothing(s) ==
    /\ Running /\ spc[s] = "poll"
    /\ requests[id[s]][s[1]] = <<>>
    /\ Unlock(s)
    /\ Advance(s)
    /\ UNCHANGED <<tableVars, lock_table_client, requests, responses, clientVars,
                   taken, answer, fatal, mishaps, history>>

\* TryReceive on an empty queue, when the wc says SUCCESS: the server thread reads
\* a slot that holds an old request, or none, and moves on to the next slot.
\* Bound: once on each connection of MayRunAhead.
PollUnwritten(s) ==
    /\ Running /\ spc[s] = "poll"
    /\ requests[id[s]][s[1]] = <<>>
    /\ <<id[s], s[1]>> \in MayRunAhead \ ahead
    /\ ahead' = ahead \cup {<<id[s], s[1]>>}
    /\ \E r \in Old :
         taken' = [taken EXCEPT ![s] = [from |-> Nobody, req |-> r]]
    /\ spc' = [spc EXCEPT ![s] = "do"]
    /\ UNCHANGED <<tableVars, lock_table_client, lock_table_server, requests,
                   responses, clientVars, id, answer, fatal, lost, dangling, history>>

\* Mutant: the request stays where it is.
PollRequestKept(s) ==
    /\ Running /\ spc[s] = "poll"
    /\ requests[id[s]][s[1]] # <<>>
    /\ taken' = [taken EXCEPT ![s] = Head(requests[id[s]][s[1]])]
    /\ spc' = [spc EXCEPT ![s] = "do"]
    /\ UNCHANGED <<tableVars, lock_table_client, lock_table_server, requests, responses,
                   clientVars, id, answer, fatal, mishaps, history>>

\* What the slot holds that is read when m has arrived: m, or what was there
\* before when the reader is ahead.
InSlot(s, m) == IF <<id[s], s[1]>> \in ahead
                THEN [from : {m.from}, req : Old] ELSE {m}

PollRequest(s) ==
    /\ Running /\ spc[s] = "poll"
    /\ requests[id[s]][s[1]] # <<>>
    /\ \E m \in InSlot(s, Head(requests[id[s]][s[1]])) : taken' = [taken EXCEPT ![s] = m]
    /\ requests' = [requests EXCEPT ![id[s]][s[1]] = Tail(@)]
    /\ spc' = [spc EXCEPT ![s] = "do"]
    /\ UNCHANGED <<tableVars, lock_table_client, lock_table_server, responses,
                   clientVars, id, answer, fatal, mishaps, history>>

\* Mutant: the value that was asked for goes back when there is another one.
RespondAsked(r, v) ==
    IF r.op = "insert" THEN {[op |-> IF v = None THEN "INS_RES" ELSE "ERR", val |-> r.val]}
    ELSE {[op |-> IF v = None THEN "ERR" ELSE Expected(r), val |-> v]}

\* The responses to r when the key has value v.  Without a value, get and remove
\* send what their uninitialized variable holds.
Respond(r, v) ==
    CASE r.op = "insert" /\ v = None -> {[op |-> "INS_RES", val |-> r.val]}
      [] r.op = "insert" /\ v # None -> {[op |-> "ERR", val |-> v]}
      [] r.op # "insert" /\ v = None -> {[op |-> "ERR", val |-> x] : x \in Val}
      [] r.op # "insert" /\ v # None -> {[op |-> Expected(r), val |-> v]}

\* What the memory of a table may say of a key, deleted as it may be.
Finds(n, k) == IF deleted[n] THEN Val \cup {None} ELSE {table[n][k]}

Do(s) ==
    LET t == taken[s].from
        r == taken[s].req
    IN /\ Running /\ spc[s] = "do" /\ r # Unknown
       /\ \E v \in Finds(s[1], r.key) :
            /\ Perform(t, s[1], r, v)
            /\ \E m \in Respond(r, v) :
                 answer' = [answer EXCEPT ![s] = [to |-> t, op |-> m.op, val |-> m.val]]
       /\ dangling' = (dangling \/ deleted[s[1]])
       /\ taken' = [taken EXCEPT ![s] = NoMessage]
       /\ spc' = [spc EXCEPT ![s] = "respond"]
       /\ UNCHANGED <<lock_table_client, lock_table_server, requests, responses,
                      clientVars, id, fatal>>

\* The memory of a deleted table holds no root to start from.
DoCrashes(s) ==
    /\ Running /\ spc[s] = "do" /\ taken[s].req # Unknown
    /\ deleted[s[1]]
    /\ fatal' = "table deleted"
    /\ dangling' = TRUE
    /\ UNCHANGED <<tableVars, lock_table_client, lock_table_server, requests,
                   responses, clientVars, serverVars, ahead, lost, history>>

\* "Request has unexpected opcode": the response has none, and is sent.
DoUnknown(s) ==
    /\ Running /\ spc[s] = "do" /\ taken[s].req = Unknown
    /\ answer' = [answer EXCEPT ![s] = [to |-> taken[s].from, op |-> "none", val |-> None]]
    /\ taken' = [taken EXCEPT ![s] = NoMessage]
    /\ spc' = [spc EXCEPT ![s] = "respond"]
    /\ UNCHANGED <<tableVars, lock_table_client, lock_table_server, requests,
                   responses, clientVars, id, fatal, mishaps, history>>

\* The response goes out on sender_map, and the connection is unlocked.
SendResponse(s) ==
    /\ Running /\ spc[s] = "respond"
    /\ responses' = [responses EXCEPT ![s[1]][id[s]] = Append(@, answer[s])]
    /\ answer' = [answer EXCEPT ![s] = NoAnswer]
    /\ Unlock(s)
    /\ Advance(s)
    /\ UNCHANGED <<tableVars, lock_table_client, requests, clientVars, taken, fatal,
                   mishaps, history>>

\* As SendFails, for a response.
SendResponseFails(s) ==
    /\ Running /\ spc[s] = "respond"
    /\ responses[s[1]][id[s]] # <<>>
    /\ fatal' = "Operation failed"
    /\ Unlock(s)
    /\ Advance(s)
    /\ UNCHANGED <<tableVars, lock_table_client, requests, responses, clientVars,
                   taken, answer, mishaps, history>>

-----------------------------------------------------------------------------
ClientsDone(n) == \A t \in Thread : Home[t] = n => pc[t] = "idle" /\ ops[t] = MaxOps[t]

\* The destructor, up to the join: the table goes before the threads do.  The
\* node's own threads are done with it; those of the others may well not be.
Destroy(n) ==
    /\ Running /\ ClientsDone(n) /\ ~stop_listening[n]
    /\ stop_listening' = [stop_listening EXCEPT ![n] = TRUE]
    /\ deleted' = [deleted EXCEPT ![n] = TRUE]
    /\ UNCHANGED <<table, lock_table_client, lock_table_server, requests, responses,
                   clientVars, serverVars, fatal, mishaps, history>>

Client(t) == Local(t) \/ Lock(t) \/ Send(t) \/ Deliver(t) \/ Return(t)
Serve(s) == ServerLock(s) \/ PollNothing(s) \/ PollRequest(s) \/ Do(s) \/ DoUnknown(s)
              \/ SendResponse(s)

\* A thread may lose sight of pairs while it inserts one.
Insert == \/ \E t \in Thread : pc[t] = "local" /\ Rehash(Home[t], req[t])
          \/ \E s \in Server : spc[s] = "do" /\ Rehash(s[1], taken[s].req)

\* Nothing is left to do: the program was aborted, or all servers have joined.
Ended == /\ \/ fatal # ""
            \/ \A s \in Server : spc[s] = "joined"
         /\ UNCHANGED vars

Next ==
    \/ \E t \in Thread : Client(t) \/ SendFails(t) \/ \E r \in Calls[t] : Call(t, r)
    \/ \E s \in Server : Serve(s) \/ PollUnwritten(s) \/ DoCrashes(s)
                           \/ SendResponseFails(s)
    \/ Insert
    \/ \E n \in Node : Destroy(n)
    \/ Ended

Spec == Init /\ [][Next]_vars

\* Threads inside an operation and server threads run.
FairSpec == /\ Spec
            /\ \A t \in Thread : WF_vars(Client(t))
            /\ \A s \in Server : WF_vars(Serve(s))

-----------------------------------------------------------------------------
(* Properties.                                                              *)

Owner == Thread \cup Server \cup {Nobody}

\* All tables are in use by their owners only, and all answers asked for.  A lost
\* pair is a matter of the tables alone.
Orderly == ahead = {} /\ ~dangling

TypeOK ==
    /\ table \in [Node -> [Key -> Val \cup {None}]]
    /\ deleted \in [Node -> BOOLEAN] /\ stop_listening \in [Node -> BOOLEAN]
    /\ lock_table_client \in [Node -> [Node -> Owner]]
    /\ lock_table_server \in [Node -> [Node -> Owner]]
    /\ pc \in [Thread -> {"idle", "local", "lock", "send", "deliver", "return"}]
    /\ req \in [Thread -> Request]
    /\ got \in [Thread -> Val \cup {None}] /\ old \in [Thread -> Val \cup {None}]
    /\ spc \in [Server -> {"lock", "poll", "do", "respond", "joined"}]
    /\ id \in [Server -> Node]
    /\ \A n, m \in Node : DOMAIN requests[n] = Node /\ Len(requests[n][m]) <= 1

\* No ROME_ASSERT on an answer fails and every thread gets the answer to its own
\* request: what an operation returns is the value its key had when the
\* operation took effect at the node that holds the key, as long as no server
\* thread has taken an empty queue for a request or used a deleted table.
OwnAnswer ==
    Orderly =>
      /\ fatal = ""
      /\ \A t \in Thread : pc[t] = "return" =>
           effect[t] = "applied" /\ got[t] = old[t]

\* "separate lines of communication and no overlapping in reading the queue":
\* each end of each connection is used by one sender and one receiver at a
\* time, which is all that a TwoSidedRdmaMessenger is made for.
SendsRequest(n, m) == {t \in Thread : Home[t] = n /\ pc[t] = "send" /\ Target(t) = m}
TakesAnswer(n, m) == {t \in Thread : Home[t] = n /\ pc[t] = "deliver" /\ Target(t) = m}
Reads(n, m) == {s \in Server : s[1] = n /\ spc[s] = "poll" /\ id[s] = m}
Answers(n, m) == {s \in Server : s[1] = n /\ spc[s] = "respond" /\ id[s] = m}
AtMostOne(S) == \A x, y \in S : x = y
NoOverlap ==
    \A n, m \in Node : /\ AtMostOne(SendsRequest(n, m)) /\ AtMostOne(TakesAnswer(n, m))
                       /\ AtMostOne(Reads(n, m)) /\ AtMostOne(Answers(n, m))

\* A key is stored at the node that to_id names and nowhere else, the upper bound
\* included, and every key is some node's.
Partitioned ==
    \A k \in Key : /\ to_id(k) \in Node
                   /\ \A n \in Node : table[n][k] # None => n = to_id(k)

\* Connections and tables are used by whom they are meant for: one thread per end
\* of a connection, whatever goes wrong, and one node per key as long as the
\* servers are Orderly.
UseOK == NoOverlap /\ (Orderly => TypeOK /\ Partitioned)

\* Together the tables are one atomic map, whichever node an operation starts on,
\* until one of them loses sight of a pair, a server thread takes an empty queue
\* for a request or a deleted table is used.
Content == [k \in Key |-> table[to_id(k)][k]]
Map == INSTANCE KeyValueMap WITH
         content <- Content, status <- effect, request <- req, ret <- old
ImplementsMap ==
    /\ Map!Init
    /\ [][(~ Orderly)' \/ lost' \/ Map!Next]_<<Content, effect, req, old>>

\* Every call returns, but one to a node whose table is destroyed meanwhile.
CallsReturn == \A t \in Thread :
    pc[t] # "idle" ~> pc[t] = "idle" \/ deleted[Target(t)] \/ ~ Orderly

\* Every server thread of a table that is destroyed ends, so that the destructor,
\* which joins them, does.
DestructorReturns ==
    \A n \in Node :
      deleted[n] ~> (\A s \in Server : s[1] = n => spc[s] = "joined") \/ ~ Orderly

\* Nobody waits for ever: not for an answer, a mutex, or a thread to join, while
\* the servers are Orderly.
EverythingReturns == CallsReturn /\ DestructorReturns
=============================================================================
