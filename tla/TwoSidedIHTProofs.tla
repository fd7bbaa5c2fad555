------------------------- MODULE TwoSidedIHTProofs -------------------------
(***************************************************************************)
(* Theorems about TwoSidedIHT, for any number of nodes, of threads and of  *)
(* server threads per node, and any key space.                             *)
(*                                                                         *)
(* The thread that holds the mutex of a pair of connections is the only    *)
(* one something on the pair can be about: its request, the request a      *)
(* server thread works on, the answer of that thread, or the answer on its *)
(* way back.  Whether the operation has taken effect tells the first two   *)
(* from the last two.  This holds while the servers are Orderly; that the  *)
(* mutexes exclude is proved apart, for what goes wrong as well.           *)
(***************************************************************************)
EXTENDS TwoSidedIHT, TLAPS, SequenceTheorems, NaturalsInduction,
        WellFoundedInduction

Message == [from : Thread, req : Request]
Answer == [to : Thread, op : {"ERR", "GET_RES", "INS_RES", "RMV_RES"},
           val : Val \cup {None}]

Types ==
    /\ table \in [Node -> [Key -> Val \cup {None}]]
    /\ deleted \in [Node -> BOOLEAN] /\ stop_listening \in [Node -> BOOLEAN]
    /\ lock_table_client \in [Node -> [Node -> Owner]]
    /\ lock_table_server \in [Node -> [Node -> Owner]]
    /\ requests \in [Node -> [Node -> Seq(Message)]]
    /\ responses \in [Node -> [Node -> Seq(Answer)]]
    /\ pc \in [Thread -> {"idle", "local", "lock", "send", "deliver", "return"}]
    /\ ops \in [Thread -> Nat]
    /\ req \in [Thread -> Request]
    /\ got \in [Thread -> Val \cup {None}] /\ old \in [Thread -> Val \cup {None}]
    /\ effect \in [Thread -> {"idle", "called", "applied"}]
    /\ spc \in [Server -> {"lock", "poll", "do", "respond", "joined"}]
    /\ id \in [Server -> Node]
    /\ taken \in [Server -> Message \cup {NoMessage}]
    /\ answer \in [Server -> Answer \cup {NoAnswer}]

\* A mutex belongs to the thread that is behind it.
ClientLocks == \A t \in Thread : pc[t] \in {"send", "deliver"} =>
                  lock_table_client[Home[t]][Target(t)] = t
ServerLocks == \A s \in Server : spc[s] \in {"poll", "do", "respond"} =>
                  lock_table_server[s[1]][id[s]] = s

\* Where a thread is tells how far its operation is, but while it waits for an answer.
Progress == \A t \in Thread :
    /\ pc[t] = "idle" <=> effect[t] = "idle"
    /\ pc[t] \in {"local", "lock", "send"} => effect[t] = "called"
    /\ pc[t] = "local" => Target(t) = Home[t]
    /\ pc[t] = "return" => effect[t] = "applied" /\ got[t] = old[t]

\* Thread t waits for an answer on the pair of connections of n to m.
WaitsOn(t, n, m) == t \in Thread /\ pc[t] = "deliver" /\ Home[t] = n /\ Target(t) = m

\* What is asked is the operation of a thread that waits, and not yet done.
Asks(x, n, m) == /\ WaitsOn(x.from, n, m)
                 /\ x.req = req[x.from] /\ effect[x.from] = "called"

\* An answer tells a thread that waits what its key's value was.
Replies(a, n, m) == /\ WaitsOn(a.to, n, m) /\ effect[a.to] = "applied"
                    /\ \E z \in Respond(req[a.to], old[a.to]) : a.op = z.op /\ a.val = z.val

Requests == \A n, m \in Node : requests[n][m] # <<>> =>
               Len(requests[n][m]) = 1 /\ Asks(Head(requests[n][m]), n, m)
Responses == \A n, m \in Node : responses[m][n] # <<>> =>
                Len(responses[m][n]) = 1 /\ Replies(Head(responses[m][n]), n, m)
Serving == \A s \in Server :
    /\ spc[s] = "do" => Asks(taken[s], id[s], s[1]) /\ requests[id[s]][s[1]] = <<>>
    /\ spc[s] = "respond" =>
         Replies(answer[s], id[s], s[1]) /\ responses[s[1]][id[s]] = <<>>

InPart == \A n \in Node, k \in Key : table[n][k] # None => n = to_id(k)

Channels == Requests /\ Responses /\ Serving
Locks == ClientLocks /\ ServerLocks
Harmless == fatal = "" /\ ahead = {} /\ ~dangling

IInv == Types /\ Locks /\ Progress /\ Channels /\ InPart /\ Harmless

-----------------------------------------------------------------------------
\* The quotient of a number that is at most c * y.
LEMMA Quotient ==
    ASSUME NEW c \in Nat, NEW y \in Nat \ {0}, NEW d \in 0 .. y
    PROVE  (c * d) \div y \in 0 .. c
<1> DEFINE q == (c * d) \div y
<1>1. c * d \in Nat /\ c * d <= c * y
  OBVIOUS
<1>2. q \in Int /\ q * y <= c * d /\ c * d < q * y + y
  BY <1>1
<1>3. q >= 0
  <2>1. CASE q >= 0
    BY <2>1
  <2>2. CASE q <= -1
    <3>1. q * y <= (-1) * y
      BY <1>2, <2>2
    <3>2. QED
      BY <1>1, <1>2, <3>1
  <2>3. QED
    BY <1>2, <2>1, <2>2
<1>4. q <= c
  <2>1. CASE q <= c
    BY <2>1
  <2>2. CASE q >= c + 1
    <3>1. q * y >= (c + 1) * y
      BY <1>2, <2>2
    <3>2. (c + 1) * y = c * y + y
      OBVIOUS
    <3>3. QED
      BY <1>1, <1>2, <3>1, <3>2
  <2>3. QED
    BY <1>2, <2>1, <2>2
<1>5. QED
  BY <1>2, <1>3, <1>4

\* Every key belongs to a node, the upper bound of the key space included.
LEMMA EveryKeyHasANode == \A k \in Key : to_id(k) \in Node
<1> SUFFICES ASSUME NEW k \in Key
             PROVE  to_id(k) \in Node
  OBVIOUS
<1>1. count \in Nat \ {0, 1} /\ keyspace_len \in Nat \ {0}
      /\ k - keyspace_lb \in 0 .. keyspace_len
  BY TwoSidedAssumption DEF TwoSidedAssumption, Key, keyspace_len
<1>2. (count * (k - keyspace_lb)) \div keyspace_len \in 0 .. count
  BY <1>1, Quotient
<1>3. QED
  BY <1>1, <1>2 DEF to_id, Node

\* A set of numbers has a least element.
LEMMA LeastOne == ASSUME NEW S \in SUBSET Nat, S # {}
                  PROVE  Least(S) \in S
<1>1. PICK m \in S : \A o \in S : ~ (<<o, m>> \in OpToRel(<, Nat))
  BY WFMin, NatLessThanWellFounded
<1>2. \A o \in S : ~ (o < m)
  BY <1>1, Zenon DEF OpToRel
<1>3. \A o \in S : m <= o
  BY <1>2
<1>4. QED
  BY <1>3 DEF Least

\* There is a peer to look at.
LEMMA NextPeer ==
    ASSUME NEW n \in Node, NEW i \in Nat
    PROVE  /\ Least(PeersFrom(n, 0)) \in Node
           /\ PeersFrom(n, i) # {} => Least(PeersFrom(n, i)) \in Node
<1>1. count \in Nat \ {0, 1}
  BY TwoSidedAssumption DEF TwoSidedAssumption
<1>2. \A j \in Nat : PeersFrom(n, j) \in SUBSET Nat /\ PeersFrom(n, j) \subseteq Node
  BY <1>1 DEF PeersFrom, Node
<1>3. PeersFrom(n, 0) # {}
  <2>1. CASE n = 0
    BY <2>1, <1>1 DEF PeersFrom, Node
  <2>2. CASE n # 0
    <3>1. 0 \in Node
      BY <1>1 DEF Node
    <3>2. QED
      BY <2>2, <3>1 DEF PeersFrom, Node
  <2>3. QED
    BY <2>1, <2>2
<1>4. Least(PeersFrom(n, 0)) \in PeersFrom(n, 0)
  BY <1>2, <1>3, LeastOne
<1>5. PeersFrom(n, i) # {} => Least(PeersFrom(n, i)) \in PeersFrom(n, i)
  BY <1>2, LeastOne
<1>6. QED
  BY <1>2, <1>4, <1>5

\* What the caller makes of an answer is the value the key had, and the opcode of
\* the answer is one it accepts.
LEMMA AnswerDecoded ==
    ASSUME NEW r \in Request, NEW v \in Val \cup {None}, NEW a,
           \E z \in Respond(r, v) : a.op = z.op /\ a.val = z.val
    PROVE  a.op \in {"ERR", Expected(r)} /\ Decode(r, a) = v
<1>1. r.op \in {"insert", "get", "remove"} /\ (r.op = "insert" => r.val \in Val)
  BY DEF Request
<1>2. None \notin Val
  BY TwoSidedAssumption DEF TwoSidedAssumption
<1>3. PICK z \in Respond(r, v) : a.op = z.op /\ a.val = z.val
  OBVIOUS
<1>4. CASE r.op = "insert" /\ v = None
  BY <1>1, <1>2, <1>3, <1>4 DEF Respond, Expected, Decode
<1>5. CASE r.op = "insert" /\ v # None
  BY <1>1, <1>2, <1>3, <1>5 DEF Respond, Expected, Decode
<1>6. CASE r.op # "insert" /\ v = None
  BY <1>1, <1>2, <1>3, <1>6 DEF Respond, Expected, Decode
<1>7. CASE r.op # "insert" /\ v # None
  BY <1>1, <1>2, <1>3, <1>7 DEF Respond, Expected, Decode
<1>8. QED
  BY <1>4, <1>5, <1>6, <1>7

LEMMA RespondType ==
    ASSUME NEW r \in Request, NEW v \in Val \cup {None}, NEW z \in Respond(r, v)
    PROVE  z.op \in {"ERR", "GET_RES", "INS_RES", "RMV_RES"} /\ z.val \in Val
<1>1. r.op \in {"insert", "get", "remove"} /\ (r.op = "insert" => r.val \in Val)
  BY DEF Request
<1>2. Expected(r) \in {"GET_RES", "INS_RES", "RMV_RES"}
  BY <1>1 DEF Expected
<1>4. CASE r.op = "insert" /\ v = None
  BY <1>1, <1>4 DEF Respond
<1>5. CASE r.op = "insert" /\ v # None
  BY <1>1, <1>5 DEF Respond
<1>6. CASE r.op # "insert" /\ v = None
  BY <1>1, <1>6 DEF Respond
<1>7. CASE r.op # "insert" /\ v # None
  BY <1>1, <1>2, <1>7 DEF Respond
<1>8. QED
  BY <1>4, <1>5, <1>6, <1>7

\* A message on an empty channel.
LEMMA OneMessage ==
    ASSUME NEW S, NEW x \in S
    PROVE  /\ Append(<<>>, x) \in Seq(S) /\ Append(<<>>, x) # <<>>
           /\ Len(Append(<<>>, x)) = 1 /\ Head(Append(<<>>, x)) = x
<1>1. Append(<<>>, x) \in Seq(S) /\ Len(Append(<<>>, x)) = 1
      /\ Head(Append(<<>>, x)) = x
  OBVIOUS
<1>2. QED
  BY <1>1

\* The last message of a channel is taken.
LEMMA LastMessage ==
    ASSUME NEW S, NEW q \in Seq(S), Len(q) = 1
    PROVE  Tail(q) = <<>> /\ Head(q) \in S
<1>1. q # <<>>
  OBVIOUS
<1>2. Tail(q) \in Seq(S) /\ Len(Tail(q)) = 0 /\ Head(q) \in S
  BY <1>1, HeadTailProperties
<1>3. QED
  BY <1>2, EmptySeq

LEMMA ConstantTypes ==
    /\ \A t \in Thread : Home[t] \in Node
    /\ \A r \in Request : r.key \in Key
    /\ \A s \in Server : s[1] \in Node
    /\ NoRequest \in Request
<1>1. \A t \in Thread : Home[t] \in Node
  BY TwoSidedAssumption DEF TwoSidedAssumption, Node
<1>2. \A r \in Request : r.key \in Key
  BY DEF Request
<1>3. \A s \in Server : s[1] \in Node
  BY DEF Server
<1>4. NoRequest \in Request
  BY TwoSidedAssumption DEF TwoSidedAssumption, NoRequest, Request, Key
<1>5. QED
  BY <1>1, <1>2, <1>3, <1>4

LEMMA TargetType == ASSUME Types
                    PROVE  \A t \in Thread : Target(t) \in Node
  BY ConstantTypes, EveryKeyHasANode DEF Types, Target

-----------------------------------------------------------------------------
LEMMA InitInv == Init => IInv
<1> SUFFICES ASSUME Init
             PROVE  IInv
  OBVIOUS
<1>1. Types
  <2>1. \A s \in Server : Least(PeersFrom(s[1], 0)) \in Node
    BY ConstantTypes, NextPeer
  <2>2. table \in [Node -> [Key -> Val \cup {None}]]
        /\ deleted \in [Node -> BOOLEAN] /\ stop_listening \in [Node -> BOOLEAN]
    BY DEF Init
  <2>3. lock_table_client \in [Node -> [Node -> Owner]]
        /\ lock_table_server \in [Node -> [Node -> Owner]]
    BY DEF Init, Owner
  <2>4. requests \in [Node -> [Node -> Seq(Message)]]
        /\ responses \in [Node -> [Node -> Seq(Answer)]]
    <3>1. <<>> \in Seq(Message) /\ <<>> \in Seq(Answer)
      OBVIOUS
    <3>2. QED
      BY <3>1 DEF Init
  <2>5. QED
    BY <2>1, <2>2, <2>3, <2>4, ConstantTypes DEF Init, Types
<1>2. Locks
  BY DEF Init, Locks, ClientLocks, ServerLocks
<1>3. Progress
  BY DEF Init, Progress
<1>4. Channels
  BY DEF Init, Channels, Requests, Responses, Serving
<1>5. InPart /\ Harmless
  BY DEF Init, InPart, Harmless
<1>6. QED
  BY <1>1, <1>2, <1>3, <1>4, <1>5 DEF IInv

-----------------------------------------------------------------------------
\* One client thread at a time is behind the mutex of a pair of connections, and
\* one server thread.
LEMMA OneClient ==
    ASSUME ClientLocks, NEW t \in Thread, NEW u \in Thread,
           pc[t] \in {"send", "deliver"}, pc[u] \in {"send", "deliver"},
           Home[t] = Home[u], Target(t) = Target(u)
    PROVE  t = u
  BY DEF ClientLocks

LEMMA OneServer ==
    ASSUME ServerLocks, NEW s \in Server, NEW u \in Server,
           spc[s] \in {"poll", "do", "respond"}, spc[u] \in {"poll", "do", "respond"},
           s[1] = u[1], id[s] = id[u]
    PROVE  s = u
  BY DEF ServerLocks

\* What another thread does leaves a request and an answer what they are.
LEMMA AsksStill ==
    ASSUME NEW x, NEW n, NEW m, Asks(x, n, m),
           pc'[x.from] = pc[x.from], req'[x.from] = req[x.from],
           effect'[x.from] = effect[x.from]
    PROVE  Asks(x, n, m)'
  BY DEF Asks, WaitsOn, Target

LEMMA RepliesStill ==
    ASSUME NEW a, NEW n, NEW m, Replies(a, n, m),
           pc'[a.to] = pc[a.to], req'[a.to] = req[a.to],
           effect'[a.to] = effect[a.to], old'[a.to] = old[a.to]
    PROVE  Replies(a, n, m)'
  BY DEF Replies, WaitsOn, Target

\* Thread t is the only one that moved.
Others(t) == \A u \in Thread \ {t} :
    pc'[u] = pc[u] /\ req'[u] = req[u] /\ effect'[u] = effect[u] /\ old'[u] = old[u]

LEMMA AsksOthers ==
    ASSUME NEW t, Others(t), NEW x, NEW n, NEW m, Asks(x, n, m), x.from # t
    PROVE  Asks(x, n, m)'
<1>1. x.from \in Thread \ {t}
  BY DEF Asks, WaitsOn
<1>2. QED
  BY <1>1, AsksStill DEF Others

LEMMA RepliesOthers ==
    ASSUME NEW t, Others(t), NEW a, NEW n, NEW m, Replies(a, n, m), a.to # t
    PROVE  Replies(a, n, m)'
<1>1. a.to \in Thread \ {t}
  BY DEF Replies, WaitsOn
<1>2. QED
  BY <1>1, RepliesStill DEF Others

\* A thread that does not wait for an answer is not what anything is about.
LEMMA NotAbout ==
    ASSUME NEW t, pc[t] # "deliver"
    PROVE  /\ \A x, n, m : Asks(x, n, m) => x.from # t
           /\ \A a, n, m : Replies(a, n, m) => a.to # t
  BY DEF Asks, Replies, WaitsOn

\* Steps of a client thread that leave the channels alone.
LEMMA ChannelsKept ==
    ASSUME Channels, NEW t, pc[t] # "deliver", Others(t),
           UNCHANGED <<requests, responses, serverVars>>
    PROVE  Channels'
<1>1. requests' = requests /\ responses' = responses /\ spc' = spc /\ id' = id
      /\ taken' = taken /\ answer' = answer
  BY DEF serverVars
<1>2. \A x, n, m : Asks(x, n, m) => Asks(x, n, m)'
  BY NotAbout, AsksOthers
<1>3. \A a, n, m : Replies(a, n, m) => Replies(a, n, m)'
  BY NotAbout, RepliesOthers
<1>4. Requests'
  BY <1>1, <1>2 DEF Channels, Requests
<1>5. Responses'
  BY <1>1, <1>3 DEF Channels, Responses
<1>6. Serving'
  <2> SUFFICES ASSUME NEW s \in Server
               PROVE  /\ spc[s] = "do" => Asks(taken[s], id[s], s[1])'
                                          /\ requests[id[s]][s[1]] = <<>>
                      /\ spc[s] = "respond" => Replies(answer[s], id[s], s[1])'
                                               /\ responses[s[1]][id[s]] = <<>>
    BY <1>1 DEF Serving
  <2>1. ASSUME spc[s] = "do" PROVE Asks(taken[s], id[s], s[1])'
    <3>1. Asks(taken[s], id[s], s[1])
      BY <2>1 DEF Channels, Serving
    <3> DEFINE x == taken[s]  n == id[s]
    <3>2. x' = x /\ n' = n
      BY <1>1
    <3>3. x.from # t
      BY <3>1, NotAbout
    <3>4. x.from \in Thread \ {t}
      BY <3>1, <3>3 DEF Asks, WaitsOn
    <3>5. QED
      BY <3>1, <3>2, <3>4 DEF Others, Asks, WaitsOn, Target
  <2>2. ASSUME spc[s] = "respond" PROVE Replies(answer[s], id[s], s[1])'
    <3>1. Replies(answer[s], id[s], s[1])
      BY <2>2 DEF Channels, Serving
    <3> DEFINE a == answer[s]  n == id[s]
    <3>2. a' = a /\ n' = n
      BY <1>1
    <3>3. a.to \in Thread \ {t}
      BY <3>1, NotAbout DEF Replies, WaitsOn
    <3>5. QED
      BY <3>1, <3>2, <3>3 DEF Others, Replies, WaitsOn, Target
  <2>3. QED
    BY <2>1, <2>2 DEF Channels, Serving
<1>7. QED
  BY <1>4, <1>5, <1>6 DEF Channels

\* An operation on the table of the node that its key belongs to.
LEMMA PerformInv ==
    ASSUME IInv, NEW t \in Thread, NEW n \in Node, Target(t) = n,
           Perform(t, n, req[t], table[n][req[t].key])
    PROVE  /\ table' \in [Node -> [Key -> Val \cup {None}]]
           /\ old' = [old EXCEPT ![t] = table[n][req[t].key]]
           /\ table[n][req[t].key] \in Val \cup {None}
           /\ effect' = [effect EXCEPT ![t] = "applied"]
           /\ deleted' = deleted /\ stop_listening' = stop_listening
           /\ ahead' = {} /\ InPart'
<1> DEFINE r == req[t]
<1>1. r \in Request /\ r.key \in Key
  BY ConstantTypes DEF IInv, Types
<1>2. table \in [Node -> [Key -> Val \cup {None}]]
  BY DEF IInv, Types
<1> DEFINE v == table[n][r.key]
<1>3. v \in Val \cup {None}
  BY <1>1, <1>2
<1>4. NewValue(r, v) \in Val \cup {None}
  <2>1. r.op \in {"insert", "get", "remove"} /\ (r.op = "insert" => r.val \in Val)
    BY <1>1 DEF Request
  <2>2. QED
    BY <2>1, <1>3 DEF NewValue
<1>5. table' = [table EXCEPT ![n] = [table[n] EXCEPT ![r.key] = NewValue(r, v)]]
  BY DEF Perform
<1>6. table' \in [Node -> [Key -> Val \cup {None}]]
  BY <1>1, <1>2, <1>4, <1>5
<1>7. ahead' = {}
  BY DEF IInv, Harmless, Perform
<1>8. InPart'
  <2> SUFFICES ASSUME NEW m \in Node, NEW k \in Key, table'[m][k] # None
               PROVE  m = to_id(k)
    BY DEF InPart
  <2>1. CASE m = n /\ k = r.key
    BY <2>1 DEF Target
  <2>2. CASE ~ (m = n /\ k = r.key)
    <3>1. table'[m][k] = table[m][k]
      BY <2>2, <1>1, <1>2, <1>5
    <3>2. QED
      BY <3>1 DEF IInv, InPart
  <2>3. QED
    BY <2>1, <2>2
<1>9. QED
  BY <1>3, <1>6, <1>7, <1>8 DEF Perform

-----------------------------------------------------------------------------
(* The client threads.                                                      *)

LEMMA CallInv == ASSUME IInv, NEW t \in Thread, NEW r \in Calls[t], Call(t, r)
                 PROVE  IInv'
<1>1. Types /\ Locks /\ Progress /\ Channels /\ InPart /\ Harmless
  BY DEF IInv
<1>2. r \in Request
  BY TwoSidedAssumption DEF TwoSidedAssumption
<1>3. pc[t] = "idle" /\ ops[t] < MaxOps[t] /\ effect[t] = "idle"
      /\ req' = [req EXCEPT ![t] = r] /\ ops' = [ops EXCEPT ![t] = @ + 1]
      /\ effect' = [effect EXCEPT ![t] = "called"]
      /\ pc' = [pc EXCEPT ![t] = IF to_id(r.key) = Home[t] THEN "local" ELSE "lock"]
      /\ UNCHANGED <<table, deleted, stop_listening, lock_table_client, lock_table_server,
                     requests, responses, got, spc, id, taken, answer, fatal, ahead, dangling, old>>
  BY DEF Call, tableVars, serverVars, mishaps
<1>4. Types'
  BY <1>1, <1>2, <1>3 DEF Types
<1>5. Locks'
  BY <1>1, <1>3 DEF Types, Locks, ClientLocks, ServerLocks, Target
<1>6. Progress'
  BY <1>1, <1>3 DEF Types, Progress, Target
<1>7. Channels'
  <2>1. Others(t)
    BY <1>1, <1>3 DEF Types, Others
  <2>2. QED
    BY <2>1, <1>1, <1>3, ChannelsKept DEF serverVars
<1>9. InPart' /\ Harmless'
  BY <1>1, <1>3 DEF InPart, Harmless
<1>10. QED
  BY <1>4, <1>5, <1>6, <1>7, <1>9 DEF IInv

LEMMA LocalInv == ASSUME IInv, NEW t \in Thread, Local(t)
                  PROVE  IInv'
<1>1. Types /\ Locks /\ Progress /\ Channels /\ InPart /\ Harmless
  BY DEF IInv
<1>2. Home[t] \in Node /\ Target(t) = Home[t] /\ pc[t] = "local"
  BY <1>1, ConstantTypes DEF Local, Progress
<1> DEFINE v == table[Home[t]][req[t].key]
<1>3. Perform(t, Home[t], req[t], v)
  BY DEF Local
<1>4. /\ table' \in [Node -> [Key -> Val \cup {None}]]
      /\ old' = [old EXCEPT ![t] = v] /\ v \in Val \cup {None}
      /\ effect' = [effect EXCEPT ![t] = "applied"]
      /\ deleted' = deleted /\ stop_listening' = stop_listening
      /\ ahead' = {} /\ InPart'
  BY <1>2, <1>3, PerformInv
<1>5. got' = [got EXCEPT ![t] = v] /\ pc' = [pc EXCEPT ![t] = "return"]
      /\ UNCHANGED <<lock_table_client, lock_table_server, requests, responses, ops,
                     req, spc, id, taken, answer, fatal, dangling>>
  BY DEF Local, serverVars
<1> HIDE DEF v
<1>6. Types'
  BY <1>1, <1>4, <1>5 DEF Types
<1>7. Locks'
  BY <1>1, <1>5 DEF Types, Locks, ClientLocks, ServerLocks, Target
<1>8. Progress'
  BY <1>1, <1>4, <1>5 DEF Types, Progress, Target
<1>9. Channels'
  <2>1. Others(t)
    BY <1>1, <1>4, <1>5 DEF Types, Others
  <2>2. QED
    BY <2>1, <1>1, <1>2, <1>5, ChannelsKept DEF serverVars
<1>11. Harmless'
  BY <1>1, <1>4, <1>5 DEF Harmless
<1>12. QED
  BY <1>4, <1>6, <1>7, <1>8, <1>9, <1>11 DEF IInv

LEMMA LockInv == ASSUME IInv, NEW t \in Thread, Lock(t)
                 PROVE  IInv'
<1>1. Types /\ Locks /\ Progress /\ Channels /\ InPart /\ Harmless
  BY DEF IInv
<1> DEFINE n == Home[t]  m == Target(t)
<1>2. n \in Node /\ m \in Node
  BY <1>1, ConstantTypes, TargetType
<1>3. pc[t] = "lock" /\ lock_table_client[n][m] = Nobody
      /\ lock_table_client' = [lock_table_client EXCEPT ![n] =
                                 [lock_table_client[n] EXCEPT ![m] = t]]
      /\ pc' = [pc EXCEPT ![t] = "send"]
      /\ UNCHANGED <<table, deleted, stop_listening, lock_table_server, requests,
                     responses, ops, req, got, spc, id, taken, answer, fatal, ahead, dangling,
                     effect, old>>
  BY DEF Lock, tableVars, serverVars, history, mishaps
<1>4. \A u \in Thread : Target(u)' = Target(u)
  BY <1>3 DEF Target
<1>5. t \in Owner /\ Nobody \notin Thread
  BY NobodyAssumption DEF Owner
<1>6. lock_table_client' \in [Node -> [Node -> Owner]]
  BY <1>1, <1>2, <1>3, <1>5 DEF Types
<1>7. Types'
  BY <1>1, <1>3, <1>6 DEF Types
<1>8. ClientLocks'
  <2> SUFFICES ASSUME NEW u \in Thread, pc'[u] \in {"send", "deliver"}
               PROVE  lock_table_client'[Home[u]][Target(u)] = u
    BY <1>4 DEF ClientLocks
  <2>1. Home[u] \in Node /\ Target(u) \in Node
    BY <1>1, ConstantTypes, TargetType
  <2>2. CASE u = t
    BY <1>1, <1>2, <1>3, <2>2 DEF Types
  <2>3. CASE u # t
    <3>1. lock_table_client[Home[u]][Target(u)] = u
      BY <1>1, <1>3, <2>3 DEF Types, Locks, ClientLocks
    <3>2. Home[u] # n \/ Target(u) # m
      BY <3>1, <1>3, <1>5
    <3>3. QED
      BY <1>1, <1>2, <1>3, <2>1, <3>1, <3>2 DEF Types
  <2>4. QED
    BY <2>2, <2>3
<1>9. Locks'
  BY <1>1, <1>3, <1>8 DEF Locks, ServerLocks
<1>10. Progress'
  BY <1>1, <1>3, <1>4 DEF Types, Progress
<1>11. Channels'
  <2>1. Others(t)
    BY <1>1, <1>3 DEF Types, Others
  <2>2. QED
    BY <2>1, <1>1, <1>3, ChannelsKept DEF serverVars
<1>13. InPart' /\ Harmless'
  BY <1>1, <1>3 DEF InPart, Harmless
<1>14. QED
  BY <1>7, <1>9, <1>10, <1>11, <1>13 DEF IInv

LEMMA ReturnInv == ASSUME IInv, NEW t \in Thread, Return(t)
                   PROVE  IInv'
<1>1. Types /\ Locks /\ Progress /\ Channels /\ InPart /\ Harmless
  BY DEF IInv
<1>2. pc[t] = "return" /\ pc' = [pc EXCEPT ![t] = "idle"]
      /\ effect' = [effect EXCEPT ![t] = "idle"]
      /\ UNCHANGED <<table, deleted, stop_listening, lock_table_client, lock_table_server,
                     requests, responses, ops, req, got, spc, id, taken, answer, fatal,
                     ahead, dangling, old>>
  BY DEF Return, tableVars, serverVars, mishaps
<1>3. Types'
  BY <1>1, <1>2 DEF Types
<1>4. Locks'
  BY <1>1, <1>2 DEF Types, Locks, ClientLocks, ServerLocks, Target
<1>5. Progress'
  BY <1>1, <1>2 DEF Types, Progress, Target
<1>6. Channels'
  <2>1. Others(t)
    BY <1>1, <1>2 DEF Types, Others
  <2>2. QED
    BY <2>1, <1>1, <1>2, ChannelsKept DEF serverVars
<1>8. InPart' /\ Harmless'
  BY <1>1, <1>2 DEF InPart, Harmless
<1>9. QED
  BY <1>3, <1>4, <1>5, <1>6, <1>8 DEF IInv

\* Nothing is on a pair of connections before its thread has sent its request.
LEMMA NothingBefore ==
    ASSUME IInv, NEW t \in Thread, pc[t] = "send"
    PROVE  /\ \A x : ~ Asks(x, Home[t], Target(t))
           /\ \A a : ~ Replies(a, Home[t], Target(t))
<1>1. ClientLocks
  BY DEF IInv, Locks
<1>2. \A u : ~ WaitsOn(u, Home[t], Target(t))
  BY <1>1, OneClient DEF WaitsOn
<1>3. QED
  BY <1>2 DEF Asks, Replies

LEMMA SendInv == ASSUME IInv, NEW t \in Thread, Send(t)
                 PROVE  IInv'
<1>1. Types /\ Locks /\ Progress /\ Channels /\ InPart /\ Harmless
  BY DEF IInv
<1> DEFINE n == Home[t]  m == Target(t)  x == [from |-> t, req |-> req[t]]
<1>2. n \in Node /\ m \in Node
  BY <1>1, ConstantTypes, TargetType
<1>3. pc[t] = "send" /\ pc' = [pc EXCEPT ![t] = "deliver"]
      /\ requests' = [requests EXCEPT ![n] = [requests[n] EXCEPT ![m] =
                        Append(requests[n][m], x)]]
      /\ UNCHANGED <<table, deleted, stop_listening, lock_table_client, lock_table_server,
                     responses, ops, req, got, spc, id, taken, answer, fatal, ahead, dangling,
                     effect, old>>
  BY DEF Send, tableVars, serverVars, history, mishaps
<1>4. \A u \in Thread : Target(u)' = Target(u)
  BY <1>3 DEF Target
<1>5. x \in Message
  BY <1>1 DEF Types, Message
<1>6. requests[n][m] = <<>>
  BY <1>1, <1>2, <1>3, NothingBefore DEF Channels, Requests
<1>7. /\ requests' \in [Node -> [Node -> Seq(Message)]]
      /\ requests'[n][m] # <<>> /\ Len(requests'[n][m]) = 1 /\ Head(requests'[n][m]) = x
      /\ \A i, j \in Node : i # n \/ j # m => requests'[i][j] = requests[i][j]
  <2>1. Append(<<>>, x) \in Seq(Message) /\ Append(<<>>, x) # <<>>
        /\ Len(Append(<<>>, x)) = 1 /\ Head(Append(<<>>, x)) = x
    BY <1>5, OneMessage
  <2>2. requests \in [Node -> [Node -> Seq(Message)]]
    BY <1>1 DEF Types
  <2> DEFINE q == Append(<<>>, x)
  <2>3. requests' = [requests EXCEPT ![n] = [requests[n] EXCEPT ![m] = q]]
    BY <1>3, <1>6
  <2> HIDE DEF q, n, m, x
  <2>4. requests'[n][m] = q /\ requests' \in [Node -> [Node -> Seq(Message)]]
        /\ \A i, j \in Node : i # n \/ j # m => requests'[i][j] = requests[i][j]
    BY <1>2, <2>1, <2>2, <2>3 DEF q
  <2>5. QED
    BY <2>1, <2>4 DEF q
<1>8. Types'
  BY <1>1, <1>3, <1>7 DEF Types
<1>9. Locks'
  BY <1>1, <1>3, <1>4 DEF Types, Locks, ClientLocks, ServerLocks
<1>10. Progress'
  BY <1>1, <1>3, <1>4 DEF Types, Progress
<1>11. Others(t)
  BY <1>1, <1>3 DEF Types, Others
<1>12. /\ \A y, i, j : Asks(y, i, j) => Asks(y, i, j)'
       /\ \A a, i, j : Replies(a, i, j) => Replies(a, i, j)'
  BY <1>3, <1>11, NotAbout, AsksOthers, RepliesOthers
<1>13. Requests'
  <2> SUFFICES ASSUME NEW i \in Node, NEW j \in Node, requests'[i][j] # <<>>
               PROVE  Len(requests'[i][j]) = 1 /\ Asks(Head(requests[i][j]), i, j)'
    BY DEF Requests
  <2>1. CASE i = n /\ j = m
    <3>1. Asks(x, n, m)'
      BY <1>1, <1>3, <1>4 DEF Types, Progress, Asks, WaitsOn
    <3>2. QED
      BY <2>1, <3>1, <1>3, <1>4, <1>7
  <2>2. CASE i # n \/ j # m
    <3>1. requests'[i][j] = requests[i][j]
      BY <2>2, <1>7
    <3>2. Len(requests[i][j]) = 1 /\ Asks(Head(requests[i][j]), i, j)
      BY <3>1, <1>1 DEF Channels, Requests
    <3> DEFINE y == Head(requests[i][j])
    <3>3. y' = y
      BY <3>1
    <3>4. y.from \in Thread \ {t}
      BY <3>2, <1>3 DEF Asks, WaitsOn
    <3>5. QED
      BY <3>1, <3>2, <3>3, <3>4, <1>11 DEF Others, Asks, WaitsOn, Target
  <2>3. QED
    BY <2>1, <2>2
<1>14. Responses'
  BY <1>1, <1>3, <1>12 DEF Channels, Responses
<1>15. Serving'
  <2> SUFFICES ASSUME NEW s \in Server
               PROVE  /\ spc[s] = "do" => Asks(taken[s], id[s], s[1])'
                                          /\ requests'[id[s]][s[1]] = <<>>
                      /\ spc[s] = "respond" => Replies(answer[s], id[s], s[1])'
                                               /\ responses'[s[1]][id[s]] = <<>>
    BY <1>3 DEF Serving
  <2>1. id[s] \in Node /\ s[1] \in Node /\ id'[s] = id[s] /\ taken'[s] = taken[s]
        /\ answer'[s] = answer[s]
    BY <1>1, <1>3, ConstantTypes DEF Types
  <2>2. ASSUME spc[s] = "do"
        PROVE  Asks(taken[s], id[s], s[1])' /\ requests'[id[s]][s[1]] = <<>>
    <3>1. Asks(taken[s], id[s], s[1]) /\ requests[id[s]][s[1]] = <<>>
      BY <1>1, <2>2 DEF Channels, Serving
    <3>2. id[s] # n \/ s[1] # m
      BY <3>1, <1>3, NothingBefore
    <3>3. requests'[id[s]][s[1]] = <<>>
      BY <3>1, <3>2, <2>1, <1>7
    <3>4. taken[s].from \in Thread \ {t}
      BY <3>1, <1>3 DEF Asks, WaitsOn
    <3>5. QED
      BY <3>1, <3>3, <3>4, <2>1, <1>11 DEF Others, Asks, WaitsOn, Target
  <2>3. ASSUME spc[s] = "respond"
        PROVE  Replies(answer[s], id[s], s[1])' /\ responses'[s[1]][id[s]] = <<>>
    <3>1. Replies(answer[s], id[s], s[1]) /\ responses[s[1]][id[s]] = <<>>
      BY <1>1, <2>3 DEF Channels, Serving
    <3>2. answer[s].to \in Thread \ {t}
      BY <3>1, <1>3 DEF Replies, WaitsOn
    <3>3. QED
      BY <3>1, <3>2, <2>1, <1>3, <1>11 DEF Others, Replies, WaitsOn, Target
  <2>4. QED
    BY <2>2, <2>3
<1>17. InPart' /\ Harmless'
  BY <1>1, <1>3 DEF InPart, Harmless
<1>18. QED
  BY <1>8, <1>9, <1>10, <1>13, <1>14, <1>15, <1>17 DEF IInv, Channels

\* An answer is for the thread that takes it, and nothing else is on the pair.
LEMMA AnswerIsMine ==
    ASSUME IInv, NEW t \in Thread, pc[t] = "deliver",
           responses[Target(t)][Home[t]] # <<>>
    PROVE  LET a == Head(responses[Target(t)][Home[t]])
           IN  /\ Len(responses[Target(t)][Home[t]]) = 1
               /\ a.to = t /\ effect[t] = "applied"
               /\ a.op \in {"ERR", Expected(req[t])}
               /\ Decode(req[t], a) = old[t]
<1>1. Types /\ ClientLocks /\ Responses
  BY DEF IInv, Locks, Channels
<1> DEFINE n == Home[t]  m == Target(t)  a == Head(responses[m][n])
<1>2. n \in Node /\ m \in Node
  BY <1>1, ConstantTypes, TargetType
<1>3. Len(responses[m][n]) = 1 /\ Replies(a, n, m)
  BY <1>1, <1>2 DEF Responses
<1>4. a.to = t
  BY <1>1, <1>3, OneClient DEF Replies, WaitsOn
<1>5. req[t] \in Request /\ old[t] \in Val \cup {None}
  BY <1>1 DEF Types
<1>6. effect[t] = "applied"
      /\ \E z \in Respond(req[t], old[t]) : a.op = z.op /\ a.val = z.val
  BY <1>3, <1>4 DEF Replies
<1>7. a.op \in {"ERR", Expected(req[t])} /\ Decode(req[t], a) = old[t]
  BY <1>5, <1>6, AnswerDecoded
<1>8. QED
  BY <1>3, <1>4, <1>6, <1>7

LEMMA DeliverInv == ASSUME IInv, NEW t \in Thread, Deliver(t)
                    PROVE  IInv'
<1>1. Types /\ Locks /\ Progress /\ Channels /\ InPart /\ Harmless
  BY DEF IInv
<1> DEFINE n == Home[t]  m == Target(t)
<1>2. n \in Node /\ m \in Node
  BY <1>1, ConstantTypes, TargetType
<1>3. pc[t] = "deliver" /\ responses[m][n] # <<>>
  BY DEF Deliver
<1>4. /\ Len(responses[m][n]) = 1
      /\ effect[t] = "applied" /\ fatal' = "" /\ got' = [got EXCEPT ![t] = old[t]]
  BY <1>3, AnswerIsMine DEF Deliver
<1>5. Tail(responses[m][n]) = <<>> /\ <<>> \in Seq(Answer)
  <2>1. responses[m][n] \in Seq(Answer)
    BY <1>1, <1>2 DEF Types
  <2>2. Tail(responses[m][n]) = <<>>
    BY <2>1, <1>4, LastMessage
  <2>3. QED
    BY <2>2
<1>6. /\ responses' = [responses EXCEPT ![m] = [responses[m] EXCEPT ![n] = <<>>]]
      /\ lock_table_client' = [lock_table_client EXCEPT ![n] =
                                 [lock_table_client[n] EXCEPT ![m] = Nobody]]
      /\ pc' = [pc EXCEPT ![t] = "return"]
      /\ UNCHANGED <<table, deleted, stop_listening, lock_table_server, requests, ops,
                     req, spc, id, taken, answer, ahead, dangling, effect, old>>
  BY <1>5 DEF Deliver, tableVars, serverVars, history, mishaps
<1>7. \A u \in Thread : Target(u)' = Target(u)
  BY <1>6 DEF Target
<1> HIDE DEF n, m
<1>8. responses' \in [Node -> [Node -> Seq(Answer)]] /\ responses'[m][n] = <<>>
      /\ \A i, j \in Node : i # m \/ j # n => responses'[i][j] = responses[i][j]
  BY <1>1, <1>2, <1>5, <1>6 DEF Types
<1>9. lock_table_client' \in [Node -> [Node -> Owner]]
      /\ \A i, j \in Node : i # n \/ j # m =>
           lock_table_client'[i][j] = lock_table_client[i][j]
  BY <1>1, <1>2, <1>6 DEF Types, Owner
<1>10. Types'
  <2>1. got' \in [Thread -> Val \cup {None}]
    BY <1>1, <1>4 DEF Types
  <2>2. QED
    BY <2>1, <1>1, <1>6, <1>8, <1>9 DEF Types
<1>11. \A u \in Thread : u # t /\ pc[u] \in {"send", "deliver"} =>
          Home[u] # n \/ Target(u) # m
  BY <1>1, <1>3, OneClient DEF Locks, n, m
<1>12. Locks'
  <2>1. ClientLocks'
    <3> SUFFICES ASSUME NEW u \in Thread, pc'[u] \in {"send", "deliver"}
                 PROVE  lock_table_client'[Home[u]][Target(u)] = u
      BY <1>7 DEF ClientLocks
    <3>1. u # t /\ pc'[u] = pc[u]
      BY <1>1, <1>6 DEF Types
    <3>2. Home[u] \in Node /\ Target(u) \in Node
      BY <1>1, ConstantTypes, TargetType
    <3>3. QED
      BY <1>1, <1>9, <1>11, <3>1, <3>2 DEF Locks, ClientLocks
  <2>2. QED
    BY <2>1, <1>1, <1>6 DEF Locks, ServerLocks
<1>13. Progress'
  BY <1>1, <1>4, <1>6, <1>7 DEF Types, Progress
<1>14. Others(t)
  BY <1>1, <1>6 DEF Types, Others
<1>15. /\ \A x, i, j : Asks(x, i, j) => x.from # t
       /\ \A a, i, j : Replies(a, i, j) /\ (i # n \/ j # m) => a.to # t
  BY <1>4 DEF Asks, Replies, WaitsOn, n, m
<1>16. /\ \A x, i, j : Asks(x, i, j) => Asks(x, i, j)'
       /\ \A a, i, j : Replies(a, i, j) /\ (i # n \/ j # m) => Replies(a, i, j)'
  BY <1>14, <1>15, AsksOthers, RepliesOthers
<1>17. Requests'
  BY <1>1, <1>6, <1>16 DEF Channels, Requests
<1>18. Responses'
  <2> SUFFICES ASSUME NEW i \in Node, NEW j \in Node, responses'[j][i] # <<>>
               PROVE  Len(responses'[j][i]) = 1 /\ Replies(Head(responses[j][i]), i, j)'
    BY DEF Responses
  <2>1. i # n \/ j # m
    BY <1>8
  <2>2. responses'[j][i] = responses[j][i]
    BY <2>1, <1>8
  <2>3. Len(responses[j][i]) = 1 /\ Replies(Head(responses[j][i]), i, j)
    BY <2>2, <1>1 DEF Channels, Responses
  <2> DEFINE a == Head(responses[j][i])
  <2>4. a' = a /\ a.to \in Thread \ {t}
    BY <2>1, <2>2, <2>3, <1>15 DEF Replies, WaitsOn
  <2>5. QED
    BY <2>2, <2>3, <2>4, <1>14 DEF Others, Replies, WaitsOn, Target
<1>19. Serving'
  <2> SUFFICES ASSUME NEW s \in Server
               PROVE  /\ spc[s] = "do" => Asks(taken[s], id[s], s[1])'
                                          /\ requests'[id[s]][s[1]] = <<>>
                      /\ spc[s] = "respond" => Replies(answer[s], id[s], s[1])'
                                               /\ responses'[s[1]][id[s]] = <<>>
    BY <1>6 DEF Serving
  <2>1. id[s] \in Node /\ s[1] \in Node /\ id'[s] = id[s] /\ taken'[s] = taken[s]
        /\ answer'[s] = answer[s]
    BY <1>1, <1>6, ConstantTypes DEF Types
  <2>2. ASSUME spc[s] = "do"
        PROVE  Asks(taken[s], id[s], s[1])' /\ requests'[id[s]][s[1]] = <<>>
    <3>1. Asks(taken[s], id[s], s[1]) /\ requests[id[s]][s[1]] = <<>>
      BY <1>1, <2>2 DEF Channels, Serving
    <3>2. taken[s].from \in Thread \ {t}
      BY <3>1, <1>15 DEF Asks, WaitsOn
    <3>3. QED
      BY <3>1, <3>2, <2>1, <1>6, <1>14 DEF Others, Asks, WaitsOn, Target
  <2>3. ASSUME spc[s] = "respond"
        PROVE  Replies(answer[s], id[s], s[1])' /\ responses'[s[1]][id[s]] = <<>>
    <3>1. Replies(answer[s], id[s], s[1]) /\ responses[s[1]][id[s]] = <<>>
      BY <1>1, <2>3 DEF Channels, Serving
    <3>2. id[s] # n \/ s[1] # m
      BY <3>1, <1>3 DEF n, m
    <3>3. answer[s].to \in Thread \ {t}
      BY <3>1, <3>2, <1>15 DEF Replies, WaitsOn
    <3>4. responses'[s[1]][id[s]] = <<>>
      BY <3>1, <3>2, <2>1, <1>8
    <3>5. QED
      BY <3>1, <3>3, <3>4, <2>1, <1>14 DEF Others, Replies, WaitsOn, Target
  <2>4. QED
    BY <2>2, <2>3
<1>21. InPart' /\ Harmless'
  BY <1>1, <1>4, <1>6 DEF InPart, Harmless
<1>22. QED
  BY <1>10, <1>12, <1>13, <1>17, <1>18, <1>19, <1>21 DEF IInv, Channels

-----------------------------------------------------------------------------
(* The server threads.                                                      *)

\* The client threads do not notice: requests and answers stay what they are.
LEMMA SameForClients ==
    ASSUME UNCHANGED <<pc, req, effect, old>>
    PROVE  /\ \A x, n, m : Asks(x, n, m)' <=> Asks(x, n, m)
           /\ \A a, n, m : Replies(a, n, m)' <=> Replies(a, n, m)
           /\ \A t : Target(t)' = Target(t)
  BY DEF Asks, Replies, WaitsOn, Target

\* The types of what the server threads use to exclude each other.
STypes ==
    /\ lock_table_server \in [Node -> [Node -> Owner]]
    /\ spc \in [Server -> {"lock", "poll", "do", "respond", "joined"}]
    /\ id \in [Server -> Node]

LEMMA ServerTypes == Types => STypes
  BY DEF Types, STypes

\* The next peer is a node.
LEMMA AdvanceType ==
    ASSUME STypes, NEW s \in Server, Advance(s)
    PROVE  /\ \E n \in Node : id' = [id EXCEPT ![s] = n]
           /\ \E p \in {"joined", "lock"} : spc' = [spc EXCEPT ![s] = p]
<1> DEFINE rest == PeersFrom(s[1], id[s] + 1)
<1>1. s[1] \in Node /\ id[s] \in Nat
  BY ConstantTypes, TwoSidedAssumption DEF STypes, Node, TwoSidedAssumption
<1>2. Least(IF rest = {} THEN PeersFrom(s[1], 0) ELSE rest) \in Node
  <2>1. id[s] + 1 \in Nat
    BY <1>1
  <2>2. Least(PeersFrom(s[1], 0)) \in Node /\ (rest # {} => Least(rest) \in Node)
    BY <1>1, <2>1, NextPeer
  <2>3. QED
    BY <2>2
<1>3. QED
  BY <1>2 DEF Advance

\* A server thread holds at most one mutex of its node, and gives back its own.
LEMMA UnlockInv ==
    ASSUME STypes, ServerLocks, NEW s \in Server, spc[s] \in {"poll", "respond"},
           Unlock(s), Advance(s)
    PROVE  /\ lock_table_server' \in [Node -> [Node -> Owner]]
           /\ ServerLocks'
<1> DEFINE n == s[1]  m == id[s]
<1>1. n \in Node /\ m \in Node
  BY ConstantTypes DEF STypes
<1>2. lock_table_server' = [lock_table_server EXCEPT ![n] =
                              [lock_table_server[n] EXCEPT ![m] = Nobody]]
  BY DEF Unlock
<1>3. lock_table_server' \in [Node -> [Node -> Owner]]
      /\ \A i, j \in Node : i # n \/ j # m =>
           lock_table_server'[i][j] = lock_table_server[i][j]
  BY <1>1, <1>2 DEF STypes, Owner
<1>4. PICK k \in Node, p \in {"joined", "lock"} :
        id' = [id EXCEPT ![s] = k] /\ spc' = [spc EXCEPT ![s] = p]
  BY AdvanceType
<1>5. ServerLocks'
  <2> SUFFICES ASSUME NEW u \in Server, spc'[u] \in {"poll", "do", "respond"}
               PROVE  lock_table_server'[u[1]][id'[u]] = u
    BY DEF ServerLocks
  <2>1. u # s /\ spc'[u] = spc[u] /\ id'[u] = id[u] /\ id[u] \in Node
    BY <1>4 DEF STypes
  <2>2. u[1] \in Node
    BY ConstantTypes
  <2>3. u[1] # n \/ id[u] # m
    BY <2>1, OneServer
  <2>4. QED
    BY <1>3, <2>1, <2>2, <2>3 DEF ServerLocks
<1>6. QED
  BY <1>3, <1>5

LEMMA ServerLockInv == ASSUME IInv, NEW s \in Server, ServerLock(s)
                       PROVE  IInv'
<1>1. Types /\ Locks /\ Progress /\ Channels /\ InPart /\ Harmless
  BY DEF IInv
<1> DEFINE n == s[1]  m == id[s]
<1>2. n \in Node /\ m \in Node
  BY <1>1, ConstantTypes DEF Types
<1>3. spc[s] = "lock" /\ lock_table_server[n][m] = Nobody
      /\ lock_table_server' = [lock_table_server EXCEPT ![n] =
                                 [lock_table_server[n] EXCEPT ![m] = s]]
      /\ spc' = [spc EXCEPT ![s] = "poll"]
      /\ UNCHANGED <<table, deleted, stop_listening, lock_table_client, requests,
                     responses, pc, ops, req, got, id, taken, answer, fatal, ahead, dangling,
                     effect, old>>
  BY DEF ServerLock, tableVars, clientVars, history, mishaps
<1>4. s \in Owner /\ Nobody \notin Server
  BY NobodyAssumption DEF Owner
<1>5. lock_table_server' \in [Node -> [Node -> Owner]]
      /\ lock_table_server'[n][m] = s
      /\ \A i, j \in Node : i # n \/ j # m =>
           lock_table_server'[i][j] = lock_table_server[i][j]
  BY <1>1, <1>2, <1>3, <1>4 DEF Types
<1>6. Types'
  BY <1>1, <1>3, <1>5 DEF Types
<1>7. /\ \A x, i, j : Asks(x, i, j)' <=> Asks(x, i, j)
      /\ \A a, i, j : Replies(a, i, j)' <=> Replies(a, i, j)
      /\ \A t : Target(t)' = Target(t)
  BY <1>3, SameForClients
<1>8. Locks'
  <2>1. ServerLocks'
    <3> SUFFICES ASSUME NEW u \in Server, spc'[u] \in {"poll", "do", "respond"}
                 PROVE  lock_table_server'[u[1]][id[u]] = u
      BY <1>3 DEF ServerLocks
    <3>1. u[1] \in Node /\ id[u] \in Node
      BY <1>1, ConstantTypes DEF Types
    <3>2. CASE u = s
      BY <3>2, <1>5
    <3>3. CASE u # s
      <4>1. lock_table_server[u[1]][id[u]] = u
        BY <1>1, <1>3, <3>3 DEF Types, Locks, ServerLocks
      <4>2. QED
        BY <4>1, <3>1, <1>3, <1>4, <1>5
    <3>4. QED
      BY <3>2, <3>3
  <2>2. QED
    BY <2>1, <1>1, <1>3, <1>7 DEF Locks, ClientLocks
<1>9. Progress'
  BY <1>1, <1>3, <1>7 DEF Progress
<1>10. Requests' /\ Responses'
  BY <1>1, <1>3, <1>7 DEF Channels, Requests, Responses
<1>11. Serving'
  <2> SUFFICES ASSUME NEW u \in Server, spc'[u] \in {"do", "respond"}
               PROVE  /\ spc[u] = "do" => Asks(taken[u], id[u], u[1])'
                                          /\ requests[id[u]][u[1]] = <<>>
                      /\ spc[u] = "respond" => Replies(answer[u], id[u], u[1])'
                                               /\ responses[u[1]][id[u]] = <<>>
                      /\ spc'[u] = spc[u]
    BY <1>3 DEF Serving
  <2>1. u # s /\ spc'[u] = spc[u]
    BY <1>1, <1>3 DEF Types
  <2>2. Asks(taken[u], id[u], u[1])' <=> Asks(taken[u], id[u], u[1])
    BY <1>3 DEF Asks, WaitsOn, Target
  <2>3. Replies(answer[u], id[u], u[1])' <=> Replies(answer[u], id[u], u[1])
    BY <1>3 DEF Replies, WaitsOn, Target
  <2>4. QED
    BY <2>1, <2>2, <2>3, <1>1 DEF Channels, Serving
<1>12. InPart' /\ Harmless'
  BY <1>1, <1>3 DEF InPart, Harmless
<1>13. QED
  BY <1>6, <1>8, <1>9, <1>10, <1>11, <1>12 DEF IInv, Channels

\* What a server thread does leaves what another one works on.
LEMMA StillServing ==
    ASSUME UNCHANGED <<pc, req, effect, old>>, NEW u \in Server,
           taken'[u] = taken[u], answer'[u] = answer[u], id'[u] = id[u]
    PROVE  /\ Asks(taken[u], id[u], u[1])' <=> Asks(taken[u], id[u], u[1])
           /\ Replies(answer[u], id[u], u[1])' <=> Replies(answer[u], id[u], u[1])
<1>1. Asks(taken[u], id[u], u[1])' <=> Asks(taken[u], id[u], u[1])
  BY DEF Asks, WaitsOn, Target
<1>2. Replies(answer[u], id[u], u[1])' <=> Replies(answer[u], id[u], u[1])
  BY DEF Replies, WaitsOn, Target
<1>3. QED
  BY <1>1, <1>2

LEMMA PollNothingInv == ASSUME IInv, NEW s \in Server, PollNothing(s)
                        PROVE  IInv'
<1>1. Types /\ Locks /\ Progress /\ Channels /\ InPart /\ Harmless
  BY DEF IInv
<1>2. spc[s] = "poll" /\ Unlock(s) /\ Advance(s)
      /\ UNCHANGED <<table, deleted, stop_listening, lock_table_client, requests,
                     responses, pc, ops, req, got, taken, answer, fatal, ahead, dangling,
                     effect, old>>
  BY DEF PollNothing, tableVars, clientVars, history, mishaps
<1>3. PICK k \in Node, p \in {"joined", "lock"} :
        id' = [id EXCEPT ![s] = k] /\ spc' = [spc EXCEPT ![s] = p]
  BY <1>1, <1>2, AdvanceType, ServerTypes
<1>4. lock_table_server' \in [Node -> [Node -> Owner]] /\ ServerLocks'
  BY <1>1, <1>2, UnlockInv, ServerTypes DEF Locks
<1>5. Types'
  BY <1>1, <1>2, <1>3, <1>4 DEF Types
<1>6. /\ \A x, i, j : Asks(x, i, j)' <=> Asks(x, i, j)
      /\ \A a, i, j : Replies(a, i, j)' <=> Replies(a, i, j)
      /\ \A t : Target(t)' = Target(t)
  BY <1>2, SameForClients
<1>7. Locks'
  BY <1>1, <1>2, <1>4, <1>6 DEF Locks, ClientLocks
<1>8. Progress'
  BY <1>1, <1>2, <1>6 DEF Progress
<1>9. Requests' /\ Responses'
  BY <1>1, <1>2, <1>6 DEF Channels, Requests, Responses
<1>10. Serving'
  <2> SUFFICES ASSUME NEW u \in Server, spc'[u] \in {"do", "respond"}
               PROVE  /\ spc'[u] = "do" => Asks(taken[u], id[u], u[1])'
                                           /\ requests[id'[u]][u[1]] = <<>>
                      /\ spc'[u] = "respond" => Replies(answer[u], id[u], u[1])'
                                                /\ responses[u[1]][id'[u]] = <<>>
    BY <1>2 DEF Serving
  <2>1. u # s /\ spc'[u] = spc[u] /\ id'[u] = id[u]
    BY <1>1, <1>3 DEF Types
  <2>2. QED
    BY <2>1, <1>1, <1>2, StillServing DEF Channels, Serving
<1>11. InPart' /\ Harmless'
  BY <1>1, <1>2 DEF InPart, Harmless
<1>12. QED
  BY <1>5, <1>7, <1>8, <1>9, <1>10, <1>11 DEF IInv, Channels

LEMMA PollRequestInv == ASSUME IInv, NEW s \in Server, PollRequest(s)
                        PROVE  IInv'
<1>1. Types /\ Locks /\ Progress /\ Channels /\ InPart /\ Harmless
  BY DEF IInv
<1> DEFINE n == id[s]  m == s[1]  x == Head(requests[n][m])
<1>2. n \in Node /\ m \in Node
  BY <1>1, ConstantTypes DEF Types
<1>3. spc[s] = "poll" /\ requests[n][m] # <<>>
      /\ taken' = [taken EXCEPT ![s] = x] /\ spc' = [spc EXCEPT ![s] = "do"]
      /\ UNCHANGED <<table, deleted, stop_listening, lock_table_client, lock_table_server,
                     responses, pc, ops, req, got, id, answer, fatal, ahead, dangling,
                     effect, old>>
  <2>1. InSlot(s, x) = {x}
    BY <1>1 DEF Harmless, InSlot
  <2>2. QED
    BY <2>1 DEF PollRequest, tableVars, clientVars, history, mishaps
<1>4. Len(requests[n][m]) = 1 /\ Asks(x, n, m)
  BY <1>1, <1>2, <1>3 DEF Channels, Requests
<1>5. Tail(requests[n][m]) = <<>> /\ x \in Message
  <2>1. requests[n][m] \in Seq(Message)
    BY <1>1, <1>2 DEF Types
  <2>2. QED
    BY <2>1, <1>4, LastMessage
<1>6. requests' = [requests EXCEPT ![n] = [requests[n] EXCEPT ![m] = <<>>]]
  BY <1>5 DEF PollRequest
<1>7. requests' \in [Node -> [Node -> Seq(Message)]]
      /\ requests'[n][m] = <<>>
      /\ \A i, j \in Node : requests'[i][j] \in {<<>>, requests[i][j]}
  <2> HIDE DEF n, m
  <2>1. <<>> \in Seq(Message)
    OBVIOUS
  <2>2. QED
    BY <2>1, <1>1, <1>2, <1>6 DEF Types
<1>8. Types'
  <2>1. taken' \in [Server -> Message \cup {NoMessage}]
    <3> HIDE DEF x
    <3>1. QED
      BY <1>1, <1>3, <1>5 DEF Types
  <2>2. QED
    BY <2>1, <1>1, <1>3, <1>7 DEF Types
<1>9. /\ \A y, i, j : Asks(y, i, j)' <=> Asks(y, i, j)
      /\ \A a, i, j : Replies(a, i, j)' <=> Replies(a, i, j)
      /\ \A t : Target(t)' = Target(t)
  BY <1>3, SameForClients
<1>10. Locks'
  BY <1>1, <1>3, <1>9 DEF Types, Locks, ClientLocks, ServerLocks
<1>11. Progress'
  BY <1>1, <1>3, <1>9 DEF Progress
<1>12. Requests'
  <2> SUFFICES ASSUME NEW i \in Node, NEW j \in Node, requests'[i][j] # <<>>
               PROVE  Len(requests'[i][j]) = 1 /\ Asks(Head(requests[i][j]), i, j)'
    BY DEF Requests
  <2>1. requests'[i][j] = requests[i][j]
    BY <1>7
  <2>2. Len(requests[i][j]) = 1 /\ Asks(Head(requests[i][j]), i, j)
    BY <2>1, <1>1 DEF Channels, Requests
  <2>3. Asks(Head(requests[i][j]), i, j)' <=> Asks(Head(requests[i][j]), i, j)
    BY <2>1, <1>3 DEF Asks, WaitsOn, Target
  <2>4. QED
    BY <2>1, <2>2, <2>3
<1>13. Responses'
  BY <1>1, <1>3, <1>9 DEF Channels, Responses
<1>14. Serving'
  <2> SUFFICES ASSUME NEW u \in Server, spc'[u] \in {"do", "respond"}
               PROVE  /\ spc'[u] = "do" => Asks(taken[u], id[u], u[1])'
                                           /\ requests'[id[u]][u[1]] = <<>>
                      /\ spc'[u] = "respond" => Replies(answer[u], id[u], u[1])'
                                                /\ responses[u[1]][id[u]] = <<>>
    BY <1>3 DEF Serving
  <2>1. CASE u = s
    <3>1. taken'[s] = x /\ id'[s] = n /\ spc'[s] = "do"
      BY <1>1, <1>3 DEF Types
    <3>2. Asks(taken[s], id[s], s[1])'
      BY <3>1, <1>3, <1>4 DEF Asks, WaitsOn, Target
    <3>3. QED
      BY <2>1, <3>1, <3>2, <1>7
  <2>2. CASE u # s
    <3>1. spc'[u] = spc[u] /\ taken'[u] = taken[u] /\ id[u] \in Node /\ u[1] \in Node
      BY <2>2, <1>1, <1>3, ConstantTypes DEF Types
    <3>2. requests[id[u]][u[1]] = <<>> => requests'[id[u]][u[1]] = <<>>
      BY <3>1, <1>7
    <3>3. QED
      BY <3>1, <3>2, <1>1, <1>3, StillServing DEF Channels, Serving
  <2>3. QED
    BY <2>1, <2>2
<1>15. InPart' /\ Harmless'
  BY <1>1, <1>3 DEF InPart, Harmless
<1>16. QED
  BY <1>8, <1>10, <1>11, <1>12, <1>13, <1>14, <1>15 DEF IInv, Channels

\* Nothing but its request is on a pair of connections while an operation waits.
LEMMA NotAnswered ==
    ASSUME IInv, NEW n, NEW m, NEW x, Asks(x, n, m)
    PROVE  \A a : ~ Replies(a, n, m)
<1>1. ClientLocks
  BY DEF IInv, Locks
<1>2. \A u : WaitsOn(u, n, m) => u = x.from
  BY <1>1, OneClient DEF Asks, WaitsOn
<1>3. QED
  BY <1>2 DEF Asks, Replies

LEMMA DoInv == ASSUME IInv, NEW s \in Server, Do(s), ~ dangling'
               PROVE  IInv'
<1>1. Types /\ Locks /\ Progress /\ Channels /\ InPart /\ Harmless
  BY DEF IInv
<1> DEFINE t == taken[s].from  n == id[s]  m == s[1]  v == table[m][req[t].key]
<1>2. n \in Node /\ m \in Node
  BY <1>1, ConstantTypes DEF Types
<1>3. spc[s] = "do" /\ Asks(taken[s], n, m) /\ requests[n][m] = <<>>
  BY <1>1 DEF Do, Channels, Serving
<1>4. t \in Thread /\ pc[t] = "deliver" /\ Home[t] = n /\ Target(t) = m
      /\ taken[s].req = req[t] /\ effect[t] = "called"
  BY <1>3 DEF Asks, WaitsOn
<1>5. ~ deleted[m] /\ Perform(t, m, req[t], v)
  <2>1. ~ deleted[m]
    BY DEF Do
  <2>2. QED
    BY <2>1, <1>4 DEF Do, Finds
<1>6. /\ table' \in [Node -> [Key -> Val \cup {None}]]
      /\ old' = [old EXCEPT ![t] = v] /\ v \in Val \cup {None}
      /\ effect' = [effect EXCEPT ![t] = "applied"]
      /\ deleted' = deleted /\ stop_listening' = stop_listening
      /\ ahead' = {} /\ InPart'
  BY <1>2, <1>4, <1>5, PerformInv
<1>7. PICK z \in Respond(req[t], v) :
        answer' = [answer EXCEPT ![s] = [to |-> t, op |-> z.op, val |-> z.val]]
  BY <1>4, <1>5 DEF Do, Finds
<1>8. taken' = [taken EXCEPT ![s] = NoMessage] /\ spc' = [spc EXCEPT ![s] = "respond"]
      /\ UNCHANGED <<lock_table_client, lock_table_server, requests, responses,
                     pc, ops, req, got, id, fatal>>
  BY DEF Do, clientVars
<1>9. req[t] \in Request
  BY <1>1, <1>4 DEF Types
<1> HIDE DEF t, n, m, v
<1>10. [to |-> t, op |-> z.op, val |-> z.val] \in Answer
  BY <1>4, <1>6, <1>9, RespondType DEF Answer
<1>11. Types'
  <2>1. answer' \in [Server -> Answer \cup {NoAnswer}]
    BY <1>1, <1>7, <1>10 DEF Types
  <2>2. taken' \in [Server -> Message \cup {NoMessage}]
    BY <1>1, <1>8 DEF Types
  <2>3. old' \in [Thread -> Val \cup {None}]
        /\ effect' \in [Thread -> {"idle", "called", "applied"}]
    BY <1>1, <1>6 DEF Types
  <2>4. QED
    BY <2>1, <2>2, <2>3, <1>1, <1>6, <1>8 DEF Types
<1>12. Others(t) /\ \A u : Target(u)' = Target(u)
  BY <1>1, <1>6, <1>8 DEF Types, Others, Target
<1>13. Locks'
  <2>1. ClientLocks'
    BY <1>1, <1>8 DEF Locks, ClientLocks, Target
  <2>2. \A u \in Server : spc'[u] \in {"poll", "do", "respond"} =>
           spc[u] \in {"poll", "do", "respond"}
    BY <1>1, <1>3, <1>8 DEF Types
  <2>3. ServerLocks'
    BY <2>2, <1>1, <1>8 DEF Locks, ServerLocks
  <2>4. QED
    BY <2>1, <2>3 DEF Locks
<1>14. Progress'
  BY <1>1, <1>4, <1>6, <1>8, <1>12 DEF Types, Progress
\* t is what s worked on: nothing else is about it.
<1>15. responses[m][n] = <<>>
  <2>1. \A a : ~ Replies(a, n, m)
    BY <1>3, NotAnswered
  <2>2. QED
    BY <2>1, <1>1, <1>2 DEF Channels, Responses
<1>16. Requests'
  <2> SUFFICES ASSUME NEW i \in Node, NEW j \in Node, requests[i][j] # <<>>
               PROVE  Len(requests[i][j]) = 1 /\ Asks(Head(requests[i][j]), i, j)'
    BY <1>8 DEF Requests
  <2>1. Len(requests[i][j]) = 1 /\ Asks(Head(requests[i][j]), i, j)
    BY <1>1 DEF Channels, Requests
  <2> DEFINE y == Head(requests[i][j])
  <2>2. y.from # t
    BY <2>1, <1>3, <1>4 DEF Asks, WaitsOn
  <2>3. y.from \in Thread \ {t} /\ y' = y
    BY <2>1, <2>2, <1>8 DEF Asks, WaitsOn
  <2>4. QED
    BY <2>1, <2>3, <1>12 DEF Others, Asks, WaitsOn, Target
<1>17. Responses'
  <2> SUFFICES ASSUME NEW i \in Node, NEW j \in Node, responses[j][i] # <<>>
               PROVE  Len(responses[j][i]) = 1 /\ Replies(Head(responses[j][i]), i, j)'
    BY <1>8 DEF Responses
  <2>1. Len(responses[j][i]) = 1 /\ Replies(Head(responses[j][i]), i, j)
    BY <1>1 DEF Channels, Responses
  <2> DEFINE a == Head(responses[j][i])
  <2>2. a.to # t
    BY <2>1, <1>4 DEF Replies
  <2>3. a.to \in Thread \ {t} /\ a' = a
    BY <2>1, <2>2, <1>8 DEF Replies, WaitsOn
  <2>4. QED
    BY <2>1, <2>3, <1>12 DEF Others, Replies, WaitsOn, Target
<1>18. Serving'
  <2> SUFFICES ASSUME NEW u \in Server, spc'[u] \in {"do", "respond"}
               PROVE  /\ spc'[u] = "do" => Asks(taken[u], id[u], u[1])'
                                           /\ requests[id[u]][u[1]] = <<>>
                      /\ spc'[u] = "respond" => Replies(answer[u], id[u], u[1])'
                                                /\ responses[u[1]][id[u]] = <<>>
    BY <1>8 DEF Serving
  <2>1. CASE u = s
    <3>1. answer'[s] = [to |-> t, op |-> z.op, val |-> z.val] /\ spc'[s] = "respond"
          /\ id'[s] = n /\ effect'[t] = "applied" /\ old'[t] = v
      BY <1>1, <1>4, <1>6, <1>7, <1>8 DEF Types, n
    <3>2. Replies(answer[s], id[s], s[1])'
      BY <3>1, <1>4, <1>7, <1>8, <1>12 DEF Replies, WaitsOn, m
    <3>3. QED
      BY <2>1, <3>1, <3>2, <1>15 DEF n, m
  <2>2. CASE u # s
    <3>1. spc'[u] = spc[u] /\ taken'[u] = taken[u] /\ answer'[u] = answer[u]
          /\ id'[u] = id[u]
      BY <2>2, <1>1, <1>7, <1>8 DEF Types
    <3>2. u[1] # m \/ id[u] # n
      BY <3>1, <2>2, <1>1, <1>3, OneServer DEF Locks, n, m
    <3>3. ASSUME spc[u] = "do"
          PROVE  Asks(taken[u], id[u], u[1])' /\ requests[id[u]][u[1]] = <<>>
      <4>1. Asks(taken[u], id[u], u[1]) /\ requests[id[u]][u[1]] = <<>>
        BY <3>3, <1>1 DEF Channels, Serving
      <4>2. taken[u].from \in Thread \ {t}
        BY <4>1, <3>2, <1>4 DEF Asks, WaitsOn
      <4>3. QED
        BY <3>1, <4>1, <4>2, <1>12 DEF Others, Asks, WaitsOn, Target
    <3>4. ASSUME spc[u] = "respond"
          PROVE  Replies(answer[u], id[u], u[1])' /\ responses[u[1]][id[u]] = <<>>
      <4>1. Replies(answer[u], id[u], u[1]) /\ responses[u[1]][id[u]] = <<>>
        BY <3>4, <1>1 DEF Channels, Serving
      <4>2. answer[u].to \in Thread \ {t}
        BY <4>1, <1>4 DEF Replies, WaitsOn
      <4>3. QED
        BY <3>1, <4>1, <4>2, <1>12 DEF Others, Replies, WaitsOn, Target
    <3>5. QED
      BY <3>1, <3>3, <3>4
  <2>3. QED
    BY <2>1, <2>2
<1>20. Harmless'
  BY <1>1, <1>6, <1>8 DEF Harmless
<1>21. QED
  BY <1>6, <1>11, <1>13, <1>14, <1>16, <1>17, <1>18, <1>20 DEF IInv, Channels

LEMMA SendResponseInv == ASSUME IInv, NEW s \in Server, SendResponse(s)
                         PROVE  IInv'
<1>1. Types /\ Locks /\ Progress /\ Channels /\ InPart /\ Harmless
  BY DEF IInv
<1> DEFINE n == id[s]  m == s[1]  a == answer[s]
<1>2. n \in Node /\ m \in Node
  BY <1>1, ConstantTypes DEF Types
<1>3. spc[s] = "respond" /\ Unlock(s) /\ Advance(s)
      /\ answer' = [answer EXCEPT ![s] = NoAnswer]
      /\ UNCHANGED <<table, deleted, stop_listening, lock_table_client, requests,
                     pc, ops, req, got, taken, fatal, ahead, dangling, effect, old>>
  BY DEF SendResponse, tableVars, clientVars, history, mishaps
<1>4. Replies(a, n, m) /\ responses[m][n] = <<>>
  BY <1>1, <1>3 DEF Channels, Serving
<1>5. a \in Answer
  <2>1. a.to \in Thread
    BY <1>4 DEF Replies, WaitsOn
  <2>2. NoAnswer.to \notin Thread
    BY NobodyAssumption DEF NoAnswer
  <2>3. QED
    BY <2>1, <2>2, <1>1 DEF Types
<1>6. responses' = [responses EXCEPT ![m] = [responses[m] EXCEPT ![n] = Append(<<>>, a)]]
  BY <1>4 DEF SendResponse
<1>7. Append(<<>>, a) \in Seq(Answer) /\ Append(<<>>, a) # <<>>
      /\ Len(Append(<<>>, a)) = 1 /\ Head(Append(<<>>, a)) = a
  BY <1>5, OneMessage
<1> DEFINE q == Append(<<>>, a)
<1> HIDE DEF n, m, a, q
<1>8. responses' \in [Node -> [Node -> Seq(Answer)]] /\ responses'[m][n] = q
      /\ \A i, j \in Node : i # m \/ j # n => responses'[i][j] = responses[i][j]
  BY <1>1, <1>2, <1>6, <1>7 DEF Types, q
<1>9. PICK k \in Node, p \in {"joined", "lock"} :
        id' = [id EXCEPT ![s] = k] /\ spc' = [spc EXCEPT ![s] = p]
  BY <1>1, <1>3, AdvanceType, ServerTypes
<1>10. lock_table_server' \in [Node -> [Node -> Owner]] /\ ServerLocks'
  BY <1>1, <1>3, UnlockInv, ServerTypes DEF Locks
<1>11. Types'
  <2>1. answer' \in [Server -> Answer \cup {NoAnswer}]
    BY <1>1, <1>3 DEF Types
  <2>2. QED
    BY <2>1, <1>1, <1>3, <1>8, <1>9, <1>10 DEF Types
<1>12. /\ \A x, i, j : Asks(x, i, j)' <=> Asks(x, i, j)
       /\ \A b, i, j : Replies(b, i, j)' <=> Replies(b, i, j)
       /\ \A t : Target(t)' = Target(t)
  BY <1>3, SameForClients
<1>13. Locks'
  BY <1>1, <1>3, <1>10, <1>12 DEF Locks, ClientLocks
<1>14. Progress'
  BY <1>1, <1>3, <1>12 DEF Progress
<1>15. Requests'
  BY <1>1, <1>3, <1>12 DEF Channels, Requests
<1>16. Responses'
  <2> SUFFICES ASSUME NEW i \in Node, NEW j \in Node, responses'[j][i] # <<>>
               PROVE  Len(responses'[j][i]) = 1 /\ Replies(Head(responses[j][i]), i, j)'
    BY DEF Responses
  <2>1. CASE i = n /\ j = m
    <3> DEFINE h == Head(responses[j][i])
    <3>1. Len(responses'[j][i]) = 1 /\ h' = a
      BY <2>1, <1>7, <1>8 DEF q
    <3>2. Replies(h, i, j)'
      BY <3>1, <2>1, <1>3, <1>4 DEF Replies, WaitsOn, Target
    <3>3. QED
      BY <3>1, <3>2
  <2>2. CASE i # n \/ j # m
    <3> DEFINE h == Head(responses[j][i])
    <3>1. responses'[j][i] = responses[j][i]
      BY <2>2, <1>8
    <3>2. Len(responses[j][i]) = 1 /\ Replies(h, i, j)
      BY <3>1, <1>1 DEF Channels, Responses
    <3>3. h' = h
      BY <3>1
    <3>4. Replies(h, i, j)'
      BY <3>2, <3>3, <1>3 DEF Replies, WaitsOn, Target
    <3>5. QED
      BY <3>1, <3>2, <3>4
  <2>3. QED
    BY <2>1, <2>2
<1>17. Serving'
  <2> SUFFICES ASSUME NEW u \in Server, spc'[u] \in {"do", "respond"}
               PROVE  /\ spc'[u] = "do" => Asks(taken[u], id[u], u[1])'
                                           /\ requests[id'[u]][u[1]] = <<>>
                      /\ spc'[u] = "respond" => Replies(answer[u], id[u], u[1])'
                                                /\ responses'[u[1]][id'[u]] = <<>>
    BY <1>3 DEF Serving
  <2>1. u # s /\ spc'[u] = spc[u] /\ id'[u] = id[u] /\ answer'[u] = answer[u]
        /\ id[u] \in Node /\ u[1] \in Node
    BY <1>1, <1>3, <1>9, ConstantTypes DEF Types
  <2>2. id[u] # n \/ u[1] # m
    BY <2>1, <1>1, <1>3, OneServer DEF Locks, n, m
  <2>3. responses'[u[1]][id[u]] = responses[u[1]][id[u]]
    BY <2>1, <2>2, <1>8
  <2>4. QED
    BY <2>1, <2>3, <1>1, <1>3, StillServing DEF Channels, Serving
<1>18. InPart' /\ Harmless'
  BY <1>1, <1>3 DEF InPart, Harmless
<1>19. QED
  BY <1>11, <1>13, <1>14, <1>15, <1>16, <1>17, <1>18 DEF IInv, Channels

-----------------------------------------------------------------------------
\* Nothing but the tables and their servers' flags changes.
LEMMA DestroyInv == ASSUME IInv, NEW n \in Node, Destroy(n)
                    PROVE  IInv'
<1>1. Types /\ Locks /\ Progress /\ Channels /\ InPart /\ Harmless
  BY DEF IInv
<1>2. stop_listening' = [stop_listening EXCEPT ![n] = TRUE]
      /\ deleted' = [deleted EXCEPT ![n] = TRUE]
      /\ UNCHANGED <<table, lock_table_client, lock_table_server, requests, responses,
                     pc, ops, req, got, spc, id, taken, answer, fatal, ahead, dangling,
                     effect, old>>
  BY DEF Destroy, clientVars, serverVars, history, mishaps
<1>3. Types'
  BY <1>1, <1>2 DEF Types
<1>4. /\ \A x, i, j : Asks(x, i, j)' <=> Asks(x, i, j)
      /\ \A a, i, j : Replies(a, i, j)' <=> Replies(a, i, j)
      /\ \A t : Target(t)' = Target(t)
  BY <1>2, SameForClients
<1>5. Locks' /\ Progress'
  BY <1>1, <1>2, <1>4 DEF Locks, ClientLocks, ServerLocks, Progress
<1>6. Requests' /\ Responses'
  BY <1>1, <1>2, <1>4 DEF Channels, Requests, Responses
<1>7. Serving'
  BY <1>1, <1>2, StillServing DEF Channels, Serving
<1>8. InPart' /\ Harmless'
  BY <1>1, <1>2 DEF InPart, Harmless
<1>9. QED
  BY <1>3, <1>5, <1>6, <1>7, <1>8 DEF IInv, Channels

\* A rehash takes values away and changes nothing else.
LEMMA RehashInv == ASSUME IInv, NEW n \in Node, NEW r, Rehash(n, r)
                   PROVE  IInv'
<1>1. Types /\ Locks /\ Progress /\ Channels /\ InPart /\ Harmless
  BY DEF IInv
<1>2. PICK S \in SUBSET Stored(n) :
        table' = [table EXCEPT ![n] = [k \in Key |-> IF k \in S THEN None ELSE table[n][k]]]
  BY DEF Rehash
<1>3. UNCHANGED <<deleted, stop_listening, lock_table_client, lock_table_server,
                  requests, responses, pc, ops, req, got, spc, id, taken, answer, fatal,
                  ahead, dangling, effect, old>>
  BY DEF Rehash, clientVars, serverVars, history
<1>4. table' \in [Node -> [Key -> Val \cup {None}]]
      /\ \A m \in Node, k \in Key : table'[m][k] \in {None, table[m][k]}
  BY <1>1, <1>2 DEF Types
<1>5. Types'
  BY <1>1, <1>3, <1>4 DEF Types
<1>6. /\ \A x, i, j : Asks(x, i, j)' <=> Asks(x, i, j)
      /\ \A a, i, j : Replies(a, i, j)' <=> Replies(a, i, j)
      /\ \A t : Target(t)' = Target(t)
  BY <1>3, SameForClients
<1>7. Locks' /\ Progress'
  BY <1>1, <1>3, <1>6 DEF Locks, ClientLocks, ServerLocks, Progress
<1>8. Requests' /\ Responses'
  BY <1>1, <1>3, <1>6 DEF Channels, Requests, Responses
<1>9. Serving'
  BY <1>1, <1>3, StillServing DEF Channels, Serving
<1>10. InPart'
  BY <1>1, <1>4 DEF InPart
<1>11. Harmless'
  BY <1>1, <1>3 DEF Harmless
<1>12. QED
  BY <1>5, <1>7, <1>8, <1>9, <1>10, <1>11 DEF IInv, Channels

\* As long as everything is orderly no send finds messages unread, and no request
\* has an unexpected opcode.
LEMMA NoFailure ==
    ASSUME IInv
    PROVE  /\ \A t \in Thread : ~ SendFails(t)
           /\ \A s \in Server : ~ SendResponseFails(s) /\ ~ DoUnknown(s)
<1>1. Types /\ Channels
  BY DEF IInv
<1>2. ASSUME NEW t \in Thread, SendFails(t) PROVE FALSE
  <2>1. pc[t] = "send" /\ requests[Home[t]][Target(t)] # <<>>
    BY <1>2 DEF SendFails
  <2>2. Home[t] \in Node /\ Target(t) \in Node
    BY <1>1, ConstantTypes, TargetType
  <2>3. QED
    BY <2>1, <2>2, <1>1, NothingBefore DEF Channels, Requests
<1>3. ASSUME NEW s \in Server, SendResponseFails(s) PROVE FALSE
  BY <1>1, <1>3 DEF SendResponseFails, Channels, Serving
<1>4. ASSUME NEW s \in Server, DoUnknown(s) PROVE FALSE
  <2>1. Asks(taken[s], id[s], s[1]) /\ taken[s].req = Unknown
    BY <1>1, <1>4 DEF DoUnknown, Channels, Serving
  <2>2. Unknown \in Request
    BY <2>1, <1>1 DEF Asks, WaitsOn, Types
  <2>3. QED
    BY <2>2 DEF Unknown, Request
<1>5. QED
  BY <1>2, <1>3, <1>4

LEMMA StutterInv == ASSUME IInv, UNCHANGED vars
                    PROVE  IInv'
<1>1. Types /\ Locks /\ Progress /\ Channels /\ InPart /\ Harmless
  BY DEF IInv
<1>2. UNCHANGED <<table, deleted, stop_listening, lock_table_client, lock_table_server,
                  requests, responses, pc, ops, req, got, spc, id, taken, answer,
                  fatal, ahead, dangling, effect, old>>
  BY DEF vars, tableVars, clientVars, serverVars, history, mishaps
<1>3. Types' /\ InPart' /\ Harmless'
  BY <1>1, <1>2 DEF Types, InPart, Harmless
<1>4. /\ \A x, i, j : Asks(x, i, j)' <=> Asks(x, i, j)
      /\ \A a, i, j : Replies(a, i, j)' <=> Replies(a, i, j)
      /\ \A t : Target(t)' = Target(t)
  BY <1>2, SameForClients
<1>5. Locks' /\ Progress'
  BY <1>1, <1>2, <1>4 DEF Locks, ClientLocks, ServerLocks, Progress
<1>6. Requests' /\ Responses'
  BY <1>1, <1>2, <1>4 DEF Channels, Requests, Responses
<1>7. Serving'
  BY <1>1, <1>2, StillServing DEF Channels, Serving
<1>8. QED
  BY <1>3, <1>5, <1>6, <1>7 DEF IInv, Channels

-----------------------------------------------------------------------------
(* One thread at a time, whatever goes wrong.                               *)

CTypes ==
    /\ lock_table_client \in [Node -> [Node -> Owner]]
    /\ pc \in [Thread -> {"idle", "local", "lock", "send", "deliver", "return"}]
    /\ req \in [Thread -> Request]

ClientSide == CTypes /\ ClientLocks
ServerSide == STypes /\ ServerLocks

LEMMA ClientTarget == ASSUME CTypes
                      PROVE  \A t \in Thread : Home[t] \in Node /\ Target(t) \in Node
  BY ConstantTypes, EveryKeyHasANode DEF CTypes, Target

LEMMA ClientSideSame ==
    ASSUME ClientSide, UNCHANGED <<lock_table_client, pc, req>>
    PROVE  ClientSide'
  BY DEF ClientSide, CTypes, ClientLocks, Target

LEMMA ServerSideSame ==
    ASSUME ServerSide, UNCHANGED <<lock_table_server, spc, id>>
    PROVE  ServerSide'
  BY DEF ServerSide, STypes, ServerLocks

LEMMA CallSide == ASSUME ClientSide, NEW t \in Thread, NEW r \in Calls[t], Call(t, r)
                  PROVE  ClientSide'
<1>1. r \in Request
  BY TwoSidedAssumption DEF TwoSidedAssumption
<1>2. req' = [req EXCEPT ![t] = r] /\ lock_table_client' = lock_table_client
      /\ pc' = [pc EXCEPT ![t] = IF to_id(r.key) = Home[t] THEN "local" ELSE "lock"]
  BY DEF Call
<1>3. CTypes'
  BY <1>1, <1>2 DEF ClientSide, CTypes
<1>4. ClientLocks'
  BY <1>2 DEF ClientSide, CTypes, ClientLocks, Target
<1>5. QED
  BY <1>3, <1>4 DEF ClientSide

\* The thread moves on outside of the mutex, or inside.
LEMMA MoveSide ==
    ASSUME ClientSide, NEW t \in Thread,
           NEW p \in {"idle", "local", "lock", "send", "deliver", "return"},
           p \in {"send", "deliver"} => pc[t] \in {"send", "deliver"},
           pc' = [pc EXCEPT ![t] = p], UNCHANGED <<lock_table_client, req>>
    PROVE  ClientSide'
  BY DEF ClientSide, CTypes, ClientLocks, Target

LEMMA LockSide == ASSUME ClientSide, NEW t \in Thread, Lock(t)
                  PROVE  ClientSide'
<1> DEFINE n == Home[t]  m == Target(t)
<1>1. CTypes /\ ClientLocks /\ n \in Node /\ m \in Node
  BY ClientTarget DEF ClientSide
<1>2. lock_table_client[n][m] = Nobody /\ pc' = [pc EXCEPT ![t] = "send"] /\ req' = req
      /\ lock_table_client' = [lock_table_client EXCEPT ![n] =
                                 [lock_table_client[n] EXCEPT ![m] = t]]
  BY DEF Lock
<1>3. t \in Owner /\ Nobody \notin Thread
  BY NobodyAssumption DEF Owner
<1>4. \A u \in Thread : Target(u)' = Target(u)
  BY <1>2 DEF Target
<1> HIDE DEF n, m
<1>5. lock_table_client' \in [Node -> [Node -> Owner]]
      /\ lock_table_client'[n][m] = t
      /\ \A i, j \in Node : i # n \/ j # m =>
           lock_table_client'[i][j] = lock_table_client[i][j]
  BY <1>1, <1>2, <1>3 DEF CTypes
<1>6. CTypes'
  BY <1>1, <1>2, <1>5 DEF CTypes
<1>7. ClientLocks'
  <2> SUFFICES ASSUME NEW u \in Thread, pc'[u] \in {"send", "deliver"}
               PROVE  lock_table_client'[Home[u]][Target(u)] = u
    BY <1>4 DEF ClientLocks
  <2>1. Home[u] \in Node /\ Target(u) \in Node
    BY <1>1, ClientTarget
  <2>2. CASE u = t
    BY <1>5, <2>2 DEF n, m
  <2>3. CASE u # t
    <3>1. lock_table_client[Home[u]][Target(u)] = u
      BY <1>1, <1>2, <2>3 DEF CTypes, ClientLocks
    <3>2. Home[u] # n \/ Target(u) # m
      BY <3>1, <1>2, <1>3
    <3>3. QED
      BY <1>5, <2>1, <3>1, <3>2
  <2>4. QED
    BY <2>2, <2>3
<1>8. QED
  BY <1>6, <1>7 DEF ClientSide

LEMMA DeliverSide == ASSUME ClientSide, NEW t \in Thread, Deliver(t)
                     PROVE  ClientSide'
<1> DEFINE n == Home[t]  m == Target(t)
<1>1. CTypes /\ ClientLocks /\ n \in Node /\ m \in Node
  BY ClientTarget DEF ClientSide
<1>2. pc[t] = "deliver" /\ pc' = [pc EXCEPT ![t] = "return"] /\ req' = req
      /\ lock_table_client' = [lock_table_client EXCEPT ![n] =
                                 [lock_table_client[n] EXCEPT ![m] = Nobody]]
  BY DEF Deliver
<1>3. \A u \in Thread : Target(u)' = Target(u)
  BY <1>2 DEF Target
<1>4. lock_table_client[n][m] = t
  BY <1>1, <1>2 DEF ClientLocks
<1> HIDE DEF n, m
<1>5. lock_table_client' \in [Node -> [Node -> Owner]]
      /\ \A i, j \in Node : i # n \/ j # m =>
           lock_table_client'[i][j] = lock_table_client[i][j]
  BY <1>1, <1>2 DEF CTypes, Owner
<1>6. CTypes'
  BY <1>1, <1>2, <1>5 DEF CTypes
<1>7. ClientLocks'
  <2> SUFFICES ASSUME NEW u \in Thread, pc'[u] \in {"send", "deliver"}
               PROVE  lock_table_client'[Home[u]][Target(u)] = u
    BY <1>3 DEF ClientLocks
  <2>1. Home[u] \in Node /\ Target(u) \in Node
    BY <1>1, ClientTarget
  <2>2. u # t /\ lock_table_client[Home[u]][Target(u)] = u
    BY <1>1, <1>2 DEF CTypes, ClientLocks
  <2>3. QED
    BY <1>4, <1>5, <2>1, <2>2
<1>8. QED
  BY <1>6, <1>7 DEF ClientSide

LEMMA ServerLockSide == ASSUME ServerSide, NEW s \in Server, ServerLock(s)
                        PROVE  ServerSide'
<1> DEFINE n == s[1]  m == id[s]
<1>1. STypes /\ ServerLocks /\ n \in Node /\ m \in Node
  BY ConstantTypes DEF ServerSide, STypes
<1>2. lock_table_server[n][m] = Nobody /\ spc' = [spc EXCEPT ![s] = "poll"] /\ id' = id
      /\ lock_table_server' = [lock_table_server EXCEPT ![n] =
                                 [lock_table_server[n] EXCEPT ![m] = s]]
  BY DEF ServerLock
<1>3. s \in Owner /\ Nobody \notin Server
  BY NobodyAssumption DEF Owner
<1>4. lock_table_server' \in [Node -> [Node -> Owner]]
      /\ lock_table_server'[n][m] = s
      /\ \A i, j \in Node : i # n \/ j # m =>
           lock_table_server'[i][j] = lock_table_server[i][j]
  BY <1>1, <1>2, <1>3 DEF STypes
<1>5. STypes'
  BY <1>1, <1>2, <1>4 DEF STypes
<1>6. ServerLocks'
  <2> SUFFICES ASSUME NEW u \in Server, spc'[u] \in {"poll", "do", "respond"}
               PROVE  lock_table_server'[u[1]][id[u]] = u
    BY <1>2 DEF ServerLocks
  <2>1. u[1] \in Node /\ id[u] \in Node
    BY <1>1, ConstantTypes DEF STypes
  <2>2. CASE u = s
    BY <1>4, <2>2
  <2>3. CASE u # s
    <3>1. lock_table_server[u[1]][id[u]] = u
      BY <1>1, <1>2, <2>3 DEF STypes, ServerLocks
    <3>2. QED
      BY <3>1, <2>1, <1>2, <1>3, <1>4
  <2>4. QED
    BY <2>2, <2>3
<1>7. QED
  BY <1>5, <1>6 DEF ServerSide

LEMMA UnlockSide ==
    ASSUME ServerSide, NEW s \in Server, spc[s] \in {"poll", "respond"},
           Unlock(s), Advance(s)
    PROVE  ServerSide'
<1>1. STypes /\ ServerLocks
  BY DEF ServerSide
<1>2. PICK k \in Node, p \in {"joined", "lock"} :
        id' = [id EXCEPT ![s] = k] /\ spc' = [spc EXCEPT ![s] = p]
  BY <1>1, AdvanceType
<1>3. lock_table_server' \in [Node -> [Node -> Owner]] /\ ServerLocks'
  BY <1>1, UnlockInv
<1>4. STypes'
  BY <1>1, <1>2, <1>3 DEF STypes
<1>5. QED
  BY <1>3, <1>4 DEF ServerSide

\* The server thread moves on with the mutex.
LEMMA WorkSide ==
    ASSUME ServerSide, NEW s \in Server, NEW p \in {"do", "respond"},
           spc[s] \in {"poll", "do"}, spc' = [spc EXCEPT ![s] = p],
           UNCHANGED <<lock_table_server, id>>
    PROVE  ServerSide'
  BY DEF ServerSide, STypes, ServerLocks

LEMMA ClientStep ==
    ASSUME ClientSide, ServerSide, NEW t \in Thread,
           Client(t) \/ SendFails(t) \/ \E r \in Calls[t] : Call(t, r)
    PROVE  ClientSide' /\ ServerSide'
<1>1. ServerSide'
  <2>1. UNCHANGED <<lock_table_server, spc, id>>
    BY DEF Client, Local, Lock, Send, Deliver, Return, SendFails, Call, serverVars
  <2>2. QED
    BY <2>1, ServerSideSame
<1>2. CASE \E r \in Calls[t] : Call(t, r)
  BY <1>1, <1>2, CallSide
<1>3. CASE SendFails(t)
  BY <1>1, <1>3, ClientSideSame DEF SendFails, clientVars
<1>4. CASE Lock(t)
  BY <1>1, <1>4, LockSide
<1>5. CASE Deliver(t)
  BY <1>1, <1>5, DeliverSide
<1>6. CASE Local(t)
  BY <1>1, <1>6, MoveSide DEF Local
<1>7. CASE Send(t)
  BY <1>1, <1>7, MoveSide DEF Send
<1>8. CASE Return(t)
  BY <1>1, <1>8, MoveSide DEF Return
<1>9. QED
  BY <1>1, <1>2, <1>3, <1>4, <1>5, <1>6, <1>7, <1>8 DEF Client

LEMMA ServerStep ==
    ASSUME ClientSide, ServerSide, NEW s \in Server,
           Serve(s) \/ PollUnwritten(s) \/ DoCrashes(s) \/ SendResponseFails(s)
    PROVE  ClientSide' /\ ServerSide'
<1>1. ClientSide'
  <2>1. UNCHANGED <<lock_table_client, pc, req>>
    BY DEF Serve, ServerLock, PollNothing, PollRequest, Do, DoUnknown, SendResponse,
           PollUnwritten, DoCrashes, SendResponseFails, clientVars
  <2>2. QED
    BY <2>1, ClientSideSame
<1>2. CASE ServerLock(s)
  BY <1>1, <1>2, ServerLockSide
<1>3. CASE PollNothing(s) \/ SendResponse(s) \/ SendResponseFails(s)
  BY <1>1, <1>3, UnlockSide DEF PollNothing, SendResponse, SendResponseFails
<1>4. CASE PollRequest(s) \/ PollUnwritten(s)
  BY <1>1, <1>4, WorkSide DEF PollRequest, PollUnwritten
<1>5. CASE Do(s) \/ DoUnknown(s)
  BY <1>1, <1>5, WorkSide DEF Do, DoUnknown
<1>6. CASE DoCrashes(s)
  BY <1>1, <1>6, ServerSideSame DEF DoCrashes, serverVars
<1>7. QED
  BY <1>1, <1>2, <1>3, <1>4, <1>5, <1>6 DEF Serve

LEMMA SidesNext ==
    ClientSide /\ ServerSide /\ [Next]_vars => ClientSide' /\ ServerSide'
<1> SUFFICES ASSUME ClientSide, ServerSide, [Next]_vars
             PROVE  ClientSide' /\ ServerSide'
  OBVIOUS
<1>1. CASE Insert \/ (\E n \in Node : Destroy(n)) \/ Ended \/ UNCHANGED vars
  <2>1. UNCHANGED <<lock_table_client, lock_table_server, pc, req, spc, id>>
    BY <1>1 DEF Insert, Rehash, Destroy, Ended, vars, clientVars, serverVars
  <2>2. QED
    BY <2>1, ClientSideSame, ServerSideSame
<1>2. QED
  BY <1>1, ClientStep, ServerStep DEF Next

LEMMA SidesInit == Init => ClientSide /\ ServerSide
<1> SUFFICES ASSUME Init
             PROVE  ClientSide /\ ServerSide
  OBVIOUS
<1>1. IInv
  BY InitInv
<1>2. QED
  BY <1>1 DEF IInv, Types, Locks, ClientSide, ServerSide, CTypes, STypes

LEMMA SidesInvariance == Spec => [](ClientSide /\ ServerSide)
<1>1. QED
  BY SidesInit, SidesNext, PTL DEF Spec

-----------------------------------------------------------------------------
\* What has gone wrong stays so.
LEMMA OrderlyBefore == [Next]_vars /\ Orderly' => Orderly
<1> SUFFICES ASSUME [Next]_vars, Orderly'
             PROVE  Orderly
  OBVIOUS
<1>1. ASSUME NEW t \in Thread,
             Client(t) \/ SendFails(t) \/ \E r \in Calls[t] : Call(t, r)
      PROVE  ahead' = ahead /\ dangling' = dangling
  BY <1>1 DEF Client, Local, Perform, Lock, Send, Deliver, Return, SendFails, Call, mishaps
<1>2. ASSUME NEW s \in Server, Serve(s)
      PROVE  Orderly
  <2>1. CASE Do(s)
    <3>1. ahead' = ahead /\ dangling' = (dangling \/ deleted[s[1]])
      BY <2>1 DEF Do, Perform
    <3>2. QED
      BY <3>1, Zenon DEF Orderly
  <2>2. CASE ~ Do(s)
    <3>1. ahead' = ahead /\ dangling' = dangling
      BY <1>2, <2>2 DEF Serve, ServerLock, PollNothing, PollRequest, DoUnknown,
                        SendResponse, mishaps
    <3>2. QED
      BY <3>1, Zenon DEF Orderly
  <2>3. QED
    BY <2>1, <2>2
<1>3. ASSUME NEW s \in Server, PollUnwritten(s) \/ DoCrashes(s)
      PROVE  FALSE
  <2>1. ahead' # {} \/ dangling' = TRUE
    BY <1>3 DEF PollUnwritten, DoCrashes
  <2>2. QED
    BY <2>1 DEF Orderly
<1>4. ASSUME NEW s \in Server, SendResponseFails(s)
      PROVE  ahead' = ahead /\ dangling' = dangling
  BY <1>4 DEF SendResponseFails, mishaps
<1>5. CASE Insert \/ (\E n \in Node : Destroy(n)) \/ Ended \/ UNCHANGED vars
  <2>1. ahead' = ahead /\ dangling' = dangling
    BY <1>5 DEF Insert, Rehash, Destroy, Ended, vars, mishaps
  <2>2. QED
    BY <2>1, Zenon DEF Orderly
<1>6. CASE Next
  <2>1. CASE \E t \in Thread : Client(t) \/ SendFails(t) \/ \E r \in Calls[t] : Call(t, r)
    <3>1. ahead' = ahead /\ dangling' = dangling
      BY <1>1, <2>1
    <3>2. QED
      BY <3>1, Zenon DEF Orderly
  <2>2. CASE \E s \in Server : SendResponseFails(s)
    <3>1. ahead' = ahead /\ dangling' = dangling
      BY <1>4, <2>2
    <3>2. QED
      BY <3>1, Zenon DEF Orderly
  <2>3. CASE \E s \in Server : Serve(s) \/ PollUnwritten(s) \/ DoCrashes(s)
    BY <1>2, <1>3, <2>3
  <2>4. QED
    BY <1>5, <1>6, <2>1, <2>2, <2>3, Zenon DEF Next
<1>7. QED
  BY <1>5, <1>6

LEMMA NextInv == IInv /\ [Next]_vars /\ Orderly' => IInv'
<1> SUFFICES ASSUME IInv, [Next]_vars, Orderly'
             PROVE  IInv'
  OBVIOUS
<1>1. ASSUME NEW t \in Thread, NEW r \in Calls[t], Call(t, r)
      PROVE  IInv'
  BY <1>1, CallInv
<1>2. ASSUME NEW t \in Thread, Client(t)
      PROVE  IInv'
  BY <1>2, LocalInv, LockInv, SendInv, DeliverInv, ReturnInv DEF Client
<1>3. ASSUME NEW s \in Server, Serve(s)
      PROVE  IInv'
  BY <1>3, ServerLockInv, PollNothingInv, PollRequestInv, DoInv, SendResponseInv, NoFailure
     DEF Serve, Orderly
<1>4. ASSUME NEW s \in Server, PollUnwritten(s) \/ DoCrashes(s)
      PROVE  FALSE
  BY <1>4 DEF PollUnwritten, DoCrashes, Orderly
<1>5. ASSUME NEW n \in Node, Destroy(n)
      PROVE  IInv'
  BY <1>5, DestroyInv
<1>6. CASE Insert
  BY <1>6, RehashInv, ConstantTypes DEF Insert
<1>7. CASE UNCHANGED vars
  BY <1>7, StutterInv
<1>8. QED
  BY <1>1, <1>2, <1>3, <1>4, <1>5, <1>6, <1>7, NoFailure DEF Next, Ended

Inv == Orderly => IInv

LEMMA Invariance == Spec => []Inv
<1>1. Init => Inv
  BY InitInv DEF Inv
<1>2. Inv /\ [Next]_vars => Inv'
  BY OrderlyBefore, NextInv DEF Inv
<1>3. QED
  BY <1>1, <1>2, PTL DEF Spec

-----------------------------------------------------------------------------
LEMMA UseFromInv == Inv /\ ClientSide /\ ServerSide => UseOK
<1> SUFFICES ASSUME Inv, ClientSide, ServerSide
             PROVE  UseOK
  OBVIOUS
<1>2. ASSUME Orderly PROVE TypeOK
  <2>0. Types /\ Requests
    BY <1>2 DEF Inv, IInv, Channels
  <2>1. \A n, m \in Node : DOMAIN requests[n] = Node /\ Len(requests[n][m]) <= 1
    <3> SUFFICES ASSUME NEW n \in Node, NEW m \in Node
                 PROVE  DOMAIN requests[n] = Node /\ Len(requests[n][m]) <= 1
      OBVIOUS
    <3>1. CASE requests[n][m] = <<>>
      BY <3>1, <2>0 DEF Types
    <3>2. CASE requests[n][m] # <<>>
      <4>1. Len(requests[n][m]) = 1
        BY <3>2, <2>0 DEF Requests
      <4>2. DOMAIN requests[n] = Node
        BY <2>0 DEF Types
      <4>3. QED
        BY <4>1, <4>2
    <3>3. QED
      BY <3>1, <3>2
  <2>2. QED
    BY <2>1, <2>0 DEF Types, TypeOK
<1>3. NoOverlap
  <2>0. ClientLocks /\ ServerLocks
    BY DEF ClientSide, ServerSide
  <2> SUFFICES ASSUME NEW n \in Node, NEW m \in Node
               PROVE  /\ AtMostOne(SendsRequest(n, m)) /\ AtMostOne(TakesAnswer(n, m))
                      /\ AtMostOne(Reads(n, m)) /\ AtMostOne(Answers(n, m))
    BY DEF NoOverlap
  <2>1. AtMostOne(SendsRequest(n, m)) /\ AtMostOne(TakesAnswer(n, m))
    BY <2>0, OneClient DEF AtMostOne, SendsRequest, TakesAnswer
  <2>2. AtMostOne(Reads(n, m)) /\ AtMostOne(Answers(n, m))
    BY <2>0, OneServer DEF AtMostOne, Reads, Answers
  <2>3. QED
    BY <2>1, <2>2
<1>4. ASSUME Orderly PROVE Partitioned
  BY <1>4, EveryKeyHasANode DEF Inv, IInv, InPart, Partitioned
<1>5. QED
  BY <1>2, <1>3, <1>4 DEF UseOK

\* One thread at a time sends, takes, reads and answers on each connection, also
\* after a server thread has taken an empty queue for a request, a rehash has lost
\* pairs or a deleted table was used; and until the first or the last of these,
\* every key is at the one node that to_id gives it.
THEOREM ConnectionsAndTablesInUse == Spec => []UseOK
<1>1. QED
  BY Invariance, SidesInvariance, UseFromInv, PTL

\* No thread gets the answer to another thread's request, nor one with an opcode it
\* would assert on: a call returns what its key had when it took effect, unless a
\* server thread took an empty queue for a request or used a deleted table before.
THEOREM EveryThreadItsAnswer == Spec => []OwnAnswer
<1>1. Inv => OwnAnswer
  BY DEF Inv, IInv, Harmless, Progress, OwnAnswer
<1>2. QED
  BY <1>1, Invariance, PTL

-----------------------------------------------------------------------------
(* Together the tables are one map.                                         *)

\* An operation on the table of the key's node is one on the map.
LEMMA PerformApplies ==
    ASSUME IInv, NEW t \in Thread, effect[t] = "called",
           Perform(t, Target(t), req[t], table[Target(t)][req[t].key]), req' = req
    PROVE  Map!Apply(t)
<1> DEFINE r == req[t]  n == Target(t)  v == table[n][r.key]
<1>1. Types
  BY DEF IInv
<1>2. r \in Request /\ r.key \in Key /\ n \in Node /\ to_id(r.key) = n
  BY <1>1, ConstantTypes, TargetType DEF Types, Target
<1>3. table' = [table EXCEPT ![n] = [table[n] EXCEPT ![r.key] = NewValue(r, v)]]
      /\ old' = [old EXCEPT ![t] = v] /\ effect' = [effect EXCEPT ![t] = "applied"]
  BY DEF Perform
<1>4. Content[r.key] = v
  BY <1>2 DEF Content
<1>5. NewValue(r, v) = Map!NewValue(r)
  <2>1. r.op \in {"insert", "get", "remove"}
    BY <1>2 DEF Request
  <2>2. QED
    BY <2>1, <1>4 DEF NewValue, Map!NewValue
<1>6. Content' = [Content EXCEPT ![r.key] = NewValue(r, v)]
  <2> DEFINE w == NewValue(r, v)
  <2> HIDE DEF w
  <2>1. \A k \in Key : table'[to_id(k)][k] = IF k = r.key THEN w ELSE table[to_id(k)][k]
    <3> SUFFICES ASSUME NEW k \in Key
                 PROVE  table'[to_id(k)][k] = IF k = r.key THEN w ELSE table[to_id(k)][k]
      OBVIOUS
    <3>1. to_id(k) \in Node
      BY EveryKeyHasANode
    <3> DEFINE m == to_id(k)
    <3>2. k = r.key => m = n
      BY <1>2
    <3>3. table' = [table EXCEPT ![n] = [table[n] EXCEPT ![r.key] = w]]
      BY <1>3 DEF w
    <3>4. n \in Node /\ r.key \in Key /\ m \in Node
      BY <1>2, <3>1
    <3> HIDE DEF m, n, r
    <3>5. QED
      BY <1>1, <3>2, <3>3, <3>4 DEF Types, m
  <2>2. Content' = [k \in Key |-> table'[to_id(k)][k]]
    BY DEF Content
  <2>3. Content = [k \in Key |-> table[to_id(k)][k]]
    BY DEF Content
  <2> HIDE DEF r, n
  <2>4. QED
    BY <2>1, <2>2, <2>3, <1>2 DEF w
<1>7. QED
  BY <1>3, <1>4, <1>5, <1>6 DEF Map!Apply

LEMMA MapStep == IInv /\ [Next]_vars /\ Orderly' /\ ~ lost'
                   => [Map!Next]_<<Content, effect, req, old>>
<1> SUFFICES ASSUME IInv, [Next]_vars, Orderly', ~ lost'
             PROVE  [Map!Next]_<<Content, effect, req, old>>
  OBVIOUS
<1> DEFINE Stutter == UNCHANGED <<Content, effect, req, old>>
<1>1. ASSUME UNCHANGED <<table, effect, req, old>>
      PROVE  Stutter
  BY <1>1 DEF Content
<1>2. ASSUME NEW t \in Thread, NEW r \in Calls[t], Call(t, r)
      PROVE  Map!Next
  <2>1. r \in Map!Request
    BY TwoSidedAssumption DEF TwoSidedAssumption, Request, Map!Request
  <2>2. Content' = Content
    BY <1>2 DEF Call, tableVars, Content
  <2>3. Map!Call(t, r)
    BY <1>2, <2>2 DEF Call, Map!Call
  <2>4. QED
    BY <2>1, <2>3 DEF Map!Next
<1>3. ASSUME NEW t \in Thread, Local(t)
      PROVE  Map!Next
  <2>1. effect[t] = "called" /\ Target(t) = Home[t]
    BY <1>3 DEF IInv, Progress, Local
  <2>2. Perform(t, Target(t), req[t], table[Target(t)][req[t].key]) /\ req' = req
    BY <1>3, <2>1 DEF Local
  <2>3. QED
    BY <2>1, <2>2, PerformApplies DEF Map!Next
<1>4. ASSUME NEW t \in Thread, Lock(t) \/ Send(t) \/ Deliver(t)
      PROVE  Stutter
  <2>1. UNCHANGED <<table, effect, req, old>>
    BY <1>4 DEF Lock, Send, Deliver, tableVars, history
  <2>2. QED
    BY <2>1, <1>1
<1>5. ASSUME NEW t \in Thread, Return(t)
      PROVE  Map!Next
  <2>1. effect[t] = "applied"
    BY <1>5 DEF IInv, Progress, Return
  <2>2. Content' = Content
    BY <1>5 DEF Return, tableVars, Content
  <2>3. Map!Return(t)
    BY <1>5, <2>1, <2>2 DEF Return, Map!Return
  <2>4. QED
    BY <2>3 DEF Map!Next
<1>6. ASSUME NEW s \in Server, Do(s)
      PROVE  Map!Next
  <2> DEFINE t == taken[s].from
  <2>1. Asks(taken[s], id[s], s[1])
    BY <1>6 DEF IInv, Channels, Serving, Do
  <2>2. t \in Thread /\ Target(t) = s[1] /\ taken[s].req = req[t] /\ effect[t] = "called"
    BY <2>1 DEF Asks, WaitsOn
  <2>3. Perform(t, Target(t), req[t], table[Target(t)][req[t].key]) /\ req' = req
    <3>1. ~ deleted[s[1]]
      BY <1>6 DEF Do, Orderly
    <3>2. QED
      BY <3>1, <1>6, <2>2 DEF Do, Finds, clientVars
  <2>4. QED
    BY <2>2, <2>3, PerformApplies DEF Map!Next
<1>7. ASSUME NEW s \in Server,
             ServerLock(s) \/ PollNothing(s) \/ PollRequest(s) \/ SendResponse(s)
      PROVE  Stutter
  <2>1. UNCHANGED <<table, effect, req, old>>
    BY <1>7 DEF ServerLock, PollNothing, PollRequest, SendResponse, tableVars, clientVars,
       history
  <2>2. QED
    BY <2>1, <1>1
<1>8. ASSUME NEW n \in Node, Destroy(n)
      PROVE  Stutter
  <2>1. UNCHANGED <<table, effect, req, old>>
    BY <1>8 DEF Destroy, clientVars, history
  <2>2. QED
    BY <2>1, <1>1
<1>9. CASE UNCHANGED vars
  <2>1. UNCHANGED <<table, effect, req, old>>
    BY <1>9 DEF vars, tableVars, clientVars, history
  <2>2. QED
    BY <2>1, <1>1
<1>10. ASSUME NEW t \in Thread, Client(t)
       PROVE  Map!Next \/ Stutter
  BY <1>3, <1>4, <1>5, <1>10, Zenon DEF Client
<1>11. ASSUME NEW s \in Server, Serve(s)
       PROVE  Map!Next \/ Stutter
  BY <1>6, <1>7, <1>11, NoFailure, Zenon DEF Serve
<1>12. CASE Next
  <2>1. CASE \E t \in Thread : Client(t) \/ SendFails(t) \/ \E r \in Calls[t] : Call(t, r)
    BY <1>2, <1>10, <2>1, NoFailure
  <2>2. CASE \E s \in Server : Serve(s) \/ PollUnwritten(s) \/ DoCrashes(s)
                                   \/ SendResponseFails(s)
    <3>1. \A s \in Server : ~ PollUnwritten(s) /\ ~ DoCrashes(s)
      BY DEF PollUnwritten, DoCrashes, Orderly
    <3>2. QED
      BY <1>11, <2>2, <3>1, NoFailure
  <2>3. CASE \E n \in Node : Destroy(n)
    BY <1>8, <2>3
  <2>4. CASE Insert
    BY <2>4 DEF Insert, Rehash
  <2>5. CASE Ended
    BY <1>9, <2>5 DEF Ended
  <2>6. QED
    BY <1>12, <2>1, <2>2, <2>3, <2>4, <2>5 DEF Next
<1>13. QED
  BY <1>9, <1>12

LEMMA MapInit == Init => Map!Init
<1> SUFFICES ASSUME Init
             PROVE  Map!Init
  OBVIOUS
<1>1. Content = [k \in Key |-> None]
  BY EveryKeyHasANode DEF Init, Content
<1>2. NoRequest \in Map!Request
  BY ConstantTypes DEF Request, Map!Request
<1>3. QED
  BY <1>1, <1>2 DEF Init, Map!Init

\* The partitioned tables, their connections and servers implement one atomic map:
\* every get, insert and remove takes effect at one instant between its call and
\* its return, on whichever node it starts and whichever node has the key, until
\* the first step that takes an empty queue for a request, uses a deleted table or
\* makes a table lose sight of a pair.
THEOREM TablesAreOneMap == Spec => ImplementsMap
<1>1. Inv /\ [Next]_vars =>
        [(~ Orderly)' \/ lost' \/ Map!Next]_<<Content, effect, req, old>>
  BY OrderlyBefore, MapStep DEF Inv
<1>2. QED
  BY <1>1, Invariance, MapInit, PTL DEF Spec, ImplementsMap
=============================================================================
