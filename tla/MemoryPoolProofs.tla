-------------------------- MODULE MemoryPoolProofs --------------------------
(***************************************************************************)
(* Theorems about MemoryPool, for any number of threads, of queue pairs    *)
(* and of operations, and any size of reordering_counters.                 *)
(*                                                                         *)
(* A thread whose counter is 1 has one completion to come, which is in one *)
(* place: a request that is to be executed, an entry of a completion queue *)
(* or what some thread has polled and not subtracted.  What an atomic has  *)
(* replaced is a value that nobody is going to write any more.             *)
(***************************************************************************)
EXTENDS MemoryPool, TLAPS, SequenceTheorems

WorkRequest == [wr_id : 1..THREAD_MAX, from : Thread, op : Op]

Types ==
    /\ id_gen \in 1 .. THREAD_MAX + 1
    /\ thread_ids \in [Thread -> 0..THREAD_MAX]
    /\ counters \in [1..THREAD_MAX -> Int]
    /\ pc \in [Thread -> {"new", "idle", "expect", "post", "check", "poll", "subtract"}]
    /\ op \in [Thread -> Op]
    /\ ops \in [Thread -> Nat] /\ \A t \in Thread : ops[t] <= MaxOps[t]
    /\ buffer \in [Thread -> Value] /\ result \in [Thread -> Value]
    /\ took \in [Thread -> 0..THREAD_MAX]
    /\ sq \in [Qp -> Seq(WorkRequest)] /\ cq \in [Qp -> Seq(1..THREAD_MAX)]
    /\ mem \in [Qp -> Value]
    /\ fatal \in {"", "Hit upper limit on THREAD_MAX"}
    /\ history \subseteq Qp \X Value \X Value /\ overtaken \subseteq Value

\* Every thread has an index of its own.
Ids == /\ \A t \in Thread : /\ pc[t] = "new" <=> thread_ids[t] = 0
                            /\ thread_ids[t] < id_gen
       /\ \A t, u \in Thread : thread_ids[t] = thread_ids[u] /\ thread_ids[t] # 0 => t = u

Polls(t) == pc[t] \in {"check", "poll", "subtract"}
Counts == \A t \in Thread : thread_ids[t] # 0 =>
    /\ counters[thread_ids[t]] \in {0, 1}
    /\ counters[thread_ids[t]] = 1 => Signaled(op[t]) /\ (Polls(t) \/ pc[t] = "post")
    /\ pc[t] = "post" /\ Signaled(op[t]) => counters[thread_ids[t]] = 1

\* What a thread inside an operation has asked for.
Asked == \A t \in Thread : pc[t] \notin {"new", "idle"} =>
    /\ ops[t] # 0 /\ op[t].new = NewValue(t, ops[t])
    /\ op[t].kind \in {"write", "write_noack"} => buffer[t] = op[t].new

-----------------------------------------------------------------------------
(* Where the completions are.                                               *)

\* A thread that waits for its completion.
Waits(t) == t \in Thread /\ thread_ids[t] # 0 /\ counters[thread_ids[t]] = 1 /\ Polls(t)

\* Places of a completion to be expected by thread t.
InSq(t, q, i) == i \in 1..Len(sq[q]) /\ sq[q][i].from = t /\ Signaled(sq[q][i].op)
InCq(t, q, i) == i \in 1..Len(cq[q]) /\ cq[q][i] = thread_ids[t]
With(t, u) == took[u] # 0 /\ took[u] = thread_ids[t]

\* A request is its thread's, and belongs to the current call or an earlier one.
IsRequest(w, q) ==
    /\ thread_ids[w.from] # 0 /\ w.wr_id = thread_ids[w.from] /\ w.op.qp = q
    /\ \E k \in 1..ops[w.from] : w.op.new = NewValue(w.from, k)
    /\ w.op.new = NewValue(w.from, ops[w.from]) =>
         /\ w.op = op[w.from] /\ pc[w.from] \notin {"new", "expect", "post"}
         /\ w.op.kind \in {"write", "write_noack"} => buffer[w.from] = w.op.new
    /\ Signaled(w.op) => Waits(w.from) /\ w.op = op[w.from]
Entries == \A q \in Qp : \A i \in 1..Len(sq[q]) : IsRequest(sq[q][i], q)
OneEntry == \A q, r \in Qp : \A i \in 1..Len(sq[q]), j \in 1..Len(sq[r]) :
               sq[q][i].op.new = sq[r][j].op.new => q = r /\ i = j

Completions == /\ \A q \in Qp : \A i \in 1..Len(cq[q]) :
                    \E t \in Thread : cq[q][i] = thread_ids[t] /\ Waits(t)
               /\ \A u \in Thread : took[u] # 0 <=> pc[u] = "subtract"
               /\ \A u \in Thread : took[u] # 0 =>
                    \E t \in Thread : took[u] = thread_ids[t] /\ Waits(t)

AtOnePlace(t) ==
    /\ \A q, r \in Qp, i, j \in Nat : InCq(t, q, i) /\ InCq(t, r, j) => q = r /\ i = j
    /\ \A u, v \in Thread : With(t, u) /\ With(t, v) => u = v
    /\ \A q, r \in Qp, i, j \in Nat : InSq(t, q, i) => ~ InCq(t, r, j)
    /\ \A q \in Qp, i \in Nat, u \in Thread : InSq(t, q, i) \/ InCq(t, q, i) => ~ With(t, u)
OnePlace == \A t \in Thread : thread_ids[t] # 0 => AtOnePlace(t)

-----------------------------------------------------------------------------
(* What is written once.                                                    *)

Queued(t) == \E q \in Qp, i \in Nat : InSq(t, q, i)

\* The current call of t is going to write, or its swap will try again.
Unwritten(t) == \/ pc[t] \in {"expect", "post"}
                \/ Polls(t) /\ op[t].kind = "swap" /\ ~ Queued(t) /\ result[t] # op[t].expect

\* Nobody is going to write v, but for a write that overtakes a later one.
Spent(v) == /\ \A t \in Thread, k \in Nat : v = NewValue(t, k) => k <= ops[t]
            /\ \A q \in Qp : \A i \in 1..Len(sq[q]) : sq[q][i].op.new # v
            /\ \A t \in Thread : Unwritten(t) => op[t].new # v

\* Thread t has an atomic executed that was successful.
Claims(t) == /\ Polls(t) /\ op[t].kind \in {"cas", "swap"} /\ ~ Queued(t)
             /\ result[t] = op[t].expect
Claim(t) == <<op[t].qp, result[t], op[t].new>>
Replaced == history \cup {Claim(t) : t \in {u \in Thread : Claims(u)}}

Serial == /\ \A q \in Qp : mem[q] \notin overtaken => Spent(mem[q])
          /\ \A a \in Replaced : a[2] \notin overtaken => Spent(a[2]) /\ mem[a[1]] # a[2]
          /\ \A a, b \in Replaced :
               a[1] = b[1] /\ a[2] = b[2] /\ a[2] \notin overtaken => a = b

IInv == /\ Types /\ Ids /\ Counts /\ Asked /\ Entries /\ OneEntry /\ Completions /\ OnePlace
        /\ Serial

-----------------------------------------------------------------------------
LEMMA OpFields ==
    ASSUME NEW o \in Op
    PROVE  /\ o.qp \in Qp /\ o.expect \in Value /\ o.new \in Value
           /\ o.kind \in {"read", "write", "write_noack", "cas", "swap"}
  BY DEF Op

LEMMA RequestFields ==
    ASSUME NEW w \in WorkRequest
    PROVE  w.wr_id \in 1..THREAD_MAX /\ w.from \in Thread /\ w.op \in Op
  BY DEF WorkRequest

LEMMA NewValueType ==
    ASSUME NEW t \in Thread, NEW k \in 1..MaxOps[t]
    PROVE  NewValue(t, k) \in Value
  BY DEF NewValue, Value

LEMMA NewValueUnique ==
    /\ \A t, u, k, l : NewValue(t, k) = NewValue(u, l) => t = u /\ k = l
    /\ \A t, k : NewValue(t, k) # Initial
  BY DEF NewValue, Initial

LEMMA InitialType == Initial \in Value /\ NoOp \in Op
<1>1. Initial \in Value
  BY DEF Value
<1>2. \E q \in Qp : TRUE
  BY PoolAssumption DEF PoolAssumption
<1>3. (CHOOSE q \in Qp : TRUE) \in Qp
  BY <1>2
<1>4. QED
  BY <1>1, <1>3 DEF NoOp, Op

\* The requests of a queue pair.
LEMMA EntryType ==
    ASSUME Types, NEW q \in Qp
    PROVE  /\ sq[q] \in Seq(WorkRequest) /\ Len(sq[q]) \in Nat
           /\ \A i \in 1..Len(sq[q]) : sq[q][i] \in WorkRequest
<1>1. sq[q] \in Seq(WorkRequest)
  BY DEF Types
<1>2. QED
  BY <1>1

LEMMA NumberTypes ==
    ASSUME Types
    PROVE  /\ THREAD_MAX \in Nat /\ id_gen \in Nat /\ 1 <= id_gen /\ id_gen <= THREAD_MAX + 1
           /\ thread_ids \in [Thread -> Nat] /\ took \in [Thread -> Nat]
           /\ \A t \in Thread : thread_ids[t] # 0 => thread_ids[t] \in 1..THREAD_MAX
           /\ \A t \in Thread : took[t] # 0 => took[t] \in 1..THREAD_MAX
<1>1. THREAD_MAX \in Nat
  BY PoolAssumption DEF PoolAssumption
<1>2. id_gen \in 1 .. THREAD_MAX + 1 /\ thread_ids \in [Thread -> 0..THREAD_MAX]
      /\ took \in [Thread -> 0..THREAD_MAX]
  BY DEF Types
<1>3. QED
  BY <1>1, <1>2

LEMMA SetCounter ==
    ASSUME NEW c \in [1..THREAD_MAX -> Int], NEW n, NEW v \in Int
    PROVE  [c EXCEPT ![n] = v] \in [1..THREAD_MAX -> Int]
  BY Zenon

LEMMA InitInv == Init => IInv
<1> SUFFICES ASSUME Init
             PROVE  IInv
  OBVIOUS
<1>1. Types
  <2>1. sq \in [Qp -> Seq(WorkRequest)] /\ cq \in [Qp -> Seq(1..THREAD_MAX)]
    <3>1. <<>> \in Seq(WorkRequest) /\ <<>> \in Seq(1..THREAD_MAX)
      OBVIOUS
    <3>2. QED
      BY <3>1 DEF Init
  <2>2. THREAD_MAX \in Nat /\ MaxOps \in [Thread -> Nat]
    BY PoolAssumption DEF PoolAssumption
  <2>3. op \in [Thread -> Op] /\ buffer \in [Thread -> Value] /\ result \in [Thread -> Value]
        /\ mem \in [Qp -> Value]
    BY InitialType DEF Init
  <2>4. id_gen \in 1 .. THREAD_MAX + 1 /\ thread_ids \in [Thread -> 0..THREAD_MAX]
        /\ counters \in [1..THREAD_MAX -> Int] /\ took \in [Thread -> 0..THREAD_MAX]
        /\ ops \in [Thread -> Nat] /\ \A t \in Thread : ops[t] <= MaxOps[t]
    <3>1. 1 \in 1 .. THREAD_MAX + 1 /\ 0 \in 0..THREAD_MAX
          /\ \A t \in Thread : 0 <= MaxOps[t]
      BY <2>2
    <3>2. id_gen \in 1 .. THREAD_MAX + 1 /\ thread_ids \in [Thread -> 0..THREAD_MAX]
          /\ took \in [Thread -> 0..THREAD_MAX]
      BY <3>1, Zenon DEF Init
    <3>3. counters \in [1..THREAD_MAX -> Int]
      <4>1. 0 \in Int
        OBVIOUS
      <4>2. QED
        BY <4>1, Zenon DEF Init
    <3>4. ops \in [Thread -> Nat] /\ \A t \in Thread : ops[t] <= MaxOps[t]
      BY <3>1 DEF Init
    <3>5. QED
      BY <3>2, <3>3, <3>4
  <2>5. QED
    BY <2>1, <2>3, <2>4 DEF Init, Types
<1>2. \A q \in Qp : Len(sq[q]) = 0 /\ Len(cq[q]) = 0
  BY DEF Init
<1>3. Ids /\ Counts /\ Asked
  <2>1. \A t \in Thread : thread_ids[t] = 0 /\ pc[t] = "new" /\ took[t] = 0
    BY DEF Init
  <2>2. id_gen = 1
    BY DEF Init
  <2>3. QED
    BY <2>1, <2>2 DEF Ids, Counts, Asked
<1>4. Entries /\ OneEntry
  BY <1>2 DEF Entries, OneEntry
<1>5. Completions /\ OnePlace
  <2>1. \A t \in Thread : thread_ids[t] = 0 /\ pc[t] = "new" /\ took[t] = 0
    BY DEF Init
  <2>2. QED
    BY <2>1, <1>2 DEF Completions, OnePlace
<1>6. Serial
  <2>1. Replaced = {}
    BY DEF Init, Replaced, Claims, Polls
  <2>2. Spent(Initial)
    <3>1. \A t \in Thread : ~ Unwritten(t)
      BY DEF Init, Unwritten, Polls
    <3>2. QED
      BY <3>1, <1>2, NewValueUnique DEF Spent
  <2>3. QED
    BY <2>1, <2>2 DEF Init, Serial
<1>7. QED
  BY <1>1, <1>3, <1>4, <1>5, <1>6 DEF IInv

-----------------------------------------------------------------------------
(* What the steps of a thread leave alone.                                  *)

Others(t) == \A u \in Thread \ {t} :
    /\ thread_ids'[u] = thread_ids[u] /\ ops'[u] = ops[u] /\ op'[u] = op[u]
    /\ pc'[u] = pc[u] /\ buffer'[u] = buffer[u] /\ result'[u] = result[u]
    /\ thread_ids[u] # 0 => counters'[thread_ids[u]] = counters[thread_ids[u]]

LEMMA OthersWait ==
    ASSUME NEW t, Others(t), NEW u \in Thread \ {t}
    PROVE  Waits(u)' <=> Waits(u)
  BY DEF Others, Waits, Polls

LEMMA OthersRequest ==
    ASSUME NEW t, Others(t), NEW w \in WorkRequest, NEW q, w.from # t, IsRequest(w, q)
    PROVE  IsRequest(w, q)'
<1>1. w.from \in Thread \ {t}
  BY RequestFields
<1>2. Waits(w.from)' <=> Waits(w.from)
  BY <1>1, OthersWait
<1>3. QED
  BY <1>1, <1>2 DEF IsRequest, Others

\* The requests stay where they are.
LEMMA EntriesKept ==
    ASSUME Types, Entries, OneEntry, sq' = sq, NEW t, Others(t),
           \A q \in Qp, w \in WorkRequest : w.from = t /\ IsRequest(w, q) => IsRequest(w, q)'
    PROVE  Entries' /\ OneEntry'
<1>1. \A q \in Qp, w \in WorkRequest : IsRequest(w, q) => IsRequest(w, q)'
  BY OthersRequest
<1>2. Entries'
  <2> SUFFICES ASSUME NEW q \in Qp, NEW i \in 1..Len(sq[q])
               PROVE  IsRequest(sq[q][i], q)'
    BY DEF Entries
  <2>1. sq[q][i] \in WorkRequest /\ IsRequest(sq[q][i], q)
    BY EntryType DEF Entries
  <2> DEFINE w == sq[q][i]
  <2>2. w' = w /\ w.from \in Thread
    BY <2>1, RequestFields
  <2>3. ASSUME NEW x \in WorkRequest, x = w
        PROVE  IsRequest(x, q)'
    BY <1>1, <2>1, <2>3
  <2>4. QED
    BY <2>1, <2>2, <2>3 DEF IsRequest, Waits, Polls
<1>3. OneEntry'
  BY DEF OneEntry
<1>4. QED
  BY <1>2, <1>3

\* So do the completions.
LEMMA CompletionsKept ==
    ASSUME Completions, OnePlace, UNCHANGED <<sq, cq, took, thread_ids>>,
           \A t \in Thread : Waits(t) => Waits(t)',
           \A t \in Thread : pc'[t] = "subtract" <=> pc[t] = "subtract"
    PROVE  Completions' /\ OnePlace'
<1>1. Completions'
  BY DEF Completions
<1>2. OnePlace'
  BY DEF OnePlace, AtOnePlace, InSq, InCq, With
<1>3. QED
  BY <1>1, <1>2

\* Atomics stay serial when nothing is written and no value can be written again.
LEMMA SerialKept ==
    ASSUME Types, Serial, mem' = mem, overtaken \subseteq overtaken', Replaced' \subseteq Replaced,
           \A v : Spent(v) => Spent(v)'
    PROVE  Serial'
<1>1. \A q \in Qp : mem'[q] \notin overtaken' => Spent(mem[q])'
  <2> SUFFICES ASSUME NEW q \in Qp, mem'[q] \notin overtaken'
               PROVE  Spent(mem[q])'
    OBVIOUS
  <2>1. Spent(mem[q])
    BY DEF Serial
  <2>2. \A v : v = mem[q] => Spent(v)'
    BY <2>1
  <2>3. QED
    BY <2>2 DEF Spent
<1>2. \A a \in Replaced' : a[2] \notin overtaken' => Spent(a[2])' /\ mem'[a[1]] # a[2]
  BY DEF Serial
<1>3. \A a, b \in Replaced' : a[1] = b[1] /\ a[2] = b[2] /\ a[2] \notin overtaken' => a = b
  BY DEF Serial
<1>4. QED
  BY <1>1, <1>2, <1>3 DEF Serial

\* Steps of a thread between two others in its polling loop, or before its request.
LEMMA SerialSame ==
    ASSUME Types, Serial,
           UNCHANGED <<mem, overtaken, sq, op, ops, result, history>>,
           \A t \in Thread : Polls(t)' <=> Polls(t),
           \A t \in Thread : pc'[t] \in {"expect", "post"} <=> pc[t] \in {"expect", "post"}
    PROVE  Serial'
<1>1. \A t : Queued(t)' <=> Queued(t)
  BY DEF Queued, InSq
<1>2. \A t \in Thread : (Claims(t)' <=> Claims(t)) /\ Claim(t)' = Claim(t)
  BY <1>1 DEF Claims, Claim
<1>3. Replaced' \subseteq Replaced
  BY <1>2 DEF Replaced
<1>4. \A t \in Thread : Unwritten(t)' => Unwritten(t)
  BY <1>1 DEF Unwritten
<1>5. \A v : Spent(v) => Spent(v)'
  BY <1>4 DEF Spent
<1>6. QED
  BY <1>3, <1>5, SerialKept

-----------------------------------------------------------------------------
(* The steps of a thread.                                                   *)

LEMMA RegisterInv == ASSUME IInv, NEW t \in Thread, RegisterThread(t), UNCHANGED overtaken
                     PROVE  IInv'
<1>1. Types /\ Ids /\ Counts /\ Asked /\ Entries /\ OneEntry /\ Completions /\ OnePlace
      /\ Serial
  BY DEF IInv
<1>2. /\ THREAD_MAX \in Nat /\ id_gen \in Nat /\ 1 <= id_gen /\ id_gen <= THREAD_MAX + 1
      /\ thread_ids \in [Thread -> Nat]
      /\ \A u \in Thread : thread_ids[u] # 0 => thread_ids[u] \in 1..THREAD_MAX
  BY <1>1, NumberTypes
<1>3. UNCHANGED <<op, ops, buffer, result, took, sq, cq, mem, history, overtaken>>
      /\ pc[t] = "new"
  BY DEF RegisterThread
<1>4. CASE id_gen <= THREAD_MAX
  <2> DEFINE n == id_gen
  <2>1. /\ thread_ids' = [thread_ids EXCEPT ![t] = n] /\ counters' = [counters EXCEPT ![n] = 0]
        /\ id_gen' = n + 1 /\ pc' = [pc EXCEPT ![t] = "idle"] /\ fatal' = fatal
    <3>1. ~ (id_gen > THREAD_MAX)
      BY <1>2, <1>4
    <3>2. QED
      BY <3>1, Zenon DEF RegisterThread, Go
  <2>2. n \in 1..THREAD_MAX /\ n + 1 \in 1 .. THREAD_MAX + 1
    BY <1>2, <1>4
  <2>3. Types'
    <3>1. thread_ids' \in [Thread -> 0..THREAD_MAX]
      <4>1. thread_ids \in [Thread -> 0..THREAD_MAX]
        BY <1>1 DEF Types
      <4>2. n \in 0..THREAD_MAX
        BY <1>2, <2>2
      <4>3. QED
        BY <4>1, <4>2, <2>1
    <3>2. counters' \in [1..THREAD_MAX -> Int]
      <4>1. counters \in [1..THREAD_MAX -> Int]
        BY <1>1 DEF Types
      <4>2. counters' = [counters EXCEPT ![n] = 0] /\ 0 \in Int
        BY <2>1
      <4>3. QED
        BY <4>1, <4>2, SetCounter
    <3>3. id_gen' \in 1 .. THREAD_MAX + 1
      BY <2>1, <2>2
    <3> HIDE DEF n
    <3>4. QED
      BY <3>1, <3>2, <3>3, <1>1, <1>3, <2>1 DEF Types
  <2>4. \A u \in Thread : thread_ids[u] < n /\ thread_ids[u] \in Nat
    BY <1>1, <1>2 DEF Ids
  <2>5. thread_ids'[t] = n /\ pc'[t] = "idle" /\ counters'[n] = 0 /\ thread_ids[t] = 0
        /\ \A u \in Thread \ {t} : thread_ids'[u] = thread_ids[u] /\ pc'[u] = pc[u]
    BY <1>1, <1>3, <2>1, <2>2 DEF Types, Ids
  <2>6. \A u \in Thread \ {t} : thread_ids[u] # 0 =>
          counters'[thread_ids[u]] = counters[thread_ids[u]]
    <3>1. \A u \in Thread : thread_ids[u] # 0 => thread_ids[u] \in 1..THREAD_MAX /\ thread_ids[u] # n
      BY <1>2, <2>4
    <3>2. counters \in [1..THREAD_MAX -> Int]
      BY <1>1 DEF Types
    <3> HIDE DEF n
    <3>3. QED
      BY <2>1, <3>1, <3>2
  <2>7. Others(t)
    BY <1>3, <2>5, <2>6 DEF Others
  <2>8. Ids'
    <3>1. \A u \in Thread : thread_ids'[u] < n + 1
      BY <2>2, <2>4, <2>5
    <3>2. \A u \in Thread : pc'[u] = "new" <=> thread_ids'[u] = 0
      BY <1>1, <2>2, <2>5 DEF Ids
    <3>3. \A u, v \in Thread : thread_ids'[u] = thread_ids'[v] /\ thread_ids'[u] # 0 => u = v
      BY <1>1, <2>4, <2>5 DEF Ids
    <3>4. QED
      BY <3>1, <3>2, <3>3, <2>1 DEF Ids
  <2>9. Counts'
    <3> SUFFICES ASSUME NEW u \in Thread, thread_ids'[u] # 0
                 PROVE  /\ counters'[thread_ids'[u]] \in {0, 1}
                        /\ counters'[thread_ids'[u]] = 1 =>
                             Signaled(op'[u]) /\ (Polls(u)' \/ pc'[u] = "post")
                        /\ pc'[u] = "post" /\ Signaled(op'[u]) => counters'[thread_ids'[u]] = 1
      BY DEF Counts, Signaled
    <3>1. CASE u = t
      BY <3>1, <2>5
    <3>2. CASE u # t
      BY <3>2, <2>7, <1>1 DEF Others, Counts, Polls
    <3>3. QED
      BY <3>1, <3>2
  <2>10. Asked'
    BY <1>1, <1>3, <2>5 DEF Asked
  <2>11. Entries' /\ OneEntry'
    <3>1. \A q \in Qp, w \in WorkRequest : w.from = t => ~ IsRequest(w, q)
      BY <2>5 DEF IsRequest
    <3>2. QED
      BY <3>1, <2>7, <1>1, <1>3, EntriesKept
  <2>12. \A u \in Thread : Waits(u) => u # t /\ Waits(u)' /\ thread_ids'[u] = thread_ids[u]
    BY <2>5, <2>7, OthersWait DEF Waits
  <2>13. Completions'
    <3>1. \A u \in Thread : pc'[u] = "subtract" <=> pc[u] = "subtract"
      BY <1>3, <2>5
    <3>2. QED
      BY <1>1, <1>3, <2>12, <3>1 DEF Completions
  <2>14. /\ \A q \in Qp : \A i \in 1..Len(cq[q]) : cq[q][i] # n
         /\ \A u \in Thread : took[u] # n
    BY <1>1, <2>2, <2>4 DEF Completions
  <2>15. OnePlace'
    <3> SUFFICES ASSUME NEW u \in Thread, thread_ids'[u] # 0
                 PROVE  AtOnePlace(u)'
      BY DEF OnePlace
    <3>1. CASE u = t
      <4>1. \A q \in Qp, i \in Nat : ~ InCq(u, q, i)'
        BY <3>1, <1>3, <2>5, <2>14 DEF InCq
      <4>2. \A x \in Thread : ~ With(u, x)'
        BY <3>1, <1>3, <2>5, <2>14 DEF With
      <4>3. QED
        BY <4>1, <4>2 DEF AtOnePlace
    <3>2. CASE u # t
      <4>1. thread_ids'[u] = thread_ids[u] /\ thread_ids[u] # 0
        BY <3>2, <2>5
      <4>2. QED
        BY <4>1, <1>1, <1>3 DEF OnePlace, AtOnePlace, InSq, InCq, With
    <3>3. QED
      BY <3>1, <3>2
  <2>16. Serial'
    <3>1. \A u \in Thread : Polls(u)' <=> Polls(u)
      BY <1>3, <2>5 DEF Polls
    <3>2. \A u \in Thread : pc'[u] \in {"expect", "post"} <=> pc[u] \in {"expect", "post"}
      BY <1>3, <2>5
    <3>3. QED
      BY <3>1, <3>2, <1>1, <1>3, SerialSame
  <2>17. QED
    BY <2>3, <2>8, <2>9, <2>10, <2>11, <2>13, <2>15, <2>16 DEF IInv
<1>5. CASE id_gen > THREAD_MAX
  <2>1. UNCHANGED <<thread_ids, counters, id_gen, pc>>
        /\ fatal' = "Hit upper limit on THREAD_MAX"
    <3>1. ~ (id_gen <= THREAD_MAX)
      BY <1>2, <1>5
    <3>2. QED
      BY <3>1, Zenon DEF RegisterThread
  <2>2. Types'
    BY <1>1, <1>3, <2>1 DEF Types
  <2>3. Ids' /\ Counts' /\ Asked'
    BY <1>1, <1>3, <2>1 DEF Ids, Counts, Asked, Polls
  <2>4. Others(t) /\ \A q, w : IsRequest(w, q) => IsRequest(w, q)'
    BY <1>3, <2>1 DEF Others, IsRequest, Waits, Polls
  <2>5. Entries' /\ OneEntry'
    BY <1>1, <1>3, <2>4, EntriesKept
  <2>6. Completions' /\ OnePlace'
    BY <1>1, <1>3, <2>1, CompletionsKept DEF Waits, Polls
  <2>7. Serial'
    BY <1>1, <1>3, <2>1, SerialSame DEF Polls
  <2>8. QED
    BY <2>2, <2>3, <2>5, <2>6, <2>7 DEF IInv
<1>6. QED
  BY <1>2, <1>4, <1>5

LEMMA CallInv == ASSUME IInv, NEW t \in Thread, NEW kind \in Kinds, NEW q \in Qp,
                        Call(t, kind, q), UNCHANGED overtaken
                 PROVE  IInv'
<1>1. Types /\ Ids /\ Counts /\ Asked /\ Entries /\ OneEntry /\ Completions /\ OnePlace
      /\ Serial
  BY DEF IInv
<1>2. pc[t] = "idle" /\ ops[t] < MaxOps[t] /\ pc' = [pc EXCEPT ![t] = "expect"]
      /\ ops' = [ops EXCEPT ![t] = ops[t] + 1]
      /\ UNCHANGED <<id_gen, thread_ids, counters, result, took, sq, cq, mem, fatal, history,
                     overtaken>>
  BY DEF Call, Go, ctlVars
<1>3. ops[t] \in Nat /\ MaxOps[t] \in Nat
  BY <1>1, PoolAssumption DEF PoolAssumption, Types
<1> DEFINE k == ops[t] + 1  v == NewValue(t, k)
<1>4. ops'[t] = k /\ k \in 1..MaxOps[t] /\ k \in Nat
  <2>1. ops'[t] = k
    BY <1>1, <1>2 DEF Types
  <2>2. QED
    BY <2>1, <1>2, <1>3
<1> HIDE DEF k
<1>5. v \in Value
  BY <1>4, NewValueType
<1> HIDE DEF v
<1>6. PICK e \in {Initial, mem[q]} :
        op' = [op EXCEPT ![t] = [kind |-> kind, qp |-> q, expect |-> e, new |-> v]]
  BY <1>4 DEF Call, v
<1>7. e \in Value /\ kind \in {"read", "write", "write_noack", "cas", "swap"}
  BY <1>1, InitialType, PoolAssumption DEF PoolAssumption, Types
<1> DEFINE o == [kind |-> kind, qp |-> q, expect |-> e, new |-> v]
<1>8. o \in Op
  BY <1>5, <1>7 DEF Op
<1>9. buffer' = [buffer EXCEPT ![t] = IF kind \in {"write", "write_noack"} THEN v ELSE buffer[t]]
  <2>1. NewValue(t, ops'[t]) = v
    BY <1>4 DEF v
  <2>2. buffer' = [buffer EXCEPT ![t] = IF kind \in {"write", "write_noack"}
                                          THEN NewValue(t, ops'[t]) ELSE buffer[t]]
    BY DEF Call
  <2>3. QED
    BY <2>1, <2>2
<1>10. op'[t] = o /\ pc'[t] = "expect"
       /\ \A u \in Thread \ {t} : op'[u] = op[u] /\ pc'[u] = pc[u] /\ ops'[u] = ops[u]
                                  /\ buffer'[u] = buffer[u]
  BY <1>1, <1>2, <1>6, <1>9 DEF Types
<1>11. o.new = v /\ o.kind = kind
  OBVIOUS
<1> HIDE DEF o
<1>12. kind \in {"write", "write_noack"} => buffer'[t] = v
  BY <1>1, <1>9 DEF Types
<1>13. Types'
  <2>1. op' \in [Thread -> Op] /\ buffer' \in [Thread -> Value]
    <3>1. op' = [op EXCEPT ![t] = o]
      BY <1>6 DEF o
    <3>2. QED
      BY <3>1, <1>1, <1>5, <1>8, <1>9 DEF Types
  <2>2. ops' \in [Thread -> Nat]
    BY <1>1, <1>2, <1>4 DEF Types, k
  <2>3. \A u \in Thread : ops'[u] <= MaxOps[u]
    <3>1. \A u \in Thread : ops[u] <= MaxOps[u]
      BY <1>1 DEF Types
    <3>2. ops'[t] <= MaxOps[t]
      BY <1>3, <1>4
    <3>3. QED
      BY <3>1, <3>2, <1>10
  <2>4. pc' \in [Thread -> {"new", "idle", "expect", "post", "check", "poll", "subtract"}]
    BY <1>1, <1>2 DEF Types
  <2>5. QED
    BY <2>1, <2>2, <2>3, <2>4, <1>1, <1>2 DEF Types
<1>14. Others(t)
  BY <1>2, <1>10 DEF Others
<1>15. Ids'
  BY <1>1, <1>2, <1>10 DEF Ids
<1>16. Counts'
  <2>1. thread_ids[t] # 0 => counters[thread_ids[t]] = 0
    BY <1>1, <1>2 DEF Counts, Polls
  <2>2. \A u \in Thread \ {t} : op'[u] = op[u] /\ pc'[u] = pc[u]
    BY <1>10
  <2>3. QED
    BY <1>1, <1>2, <1>10, <2>1, <2>2 DEF Counts, Polls
<1>17. Asked'
  <2>1. k # 0
    BY <1>3 DEF k
  <2>2. QED
    BY <2>1, <1>1, <1>4, <1>10, <1>11, <1>12 DEF Asked, v
<1>18. Entries' /\ OneEntry'
  <2>1. ASSUME NEW r \in Qp, NEW w \in WorkRequest, w.from = t, IsRequest(w, r)
        PROVE  IsRequest(w, r)'
    <3>1. PICK l \in 1..ops[t] : w.op.new = NewValue(t, l)
      BY <2>1 DEF IsRequest
    <3>2. l \in 1..k /\ l # k
      BY <1>3 DEF k
    <3>3. w.op.new # NewValue(t, k)
      BY <3>1, <3>2, NewValueUnique
    <3>4. ~ Signaled(w.op)
      BY <2>1, <1>2 DEF IsRequest, Waits, Polls
    <3>5. QED
      BY <2>1, <1>2, <1>4, <3>1, <3>2, <3>3, <3>4 DEF IsRequest
  <2>2. QED
    BY <2>1, <1>1, <1>2, <1>14, EntriesKept
<1>19. Completions' /\ OnePlace'
  <2>1. \A u \in Thread : Waits(u) => Waits(u)'
    BY <1>2, <1>14, OthersWait DEF Waits, Polls
  <2>2. \A u \in Thread : pc'[u] = "subtract" <=> pc[u] = "subtract"
    BY <1>2, <1>10
  <2>3. QED
    BY <2>1, <2>2, <1>1, <1>2, CompletionsKept
<1>20. Serial'
  <2>1. \A u : Queued(u)' <=> Queued(u)
    BY <1>2 DEF Queued, InSq
  <2>2. \A u \in Thread \ {t} : (Claims(u)' <=> Claims(u)) /\ Claim(u)' = Claim(u)
                                /\ (Unwritten(u)' <=> Unwritten(u))
    BY <2>1, <1>2, <1>10 DEF Claims, Claim, Unwritten, Polls
  <2>3. ~ Claims(t)'
    BY <1>10 DEF Claims, Polls
  <2>4. Replaced' \subseteq Replaced
    BY <2>2, <2>3, <1>2 DEF Replaced
  <2>5. ASSUME NEW x, Spent(x)
        PROVE  Spent(x)'
    <3>1. \A u \in Thread, l \in Nat : x = NewValue(u, l) => l <= ops'[u]
      <4>1. \A l \in Nat : l <= ops[t] => l <= ops'[t]
        BY <1>3, <1>4 DEF k
      <4>2. QED
        BY <4>1, <2>5, <1>10 DEF Spent
    <3>2. x # v
      <4>1. ~ (k <= ops[t])
        BY <1>3 DEF k
      <4>2. QED
        BY <4>1, <2>5, <1>4 DEF Spent, v
    <3>3. \A u \in Thread : Unwritten(u)' => op'[u].new # x
      BY <3>2, <2>2, <2>5, <1>10, <1>11 DEF Spent
    <3>4. QED
      BY <3>1, <3>3, <2>5, <1>2 DEF Spent
  <2>6. QED
    BY <2>4, <2>5, <1>1, <1>2, SerialKept
<1>21. QED
  BY <1>13, <1>15, <1>16, <1>17, <1>18, <1>19, <1>20 DEF IInv

LEMMA ExpectInv == ASSUME IInv, NEW t \in Thread, Expect(t), UNCHANGED overtaken
                   PROVE  IInv'
<1>1. Types /\ Ids /\ Counts /\ Asked /\ Entries /\ OneEntry /\ Completions /\ OnePlace
      /\ Serial
  BY DEF IInv
<1> DEFINE n == thread_ids[t]  c == IF Signaled(op[t]) THEN 1 ELSE counters[n]
<1>2. pc[t] = "expect" /\ pc' = [pc EXCEPT ![t] = "post"]
      /\ counters' = [counters EXCEPT ![n] = c]
      /\ UNCHANGED <<id_gen, thread_ids, op, ops, buffer, result, took, sq, cq, mem, fatal,
                     history, overtaken>>
  BY DEF Expect, Go, ctlVars
<1>3. n \in 1..THREAD_MAX /\ n # 0
  BY <1>1, <1>2, NumberTypes DEF Ids
<1>4. counters \in [1..THREAD_MAX -> Int] /\ counters[n] = 0 /\ c \in Int
      /\ (c = 1 <=> Signaled(op[t])) /\ c \in {0, 1}
  <2>1. counters \in [1..THREAD_MAX -> Int]
    BY <1>1 DEF Types
  <2>2. counters[n] = 0
    BY <1>1, <1>2, <1>3 DEF Counts, Polls
  <2>3. QED
    BY <2>1, <2>2
<1>5. pc'[t] = "post" /\ \A u \in Thread \ {t} : pc'[u] = pc[u]
  BY <1>1, <1>2 DEF Types
<1> HIDE DEF n, c
<1>6. counters'[n] = c /\ counters' \in [1..THREAD_MAX -> Int]
      /\ \A m \in 1..THREAD_MAX : m # n => counters'[m] = counters[m]
  BY <1>2, <1>3, <1>4, SetCounter
<1>7. Types'
  <2>1. pc' \in [Thread -> {"new", "idle", "expect", "post", "check", "poll", "subtract"}]
    BY <1>1, <1>2 DEF Types
  <2>2. QED
    BY <2>1, <1>1, <1>2, <1>6 DEF Types
<1>8. \A u \in Thread \ {t} : thread_ids[u] # 0 =>
        thread_ids[u] \in 1..THREAD_MAX /\ thread_ids[u] # n
  BY <1>1, NumberTypes DEF Ids, n
<1>9. Others(t)
  BY <1>2, <1>5, <1>6, <1>8 DEF Others
<1>10. Ids' /\ Asked'
  BY <1>1, <1>2, <1>5 DEF Ids, Asked
<1>11. Counts'
  <2>1. \A u \in Thread \ {t} : thread_ids[u] # 0 =>
          counters'[thread_ids[u]] = counters[thread_ids[u]] /\ pc'[u] = pc[u]
    BY <1>9 DEF Others
  <2>2. counters'[thread_ids[t]] = c
    BY <1>6 DEF n
  <2>3. QED
    BY <2>1, <2>2, <1>1, <1>2, <1>4, <1>5 DEF Counts, Polls
<1>12. Entries' /\ OneEntry'
  <2>1. ASSUME NEW r \in Qp, NEW w \in WorkRequest, w.from = t, IsRequest(w, r)
        PROVE  IsRequest(w, r)'
    <3>1. ~ Signaled(w.op) /\ w.op.new # NewValue(t, ops[t])
      BY <2>1, <1>2 DEF IsRequest, Waits, Polls
    <3>2. QED
      BY <2>1, <1>2, <3>1 DEF IsRequest
  <2>2. QED
    BY <2>1, <1>1, <1>2, <1>9, EntriesKept
<1>13. Completions' /\ OnePlace'
  <2>1. \A u \in Thread : Waits(u) => Waits(u)'
    BY <1>2, <1>9, OthersWait DEF Waits, Polls
  <2>2. \A u \in Thread : pc'[u] = "subtract" <=> pc[u] = "subtract"
    BY <1>2, <1>5
  <2>3. QED
    BY <2>1, <2>2, <1>1, <1>2, CompletionsKept
<1>14. Serial'
  <2>1. \A u \in Thread : Polls(u)' <=> Polls(u)
    BY <1>2, <1>5 DEF Polls
  <2>2. \A u \in Thread : pc'[u] \in {"expect", "post"} <=> pc[u] \in {"expect", "post"}
    BY <1>2, <1>5
  <2>3. QED
    BY <2>1, <2>2, <1>1, <1>2, SerialSame
<1>15. QED
  BY <1>7, <1>10, <1>11, <1>12, <1>13, <1>14 DEF IInv

LEMMA SpinInv == ASSUME IInv, NEW t \in Thread, Check(t) \/ PollEmpty(t), UNCHANGED overtaken
                 PROVE  IInv'
<1>1. Types /\ Ids /\ Counts /\ Asked /\ Entries /\ OneEntry /\ Completions /\ OnePlace
      /\ Serial
  BY DEF IInv
<1>2. PICK p \in {"check", "poll"} : pc' = [pc EXCEPT ![t] = p]
  BY DEF Check, PollEmpty, Go
<1>3. pc[t] \in {"check", "poll"}
      /\ UNCHANGED <<id_gen, thread_ids, counters, op, ops, buffer, result, took, sq, cq, mem,
                     fatal, history, overtaken>>
  BY DEF Check, PollEmpty, ctlVars
<1>4. pc'[t] = p /\ \A u \in Thread \ {t} : pc'[u] = pc[u]
  BY <1>1, <1>2 DEF Types
<1>5. \A u \in Thread : Polls(u)' <=> Polls(u)
  BY <1>3, <1>4 DEF Polls
<1>6. Types'
  <2>1. pc' \in [Thread -> {"new", "idle", "expect", "post", "check", "poll", "subtract"}]
    BY <1>1, <1>2 DEF Types
  <2>2. QED
    BY <2>1, <1>1, <1>3 DEF Types
<1>7. Ids' /\ Asked'
  BY <1>1, <1>3, <1>4 DEF Ids, Asked
<1>8. Counts'
  BY <1>1, <1>3, <1>4, <1>5 DEF Counts
<1>9. Others(t) /\ \A u \in Thread : Waits(u)' <=> Waits(u)
  BY <1>3, <1>4, <1>5 DEF Others, Waits
<1>10. Entries' /\ OneEntry'
  <2>1. ASSUME NEW r \in Qp, NEW w \in WorkRequest, w.from = t, IsRequest(w, r)
        PROVE  IsRequest(w, r)'
    BY <2>1, <1>3, <1>4, <1>9 DEF IsRequest
  <2>2. QED
    BY <2>1, <1>1, <1>3, <1>9, EntriesKept
<1>11. Completions' /\ OnePlace'
  <2>1. \A u \in Thread : pc'[u] = "subtract" <=> pc[u] = "subtract"
    BY <1>3, <1>4
  <2>2. QED
    BY <2>1, <1>1, <1>3, <1>9, CompletionsKept
<1>12. Serial'
  <2>1. \A u \in Thread : pc'[u] \in {"expect", "post"} <=> pc[u] \in {"expect", "post"}
    BY <1>3, <1>4
  <2>2. QED
    BY <2>1, <1>1, <1>3, <1>5, SerialSame
<1>13. QED
  BY <1>6, <1>7, <1>8, <1>10, <1>11, <1>12 DEF IInv

\* A request at the end of a queue.
LEMMA Appended ==
    ASSUME NEW S, NEW s \in Seq(S), NEW x \in S
    PROVE  /\ Append(s, x) \in Seq(S) /\ Len(s) \in Nat /\ Len(Append(s, x)) = Len(s) + 1
           /\ Append(s, x)[Len(s) + 1] = x
           /\ \A i \in 1..Len(s) : Append(s, x)[i] = s[i]
           /\ \A i \in 1..Len(Append(s, x)) : i \in 1..Len(s) \/ i = Len(s) + 1
           /\ \A i \in 1..Len(s) : i \in 1..Len(Append(s, x)) /\ i # Len(s) + 1
<1>1. Append(s, x) \in Seq(S) /\ Len(s) \in Nat /\ Len(Append(s, x)) = Len(s) + 1
  OBVIOUS
<1>2. Append(s, x)[Len(s) + 1] = x /\ \A i \in 1..Len(s) : Append(s, x)[i] = s[i]
  OBVIOUS
<1>3. QED
  BY <1>1, <1>2

\* A request or completion taken from the front of a queue.
LEMMA Removed ==
    ASSUME NEW S, NEW s \in Seq(S), s # <<>>
    PROVE  /\ Tail(s) \in Seq(S) /\ Head(s) \in S /\ Head(s) = s[1] /\ 1 \in 1..Len(s)
           /\ Len(s) \in Nat /\ Len(Tail(s)) = Len(s) - 1
           /\ \A i \in 1..Len(Tail(s)) : i + 1 \in 1..Len(s) /\ i + 1 # 1
                                         /\ Tail(s)[i] = s[i + 1]
<1>1. Tail(s) \in Seq(S) /\ Head(s) \in S /\ Len(Tail(s)) = Len(s) - 1 /\ Len(s) \in Nat
  BY HeadTailProperties
<1>2. Head(s) = s[1] /\ Len(s) # 0
  OBVIOUS
<1>3. \A i \in 1..Len(Tail(s)) : Tail(s)[i] = s[i + 1]
  BY HeadTailProperties
<1>4. QED
  BY <1>1, <1>2, <1>3

LEMMA PostInv == ASSUME IInv, NEW t \in Thread, Post(t), UNCHANGED overtaken
                 PROVE  IInv'
<1>1. Types /\ Ids /\ Counts /\ Asked /\ Entries /\ OneEntry /\ Completions /\ OnePlace
      /\ Serial
  BY DEF IInv
<1> DEFINE n == thread_ids[t]  o == op[t]  q == o.qp  x == [wr_id |-> n, from |-> t, op |-> o]
<1>2. pc[t] = "post" /\ pc' = [pc EXCEPT ![t] = "check"]
      /\ sq' = [sq EXCEPT ![q] = Append(sq[q], x)]
      /\ UNCHANGED <<id_gen, thread_ids, counters, op, ops, buffer, result, took, cq, mem, fatal,
                     history, overtaken>>
  BY DEF Post, Go, ctlVars
<1>3. n \in 1..THREAD_MAX /\ n # 0
  BY <1>1, <1>2, NumberTypes DEF Ids
<1>4. o \in Op /\ q \in Qp
  BY <1>1, OpFields DEF Types
<1>5. x \in WorkRequest /\ x.wr_id = n /\ x.from = t /\ x.op = o
  BY <1>3, <1>4 DEF WorkRequest
<1>6. pc'[t] = "check" /\ \A u \in Thread \ {t} : pc'[u] = pc[u]
  BY <1>1, <1>2 DEF Types
<1> DEFINE L == Len(sq[q])
<1> HIDE DEF n, o, x, q
<1>7. sq[q] \in Seq(WorkRequest)
  BY <1>1, <1>4 DEF Types
<1>8. /\ Append(sq[q], x) \in Seq(WorkRequest) /\ L \in Nat /\ Len(Append(sq[q], x)) = L + 1
      /\ Append(sq[q], x)[L + 1] = x
      /\ \A i \in 1..L : Append(sq[q], x)[i] = sq[q][i]
      /\ \A i \in 1..Len(Append(sq[q], x)) : i \in 1..L \/ i = L + 1
      /\ \A i \in 1..L : i \in 1..Len(Append(sq[q], x)) /\ i # L + 1
  BY <1>5, <1>7, Appended
<1>9. sq'[q] = Append(sq[q], x) /\ \A r \in Qp \ {q} : sq'[r] = sq[r]
  BY <1>1, <1>2, <1>4 DEF Types
<1> HIDE DEF L
\* The requests are those there were, and that of t.
<1>10. \A r \in Qp : \A i \in 1..Len(sq'[r]) :
          \/ i \in 1..Len(sq[r]) /\ sq'[r][i] = sq[r][i]
          \/ r = q /\ i = L + 1 /\ sq'[r][i] = x
  <2> SUFFICES ASSUME NEW r \in Qp, NEW i \in 1..Len(sq'[r])
               PROVE  \/ i \in 1..Len(sq[r]) /\ sq'[r][i] = sq[r][i]
                      \/ r = q /\ i = L + 1 /\ sq'[r][i] = x
    OBVIOUS
  <2>1. CASE r = q
    BY <2>1, <1>8, <1>9 DEF L
  <2>2. CASE r # q
    BY <2>2, <1>9
  <2>3. QED
    BY <2>1, <2>2
<1>11. Types'
  <2>1. pc' \in [Thread -> {"new", "idle", "expect", "post", "check", "poll", "subtract"}]
    BY <1>1, <1>2 DEF Types
  <2>2. sq' \in [Qp -> Seq(WorkRequest)]
    BY <1>1, <1>2, <1>8 DEF Types
  <2>3. QED
    BY <2>1, <2>2, <1>1, <1>2 DEF Types
<1>12. Others(t)
  BY <1>2, <1>6 DEF Others
<1>13. Ids' /\ Asked'
  BY <1>1, <1>2, <1>6 DEF Ids, Asked
<1>14. Counts'
  BY <1>1, <1>2, <1>6 DEF Counts, Polls
<1>15. \A u \in Thread : Waits(u) => u # t /\ Waits(u)'
  BY <1>2, <1>12, OthersWait DEF Waits, Polls
\* What t has posted before is not of its current call.
<1>16. \A r \in Qp : \A i \in 1..Len(sq[r]) :
         /\ sq[r][i] \in WorkRequest /\ IsRequest(sq[r][i], r)
         /\ sq[r][i].from = t => ~ Signaled(sq[r][i].op)
         /\ sq[r][i].op.new # NewValue(t, ops[t])
  <2> SUFFICES ASSUME NEW r \in Qp, NEW i \in 1..Len(sq[r])
               PROVE  /\ sq[r][i] \in WorkRequest /\ IsRequest(sq[r][i], r)
                      /\ sq[r][i].from = t => ~ Signaled(sq[r][i].op)
                      /\ sq[r][i].op.new # NewValue(t, ops[t])
    OBVIOUS
  <2> DEFINE w == sq[r][i]
  <2>1. w \in WorkRequest /\ IsRequest(w, r)
    BY <1>1, EntryType DEF Entries
  <2>2. PICK k \in 1..ops[w.from] : w.op.new = NewValue(w.from, k)
    BY <2>1 DEF IsRequest
  <2>3. w.from = t => ~ Signaled(w.op) /\ w.op.new # NewValue(t, ops[t])
    BY <2>1, <1>2 DEF IsRequest, Waits, Polls
  <2>4. w.from # t => w.op.new # NewValue(t, ops[t])
    BY <2>2, NewValueUnique
  <2>5. QED
    BY <2>1, <2>3, <2>4
<1>17. x.op.new = NewValue(t, ops[t]) /\ ops[t] # 0 /\ ops[t] \in Nat
  BY <1>1, <1>2, <1>5 DEF Asked, Types, o
<1>18. ASSUME NEW y, y = x, NEW p, p = q
       PROVE  IsRequest(y, p)'
  <2>1. Signaled(o) => Waits(t)'
    BY <1>1, <1>2, <1>3, <1>6 DEF Counts, Waits, Polls, n, o
  <2>2. \E k \in 1..ops[t] : x.op.new = NewValue(t, k)
    BY <1>17
  <2>3. o.kind \in {"write", "write_noack"} => buffer[t] = o.new
    BY <1>1, <1>2 DEF Asked, o
  <2>4. op'[t] = o /\ q = o.qp /\ thread_ids'[t] = n
    BY <1>2 DEF o, q, n
  <2>5. y.wr_id = n /\ y.from = t /\ y.op = o /\ pc'[t] = "check" /\ ops'[t] = ops[t]
        /\ buffer'[t] = buffer[t] /\ n # 0
    BY <1>2, <1>3, <1>5, <1>6, <1>18
  <2>6. QED
    BY <2>1, <2>2, <2>3, <2>4, <2>5, <1>5, <1>18 DEF IsRequest
<1>19. Entries'
  <2> SUFFICES ASSUME NEW r \in Qp, NEW i \in 1..Len(sq'[r])
               PROVE  IsRequest(sq[r][i], r)'
    BY DEF Entries
  <2>1. CASE i \in 1..Len(sq[r]) /\ sq'[r][i] = sq[r][i]
    <3> DEFINE w == sq[r][i]
    <3>1. w \in WorkRequest /\ IsRequest(w, r) /\ w.op.new # NewValue(t, ops[t])
          /\ (w.from = t => ~ Signaled(w.op))
      BY <2>1, <1>16
    <3>2. ASSUME NEW y, y = w
          PROVE  IsRequest(y, r)'
      <4>1. CASE y.from = t
        BY <4>1, <3>1, <3>2, <1>2 DEF IsRequest
      <4>2. CASE y.from # t
        BY <4>2, <3>1, <3>2, <1>12, OthersRequest
      <4>3. QED
        BY <4>1, <4>2
    <3>3. w' = w
      BY <2>1
    <3>4. QED
      BY <3>2, <3>3 DEF IsRequest, Waits, Polls
  <2>2. CASE r = q /\ i = L + 1 /\ sq'[r][i] = x
    BY <2>2, <1>18 DEF IsRequest, Waits, Polls
  <2>3. QED
    BY <2>1, <2>2, <1>10
<1>20. OneEntry'
  <2> SUFFICES ASSUME NEW r \in Qp, NEW s \in Qp, NEW i \in 1..Len(sq'[r]),
                      NEW j \in 1..Len(sq'[s]), sq'[r][i].op.new = sq'[s][j].op.new
               PROVE  r = s /\ i = j
    BY DEF OneEntry
  <2>1. CASE i \in 1..Len(sq[r]) /\ sq'[r][i] = sq[r][i]
             /\ j \in 1..Len(sq[s]) /\ sq'[s][j] = sq[s][j]
    BY <2>1, <1>1 DEF OneEntry
  <2>2. CASE i \in 1..Len(sq[r]) /\ sq'[r][i] = sq[r][i]
             /\ s = q /\ j = L + 1 /\ sq'[s][j] = x
    BY <2>2, <1>16, <1>17
  <2>3. CASE j \in 1..Len(sq[s]) /\ sq'[s][j] = sq[s][j]
             /\ r = q /\ i = L + 1 /\ sq'[r][i] = x
    BY <2>3, <1>16, <1>17
  <2>4. CASE r = q /\ i = L + 1 /\ s = q /\ j = L + 1
    BY <2>4
  <2>5. QED
    BY <2>1, <2>2, <2>3, <2>4, <1>10
<1>21. Completions'
  <2>1. \A u \in Thread : pc'[u] = "subtract" <=> pc[u] = "subtract"
    BY <1>2, <1>6
  <2>2. QED
    BY <2>1, <1>1, <1>2, <1>15 DEF Completions
<1>22. \A u \in Thread \ {t}, r \in Qp, i \in Nat : InSq(u, r, i)' => InSq(u, r, i)
  BY <1>5, <1>10 DEF InSq
<1>23. OnePlace'
  <2> SUFFICES ASSUME NEW u \in Thread, thread_ids'[u] # 0
               PROVE  AtOnePlace(u)'
    BY DEF OnePlace
  <2>1. /\ \A a \in Qp, i \in Nat : InCq(u, a, i)' <=> InCq(u, a, i)
        /\ \A y \in Thread : With(u, y)' <=> With(u, y)
    BY <1>2 DEF InCq, With
  <2>2. CASE u = t
    <3>1. ~ Waits(t) /\ thread_ids[t] # 0
      BY <1>2, <1>3 DEF Waits, Polls, n
    <3>2. \A a \in Qp, i \in Nat : ~ InCq(t, a, i)
      BY <3>1, <1>1 DEF Completions, InCq, Ids
    <3>3. \A y \in Thread : ~ With(t, y)
      BY <3>1, <1>1 DEF Completions, With, Ids
    <3>4. QED
      BY <2>1, <2>2, <3>2, <3>3 DEF AtOnePlace
  <2>3. CASE u # t
    <3>1. thread_ids[u] # 0
      BY <1>2
    <3>2. \A a \in Qp, i \in Nat : InSq(u, a, i)' => InSq(u, a, i)
      BY <2>3, <1>22
    <3>3. QED
      BY <2>1, <3>1, <3>2, <1>1 DEF OnePlace, AtOnePlace
  <2>4. QED
    BY <2>2, <2>3
<1>24. Serial'
  <2>1. \A u \in Thread \ {t} : Queued(u)' <=> Queued(u)
    <3>1. ASSUME NEW u \in Thread \ {t}, NEW r \in Qp, NEW i \in Nat, InSq(u, r, i)
          PROVE  InSq(u, r, i)'
      <4>1. CASE r = q
        BY <3>1, <4>1, <1>8, <1>9 DEF InSq, L
      <4>2. CASE r # q
        BY <3>1, <4>2, <1>9 DEF InSq
      <4>3. QED
        BY <4>1, <4>2
    <3>2. QED
      BY <3>1, <1>22 DEF Queued
  <2>2. Signaled(o) => Queued(t)'
    <3>1. L + 1 \in Nat /\ L + 1 \in 1..Len(sq'[q]) /\ sq'[q][L + 1] = x
      BY <1>8, <1>9
    <3>2. ASSUME Signaled(o), NEW r, r = q, NEW i, i = L + 1
          PROVE  InSq(t, r, i)'
      BY <3>1, <3>2, <1>5 DEF InSq, Signaled
    <3>3. QED
      BY <3>1, <3>2, <1>4 DEF Queued
  <2>3. ~ Claims(t)' /\ ~ Unwritten(t)'
    BY <2>2, <1>2, <1>6 DEF Claims, Unwritten, Polls, Signaled, o
  <2>4. \A u \in Thread \ {t} : (Claims(u)' <=> Claims(u)) /\ Claim(u)' = Claim(u)
                                /\ (Unwritten(u)' <=> Unwritten(u))
    BY <2>1, <1>2, <1>6 DEF Claims, Claim, Unwritten, Polls
  <2>5. Replaced' \subseteq Replaced
    BY <2>3, <2>4, <1>2 DEF Replaced
  <2>6. ASSUME NEW v, Spent(v)
        PROVE  Spent(v)'
    <3>1. x.op.new # v
      BY <2>6, <1>2, <1>5 DEF Spent, Unwritten, o
    <3>2. \A r \in Qp : \A i \in 1..Len(sq'[r]) : sq'[r][i].op.new # v
      BY <3>1, <2>6, <1>10 DEF Spent
    <3>3. \A u \in Thread : Unwritten(u)' => op'[u].new # v
      BY <2>3, <2>4, <2>6, <1>2 DEF Spent
    <3>4. QED
      BY <3>2, <3>3, <2>6, <1>2 DEF Spent
  <2>7. QED
    BY <2>5, <2>6, <1>1, <1>2, SerialKept
<1>25. QED
  BY <1>11, <1>13, <1>14, <1>19, <1>20, <1>21, <1>23, <1>24 DEF IInv

LEMMA PollInv == ASSUME IInv, NEW t \in Thread, Poll(t), UNCHANGED overtaken
                 PROVE  IInv'
<1>1. Types /\ Ids /\ Counts /\ Asked /\ Entries /\ OneEntry /\ Completions /\ OnePlace
      /\ Serial
  BY DEF IInv
<1> DEFINE q == op[t].qp  c == Head(cq[q])
<1>2. pc[t] = "poll" /\ cq[q] # <<>> /\ pc' = [pc EXCEPT ![t] = "subtract"]
      /\ took' = [took EXCEPT ![t] = c] /\ cq' = [cq EXCEPT ![q] = Tail(cq[q])]
      /\ UNCHANGED <<id_gen, thread_ids, counters, op, ops, buffer, result, sq, mem, fatal,
                     history, overtaken>>
  BY DEF Poll, Go, ctlVars
<1>3. q \in Qp
  BY <1>1, OpFields DEF Types
<1> HIDE DEF q
<1>4. cq[q] \in Seq(1..THREAD_MAX)
  BY <1>1, <1>3 DEF Types
<1>5. /\ Tail(cq[q]) \in Seq(1..THREAD_MAX) /\ c \in 1..THREAD_MAX /\ c = cq[q][1]
      /\ 1 \in 1..Len(cq[q])
      /\ \A i \in 1..Len(Tail(cq[q])) : i + 1 \in 1..Len(cq[q]) /\ i + 1 # 1
                                        /\ Tail(cq[q])[i] = cq[q][i + 1]
  BY <1>2, <1>4, Removed
<1> HIDE DEF c
<1>6. cq'[q] = Tail(cq[q]) /\ \A r \in Qp \ {q} : cq'[r] = cq[r]
  BY <1>1, <1>2, <1>3 DEF Types
<1>7. pc'[t] = "subtract" /\ \A u \in Thread \ {t} : pc'[u] = pc[u]
  BY <1>1, <1>2 DEF Types
<1>8. took'[t] = c /\ c # 0 /\ \A u \in Thread \ {t} : took'[u] = took[u]
  <2>1. c # 0
    BY <1>5, <1>1, NumberTypes
  <2>2. took \in [Thread -> Nat]
    BY <1>1, NumberTypes
  <2>3. QED
    BY <2>1, <2>2, <1>2
<1>9. Types'
  <2>1. pc' \in [Thread -> {"new", "idle", "expect", "post", "check", "poll", "subtract"}]
    BY <1>1, <1>2 DEF Types
  <2>2. cq' \in [Qp -> Seq(1..THREAD_MAX)]
    <3>1. cq \in [Qp -> Seq(1..THREAD_MAX)]
      BY <1>1 DEF Types
    <3>2. QED
      BY <3>1, <1>2, <1>5
  <2>3. took' \in [Thread -> 0..THREAD_MAX]
    <3>1. took \in [Thread -> 0..THREAD_MAX]
      BY <1>1 DEF Types
    <3>2. c \in 0..THREAD_MAX
      BY <1>1, <1>5, NumberTypes
    <3>3. QED
      BY <3>1, <3>2, <1>2
  <2>4. QED
    BY <2>1, <2>2, <2>3, <1>1, <1>2 DEF Types
<1>10. \A u \in Thread : Polls(u)' <=> Polls(u)
  BY <1>2, <1>7 DEF Polls
<1>11. Ids' /\ Asked'
  BY <1>1, <1>2, <1>7 DEF Ids, Asked
<1>12. Counts'
  BY <1>1, <1>2, <1>7, <1>10 DEF Counts
<1>13. Others(t) /\ \A u \in Thread : Waits(u)' <=> Waits(u)
  BY <1>2, <1>7, <1>10 DEF Others, Waits
<1>14. Entries' /\ OneEntry'
  <2>1. ASSUME NEW r \in Qp, NEW w \in WorkRequest, w.from = t, IsRequest(w, r)
        PROVE  IsRequest(w, r)'
    BY <2>1, <1>2, <1>7, <1>13 DEF IsRequest
  <2>2. QED
    BY <2>1, <1>1, <1>2, <1>13, EntriesKept
\* The completions are those there were, and the first one is with t.
<1>15. \A r \in Qp : \A i \in 1..Len(cq'[r]) :
          \/ r # q /\ i \in 1..Len(cq[r]) /\ cq'[r][i] = cq[r][i]
          \/ r = q /\ i + 1 \in 1..Len(cq[r]) /\ i + 1 # 1 /\ cq'[r][i] = cq[r][i + 1]
  <2> SUFFICES ASSUME NEW r \in Qp, NEW i \in 1..Len(cq'[r])
               PROVE  \/ r # q /\ i \in 1..Len(cq[r]) /\ cq'[r][i] = cq[r][i]
                      \/ r = q /\ i + 1 \in 1..Len(cq[r]) /\ i + 1 # 1
                         /\ cq'[r][i] = cq[r][i + 1]
    OBVIOUS
  <2>1. CASE r = q
    BY <2>1, <1>5, <1>6
  <2>2. CASE r # q
    BY <2>2, <1>6
  <2>3. QED
    BY <2>1, <2>2
<1>16. Completions'
  <2>1. \A r \in Qp : \A i \in 1..Len(cq'[r]) :
           \E u \in Thread : cq'[r][i] = thread_ids'[u] /\ Waits(u)'
    BY <1>1, <1>2, <1>13, <1>15 DEF Completions
  <2>2. \A u \in Thread : took'[u] # 0 <=> pc'[u] = "subtract"
    BY <1>1, <1>7, <1>8 DEF Completions
  <2>3. \A u \in Thread : took'[u] # 0 => \E v \in Thread : took'[u] = thread_ids'[v] /\ Waits(v)'
    BY <1>1, <1>2, <1>3, <1>5, <1>8, <1>13 DEF Completions
  <2>4. QED
    BY <2>1, <2>2, <2>3 DEF Completions
<1>17. took[t] = 0
  BY <1>1, <1>2 DEF Completions
<1>18. OnePlace'
  <2> SUFFICES ASSUME NEW u \in Thread, thread_ids'[u] # 0
               PROVE  AtOnePlace(u)'
    BY DEF OnePlace
  <2>1. thread_ids[u] # 0 /\ thread_ids'[u] = thread_ids[u]
    BY <1>2
  <2>2. \A a \in Qp, i \in Nat : InSq(u, a, i)' <=> InSq(u, a, i)
    BY <1>2 DEF InSq
  <2>3. \A a \in Qp, i \in Nat : InCq(u, a, i)' =>
           \/ a # q /\ InCq(u, a, i)
           \/ a = q /\ i + 1 \in Nat /\ i + 1 # 1 /\ InCq(u, a, i + 1)
    BY <2>1, <1>15 DEF InCq
  <2>4. \A y \in Thread : With(u, y)' => \/ y # t /\ With(u, y)
                                         \/ y = t /\ InCq(u, q, 1)
    BY <2>1, <1>5, <1>8 DEF With, InCq
  <2>5. /\ \A a, r \in Qp, i, j \in Nat :
                InCq(u, a, i) /\ InCq(u, r, j) => a = r /\ i = j
        /\ \A y, v \in Thread : With(u, y) /\ With(u, v) => y = v
        /\ \A a, r \in Qp, i, j \in Nat : InSq(u, a, i) => ~ InCq(u, r, j)
        /\ \A a \in Qp, i \in Nat, y \in Thread :
                InSq(u, a, i) \/ InCq(u, a, i) => ~ With(u, y)
    BY <2>1, <1>1 DEF OnePlace, AtOnePlace
  <2>6. \A i, j \in Nat : i + 1 = j + 1 => i = j
    OBVIOUS
  <2>7. 1 \in Nat
    OBVIOUS
  <2>8. \A a, r \in Qp, i, j \in Nat : InCq(u, a, i)' /\ InCq(u, r, j)' => a = r /\ i = j
    BY <2>3, <2>5, <2>6
  <2>9. \A y, v \in Thread : With(u, y)' /\ With(u, v)' => y = v
    BY <2>4, <2>5, <2>7, <1>3
  <2>10. \A a, r \in Qp, i, j \in Nat : InSq(u, a, i)' => ~ InCq(u, r, j)'
    BY <2>2, <2>3, <2>5
  <2>11. \A a \in Qp, i \in Nat, y \in Thread : InSq(u, a, i)' => ~ With(u, y)'
    BY <2>2, <2>4, <2>5, <2>7, <1>3
  <2>12. \A a \in Qp, i \in Nat, y \in Thread : InCq(u, a, i)' => ~ With(u, y)'
    BY <2>3, <2>4, <2>5, <2>7, <1>3
  <2>13. QED
    BY <2>8, <2>9, <2>10, <2>11, <2>12 DEF AtOnePlace
<1>19. Serial'
  <2>1. \A u \in Thread : pc'[u] \in {"expect", "post"} <=> pc[u] \in {"expect", "post"}
    BY <1>2, <1>7
  <2>2. QED
    BY <2>1, <1>1, <1>2, <1>10, SerialSame
<1>20. QED
  BY <1>9, <1>11, <1>12, <1>14, <1>16, <1>18, <1>19 DEF IInv

\* The counter that a completion is subtracted from is that of a thread that waits.
LEMMA TookOne ==
    ASSUME IInv, NEW t \in Thread, pc[t] = "subtract"
    PROVE  \E u \in Thread : /\ took[t] = thread_ids[u] /\ Waits(u) /\ With(u, t)
                             /\ counters[took[t]] = 1
  BY DEF IInv, Completions, With, Waits

LEMMA SubtractInv == ASSUME IInv, NEW t \in Thread, Subtract(t), UNCHANGED overtaken
                     PROVE  IInv'
<1>1. Types /\ Ids /\ Counts /\ Asked /\ Entries /\ OneEntry /\ Completions /\ OnePlace
      /\ Serial
  BY DEF IInv
<1> DEFINE n == took[t]
<1>2. pc[t] = "subtract" /\ pc' = [pc EXCEPT ![t] = "check"]
      /\ counters' = [counters EXCEPT ![n] = counters[n] - 1]
      /\ fatal' = (IF counters[n] < 1 THEN "Broken synchronization" ELSE fatal)
      /\ took' = [took EXCEPT ![t] = 0]
      /\ UNCHANGED <<id_gen, thread_ids, op, ops, buffer, result, sq, cq, mem, history,
                     overtaken>>
  BY DEF Subtract, Go, ctlVars
<1>3. PICK u \in Thread : n = thread_ids[u] /\ Waits(u) /\ With(u, t) /\ counters[n] = 1
  BY <1>2, TookOne
<1>4. n # 0 /\ n \in 1..THREAD_MAX
  BY <1>1, <1>3, NumberTypes DEF Waits
<1> HIDE DEF n
<1>5. counters' = [counters EXCEPT ![n] = 0] /\ fatal' = fatal
  BY <1>2, <1>3
<1>6. counters'[n] = 0 /\ counters' \in [1..THREAD_MAX -> Int]
      /\ \A m \in 1..THREAD_MAX : m # n => counters'[m] = counters[m]
  <2>1. counters \in [1..THREAD_MAX -> Int]
    BY <1>1 DEF Types
  <2>2. QED
    BY <2>1, <1>4, <1>5, SetCounter
<1>7. pc'[t] = "check" /\ \A v \in Thread \ {t} : pc'[v] = pc[v]
  BY <1>1, <1>2 DEF Types
<1>8. took'[t] = 0 /\ \A v \in Thread \ {t} : took'[v] = took[v]
  <2>1. took \in [Thread -> Nat]
    BY <1>1, NumberTypes
  <2>2. QED
    BY <2>1, <1>2
<1>9. Types'
  <2>1. pc' \in [Thread -> {"new", "idle", "expect", "post", "check", "poll", "subtract"}]
    BY <1>1, <1>2 DEF Types
  <2>2. took' \in [Thread -> 0..THREAD_MAX]
    <3>1. took \in [Thread -> 0..THREAD_MAX]
      BY <1>1 DEF Types
    <3>2. 0 \in 0..THREAD_MAX
      BY <1>1, NumberTypes
    <3>3. QED
      BY <3>1, <3>2, <1>2
  <2>3. QED
    BY <2>1, <2>2, <1>1, <1>2, <1>5, <1>6 DEF Types
<1>10. \A v \in Thread : Polls(v)' <=> Polls(v)
  BY <1>2, <1>7 DEF Polls
<1>11. \A v \in Thread \ {u} : thread_ids[v] # 0 =>
          counters'[thread_ids[v]] = counters[thread_ids[v]]
  <2>1. \A v \in Thread \ {u} : thread_ids[v] # 0 =>
           thread_ids[v] \in 1..THREAD_MAX /\ thread_ids[v] # n
    BY <1>1, <1>3, NumberTypes DEF Ids
  <2>2. QED
    BY <2>1, <1>6
<1>12. Ids' /\ Asked'
  BY <1>1, <1>2, <1>7 DEF Ids, Asked
<1>13. Counts'
  <2> SUFFICES ASSUME NEW v \in Thread, thread_ids[v] # 0
               PROVE  /\ counters'[thread_ids[v]] \in {0, 1}
                      /\ counters'[thread_ids[v]] = 1 =>
                           Signaled(op[v]) /\ (Polls(v)' \/ pc'[v] = "post")
                      /\ pc'[v] = "post" /\ Signaled(op[v]) => counters'[thread_ids[v]] = 1
    BY <1>2 DEF Counts
  <2>1. CASE v = u
    <3>1. Polls(u)'
      BY <1>3, <1>10 DEF Waits
    <3>2. QED
      BY <2>1, <3>1, <1>3, <1>6 DEF Polls
  <2>2. CASE v # u
    BY <2>2, <1>1, <1>2, <1>7, <1>10, <1>11 DEF Counts
  <2>3. QED
    BY <2>1, <2>2
<1>14. \A v \in Thread : v # u /\ Waits(v) => Waits(v)'
  BY <1>2, <1>10, <1>11 DEF Waits
\* The completion was the only thing that u waited for.
<1>15. /\ \A q \in Qp, i \in Nat : ~ InSq(u, q, i) /\ ~ InCq(u, q, i)
       /\ \A v \in Thread : With(u, v) => v = t
  BY <1>1, <1>3, <1>4 DEF OnePlace, AtOnePlace
<1>16. Entries'
  <2> SUFFICES ASSUME NEW q \in Qp, NEW i \in 1..Len(sq[q])
               PROVE  IsRequest(sq[q][i], q)'
    BY <1>2 DEF Entries
  <2> DEFINE w == sq[q][i]
  <2>1. w \in WorkRequest /\ IsRequest(w, q) /\ w' = w /\ w.from \in Thread /\ i \in Nat
    <3>1. w \in WorkRequest /\ IsRequest(w, q)
      BY <1>1, EntryType DEF Entries
    <3>2. w' = w
      BY <1>2
    <3>3. i \in Nat
      OBVIOUS
    <3>4. QED
      BY <3>1, <3>2, <3>3, RequestFields
  <2>2. Signaled(w.op) => w.from # u
    BY <2>1, <1>15 DEF InSq
  <2>3. Signaled(w.op) => Waits(w.from)'
    BY <2>1, <2>2, <1>14 DEF IsRequest
  <2>4. pc[w.from] \notin {"new", "expect", "post"} => pc'[w.from] \notin {"new", "expect", "post"}
    BY <2>1, <1>7
  <2> HIDE DEF w
  <2>5. IsRequest(w, q)'
    BY <2>1, <2>3, <2>4, <1>2 DEF IsRequest, Waits, Polls
  <2>6. QED
    BY <2>5 DEF w
<1>17. OneEntry'
  <2>1. OneEntry /\ sq' = sq
    BY <1>1, <1>2
  <2>2. QED
    BY <2>1 DEF OneEntry
<1>18. Completions'
  <2>1. ASSUME NEW q \in Qp, NEW i \in 1..Len(cq[q])
        PROVE  \E v \in Thread : cq[q][i] = thread_ids[v] /\ Waits(v)'
    <3>1. PICK v \in Thread : cq[q][i] = thread_ids[v] /\ Waits(v)
      BY <1>1, <2>1 DEF Completions
    <3>2. i \in Nat
      OBVIOUS
    <3>3. v # u
      BY <3>1, <3>2, <2>1, <1>15 DEF InCq
    <3>4. QED
      BY <3>1, <3>3, <1>14
  <2>2. \A v \in Thread : took'[v] # 0 <=> pc'[v] = "subtract"
    BY <1>1, <1>7, <1>8 DEF Completions
  <2>3. ASSUME NEW x \in Thread, took'[x] # 0
        PROVE  \E v \in Thread : took'[x] = thread_ids[v] /\ Waits(v)'
    <3>1. x # t /\ took'[x] = took[x]
      BY <2>3, <1>8
    <3>2. PICK v \in Thread : took[x] = thread_ids[v] /\ Waits(v)
      BY <1>1, <2>3, <3>1 DEF Completions
    <3>3. v # u
      BY <3>1, <3>2, <2>3, <1>15 DEF With
    <3>4. QED
      BY <3>1, <3>2, <3>3, <1>14
  <2>4. \A q \in Qp : \A i \in 1..Len(cq'[q]) :
           \E v \in Thread : cq'[q][i] = thread_ids'[v] /\ Waits(v)'
    BY <2>1, <1>2
  <2>5. \A x \in Thread : took'[x] # 0 =>
           \E v \in Thread : took'[x] = thread_ids'[v] /\ Waits(v)'
    BY <2>3, <1>2
  <2>6. QED
    BY <2>2, <2>4, <2>5 DEF Completions
<1>19. OnePlace'
  <2>1. \A v, x \in Thread : With(v, x)' => With(v, x)
    BY <1>2, <1>8 DEF With
  <2>2. \A v, q, i : (InSq(v, q, i)' <=> InSq(v, q, i)) /\ (InCq(v, q, i)' <=> InCq(v, q, i))
    BY <1>2 DEF InSq, InCq
  <2>3. thread_ids' = thread_ids
    BY <1>2
  <2>4. ASSUME NEW v \in Thread, AtOnePlace(v)
        PROVE  AtOnePlace(v)'
    BY <2>1, <2>2, <2>4 DEF AtOnePlace
  <2>5. QED
    BY <2>3, <2>4, <1>1 DEF OnePlace
<1>20. Serial'
  <2>1. \A v \in Thread : pc'[v] \in {"expect", "post"} <=> pc[v] \in {"expect", "post"}
    BY <1>2, <1>7
  <2>2. QED
    BY <2>1, <1>1, <1>2, <1>10, SerialSame
<1>21. QED
  BY <1>9, <1>12, <1>13, <1>16, <1>17, <1>18, <1>19, <1>20 DEF IInv

\* The polling loop is left when the own request has been executed.
LEMMA ReturnsExecuted ==
    ASSUME IInv, NEW t \in Thread, pc[t] = "check", counters[thread_ids[t]] = 0
    PROVE  /\ ~ Waits(t) /\ ~ Queued(t)
           /\ \A q \in Qp, w \in WorkRequest : w.from = t /\ IsRequest(w, q) => ~ Signaled(w.op)
<1>1. Types /\ Entries
  BY DEF IInv
<1>2. ~ Waits(t)
  BY DEF Waits
<1>3. \A q \in Qp, w \in WorkRequest : w.from = t /\ IsRequest(w, q) => ~ Signaled(w.op)
  BY <1>2 DEF IsRequest
<1>4. ASSUME NEW q \in Qp, NEW i \in Nat, InSq(t, q, i)
      PROVE  FALSE
  <2>1. i \in 1..Len(sq[q]) /\ sq[q][i].from = t /\ Signaled(sq[q][i].op)
    BY <1>4 DEF InSq
  <2>2. sq[q][i] \in WorkRequest /\ IsRequest(sq[q][i], q)
    BY <1>1, <2>1, EntryType DEF Entries
  <2>3. QED
    BY <1>3, <2>1, <2>2
<1>5. QED
  BY <1>2, <1>3, <1>4 DEF Queued

LEMMA ReturnInv == ASSUME IInv, NEW t \in Thread, Return(t), UNCHANGED overtaken
                   PROVE  IInv'
<1>1. Types /\ Ids /\ Counts /\ Asked /\ Entries /\ OneEntry /\ Completions /\ OnePlace
      /\ Serial
  BY DEF IInv
<1>2. pc[t] = "check" /\ counters[thread_ids[t]] = 0
      /\ UNCHANGED <<id_gen, thread_ids, counters, ops, buffer, result, took, sq, cq, mem, fatal,
                     overtaken>>
  BY DEF Return, ctlVars
<1>3. ~ Waits(t) /\ ~ Queued(t)
      /\ \A q \in Qp, w \in WorkRequest : w.from = t /\ IsRequest(w, q) => ~ Signaled(w.op)
  BY <1>2, ReturnsExecuted
<1>4. \A u : Queued(u)' <=> Queued(u)
  BY <1>2 DEF Queued, InSq
<1>5. thread_ids[t] # 0
  BY <1>1, <1>2 DEF Ids
<1>6. CASE op[t].kind = "swap" /\ result[t] # op[t].expect
  <2> DEFINE o == [op[t] EXCEPT !.expect = result[t]]
  <2>1. op' = [op EXCEPT ![t] = o] /\ pc' = [pc EXCEPT ![t] = "expect"] /\ history' = history
    BY <1>6 DEF Return, Go
  <2>2. op[t] \in Op /\ result[t] \in Value
    BY <1>1 DEF Types
  <2>3. o \in Op /\ o.kind = op[t].kind /\ o.qp = op[t].qp /\ o.new = op[t].new
    BY <2>2 DEF Op
  <2> HIDE DEF o
  <2>4. op'[t] = o /\ pc'[t] = "expect"
        /\ \A u \in Thread \ {t} : op'[u] = op[u] /\ pc'[u] = pc[u]
    BY <1>1, <2>1 DEF Types
  <2>5. Types'
    <3>1. pc' \in [Thread -> {"new", "idle", "expect", "post", "check", "poll", "subtract"}]
          /\ op' \in [Thread -> Op]
      BY <1>1, <2>1, <2>3 DEF Types
    <3>2. QED
      BY <3>1, <1>1, <1>2, <2>1 DEF Types
  <2>6. Others(t)
    BY <1>2, <2>4 DEF Others
  <2>7. Ids'
    BY <1>1, <1>2, <2>4 DEF Ids
  <2>8. Asked'
    BY <1>1, <1>2, <2>3, <2>4 DEF Asked
  <2>9. Counts'
    BY <1>1, <1>2, <2>4 DEF Counts, Polls
  <2>10. Entries' /\ OneEntry'
    <3>1. ASSUME NEW q \in Qp, NEW w \in WorkRequest, w.from = t, IsRequest(w, q)
          PROVE  IsRequest(w, q)'
      <4>1. ~ Signaled(w.op)
        BY <1>3, <3>1
      <4>2. w.op.new # NewValue(t, ops[t])
        BY <4>1, <3>1, <1>6 DEF IsRequest, Signaled
      <4>3. QED
        BY <3>1, <4>1, <4>2, <1>2 DEF IsRequest
    <3>2. QED
      BY <3>1, <2>6, <1>1, <1>2, EntriesKept
  <2>11. Completions' /\ OnePlace'
    <3>1. \A u \in Thread : Waits(u) => Waits(u)'
      BY <1>3, <2>6, OthersWait
    <3>2. \A u \in Thread : pc'[u] = "subtract" <=> pc[u] = "subtract"
      BY <1>2, <2>4
    <3>3. QED
      BY <3>1, <3>2, <1>1, <1>2, CompletionsKept
  <2>12. Serial'
    <3>1. \A u \in Thread \ {t} : (Claims(u)' <=> Claims(u)) /\ Claim(u)' = Claim(u)
                                  /\ (Unwritten(u)' <=> Unwritten(u))
      BY <1>2, <1>4, <2>4 DEF Claims, Claim, Unwritten, Polls
    <3>2. ~ Claims(t)' /\ Unwritten(t)
      BY <1>2, <1>3, <1>6, <2>4 DEF Claims, Unwritten, Polls
    <3>3. Replaced' \subseteq Replaced
      BY <3>1, <3>2, <2>1 DEF Replaced
    <3>4. ASSUME NEW v, Spent(v)
          PROVE  Spent(v)'
      <4>1. \A u \in Thread : Unwritten(u)' => op'[u].new # v
        BY <3>1, <3>2, <3>4, <2>3, <2>4 DEF Spent
      <4>2. QED
        BY <4>1, <3>4, <1>2 DEF Spent
    <3>5. QED
      BY <3>3, <3>4, <1>1, <1>2, SerialKept
  <2>13. QED
    BY <2>5, <2>7, <2>8, <2>9, <2>10, <2>11, <2>12 DEF IInv
<1>7. CASE op[t].kind # "swap" \/ result[t] = op[t].expect
  <2>1. pc' = [pc EXCEPT ![t] = "idle"] /\ op' = op /\ Succeeds(t)
    BY <1>7 DEF Return, Go
  <2>2. pc'[t] = "idle" /\ \A u \in Thread \ {t} : pc'[u] = pc[u]
    BY <1>1, <2>1 DEF Types
  <2>3. history' \in {history, history \cup {Claim(t)}}
        /\ (Claim(t) \in history' \ history => Claims(t))
    BY <1>2, <1>3, <1>7, <2>1 DEF Succeeds, Claim, Claims, Took, Polls
  <2>4. Claim(t) \in Qp \X Value \X Value
    BY <1>1, OpFields DEF Types, Claim
  <2>5. Types'
    <3>1. pc' \in [Thread -> {"new", "idle", "expect", "post", "check", "poll", "subtract"}]
      BY <1>1, <2>1 DEF Types
    <3>2. history' \subseteq Qp \X Value \X Value
      BY <1>1, <2>3, <2>4 DEF Types
    <3>3. QED
      BY <3>1, <3>2, <1>1, <1>2, <2>1 DEF Types
  <2>6. Others(t)
    BY <1>2, <2>1, <2>2 DEF Others
  <2>7. Ids'
    BY <1>1, <1>2, <2>2 DEF Ids
  <2>8. Asked'
    BY <1>1, <1>2, <2>1, <2>2 DEF Asked
  <2>9. Counts'
    BY <1>1, <1>2, <2>1, <2>2 DEF Counts, Polls
  <2>10. Entries' /\ OneEntry'
    <3>1. ASSUME NEW q \in Qp, NEW w \in WorkRequest, w.from = t, IsRequest(w, q)
          PROVE  IsRequest(w, q)'
      <4>1. ~ Signaled(w.op)
        BY <1>3, <3>1
      <4>2. QED
        BY <3>1, <4>1, <1>2, <2>1, <2>2 DEF IsRequest
    <3>2. QED
      BY <3>1, <2>6, <1>1, <1>2, EntriesKept
  <2>11. Completions' /\ OnePlace'
    <3>1. \A u \in Thread : Waits(u) => Waits(u)'
      BY <1>3, <2>6, OthersWait
    <3>2. \A u \in Thread : pc'[u] = "subtract" <=> pc[u] = "subtract"
      BY <1>2, <2>2
    <3>3. QED
      BY <3>1, <3>2, <1>1, <1>2, CompletionsKept
  <2>12. Serial'
    <3>1. \A u \in Thread \ {t} : (Claims(u)' <=> Claims(u)) /\ Claim(u)' = Claim(u)
                                  /\ (Unwritten(u)' <=> Unwritten(u))
      BY <1>2, <1>4, <2>1, <2>2 DEF Claims, Claim, Unwritten, Polls
    <3>2. ~ Claims(t)' /\ ~ Unwritten(t)'
      BY <2>2 DEF Claims, Unwritten, Polls
    <3>3. Replaced' \subseteq Replaced
      <4>1. ASSUME NEW a \in Replaced'
            PROVE  a \in Replaced
        <5>1. CASE a \in history'
          BY <5>1, <2>3 DEF Replaced
        <5>2. CASE a \notin history'
          BY <4>1, <5>2, <3>1, <3>2 DEF Replaced
        <5>3. QED
          BY <5>1, <5>2
      <4>2. QED
        BY <4>1
    <3>4. ASSUME NEW v, Spent(v)
          PROVE  Spent(v)'
      <4>1. \A u \in Thread : Unwritten(u)' => op'[u].new # v
        BY <3>1, <3>2, <3>4, <2>1 DEF Spent
      <4>2. QED
        BY <4>1, <3>4, <1>2 DEF Spent
    <3>5. QED
      BY <3>3, <3>4, <1>1, <1>2, SerialKept
  <2>13. QED
    BY <2>5, <2>7, <2>8, <2>9, <2>10, <2>11, <2>12 DEF IInv
<1>8. QED
  BY <1>6, <1>7

-----------------------------------------------------------------------------
(* The adapter.                                                             *)

\* The request that is executed is gone, the others have moved up.
LEMMA Executed ==
    ASSUME Types, Entries, OneEntry, NEW q \in Qp, sq[q] # <<>>,
           sq' = [sq EXCEPT ![q] = Tail(sq[q])]
    PROVE  /\ sq' \in [Qp -> Seq(WorkRequest)]
           /\ Head(sq[q]) \in WorkRequest /\ IsRequest(Head(sq[q]), q)
           /\ 1 \in 1..Len(sq[q]) /\ sq[q][1] = Head(sq[q])
           /\ \A r \in Qp : \A i \in 1..Len(sq'[r]) :
                \/ r # q /\ i \in 1..Len(sq[r]) /\ sq'[r][i] = sq[r][i]
                \/ r = q /\ i + 1 \in 1..Len(sq[r]) /\ i + 1 # 1 /\ sq'[r][i] = sq[r][i + 1]
           /\ \A r \in Qp : \A i \in 1..Len(sq'[r]) : sq'[r][i].op.new # Head(sq[q]).op.new
           /\ OneEntry'
<1>1. sq[q] \in Seq(WorkRequest)
  BY EntryType
<1>2. /\ Tail(sq[q]) \in Seq(WorkRequest) /\ Head(sq[q]) \in WorkRequest
      /\ Head(sq[q]) = sq[q][1] /\ 1 \in 1..Len(sq[q])
      /\ \A i \in 1..Len(Tail(sq[q])) : i + 1 \in 1..Len(sq[q]) /\ i + 1 # 1
                                        /\ Tail(sq[q])[i] = sq[q][i + 1]
  BY <1>1, Removed
<1>3. sq'[q] = Tail(sq[q]) /\ \A r \in Qp \ {q} : sq'[r] = sq[r]
  BY DEF Types
<1>4. sq' \in [Qp -> Seq(WorkRequest)]
  BY <1>2 DEF Types
<1>5. \A r \in Qp : \A i \in 1..Len(sq'[r]) :
        \/ r # q /\ i \in 1..Len(sq[r]) /\ sq'[r][i] = sq[r][i]
        \/ r = q /\ i + 1 \in 1..Len(sq[r]) /\ i + 1 # 1 /\ sq'[r][i] = sq[r][i + 1]
  <2> SUFFICES ASSUME NEW r \in Qp, NEW i \in 1..Len(sq'[r])
               PROVE  \/ r # q /\ i \in 1..Len(sq[r]) /\ sq'[r][i] = sq[r][i]
                      \/ r = q /\ i + 1 \in 1..Len(sq[r]) /\ i + 1 # 1
                         /\ sq'[r][i] = sq[r][i + 1]
    OBVIOUS
  <2>1. CASE r = q
    BY <2>1, <1>2, <1>3
  <2>2. CASE r # q
    BY <2>2, <1>3
  <2>3. QED
    BY <2>1, <2>2
<1>6. \A r \in Qp : \A i \in 1..Len(sq'[r]) : sq'[r][i].op.new # Head(sq[q]).op.new
  <2> SUFFICES ASSUME NEW r \in Qp, NEW i \in 1..Len(sq'[r]),
                      sq'[r][i].op.new = sq[q][1].op.new
               PROVE  FALSE
    BY <1>2
  <2>1. CASE r # q /\ i \in 1..Len(sq[r]) /\ sq'[r][i] = sq[r][i]
    BY <2>1, <1>2 DEF OneEntry
  <2>2. CASE r = q /\ i + 1 \in 1..Len(sq[r]) /\ i + 1 # 1 /\ sq'[r][i] = sq[r][i + 1]
    <3> DEFINE j == i + 1
    <3>1. j \in 1..Len(sq[q]) /\ j # 1 /\ sq[q][j].op.new = sq[q][1].op.new
      BY <2>2
    <3> HIDE DEF j
    <3>2. QED
      BY <3>1, <1>2 DEF OneEntry
  <2>3. QED
    BY <2>1, <2>2, <1>5
<1>7. OneEntry'
  <2> SUFFICES ASSUME NEW r \in Qp, NEW s \in Qp, NEW i \in 1..Len(sq'[r]),
                      NEW j \in 1..Len(sq'[s]), sq'[r][i].op.new = sq'[s][j].op.new
               PROVE  r = s /\ i = j
    BY DEF OneEntry
  <2>1. PICK k \in 1..Len(sq[r]) : sq'[r][i] = sq[r][k] /\ k = IF r = q THEN i + 1 ELSE i
    BY <1>5
  <2>2. PICK l \in 1..Len(sq[s]) : sq'[s][j] = sq[s][l] /\ l = IF s = q THEN j + 1 ELSE j
    BY <1>5
  <2>3. r = s /\ k = l
    BY <2>1, <2>2 DEF OneEntry
  <2>4. QED
    BY <2>1, <2>2, <2>3
<1>8. IsRequest(Head(sq[q]), q)
  <2>1. IsRequest(sq[q][1], q)
    BY <1>2 DEF Entries
  <2>2. QED
    BY <1>2, <2>1
<1>9. QED
  BY <1>2, <1>4, <1>5, <1>6, <1>7, <1>8, Zenon

\* A request that waits for another thread, or needs no completion, is not what is
\* executed.
LEMMA QueuedStill ==
    ASSUME Types, NEW q \in Qp, sq[q] # <<>>, sq' = [sq EXCEPT ![q] = Tail(sq[q])],
           NEW u \in Thread, u # sq[q][1].from \/ ~ Signaled(sq[q][1].op), Queued(u)
    PROVE  Queued(u)'
<1>1. PICK r \in Qp, i \in Nat : InSq(u, r, i)
  BY DEF Queued
<1>2. sq[q] \in Seq(WorkRequest) /\ sq[q] # <<>>
  BY EntryType
<1>3. sq'[q] = Tail(sq[q]) /\ \A p \in Qp \ {q} : sq'[p] = sq[p]
  BY DEF Types
<1>4. CASE r # q
  BY <1>1, <1>3, <1>4 DEF InSq, Queued
<1>5. CASE r = q
  <2>1. i \in 1..Len(sq[q]) /\ sq[q][i].from = u /\ Signaled(sq[q][i].op) /\ i # 1
    BY <1>1, <1>5 DEF InSq
  <2> DEFINE j == i - 1
  <2>2. j \in Nat /\ j \in 1..Len(Tail(sq[q])) /\ j + 1 = i
    BY <2>1, <1>2, HeadTailProperties
  <2>3. Tail(sq[q])[j] = sq[q][i]
    BY <2>2, <1>2, Removed
  <2> HIDE DEF j
  <2>4. InSq(u, q, j)'
    BY <2>1, <2>2, <2>3, <1>3 DEF InSq, Signaled
  <2>5. QED
    BY <2>2, <2>4 DEF Queued
<1>6. QED
  BY <1>4, <1>5

\* What the execution of request w of thread t does, apart from its queues.
LEMMA Effect ==
    ASSUME Types, NEW q \in Qp, Execute(q), NEW w \in WorkRequest, w = Head(sq[q])
    PROVE  /\ sq[q] # <<>> /\ sq' = [sq EXCEPT ![q] = Tail(sq[q])]
           /\ cq' = [cq EXCEPT ![q] = IF Signaled(w.op) THEN Append(cq[q], w.wr_id) ELSE cq[q]]
           /\ UNCHANGED <<id_gen, thread_ids, counters, pc, op, ops, buffer, took, fatal, history>>
           /\ mem' \in [Qp -> Value] /\ \A r \in Qp \ {q} : mem'[r] = mem[r]
           /\ result' \in [Thread -> Value] /\ \A u \in Thread \ {w.from} : result'[u] = result[u]
           /\ result'[w.from] = IF w.op.kind \in {"read", "cas", "swap"} THEN mem[q]
                                ELSE result[w.from]
           /\ w.op.kind \in {"write", "write_noack"} =>
                /\ mem'[q] = buffer[w.from]
                /\ mem'[q] = w.op.new \/ mem'[q] \in overtaken'
           /\ w.op.kind \notin {"write", "write_noack"} =>
                mem'[q] = IF Took(w.op, mem[q]) THEN w.op.new ELSE mem[q]
           /\ overtaken \subseteq overtaken' /\ overtaken' \subseteq Value
<1> DEFINE o == w.op  t == w.from
           m == IF o.kind \in {"write", "write_noack"} THEN buffer[t]
                ELSE IF Took(o, mem[q]) THEN o.new ELSE mem[q]
           r0 == IF o.kind \in {"read", "cas", "swap"} THEN mem[q] ELSE result[t]
<1>1. /\ sq[q] # <<>> /\ sq' = [sq EXCEPT ![q] = Tail(sq[q])]
      /\ mem' = [mem EXCEPT ![q] = m] /\ result' = [result EXCEPT ![t] = r0]
      /\ cq' = [cq EXCEPT ![q] = IF Signaled(w.op) THEN Append(cq[q], w.wr_id) ELSE cq[q]]
      /\ overtaken' = IF o.kind \in {"write", "write_noack"} /\ buffer[t] # o.new
                        THEN overtaken \cup {buffer[t]} ELSE overtaken
      /\ UNCHANGED <<id_gen, thread_ids, counters, pc, op, ops, buffer, took, fatal, history>>
  BY DEF Execute, ctlVars
<1>2. t \in Thread /\ o \in Op /\ o.new \in Value
  BY RequestFields, OpFields
<1>3. buffer[t] \in Value /\ mem[q] \in Value /\ result[t] \in Value
      /\ mem \in [Qp -> Value] /\ result \in [Thread -> Value] /\ overtaken \subseteq Value
  BY <1>2 DEF Types
<1>4. m \in Value /\ r0 \in Value
  BY <1>2, <1>3
<1>5. mem' \in [Qp -> Value] /\ mem'[q] = m /\ \A r \in Qp \ {q} : mem'[r] = mem[r]
  <2> HIDE DEF m
  <2>1. QED
    BY <1>1, <1>3, <1>4
<1>6. result' \in [Thread -> Value] /\ result'[t] = r0
      /\ \A u \in Thread \ {t} : result'[u] = result[u]
  <2> HIDE DEF r0
  <2>1. QED
    BY <1>1, <1>2, <1>3, <1>4
<1>7. overtaken \subseteq overtaken' /\ overtaken' \subseteq Value
  BY <1>1, <1>3
<1>8. o.kind \in {"write", "write_noack"} =>
        mem'[q] = buffer[t] /\ (mem'[q] = o.new \/ mem'[q] \in overtaken')
  BY <1>1, <1>5
<1>9. o.kind \notin {"write", "write_noack"} =>
        mem'[q] = IF Took(o, mem[q]) THEN o.new ELSE mem[q]
  BY <1>5
<1>10. QED
  BY <1>1, <1>5, <1>6, <1>7, <1>8, <1>9

\* What an executed atomic replaced was there to be replaced for the last time.
LEMMA ExecuteSerial ==
    ASSUME IInv, NEW q \in Qp, Execute(q)
    PROVE  Serial'
<1>1. Types /\ Ids /\ Asked /\ Entries /\ OneEntry /\ Serial
  BY DEF IInv
<1>2. sq[q] # <<>> /\ sq' = [sq EXCEPT ![q] = Tail(sq[q])]
  BY DEF Execute
<1>3. PICK w \in WorkRequest : w = Head(sq[q])
  BY <1>1, <1>2, Executed
<1>4. PICK o \in Op, t \in Thread : o = w.op /\ t = w.from
  BY RequestFields
<1>5. /\ UNCHANGED <<id_gen, thread_ids, counters, pc, op, ops, buffer, took, fatal, history>>
      /\ mem' \in [Qp -> Value] /\ \A r \in Qp \ {q} : mem'[r] = mem[r]
      /\ \A u \in Thread \ {t} : result'[u] = result[u]
      /\ result'[t] = IF o.kind \in {"read", "cas", "swap"} THEN mem[q] ELSE result[t]
      /\ o.kind \in {"write", "write_noack"} => mem'[q] = o.new \/ mem'[q] \in overtaken'
      /\ o.kind \notin {"write", "write_noack"} =>
           mem'[q] = IF Took(o, mem[q]) THEN o.new ELSE mem[q]
      /\ overtaken \subseteq overtaken'
  BY <1>1, <1>3, <1>4, Effect
<1>6. /\ 1 \in 1..Len(sq[q]) /\ sq[q][1] = w
      /\ \A r \in Qp : \A i \in 1..Len(sq'[r]) :
           \E j \in 1..Len(sq[r]) : sq'[r][i] = sq[r][j]
      /\ \A r \in Qp : \A i \in 1..Len(sq'[r]) : sq'[r][i].op.new # o.new
  <2>1. /\ 1 \in 1..Len(sq[q]) /\ sq[q][1] = w
        /\ \A r \in Qp : \A i \in 1..Len(sq'[r]) : sq'[r][i].op.new # o.new
    <3>1. /\ 1 \in 1..Len(sq[q]) /\ sq[q][1] = Head(sq[q])
          /\ \A r \in Qp : \A i \in 1..Len(sq'[r]) : sq'[r][i].op.new # Head(sq[q]).op.new
      BY <1>1, <1>2, Executed
    <3>2. Head(sq[q]).op.new = o.new
      BY <1>3, <1>4
    <3>3. QED
      BY <3>1, <3>2, <1>3
  <2>2. \A r \in Qp : \A i \in 1..Len(sq'[r]) :
          \/ r # q /\ i \in 1..Len(sq[r]) /\ sq'[r][i] = sq[r][i]
          \/ r = q /\ i + 1 \in 1..Len(sq[r]) /\ i + 1 # 1 /\ sq'[r][i] = sq[r][i + 1]
    BY <1>1, <1>2, Executed
  <2>3. QED
    BY <2>1, <2>2
<1>7. /\ o.qp = q /\ \E k \in 1..ops[t] : o.new = NewValue(t, k)
      /\ o.new = NewValue(t, ops[t]) => o = op[t] /\ pc[t] \notin {"new", "expect", "post"}
      /\ Signaled(o) => o = op[t]
  <2>1. IsRequest(w, q)
    BY <1>1, <1>2, <1>3, Executed
  <2>2. QED
    BY <2>1, <1>4 DEF IsRequest
<1>8. \A u \in Thread : u # t \/ ~ Signaled(o) => (Queued(u) => Queued(u)')
  BY <1>1, <1>2, <1>3, <1>4, <1>6, QueuedStill
<1>9. ~ Signaled(o) => result'[t] = result[t]
  BY <1>5 DEF Signaled
<1>10. \A v : Spent(v) => v # o.new
  BY <1>6, <1>4 DEF Spent
<1>11. ASSUME NEW v, Spent(v)
       PROVE  Spent(v)'
  <2>1. \A u \in Thread, k \in Nat : v = NewValue(u, k) => k <= ops'[u]
    BY <1>11, <1>5 DEF Spent
  <2>2. \A r \in Qp : \A i \in 1..Len(sq'[r]) : sq'[r][i].op.new # v
    BY <1>11, <1>6 DEF Spent
  <2>3. ASSUME NEW u \in Thread, Unwritten(u)'
        PROVE  op'[u].new # v
    <3>1. CASE pc[u] \in {"expect", "post"}
      BY <3>1, <1>5, <1>11 DEF Unwritten, Spent
    <3>2. CASE u = t /\ Signaled(o)
      BY <3>2, <1>5, <1>7, <1>10, <1>11
    <3>3. CASE pc[u] \notin {"expect", "post"} /\ (u # t \/ ~ Signaled(o))
      <4>1. result'[u] = result[u]
        BY <3>3, <1>5, <1>9
      <4>2. Polls(u) /\ op[u].kind = "swap" /\ ~ Queued(u)' /\ result'[u] # op[u].expect
        BY <2>3, <3>3, <1>5 DEF Unwritten, Polls
      <4>3. Unwritten(u)
        BY <4>1, <4>2, <3>3, <1>8 DEF Unwritten
      <4>4. QED
        BY <4>3, <1>5, <1>11 DEF Spent
    <3>4. QED
      BY <3>1, <3>2, <3>3
  <2>4. QED
    BY <2>1, <2>2, <2>3 DEF Spent
<1>12. ASSUME o.kind \in {"write", "write_noack"} \/ Took(o, mem[q])
       PROVE  Spent(o.new)'
  <2>1. PICK k \in 1..ops[t] : o.new = NewValue(t, k)
    BY <1>7
  <2>2. \A u \in Thread, l \in Nat : o.new = NewValue(u, l) => l <= ops'[u]
    <3>1. ops[t] \in Nat
      BY <1>1 DEF Types
    <3>2. k <= ops[t]
      BY <3>1
    <3>3. ASSUME NEW u \in Thread, NEW l \in Nat, o.new = NewValue(u, l)
          PROVE  l <= ops'[u]
      <4>1. u = t /\ l = k
        <5>1. NewValue(u, l) = NewValue(t, k)
          BY <3>3, <2>1
        <5>2. QED
          BY <5>1 DEF NewValue
      <4>2. QED
        BY <4>1, <3>2, <1>5
    <3>4. QED
      BY <3>3
  <2>3. ASSUME NEW u \in Thread, Unwritten(u)', op'[u].new = o.new
        PROVE  FALSE
    <3>1. pc[u] \notin {"new", "idle"} /\ op[u].new = o.new
      BY <2>3, <1>5 DEF Unwritten, Polls
    <3>2. o.new = NewValue(u, ops[u])
      BY <3>1, <1>1 DEF Asked
    <3>3. u = t
      BY <3>2, <2>1, NewValueUnique
    <3>4. o = op[t] /\ pc[t] \notin {"new", "expect", "post"}
      BY <3>2, <3>3, <1>7
    <3>5. o.kind = "swap" /\ result'[t] # o.expect
      BY <2>3, <3>3, <3>4, <1>5 DEF Unwritten
    <3>6. QED
      BY <3>5, <1>5, <1>12 DEF Took
  <2>4. QED
    BY <2>2, <2>3, <1>6 DEF Spent
<1> DEFINE c == <<q, mem[q], o.new>>
<1>13. \A a \in Replaced' : a \in Replaced \/ (a = c /\ Took(o, mem[q]))
  <2> SUFFICES ASSUME NEW a \in Replaced', a \notin history
               PROVE  a \in Replaced \/ (a = c /\ Took(o, mem[q]))
    BY DEF Replaced
  <2>1. PICK u \in Thread : Claims(u)' /\ a = Claim(u)'
    BY <1>5 DEF Replaced
  <2>2. /\ Polls(u) /\ op[u].kind \in {"cas", "swap"} /\ ~ Queued(u)'
        /\ result'[u] = op[u].expect /\ a = <<op[u].qp, result'[u], op[u].new>>
    BY <2>1, <1>5 DEF Claims, Claim, Polls
  <2>3. CASE u = t /\ Signaled(o)
    BY <2>2, <2>3, <1>5, <1>7 DEF Took
  <2>4. CASE u # t \/ ~ Signaled(o)
    <3>1. result'[u] = result[u] /\ ~ Queued(u)
      BY <2>2, <2>4, <1>5, <1>8, <1>9
    <3>2. Claims(u) /\ a = Claim(u)
      BY <2>2, <3>1 DEF Claims, Claim
    <3>3. QED
      BY <3>2 DEF Replaced
  <2>5. QED
    BY <2>3, <2>4
<1>14. \/ mem'[q] = mem[q] /\ ~ Took(o, mem[q])
       \/ mem'[q] = o.new /\ Spent(o.new)'
       \/ mem'[q] \in overtaken' /\ ~ Took(o, mem[q])
  BY <1>5, <1>12 DEF Took
<1>15. \A a \in Replaced : a[1] \in Qp
  <2>1. history \subseteq Qp \X Value \X Value /\ op \in [Thread -> Op]
    BY <1>1 DEF Types
  <2>2. \A u \in Thread : Claim(u)[1] \in Qp
    BY <2>1, OpFields DEF Claim
  <2>3. QED
    BY <2>1, <2>2 DEF Replaced
<1> HIDE DEF c
<1>16. \A a \in Replaced : a[2] \notin overtaken => Spent(a[2]) /\ mem[a[1]] # a[2]
  BY <1>1 DEF Serial
<1>17. \A r \in Qp : mem[r] \notin overtaken => Spent(mem[r])
  BY <1>1 DEF Serial
<1>18. c[1] = q /\ c[2] = mem[q]
  BY DEF c
<1>19. ASSUME NEW r \in Qp, mem'[r] \notin overtaken'
       PROVE  \A v : v = mem'[r] => Spent(v)'
  <2>1. CASE r = q
    BY <2>1, <1>5, <1>11, <1>14, <1>17, <1>19
  <2>2. CASE r # q
    BY <2>2, <1>5, <1>11, <1>17, <1>19
  <2>3. QED
    BY <2>1, <2>2
<1>20. ASSUME NEW a \in Replaced', a[2] \notin overtaken'
       PROVE  Spent(a[2])' /\ mem'[a[1]] # a[2]
  <2>1. CASE a \in Replaced
    <3>1. a[1] \in Qp /\ Spent(a[2]) /\ mem[a[1]] # a[2] /\ a[2] # o.new
      BY <2>1, <1>5, <1>10, <1>15, <1>16, <1>20
    <3>2. mem'[a[1]] # a[2]
      BY <3>1, <1>5, <1>14, <1>20
    <3>3. QED
      BY <3>1, <3>2, <1>11
  <2>2. CASE a = c /\ Took(o, mem[q])
    <3>1. Spent(mem[q]) /\ mem[q] # o.new
      BY <2>2, <1>5, <1>10, <1>17, <1>18, <1>20
    <3>2. mem'[q] = o.new
      BY <2>2, <1>5 DEF Took
    <3>3. \A v : v = mem[q] => Spent(v)'
      BY <3>1, <1>11
    <3>4. QED
      BY <2>2, <3>1, <3>2, <3>3, <1>18
  <2>3. QED
    BY <2>1, <2>2, <1>13
<1>21. ASSUME NEW a \in Replaced', NEW b \in Replaced', a[1] = b[1], a[2] = b[2],
              a[2] \notin overtaken'
       PROVE  a = b
  <2>1. a[2] \notin overtaken /\ b[2] \notin overtaken
    BY <1>5, <1>21
  <2>2. CASE a \in Replaced /\ b \in Replaced
    BY <2>1, <2>2, <1>1, <1>21 DEF Serial
  <2>3. CASE a = c /\ b \in Replaced
    BY <2>1, <2>3, <1>16, <1>18, <1>21
  <2>4. CASE b = c /\ a \in Replaced
    BY <2>1, <2>4, <1>16, <1>18, <1>21
  <2>5. QED
    BY <2>2, <2>3, <2>4, <1>13
<1>22. QED
  <2>1. \A r \in Qp : mem'[r] \notin overtaken' => Spent(mem[r])'
    BY <1>19 DEF Spent
  <2>2. \A a \in Replaced' : a[2] \notin overtaken' => Spent(a[2])' /\ mem'[a[1]] # a[2]
    BY <1>20
  <2>3. \A a, b \in Replaced' : a[1] = b[1] /\ a[2] = b[2] /\ a[2] \notin overtaken' => a = b
    BY <1>21
  <2>4. QED
    BY <2>1, <2>2, <2>3 DEF Serial

\* The completion of an executed request moves from the send queue to the
\* completion queue.
LEMMA ExecuteInv == ASSUME IInv, NEW q \in Qp, Execute(q)
                    PROVE  IInv'
<1>1. Types /\ Ids /\ Counts /\ Asked /\ Entries /\ OneEntry /\ Completions /\ OnePlace
      /\ Serial
  BY DEF IInv
<1>2. sq[q] # <<>> /\ sq' = [sq EXCEPT ![q] = Tail(sq[q])]
  BY DEF Execute
<1>3. PICK w \in WorkRequest : w = Head(sq[q])
  BY <1>1, <1>2, Executed
<1>4. PICK t \in Thread : t = w.from
  BY RequestFields
<1>5. /\ cq' = [cq EXCEPT ![q] = IF Signaled(w.op) THEN Append(cq[q], w.wr_id) ELSE cq[q]]
      /\ UNCHANGED <<id_gen, thread_ids, counters, pc, op, ops, buffer, took, fatal, history>>
      /\ mem' \in [Qp -> Value] /\ result' \in [Thread -> Value] /\ overtaken' \subseteq Value
  BY <1>1, <1>3, Effect
<1>6. /\ sq' \in [Qp -> Seq(WorkRequest)] /\ IsRequest(w, q)
      /\ 1 \in 1..Len(sq[q]) /\ sq[q][1] = w /\ OneEntry'
  BY <1>1, <1>2, <1>3, Executed
<1>7. \A r \in Qp : \A i \in 1..Len(sq'[r]) :
        \/ r # q /\ i \in 1..Len(sq[r]) /\ sq'[r][i] = sq[r][i]
        \/ r = q /\ i + 1 \in 1..Len(sq[r]) /\ i + 1 # 1 /\ sq'[r][i] = sq[r][i + 1]
  BY <1>1, <1>2, Executed
<1>8. \A r \in Qp : \A i \in 1..Len(sq'[r]) : sq'[r][i].op.new # w.op.new
  <2>1. \A r \in Qp : \A i \in 1..Len(sq'[r]) : sq'[r][i].op.new # Head(sq[q]).op.new
    BY <1>1, <1>2, Executed
  <2>2. QED
    BY <2>1, <1>3
<1>9. /\ thread_ids[t] # 0 /\ w.wr_id = thread_ids[t]
      /\ Signaled(w.op) => Waits(t) /\ w.op = op[t]
  BY <1>4, <1>6 DEF IsRequest
<1>10. cq \in [Qp -> Seq(1..THREAD_MAX)] /\ cq[q] \in Seq(1..THREAD_MAX)
       /\ w.wr_id \in 1..THREAD_MAX
  BY <1>1, RequestFields DEF Types
<1>11. Types'
  <2>1. Append(cq[q], w.wr_id) \in Seq(1..THREAD_MAX)
    BY <1>10, Appended
  <2>2. cq' \in [Qp -> Seq(1..THREAD_MAX)]
    BY <2>1, <1>5, <1>10
  <2>3. QED
    BY <2>2, <1>1, <1>5, <1>6 DEF Types
<1>12. Ids' /\ Counts' /\ Asked' /\ \A u : Waits(u)' <=> Waits(u)
  BY <1>1, <1>5 DEF Ids, Counts, Asked, Waits, Polls
<1>13. Entries'
  <2> SUFFICES ASSUME NEW r \in Qp, NEW i \in 1..Len(sq'[r]), NEW x, x = sq'[r][i]
               PROVE  IsRequest(x, r)'
    BY DEF Entries, IsRequest, Waits, Polls
  <2>1. IsRequest(x, r)
    BY <1>1, <1>7 DEF Entries
  <2>2. QED
    BY <2>1, <1>5, <1>12 DEF IsRequest
\* The completions are those there were, and that of t when it was asked for.
<1>14. \A r \in Qp : \A i \in 1..Len(cq'[r]) :
          \/ i \in 1..Len(cq[r]) /\ cq'[r][i] = cq[r][i]
          \/ Signaled(w.op) /\ r = q /\ i = Len(cq[q]) + 1 /\ cq'[r][i] = thread_ids[t]
  <2> SUFFICES ASSUME NEW r \in Qp, NEW i \in 1..Len(cq'[r])
               PROVE  \/ i \in 1..Len(cq[r]) /\ cq'[r][i] = cq[r][i]
                      \/ Signaled(w.op) /\ r = q /\ i = Len(cq[q]) + 1
                         /\ cq'[r][i] = thread_ids[t]
    OBVIOUS
  <2>1. CASE r # q \/ ~ Signaled(w.op)
    <3>1. cq'[r] = cq[r]
      BY <2>1, <1>5, <1>10
    <3>2. QED
      BY <3>1
  <2>2. CASE r = q /\ Signaled(w.op)
    <3>1. cq'[q] = Append(cq[q], w.wr_id)
      BY <2>2, <1>5, <1>10
    <3> DEFINE c == Append(cq[q], w.wr_id)
    <3>2. /\ c[Len(cq[q]) + 1] = w.wr_id
          /\ \A j \in 1..Len(cq[q]) : c[j] = cq[q][j]
          /\ \A j \in 1..Len(c) : j \in 1..Len(cq[q]) \/ j = Len(cq[q]) + 1
      BY <1>10, Appended
    <3>3. i \in 1..Len(c) /\ cq'[r][i] = c[i]
      BY <3>1, <2>2
    <3> HIDE DEF c
    <3>4. QED
      BY <3>2, <3>3, <2>2, <1>9
  <2>3. QED
    BY <2>1, <2>2
<1>15. Completions'
  <2>1. \A r \in Qp : \A i \in 1..Len(cq'[r]) :
           \E u \in Thread : cq'[r][i] = thread_ids'[u] /\ Waits(u)'
    <3> SUFFICES ASSUME NEW r \in Qp, NEW i \in 1..Len(cq'[r])
                 PROVE  \E u \in Thread : cq'[r][i] = thread_ids'[u] /\ Waits(u)'
      OBVIOUS
    <3>1. CASE i \in 1..Len(cq[r]) /\ cq'[r][i] = cq[r][i]
      <4>1. PICK u \in Thread : cq[r][i] = thread_ids[u] /\ Waits(u)
        BY <3>1, <1>1 DEF Completions
      <4>2. QED
        BY <4>1, <3>1, <1>5, <1>12
    <3>2. CASE Signaled(w.op) /\ cq'[r][i] = thread_ids[t]
      BY <3>2, <1>5, <1>9, <1>12
    <3>3. QED
      BY <3>1, <3>2, <1>14
  <2>2. \A u \in Thread : took'[u] # 0 <=> pc'[u] = "subtract"
    BY <1>1, <1>5 DEF Completions
  <2>3. \A u \in Thread : took'[u] # 0 => \E v \in Thread : took'[u] = thread_ids'[v] /\ Waits(v)'
    BY <1>1, <1>5, <1>12 DEF Completions
  <2>4. QED
    BY <2>1, <2>2, <2>3 DEF Completions
<1>16. OnePlace'
  <2> SUFFICES ASSUME NEW u \in Thread, thread_ids'[u] # 0
               PROVE  AtOnePlace(u)'
    BY DEF OnePlace
  <2>1. thread_ids[u] # 0 /\ thread_ids' = thread_ids /\ took' = took
    BY <1>5
  <2>2. /\ \A a, r \in Qp, i, j \in Nat :
                InCq(u, a, i) /\ InCq(u, r, j) => a = r /\ i = j
        /\ \A y, v \in Thread : With(u, y) /\ With(u, v) => y = v
        /\ \A a, r \in Qp, i, j \in Nat : InSq(u, a, i) => ~ InCq(u, r, j)
        /\ \A a \in Qp, i \in Nat, y \in Thread :
                InSq(u, a, i) \/ InCq(u, a, i) => ~ With(u, y)
    BY <2>1, <1>1 DEF OnePlace, AtOnePlace
  <2>3. \A y : With(u, y)' <=> With(u, y)
    BY <2>1 DEF With
  <2>4. \A a \in Qp, i \in Nat : InSq(u, a, i)' =>
           \E j \in Nat : InSq(u, a, j) /\ ~ (u = t /\ Signaled(w.op))
    <3> SUFFICES ASSUME NEW a \in Qp, NEW i \in Nat, InSq(u, a, i)'
                 PROVE  \E j \in Nat : InSq(u, a, j) /\ ~ (u = t /\ Signaled(w.op))
      OBVIOUS
    <3>1. i \in 1..Len(sq'[a]) /\ sq'[a][i].from = u /\ Signaled(sq'[a][i].op)
      BY DEF InSq, Signaled
    <3>2. PICK j \in 1..Len(sq[a]) : sq'[a][i] = sq[a][j]
      BY <3>1, <1>7
    <3>3. j \in Nat /\ InSq(u, a, j)
      BY <3>1, <3>2 DEF InSq
    <3>4. IsRequest(sq[a][j], a)
      BY <3>2, <1>1 DEF Entries
    <3>5. sq'[a][i].op = op[u]
      BY <3>1, <3>2, <3>4 DEF IsRequest
    <3>6. ~ (u = t /\ Signaled(w.op))
      BY <3>1, <3>5, <1>8, <1>9
    <3>7. QED
      BY <3>3, <3>6
  <2>5. \A a \in Qp, i \in Nat : InCq(u, a, i)' =>
           \/ InCq(u, a, i)
           \/ u = t /\ Signaled(w.op) /\ a = q /\ i = Len(cq[q]) + 1
    <3> SUFFICES ASSUME NEW a \in Qp, NEW i \in Nat, InCq(u, a, i)'
                 PROVE  \/ InCq(u, a, i)
                        \/ u = t /\ Signaled(w.op) /\ a = q /\ i = Len(cq[q]) + 1
      OBVIOUS
    <3>1. i \in 1..Len(cq'[a]) /\ cq'[a][i] = thread_ids[u]
      BY <2>1 DEF InCq
    <3>2. CASE i \in 1..Len(cq[a]) /\ cq'[a][i] = cq[a][i]
      BY <3>1, <3>2 DEF InCq
    <3>3. CASE Signaled(w.op) /\ a = q /\ i = Len(cq[q]) + 1 /\ cq'[a][i] = thread_ids[t]
      <4>1. u = t
        BY <3>1, <3>3, <2>1, <1>1 DEF Ids
      <4>2. QED
        BY <4>1, <3>3
    <3>4. QED
      BY <3>1, <3>2, <3>3, <1>14
  <2>6. u = t /\ Signaled(w.op) => InSq(u, q, 1) /\ 1 \in Nat
    BY <1>4, <1>6 DEF InSq
  <2>7. u = t /\ Signaled(w.op) =>
          /\ \A r \in Qp, j \in Nat : ~ InCq(u, r, j)
          /\ \A y \in Thread : ~ With(u, y)
    BY <2>2, <2>6
  <2>8. \A a, r \in Qp, i, j \in Nat : InCq(u, a, i)' /\ InCq(u, r, j)' => a = r /\ i = j
    BY <2>2, <2>5, <2>7
  <2>9. \A y, v \in Thread : With(u, y)' /\ With(u, v)' => y = v
    BY <2>2, <2>3
  <2>10. \A a, r \in Qp, i, j \in Nat : InSq(u, a, i)' => ~ InCq(u, r, j)'
    BY <2>2, <2>4, <2>5
  <2>11. \A a \in Qp, i \in Nat, y \in Thread : InSq(u, a, i)' => ~ With(u, y)'
    BY <2>2, <2>3, <2>4
  <2>12. \A a \in Qp, i \in Nat, y \in Thread : InCq(u, a, i)' => ~ With(u, y)'
    BY <2>2, <2>3, <2>5, <2>7
  <2>13. QED
    BY <2>8, <2>9, <2>10, <2>11, <2>12 DEF AtOnePlace
<1>17. Serial'
  BY ExecuteSerial
<1>18. QED
  BY <1>6, <1>11, <1>12, <1>13, <1>15, <1>16, <1>17 DEF IInv

-----------------------------------------------------------------------------
(* The invariant, and what it says.                                         *)

LEMMA StutterInv == IInv /\ UNCHANGED vars => IInv'
<1> SUFFICES ASSUME IInv, UNCHANGED vars
             PROVE  IInv'
  OBVIOUS
<1>1. UNCHANGED <<id_gen, thread_ids, counters, pc, op, ops, buffer, result, took, sq, cq, mem,
                  fatal, history, overtaken>>
  BY DEF vars, ctlVars
<1>2. Types' /\ Ids' /\ Counts' /\ Asked'
  BY <1>1 DEF IInv, Types, Ids, Counts, Asked, Polls
<1>3. Entries' /\ OneEntry'
  BY <1>1 DEF IInv, Entries, OneEntry, IsRequest, Waits, Polls
<1>4. Completions' /\ OnePlace'
  BY <1>1 DEF IInv, Completions, OnePlace, AtOnePlace, InSq, InCq, With, Waits, Polls
<1>5. Serial'
  BY <1>1, SerialSame DEF IInv, Polls
<1>6. QED
  BY <1>2, <1>3, <1>4, <1>5 DEF IInv

LEMMA NextInv == IInv /\ [Next]_vars => IInv'
<1> SUFFICES ASSUME IInv, [Next]_vars
             PROVE  IInv'
  OBVIOUS
<1>1. ASSUME NEW t \in Thread, Step(t)
      PROVE  IInv'
  <2>1. UNCHANGED overtaken
    BY <1>1 DEF Step
  <2>2. CASE RegisterThread(t)
    BY <2>1, <2>2, RegisterInv
  <2>3. ASSUME NEW kind \in Kinds, NEW q \in Qp, Call(t, kind, q)
        PROVE  IInv'
    BY <2>1, <2>3, CallInv
  <2>4. CASE Expect(t)
    BY <2>1, <2>4, ExpectInv
  <2>5. CASE Post(t)
    BY <2>1, <2>5, PostInv
  <2>6. CASE Check(t) \/ PollEmpty(t)
    BY <2>1, <2>6, SpinInv
  <2>7. CASE Poll(t)
    BY <2>1, <2>7, PollInv
  <2>8. CASE Subtract(t)
    BY <2>1, <2>8, SubtractInv
  <2>9. CASE Return(t)
    BY <2>1, <2>9, ReturnInv
  <2>10. QED
    BY <1>1, <2>2, <2>3, <2>4, <2>5, <2>6, <2>7, <2>8, <2>9 DEF Step, Work
<1>2. ASSUME NEW q \in Qp, Execute(q)
      PROVE  IInv'
  BY <1>2, ExecuteInv
<1>3. CASE Terminated \/ UNCHANGED vars
  BY <1>3, StutterInv DEF Terminated
<1>4. QED
  BY <1>1, <1>2, <1>3 DEF Next

LEMMA Invariance == Spec => []IInv
  BY InitInv, NextInv, PTL DEF Spec

\* reordering_counters is used within its bounds, however many threads register,
\* and "Broken synchronization" never fires: any number of threads may poll each
\* other's completions.
THEOREM CountersAgree == Spec => []CountersOK
<1>1. IInv => CountersOK
  <2> SUFFICES ASSUME IInv
               PROVE  CountersOK
    OBVIOUS
  <2>1. Types
    BY DEF IInv
  <2>2. \A q \in Qp : \A i \in 1..Len(sq[q]) :
          sq[q][i] \in [wr_id : 1..THREAD_MAX, from : Thread, op : Op]
    BY <2>1, EntryType DEF WorkRequest
  <2>3. \A t \in Thread : ops[t] \in 0..MaxOps[t]
    <3>1. ops \in [Thread -> Nat] /\ (\A t \in Thread : ops[t] <= MaxOps[t])
          /\ MaxOps \in [Thread -> Nat]
      BY <2>1, PoolAssumption DEF Types, PoolAssumption
    <3>2. ASSUME NEW t \in Thread
          PROVE  ops[t] \in 0..MaxOps[t]
      <4>1. ops[t] \in Nat /\ MaxOps[t] \in Nat /\ ops[t] <= MaxOps[t]
        BY <3>1
      <4>2. QED
        BY <4>1
    <3>3. QED
      BY <3>2
  <2>4. TypeOK
    BY <2>1, <2>2, <2>3 DEF Types, TypeOK
  <2>5. QED
    BY <2>1, <2>4 DEF Types, CountersOK, NoBrokenSynchronization
<1>2. QED
  BY <1>1, Invariance, PTL

\* No operation returns before its own request was executed and its completion
\* was taken, whoever took it, and no completion is left over from an operation.
THEOREM NoEarlyReturn == Spec => []ReturnsAfterCompletion
<1>1. IInv => ReturnsAfterCompletion
  <2> SUFFICES ASSUME IInv, NEW t \in Thread, Outstanding(t),
                      pc[t] \in {"new", "idle"} \/ (pc[t] = "check" /\ counters[thread_ids[t]] = 0)
               PROVE  FALSE
    BY DEF ReturnsAfterCompletion
  <2>1. Types /\ Ids /\ Entries /\ Completions
    BY DEF IInv
  <2>2. ~ Waits(t)
    BY DEF Waits, Polls
  <2>3. ASSUME NEW u \in Thread, Waits(u), thread_ids[u] = thread_ids[t]
        PROVE  FALSE
    <3>1. u = t
      BY <2>1, <2>3 DEF Ids, Waits
    <3>2. QED
      BY <3>1, <2>2, <2>3
  <2>4. ASSUME NEW q \in Qp, NEW i \in 1..Len(sq[q]), sq[q][i].from = t, Signaled(sq[q][i].op)
        PROVE  FALSE
    BY <2>1, <2>2, <2>4 DEF Entries, IsRequest
  <2>5. ASSUME NEW q \in Qp, NEW i \in 1..Len(cq[q]), cq[q][i] = thread_ids[t]
        PROVE  FALSE
    BY <2>1, <2>3, <2>5 DEF Completions
  <2>6. ASSUME NEW u \in Thread, took[u] # 0, took[u] = thread_ids[t]
        PROVE  FALSE
    BY <2>1, <2>3, <2>6 DEF Completions
  <2>7. QED
    BY <2>4, <2>5, <2>6 DEF Outstanding
<1>2. QED
  BY <1>1, Invariance, PTL

\* Two successful atomics never replaced the same value of a word, among any
\* number of threads and of retries, unless an overtaken write put it there.
THEOREM SerialAtomics == Spec => []AtomicsAreSerial
<1>1. IInv => AtomicsAreSerial
  BY DEF IInv, Serial, Replaced, AtomicsAreSerial
<1>2. QED
  BY <1>1, Invariance, PTL

\* A write that its thread waits for carries the value of its call, and one that
\* nobody waits for at most that of a later call.
THEOREM WritesCarryTheirValue == Spec => WritesItsValue
<1> DEFINE A == \A q \in Qp :
                  LET o == Head(sq[q]).op IN
                  sq[q] # <<>> /\ sq'[q] = Tail(sq[q]) /\ o.kind \in {"write", "write_noack"}
                     => \/ mem'[q] = o.new
                        \/ ~ Signaled(o) /\ ops[Head(sq[q]).from] > o.new[2]
<1>1. IInv /\ [Next]_vars => [A]_vars
  <2> SUFFICES ASSUME IInv, Next, NEW q \in Qp, sq[q] # <<>>, sq'[q] = Tail(sq[q]),
                      Head(sq[q]).op.kind \in {"write", "write_noack"}
               PROVE  \/ mem'[q] = Head(sq[q]).op.new
                      \/ /\ ~ Signaled(Head(sq[q]).op)
                         /\ ops[Head(sq[q]).from] > Head(sq[q]).op.new[2]
    OBVIOUS
  <2>1. Types /\ Entries
    BY DEF IInv
  <2>2. sq[q] \in Seq(WorkRequest)
    BY <2>1, EntryType
  <2>3. Len(sq[q]) \in Nat /\ Len(Tail(sq[q])) = Len(sq[q]) - 1
    BY <2>2, Removed
  <2>4. sq'[q] # sq[q] /\ sq' # sq /\ ~ (Len(sq'[q]) = Len(sq[q]) + 1)
    <3>1. Len(Tail(sq[q])) # Len(sq[q]) /\ Len(Tail(sq[q])) # Len(sq[q]) + 1
      BY <2>3
    <3>2. sq'[q] # sq[q] /\ ~ (Len(sq'[q]) = Len(sq[q]) + 1)
      BY <3>1, Zenon
    <3>3. QED
      BY <3>2, Zenon
  <2>5. ASSUME NEW t \in Thread, Post(t)
        PROVE  FALSE
    <3>1. op[t].qp \in Qp /\ op[t] \in Op /\ thread_ids[t] \in 0..THREAD_MAX
      BY <2>1, OpFields DEF Types
    <3>2. CASE op[t].qp = q
      <4>1. sq'[q] = Append(sq[q], [wr_id |-> thread_ids[t], from |-> t, op |-> op[t]])
        BY <3>1, <3>2, <2>1, <2>5 DEF Post, Types
      <4>2. Len(Append(sq[q], [wr_id |-> thread_ids[t], from |-> t, op |-> op[t]])) = Len(sq[q]) + 1
        <5>1. ASSUME NEW S, NEW s \in Seq(S), NEW x
              PROVE  Len(Append(s, x)) = Len(s) + 1
          OBVIOUS
        <5>2. QED
          BY <5>1, <2>2
      <4>3. QED
        BY <4>1, <4>2, <2>4, Zenon
    <3>3. CASE op[t].qp # q
      <4>1. sq'[q] = sq[q]
        BY <3>1, <3>3, <2>1, <2>5 DEF Post, Types
      <4>2. QED
        BY <4>1, <2>4
    <3>4. QED
      BY <3>2, <3>3
  <2>6. \A t \in Thread : ~ Step(t)
    BY <2>4, <2>5 DEF Step, Work, RegisterThread, Call, Expect, Check, PollEmpty, Poll, Subtract,
                      Return
  <2>7. PICK p \in Qp : Execute(p)
    BY <2>4, <2>6 DEF Next, Terminated, vars
  <2>8. p = q
    <3>1. sq' = [sq EXCEPT ![p] = Tail(sq[p])]
      BY <2>7 DEF Execute
    <3>2. p # q => sq'[q] = sq[q]
      BY <3>1, <2>1 DEF Types
    <3>3. QED
      BY <3>2, <2>4
  <2>9. PICK w \in WorkRequest : w = Head(sq[q])
    BY <2>2, Removed
  <2>10. mem'[q] = buffer[w.from]
    BY <2>1, <2>7, <2>8, <2>9, Effect
  <2>11. IsRequest(w, q)
    BY <2>1, <2>2, <2>9, Removed DEF Entries
  <2>12. PICK k \in 1..ops[w.from] : w.op.new = NewValue(w.from, k)
    BY <2>11 DEF IsRequest
  <2>13. ops[w.from] \in Nat
    BY <2>1, RequestFields DEF Types
  <2>14. CASE k = ops[w.from]
    BY <2>9, <2>10, <2>11, <2>12, <2>14 DEF IsRequest
  <2>15. CASE k # ops[w.from]
    <3>1. w.op.new[2] = k /\ k < ops[w.from]
      BY <2>12, <2>13, <2>15 DEF NewValue
    <3>2. CASE Signaled(w.op)
      <4>1. w.from \in Thread /\ w.op = op[w.from] /\ Polls(w.from)
        BY <3>2, <2>11, RequestFields DEF IsRequest, Waits
      <4>2. op[w.from].new = NewValue(w.from, ops[w.from])
        BY <4>1 DEF IInv, Asked, Polls
      <4>3. QED
        BY <4>1, <4>2, <2>9, <2>10, <2>11 DEF IsRequest
    <3>3. CASE ~ Signaled(w.op)
      BY <3>1, <3>3, <2>9, <2>13
    <3>4. QED
      BY <3>2, <3>3
  <2>16. QED
    BY <2>14, <2>15
<1>2. QED
  BY <1>1, Invariance, PTL DEF Spec, WritesItsValue
=============================================================================
