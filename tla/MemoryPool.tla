----------------------------- MODULE MemoryPool -----------------------------
(***************************************************************************)
(* One-sided operations of threads that share a MemoryPool.                *)
(*                                                                         *)
(* All threads post to the same queue pairs, and every queue pair has one  *)
(* completion queue that whoever waits on it polls.  A thread may take the *)
(* completion of another one; reordering_counters tells each thread how    *)
(* many of its completions are still to come.                              *)
(*                                                                         *)
(* Memory is one word per queue pair, at the peer.  Every call brings a    *)
(* value of its own, so a lost or a foreign write shows.                   *)
(***************************************************************************)
EXTENDS Integers, Sequences

CONSTANTS
    Thread,      \* application threads
    Qp,          \* queue pairs (one per peer)
    THREAD_MAX,  \* size of reordering_counters
    Kinds,       \* operations the threads use
    MaxOps       \* bound: operations of every thread

ASSUME PoolAssumption ==
    /\ THREAD_MAX \in Nat /\ Qp # {}
    /\ MaxOps \in [Thread -> Nat]
    /\ Kinds \subseteq {"read", "write", "write_noack", "cas", "swap"}

VARIABLES
    id_gen,      \* next index to give out
    thread_ids,  \* index of a registered thread, 0 before
    counters,    \* reordering_counters
    pc,          \* where a thread is
    op,          \* its current operation
    ops,         \* operations it has started
    buffer,      \* the registered memory its writes are sent from
    result,      \* the registered memory reads and atomics return into
    took,        \* wr_id of the completion it has polled
    sq,          \* work requests posted to a queue pair
    cq,          \* wr_ids completed on it
    mem,         \* the remote word
    fatal,       \* the ROME_ASSERT or ROME_FATAL that fired, "" when none did
    history,     \* <<word, old, new>> of every atomic that reported success
    overtaken    \* history: what writes carried that a later call wanted to write

ctlVars == <<id_gen, thread_ids>>
vars == <<ctlVars, counters, pc, op, ops, buffer, result, took, sq, cq, mem,
          fatal, history, overtaken>>

\* What memory holds at first, and the value a thread's k-th operation writes.
Initial == <<>>
NewValue(t, k) == <<t, k>>
NoOp == [kind |-> "read", qp |-> CHOOSE q \in Qp : TRUE,
         expect |-> Initial, new |-> Initial]

Signaled(o) == o.kind # "write_noack"

Init ==
    /\ id_gen = 1
    /\ thread_ids = [t \in Thread |-> 0]
    /\ counters = [i \in 1..THREAD_MAX |-> 0]
    /\ pc = [t \in Thread |-> "new"]
    /\ op = [t \in Thread |-> NoOp]
    /\ ops = [t \in Thread |-> 0]
    /\ buffer = [t \in Thread |-> Initial]
    /\ result = [t \in Thread |-> Initial]
    /\ took = [t \in Thread |-> 0]
    /\ sq = [q \in Qp |-> <<>>]
    /\ cq = [q \in Qp |-> <<>>]
    /\ mem = [q \in Qp |-> Initial]
    /\ fatal = ""
    /\ history = {} /\ overtaken = {}

Go(t, label) == pc' = [pc EXCEPT ![t] = label]

-----------------------------------------------------------------------------
\* Under control_lock_.  One thread too many is fatal.
RegisterThread(t) ==
    /\ pc[t] = "new"
    /\ \/ /\ id_gen <= THREAD_MAX
          /\ thread_ids' = [thread_ids EXCEPT ![t] = id_gen]
          /\ counters' = [counters EXCEPT ![id_gen] = 0]
          /\ id_gen' = id_gen + 1
          /\ Go(t, "idle")
          /\ UNCHANGED fatal
       \/ /\ id_gen > THREAD_MAX
          /\ fatal' = "Hit upper limit on THREAD_MAX"
          /\ UNCHANGED <<thread_ids, counters, id_gen, pc>>
    /\ UNCHANGED <<op, ops, buffer, result, took, sq, cq, mem, history>>

\* Entry of Read, Write, CompareAndSwap and AtomicSwap: the request is built and
\* a value to write is put into registered memory.  A swap starts from its hint,
\* which may be stale.
Call(t, kind, q) ==
    /\ pc[t] = "idle"
    /\ ops[t] < MaxOps[t]
    /\ ops' = [ops EXCEPT ![t] = @ + 1]
    /\ \E e \in {Initial, mem[q]} :
         /\ kind \notin {"cas", "swap"} => e = Initial
         /\ op' = [op EXCEPT ![t] = [kind |-> kind, qp |-> q, expect |-> e,
                                     new |-> NewValue(t, ops'[t])]]
    /\ buffer' = [buffer EXCEPT ![t] =
                    IF kind \in {"write", "write_noack"} THEN NewValue(t, ops'[t]) ELSE @]
    /\ Go(t, "expect")
    /\ UNCHANGED <<ctlVars, counters, result, took, sq, cq, mem, fatal, history>>

\* Mutants: no completion is expected for some signaled requests.
ExpectNoWrite(t) ==
    /\ pc[t] = "expect"
    /\ counters' = [counters EXCEPT ![thread_ids[t]] = IF op[t].kind = "write" THEN @ ELSE 1]
    /\ Go(t, "post")
    /\ UNCHANGED <<ctlVars, op, ops, buffer, result, took, sq, cq, mem, fatal, history>>
ExpectNoCas(t) ==
    /\ pc[t] = "expect"
    /\ counters' = [counters EXCEPT ![thread_ids[t]] = IF op[t].kind = "cas" THEN @ ELSE 1]
    /\ Go(t, "post")
    /\ UNCHANGED <<ctlVars, op, ops, buffer, result, took, sq, cq, mem, fatal, history>>

\* The counter is set before the request is posted, and not at all for a write
\* that asks for no completion.
Expect(t) ==
    /\ pc[t] = "expect"
    /\ counters' = [counters EXCEPT ![thread_ids[t]] = IF Signaled(op[t]) THEN 1 ELSE @]
    /\ Go(t, "post")
    /\ UNCHANGED <<ctlVars, op, ops, buffer, result, took, sq, cq, mem, fatal, history>>

Post(t) ==
    /\ pc[t] = "post"
    /\ sq' = [sq EXCEPT ![op[t].qp] = Append(@, [wr_id |-> thread_ids[t], from |-> t, op |-> op[t]])]
    /\ Go(t, "check")
    /\ UNCHANGED <<ctlVars, counters, op, ops, buffer, result, took, cq, mem, fatal, history>>

\* The loop condition: all completions are in when the own counter is 0.
Check(t) ==
    /\ pc[t] = "check"
    /\ counters[thread_ids[t]] # 0
    /\ Go(t, "poll")
    /\ UNCHANGED <<ctlVars, counters, op, ops, buffer, result, took, sq, cq, mem, fatal, history>>

PollEmpty(t) ==
    /\ pc[t] = "poll"
    /\ cq[op[t].qp] = <<>>
    /\ Go(t, "check")
    /\ UNCHANGED <<ctlVars, counters, op, ops, buffer, result, took, sq, cq, mem, fatal, history>>

\* Whoever polls takes the oldest completion, its own or not.
Poll(t) ==
    LET q == op[t].qp IN
    /\ pc[t] = "poll"
    /\ cq[q] # <<>>
    /\ took' = [took EXCEPT ![t] = Head(cq[q])]
    /\ cq' = [cq EXCEPT ![q] = Tail(@)]
    /\ Go(t, "subtract")
    /\ UNCHANGED <<ctlVars, counters, op, ops, buffer, result, sq, mem, fatal, history>>

\* Mutants: a thread counts every completion as its own, or drops foreign ones.
SubtractOwn(t) ==
    /\ pc[t] = "subtract"
    /\ counters' = [counters EXCEPT ![thread_ids[t]] = @ - 1]
    /\ took' = [took EXCEPT ![t] = 0]
    /\ Go(t, "check")
    /\ UNCHANGED <<ctlVars, op, ops, buffer, result, sq, cq, mem, fatal, history>>
SubtractOnlyOwn(t) ==
    /\ pc[t] = "subtract"
    /\ counters' = [counters EXCEPT ![thread_ids[t]] = IF took[t] = thread_ids[t] THEN 0 ELSE @]
    /\ took' = [took EXCEPT ![t] = 0]
    /\ Go(t, "check")
    /\ UNCHANGED <<ctlVars, op, ops, buffer, result, sq, cq, mem, fatal, history>>

\* fetch_sub on the counter of the thread the completion belongs to, and the
\* assertion on the old value ("Broken synchronization").
Subtract(t) ==
    /\ pc[t] = "subtract"
    /\ counters' = [counters EXCEPT ![took[t]] = @ - 1]
    /\ fatal' = IF counters[took[t]] < 1 THEN "Broken synchronization" ELSE fatal
    /\ took' = [took EXCEPT ![t] = 0]
    /\ Go(t, "check")
    /\ UNCHANGED <<ctlVars, op, ops, buffer, result, sq, cq, mem, history>>

Took(o, old) == o.kind \in {"cas", "swap"} /\ old = o.expect

\* The operation returns to a caller who takes it for a success: a swap always,
\* a compare-and-swap when the old value is the expected one.
Succeeds(t) ==
    history' = IF op[t].kind = "swap" \/ Took(op[t], result[t])
                 THEN history \cup {<<op[t].qp, result[t], op[t].new>>} ELSE history

\* Mutant: AtomicSwap does not try again.
ReturnAtOnce(t) ==
    /\ pc[t] = "check"
    /\ counters[thread_ids[t]] = 0
    /\ Succeeds(t)
    /\ Go(t, "idle")
    /\ UNCHANGED <<ctlVars, counters, op, ops, buffer, result, took, sq, cq, mem, fatal>>

\* The loop ends.  AtomicSwap tries again with the value it saw until the one it
\* expected was there.
Return(t) ==
    /\ pc[t] = "check"
    /\ counters[thread_ids[t]] = 0
    /\ \/ /\ op[t].kind = "swap"
          /\ result[t] # op[t].expect
          /\ op' = [op EXCEPT ![t].expect = result[t]]
          /\ Go(t, "expect")
          /\ UNCHANGED history
       \/ /\ op[t].kind # "swap" \/ result[t] = op[t].expect
          /\ Succeeds(t)
          /\ Go(t, "idle")
          /\ UNCHANGED op
    /\ UNCHANGED <<ctlVars, counters, ops, buffer, result, took, sq, cq, mem, fatal>>

\* The adapter executes the requests of a queue pair in order; a write sends
\* what the thread's buffer holds now.
Execute(q) ==
    LET w == Head(sq[q])
        o == w.op
        t == w.from
    IN
    /\ sq[q] # <<>>
    /\ sq' = [sq EXCEPT ![q] = Tail(@)]
    /\ mem' = [mem EXCEPT ![q] =
                 IF o.kind \in {"write", "write_noack"} THEN buffer[t]
                 ELSE IF Took(o, @) THEN o.new ELSE @]
    /\ result' = [result EXCEPT ![t] =
                    IF o.kind \in {"read", "cas", "swap"} THEN mem[q] ELSE @]
    /\ cq' = [cq EXCEPT ![q] = IF Signaled(o) THEN Append(@, w.wr_id) ELSE @]
    /\ overtaken' = IF o.kind \in {"write", "write_noack"} /\ buffer[t] # o.new
                      THEN overtaken \cup {buffer[t]} ELSE overtaken
    /\ UNCHANGED <<ctlVars, counters, pc, op, ops, buffer, took, fatal, history>>

\* A thread inside an operation.
Work(t) == \/ Expect(t) \/ Post(t)
           \/ Check(t) \/ PollEmpty(t) \/ Poll(t) \/ Subtract(t)
           \/ Return(t)

Step(t) == /\ \/ RegisterThread(t)
              \/ \E kind \in Kinds, q \in Qp : Call(t, kind, q)
              \/ Work(t)
           /\ UNCHANGED overtaken

\* A fatal error aborts the process.
Terminated ==
    /\ fatal # "" \/ \A t \in Thread : pc[t] = "idle" /\ ops[t] = MaxOps[t]
    /\ UNCHANGED vars

Next == \/ fatal = "" /\ \E t \in Thread : Step(t)
        \/ \E q \in Qp : Execute(q)
        \/ Terminated

Spec == Init /\ [][Next]_vars

\* Threads that called an operation keep polling and the adapter keeps executing;
\* nobody has to register or to call.
FairSpec == /\ Spec
            /\ \A t \in Thread : WF_vars(fatal = "" /\ Work(t) /\ UNCHANGED overtaken)
            /\ \A q \in Qp : WF_vars(Execute(q))

-----------------------------------------------------------------------------
Value == {Initial} \cup UNION {{t} \X (1..MaxOps[t]) : t \in Thread}
Op == [kind : {"read", "write", "write_noack", "cas", "swap"}, qp : Qp,
       expect : Value, new : Value]

\* The type of every variable.
TypeOK ==
    /\ id_gen \in 1 .. THREAD_MAX + 1
    /\ thread_ids \in [Thread -> 0..THREAD_MAX]
    /\ counters \in [1..THREAD_MAX -> Int]
    /\ pc \in [Thread -> {"new", "idle", "expect", "post", "check", "poll", "subtract"}]
    /\ op \in [Thread -> Op]
    /\ \A t \in Thread : ops[t] \in 0..MaxOps[t]
    /\ buffer \in [Thread -> Value]
    /\ result \in [Thread -> Value]
    /\ took \in [Thread -> 0..THREAD_MAX]
    /\ \A q \in Qp : \A i \in 1..Len(sq[q]) :
         sq[q][i] \in [wr_id : 1..THREAD_MAX, from : Thread, op : Op]
    /\ \A q \in Qp : cq[q] \in Seq(1..THREAD_MAX)
    /\ mem \in [Qp -> Value]
    /\ fatal \in {"", "Hit upper limit on THREAD_MAX", "Broken synchronization"}
    /\ history \subseteq Qp \X Value \X Value /\ overtaken \subseteq Value

\* A completion is on its way to a thread: executed or to be executed, queued,
\* or taken by somebody who has not subtracted it yet.
Outstanding(t) ==
    \/ \E q \in Qp : \E i \in 1..Len(sq[q]) : sq[q][i].from = t /\ Signaled(sq[q][i].op)
    \/ \E q \in Qp : \E i \in 1..Len(cq[q]) : cq[q][i] = thread_ids[t]
    \/ \E u \in Thread : took[u] # 0 /\ took[u] = thread_ids[t]

\* The assertion "Broken synchronization" never fires: a completion is never
\* subtracted from a counter that does not wait for it, whoever polled it.
NoBrokenSynchronization == fatal # "Broken synchronization"

\* reordering_counters is used within its bounds, also when one thread too many
\* registers, and every counter agrees with the completions subtracted from it.
CountersOK == TypeOK /\ NoBrokenSynchronization

\* A thread leaves the polling loop only when its own request has been executed
\* and its completion was taken, although others take completions too: an
\* operation never returns early, and no completion outlives its operation.
ReturnsAfterCompletion ==
    \A t \in Thread :
        pc[t] \in {"new", "idle"} \/ (pc[t] = "check" /\ counters[thread_ids[t]] = 0)
            => ~ Outstanding(t)

\* Two atomics on a word never report the same old value as the one they
\* replaced: CompareAndSwap and the retry loop of AtomicSwap are atomic across
\* all threads, also among writes to the same word.  Only a value that a write
\* without acknowledgement put there ahead of its own write can be seen twice.
AtomicsAreSerial ==
    \A a, b \in history : a[1] = b[1] /\ a[2] = b[2] /\ a[2] \notin overtaken => a = b

\* A write puts into remote memory the value it was called with.  Nobody waits
\* for a write without acknowledgement (the unlocking writes of the hash table),
\* so it alone may carry what a later call of its thread has put into the buffer.
WritesItsValue ==
    [][\A q \in Qp :
         LET o == Head(sq[q]).op IN
         sq[q] # <<>> /\ sq'[q] = Tail(sq[q]) /\ o.kind \in {"write", "write_noack"}
            => \/ mem'[q] = o.new
               \/ ~ Signaled(o) /\ ops[Head(sq[q]).from] > o.new[2]]_vars

\* Every operation returns, even when another thread takes its completion.
OperationsReturn ==
    \A t \in Thread : pc[t] \notin {"new", "idle"} ~> pc[t] = "idle" \/ fatal # ""
=============================================================================
