----------------------------- MODULE Messenger -----------------------------
(***************************************************************************)
(* One direction of a TwoSidedRdmaMessenger: the sender's ring of bytes,   *)
(* the receiver's fixed slots, and the queue pair between them.            *)
(*                                                                         *)
(* The receiver posts all its slots at once and posts them again when it   *)
(* has read the last one.  The adapter fills posted slots in order and     *)
(* queues one completion for each; reading copies the slot recv_next_      *)
(* points at, whichever slot the completion was for.                       *)
(***************************************************************************)
EXTENDS Naturals, Sequences

CONSTANTS
    NumSlots,       \* recv_cap_ / kRecvMaxBytes
    kRecvMaxBytes,  \* size of a receive slot
    max_recv_wr,    \* receives the queue pair accepts
    Message,        \* payloads
    Garbage,        \* what a slot holds before anything was received
    MaxSends        \* bound: messages sent in a behaviour

ASSUME MessengerAssumption ==
    /\ NumSlots \in Nat \ {0}
    /\ kRecvMaxBytes \in Nat \ {0}
    /\ max_recv_wr \in Nat /\ max_recv_wr >= NumSlots
    /\ MaxSends \in Nat
    /\ Garbage \notin Message

Slot == 0 .. NumSlots - 1
send_cap == NumSlots * kRecvMaxBytes

\* Bound: reads of a receiver that may be handed messages nobody sent.
MaxReads == MaxSends + 1

VARIABLES
    send_next,   \* offset of the next byte of the send buffer
    spc,         \* the sending thread: idle, posted, acked or failed
    length,      \* length of the message being sent
    sent,        \* messages handed to SendMessage, in order
    rq,          \* slots posted to the receive queue
    slots,       \* contents of the receive buffer
    cq,          \* completions of the receive queue
    recv_next,   \* the slot recv_next_ points at
    recv_total,  \* recv_total_
    rpc,         \* the receiving thread: running, aborted or crashed
    delivered,   \* messages returned to the receiver, in order
    phantom      \* history: a poll was handed a message without a completion

sendVars == <<send_next, spc, length, sent>>
recvVars == <<rq, slots, cq, recv_next, recv_total, rpc, delivered, phantom>>
vars == <<sendVars, recvVars>>

AllSlots == [i \in 1..NumSlots |-> i - 1]

Init ==
    /\ send_next = 0
    /\ spc = "idle"
    /\ length = 0
    /\ sent = <<>>
    /\ rq = AllSlots
    /\ slots = [s \in Slot |-> Garbage]
    /\ cq = <<>>
    /\ recv_next = 0
    /\ recv_total = 0
    /\ rpc = "running"
    /\ delivered = <<>>
    /\ phantom = FALSE

-----------------------------------------------------------------------------
(* The sender.                                                              *)

\* Mutant: the buffer is taken to be one byte longer.
SendOffsetLate(len) == IF send_next + len > send_cap + 1 THEN 0 ELSE send_next

\* Where the message is copied: a message that does not fit behind the last one
\* goes to the start of the buffer.
SendOffset(len) == IF send_next + len > send_cap THEN 0 ELSE send_next

\* SendMessage up to ibv_post_send.  Messages of kRecvMaxBytes or more are
\* refused and change nothing.
SendPost(m, len) ==
    /\ spc = "idle"
    /\ Len(sent) < MaxSends
    /\ len < kRecvMaxBytes
    /\ send_next' = SendOffset(len)
    /\ length' = len
    /\ sent' = Append(sent, m)
    /\ spc' = "posted"
    /\ UNCHANGED recvVars

\* The send completed: SendMessage moves past the message and returns Ok.
SendComplete ==
    /\ spc = "acked"
    /\ send_next' = send_next + length
    /\ spc' = "idle"
    /\ UNCHANGED <<length, sent, recvVars>>

-----------------------------------------------------------------------------
(* The queue pair.                                                          *)

\* A posted receive takes the message and completes.
Transfer ==
    /\ spc = "posted"
    /\ rq # <<>>
    /\ slots' = [slots EXCEPT ![Head(rq)] = sent[Len(sent)]]
    /\ rq' = Tail(rq)
    /\ cq' = Append(cq, "SUCCESS")
    /\ spc' = "acked"
    /\ UNCHANGED <<send_next, length, sent, recv_next, recv_total, rpc, delivered, phantom>>

\* No receive is posted and the one retry is used up: the queue pair is in
\* error and SendMessage returns InternalError, now and ever after.
RnrExhausted ==
    /\ spc = "posted"
    /\ rq = <<>>
    /\ spc' = "failed"
    /\ UNCHANGED <<send_next, length, sent, recvVars>>

\* The sender's process goes away between two sends: what is posted is flushed.
Disconnect ==
    /\ spc = "idle"
    /\ spc' = "failed"
    /\ cq' = cq \o [i \in 1..Len(rq) |-> "WR_FLUSH_ERR"]
    /\ rq' = <<>>
    /\ UNCHANGED <<send_next, length, sent, slots, recv_next, recv_total, rpc, delivered, phantom>>

-----------------------------------------------------------------------------
(* The receiver.                                                            *)

\* Mutant: the slots are posted again before the last one is read.
ConsumeEarly ==
    /\ delivered' = Append(delivered, slots[recv_next])
    /\ recv_total' = recv_total + 1
    /\ rq' = IF recv_next + 2 = NumSlots THEN rq \o AllSlots ELSE rq
    /\ recv_next' = (recv_next + 1) % NumSlots
    /\ UNCHANGED rpc

\* Mutant: recv_next_ stays where it is.
ConsumeSameSlot ==
    /\ delivered' = Append(delivered, slots[recv_next])
    /\ recv_total' = recv_total + 1
    /\ UNCHANGED <<recv_next, rq, rpc>>

\* Copy the slot, step to the next one and, behind the last, post all slots
\* again; posting more than the queue pair takes aborts the program.
Consume ==
    /\ delivered' = Append(delivered, slots[recv_next])
    /\ recv_total' = recv_total + 1
    /\ \/ /\ recv_next + 1 < NumSlots
          /\ recv_next' = recv_next + 1
          /\ UNCHANGED <<rq, rpc>>
       \/ /\ recv_next + 1 >= NumSlots
          /\ Len(rq) + NumSlots <= max_recv_wr
          /\ recv_next' = 0
          /\ rq' = rq \o AllSlots
          /\ UNCHANGED rpc
       \/ /\ recv_next + 1 >= NumSlots
          /\ Len(rq) + NumSlots > max_recv_wr
          /\ rpc' = "crashed"
          /\ UNCHANGED <<recv_next, rq>>

\* Mutant: the completion is taken and the message is not.
DeliverNothing ==
    /\ rpc = "running"
    /\ cq # <<>>
    /\ Head(cq) = "SUCCESS"
    /\ cq' = Tail(cq)
    /\ recv_next' = (recv_next + 1) % NumSlots
    /\ rq' = IF recv_next + 1 < NumSlots THEN rq ELSE rq \o AllSlots
    /\ UNCHANGED <<sendVars, slots, recv_total, rpc, delivered, phantom>>

\* TryDeliverMessage and TryPollMessage on a completion queue with an entry.
DeliverMessage ==
    /\ rpc = "running"
    /\ cq # <<>>
    /\ Head(cq) = "SUCCESS"
    /\ cq' = Tail(cq)
    /\ Consume
    /\ UNCHANGED <<sendVars, slots, phantom>>

TakeFlushed ==
    /\ rpc = "running"
    /\ cq # <<>>
    /\ Head(cq) = "WR_FLUSH_ERR"
    /\ cq' = Tail(cq)
    /\ UNCHANGED <<sendVars, rq, slots, recv_next, recv_total, delivered, phantom>>

\* The receive was flushed: Aborted, and Deliver's caller gives up.
DeliverFlushed == TakeFlushed /\ rpc' = "aborted"

\* TryReceive turns every error into nullopt, and its caller polls again.
PollFlushed == TakeFlushed /\ UNCHANGED rpc

\* TryPollMessage on an empty completion queue: ibv_poll_cq returns 0, which is
\* not an error, and the switch reads a wc nobody wrote.  Any status but SUCCESS
\* changes nothing; SUCCESS delivers whatever the next slot holds.
PollUnwritten ==
    /\ rpc = "running"
    /\ cq = <<>>
    /\ Len(delivered) < MaxReads
    /\ Consume
    /\ phantom' = TRUE
    /\ UNCHANGED <<sendVars, slots, cq>>

SenderOrQp ==
    \/ \E m \in Message, len \in 0..kRecvMaxBytes : SendPost(m, len)
    \/ SendComplete
    \/ Transfer
    \/ RnrExhausted
    \/ Disconnect

\* Everything was sent and read, or somebody gave up.
Terminated ==
    /\ \/ rpc # "running"
       \/ cq = <<>> /\ (spc = "failed" \/ (Len(sent) = MaxSends /\ spc = "idle"))
    /\ UNCHANGED vars

\* The receiver calls Deliver, or TryReceive in a loop.
Next == \/ SenderOrQp
        \/ DeliverMessage \/ DeliverFlushed
        \/ PollFlushed \/ PollUnwritten
        \/ Terminated

Spec == Init /\ [][Next]_vars

\* The adapter makes progress and both threads poll until they are served.
FairSpec == Spec /\ WF_vars(SendComplete) /\ WF_vars(Transfer)
                 /\ WF_vars(DeliverMessage \/ DeliverFlushed \/ PollFlushed)

-----------------------------------------------------------------------------
\* The type of every variable.
TypeOK ==
    /\ send_next \in Nat
    /\ spc \in {"idle", "posted", "acked", "failed"}
    /\ length \in Nat
    /\ sent \in Seq(Message)
    /\ rq \in Seq(Slot)
    /\ slots \in [Slot -> Message \cup {Garbage}]
    /\ cq \in Seq({"SUCCESS", "WR_FLUSH_ERR"})
    /\ recv_next \in Slot
    /\ recv_total \in Nat
    /\ rpc \in {"running", "aborted", "crashed"}
    /\ delivered \in Seq(Message \cup {Garbage})
    /\ phantom \in BOOLEAN

\* A message that is being sent lies inside the send buffer, wherever the
\* lengths sent before have moved send_next_.
SendInBounds == spc \in {"posted", "acked"} => send_next + length <= send_cap

\* "This should only be called when all posted receives have corresponding
\* completions, otherwise there may be a race on memory by posted recvs": no
\* slot is posted while the message in it still waits to be read, so nothing
\* unread is overwritten, unless the receiver took a slot without a completion.
UnreadNotPosted ==
    ~ phantom => \A i \in 1..Len(cq), j \in 1..Len(rq) :
                    cq[i] = "SUCCESS" => rq[j] # recv_next + i - 1

\* An Ok from SendMessage means that the message lies in the receiver's memory,
\* at the slot the receiver will read it from, unless it read one too early.
OkMeansArrived ==
    ~ phantom /\ rpc = "running" /\ spc \in {"idle", "acked"} =>
        \A i \in 1..Len(sent) :
            \/ i <= Len(delivered)
            \/ \E s \in Slot : s = recv_next + i - Len(delivered) - 1 /\ slots[s] = sent[i]

\* The assertion in PrepareRecvBuffer ("Unexpected number of completions from
\* RQ") holds whenever it runs, and the two counters stay in step in between.
RecvInStep == rpc # "crashed" => recv_total % NumSlots = recv_next

\* The two rings and their counters agree, at every turn of either: nothing is
\* sent from outside the buffer, and what was acknowledged lies where the
\* receiver looks next.
RingsAgree == TypeOK /\ SendInBounds /\ OkMeansArrived /\ RecvInStep

\* The messenger implements a FIFO channel: what the receiver gets is what was
\* sent, once each, unchanged and in order, whether it calls Deliver or
\* TryReceive, up to the first poll that takes an empty queue for a completion.
Fifo == INSTANCE FifoChannel WITH broken <- spc = "failed"
ImplementsFifo ==
    /\ Fifo!Init
    /\ [][phantom' \/ Fifo!Next]_<<sent, delivered, spc = "failed">>

\* A message sent is delivered in the end, unless the queue pair broke, the
\* receiver gave up or it read a slot too early.
SentIsDelivered ==
    \A i \in 1..MaxSends :
        Len(sent) >= i ~> Len(delivered) >= i \/ spc = "failed" \/ rpc # "running" \/ phantom
=============================================================================
