-------------------------- MODULE MessengerProofs --------------------------
(***************************************************************************)
(* Theorems about Messenger, for any number and size of slots, any set of  *)
(* messages and any number of sends.                                       *)
(*                                                                         *)
(* As long as no poll has taken an empty queue for a completion, the slots *)
(* from recv_next_ to the end of the receive buffer are, in order, those   *)
(* with a message that waits to be read and those that are posted.         *)
(***************************************************************************)
EXTENDS Messenger, TLAPS, SequenceTheorems

\* The completions queued are those of c messages, then those of flushed receives.
Waiting(c) == /\ c \in 0..Len(cq)
              /\ \A i \in 1..Len(cq) : cq[i] = "SUCCESS" <=> i <= c
              /\ spc # "failed" => c = Len(cq)

\* The slots behind the c messages that wait, up to the last one, are posted.
Posted(c) == /\ recv_next + c <= NumSlots
             /\ \/ Len(rq) = NumSlots - recv_next - c
                \/ Len(rq) = 0 /\ spc = "failed"
             /\ \A j \in 1..Len(rq) : rq[j] = recv_next + c + j - 1

\* What waits is what was sent and not delivered, but for a message that is posted.
Arrived(c) == /\ \A i \in 1..c : /\ Len(delivered) + i <= Len(sent)
                                 /\ slots[recv_next + i - 1] = sent[Len(delivered) + i]
              /\ spc \in {"idle", "acked"} => Len(sent) = Len(delivered) + c
              /\ spc = "posted" => Len(sent) = Len(delivered) + c + 1

RingInv == ~ phantom => /\ rpc # "crashed"
                        /\ \E c \in Nat : Waiting(c) /\ Posted(c) /\ Arrived(c)

\* Every turn of the ring has counted all slots.
TurnsInv == rpc # "crashed" => \E k \in Nat : recv_total = k * NumSlots + recv_next

\* A message that is posted was handed to SendMessage.
SomethingSent == spc = "posted" => sent # <<>>

IInv == TypeOK /\ SomethingSent /\ SendInBounds /\ TurnsInv /\ RingInv

-----------------------------------------------------------------------------
\* The slots posted by PrepareRecvBuffer.
LEMMA AllSlotsType ==
    /\ AllSlots \in Seq(Slot)
    /\ Len(AllSlots) = NumSlots
    /\ \A i \in 1..NumSlots : AllSlots[i] = i - 1
<1>1. NumSlots \in Nat /\ \A i \in 1..NumSlots : i - 1 \in Slot
  BY MessengerAssumption DEF MessengerAssumption, Slot
<1>2. AllSlots \in Seq(Slot)
  BY <1>1, IsASeq DEF AllSlots
<1>3. QED
  BY <1>1, <1>2, LenProperties DEF AllSlots

\* Flushed receives complete in error.
LEMMA FlushedType ==
    ASSUME NEW n \in Nat
    PROVE  /\ [i \in 1..n |-> "WR_FLUSH_ERR"] \in Seq({"SUCCESS", "WR_FLUSH_ERR"})
           /\ Len([i \in 1..n |-> "WR_FLUSH_ERR"]) = n
  OBVIOUS

\* The remainder of a number of full turns and a slot.
LEMMA Turns ==
    ASSUME NEW k \in Nat, NEW n \in Nat \ {0}, NEW r \in 0 .. n - 1
    PROVE  (k * n + r) % n = r
  OBVIOUS

\* A message that is not refused fits into an empty send buffer.
LEMMA CapType == send_cap \in Nat /\ kRecvMaxBytes <= send_cap
<1>1. \A n, k \in Nat \ {0} : n * k \in Nat /\ k <= n * k
  OBVIOUS
<1>2. QED
  BY <1>1, MessengerAssumption DEF MessengerAssumption, send_cap

-----------------------------------------------------------------------------
LEMMA ConsumeType ==
    ASSUME TypeOK, Consume
    PROVE  /\ rq' \in Seq(Slot) /\ recv_next' \in Slot /\ recv_total' \in Nat
           /\ delivered' \in Seq(Message \cup {Garbage})
           /\ rpc' \in {rpc, "crashed"}
<1>1. slots[recv_next] \in Message \cup {Garbage}
  BY DEF TypeOK
<1>2. delivered' \in Seq(Message \cup {Garbage})
  BY <1>1 DEF TypeOK, Consume
<1>3. rq' \in Seq(Slot)
  <2>1. rq \o AllSlots \in Seq(Slot)
    BY AllSlotsType, ConcatProperties DEF TypeOK
  <2>2. rq' \in {rq, rq \o AllSlots}
    BY DEF Consume
  <2>3. QED
    BY <2>1, <2>2 DEF TypeOK
<1>4. recv_next' \in Slot /\ recv_total' \in Nat
  BY MessengerAssumption DEF TypeOK, Consume, Slot, MessengerAssumption
<1>5. QED
  BY <1>2, <1>3, <1>4 DEF Consume

LEMMA TypeStep ==
    ASSUME TypeOK, SomethingSent, [Next]_vars
    PROVE  TypeOK'
<1>1. ASSUME NEW m \in Message, NEW len \in 0..kRecvMaxBytes, SendPost(m, len)
      PROVE  TypeOK'
  BY <1>1, MessengerAssumption
  DEF MessengerAssumption, TypeOK, SendPost, SendOffset, recvVars
<1>2. CASE SendComplete
  BY <1>2 DEF TypeOK, SendComplete, recvVars
<1>3. CASE Transfer
  <2>1. spc = "posted" /\ rq # <<>> /\ Head(rq) \in Slot /\ Tail(rq) \in Seq(Slot)
    BY <1>3, HeadTailProperties DEF TypeOK, Transfer
  <2>2. cq' \in Seq({"SUCCESS", "WR_FLUSH_ERR"})
    BY <1>3 DEF TypeOK, Transfer
  <2>3. slots' \in [Slot -> Message \cup {Garbage}]
    <3>1. sent[Len(sent)] \in Message
      BY <2>1 DEF TypeOK, SomethingSent
    <3>2. QED
      BY <1>3, <2>1, <3>1 DEF TypeOK, Transfer
  <2>4. QED
    BY <1>3, <2>1, <2>2, <2>3 DEF TypeOK, Transfer
<1>4. CASE RnrExhausted
  BY <1>4 DEF TypeOK, RnrExhausted, recvVars
<1>5. CASE Disconnect
  <2>1. cq' \in Seq({"SUCCESS", "WR_FLUSH_ERR"})
    BY <1>5, FlushedType, ConcatProperties, LenProperties DEF TypeOK, Disconnect
  <2>2. QED
    BY <1>5, <2>1 DEF TypeOK, Disconnect
<1>6. CASE DeliverMessage
  BY <1>6, ConsumeType DEF TypeOK, DeliverMessage, sendVars
<1>7. CASE DeliverFlushed \/ PollFlushed
  <2>1. cq' \in Seq({"SUCCESS", "WR_FLUSH_ERR"})
    BY <1>7, HeadTailProperties DEF TypeOK, DeliverFlushed, PollFlushed, TakeFlushed
  <2>2. rpc' \in {"running", "aborted", "crashed"}
    BY <1>7 DEF TypeOK, DeliverFlushed, PollFlushed, TakeFlushed
  <2>3. QED
    BY <1>7, <2>1, <2>2 DEF TypeOK, DeliverFlushed, PollFlushed, TakeFlushed, sendVars
<1>8. CASE PollUnwritten
  BY <1>8, ConsumeType DEF TypeOK, PollUnwritten, sendVars
<1>9. CASE UNCHANGED vars
  BY <1>9 DEF TypeOK, vars, sendVars, recvVars
<1>10. QED
  BY <1>1, <1>2, <1>3, <1>4, <1>5, <1>6, <1>7, <1>8, <1>9
  DEF Next, SenderOrQp, Terminated

LEMMA SenderStep ==
    ASSUME TypeOK, SomethingSent, SendInBounds, [Next]_vars
    PROVE  SomethingSent' /\ SendInBounds'
<1> USE DEF SomethingSent, SendInBounds
<1>1. ASSUME NEW m \in Message, NEW len \in 0..kRecvMaxBytes, SendPost(m, len)
      PROVE  SomethingSent' /\ SendInBounds'
  <2>1. sent' # <<>>
    BY <1>1 DEF SendPost, TypeOK
  <2>2. send_next' + length' <= send_cap
    BY <1>1, CapType, MessengerAssumption
    DEF SendPost, SendOffset, TypeOK, MessengerAssumption
  <2>3. QED
    BY <2>1, <2>2
<1>2. CASE SendComplete
  BY <1>2 DEF SendComplete
<1>3. CASE Transfer
  BY <1>3 DEF Transfer
<1>4. CASE RnrExhausted \/ Disconnect
  BY <1>4 DEF RnrExhausted, Disconnect
<1>5. CASE DeliverMessage \/ PollUnwritten
  BY <1>5 DEF DeliverMessage, PollUnwritten, sendVars
<1>6. CASE DeliverFlushed \/ PollFlushed
  BY <1>6 DEF DeliverFlushed, PollFlushed, TakeFlushed, sendVars
<1>7. CASE UNCHANGED vars
  BY <1>7 DEF vars, sendVars
<1>8. QED
  BY <1>1, <1>2, <1>3, <1>4, <1>5, <1>6, <1>7 DEF Next, SenderOrQp, Terminated

LEMMA TurnsStep ==
    ASSUME TypeOK, TurnsInv, [Next]_vars
    PROVE  TurnsInv'
<1>1. CASE rpc = "running" /\ Consume
  <2>1. SUFFICES ASSUME rpc' # "crashed"
                 PROVE  \E k \in Nat : recv_total' = k * NumSlots + recv_next'
    BY DEF TurnsInv
  <2>2. PICK k \in Nat : recv_total = k * NumSlots + recv_next
    BY <1>1 DEF TurnsInv
  <2>3. NumSlots \in Nat \ {0} /\ recv_next \in 0 .. NumSlots - 1 /\ recv_total' = recv_total + 1
    BY <1>1, MessengerAssumption DEF MessengerAssumption, TypeOK, Slot, Consume
  <2>4. CASE recv_next' = recv_next + 1
    BY <2>2, <2>3, <2>4
  <2>5. CASE recv_next' = 0 /\ recv_next + 1 >= NumSlots
    <3>1. recv_total' = (k + 1) * NumSlots + recv_next'
      BY <2>2, <2>3, <2>5
    <3>2. QED
      BY <3>1
  <2>6. QED
    BY <1>1, <2>1, <2>4, <2>5 DEF Consume
<1>2. CASE UNCHANGED <<recv_next, recv_total, rpc>>
  BY <1>2 DEF TurnsInv
<1>3. CASE TakeFlushed
  BY <1>3 DEF TurnsInv, TakeFlushed
<1>4. QED
  BY <1>1, <1>2, <1>3
  DEF Next, SenderOrQp, Terminated, SendPost, SendComplete, Transfer, RnrExhausted, Disconnect,
      DeliverMessage, DeliverFlushed, PollFlushed, PollUnwritten, vars, recvVars

-----------------------------------------------------------------------------
\* The receiver takes the message of the first completion.
LEMMA DeliverRing ==
    ASSUME TypeOK, RingInv, DeliverMessage, ~ phantom
    PROVE  RingInv' /\ slots[recv_next] = sent[Len(delivered) + 1] /\ Len(delivered) < Len(sent)
<1>1. PICK c \in Nat : Waiting(c) /\ Posted(c) /\ Arrived(c)
  BY DEF RingInv
<1>2. /\ Len(cq) \in Nat /\ Len(cq) >= 1 /\ Len(cq') = Len(cq) - 1
      /\ \A i \in 1..Len(cq') : cq'[i] = cq[i + 1]
      /\ cq[1] = "SUCCESS"
  BY HeadTailProperties, EmptySeq DEF TypeOK, DeliverMessage
<1>3. c >= 1
  BY <1>1, <1>2 DEF Waiting
<1>4. slots[recv_next] = sent[Len(delivered) + 1] /\ Len(delivered) < Len(sent)
  <2>1. Len(delivered) + 1 <= Len(sent) /\ slots[recv_next + 1 - 1] = sent[Len(delivered) + 1]
    BY <1>1, <1>3 DEF Arrived
  <2>2. recv_next + 1 - 1 = recv_next
    BY MessengerAssumption DEF TypeOK, Slot, MessengerAssumption
  <2>3. QED
    BY <2>1, <2>2 DEF TypeOK
<1>5. Len(delivered') = Len(delivered) + 1 /\ UNCHANGED <<spc, sent, slots>>
  BY DEF TypeOK, DeliverMessage, Consume, sendVars
<1>6. Waiting(c - 1)'
  BY <1>1, <1>2, <1>3, <1>5 DEF Waiting
<1>7. recv_next \in 0 .. NumSlots - 1 /\ NumSlots \in Nat \ {0} /\ max_recv_wr \in Nat
      /\ max_recv_wr >= NumSlots /\ Len(rq) \in Nat
  BY MessengerAssumption DEF TypeOK, Slot, MessengerAssumption
<1>8. CASE recv_next + 1 < NumSlots
  <2>1. recv_next' = recv_next + 1 /\ rq' = rq /\ rpc' = rpc
    BY <1>7, <1>8 DEF DeliverMessage, Consume
  <2>2. Posted(c - 1)'
    BY <1>1, <1>3, <1>5, <1>7, <2>1 DEF Posted
  <2>3. Arrived(c - 1)'
    <3>1. ASSUME NEW i \in 1 .. c - 1
          PROVE  /\ Len(delivered') + i <= Len(sent')
                 /\ slots'[recv_next' + i - 1] = sent'[Len(delivered') + i]
      <4> DEFINE k == i + 1
      <4>0. k \in 1..c
        BY <1>3
      <4> HIDE DEF k
      <4>1. /\ Len(delivered) + k <= Len(sent)
            /\ slots[recv_next + k - 1] = sent[Len(delivered) + k]
        BY <1>1, <4>0 DEF Arrived
      <4>2. /\ Len(delivered') + i = Len(delivered) + k
            /\ recv_next' + i - 1 = recv_next + k - 1
        BY <1>5, <1>7, <2>1 DEF TypeOK, k
      <4>3. QED
        BY <1>5, <4>1, <4>2
    <3>2. QED
      BY <1>1, <1>3, <1>5, <3>1 DEF Arrived, TypeOK
  <2>4. QED
    BY <1>3, <1>4, <1>6, <2>1, <2>2, <2>3 DEF RingInv, DeliverMessage
<1>9. CASE recv_next + 1 >= NumSlots
  <2>1. c = 1 /\ Len(rq) = 0
    BY <1>1, <1>3, <1>7, <1>9 DEF Posted
  <2>2. recv_next' = 0 /\ rq' = rq \o AllSlots /\ rpc' = rpc
    BY <1>7, <1>9, <2>1 DEF DeliverMessage, Consume
  <2>3. Len(rq') = NumSlots /\ \A j \in 1..NumSlots : rq'[j] = j - 1
    BY <1>7, <2>1, <2>2, AllSlotsType, ConcatProperties DEF TypeOK
  <2>4. Posted(0)'
    BY <1>7, <2>2, <2>3 DEF Posted
  <2>5. Arrived(0)'
    BY <1>1, <1>5, <2>1 DEF Arrived, TypeOK
  <2>6. QED
    BY <1>4, <1>6, <2>1, <2>2, <2>4, <2>5 DEF RingInv, DeliverMessage
<1>10. QED
  BY <1>7, <1>8, <1>9

LEMMA RingStep ==
    ASSUME TypeOK, SomethingSent, RingInv, [Next]_vars
    PROVE  RingInv'
<1>1. SUFFICES ASSUME ~ phantom, ~ phantom'
               PROVE  RingInv'
  BY DEF RingInv, TypeOK, Next, SenderOrQp, Terminated, SendPost, SendComplete, Transfer,
      RnrExhausted, Disconnect, DeliverMessage, DeliverFlushed, PollFlushed, TakeFlushed,
      PollUnwritten, vars, recvVars
<1>2. PICK c \in Nat : Waiting(c) /\ Posted(c) /\ Arrived(c)
  BY <1>1 DEF RingInv
<1>3. rpc # "crashed"
  BY <1>1 DEF RingInv
<1>4. ASSUME NEW m \in Message, NEW len \in 0..kRecvMaxBytes, SendPost(m, len)
      PROVE  RingInv'
  <2>1. Len(sent') = Len(sent) + 1 /\ \A i \in 1..Len(sent) : sent'[i] = sent[i]
    BY <1>4 DEF SendPost, TypeOK
  <2>2. Waiting(c)' /\ Posted(c)'
    BY <1>2, <1>4 DEF SendPost, recvVars, Waiting, Posted
  <2>3. Arrived(c)'
    BY <1>2, <1>4, <2>1 DEF SendPost, recvVars, Arrived, TypeOK
  <2>4. QED
    BY <1>3, <1>4, <2>2, <2>3 DEF RingInv, SendPost, recvVars
<1>5. CASE SendComplete
  <2>1. Waiting(c)' /\ Posted(c)' /\ Arrived(c)'
    BY <1>2, <1>5 DEF SendComplete, recvVars, Waiting, Posted, Arrived
  <2>2. QED
    BY <1>3, <1>5, <2>1 DEF RingInv, SendComplete, recvVars
<1>6. CASE Transfer
  <2>1. /\ Len(rq) \in Nat /\ Len(rq) >= 1 /\ Head(rq) = rq[1]
        /\ Len(rq') = Len(rq) - 1 /\ \A j \in 1..Len(rq') : rq'[j] = rq[j + 1]
    BY <1>6, HeadTailProperties, EmptySeq DEF Transfer, TypeOK
  <2>2. c = Len(cq) /\ rq[1] = recv_next + c /\ Len(rq) = NumSlots - recv_next - c
    BY <1>2, <1>6, <2>1 DEF Waiting, Posted, Transfer, TypeOK, Slot
  <2>3. /\ Len(cq') = Len(cq) + 1 /\ cq'[Len(cq) + 1] = "SUCCESS"
        /\ \A i \in 1..Len(cq) : cq'[i] = cq[i]
    BY <1>6 DEF Transfer, TypeOK
  <2>4. Waiting(c + 1)'
    BY <1>2, <1>6, <2>2, <2>3 DEF Waiting, Transfer, TypeOK
  <2>5. Posted(c + 1)'
    BY <1>2, <1>6, <2>1, <2>2, MessengerAssumption
    DEF Posted, Transfer, TypeOK, Slot, MessengerAssumption
  <2>6. Arrived(c + 1)'
    <3>1. Len(sent) = Len(delivered) + c + 1
      BY <1>2, <1>6 DEF Arrived, Transfer
    <3>2. \A i \in 1..c : recv_next + i - 1 \in Slot
                       /\ recv_next + i - 1 # recv_next + c
      BY <1>2, MessengerAssumption DEF Posted, TypeOK, Slot, MessengerAssumption
    <3>3. recv_next + c \in Slot
      BY <1>2, <2>1, <2>2, MessengerAssumption
      DEF Posted, TypeOK, Slot, MessengerAssumption
    <3>4. /\ slots'[recv_next + c] = sent[Len(delivered) + c + 1]
          /\ \A i \in 1..c : slots'[recv_next + i - 1] = slots[recv_next + i - 1]
      BY <1>6, <2>1, <2>2, <3>1, <3>2, <3>3 DEF Transfer, TypeOK
    <3>5. QED
      <4>1. ASSUME NEW i \in 1 .. c + 1
            PROVE  /\ Len(delivered) + i <= Len(sent)
                   /\ slots'[recv_next + i - 1] = sent[Len(delivered) + i]
        <5>1. CASE i \in 1..c
          BY <1>2, <3>4, <5>1 DEF Arrived
        <5>2. CASE i = c + 1
          <6>1. recv_next + i - 1 = recv_next + c /\ Len(delivered) + i = Len(delivered) + c + 1
            BY <5>2 DEF TypeOK, Slot
          <6>2. QED
            BY <3>1, <3>4, <6>1 DEF TypeOK
        <5>3. QED
          BY <5>1, <5>2
      <4>2. QED
        BY <1>6, <3>1, <4>1 DEF Arrived, Transfer, TypeOK
  <2>7. QED
    BY <1>3, <1>6, <2>4, <2>5, <2>6 DEF RingInv, Transfer
<1>7. CASE RnrExhausted
  <2>1. Waiting(c)' /\ Posted(c)' /\ Arrived(c)'
    BY <1>2, <1>7 DEF RnrExhausted, recvVars, Waiting, Posted, Arrived
  <2>2. QED
    BY <1>3, <1>7, <2>1 DEF RingInv, RnrExhausted, recvVars
<1>8. CASE Disconnect
  <2>1. Len(rq) \in Nat /\ Len(cq) \in Nat /\ c = Len(cq)
    BY <1>2, <1>8 DEF Disconnect, Waiting, TypeOK
  <2>2. /\ Len(cq') = Len(cq) + Len(rq)
        /\ \A i \in 1..Len(cq') : cq'[i] = IF i <= Len(cq) THEN cq[i] ELSE "WR_FLUSH_ERR"
    BY <1>8, <2>1, FlushedType, ConcatProperties DEF Disconnect, TypeOK
  <2>3. Waiting(c)'
    BY <1>2, <1>8, <2>1, <2>2 DEF Disconnect, Waiting
  <2>4. Posted(c)' /\ Arrived(c)'
    BY <1>2, <1>8 DEF Disconnect, Posted, Arrived
  <2>5. QED
    BY <1>3, <1>8, <2>3, <2>4 DEF RingInv, Disconnect
<1>9. CASE DeliverMessage
  BY <1>1, <1>9, DeliverRing
<1>10. CASE DeliverFlushed \/ PollFlushed
  <2>1. TakeFlushed /\ rpc' # "crashed" /\ UNCHANGED spc
    BY <1>3, <1>10 DEF DeliverFlushed, PollFlushed, TakeFlushed, sendVars
  <2>2. /\ Len(cq) \in Nat /\ Len(cq) >= 1 /\ Len(cq') = Len(cq) - 1
        /\ \A i \in 1..Len(cq') : cq'[i] = cq[i + 1]
        /\ cq[1] # "SUCCESS"
    BY <2>1, HeadTailProperties, EmptySeq DEF TakeFlushed, TypeOK
  <2>3. c = 0 /\ spc = "failed"
    BY <1>2, <2>2 DEF Waiting
  <2>4. Waiting(0)'
    BY <1>2, <2>1, <2>2, <2>3 DEF Waiting
  <2>5. Posted(0)' /\ Arrived(0)'
    BY <1>2, <2>1, <2>3 DEF TakeFlushed, sendVars, Posted, Arrived
  <2>6. QED
    BY <2>1, <2>4, <2>5 DEF RingInv
<1>11. CASE PollUnwritten
  BY <1>1, <1>11 DEF PollUnwritten
<1>12. CASE UNCHANGED vars
  <2>1. Waiting(c)' /\ Posted(c)' /\ Arrived(c)'
    BY <1>2, <1>12 DEF vars, sendVars, recvVars, Waiting, Posted, Arrived
  <2>2. QED
    BY <1>3, <1>12, <2>1 DEF RingInv, vars, recvVars
<1>13. QED
  BY <1>4, <1>5, <1>6, <1>7, <1>8, <1>9, <1>10, <1>11, <1>12
  DEF Next, SenderOrQp, Terminated

-----------------------------------------------------------------------------
LEMMA InitInv == Init => IInv
<1> SUFFICES ASSUME Init PROVE IInv
  OBVIOUS
<1> USE DEF Init
<1>2. TypeOK
  <2>1. recv_next \in Slot
    BY MessengerAssumption DEF Slot, MessengerAssumption
  <2>2. slots \in [Slot -> Message \cup {Garbage}]
    OBVIOUS
  <2>3. sent \in Seq(Message) /\ delivered \in Seq(Message \cup {Garbage})
        /\ cq \in Seq({"SUCCESS", "WR_FLUSH_ERR"})
    OBVIOUS
  <2>4. QED
    BY <2>1, <2>2, <2>3, AllSlotsType DEF TypeOK
<1>3. Waiting(0) /\ Posted(0) /\ Arrived(0)
  <2>1. Len(cq) = 0 /\ Len(sent) = 0 /\ Len(delivered) = 0 /\ Len(rq) = NumSlots
    BY AllSlotsType
  <2>2. \A j \in 1..NumSlots : rq[j] = 0 + 0 + j - 1
    BY AllSlotsType, MessengerAssumption DEF MessengerAssumption
  <2>3. QED
    BY <2>1, <2>2, MessengerAssumption DEF Waiting, Posted, Arrived, MessengerAssumption
<1>4. RingInv
  BY <1>3 DEF RingInv
<1>5. recv_total = 0 * NumSlots + recv_next
  BY MessengerAssumption DEF MessengerAssumption
<1>6. TurnsInv
  BY <1>5 DEF TurnsInv
<1>7. QED
  BY <1>2, <1>4, <1>6 DEF IInv, SomethingSent, SendInBounds

LEMMA StepInv == IInv /\ [Next]_vars => IInv'
  BY TypeStep, SenderStep, TurnsStep, RingStep DEF IInv

LEMMA Invariant == Spec => []IInv
  BY InitInv, StepInv, PTL DEF Spec

LEMMA InvUnread == IInv => UnreadNotPosted
<1>1. SUFFICES ASSUME IInv, ~ phantom,
                      NEW i \in 1..Len(cq), NEW j \in 1..Len(rq), cq[i] = "SUCCESS"
               PROVE  rq[j] # recv_next + i - 1
  BY DEF UnreadNotPosted
<1>2. PICK c \in Nat : Waiting(c) /\ Posted(c)
  BY <1>1 DEF IInv, RingInv
<1>3. i <= c /\ rq[j] = recv_next + c + j - 1
  BY <1>1, <1>2 DEF Waiting, Posted
<1>4. QED
  BY <1>1, <1>3 DEF IInv, TypeOK, Slot

LEMMA InvRings == IInv => RingsAgree
<1>1. SUFFICES ASSUME IInv PROVE OkMeansArrived /\ RecvInStep
  BY DEF IInv, RingsAgree
<1>2. OkMeansArrived
  <2>1. SUFFICES ASSUME ~ phantom, spc \in {"idle", "acked"},
                        NEW i \in 1..Len(sent), ~ (i <= Len(delivered))
                 PROVE  \E s \in Slot : /\ s = recv_next + i - Len(delivered) - 1
                                        /\ slots[s] = sent[i]
    BY DEF OkMeansArrived
  <2>2. PICK c \in Nat : Posted(c) /\ Arrived(c)
    BY <1>1, <2>1 DEF IInv, RingInv
  <2>3. PICK j \in 1..c : i = Len(delivered) + j
    <3>1. i - Len(delivered) \in 1..c /\ i = Len(delivered) + (i - Len(delivered))
      BY <1>1, <2>1, <2>2 DEF Arrived, IInv, TypeOK
    <3>2. QED
      BY <3>1
  <2>4. slots[recv_next + j - 1] = sent[i]
    BY <2>2, <2>3 DEF Arrived
  <2>5. /\ recv_next + j - 1 = recv_next + i - Len(delivered) - 1
        /\ recv_next + j - 1 \in Slot
    BY <1>1, <2>2, <2>3, MessengerAssumption
    DEF Posted, IInv, TypeOK, Slot, MessengerAssumption
  <2>6. QED
    BY <2>4, <2>5
<1>3. RecvInStep
  <2>1. SUFFICES ASSUME rpc # "crashed" PROVE recv_total % NumSlots = recv_next
    BY DEF RecvInStep
  <2>2. PICK k \in Nat : recv_total = k * NumSlots + recv_next
    BY <1>1, <2>1 DEF IInv, TurnsInv
  <2>3. QED
    BY <1>1, <2>2, Turns, MessengerAssumption DEF IInv, TypeOK, Slot, MessengerAssumption
<1>4. QED
  BY <1>2, <1>3

\* The two rings and their counters agree at every turn, for rings of any size:
\* SendMessage copies inside the send buffer, what it reported as sent lies where
\* the receiver looks next, and the assertion of PrepareRecvBuffer holds.
THEOREM RingsAlwaysAgree == Spec => []RingsAgree
  BY Invariant, InvRings, PTL

\* No slot is posted while the message in it waits to be read, so the adapter
\* overwrites nothing: the condition PrepareRecvBuffer states for its callers.
THEOREM NothingUnreadIsPosted == Spec => []UnreadNotPosted
  BY Invariant, InvUnread, PTL

-----------------------------------------------------------------------------
LEMMA FifoInit == Init => Fifo!Init
  BY DEF Init, Fifo!Init

LEMMA FifoStep ==
    ASSUME IInv, [Next]_vars
    PROVE  [phantom' \/ Fifo!Next]_<<sent, delivered, spc = "failed">>
<1>1. CASE phantom
  BY <1>1 DEF Next, SenderOrQp, Terminated, SendPost, SendComplete, Transfer, RnrExhausted,
      Disconnect, DeliverMessage, DeliverFlushed, PollFlushed, TakeFlushed, PollUnwritten,
      vars, recvVars
<1>2. ASSUME NEW m \in Message, NEW len \in 0..kRecvMaxBytes, SendPost(m, len)
      PROVE  Fifo!Send(m)
  BY <1>2 DEF SendPost, recvVars, Fifo!Send
<1>3. CASE SendComplete \/ Transfer
  BY <1>3 DEF SendComplete, Transfer, recvVars
<1>4. CASE RnrExhausted \/ Disconnect
  <2>1. Fifo!Break
    BY <1>4 DEF RnrExhausted, Disconnect, recvVars, Fifo!Break
  <2>2. QED
    BY <2>1 DEF Fifo!Next
<1>5. CASE ~ phantom /\ DeliverMessage
  <2>1. Fifo!Deliver
    BY <1>5, DeliverRing DEF IInv, DeliverMessage, Consume, sendVars, Fifo!Deliver
  <2>2. QED
    BY <2>1 DEF Fifo!Next
<1>6. CASE DeliverFlushed \/ PollFlushed
  BY <1>6 DEF DeliverFlushed, PollFlushed, TakeFlushed, sendVars
<1>7. CASE PollUnwritten
  BY <1>7 DEF PollUnwritten
<1>8. CASE UNCHANGED vars
  BY <1>8 DEF vars, sendVars, recvVars
<1>9. QED
  BY <1>1, <1>2, <1>3, <1>4, <1>5, <1>6, <1>7, <1>8
  DEF Next, SenderOrQp, Terminated, Fifo!Next

\* SendMessage and Deliver or TryReceive together are a FIFO channel: every step
\* of the messenger is a Send, a Deliver or a Break of FifoChannel or leaves the
\* channel alone, up to the first poll of an empty queue that delivers a slot.
THEOREM MessengerIsFifo == Spec => ImplementsFifo
  BY Invariant, FifoInit, FifoStep, PTL DEF Spec, ImplementsFifo
=============================================================================
