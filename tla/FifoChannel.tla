---------------------------- MODULE FifoChannel ----------------------------
(***************************************************************************)
(* What one direction of an RdmaChannel promises: messages come out once   *)
(* each, unchanged and in the order of the Send calls.  A channel may      *)
(* break; then it takes no more messages and may lose the last one.        *)
(***************************************************************************)
EXTENDS Naturals, Sequences

CONSTANT Message

VARIABLES sent, delivered, broken

Init == sent = <<>> /\ delivered = <<>> /\ broken = FALSE

Send(m) == /\ ~ broken
           /\ sent' = Append(sent, m)
           /\ UNCHANGED <<delivered, broken>>

Deliver == /\ Len(delivered) < Len(sent)
           /\ delivered' = Append(delivered, sent[Len(delivered) + 1])
           /\ UNCHANGED <<sent, broken>>

Break == /\ broken' = TRUE
         /\ UNCHANGED <<sent, delivered>>

Next == (\E m \in Message : Send(m)) \/ Deliver \/ Break

Spec == Init /\ [][Next]_<<sent, delivered, broken>>
=============================================================================
