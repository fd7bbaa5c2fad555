---------------------------- MODULE MCMemoryPool ----------------------------
(***************************************************************************)
(* The instance of MemoryPool for TLC.                                     *)
(***************************************************************************)
EXTENDS MemoryPool

AllKinds == {"read", "write", "write_noack", "cas", "swap"}

\* A thread that goes on to a second operation, one with a single operation, and
\* one that only registers, which is one more than there is room for.
FewOps == [t \in Thread |-> 3 - t]
=============================================================================
