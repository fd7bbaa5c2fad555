----------------------------- MODULE MCRdmaIHT -----------------------------
(***************************************************************************)
(* Instances of RdmaIHT for TLC.  All keys share the one bucket that a     *)
(* root of two buckets uses; the first two share a bucket of the level     *)
(* below as well.  Every client has a node of its own.                     *)
(***************************************************************************)
EXTENDS RdmaIHT

MCHash == LET H == << <<0, 1, 1>>, <<0, 1, 3>>, <<0, 2, 2>> >>
          IN [k \in Key |-> [l \in 1..MaxDepth |-> H[k][l]]]

MCNodeOf == [c \in Client |-> c]
=============================================================================
