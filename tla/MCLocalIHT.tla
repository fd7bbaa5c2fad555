----------------------------- MODULE MCLocalIHT -----------------------------
(***************************************************************************)
(* Instances of LocalIHT for TLC: three keys that share a bucket of the    *)
(* root and part one level below.                                          *)
(***************************************************************************)
EXTENDS LocalIHT

MCHash == LET H == << <<0, 1, 1>>, <<0, 2, 2>>, <<0, 0, 5>> >>
          IN [k \in Key |-> [l \in 2 .. MaxDepth + 1 |-> H[k][l - 1]]]
=============================================================================
