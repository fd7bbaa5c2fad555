--------------------------- MODULE MCTwoSidedIHT ---------------------------
(***************************************************************************)
(* Instances of TwoSidedIHT for TLC: two nodes with a pool of two threads  *)
(* each.  Keys 0 and 1 are those of node 0, 2 and 3 those of node 1.  t1   *)
(* and t2 share the connections of node 0 to node 1, and in either table   *)
(* an insert of the one can rehash the bucket that holds the pair of the   *)
(* other.                                                                  *)
(***************************************************************************)
EXTENDS TwoSidedIHT

CONSTANTS t1, t2, v1, v2

MCThread == {t1, t2}
MCVal == {v1, v2}
MCHome == [t \in MCThread |-> 0]
Insert_(k, v) == [op |-> "insert", key |-> k, val |-> v]
Remove(k) == [op |-> "remove", key |-> k, val |-> None]
MCCalls == [t \in MCThread |->
              CASE t = t1 -> {Insert_(0, v1), Insert_(2, v1)}
                [] t = t2 -> {Insert_(1, v2), Insert_(2, v2), Insert_(3, v2), Remove(2)}]
MCMaxOps == [t \in MCThread |-> 1]

\* The servers of node 1 may take an empty queue for a request.
MCAhead == {<<0, 1>>}
MCOld == {Insert_(2, v1)}
=============================================================================
