---------------------------- MODULE MCExperiment ----------------------------
(***************************************************************************)
(* Instances of Experiment for TLC: node n1 with two client threads, node  *)
(* n2 with one; n2 may die, and so may the server at its barrier.  A read  *)
(* returns a message or half of it; the lap times are on both sides of the *)
(* sampling rate.                                                          *)
(***************************************************************************)
EXTENDS Experiment

CONSTANTS n1, n2, c1, c2, c3

MCNode == {n1, n2}
MCThread == {c1, c2, c3}
MCHome == [t \in MCThread |-> IF t = c3 THEN n2 ELSE n1]
MCLapTimes == [t \in MCThread |-> IF t = c1 THEN {10, 11} ELSE {10}]
MCMaxTimedOps == [t \in MCThread |-> IF t = c1 THEN 1 ELSE 0]
=============================================================================
