------------------------------ MODULE MCSummary ------------------------------
(***************************************************************************)
(* Instances of Summary for TLC.  Scale is a multiple of 1 * 2 * ... *     *)
(* MaxSamples, so that every division is exact.                            *)
(***************************************************************************)
EXTENDS Summary

ASSUME ScaleIsExact == \E m \in 1 .. Scale : Scale = m * FoldLeft(
                         LAMBDA a, b : a * b, 1, [n \in 1 .. MaxSamples |-> n])
=============================================================================
