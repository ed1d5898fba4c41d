---------------------------- MODULE MCSelfUpdate ----------------------------
(* A small instance of SelfUpdate for TLC: see README.md for the bounds.    *)
EXTENDS SelfUpdate, TLC

CONSTANTS v0, v1, v2

\* The name of v1 is a prefix of the name of v2.
SomePrefixes == [v \in {v0, v1, v2} |-> IF v = v2 THEN {v1} ELSE {}]
=============================================================================
