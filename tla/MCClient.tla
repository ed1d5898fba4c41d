------------------------------ MODULE MCClient ------------------------------
(* A small instance of Client for TLC: see README.md for the bounds.        *)
EXTENDS Client, TLC

CONSTANTS a1, a2

MCOrder == <<a1, a2>>
MCSessions ==
  {[engine |-> TRUE, status |-> TRUE], [engine |-> TRUE, status |-> FALSE], [engine |-> FALSE, status |-> TRUE]}
=============================================================================
