---------------------------- MODULE MCRevocations ----------------------------
(* A small instance of Revocations for TLC: see README.md for the bounds.   *)
EXTENDS Revocations, TLC

CONSTANTS a1, a2, d1, d2

Symmetric == Permutations(Addons) \cup Permutations(Digests)
=============================================================================
