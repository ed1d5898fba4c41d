---------------------------- MODULE MCTransactions ----------------------------
(* A small instance of Transactions for TLC: see README.md for the bounds.   *)
EXTENDS Transactions, TLC

CONSTANTS a1, a2, v1, v2, f1, f2

MCContents == (v1 :> {f1}) @@ (v2 :> {f1, f2}) @@ (Foreign :> {f1})
MCOneFile  == (v1 :> {f1}) @@ (Foreign :> {f1})
Symmetric == Permutations(Addons)
=============================================================================
