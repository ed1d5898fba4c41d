-------------------------- MODULE MCRepositoryCache --------------------------
(* A small instance of RepositoryCache for TLC: see README.md for the bounds. *)
EXTENDS RepositoryCache, TLC

CONSTANTS i1, i2, i3
=============================================================================
