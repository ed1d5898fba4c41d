---------------------------- MODULE MCEngineJobs ----------------------------
(* A small instance of EngineJobs for TLC: see README.md for the bounds.    *)
EXTENDS EngineJobs, TLC
=============================================================================
