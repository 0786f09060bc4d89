----------------------------- MODULE MCJobQueue -----------------------------
(* JobQueue for TLC: the constants are given in the .cfg files.            *)
EXTENDS JobQueue
=============================================================================
