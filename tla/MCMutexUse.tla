----------------------------- MODULE MCMutexUse -----------------------------
(* Threads that share mutexes, for TLC: every instance is a mutex, S = 1. *)
EXTENDS MutexUse

MCPermits == [m \in Sems |-> 1]
=============================================================================
