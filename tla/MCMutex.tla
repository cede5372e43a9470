------------------------------- MODULE MCMutex -------------------------------
(* Mutex for TLC: its threads are interchangeable. *)
EXTENDS Mutex, TLC

Symmetry == Permutations(Threads)
=============================================================================
