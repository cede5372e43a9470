------------------------------- MODULE MCCond -------------------------------
(* Cond for TLC: its threads are interchangeable. *)
EXTENDS Cond, TLC

Symmetry == Permutations(Threads)
=============================================================================
