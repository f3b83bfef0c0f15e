-------------------------- MODULE MCOrchestration --------------------------
(* Instances of Orchestration for TLC: rows, goroutines and callers are     *)
(* interchangeable, which the runs without liveness properties use.         *)
EXTENDS Orchestration, TLC

Symmetry == Permutations(Runs) \cup Permutations(Slots) \cup Permutations(Callers)
=============================================================================
