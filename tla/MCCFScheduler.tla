---------------------------- MODULE MCCFScheduler ----------------------------
(* Values for TLC: the highest priority, a low one, and one that is refused. *)
EXTENDS CFScheduler, TLC
SomePrio == {-20, 5, 20}
Symmetry == Permutations(Task)
=============================================================================
