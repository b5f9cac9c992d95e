---------------------------- MODULE MCTaskQueue ----------------------------
(* TaskQueue on small instances. *)
EXTENDS TaskQueue, TLC

Delays == {0, 1}
Symmetry == Permutations(Poster) \cup Permutations(Task)
=============================================================================
