------------------------------ MODULE MCEngine ------------------------------
(* Engine on small instances. *)
EXTENDS Engine, TLC

Symmetry ==
    Permutations(Inst) \cup Permutations(Wnd) \cup Permutations(Requester)
        \cup Permutations(Ctx) \cup Permutations(Name)
=============================================================================
