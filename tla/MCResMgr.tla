------------------------------ MODULE MCResMgr ------------------------------
(* ResMgr on small instances. *)
EXTENDS ResMgr, TLC

OnlyChromium == {"Chromium"}
BothTypes == EngineType
Symmetry == Permutations(Inst) \cup Permutations(Addr)
=============================================================================
