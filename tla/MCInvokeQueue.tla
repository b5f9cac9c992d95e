--------------------------- MODULE MCInvokeQueue ---------------------------
(* InvokeQueue on small instances. *)
EXTENDS InvokeQueue, TLC

\* Handles, engine types and windows are interchangeable.
Symmetry ==
    Permutations(Inst) \cup Permutations(EngineType) \cup Permutations(Wnd)

EngineFaults == {"engine", "connect"}
LossFaults == {"container", "engine", "connect"}
BrokerFaults == {"container", "connect", "ignore"}
=============================================================================
