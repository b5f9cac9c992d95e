------------------------------ MODULE Registry ------------------------------
(***************************************************************************)
(* What the broker promises the processes that ask for engines, without    *)
(* the objects, the maps and the tasks it is made of (module ResMgr).      *)
(* Whoever has an engine has one, which is started for it or is the public *)
(* engine of its type; a user leaves alone, without disturbing the others; *)
(* and when an engine ends, all its users and its place as the public      *)
(* engine are given up in that same step.                                  *)
(***************************************************************************)
CONSTANTS
    Inst,       \* what names an engine or a user of one
    NULL,       \* no engine
    EngineType  \* the types of engines

VARIABLES
    engines,  \* the engines that are kept
    public,   \* public[t]: the engine of type t that is shared
    uses      \* pairs of a user and its engine

vars == <<engines, public, uses>>

Init == engines = {} /\ public = [t \in EngineType |-> NULL] /\ uses = {}

\* A name that stands for no engine and no user.
Free == {i \in Inst \ engines : \A x \in uses : i \notin {x[1], x[2]}}

StartPrivate(k, e) ==
    /\ engines' = engines \cup {e}
    /\ {k, e} \subseteq Free /\ k # e
    /\ uses' = uses \cup {<<k, e>>}
    /\ UNCHANGED public

StartPublic(k, e, t) ==
    /\ public[t] = NULL
    /\ public' = [public EXCEPT ![t] = e]
    /\ {k, e} \subseteq Free /\ k # e
    /\ engines' = engines \cup {e}
    /\ uses' = uses \cup {<<k, e>>}

Share(k, t) ==
    /\ public[t] # NULL
    /\ uses' = uses \cup {<<k, public[t]>>}
    /\ k \in Free
    /\ UNCHANGED <<engines, public>>

Leave(k) ==
    /\ \E x \in uses : x[1] = k
    /\ uses' = {x \in uses : x[1] # k}
    /\ UNCHANGED <<engines, public>>

End(e) ==
    /\ e \in engines
    /\ engines' = engines \ {e}
    /\ public' = [t \in EngineType |-> IF public[t] = e THEN NULL ELSE public[t]]
    /\ uses' = {x \in uses : x[2] # e}

Next ==
    \/ \E k, e \in Inst : StartPrivate(k, e) \/ \E t \in EngineType : StartPublic(k, e, t)
    \/ \E k \in Inst : Leave(k) \/ \E t \in EngineType : Share(k, t)
    \/ \E e \in Inst : End(e)

Spec == Init /\ [][Next]_vars
=============================================================================
