----------------------------- MODULE ServerLife -----------------------------
(***************************************************************************)
(* What a server process promises about its life, without the counter, the *)
(* checker and the flags it is made of (module Lifetime): it serves its    *)
(* members, is doomed when the last member leaves or when it has none, and *)
(* a doomed process ends and takes what members it has with it.            *)
(***************************************************************************)
EXTENDS FiniteSets

CONSTANT Client  \* the processes that may connect

VARIABLES
    members,  \* the clients the process counts
    doomed,   \* it has decided to end
    gone      \* it has ended

vars == <<members, doomed, gone>>

Init == members = {} /\ doomed = FALSE /\ gone = FALSE

Enter(c) ==
    /\ ~gone /\ c \notin members
    /\ members' = members \cup {c}
    /\ UNCHANGED <<doomed, gone>>

\* The last one to leave dooms the process.
Leave(c) ==
    /\ ~gone /\ c \in members
    /\ members' = members \ {c}
    /\ doomed' = (doomed \/ members = {c})
    /\ UNCHANGED gone

\* Nobody has come.
GiveUp ==
    /\ ~gone /\ members = {} /\ ~doomed
    /\ doomed' = TRUE
    /\ UNCHANGED <<members, gone>>

Exit ==
    /\ ~gone /\ doomed
    /\ gone' = TRUE
    /\ members' = {}
    /\ UNCHANGED doomed

Next == (\E c \in Client : Enter(c) \/ Leave(c)) \/ GiveUp \/ Exit

Spec == Init /\ [][Next]_vars

FairSpec == Spec /\ WF_vars(GiveUp) /\ WF_vars(Exit)
=============================================================================
