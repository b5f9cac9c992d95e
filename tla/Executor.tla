------------------------------ MODULE Executor ------------------------------
(***************************************************************************)
(* What the queue promises the threads that post to it and the thread that *)
(* stops it, without the lock, the set and the worker it is made of        *)
(* (module TaskQueue): one task runs at a time, each at most once; what a  *)
(* thread posts for now or for an earlier time does not run after what it  *)
(* posts later; a task is lost only to one that is due when it is, or to a *)
(* stop; and from the stop on nothing begins to run, and it returns when   *)
(* nothing runs.                                                           *)
(***************************************************************************)
EXTENDS Naturals, Sequences

CONSTANTS
    Poster,  \* threads that post
    Task,    \* tasks, each posted at most once
    Time     \* when a post may be due

VARIABLES
    posts,   \* what was posted, in order, with its poster and when it is due
    stage,   \* stage[t]: "new", "posted", "running", "ended" or "gone"
    service  \* "closed", "open", "closing"

vars == <<posts, stage, service>>

Init ==
    /\ posts = <<>>
    /\ stage = [t \in Task |-> "new"]
    /\ service = "closed"

Idle == \A t \in Task : stage[t] # "running"

\* The posts m and n are of one thread, which wants m to run before n.
Before(m, n) ==
    m < n /\ posts[m].poster = posts[n].poster /\ posts[m].due <= posts[n].due

Post(p, t, d) ==
    /\ stage[t] = "new"
    /\ stage' = [stage EXCEPT ![t] = "posted"]
    /\ posts' = Append(posts, [due |-> d, task |-> t, poster |-> p])
    /\ UNCHANGED service

\* The post m loses its place to the post n.
Lose(m, n) ==
    /\ m # n /\ posts[m].due = posts[n].due
    /\ stage[posts[m].task] = "posted" /\ stage[posts[n].task] = "posted"
    /\ stage' = [stage EXCEPT ![posts[m].task] = "gone"]
    /\ UNCHANGED <<posts, service>>

Begin(n) ==
    /\ service = "open" /\ Idle
    /\ stage[posts[n].task] = "posted"
    /\ \A m \in DOMAIN posts : Before(m, n) => stage[posts[m].task] # "posted"
    /\ stage' = [stage EXCEPT ![posts[n].task] = "running"]
    /\ UNCHANGED <<posts, service>>

End(t) ==
    /\ stage[t] = "running"
    /\ stage' = [stage EXCEPT ![t] = "ended"]
    /\ UNCHANGED <<posts, service>>

Open ==
    /\ service = "closed"
    /\ service' = "open"
    /\ UNCHANGED <<posts, stage>>

\* A task whose post is not done yet is not cleared.
Close ==
    /\ service = "open"
    /\ service' = "closing"
    /\ \E cleared \in SUBSET {t \in Task : stage[t] = "posted"} :
          stage' = [t \in Task |-> IF t \in cleared THEN "gone" ELSE stage[t]]
    /\ UNCHANGED posts

Closed ==
    /\ service = "closing" /\ Idle
    /\ service' = "closed"
    /\ UNCHANGED <<posts, stage>>

Next ==
    \/ \E p \in Poster, t \in Task, d \in Time : Post(p, t, d)
    \/ \E m, n \in DOMAIN posts : Lose(m, n)
    \/ \E n \in DOMAIN posts : Begin(n)
    \/ \E t \in Task : End(t)
    \/ Open \/ Close \/ Closed

Spec == Init /\ [][Next]_vars
=============================================================================
