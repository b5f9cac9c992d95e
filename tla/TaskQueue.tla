------------------------------ MODULE TaskQueue ------------------------------
(***************************************************************************)
(* AnyTaskQueue (src/inc/AnyTaskQueue.hpp): the queue and worker thread on *)
(* which both the broker and the client library do all their work.  Posts  *)
(* come from any thread; Start and Stop from one control thread; the       *)
(* worker takes the item with the earliest expiry once it is due.          *)
(*                                                                         *)
(* A critical section of m_mtLock is one step.  What happens outside the   *)
(* lock is a step of its own: an item's expiry is read from the clock      *)
(* before the lock is taken, m_bLoop is written before the queue is        *)
(* cleared, a task runs with the lock released.  ClearAndThenPost, which   *)
(* nothing calls, is left out.                                             *)
(***************************************************************************)
EXTENDS Naturals, Sequences

CONSTANTS
    Poster,    \* threads that post
    Task,      \* tasks, each posted at most once
    Delay,     \* delays given to PostDelayTask; 0 is PostTask
    MaxClock,  \* bound of the clock
    NoTask     \* the task of an empty TaskItem; "no item" for a poster

ASSUME TaskQueueAssumption ==
    /\ NoTask \notin Task
    /\ Delay \subseteq Nat
    /\ MaxClock \in Nat \ {0}

VARIABLES
    clock,    \* steady_clock::now()
    holds,    \* holds[p]: the item p has made and not yet inserted
    tasks,    \* m_setTask
    bLoop,    \* m_bLoop
    worker,   \* where the worker thread is
    current,  \* the task it runs
    woken,    \* m_cond was notified since the worker began to wait
    control,  \* where the control thread is in Stop
    made,     \* every item made, in order, with its poster
    started,  \* the tasks the worker has started, in order
    lost      \* lost[t]: "no", "dropped" by insert, "cleared" by Stop

vars == <<clock, holds, tasks, bLoop, worker, current, woken, control,
          made, started, lost>>
history == <<made, started, lost>>

\* TaskItem(): no task, and the epoch as its expiry.  The mutated form
\* expires when it is made.
EmptyItemNow == [due |-> clock, task |-> NoTask]
EmptyItem == [due |-> 0, task |-> NoTask]

Item == [due : Nat, task : Task \cup {NoTask}]
NoItem == [due |-> 0, task |-> NoTask]

Init ==
    /\ clock = 1
    /\ holds = [p \in Poster |-> NoItem]
    /\ tasks = {}
    /\ bLoop = FALSE
    /\ worker = "off"
    /\ current = NoTask
    /\ woken = FALSE
    /\ control = "idle"
    /\ made = <<>>
    /\ started = <<>>
    /\ lost = [t \in Task |-> "no"]

Tick ==
    /\ clock < MaxClock
    /\ clock' = clock + 1
    /\ UNCHANGED <<holds, tasks, bLoop, worker, current, woken, control, history>>

-----------------------------------------------------------------------------
(* The control thread.                                                     *)

Start ==
    /\ control = "idle" /\ worker = "off"
    /\ bLoop' = TRUE
    /\ worker' = "top"
    /\ UNCHANGED <<clock, holds, tasks, current, woken, control, history>>

\* notify_to_stop, before addTask.  The mutated form leaves the flag alone.
StopFlagNot ==
    /\ control = "idle" /\ worker # "off"
    /\ control' = "clear"
    /\ UNCHANGED <<clock, holds, tasks, bLoop, worker, current, woken, history>>
StopFlag ==
    /\ control = "idle" /\ worker # "off"
    /\ bLoop' = FALSE
    /\ control' = "clear"
    /\ UNCHANGED <<clock, holds, tasks, worker, current, woken, history>>

\* addTask(TaskItem(), true).
StopClear ==
    /\ control = "clear"
    /\ tasks' = {EmptyItem}
    /\ lost' = [t \in Task |-> IF \E x \in tasks : x.task = t THEN "cleared" ELSE lost[t]]
    /\ woken' = TRUE
    /\ control' = "join"
    /\ UNCHANGED <<clock, holds, bLoop, worker, current, made, started>>

StopJoin ==
    /\ control = "join" /\ worker = "done"
    /\ worker' = "off"
    /\ control' = "idle"
    /\ UNCHANGED <<clock, holds, tasks, bLoop, current, woken, history>>

-----------------------------------------------------------------------------
(* Posting threads: PostTask and PostDelayTask.                            *)

IsNew(t) == \A n \in DOMAIN made : made[n].task # t

\* The constructor of TaskItem.
MakeItem(p, t, d) ==
    /\ holds[p] = NoItem
    /\ IsNew(t)
    /\ holds' = [holds EXCEPT ![p] = [due |-> clock + d, task |-> t]]
    /\ made' = Append(made, [due |-> clock + d, task |-> t, poster |-> p])
    /\ UNCHANGED <<clock, tasks, bLoop, worker, current, woken, control, started, lost>>

\* std::set::insert takes two items for one when neither is less, that is,
\* when they expire at the same time.  The mutated form keeps every item.
OccupiedNever(x) == x \in tasks
Occupied(x) == \E y \in tasks : y.due = x.due

\* addTask(item, false).  The mutated form puts a newer item over the old.
AddTaskOver(p) ==
    /\ holds[p] # NoItem
    /\ tasks' = {y \in tasks : y.due # holds[p].due} \cup {holds[p]}
    /\ holds' = [holds EXCEPT ![p] = NoItem]
    /\ woken' = TRUE
    /\ UNCHANGED <<clock, bLoop, worker, current, control, history>>
AddTask(p) ==
    /\ holds[p] # NoItem
    /\ tasks' = IF Occupied(holds[p]) THEN tasks ELSE tasks \cup {holds[p]}
    /\ lost' = IF Occupied(holds[p])
               THEN [lost EXCEPT ![holds[p].task] = "dropped"] ELSE lost
    /\ holds' = [holds EXCEPT ![p] = NoItem]
    /\ woken' = TRUE
    /\ UNCHANGED <<clock, bLoop, worker, current, control, made, started>>

-----------------------------------------------------------------------------
(* The worker thread: run and handleTasks.                                 *)

WhileLoop ==
    /\ worker = "top"
    /\ worker' = IF bLoop THEN "take" ELSE "done"
    /\ UNCHANGED <<clock, holds, tasks, bLoop, current, woken, control, history>>

\* *m_setTask.begin().  The mutated form takes any item.
IsAny(x) == x \in tasks
IsFirst(x) == x \in tasks /\ \A y \in tasks : x.due <= y.due

\* The mutated form is late by one tick.
IsExpireLate(x) == clock > x.due
IsExpire(x) == clock >= x.due

TakeTask ==
    /\ worker = "take"
    /\ \E x \in tasks :
          /\ IsFirst(x)
          /\ IsExpire(x)
          /\ tasks' = tasks \ {x}
          /\ current' = x.task
          /\ started' = IF x.task = NoTask THEN started ELSE Append(started, x.task)
    /\ worker' = "run"
    /\ UNCHANGED <<clock, holds, bLoop, woken, control, made, lost>>

WaitFor ==
    /\ worker = "take"
    /\ \A x \in tasks : IsFirst(x) => ~IsExpire(x)
    /\ worker' = "wait"
    /\ woken' = FALSE
    /\ UNCHANGED <<clock, holds, tasks, bLoop, current, control, history>>

\* wait_for returns, notified or after its 100 ms; then handleTasks looks
\* again, or returns false to run.
Notified ==
    /\ worker = "wait" /\ woken
    /\ worker' = "take"
    /\ UNCHANGED <<clock, holds, tasks, bLoop, current, woken, control, history>>

Timeout ==
    /\ worker = "wait"
    /\ worker' = "top"
    /\ UNCHANGED <<clock, holds, tasks, bLoop, current, woken, control, history>>

\* item._Start() returns.
TaskReturns ==
    /\ worker = "run"
    /\ worker' = "top"
    /\ current' = NoTask
    /\ UNCHANGED <<clock, holds, tasks, bLoop, woken, control, history>>

-----------------------------------------------------------------------------
Control == Start \/ StopFlag \/ StopClear \/ StopJoin
Run == WhileLoop \/ TakeTask \/ WaitFor \/ Notified \/ Timeout \/ TaskReturns

Next ==
    \/ Tick
    \/ Control
    \/ \E p \in Poster : AddTask(p) \/ \E t \in Task, d \in Delay : MakeItem(p, t, d)
    \/ Run

Spec == Init /\ [][Next]_vars

\* Time passes, every thread runs when it can, and tasks return.  Start and
\* Stop need not be called, but Stop goes on once it is.  No strong fairness
\* is needed: wait_for returns after 100 ms at the latest.
Fairness ==
    /\ WF_vars(Tick)
    /\ WF_vars(StopClear \/ StopJoin)
    /\ WF_vars(Run)
    /\ \A p \in Poster : WF_vars(AddTask(p))
FairSpec == Spec /\ Fairness

-----------------------------------------------------------------------------
\* Every variable holds a value of its kind, and m_setTask holds at most one
\* item for an expiry, so that its first item is unique.
TypeOK ==
    /\ clock \in 1 .. MaxClock
    /\ holds \in [Poster -> Item]
    /\ tasks \subseteq Item
    /\ \A x, y \in tasks : x.due = y.due => x = y
    /\ bLoop \in BOOLEAN /\ woken \in BOOLEAN
    /\ worker \in {"off", "top", "take", "wait", "run", "done"}
    /\ current \in Task \cup {NoTask}
    /\ control \in {"idle", "clear", "join"}
    /\ made \in Seq([due : Nat, task : Task, poster : Poster])
    /\ started \in Seq(Task)
    /\ lost \in [Task -> {"no", "dropped", "cleared"}]

Queued(t)  == \E x \in tasks : x.task = t
InHand(t)  == \E p \in Poster : holds[p].task = t
Started(t) == \E n \in DOMAIN started : started[n] = t
Due(t)     == (CHOOSE r \in {made[n] : n \in DOMAIN made} : r.task = t).due

\* A posted task is in one place: held by its poster, queued, started, or
\* gone for a named reason.  It is not run twice, and it does not vanish.
Conservation ==
    \A t \in Task :
        /\ ~IsNew(t) <=> InHand(t) \/ Queued(t) \/ Started(t) \/ lost[t] # "no"
        /\ Started(t) => ~InHand(t) /\ ~Queued(t) /\ lost[t] = "no"
        /\ Queued(t) => ~InHand(t) /\ lost[t] = "no"
        /\ \A m, n \in DOMAIN started : started[m] = t /\ started[n] = t => m = n

\* What a thread posts runs in order of expiry; in particular what it posts
\* with PostTask runs in the order it was posted.  CResMgr and CInvokeQueue
\* rely on it: a request, then its release, then a connection error.
PosterOrder ==
    \A m, n \in DOMAIN made :
        /\ m < n /\ made[m].poster = made[n].poster /\ made[m].due <= made[n].due
        => \A j, k \in DOMAIN started :
              started[j] = made[m].task /\ started[k] = made[n].task => j < k

\* Stop returns, whatever is queued or running.
StopReturns == (control = "clear") ~> (control = "idle")

\* A queued task is run in the end, unless the queue is stopped.
QueuedTaskRuns ==
    \A t \in Task :
        (Queued(t) /\ worker # "off" /\ Due(t) <= MaxClock)
            ~> (Started(t) \/ lost[t] = "cleared" \/ control # "idle" \/ worker = "off")

-----------------------------------------------------------------------------
(* What the posters and the caller of Stop see of the queue.               *)

stage ==
    [t \in Task |->
        IF IsNew(t) THEN "new"
        ELSE IF lost[t] # "no" THEN "gone"
        ELSE IF current = t THEN "running"
        ELSE IF Started(t) THEN "ended" ELSE "posted"]

service ==
    IF worker = "off" THEN "closed" ELSE IF control = "join" THEN "closing" ELSE "open"

Expiries == {c + d : c \in 1 .. MaxClock, d \in Delay}

E == INSTANCE Executor WITH posts <- made, Time <- Expiries

\* The queue is an executor of its posts: whatever the locks, the clock, the
\* wake-ups and the calls of Start and Stop do between them, a step of the
\* queue is a step of module Executor or changes nothing that is seen.
ImplementsExecutor == E!Spec

-----------------------------------------------------------------------------
\* AnyTaskQueue.hpp:16 says that two items are never equal: a post would
\* never be taken for another one.
NothingDropped == \A t \in Task : lost[t] # "dropped"
=============================================================================
