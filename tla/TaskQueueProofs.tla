--------------------------- MODULE TaskQueueProofs ---------------------------
(***************************************************************************)
(* Proofs about TaskQueue, for every set of posters, tasks and delays and  *)
(* every bound of the clock: what a poster may rely on, what the caller    *)
(* of Stop may, and that both are what module Executor says.               *)
(***************************************************************************)
EXTENDS TaskQueue, TLAPS, SequenceTheorems

Made == [due : Nat, task : Task, poster : Poster]
None == [due |-> 0, task |-> NoTask]

LEMMA NoneItems ==
    /\ None \in Item /\ NoItem = None /\ EmptyItem = None
    /\ None.task = NoTask /\ None.due = 0
BY DEF None, Item, NoItem, EmptyItem

\* What one more element does to a sequence.
LEMMA AppendElement ==
    ASSUME NEW S, NEW s \in Seq(S), NEW e \in S
    PROVE  /\ Append(s, e) \in Seq(S)
           /\ DOMAIN s = 1 .. Len(s) /\ Len(s) \in Nat
           /\ DOMAIN Append(s, e) = 1 .. Len(s) + 1
           /\ \A n \in 1 .. Len(s) : Append(s, e)[n] = s[n] /\ s[n] \in S
           /\ Append(s, e)[Len(s) + 1] = e
<1>1. Len(s) \in Nat
  BY LenProperties
<1>2. /\ Append(s, e) \in Seq(S) /\ Len(Append(s, e)) = Len(s) + 1
      /\ \A n \in 1 .. Len(s) : Append(s, e)[n] = s[n]
      /\ Append(s, e)[Len(s) + 1] = e
  BY AppendProperties
<1>3. DOMAIN Append(s, e) = 1 .. Len(s) + 1
  BY <1>2, LenProperties
<1>4. \A n \in 1 .. Len(s) : s[n] \in S
  BY ElementOfSeq
<1> QED
  BY <1>1, <1>2, <1>3, <1>4, LenProperties

\* The values of a sequence with one more element.
LEMMA AppendRange ==
    ASSUME NEW S, NEW s \in Seq(S), NEW e \in S
    PROVE  {Append(s, e)[n] : n \in DOMAIN Append(s, e)} = {s[n] : n \in DOMAIN s} \cup {e}
<1>1. /\ DOMAIN s = 1 .. Len(s) /\ Len(s) \in Nat
      /\ DOMAIN Append(s, e) = DOMAIN s \cup {Len(s) + 1}
      /\ \A n \in DOMAIN s : Append(s, e)[n] = s[n]
      /\ Append(s, e)[Len(s) + 1] = e
  BY AppendElement
<1> QED
  BY <1>1

-----------------------------------------------------------------------------
(* Types.                                                                  *)

LEMMA InitType == Init => TypeOK
<1> SUFFICES ASSUME Init PROVE TypeOK
  OBVIOUS
<1>1. /\ <<>> \in Seq([due : Nat, task : Task, poster : Poster])
      /\ <<>> \in Seq(Task)
  OBVIOUS
<1>2. holds \in [Poster -> Item]
  BY NoneItems DEF Init
<1>3. lost \in [Task -> {"no", "dropped", "cleared"}]
  BY DEF Init
<1>4. clock \in 1 .. MaxClock /\ clock = 1
  BY TaskQueueAssumption DEF Init
<1>5. /\ tasks = {} /\ bLoop = FALSE /\ woken = FALSE /\ worker = "off"
      /\ current = NoTask /\ control = "idle" /\ made = <<>> /\ started = <<>>
  BY DEF Init
<1> QED
  BY <1>1, <1>2, <1>3, <1>4, <1>5 DEF TypeOK

\* An item that is made is due at a later clock than the epoch.
LEMMA MadeType ==
    ASSUME TypeOK, NEW p \in Poster, NEW t \in Task, NEW d \in Delay
    PROVE  /\ [due |-> clock + d, task |-> t] \in Item
           /\ [due |-> clock + d, task |-> t, poster |-> p] \in Made
           /\ clock + d \in Nat /\ clock + d > 0
<1>1. clock \in Nat \ {0} /\ d \in Nat
  BY TaskQueueAssumption DEF TypeOK
<1>2. clock + d \in Nat /\ clock + d > 0
  BY <1>1
<1> QED
  BY <1>2 DEF Item, Made

LEMMA MadeElements ==
    ASSUME TypeOK
    PROVE  \A n \in DOMAIN made : made[n] \in Made /\ made[n].task \in Task /\ n \in Nat
<1>1. made \in Seq(Made)
  BY DEF TypeOK, Made
<1>2. DOMAIN made = 1 .. Len(made) /\ Len(made) \in Nat
  BY <1>1, LenProperties
<1>3. \A n \in 1 .. Len(made) : made[n] \in Made
  BY <1>1, ElementOfSeq
<1> QED
  BY <1>2, <1>3 DEF Made

LEMMA MakeItemType ==
    ASSUME TypeOK, NEW p \in Poster, NEW t \in Task, NEW d \in Delay, MakeItem(p, t, d)
    PROVE  TypeOK'
<1>1. holds' \in [Poster -> Item]
  BY MadeType DEF MakeItem, TypeOK
<1>2. made' \in Seq(Made)
  BY MadeType, AppendElement DEF MakeItem, TypeOK, Made
<1> QED
  BY <1>1, <1>2 DEF MakeItem, TypeOK, Made

LEMMA AddTaskType ==
    ASSUME TypeOK, NEW p \in Poster, AddTask(p)
    PROVE  TypeOK'
<1>1. holds \in [Poster -> Item] /\ holds[p] \in Item
  BY DEF TypeOK
<1>2. holds' \in [Poster -> Item]
  BY <1>1, NoneItems DEF AddTask
<1>3. tasks' \subseteq Item /\ \A x, y \in tasks' : x.due = y.due => x = y
  BY <1>1 DEF AddTask, TypeOK, Occupied
<1>4. lost' \in [Task -> {"no", "dropped", "cleared"}]
  BY DEF AddTask, TypeOK
<1> QED
  BY <1>2, <1>3, <1>4 DEF AddTask, TypeOK

LEMMA ControlType == TypeOK /\ Control => TypeOK'
<1> SUFFICES ASSUME TypeOK, Control PROVE TypeOK'
  OBVIOUS
<1>1. CASE StopClear
  <2>1. lost' \in [Task -> {"no", "dropped", "cleared"}]
    BY <1>1 DEF StopClear, TypeOK
  <2>2. tasks' \subseteq Item /\ \A x, y \in tasks' : x.due = y.due => x = y
    BY <1>1, NoneItems DEF StopClear
  <2> QED
    BY <1>1, <2>1, <2>2 DEF StopClear, TypeOK
<1>2. CASE Start \/ StopFlag \/ StopJoin
  BY <1>2 DEF Start, StopFlag, StopJoin, TypeOK, history
<1> QED
  BY <1>1, <1>2 DEF Control

\* What the worker takes: the first item, which is the only one that expires
\* when it does.
LEMMA Taken ==
    ASSUME TypeOK, TakeTask
    PROVE  \E x \in tasks :
              /\ x \in Item /\ \A y \in tasks : y # x => x.due < y.due
              /\ tasks' = tasks \ {x}
              /\ current' = x.task
              /\ x.task = NoTask => started' = started
              /\ x.task # NoTask => x.task \in Task /\ started' = Append(started, x.task)
<1>1. PICK x \in tasks :
          /\ IsFirst(x)
          /\ tasks' = tasks \ {x}
          /\ current' = x.task
          /\ started' = IF x.task = NoTask THEN started ELSE Append(started, x.task)
  BY DEF TakeTask
<1>2. /\ x \in Item /\ \A y \in tasks : y # x => x.due < y.due
  BY <1>1 DEF TypeOK, IsFirst, Item
<1> QED
  BY <1>1, <1>2 DEF Item

LEMMA RunType == TypeOK /\ Run => TypeOK'
<1> SUFFICES ASSUME TypeOK, Run PROVE TypeOK'
  OBVIOUS
<1>1. CASE TakeTask
  <2>1. PICK x \in tasks :
            /\ x \in Item
            /\ tasks' = tasks \ {x} /\ current' = x.task
            /\ x.task = NoTask => started' = started
            /\ x.task # NoTask => x.task \in Task /\ started' = Append(started, x.task)
    BY <1>1, Taken
  <2>2. started' \in Seq(Task)
    <3>1. started \in Seq(Task)
      BY DEF TypeOK
    <3>2. \A e \in Task : Append(started, e) \in Seq(Task)
      BY <3>1, AppendElement
    <3> QED
      BY <2>1, <3>1, <3>2
  <2>3. tasks' \subseteq Item /\ \A a, b \in tasks' : a.due = b.due => a = b
    BY <2>1 DEF TypeOK
  <2>4. current' \in Task \cup {NoTask}
    BY <2>1 DEF Item
  <2> QED
    BY <1>1, <2>2, <2>3, <2>4 DEF TakeTask, TypeOK
<1>2. CASE WhileLoop \/ WaitFor \/ Notified \/ Timeout \/ TaskReturns
  BY <1>2 DEF WhileLoop, WaitFor, Notified, Timeout, TaskReturns, TypeOK, history
<1> QED
  BY <1>1, <1>2 DEF Run

LEMMA TickType == TypeOK /\ Tick => TypeOK'
BY TaskQueueAssumption DEF Tick, TypeOK, history

LEMMA StepType == TypeOK /\ [Next]_vars => TypeOK'
<1> SUFFICES ASSUME TypeOK, [Next]_vars PROVE TypeOK'
  OBVIOUS
<1>1. CASE UNCHANGED vars
  BY <1>1 DEF vars, TypeOK
<1> QED
  BY <1>1, MakeItemType, AddTaskType, ControlType, RunType, TickType DEF Next

\* Every variable holds a value of its kind, and no two items of m_setTask
\* expire at the same time.
THEOREM TypeCorrect == Spec => []TypeOK
<1> QED
  BY InitType, StepType, PTL DEF Spec

-----------------------------------------------------------------------------
(* Stop.                                                                   *)

\* Only the empty item expires at the epoch.
DueInv ==
    /\ \A p \in Poster : holds[p] # None => holds[p].due > 0
    /\ \A x \in tasks : x.due > 0 \/ x.task = NoTask

\* Once Stop has begun the loop is told to end, and once it has cleared the
\* queue the empty item is in front of a worker that is in handleTasks.
StopInv ==
    /\ control # "idle" => ~bLoop /\ worker # "off"
    /\ control = "join" /\ worker \in {"take", "wait"} => None \in tasks

LEMMA InitStop == Init => DueInv /\ StopInv
BY NoneItems DEF Init, DueInv, StopInv

LEMMA PostStop ==
    ASSUME TypeOK, DueInv, StopInv, NEW p \in Poster,
           AddTask(p) \/ \E t \in Task, d \in Delay : MakeItem(p, t, d)
    PROVE  DueInv' /\ StopInv'
<1>1. CASE AddTask(p)
  <2>1. /\ holds[p] # None /\ holds' = [holds EXCEPT ![p] = None]
        /\ tasks' = tasks \/ tasks' = tasks \cup {holds[p]}
        /\ UNCHANGED <<bLoop, worker, control>>
    BY <1>1, NoneItems DEF AddTask
  <2>2. holds \in [Poster -> Item]
    BY DEF TypeOK
  <2>3. DueInv'
    BY <2>1, <2>2 DEF DueInv
  <2>4. StopInv'
    BY <2>1 DEF StopInv
  <2> QED
    BY <2>3, <2>4
<1>2. ASSUME NEW t \in Task, NEW d \in Delay, MakeItem(p, t, d)
      PROVE  DueInv' /\ StopInv'
  <2>1. /\ holds' = [holds EXCEPT ![p] = [due |-> clock + d, task |-> t]]
        /\ UNCHANGED <<tasks, bLoop, worker, control>>
    BY <1>2 DEF MakeItem
  <2>2. holds \in [Poster -> Item]
    BY DEF TypeOK
  <2>5. clock + d > 0
    BY MadeType
  <2>3. DueInv'
    BY <2>1, <2>2, <2>5 DEF DueInv
  <2>4. StopInv'
    BY <2>1 DEF StopInv
  <2> QED
    BY <2>3, <2>4
<1> QED
  BY <1>1, <1>2

LEMMA ControlStop ==
    ASSUME TypeOK, DueInv, StopInv, Control
    PROVE  DueInv' /\ StopInv'
<1>1. CASE StopClear
  <2>1. tasks' = {None} /\ control' = "join" /\ UNCHANGED <<holds, bLoop, worker>>
    BY <1>1, NoneItems DEF StopClear
  <2> QED
    BY <1>1, <2>1, NoneItems DEF DueInv, StopInv, StopClear
<1>2. CASE Start \/ StopFlag \/ StopJoin
  BY <1>2 DEF Start, StopFlag, StopJoin, DueInv, StopInv
<1> QED
  BY <1>1, <1>2 DEF Control

LEMMA RunStop ==
    ASSUME TypeOK, DueInv, StopInv, Run
    PROVE  DueInv' /\ StopInv'
<1>1. CASE TakeTask
  <2>1. PICK x \in tasks : tasks' = tasks \ {x}
    BY <1>1, Taken
  <2>2. worker' = "run" /\ UNCHANGED <<holds, bLoop, control>>
    BY <1>1 DEF TakeTask
  <2> QED
    BY <2>1, <2>2 DEF DueInv, StopInv
<1>2. CASE WhileLoop
  BY <1>2 DEF WhileLoop, DueInv, StopInv, TypeOK
<1>3. CASE WaitFor \/ Notified \/ Timeout \/ TaskReturns
  BY <1>3 DEF WaitFor, Notified, Timeout, TaskReturns, DueInv, StopInv
<1> QED
  BY <1>1, <1>2, <1>3 DEF Run

LEMMA StepStop == TypeOK /\ DueInv /\ StopInv /\ [Next]_vars => DueInv' /\ StopInv'
<1> SUFFICES ASSUME TypeOK, DueInv, StopInv, [Next]_vars PROVE DueInv' /\ StopInv'
  OBVIOUS
<1>1. CASE UNCHANGED vars \/ Tick
  BY <1>1 DEF vars, Tick, DueInv, StopInv
<1> QED
  BY <1>1, PostStop, ControlStop, RunStop DEF Next

\* No task starts between the clearing of the queue and the return of Stop.
LEMMA StepNoStart ==
    TypeOK /\ DueInv /\ StopInv /\ [Next]_vars
        => [control = "join" => started' = started]_vars
<1> SUFFICES ASSUME TypeOK, DueInv, StopInv, Next, control = "join"
             PROVE  started' = started
  OBVIOUS
<1>1. CASE TakeTask
  <2>1. PICK x \in tasks :
            /\ x \in Item /\ \A y \in tasks : y # x => x.due < y.due
            /\ x.task = NoTask => started' = started
    BY <1>1, Taken
  <2>2. None \in tasks
    BY <1>1 DEF TakeTask, StopInv
  <2>3. x = None
    BY <2>1, <2>2, NoneItems DEF Item
  <2> QED
    BY <2>1, <2>3, NoneItems
<1>2. CASE Tick \/ Control
  BY <1>2 DEF Tick, Control, Start, StopFlag, StopClear, StopJoin, history
<1>3. CASE \E p \in Poster : AddTask(p) \/ \E t \in Task, d \in Delay : MakeItem(p, t, d)
  BY <1>3 DEF AddTask, MakeItem
<1>4. CASE WhileLoop \/ WaitFor \/ Notified \/ Timeout \/ TaskReturns
  BY <1>4 DEF WhileLoop, WaitFor, Notified, Timeout, TaskReturns, history
<1> QED
  BY <1>1, <1>2, <1>3, <1>4 DEF Next, Run

\* Once Stop has cleared the queue no task starts any more, not even one
\* posted later and due: the empty item comes first, and the loop ends after
\* it.  So nothing runs against what the caller of Stop tears down next.
NoStartAfterStop ==
    [][control = "join" => started' = started]_vars

THEOREM NothingStarts == Spec => NoStartAfterStop
<1>1. Spec => []DueInv /\ []StopInv /\ []TypeOK
  BY InitType, InitStop, StepType, StepStop, PTL DEF Spec
<1> QED
  BY <1>1, StepNoStart, PTL DEF Spec, NoStartAfterStop

-----------------------------------------------------------------------------
(* Where the tasks are.                                                    *)

Known   == {made[n].task : n \in DOMAIN made}
Hand    == {holds[p].task : p \in Poster} \cap Task
InQueue == {x.task : x \in tasks} \cap Task
Ran     == {started[n] : n \in DOMAIN started}
Gone    == {t \in Task : lost[t] # "no"}

\* A task is in one place, and there once.
PlaceInv ==
    /\ Known = UNION {Hand, InQueue, Ran, Gone}
    /\ Hand \cap UNION {InQueue, Ran, Gone} = {}
    /\ InQueue \cap UNION {Ran, Gone} = {}
    /\ Ran \cap Gone = {}
    /\ \A p \in Poster : holds[p] = None \/ holds[p].task \in Task
    /\ \A p, q \in Poster : holds[p].task \in Task /\ holds[p].task = holds[q].task => p = q
    /\ \A x, y \in tasks : x.task \in Task /\ x.task = y.task => x = y
    /\ \A m, n \in DOMAIN started : started[m] = started[n] => m = n

LEMMA PlaceConserves == ASSUME TypeOK, PlaceInv PROVE Conservation
<1>1. \A t \in Task : /\ IsNew(t) <=> t \notin Known
                      /\ InHand(t) <=> t \in Hand
                      /\ Queued(t) <=> t \in InQueue
                      /\ Started(t) <=> t \in Ran
                      /\ lost[t] # "no" <=> t \in Gone
  BY DEF IsNew, InHand, Queued, Started, Known, Hand, InQueue, Ran, Gone
<1>2. \A m, n \in DOMAIN started : started[m] = started[n] => m = n
  BY DEF PlaceInv
<1>3. \A t \in Task :
        /\ t \in Known <=> t \in Hand \/ t \in InQueue \/ t \in Ran \/ t \in Gone
        /\ t \in Ran => t \notin Hand /\ t \notin InQueue /\ t \notin Gone
        /\ t \in InQueue => t \notin Hand /\ t \notin Gone
  BY DEF PlaceInv
<1> QED
  BY <1>1, <1>2, <1>3 DEF Conservation

LEMMA InitPlace == Init => PlaceInv
<1> SUFFICES ASSUME Init PROVE PlaceInv
  OBVIOUS
<1>1. Known = {} /\ Ran = {} /\ InQueue = {} /\ Gone = {}
  BY DEF Init, Known, Ran, InQueue, Gone
<1>2. \A p \in Poster : holds[p] = None /\ holds[p].task \notin Task
  BY NoneItems, TaskQueueAssumption DEF Init
<1>3. Hand = {}
  BY <1>2 DEF Hand
<1> QED
  BY <1>1, <1>2, <1>3 DEF PlaceInv, Init

LEMMA SamePlace ==
    ASSUME PlaceInv, UNCHANGED <<made, holds, tasks, started, lost>>
    PROVE  PlaceInv'
BY DEF PlaceInv, Known, Hand, InQueue, Ran, Gone

LEMMA MadeKnown ==
    ASSUME TypeOK, NEW p \in Poster, NEW t \in Task, NEW d \in Delay, MakeItem(p, t, d)
    PROVE  Known' = Known \cup {t}
<1>1. /\ made \in Seq(Made) /\ [due |-> clock + d, task |-> t, poster |-> p] \in Made
      /\ made' = Append(made, [due |-> clock + d, task |-> t, poster |-> p])
  BY MadeType DEF TypeOK, Made, MakeItem
<1>2. /\ DOMAIN made' = DOMAIN made \cup {Len(made) + 1}
      /\ \A n \in DOMAIN made : made'[n] = made[n]
      /\ made'[Len(made) + 1].task = t
  BY <1>1, AppendElement
<1> QED
  BY <1>2 DEF Known

LEMMA MakeItemPlace ==
    ASSUME TypeOK, PlaceInv, NEW p \in Poster, NEW t \in Task, NEW d \in Delay,
           MakeItem(p, t, d)
    PROVE  PlaceInv'
<1>1. /\ holds[p] = None /\ holds[p].task \notin Task
      /\ holds' = [holds EXCEPT ![p] = [due |-> clock + d, task |-> t]]
      /\ holds \in [Poster -> Item]
      /\ made' = Append(made, [due |-> clock + d, task |-> t, poster |-> p])
      /\ UNCHANGED <<tasks, started, lost>>
  BY NoneItems, TaskQueueAssumption DEF MakeItem, TypeOK
<1>2. t \notin Known
  BY DEF MakeItem, IsNew, Known
<1>3. Known' = Known \cup {t}
  BY MadeKnown
<1>4. /\ \A q \in Poster : holds'[q] = IF q = p THEN [due |-> clock + d, task |-> t]
                                                ELSE holds[q]
      /\ holds'[p].task = t
  BY <1>1
<1>5. Hand' = Hand \cup {t}
  BY <1>1, <1>4 DEF Hand
<1>6. InQueue' = InQueue /\ Ran' = Ran /\ Gone' = Gone
  BY <1>1 DEF InQueue, Ran, Gone
<1>7. t \notin Hand /\ t \notin InQueue /\ t \notin Ran /\ t \notin Gone
  BY <1>2 DEF PlaceInv
<1>8. \A q \in Poster : holds[q].task # t
  BY <1>7 DEF Hand
<1> QED
  BY <1>1, <1>3, <1>4, <1>5, <1>6, <1>7, <1>8 DEF PlaceInv

LEMMA AddTaskPlace ==
    ASSUME TypeOK, PlaceInv, NEW p \in Poster, AddTask(p)
    PROVE  PlaceInv'
<1> DEFINE t == holds[p].task
<1>1. /\ holds[p] # None /\ holds[p] \in Item /\ holds \in [Poster -> Item]
      /\ holds' = [holds EXCEPT ![p] = None]
      /\ UNCHANGED <<made, started>>
  BY NoneItems DEF AddTask, TypeOK
<1>2. t \in Task /\ t \in Hand /\ None.task \notin Task
  BY <1>1, NoneItems, TaskQueueAssumption DEF PlaceInv, Hand
<1>3. t \notin InQueue /\ t \notin Ran /\ t \notin Gone
  BY <1>2 DEF PlaceInv
<1>4. \A q \in Poster : holds'[q] = IF q = p THEN None ELSE holds[q]
  BY <1>1
<1>5. Hand' = Hand \ {t}
  BY <1>1, <1>2, <1>4 DEF Hand, PlaceInv
<1>6. Known' = Known /\ Ran' = Ran
  BY <1>1 DEF Known, Ran
<1>7. \/ InQueue' = InQueue \cup {t} /\ Gone' = Gone /\ tasks' = tasks \cup {holds[p]}
      \/ InQueue' = InQueue /\ Gone' = Gone \cup {t} /\ tasks' = tasks
  <2>1. CASE Occupied(holds[p])
    <3>1. tasks' = tasks /\ lost' = [lost EXCEPT ![t] = "dropped"]
      BY <2>1 DEF AddTask
    <3>2. lost \in [Task -> {"no", "dropped", "cleared"}]
      BY DEF TypeOK
    <3>3. Gone' = Gone \cup {t}
      BY <1>2, <3>1, <3>2 DEF Gone
    <3> QED
      BY <3>1, <3>3 DEF InQueue
  <2>2. CASE ~Occupied(holds[p])
    <3>1. tasks' = tasks \cup {holds[p]} /\ lost' = lost
      BY <2>2 DEF AddTask
    <3> QED
      BY <1>2, <3>1 DEF InQueue, Gone
  <2> QED
    BY <2>1, <2>2
<1>8. \A x \in tasks : x.task # t
  BY <1>2, <1>3 DEF InQueue
<1>9. \A x, y \in tasks' : x.task \in Task /\ x.task = y.task => x = y
  BY <1>7, <1>8 DEF PlaceInv
<1>10. /\ Known' = UNION {Hand', InQueue', Ran', Gone'}
       /\ Hand' \cap UNION {InQueue', Ran', Gone'} = {}
       /\ InQueue' \cap UNION {Ran', Gone'} = {}
       /\ Ran' \cap Gone' = {}
  <2> HIDE DEF t
  <2> QED
    BY <1>2, <1>3, <1>5, <1>6, <1>7 DEF PlaceInv
<1>11. /\ \A q \in Poster : holds'[q] = None \/ holds'[q].task \in Task
       /\ \A q, r \in Poster :
            holds'[q].task \in Task /\ holds'[q].task = holds'[r].task => q = r
  BY <1>2, <1>4 DEF PlaceInv
<1> QED
  BY <1>1, <1>9, <1>10, <1>11 DEF PlaceInv

LEMMA StopClearPlace ==
    ASSUME TypeOK, PlaceInv, StopClear
    PROVE  PlaceInv'
<1>1. /\ tasks' = {None} /\ UNCHANGED <<made, holds, started>>
      /\ lost' = [t \in Task |-> IF \E x \in tasks : x.task = t THEN "cleared" ELSE lost[t]]
      /\ None.task \notin Task
  BY NoneItems, TaskQueueAssumption DEF StopClear
<1>2. InQueue' = {} /\ Gone' = Gone \cup InQueue
  BY <1>1 DEF InQueue, Gone
<1>3. Known' = Known /\ Hand' = Hand /\ Ran' = Ran
  BY <1>1 DEF Known, Hand, Ran
<1> QED
  BY <1>1, <1>2, <1>3 DEF PlaceInv

\* What the worker takes is the end of a queued task's way.
LEMMA TakeTaskPlace ==
    ASSUME TypeOK, PlaceInv, TakeTask
    PROVE  PlaceInv'
<1>1. PICK x \in tasks :
          /\ x \in Item /\ tasks' = tasks \ {x}
          /\ x.task = NoTask => started' = started
          /\ x.task # NoTask => x.task \in Task /\ started' = Append(started, x.task)
  BY Taken
<1>2. UNCHANGED <<made, holds, lost>>
  BY DEF TakeTask
<1>3. Known' = Known /\ Hand' = Hand /\ Gone' = Gone
  BY <1>2 DEF Known, Hand, Gone
<1>4. CASE x.task = NoTask
  <2>1. InQueue' = InQueue
    BY <1>1, <1>4, TaskQueueAssumption DEF InQueue
  <2>2. Ran' = Ran /\ started' = started
    BY <1>1, <1>4 DEF Ran
  <2> QED
    BY <1>1, <1>2, <1>3, <2>1, <2>2 DEF PlaceInv
<1>5. CASE x.task # NoTask
  <2>1. x.task \in Task /\ started' = Append(started, x.task)
    BY <1>1, <1>5
  <2>2. x.task \in InQueue /\ InQueue' = InQueue \ {x.task}
    BY <1>1, <2>1 DEF InQueue, PlaceInv
  <2>3. started \in Seq(Task)
    BY DEF TypeOK
  <2>4. /\ DOMAIN started = 1 .. Len(started) /\ Len(started) \in Nat
        /\ DOMAIN started' = 1 .. Len(started) + 1
        /\ \A n \in 1 .. Len(started) : started'[n] = started[n]
        /\ started'[Len(started) + 1] = x.task
    BY <2>1, <2>3, AppendElement
  <2>5. Ran' = Ran \cup {x.task}
    BY <2>1, <2>3, AppendRange DEF Ran
  <2>6. x.task \notin Ran /\ x.task \notin Hand /\ x.task \notin Gone
    BY <2>2 DEF PlaceInv
  <2>7. \A m, n \in DOMAIN started' : started'[m] = started'[n] => m = n
    <3>1. \A m \in 1 .. Len(started) : started[m] # x.task
      BY <2>4, <2>6 DEF Ran
    <3> QED
      BY <2>4, <3>1 DEF PlaceInv
  <2> QED
    BY <1>1, <1>2, <1>3, <2>2, <2>5, <2>6, <2>7 DEF PlaceInv
<1> QED
  BY <1>4, <1>5

\* The steps that move no task.
Elsewhere ==
    \/ Tick \/ Start \/ StopFlag \/ StopJoin
    \/ WhileLoop \/ WaitFor \/ Notified \/ Timeout \/ TaskReturns
    \/ UNCHANGED vars

LEMMA ElsewhereSame ==
    ASSUME Elsewhere
    PROVE  UNCHANGED <<made, holds, tasks, started, lost>>
BY DEF Elsewhere, Tick, Start, StopFlag, StopJoin, WhileLoop, WaitFor, Notified,
       Timeout, TaskReturns, vars, history

LEMMA NextCases ==
    ASSUME [Next]_vars
    PROVE  \/ \E p \in Poster, t \in Task, d \in Delay : MakeItem(p, t, d)
           \/ \E p \in Poster : AddTask(p)
           \/ StopClear \/ TakeTask \/ Elsewhere
BY DEF Next, Control, Run, Elsewhere

LEMMA StepPlace == TypeOK /\ PlaceInv /\ [Next]_vars => PlaceInv'
<1> SUFFICES ASSUME TypeOK, PlaceInv, [Next]_vars PROVE PlaceInv'
  OBVIOUS
<1>1. CASE Elsewhere
  BY <1>1, ElsewhereSame, SamePlace
<1> QED
  BY <1>1, NextCases, MakeItemPlace, AddTaskPlace, StopClearPlace, TakeTaskPlace

\* A task that was posted is held, queued, started or gone for a named reason,
\* and in one of these places only: it runs at most once.
THEOREM TasksConserved == Spec => []Conservation
<1>1. Spec => []TypeOK /\ []PlaceInv
  BY InitType, InitPlace, StepType, StepPlace, PTL DEF Spec
<1>2. TypeOK /\ PlaceInv => Conservation
  BY PlaceConserves
<1> QED
  BY <1>1, <1>2, PTL

-----------------------------------------------------------------------------
(* The order of a poster's tasks.                                          *)

Before(m, n) ==
    m < n /\ made[m].poster = made[n].poster /\ made[m].due <= made[n].due

\* The item a poster holds is the last it made; a queued item expires when
\* the item that was made for its task does; a task is made once.
LinkInv ==
    /\ \A p \in Poster : holds[p] # None =>
          \E m \in DOMAIN made :
              /\ made[m].task = holds[p].task /\ made[m].due = holds[p].due
              /\ made[m].poster = p
              /\ \A n \in DOMAIN made : m < n => made[n].poster # p
    /\ \A x \in tasks : x.task \in Task =>
          \E m \in DOMAIN made : made[m].task = x.task /\ made[m].due = x.due
    /\ \A m, n \in DOMAIN made : made[m].task = made[n].task => m = n

\* No task is held or queued when one that its poster wants after it started.
BehindInv ==
    \A m, n \in DOMAIN made : Before(m, n) /\ made[n].task \in Ran =>
        made[m].task \notin Hand /\ made[m].task \notin InQueue

OrderInv == LinkInv /\ BehindInv /\ PosterOrder

LEMMA InitOrder == Init => OrderInv
BY NoneItems, TaskQueueAssumption DEF Init, OrderInv, LinkInv, BehindInv, PosterOrder

LEMMA SameOrder ==
    ASSUME OrderInv, UNCHANGED <<made, holds, tasks, started, lost>>
    PROVE  OrderInv'
BY DEF OrderInv, LinkInv, BehindInv, PosterOrder, Before, Hand, InQueue, Ran

\* If nothing is made and nothing starts, and nothing new is held or queued,
\* the order stands.
LEMMA SameBehind ==
    ASSUME OrderInv, UNCHANGED <<made, started>>,
           Hand' \subseteq Hand \cup InQueue, InQueue' \subseteq Hand \cup InQueue
    PROVE  BehindInv' /\ PosterOrder'
<1>1. Ran' = Ran
  BY DEF Ran
<1>2. BehindInv'
  BY <1>1 DEF OrderInv, BehindInv, Before
<1>3. PosterOrder'
  BY DEF OrderInv, PosterOrder
<1> QED
  BY <1>2, <1>3

LEMMA MakeItemOrder ==
    ASSUME TypeOK, PlaceInv, OrderInv, NEW p \in Poster, NEW t \in Task, NEW d \in Delay,
           MakeItem(p, t, d)
    PROVE  OrderInv'
<1> DEFINE N == Len(made) + 1
<1>1. /\ holds[p] = None
      /\ holds' = [holds EXCEPT ![p] = [due |-> clock + d, task |-> t]]
      /\ holds \in [Poster -> Item]
      /\ made' = Append(made, [due |-> clock + d, task |-> t, poster |-> p])
      /\ UNCHANGED <<tasks, started>>
  BY NoneItems DEF MakeItem, TypeOK
<1>2. /\ DOMAIN made = 1 .. Len(made) /\ Len(made) \in Nat
      /\ DOMAIN made' = 1 .. N
      /\ \A n \in DOMAIN made : made'[n] = made[n]
      /\ made'[N] = [due |-> clock + d, task |-> t, poster |-> p]
  <2>1. made \in Seq(Made) /\ [due |-> clock + d, task |-> t, poster |-> p] \in Made
    BY MadeType DEF TypeOK, Made
  <2> QED
    BY <1>1, <2>1, AppendElement
<1>3. t \notin Known /\ t \notin Ran /\ \A n \in DOMAIN made : made[n].task # t
  BY DEF MakeItem, IsNew, Known, PlaceInv
<1>4. DOMAIN made' = DOMAIN made \cup {N} /\ \A n \in DOMAIN made : n < N /\ ~ N < n
  BY <1>2
<1>5. made'[N].due = clock + d /\ made'[N].task = t /\ made'[N].poster = p
  BY <1>2
<1> HIDE DEF N
<1>6. LinkInv'
  <2>1. ASSUME NEW q \in Poster, holds'[q] # None
        PROVE  \E m \in DOMAIN made' :
                  /\ made'[m].task = holds'[q].task /\ made'[m].due = holds'[q].due
                  /\ made'[m].poster = q
                  /\ \A n \in DOMAIN made' : m < n => made'[n].poster # q
    <3>1. CASE q = p
      <4>1. holds'[q].task = t /\ holds'[q].due = clock + d
        BY <1>1, <3>1
      <4>2. \A n \in DOMAIN made' : ~ N < n
        BY <1>2, <1>4
      <4> QED
        BY <1>4, <1>5, <3>1, <4>1, <4>2
    <3>2. CASE q # p
      <4>1. holds'[q] = holds[q]
        BY <1>1, <3>2
      <4>2. PICK m \in DOMAIN made :
                /\ made[m].task = holds[q].task /\ made[m].due = holds[q].due
                /\ made[m].poster = q
                /\ \A n \in DOMAIN made : m < n => made[n].poster # q
        BY <2>1, <4>1 DEF OrderInv, LinkInv
      <4> QED
        BY <1>2, <1>4, <1>5, <3>2, <4>1, <4>2
    <3> QED
      BY <3>1, <3>2
  <2>2. \A x \in tasks' : x.task \in Task =>
          \E m \in DOMAIN made' : made'[m].task = x.task /\ made'[m].due = x.due
    BY <1>1, <1>2, <1>4 DEF OrderInv, LinkInv
  <2>3. \A m, n \in DOMAIN made' : made'[m].task = made'[n].task => m = n
    BY <1>2, <1>3, <1>4, <1>5 DEF OrderInv, LinkInv
  <2> QED
    BY <2>1, <2>2, <2>3 DEF LinkInv
<1>7. Ran' = Ran /\ InQueue' = InQueue /\ \A u \in Task : u # t /\ u \in Hand' => u \in Hand
  BY <1>1 DEF Ran, InQueue, Hand
<1>8. BehindInv'
  <2> SUFFICES ASSUME NEW m \in DOMAIN made', NEW n \in DOMAIN made',
                      Before(m, n)', made'[n].task \in Ran
               PROVE  made'[m].task \notin Hand' /\ made'[m].task \notin InQueue
    BY <1>7 DEF BehindInv
  <2>1. m < n
    BY DEF Before
  <2>2. n # N
    BY <1>3, <1>5
  <2>3. m \in DOMAIN made /\ n \in DOMAIN made
    BY <1>4, <2>1, <2>2
  <2>4. Before(m, n) /\ made'[m].task = made[m].task /\ made[n].task \in Ran
    BY <1>2, <2>3 DEF Before
  <2>5. made[m].task \notin Hand /\ made[m].task \notin InQueue
    BY <2>3, <2>4 DEF OrderInv, BehindInv
  <2> QED
    BY <1>3, <1>7, <2>3, <2>4, <2>5 DEF Hand
<1>9. PosterOrder'
  <2> SUFFICES ASSUME NEW m \in DOMAIN made', NEW n \in DOMAIN made',
                      m < n, made'[m].poster = made'[n].poster, made'[m].due <= made'[n].due,
                      NEW j \in DOMAIN started, NEW k \in DOMAIN started,
                      started[j] = made'[m].task, started[k] = made'[n].task
               PROVE  j < k
    BY <1>1 DEF PosterOrder
  <2>1. n # N
    BY <1>3, <1>5 DEF Ran
  <2>2. m \in DOMAIN made /\ n \in DOMAIN made
    BY <1>4, <2>1
  <2> QED
    BY <1>2, <2>2 DEF OrderInv, PosterOrder
<1> QED
  BY <1>6, <1>8, <1>9 DEF OrderInv

LEMMA AddTaskOrder ==
    ASSUME TypeOK, PlaceInv, OrderInv, NEW p \in Poster, AddTask(p)
    PROVE  OrderInv'
<1>1. /\ holds[p] # None /\ holds \in [Poster -> Item]
      /\ holds' = [holds EXCEPT ![p] = None]
      /\ tasks' = tasks \/ tasks' = tasks \cup {holds[p]}
      /\ UNCHANGED <<made, started>>
  BY NoneItems DEF AddTask, TypeOK
<1>2. Hand' \subseteq Hand
  BY <1>1, NoneItems, TaskQueueAssumption DEF Hand
<1>3. InQueue' \subseteq Hand \cup InQueue
  BY <1>1 DEF Hand, InQueue
<1>4. LinkInv'
  <2>1. \A q \in Poster : holds'[q] # None => q # p /\ holds'[q] = holds[q]
    BY <1>1
  <2>2. \A x \in tasks' : x \in tasks \/ x = holds[p]
    BY <1>1
  <2> QED
    BY <1>1, <2>1, <2>2 DEF OrderInv, LinkInv
<1> QED
  BY <1>1, <1>2, <1>3, <1>4, SameBehind DEF OrderInv

LEMMA StopClearOrder ==
    ASSUME TypeOK, OrderInv, StopClear
    PROVE  OrderInv'
<1>1. /\ tasks' = {None} /\ None.task \notin Task
      /\ UNCHANGED <<made, started, holds>>
  BY NoneItems, TaskQueueAssumption DEF StopClear
<1>2. Hand' = Hand /\ InQueue' = {}
  BY <1>1 DEF Hand, InQueue
<1>3. LinkInv'
  BY <1>1 DEF OrderInv, LinkInv
<1> QED
  BY <1>1, <1>2, <1>3, SameBehind DEF OrderInv

\* The item that is taken is the first, so nothing its poster wants before it
\* is queued; and nothing of its poster's that was made before it is held.
LEMMA TakeTaskOrder ==
    ASSUME TypeOK, PlaceInv, OrderInv, TakeTask
    PROVE  OrderInv'
<1>1. PICK x \in tasks :
          /\ x \in Item /\ \A y \in tasks : y # x => x.due < y.due
          /\ tasks' = tasks \ {x}
          /\ x.task = NoTask => started' = started
          /\ x.task # NoTask => x.task \in Task /\ started' = Append(started, x.task)
  BY Taken
<1>2. UNCHANGED <<made, holds>>
  BY DEF TakeTask
<1>3. Hand' = Hand /\ InQueue' \subseteq InQueue
  BY <1>1, <1>2 DEF Hand, InQueue
<1>4. LinkInv'
  BY <1>1, <1>2 DEF OrderInv, LinkInv
<1>5. CASE x.task = NoTask
  BY <1>1, <1>2, <1>3, <1>4, <1>5, SameBehind DEF OrderInv
<1>6. CASE x.task # NoTask
  <2>1. /\ x.task \in Task
        /\ DOMAIN started = 1 .. Len(started) /\ Len(started) \in Nat
        /\ DOMAIN started' = 1 .. Len(started) + 1
        /\ \A n \in 1 .. Len(started) : started'[n] = started[n]
        /\ started'[Len(started) + 1] = x.task
    <3>1. started \in Seq(Task) /\ x.task \in Task /\ started' = Append(started, x.task)
      BY <1>1, <1>6 DEF TypeOK
    <3> QED
      BY <3>1, AppendElement
  <2>2. Ran' = Ran \cup {x.task} /\ x.task \in InQueue
    BY <1>1, <2>1 DEF Ran, InQueue
  <2>3. x.task \notin Hand /\ x.task \notin Ran /\ x.task \notin InQueue'
    BY <1>1, <2>2 DEF PlaceInv, InQueue
  <2>4. PICK b \in DOMAIN made : made[b].task = x.task /\ made[b].due = x.due
    BY <1>1, <2>1 DEF OrderInv, LinkInv
  <2>5. ASSUME NEW m \in DOMAIN made, Before(m, b)
        PROVE  made[m].task \notin Hand /\ made[m].task \notin InQueue'
    <3>1. made[m] \in Made /\ made[b] \in Made /\ m \in Nat
      BY MadeElements
    <3>2. made[m].due \in Nat /\ made[b].due \in Nat /\ made[m].due <= x.due
      BY <2>4, <2>5, <3>1 DEF Made, Before
    <3>3. made[m].task # x.task
      BY <2>4, <2>5, <3>1 DEF OrderInv, LinkInv, Before
    <3>4. ASSUME NEW q \in Poster, holds[q].task = made[m].task PROVE FALSE
      <4>1. made[m].task \in Task
        BY <3>1 DEF Made
      <4>2. holds[q] # None
        BY <3>4, <4>1, NoneItems, TaskQueueAssumption
      <4>3. PICK n \in DOMAIN made :
                /\ made[n].task = holds[q].task /\ made[n].poster = q
                /\ \A k \in DOMAIN made : n < k => made[k].poster # q
        BY <4>2 DEF OrderInv, LinkInv
      <4>4. n = m
        BY <3>4, <4>3 DEF OrderInv, LinkInv
      <4> QED
        BY <2>5, <4>3, <4>4 DEF Before
    <3>5. ASSUME NEW y \in tasks', y.task = made[m].task PROVE FALSE
      <4>1. y \in tasks /\ y # x /\ x.due < y.due /\ y.task \in Task /\ y \in Item
        BY <1>1, <3>1, <3>5 DEF Made, TypeOK
      <4>2. PICK n \in DOMAIN made : made[n].task = y.task /\ made[n].due = y.due
        BY <4>1 DEF OrderInv, LinkInv
      <4>3. n = m
        BY <3>5, <4>2 DEF OrderInv, LinkInv
      <4>4. x.due \in Nat /\ y.due \in Nat
        BY <1>1, <4>1 DEF Item
      <4> QED
        BY <3>2, <4>1, <4>2, <4>3, <4>4
    <3> QED
      BY <3>4, <3>5 DEF Hand, InQueue
  <2>6. BehindInv'
    <3> SUFFICES ASSUME NEW m \in DOMAIN made, NEW n \in DOMAIN made,
                        Before(m, n), made[n].task \in Ran'
                 PROVE  made[m].task \notin Hand /\ made[m].task \notin InQueue'
      BY <1>2, <1>3 DEF BehindInv, Before
    <3>1. CASE made[n].task \in Ran
      BY <1>3, <3>1 DEF OrderInv, BehindInv
    <3>2. CASE made[n].task = x.task
      <4>1. n = b
        BY <2>4, <3>2 DEF OrderInv, LinkInv
      <4> QED
        BY <2>5, <4>1
    <3> QED
      BY <2>2, <3>1, <3>2
  <2>7. PosterOrder'
    <3> SUFFICES ASSUME NEW m \in DOMAIN made, NEW n \in DOMAIN made, Before(m, n),
                        NEW j \in DOMAIN started', NEW k \in DOMAIN started',
                        started'[j] = made[m].task, started'[k] = made[n].task
                 PROVE  j < k
      BY <1>2 DEF PosterOrder, Before
    <3>1. CASE j \in DOMAIN started /\ k \in DOMAIN started
      BY <2>1, <3>1 DEF OrderInv, PosterOrder, Before
    <3>2. CASE j \in DOMAIN started /\ k \notin DOMAIN started
      BY <2>1, <3>2
    <3>3. CASE j \notin DOMAIN started /\ k \in DOMAIN started
      <4>1. made[m].task = x.task /\ made[n].task \in Ran
        BY <2>1, <3>3 DEF Ran
      <4> QED
        BY <2>2, <4>1 DEF OrderInv, BehindInv
    <3>4. CASE j \notin DOMAIN started /\ k \notin DOMAIN started
      <4>1. made[m].task = x.task /\ made[n].task = x.task
        BY <2>1, <3>4
      <4>2. m = n /\ made \in Seq(Made)
        BY <4>1 DEF OrderInv, LinkInv, TypeOK, Made
      <4>3. m \in Nat /\ m < n
        BY <4>2, LenProperties DEF Before
      <4> QED
        BY <4>2, <4>3
    <3> QED
      BY <3>1, <3>2, <3>3, <3>4
  <2> QED
    BY <1>4, <2>6, <2>7 DEF OrderInv
<1> QED
  BY <1>5, <1>6

LEMMA StepOrder == TypeOK /\ PlaceInv /\ OrderInv /\ [Next]_vars => OrderInv'
<1> SUFFICES ASSUME TypeOK, PlaceInv, OrderInv, [Next]_vars PROVE OrderInv'
  OBVIOUS
<1>1. CASE Elsewhere
  BY <1>1, ElsewhereSame, SameOrder
<1> QED
  BY <1>1, NextCases, MakeItemOrder, AddTaskOrder, StopClearOrder, TakeTaskOrder

\* What a thread posts starts in order of expiry, however the posts of other
\* threads, the locks and the clock fall between.
THEOREM PostersKeepOrder == Spec => []PosterOrder
<1>1. Spec => []OrderInv
  BY InitType, InitPlace, InitOrder, StepType, StepPlace, StepOrder, PTL DEF Spec
<1>2. OrderInv => PosterOrder
  BY DEF OrderInv
<1> QED
  BY <1>1, <1>2, PTL
-----------------------------------------------------------------------------
(* What is seen of the queue: every step is a step of an Executor.         *)

\* What the worker runs has started, and "run" is the only place to run it;
\* an item without a task is the empty item.
CurrentInv ==
    /\ current # NoTask => worker = "run" /\ current \in Ran
    /\ \A x \in tasks : x.task = NoTask => x.due = 0

LEMMA InitCurrent == Init => CurrentInv
BY DEF Init, CurrentInv

LEMMA TakenRan ==
    ASSUME TypeOK, PlaceInv, TakeTask
    PROVE  \/ /\ current' = NoTask
              /\ UNCHANGED <<Known, Hand, InQueue, Ran, Gone>>
           \/ /\ current' \in Task /\ current' \in InQueue
              /\ InQueue' = InQueue \ {current'} /\ Ran' = Ran \cup {current'}
              /\ UNCHANGED <<Known, Hand, Gone>>
<1>1. PICK x \in tasks :
          /\ x \in Item /\ tasks' = tasks \ {x} /\ current' = x.task
          /\ x.task = NoTask => started' = started
          /\ x.task # NoTask => x.task \in Task /\ started' = Append(started, x.task)
  BY Taken
<1>2. UNCHANGED <<Known, Hand, Gone>>
  BY DEF TakeTask, Known, Hand, Gone
<1>3. CASE x.task = NoTask
  BY <1>1, <1>2, <1>3, TaskQueueAssumption DEF InQueue, Ran
<1>4. CASE x.task # NoTask
  <2>1. x.task \in Task /\ started' = Append(started, x.task) /\ started \in Seq(Task)
    BY <1>1, <1>4 DEF TypeOK
  <2>2. Ran' = Ran \cup {x.task}
    BY <2>1, AppendRange DEF Ran
  <2>3. x.task \in InQueue /\ InQueue' = InQueue \ {x.task}
    BY <1>1, <2>1 DEF InQueue, PlaceInv
  <2> QED
    BY <1>1, <1>2, <2>1, <2>2, <2>3
<1> QED
  BY <1>3, <1>4

LEMMA StepCurrent == TypeOK /\ PlaceInv /\ CurrentInv /\ [Next]_vars => CurrentInv'
<1> SUFFICES ASSUME TypeOK, PlaceInv, CurrentInv, [Next]_vars PROVE CurrentInv'
  OBVIOUS
<1>1. \A x \in tasks' : x.task = NoTask => x.due = 0
  <2>1. CASE \E p \in Poster : AddTask(p)
    BY <2>1, NoneItems, TaskQueueAssumption DEF AddTask, PlaceInv, CurrentInv
  <2>2. CASE StopClear
    BY <2>2, NoneItems DEF StopClear
  <2>3. CASE tasks' \subseteq tasks
    BY <2>3 DEF CurrentInv
  <2>4. TakeTask \/ Elsewhere => tasks' \subseteq tasks
    BY ElsewhereSame DEF TakeTask
  <2> QED
    BY <2>1, <2>2, <2>3, <2>4, NextCases DEF MakeItem
<1>2. current' # NoTask => worker' = "run" /\ current' \in Ran'
  <2>1. CASE TakeTask
    BY <2>1, TakenRan DEF TakeTask
  <2>2. CASE TaskReturns
    BY <2>2 DEF TaskReturns
  <2>3. CASE ~TakeTask /\ ~TaskReturns
    <3>1. current' = current /\ started' = started /\ (worker = "run" => worker' = "run")
      BY <2>3, NextCases DEF MakeItem, AddTask, StopClear, Elsewhere, Tick, Start, StopFlag,
         StopJoin, WhileLoop, WaitFor, Notified, Timeout, vars, history
    <3> QED
      BY <3>1 DEF CurrentInv, Ran
  <2> QED
    BY <2>1, <2>2, <2>3
<1> QED
  BY <1>1, <1>2 DEF CurrentInv

\* The stages, by the places of the tasks.
LEMMA Stages ==
    /\ stage = [t \in Task |->
                   IF t \notin Known THEN "new" ELSE IF t \in Gone THEN "gone"
                   ELSE IF current = t THEN "running"
                   ELSE IF t \in Ran THEN "ended" ELSE "posted"]
    /\ stage' = [t \in Task |->
                   IF t \notin Known' THEN "new" ELSE IF t \in Gone' THEN "gone"
                   ELSE IF current' = t THEN "running"
                   ELSE IF t \in Ran' THEN "ended" ELSE "posted"]
<1>1. \A t \in Task : /\ IsNew(t) <=> t \notin Known
                      /\ lost[t] # "no" <=> t \in Gone
                      /\ Started(t) <=> t \in Ran
  BY DEF IsNew, Known, Gone, Started, Ran
<1>2. \A t \in Task : /\ IsNew(t)' <=> t \notin Known'
                      /\ (lost[t])' # "no" <=> t \in Gone'
                      /\ Started(t)' <=> t \in Ran'
  BY DEF IsNew, Known, Gone, Started, Ran
<1> QED
  BY <1>1, <1>2 DEF stage

LEMMA PostedPlace ==
    ASSUME PlaceInv, CurrentInv, NEW t \in Task
    PROVE  /\ stage[t] = "new" <=> t \notin Known
           /\ stage[t] = "posted" <=> t \in Hand \cup InQueue
           /\ stage[t] = "running" <=> t = current
<1>1. /\ t \in Known <=> t \in Hand \/ t \in InQueue \/ t \in Ran \/ t \in Gone
      /\ t \in Ran => t \notin Hand /\ t \notin InQueue /\ t \notin Gone
      /\ t \in InQueue => t \notin Hand /\ t \notin Gone
      /\ t \in Hand => t \notin Gone
  BY DEF PlaceInv
<1>2. t = current => t \in Ran
  BY TaskQueueAssumption DEF CurrentInv
<1>3. stage[t] = IF t \notin Known THEN "new" ELSE IF t \in Gone THEN "gone"
                 ELSE IF current = t THEN "running"
                 ELSE IF t \in Ran THEN "ended" ELSE "posted"
  BY Stages
<1> QED
  BY <1>1, <1>2, <1>3

\* Nothing runs unless the worker runs it.
LEMMA IdleOutside ==
    ASSUME PlaceInv, CurrentInv, worker # "run"
    PROVE  E!Idle
BY PostedPlace, TaskQueueAssumption DEF E!Idle, CurrentInv

LEMMA InitExecutor == Init => E!Init
<1> SUFFICES ASSUME Init PROVE E!Init
  OBVIOUS
<1>1. Known = {}
  BY DEF Init, Known
<1>2. stage = [t \in Task |-> "new"]
  BY <1>1, Stages
<1> QED
  BY <1>2 DEF Init, E!Init, service

LEMMA MakeItemExecutor ==
    ASSUME TypeOK, PlaceInv, CurrentInv, NEW p \in Poster, NEW t \in Task, NEW d \in Delay,
           MakeItem(p, t, d)
    PROVE  E!Post(p, t, clock + d) /\ clock + d \in Expiries
<1>1. clock + d \in Expiries
  BY DEF TypeOK, Expiries
<1>2. t \notin Known
  BY DEF MakeItem, IsNew, Known
<1>3. Known' = Known \cup {t}
  BY MadeKnown
<1>4. UNCHANGED <<current, Ran, Gone, service>>
  BY DEF MakeItem, Ran, Gone, service
<1>5. t \notin Ran /\ t \notin Gone /\ t # current
  BY <1>2, TaskQueueAssumption DEF PlaceInv, CurrentInv
<1>6. stage' = [stage EXCEPT ![t] = "posted"]
  BY <1>3, <1>4, <1>5, Stages
<1>7. stage[t] = "new"
  BY <1>2, PostedPlace
<1> QED
  BY <1>1, <1>4, <1>6, <1>7 DEF MakeItem, E!Post

\* An insert that finds its place occupied loses the task.
LEMMA AddTaskExecutor ==
    ASSUME TypeOK, DueInv, PlaceInv, OrderInv, CurrentInv, NEW p \in Poster, AddTask(p)
    PROVE  \/ \E m, n \in DOMAIN made : E!Lose(m, n)
           \/ UNCHANGED <<made, stage, service>>
<1> DEFINE t == holds[p].task
<1>1. /\ holds[p] # None /\ t \in Task /\ t \in Hand
      /\ UNCHANGED <<made, current, Known, Ran, service>>
  BY NoneItems DEF AddTask, PlaceInv, Hand, Known, Ran, service
<1>2. CASE ~Occupied(holds[p])
  <2>1. Gone' = Gone
    BY <1>2 DEF AddTask, Gone
  <2>2. stage' = stage
    BY <1>1, <2>1, Stages
  <2> QED
    BY <1>1, <2>2
<1>3. CASE Occupied(holds[p])
  <2>1. PICK y \in tasks : y.due = holds[p].due
    BY <1>3 DEF Occupied
  <2>2. y.task \in Task /\ y.task \in InQueue
    <3>1. y.due > 0
      BY <1>1, <2>1 DEF DueInv
    <3>2. y.task # NoTask
      BY <3>1 DEF CurrentInv
    <3> QED
      BY <3>2 DEF InQueue, TypeOK, Item
  <2>3. PICK m \in DOMAIN made : made[m].task = t /\ made[m].due = holds[p].due
    BY <1>1 DEF OrderInv, LinkInv
  <2>4. PICK n \in DOMAIN made : made[n].task = y.task /\ made[n].due = y.due
    BY <2>2 DEF OrderInv, LinkInv
  <2>5. m # n
    BY <1>1, <2>2, <2>3, <2>4 DEF PlaceInv
  <2>6. lost' = [lost EXCEPT ![t] = "dropped"] /\ lost \in [Task -> {"no", "dropped", "cleared"}]
    BY <1>3 DEF AddTask, TypeOK
  <2>7. Gone' = Gone \cup {t}
    BY <1>1, <2>6 DEF Gone
  <2>8. t \in Known
    BY <1>1 DEF PlaceInv
  <2>9. stage[t] = "posted" /\ stage[y.task] = "posted"
    BY <1>1, <2>2, PostedPlace
  <2>10. stage' = [stage EXCEPT ![t] = "gone"]
    <3> HIDE DEF t
    <3> QED
      BY <1>1, <2>7, <2>8, Stages
  <2>11. E!Lose(m, n)
    BY <1>1, <2>1, <2>3, <2>4, <2>5, <2>9, <2>10 DEF E!Lose
  <2> QED
    BY <2>11
<1> QED
  BY <1>2, <1>3

LEMMA StopClearExecutor ==
    ASSUME TypeOK, StopInv, PlaceInv, CurrentInv, StopClear
    PROVE  E!Close
<1>1. /\ lost' = [t \in Task |-> IF \E x \in tasks : x.task = t THEN "cleared" ELSE lost[t]]
      /\ UNCHANGED <<made, current, Known, Ran>>
      /\ service = "open" /\ service' = "closing"
  BY DEF StopClear, StopInv, Known, Ran, service
<1>2. Gone' = Gone \cup InQueue
  BY <1>1 DEF InQueue, Gone
<1>3. InQueue \subseteq {t \in Task : stage[t] = "posted"}
  BY PostedPlace DEF InQueue
<1>4. InQueue \subseteq Known
  BY DEF PlaceInv
<1>5. stage' = [t \in Task |-> IF t \in InQueue THEN "gone" ELSE stage[t]]
  BY <1>1, <1>2, <1>4, Stages
<1> QED
  BY <1>1, <1>3, <1>5 DEF E!Close

\* The task that is taken is the first its poster wants of those that are left.
LEMMA TakeTaskExecutor ==
    ASSUME TypeOK, StopInv, DueInv, PlaceInv, OrderInv, CurrentInv, TakeTask, OrderInv',
           control = "join" => started' = started
    PROVE  (\E n \in DOMAIN made : E!Begin(n)) \/ UNCHANGED <<made, stage, service>>
<1>1. /\ worker = "take" /\ current = NoTask
      /\ UNCHANGED <<made, service>>
  BY DEF TakeTask, CurrentInv, service
<1>2. CASE current' = NoTask
  <2>1. UNCHANGED <<Known, Ran, Gone, current>>
    BY <1>1, <1>2, TakenRan, TaskQueueAssumption
  <2>2. stage' = stage
    BY <2>1, Stages
  <2> QED
    BY <1>1, <2>2
<1>3. CASE current' # NoTask
  <2>1. /\ current' \in Task /\ current' \in InQueue
        /\ InQueue' = InQueue \ {current'} /\ Ran' = Ran \cup {current'}
        /\ UNCHANGED <<Known, Hand, Gone>>
    BY <1>3, TakenRan
  <2>2. PICK x \in tasks : x.task = current'
    BY <2>1 DEF InQueue
  <2>3. PICK n \in DOMAIN made : made[n].task = current'
    BY <2>1, <2>2 DEF OrderInv, LinkInv
  <2>4. stage[current'] = "posted" /\ current' \in Known /\ current' \notin Gone
    BY <2>1, PostedPlace DEF PlaceInv
  <2>5. service = "open"
    <3>1. current' \notin Ran
      BY <2>1 DEF PlaceInv
    <3>2. control # "join"
      BY <2>1, <3>1 DEF Ran
    <3> QED
      BY <1>1, <3>2 DEF service
  <2>6. ASSUME NEW m \in DOMAIN made, Before(m, n)
        PROVE  stage[made[m].task] # "posted"
    <3>1. made[m].task \in Task /\ m \in Nat
      BY MadeElements
    <3>2. made[m].task # current'
      BY <2>3, <2>6, <3>1 DEF OrderInv, LinkInv, Before
    <3>3. made[m].task \notin Hand /\ made[m].task \notin InQueue'
      BY <1>1, <2>1, <2>3, <2>6 DEF OrderInv, BehindInv, Before
    <3> QED
      BY <2>1, <3>1, <3>2, <3>3, PostedPlace
  <2>7. stage' = [stage EXCEPT ![current'] = "running"]
    BY <1>1, <2>1, <2>4, Stages, TaskQueueAssumption
  <2>8. E!Idle
    BY <1>1, IdleOutside
  <2>9. E!Begin(n)
    BY <1>1, <2>3, <2>4, <2>5, <2>6, <2>7, <2>8 DEF E!Begin, E!Before, Before
  <2> QED
    BY <2>9
<1> QED
  BY <1>2, <1>3

LEMMA ElsewhereExecutor ==
    ASSUME TypeOK, StopInv, PlaceInv, CurrentInv, Elsewhere
    PROVE  E!Open \/ E!Closed \/ (\E t \in Task : E!End(t)) \/ UNCHANGED <<made, stage, service>>
<1>1. UNCHANGED <<made, Known, Ran, Gone>>
  BY ElsewhereSame DEF Known, Ran, Gone
<1>2. CASE TaskReturns
  <2>1. current' = NoTask /\ service' = service
    BY <1>2 DEF TaskReturns, service
  <2>2. CASE current = NoTask
    BY <1>1, <2>1, <2>2, Stages
  <2>3. CASE current # NoTask
    <3>1. /\ current \in Task /\ current \in Ran /\ current \in Known /\ current \notin Gone
      BY <2>3 DEF CurrentInv, PlaceInv, TypeOK
    <3>2. stage[current] = "running"
      BY <3>1, PostedPlace
    <3>3. stage' = [stage EXCEPT ![current] = "ended"]
      BY <1>1, <2>1, <3>1, Stages, TaskQueueAssumption
    <3> QED
      BY <1>1, <2>1, <3>1, <3>2, <3>3 DEF E!End
  <2> QED
    BY <2>2, <2>3
<1>3. CASE Elsewhere /\ ~TaskReturns
  <2>1. current' = current
    BY <1>3 DEF Elsewhere, Tick, Start, StopFlag, StopJoin, WhileLoop, WaitFor, Notified,
       Timeout, vars
  <2>2. stage' = stage
    BY <1>1, <2>1, Stages
  <2>3. CASE Start
    BY <1>1, <2>2, <2>3 DEF Start, service, E!Open
  <2>4. CASE StopJoin
    <3>1. E!Idle
      BY <2>4, IdleOutside DEF StopJoin
    <3> QED
      BY <1>1, <2>2, <2>4, <3>1 DEF StopJoin, service, E!Closed
  <2>5. CASE ~Start /\ ~StopJoin
    <3>1. service' = service
      BY <1>3, <2>5 DEF Elsewhere, Tick, StopFlag, WhileLoop, WaitFor, Notified,
         Timeout, vars, service
    <3> QED
      BY <1>1, <2>2, <3>1
  <2> QED
    BY <2>3, <2>4, <2>5
<1> QED
  BY <1>2, <1>3

LEMMA StepExecutor ==
    TypeOK /\ DueInv /\ StopInv /\ PlaceInv /\ OrderInv /\ CurrentInv /\ [Next]_vars
        => [E!Next]_(E!vars)
<1> SUFFICES ASSUME TypeOK, DueInv, StopInv, PlaceInv, OrderInv, CurrentInv, [Next]_vars
             PROVE  E!Next \/ UNCHANGED <<made, stage, service>>
  BY DEF E!vars
<1>1. CASE \E p \in Poster, t \in Task, d \in Delay : MakeItem(p, t, d)
  BY <1>1, MakeItemExecutor DEF E!Next
<1>2. CASE \E p \in Poster : AddTask(p)
  BY <1>2, AddTaskExecutor DEF E!Next
<1>3. CASE StopClear
  BY <1>3, StopClearExecutor DEF E!Next
<1>4. CASE TakeTask
  <2>1. OrderInv'
    BY StepOrder
  <2>2. control = "join" => started' = started
    BY StepNoStart DEF vars
  <2> QED
    BY <1>4, <2>1, <2>2, TakeTaskExecutor DEF E!Next
<1>5. CASE Elsewhere
  BY <1>5, ElsewhereExecutor DEF E!Next
<1> QED
  BY <1>1, <1>2, <1>3, <1>4, <1>5, NextCases

\* The queue implements the executor.
THEOREM QueueImplementsExecutor == Spec => ImplementsExecutor
<1>1. Spec => []TypeOK /\ []DueInv /\ []StopInv /\ []PlaceInv /\ []OrderInv /\ []CurrentInv
  BY InitType, InitStop, InitPlace, InitOrder, InitCurrent,
     StepType, StepStop, StepPlace, StepOrder, StepCurrent, PTL DEF Spec
<1> QED
  BY <1>1, InitExecutor, StepExecutor, PTL DEF Spec, ImplementsExecutor, E!Spec
=============================================================================
