----------------------- MODULE InvokeQueueEngineProofs -----------------------
(***************************************************************************)
(* Proofs about the connections to the engines in InvokeQueue.  For every  *)
(* set of handles, types and windows and all bounds.  In every session     *)
(* before which everything was stopped: the handles that are recorded are  *)
(* held, the pages of a lost engine are sent again, and, while no          *)
(* connection to the broker is lost, a lost engine is on its way back.  In *)
(* every session: the pages are sent again when no handle's value is       *)
(* returned twice, and a connection that works is not closed then without  *)
(* need; while nothing was stopped, no connection is left that is not      *)
(* recorded.                                                               *)
(***************************************************************************)
EXTENDS InvokeQueueProofs

\* What one task does to the library's handles.
ConnMoves ==
    \/ UNCHANGED srpcVars
    \/ \E S : /\ notices' = DestroyNotices(S)
              /\ \/ conn' = Destroyed(S)
                 \/ \E i \in Fresh : conn' = [Destroyed(S) EXCEPT ![i] = "open"]
    \/ \E i \in Fresh : conn' = Opened({i}) /\ notices' = notices

LEMMA TaskMoves ==
    ASSUME NEW task \in Task, NEW ok, Handle(task, ok)
    PROVE  ConnMoves
<1>1. CASE UNCHANGED srpcVars
  BY <1>1 DEF ConnMoves
<1>2. ASSUME NEW t \in EngineType, webInstanceNotify(ok, t) PROVE ConnMoves
  BY <1>1, <1>2 DEF webInstanceNotify, NotifyConnected, NotifyFailed, ConnMoves
<1>3. ASSUME NEW i \in Inst, webContainerError(i) PROVE ConnMoves
  BY <1>3 DEF webContainerError, ConnMoves
<1>4. ASSUME reConnWebContainer(ok) PROVE ConnMoves
  BY <1>1, <1>4 DEF reConnWebContainer, Idle, ConnMoves, srpcVars
<1>5. ASSUME NEW t \in EngineType, stopWebEngine(ok, t) PROVE ConnMoves
  BY <1>1, <1>5 DEF stopWebEngine, Idle, ConnMoves
<1>6. ASSUME NEW t \in EngineType, startWebEngine(ok, t) PROVE ConnMoves
  BY <1>1, <1>6 DEF startWebEngine, Idle
<1>7. ASSUME NEW e, reConnWebEngine(ok, e) PROVE ConnMoves
  BY <1>1, <1>7 DEF reConnWebEngine, Idle
<1>8. ASSUME NEW t \in EngineType, NEW w \in Wnd, loadUrl(ok, t, w) PROVE ConnMoves
  BY <1>1, <1>8 DEF loadUrl, Idle
<1> QED
  BY <1>2, <1>3, <1>4, <1>5, <1>6, <1>7, <1>8, HandleCases

-----------------------------------------------------------------------------
(* Pages.                                                                  *)

\* A handle's life, when its value is not returned again: unused, open, and
\* never open after that.
Ages ==
    \A i \in Inst : /\ conn[i] # "unused" => conn'[i] # "unused"
                    /\ conn'[i] = "open" => conn[i] \in {"open", "unused"}

LEMMA MovesAge ==
    ASSUME TypeOK, ~ReuseHandles, ConnMoves
    PROVE  Ages
<1>1. \A i \in Fresh : conn[i] = "unused" /\ i \in Inst
  BY DEF Fresh
<1>2. CASE UNCHANGED srpcVars
  BY <1>2 DEF Ages, srpcVars
<1>3. ASSUME NEW S, conn' = Destroyed(S) PROVE Ages
  BY <1>3 DEF Ages, Destroyed, Held
<1>4. ASSUME NEW S, NEW i \in Fresh, conn' = [Destroyed(S) EXCEPT ![i] = "open"] PROVE Ages
  BY <1>1, <1>4 DEF Ages, Destroyed, Held
<1>5. ASSUME NEW i \in Fresh, conn' = Opened({i}) PROVE Ages
  BY <1>1, <1>5 DEF Ages, Opened
<1> QED
  BY <1>2, <1>3, <1>4, <1>5 DEF ConnMoves

\* LoadsReplayed of every WebEngine there is, asked for or stopped, because a
\* retry may put a stopped one back into the map.
SentInv ==
    \A e \in DOMAIN engines : engines[e].inst # NULL =>
        /\ conn[engines[e].inst] # "unused"
        /\ conn[engines[e].inst] = "open" => engines[e].wnds \subseteq sent[engines[e].inst]

\* Every WebEngine with a connection had it before, with its windows.
EnginesKept ==
    /\ \A e \in DOMAIN engines' : engines'[e].inst # NULL =>
          /\ e \in DOMAIN engines /\ engines'[e].inst = engines[e].inst
          /\ engines'[e].wnds = engines[e].wnds
    /\ sent' = sent

LEMMA KeptSent ==
    ASSUME TypeOK, SentInv, Ages, EnginesKept
    PROVE  SentInv'
<1>1. \A e \in DOMAIN engines : engines[e].inst # NULL => engines[e].inst \in Inst
  BY EngineFacts DEF Ptr
<1> QED
  BY <1>1 DEF SentInv, Ages, EnginesKept

LEMMA EnginesKeptStay == ASSUME UNCHANGED <<engines, sent>> PROVE EnginesKept
BY DEF EnginesKept

\* The tasks that give no WebEngine a connection and record no page.
LEMMA TaskKeeps ==
    ASSUME TypeOK, NEW task \in Task, task.op \notin {"notify", "load"},
           task \in Retry => task.engine \in DOMAIN engines, NEW ok, Handle(task, ok)
    PROVE  EnginesKept
<1>1. CASE UNCHANGED <<engines, sent>>
  BY <1>1 DEF EnginesKept
<1>2. ASSUME NEW e \in DOMAIN engines, engines' = [engines EXCEPT ![e].inst = NULL],
             sent' = sent
      PROVE  EnginesKept
  <2>1. /\ DOMAIN engines' = DOMAIN engines
        /\ \A k \in DOMAIN engines : k # e => engines'[k] = engines[k]
        /\ engines'[e].inst = NULL
    BY <1>2, SetInst, EngineFacts DEF Ptr
  <2> QED
    BY <1>2, <2>1 DEF EnginesKept
<1>3. ASSUME NEW t \in EngineType, startWebEngine(ok, t) PROVE EnginesKept
  <2>1. CASE engines' = engines
    BY <1>1, <1>3, <2>1 DEF startWebEngine, Idle
  <2>2. CASE engines' = Append(engines, [inst |-> NULL, type |-> t, wnds |-> {}])
    <3> DEFINE r == [inst |-> NULL, type |-> t, wnds |-> {}]
    <3>1. r \in Engine /\ r.inst = NULL
      BY DEF Engine, Ptr
    <3> HIDE DEF r
    <3>2. /\ engines' \in Seq(Engine) /\ Len(engines') = Len(engines) + 1
          /\ \A k \in 1 .. Len(engines) : engines'[k] = engines[k]
          /\ engines'[Len(engines) + 1].inst = NULL
      BY <2>2, <3>1, EngineFacts, AppendProperties DEF r
    <3>3. DOMAIN engines' = 1 .. Len(engines) + 1
      BY <3>2, LenProperties
    <3>4. sent' = sent
      BY <1>3 DEF startWebEngine, Idle
    <3> QED
      BY <3>2, <3>3, <3>4, EngineFacts DEF EnginesKept
  <2> QED
    BY <1>3, <2>1, <2>2 DEF startWebEngine, Idle
<1>4. ASSUME NEW i \in Inst, webContainerError(i) PROVE EnginesKept
  <2>1. sent' = sent /\ \/ engines' = engines
                        \/ \E e \in EnginesOn(i) : engines' = [engines EXCEPT ![e].inst = NULL]
    BY <1>4, ErrorCases
  <2> QED
    BY <1>1, <1>2, <2>1, EnginesOnType
<1>5. ASSUME reConnWebContainer(ok) PROVE EnginesKept
  BY <1>1, <1>5 DEF reConnWebContainer, Idle
<1>6. ASSUME task.engine \in DOMAIN engines, reConnWebEngine(ok, task.engine) PROVE EnginesKept
  BY <1>1, <1>2, <1>6 DEF reConnWebEngine, Idle
<1>7. ASSUME NEW t \in EngineType, stopWebEngine(ok, t) PROVE EnginesKept
  BY <1>1, <1>7 DEF stopWebEngine, Idle
<1> QED
  BY <1>3, <1>4, <1>5, <1>6, <1>7, HandleCases

\* A new connection gets all the pages; its handle was nobody's before.
LEMMA NotifySent ==
    ASSUME TypeOK, SentInv, ~ReuseHandles, NEW t \in EngineType, NEW ok,
           webInstanceNotify(ok, t), Ages
    PROVE  SentInv'
<1>1. CASE UNCHANGED <<engines, sent>>
  BY <1>1, KeptSent DEF EnginesKept
<1>2. ASSUME NEW i \in Fresh, IsRequested(t), NotifyConnected(t, i) PROVE SentInv'
  <2> DEFINE e == requested[t]
  <2>1. /\ e \in DOMAIN engines /\ i \in Inst /\ i # NULL /\ conn[i] = "unused"
        /\ \A k \in DOMAIN engines : engines[k].inst # NULL => engines[k].inst \in Inst
    BY <1>2, EngineFacts, SrpcAssumption DEF Fresh, Ptr
  <2>2. /\ DOMAIN engines' = DOMAIN engines
        /\ \A k \in DOMAIN engines : k # e => engines'[k] = engines[k]
        /\ engines'[e].inst = i /\ engines'[e].wnds = engines[e].wnds
    BY <1>2, <2>1, SetInst, EngineFacts DEF NotifyConnected, Ptr
  <2>3. conn'[i] # "unused" /\ sent' = [sent EXCEPT ![i] = engines[e].wnds]
    <3>1. Destroyed({engines[e].inst}) \in [Inst -> ConnState]
      BY ConnType
    <3>2. conn' = [Destroyed({engines[e].inst}) EXCEPT ![i] = "open"]
      BY <1>2 DEF NotifyConnected
    <3> QED
      BY <1>2, <2>1, <3>1, <3>2 DEF NotifyConnected
  <2>4. sent'[i] = engines[e].wnds /\ \A j \in Inst : j # i => sent'[j] = sent[j]
    BY <2>1, <2>3 DEF TypeOK
  <2> HIDE DEF e
  <2>5. ASSUME NEW k \in DOMAIN engines, k # e, engines[k].inst # NULL
        PROVE  engines[k].inst # i /\ engines[k].inst \in Inst
    BY <2>1, <2>5 DEF SentInv
  <2> QED
    BY <2>2, <2>3, <2>4, <2>5 DEF SentInv, Ages
<1> QED
  BY <1>1, <1>2 DEF webInstanceNotify, NotifyFailed

LEMMA LoadSent ==
    ASSUME TypeOK, SentInv, NEW t \in EngineType, NEW w \in Wnd, NEW ok, loadUrl(ok, t, w)
    PROVE  SentInv'
<1>1. CASE Idle
  BY <1>1 DEF Idle, SentInv, srpcVars
<1>2. CASE ~Idle
  <2> DEFINE e == requested[t]
             i == engines[e].inst
  <2>1. /\ e \in DOMAIN engines /\ i # NULL
        /\ engines' = [engines EXCEPT ![e].wnds = @ \cup {w}]
        /\ sent' = IF conn[i] = "open" THEN [sent EXCEPT ![i] = @ \cup {w}] ELSE sent
        /\ conn' = conn
    BY <1>2, EngineFacts DEF loadUrl, srpcVars
  <2>2. /\ DOMAIN engines' = DOMAIN engines
        /\ \A k \in DOMAIN engines : k # e => engines'[k] = engines[k]
        /\ engines'[e].inst = i /\ engines'[e].wnds = engines[e].wnds \cup {w}
    BY <2>1, AddWnd, EngineFacts
  <2>3. \A k \in DOMAIN engines : engines[k].inst # NULL => engines[k].inst \in Inst
    BY EngineFacts DEF Ptr
  <2>4. i \in Inst /\ sent \in [Inst -> SUBSET Wnd]
    BY <2>1, <2>3 DEF TypeOK
  <2> HIDE DEF e, i
  <2>5. /\ \A j \in Inst : sent[j] \subseteq sent'[j]
        /\ conn[i] = "open" => sent'[i] = sent[i] \cup {w}
    BY <2>1, <2>4
  <2>6. SentInv => (conn[i] = "open" => engines[e].wnds \subseteq sent[i])
                   /\ conn[i] # "unused"
    BY <2>1 DEF SentInv, i
  <2> QED
    BY <2>1, <2>2, <2>3, <2>5, <2>6 DEF SentInv
<1> QED
  BY <1>1, <1>2

\* A step that runs no task.
LEMMA OtherAges ==
    ASSUME TypeOK, ~ReuseHandles, Posts \/ Controls \/ Environment \/ Expire
    PROVE  Ages /\ UNCHANGED <<engines, sent>>
<1>1. conn' = conn => Ages
  BY DEF Ages
<1>2. CASE Posts
  BY <1>1, <1>2, PostsPost DEF PostsOne
<1>3. CASE Expire
  BY <1>1, <1>3 DEF Expire, srpcVars, state
<1>4. CASE Environment
  <2>1. conn' = conn \/ \E i \in Inst : Lose(i)
    BY <1>4, Unchanged DEF Environment, BrokerIgnores, ContainerDies, EngineDies, srpcVars, Ptr
  <2>2. ASSUME NEW i \in Inst, Lose(i) PROVE Ages
    BY <2>2, Unchanged DEF Lose, Ages
  <2>3. UNCHANGED state
    BY <1>4 DEF Environment, BrokerIgnores, ContainerDies, EngineDies
  <2> QED
    BY <1>1, <2>1, <2>2, <2>3 DEF state
<1>5. CASE Controls
  <2>1. UNCHANGED <<engines, sent>>
    BY <1>5 DEF Controls, InitAgain, InitIPC, QueueStart, InitDone, Uninitialize, StopClear,
       UninitIPC, UninitSRPCLib, state
  <2>2. \/ conn' = conn
        \/ \E i \in Fresh : conn' = Opened({i})
        \/ \E S : conn' = Destroyed(S)
    BY <1>5 DEF Controls, InitAgain, InitIPC, QueueStart, InitDone, Uninitialize, StopClear,
       UninitIPC, UninitSRPCLib, state, srpcVars
  <2>3. ASSUME NEW i \in Fresh, conn' = Opened({i}) PROVE Ages
    BY <2>3 DEF Ages, Opened, Fresh
  <2>4. ASSUME NEW S, conn' = Destroyed(S) PROVE Ages
    BY <2>4 DEF Ages, Destroyed, Held
  <2> QED
    BY <1>1, <2>1, <2>2, <2>3, <2>4
<1> QED
  BY <1>2, <1>3, <1>4, <1>5

LEMMA RunSent ==
    ASSUME TypeOK, SentInv, ~ReuseHandles, NEW task \in Task, NEW ok, Handle(task, ok),
           task \in Retry => task.engine \in DOMAIN engines
    PROVE  SentInv'
<1>1. Ages
  BY TaskMoves, MovesAge
<1>2. CASE task.op = "notify"
  BY <1>1, <1>2, HandleCases, NotifySent
<1>3. CASE task.op = "load"
  BY <1>3, HandleCases, LoadSent
<1>4. CASE task.op \notin {"notify", "load"}
  BY <1>1, <1>4, TaskKeeps, KeptSent
<1> QED
  BY <1>2, <1>3, <1>4

LEMMA StepSent ==
    ASSUME ~ReuseHandles
    PROVE  TypeOK /\ SentInv /\ [Next]_vars => SentInv'
<1> SUFFICES ASSUME TypeOK, SentInv, [Next]_vars PROVE SentInv'
  OBVIOUS
<1>1. CASE UNCHANGED vars
  BY <1>1 DEF vars, state, srpcVars, SentInv
<1>2. CASE Posts \/ Controls \/ Environment \/ Expire
  BY <1>2, OtherAges, KeptSent, EnginesKeptStay
<1>3. CASE Worker
  BY <1>3, WorkerRuns, RunSent DEF Worker
<1>4. CASE LateTask
  <2>1. late \in Task /\ (late \in Retry => late.engine \in DOMAIN engines)
    BY <1>4 DEF LateTask, TypeOK
  <2> QED
    BY <1>4, <2>1, RunSent DEF LateTask
<1> QED
  BY <1>1, <1>2, <1>3, <1>4, NextCases

\* An engine that takes the place of a lost one has been sent every page that
\* is recorded for the lost one's windows, in any session, if sRPC does not
\* return the value of a destroyed handle again.
THEOREM PagesSentAgain ==
    ASSUME ~ReuseHandles
    PROVE  Spec => []LoadsReplayed
<1>1. Init => SentInv
  BY DEF Init, SentInv
<1>2. TypeOK /\ SentInv => LoadsReplayed
  BY EngineFacts DEF SentInv, LoadsReplayed, EngineOf
<1>3. Spec => [](TypeOK /\ InitInv /\ SentInv)
  BY <1>1, InitType, StepType, StepSent, PTL DEF Spec
<1> QED
  BY <1>2, <1>3, PTL

-----------------------------------------------------------------------------
(* Handles.                                                                *)

\* The handle recorded for each type that is asked for.
Current == [u \in EngineType |-> IF requested[u] # NoEngine THEN engines[requested[u]].inst
                                                            ELSE NULL]

\* The WebEngine recorded for a type is of that type, so that no two types
\* share one.
TypedInv == \A t \in EngineType : requested[t] # NoEngine => engines[requested[t]].type = t

\* The handles that are recorded are held, and each has one use.
ApartInv ==
    /\ instWC # NULL => Held(instWC)
    /\ \A u \in EngineType : Current[u] # NULL => Held(Current[u]) /\ Current[u] # instWC
    /\ \A t, u \in EngineType : t # u /\ Current[t] # NULL => Current[t] # Current[u]

LEMMA CurrentFacts ==
    ASSUME TypeOK
    PROVE  \A u \in EngineType :
              /\ Current[u] \in Ptr
              /\ requested[u] # NoEngine => /\ requested[u] \in DOMAIN engines
                                            /\ Current[u] = engines[requested[u]].inst
              /\ requested[u] = NoEngine => Current[u] = NULL
BY EngineFacts DEF Current, IsRequested, Ptr

\* Setting the handle of one WebEngine.
LEMMA SetCurrent ==
    ASSUME TypeOK, TypedInv, NEW e \in DOMAIN engines, NEW x \in Ptr,
           engines' = [engines EXCEPT ![e].inst = x], requested' = requested
    PROVE  /\ TypedInv'
           /\ \A u \in EngineType : Current'[u] = IF requested[u] = e THEN x ELSE Current[u]
<1>1. /\ \A k \in DOMAIN engines : k # e => engines'[k] = engines[k]
      /\ engines'[e].inst = x /\ engines'[e].type = engines[e].type
  BY SetInst, EngineFacts
<1>2. \A u \in EngineType : requested[u] # NoEngine => requested[u] \in DOMAIN engines
  BY CurrentFacts
<1>3. TypedInv'
  BY <1>1, <1>2 DEF TypedInv
<1>4. e # NoEngine
  BY EngineFacts
<1> QED
  BY <1>1, <1>2, <1>3, <1>4 DEF Current

\* The map is as it was for the types other than t.
KeepsOthers(t) ==
    \A u \in EngineType : u # t => requested'[u] = requested[u] /\ Current'[u] = Current[u]

\* The tasks that record no new handle: what is left of the map.
Shrinks ==
    /\ TypedInv'
    /\ \A u \in EngineType : Current'[u] # NULL => Current'[u] = Current[u]

LEMMA StayShrinks ==
    ASSUME TypedInv, UNCHANGED <<engines, requested>>
    PROVE  Shrinks /\ Current' = Current
BY DEF Shrinks, TypedInv, Current

LEMMA StartShrinks ==
    ASSUME TypeOK, TypedInv, NEW t \in EngineType, NEW ok, startWebEngine(ok, t)
    PROVE  Shrinks /\ KeepsOthers(t)
<1>1. CASE UNCHANGED <<engines, requested>>
  BY <1>1, StayShrinks DEF KeepsOthers
<1>2. CASE /\ engines' = Append(engines, [inst |-> NULL, type |-> t, wnds |-> {}])
           /\ requested' = [requested EXCEPT ![t] = Len(engines')]
  <2> DEFINE r == [inst |-> NULL, type |-> t, wnds |-> {}]
  <2>1. r \in Engine /\ r.inst = NULL /\ r.type = t
    BY DEF Engine, Ptr
  <2> HIDE DEF r
  <2>2. /\ Len(engines') = Len(engines) + 1
        /\ \A k \in DOMAIN engines : engines'[k] = engines[k]
        /\ engines'[Len(engines) + 1].inst = NULL /\ engines'[Len(engines) + 1].type = t
    BY <1>2, <2>1, EngineFacts, AppendProperties DEF r
  <2>3. /\ requested'[t] = Len(engines) + 1
        /\ \A u \in EngineType : u # t => requested'[u] = requested[u]
    BY <1>2, <2>2 DEF TypeOK
  <2>4. TypedInv'
    BY <2>2, <2>3, CurrentFacts DEF TypedInv
  <2>5. Current'[t] = NULL
    BY <2>2, <2>3, CurrentFacts DEF Current
  <2>6. KeepsOthers(t)
    BY <2>2, <2>3, CurrentFacts DEF Current, KeepsOthers
  <2> QED
    BY <2>4, <2>5, <2>6 DEF Shrinks, KeepsOthers
<1> QED
  BY <1>1, <1>2 DEF startWebEngine, Idle

LEMMA ReConnShrinks ==
    ASSUME TypeOK, TypedInv, NEW e \in DOMAIN engines, NEW ok, reConnWebEngine(ok, e)
    PROVE  Shrinks /\ KeepsOthers(engines[e].type)
<1>1. CASE UNCHANGED <<engines, requested>>
  BY <1>1, StayShrinks DEF KeepsOthers
<1>2. CASE /\ engines' = [engines EXCEPT ![e].inst = NULL]
           /\ requested' = [requested EXCEPT ![engines[e].type] = e]
  <2>1. /\ \A k \in DOMAIN engines : k # e => engines'[k] = engines[k]
        /\ engines'[e].inst = NULL /\ engines'[e].type = engines[e].type
    BY <1>2, SetInst, EngineFacts DEF Ptr
  <2>2. /\ requested'[engines[e].type] = e /\ engines[e].type \in EngineType
        /\ \A u \in EngineType : u # engines[e].type => requested'[u] = requested[u]
    BY <1>2, EngineFacts DEF TypeOK
  <2>3. TypedInv'
    BY <2>1, <2>2, CurrentFacts DEF TypedInv
  <2>4. Current'[engines[e].type] = NULL
    BY <2>1, <2>2, CurrentFacts DEF Current
  <2>5. ASSUME NEW u \in EngineType, u # engines[e].type PROVE Current'[u] = Current[u]
    <3>1. requested'[u] = requested[u] /\ requested[u] # e
      BY <2>2, <2>5, EngineFacts DEF TypedInv
    <3>2. requested[u] # NoEngine => engines'[requested[u]] = engines[requested[u]]
      BY <2>1, <3>1, CurrentFacts
    <3> QED
      BY <3>1, <3>2 DEF Current
  <2>6. KeepsOthers(engines[e].type)
    BY <2>2, <2>5 DEF KeepsOthers
  <2> QED
    BY <2>3, <2>4, <2>6 DEF Shrinks, KeepsOthers
<1> QED
  BY <1>1, <1>2 DEF reConnWebEngine, Idle

LEMMA LoadShrinks ==
    ASSUME TypeOK, TypedInv, NEW t \in EngineType, NEW w \in Wnd, NEW ok, loadUrl(ok, t, w)
    PROVE  Shrinks /\ \A u \in EngineType : Current'[u] = Current[u]
<1>1. CASE UNCHANGED <<engines, requested>>
  BY <1>1, StayShrinks
<1>2. CASE /\ requested[t] # NoEngine /\ requested' = requested
           /\ engines' = [engines EXCEPT ![requested[t]].wnds = @ \cup {w}]
  <2> DEFINE e == requested[t]
  <2>1. e \in DOMAIN engines
    BY <1>2, CurrentFacts
  <2>2. /\ \A k \in DOMAIN engines : k # e => engines'[k] = engines[k]
        /\ engines'[e].inst = engines[e].inst /\ engines'[e].type = engines[e].type
    BY <1>2, <2>1, AddWnd, EngineFacts
  <2> HIDE DEF e
  <2>3. TypedInv'
    BY <1>2, <2>2, CurrentFacts DEF TypedInv
  <2>4. \A u \in EngineType : Current'[u] = Current[u]
    BY <1>2, <2>2, CurrentFacts DEF Current
  <2> QED
    BY <2>3, <2>4 DEF Shrinks
<1> QED
  BY <1>1, <1>2 DEF loadUrl, Idle, IsRequested

\* A step that destroys the handles in S, and records no new ones.
LEMMA ShrinkApart ==
    ASSUME TypeOK, ApartInv, Shrinks, NEW S, conn' = Destroyed(S),
           instWC' = NULL \/ (instWC' = instWC /\ instWC \notin S),
           \A u \in EngineType : Current'[u] # NULL => Current'[u] \notin S
    PROVE  ApartInv'
<1>1. \A i \in Inst \ S : Held(i) => conn'[i] \in {"open", "lost"}
  BY DEF Destroyed, Held
<1>2. instWC # NULL => instWC \in Inst
  BY Unchanged DEF Ptr
<1>3. \A u \in EngineType : Current[u] # NULL => Current[u] \in Inst
  BY CurrentFacts DEF Ptr
<1> HIDE DEF Destroyed
<1>4. instWC' # NULL => conn'[instWC'] \in {"open", "lost"}
  BY <1>1, <1>2 DEF ApartInv
<1>5. \A u \in EngineType : Current'[u] # NULL =>
          /\ conn'[Current'[u]] \in {"open", "lost"}
          /\ Current'[u] # instWC'
  BY <1>1, <1>3 DEF ApartInv, Shrinks
<1>6. \A t, u \in EngineType : t # u /\ Current'[t] # NULL => Current'[t] # Current'[u]
  BY DEF ApartInv, Shrinks
<1> QED
  BY <1>4, <1>5, <1>6 DEF ApartInv, Held

LEMMA QuietApart ==
    ASSUME TypeOK, ApartInv, Shrinks, UNCHANGED <<instWC, conn>>
    PROVE  ApartInv'
<1>1. Destroyed({}) = conn
  BY Unchanged DEF Destroyed
<1> HIDE DEF Destroyed
<1> QED
  BY <1>1, ShrinkApart

\* The tasks that destroy or create a connection.
LEMMA ErrorApart ==
    ASSUME TypeOK, TypedInv, ApartInv, NEW i \in Inst, webContainerError(i)
    PROVE  TypedInv' /\ ApartInv'
<1>1. conn' = Destroyed({i}) /\ requested' = requested
  BY DEF webContainerError
<1>2. CASE i = instWC /\ instWC' = NULL /\ UNCHANGED engines
  <2>1. Shrinks
    BY <1>1, <1>2, StayShrinks
  <2>2. \A u \in EngineType : Current'[u] # NULL => Current'[u] \notin {i}
    BY <1>2, <2>1 DEF ApartInv, Shrinks
  <2> QED
    BY <1>1, <1>2, <2>1, <2>2, ShrinkApart DEF Shrinks
<1>3. ASSUME NEW e \in EnginesOn(i), i # instWC, instWC' = instWC,
             engines' = [engines EXCEPT ![e].inst = NULL]
      PROVE  TypedInv' /\ ApartInv'
  <2>1. PICK t \in EngineType : requested[t] = e /\ e \in DOMAIN engines
                                /\ engines[e].inst = i /\ e # NoEngine
    BY EnginesOnType DEF IsRequested
  <2>2. /\ TypedInv'
        /\ \A u \in EngineType : Current'[u] = IF requested[u] = e THEN NULL ELSE Current[u]
    BY <1>1, <1>3, <2>1, SetCurrent DEF Ptr
  <2>3. Current[t] = i /\ i # NULL
    BY <2>1, CurrentFacts, SrpcAssumption
  <2>4. \A u \in EngineType : Current'[u] # NULL => u # t /\ Current'[u] = Current[u]
    BY <2>1, <2>2
  <2>5. \A u \in EngineType : Current'[u] # NULL => Current'[u] \notin {i}
    BY <2>3, <2>4 DEF ApartInv
  <2>6. Shrinks
    BY <2>2, <2>4 DEF Shrinks
  <2> QED
    BY <1>1, <1>3, <2>2, <2>5, <2>6, ShrinkApart
<1>4. CASE i # instWC /\ EnginesOn(i) = {} /\ UNCHANGED <<instWC, engines>>
  <2>1. Shrinks
    BY <1>1, <1>4, StayShrinks
  <2>2. \A u \in EngineType : Current[u] # i
    BY <1>4, SrpcAssumption DEF Current, EnginesOn
  <2>3. \A u \in EngineType : Current'[u] # NULL => Current'[u] \notin {i}
    BY <2>1, <2>2 DEF Shrinks
  <2> QED
    BY <1>1, <1>4, <2>1, <2>3, ShrinkApart DEF Shrinks
<1> QED
  BY <1>2, <1>3, <1>4, ErrorCases

LEMMA StopApart ==
    ASSUME TypeOK, TypedInv, ApartInv, NEW t \in EngineType, NEW ok, stopWebEngine(ok, t)
    PROVE  TypedInv' /\ ApartInv' /\ KeepsOthers(t)
<1>1. CASE UNCHANGED <<engines, requested, instWC, conn>>
  BY <1>1, StayShrinks, QuietApart DEF Shrinks, KeepsOthers
<1>2. CASE /\ requested[t] # NoEngine /\ conn' = Destroyed({engines[requested[t]].inst})
           /\ requested' = [requested EXCEPT ![t] = NoEngine]
           /\ UNCHANGED <<instWC, engines>>
  <2> DEFINE i == Current[t]
  <2>1. conn' = Destroyed({i})
    BY <1>2, CurrentFacts
  <2>2. requested'[t] = NoEngine /\ \A u \in EngineType : u # t => requested'[u] = requested[u]
    BY <1>2 DEF TypeOK
  <2>3. TypedInv'
    BY <1>2, <2>2 DEF TypedInv
  <2>4. Current'[t] = NULL /\ \A u \in EngineType : u # t => Current'[u] = Current[u]
    BY <1>2, <2>2 DEF Current
  <2>5. Shrinks
    BY <2>3, <2>4 DEF Shrinks
  <2>6. \A u \in EngineType : Current'[u] # NULL => Current'[u] \notin {i}
    BY <2>4 DEF ApartInv
  <2>7. instWC' = NULL \/ (instWC' = instWC /\ instWC \notin {i})
    BY <1>2 DEF ApartInv
  <2>8. KeepsOthers(t)
    BY <2>2, <2>4 DEF KeepsOthers
  <2> HIDE DEF i
  <2> QED
    BY <2>1, <2>3, <2>5, <2>6, <2>7, <2>8, ShrinkApart
<1> QED
  BY <1>1, <1>2 DEF stopWebEngine, Idle, srpcVars, IsRequested

LEMMA ConnectApart ==
    ASSUME TypeOK, TypedInv, ApartInv, NEW t \in EngineType, requested[t] # NoEngine,
           NEW i \in Fresh, NotifyConnected(t, i)
    PROVE  /\ TypedInv' /\ ApartInv'
           /\ Current'[t] = i /\ conn'[i] = "open" /\ KeepsOthers(t)
<1> DEFINE old == Current[t]
<1>1. /\ i \in Inst /\ i \in Ptr /\ i # NULL /\ ~Held(i)
      /\ requested[t] \in DOMAIN engines
      /\ engines' = [engines EXCEPT ![requested[t]].inst = i]
      /\ requested' = requested /\ instWC' = instWC
      /\ conn' = [Destroyed({old}) EXCEPT ![i] = "open"]
  BY CurrentFacts, SrpcAssumption DEF NotifyConnected, Fresh, Held, Ptr
<1>2. /\ TypedInv'
      /\ \A u \in EngineType : Current'[u] = IF requested[u] = requested[t] THEN i ELSE Current[u]
  BY <1>1, SetCurrent
<1>3. \A u \in EngineType : u # t /\ requested[u] # NoEngine => requested[u] # requested[t]
  BY DEF TypedInv
<1>4. Current'[t] = i /\ \A u \in EngineType : u # t => Current'[u] = Current[u]
  <2>1. ASSUME NEW u \in EngineType, u # t, requested[u] = NoEngine
        PROVE  requested[u] # requested[t]
    BY <2>1
  <2> QED
    BY <1>2, <1>3, <2>1
<1>5. \A j \in Inst : j # i => conn'[j] = Destroyed({old})[j]
  BY <1>1, ConnType
<1>6. conn'[i] = "open"
  <2>1. Destroyed({old}) \in [Inst -> ConnState]
    BY ConnType
  <2> QED
    BY <1>1, <2>1
<1>7. \A j \in Inst : Held(j) /\ j # old => conn'[j] \in {"open", "lost"}
  BY <1>1, <1>5 DEF Destroyed, Held
<1>8. (instWC # NULL => instWC \in Inst)
      /\ \A u \in EngineType : Current[u] # NULL => Current[u] \in Inst
  BY CurrentFacts, Unchanged DEF Ptr
<1>9. instWC # NULL => Held(instWC) /\ instWC # old /\ instWC # i
  BY <1>1 DEF ApartInv
<1>10. \A u \in EngineType : u # t /\ Current[u] # NULL =>
          Held(Current[u]) /\ Current[u] # old /\ Current[u] # i /\ Current[u] # instWC
  BY <1>1 DEF ApartInv
<1> HIDE DEF old
<1>11. instWC' # NULL => conn'[instWC'] \in {"open", "lost"}
  BY <1>1, <1>7, <1>8, <1>9
<1>12. \A u \in EngineType : Current'[u] # NULL =>
          conn'[Current'[u]] \in {"open", "lost"} /\ Current'[u] # instWC'
  <2>1. ASSUME NEW u \in EngineType, u # t, Current[u] # NULL
        PROVE  conn'[Current[u]] \in {"open", "lost"} /\ Current[u] # instWC
    BY <1>7, <1>8, <1>10, <2>1
  <2> QED
    BY <1>1, <1>4, <1>6, <1>9, <2>1
<1>13. \A u, v \in EngineType : u # v /\ Current'[u] # NULL => Current'[u] # Current'[v]
  BY <1>1, <1>4, <1>10 DEF ApartInv
<1>14. KeepsOthers(t)
  BY <1>1, <1>4 DEF KeepsOthers
<1> QED
  BY <1>2, <1>4, <1>6, <1>11, <1>12, <1>13, <1>14 DEF ApartInv, Held

LEMMA ContainerApart ==
    ASSUME TypeOK, TypedInv, ApartInv, NEW i \in Fresh, instWC' = i, conn' = Opened({i}),
           UNCHANGED <<engines, requested>>
    PROVE  TypedInv' /\ ApartInv'
<1>1. i \in Inst /\ ~Held(i)
  BY DEF Fresh, Held
<1>2. /\ conn'[i] = "open"
      /\ \A j \in Inst : Held(j) => conn'[j] \in {"open", "lost"}
  BY <1>1 DEF Opened, Held
<1>3. Shrinks
  BY StayShrinks
<1>4. \A u \in EngineType : Current[u] # NULL => Current[u] \in Inst
  BY CurrentFacts DEF Ptr
<1>5. \A u \in EngineType : Current'[u] # NULL =>
          conn'[Current'[u]] \in {"open", "lost"} /\ Current'[u] # i
  BY <1>1, <1>2, <1>3, <1>4 DEF ApartInv, Shrinks
<1>6. \A u, v \in EngineType : u # v /\ Current'[u] # NULL => Current'[u] # Current'[v]
  BY <1>3 DEF ApartInv, Shrinks
<1> QED
  BY <1>2, <1>3, <1>5, <1>6 DEF ApartInv, Held, Shrinks

LEMMA TaskApart ==
    ASSUME TypeOK, TypedInv, ApartInv, NEW task \in Task, NEW ok, Handle(task, ok),
           task \in Retry => task.engine \in DOMAIN engines
    PROVE  TypedInv' /\ ApartInv'
<1>1. CASE UNCHANGED <<engines, requested, instWC, conn>>
  BY <1>1, StayShrinks, QuietApart DEF Shrinks
<1>2. ASSUME NEW t \in EngineType, startWebEngine(ok, t) PROVE TypedInv' /\ ApartInv'
  <2>1. UNCHANGED <<instWC, conn>>
    BY <1>2 DEF startWebEngine, Idle, srpcVars
  <2> QED
    BY <1>2, <2>1, StartShrinks, QuietApart DEF Shrinks
<1>3. ASSUME NEW t \in EngineType, webInstanceNotify(ok, t) PROVE TypedInv' /\ ApartInv'
  BY <1>1, <1>3, ConnectApart DEF webInstanceNotify, NotifyFailed, srpcVars, IsRequested
<1>4. ASSUME reConnWebContainer(ok) PROVE TypedInv' /\ ApartInv'
  BY <1>1, <1>4, ContainerApart DEF reConnWebContainer, Idle, srpcVars
<1>5. ASSUME task.engine \in DOMAIN engines, reConnWebEngine(ok, task.engine)
      PROVE  TypedInv' /\ ApartInv'
  <2>1. UNCHANGED <<instWC, conn>>
    BY <1>5 DEF reConnWebEngine, Idle, srpcVars
  <2> QED
    BY <1>5, <2>1, ReConnShrinks, QuietApart DEF Shrinks
<1>6. ASSUME NEW t \in EngineType, NEW w \in Wnd, loadUrl(ok, t, w)
      PROVE  TypedInv' /\ ApartInv'
  <2>1. UNCHANGED <<instWC, conn>>
    BY <1>6 DEF loadUrl, Idle, srpcVars
  <2> QED
    BY <1>6, <2>1, LoadShrinks, QuietApart DEF Shrinks
<1> QED
  BY <1>2, <1>3, <1>4, <1>5, <1>6, ErrorApart, StopApart, HandleCases

\* Until a session is up no engine is recorded: StoppedFirst says so of the
\* last one, and a task that runs before InitDone does nothing.
NoneRequested == \A t \in EngineType : requested[t] = NoEngine
SessionInv ==
    /\ ctl \in {"down", "ipc", "queue", "lib"} => NoneRequested
    /\ ctl # "down" => ApartInv
    /\ TypedInv

\* A session begins.
LEMMA InitApart ==
    ASSUME TypeOK, TypedInv, NoneRequested, InitIPC
    PROVE  TypedInv' /\ (ctl' # "down" => ApartInv')
<1>1. UNCHANGED <<engines, requested>>
  BY DEF InitIPC
<1>2. ASSUME NEW i \in Fresh, instWC' = i, conn' = Opened({i}) PROVE ApartInv'
  <2>1. instWC' # NULL /\ conn'[instWC'] = "open"
    BY <1>2, SrpcAssumption DEF Opened, Fresh
  <2>2. \A u \in EngineType : Current'[u] = NULL
    BY <1>1 DEF Current, NoneRequested
  <2> QED
    BY <2>1, <2>2 DEF ApartInv, Held
<1>3. ctl' = "down" \/ \E i \in Fresh : instWC' = i /\ conn' = Opened({i})
  BY DEF InitIPC
<1> QED
  BY <1>1, <1>2, <1>3 DEF TypedInv

\* The steps that run no task.
LEMMA KeptApart ==
    ASSUME ApartInv, TypedInv, UNCHANGED <<engines, requested, instWC>>, TypeOK,
           \A i \in Inst : Held(i) => conn'[i] \in {"open", "lost"}
    PROVE  ApartInv' /\ TypedInv'
<1>1. Current' = Current
  BY DEF Current
<1>2. /\ instWC # NULL => instWC \in Inst
      /\ \A u \in EngineType : Current[u] # NULL => Current[u] \in Inst
  BY CurrentFacts, Unchanged DEF Ptr
<1> QED
  BY <1>1, <1>2 DEF ApartInv, TypedInv, Held

LEMMA OtherApart ==
    ASSUME TypeOK, TypedInv, ApartInv, Posts \/ Controls \/ Environment \/ Expire,
           ctl # "down", ctl' # "down"
    PROVE  ApartInv' /\ TypedInv'
<1>1. UNCHANGED <<engines, requested, instWC, conn>> => ApartInv' /\ TypedInv'
  BY KeptApart DEF Held
<1>2. CASE Posts
  BY <1>1, <1>2, PostsPost DEF PostsOne
<1>3. CASE Expire
  BY <1>1, <1>3 DEF Expire, srpcVars, state
<1>4. CASE Environment
  <2>1. UNCHANGED state
    BY <1>4 DEF Environment, BrokerIgnores, ContainerDies, EngineDies
  <2>2. conn' = conn \/ \E i \in Inst : Lose(i)
    BY <1>4, Unchanged DEF Environment, BrokerIgnores, ContainerDies, EngineDies, srpcVars, Ptr
  <2>3. \A i \in Inst : Held(i) => conn'[i] \in {"open", "lost"}
    BY <2>2, Unchanged DEF Lose, Held
  <2> QED
    BY <2>1, <2>3, KeptApart DEF state
<1>5. CASE UninitIPC
  <2>1. /\ conn' = Destroyed({instWC}) /\ instWC' = NULL /\ UNCHANGED <<engines, requested>>
    BY <1>5 DEF UninitIPC
  <2>2. Shrinks
    BY <2>1, StayShrinks
  <2>3. \A u \in EngineType : Current'[u] # NULL => Current'[u] \notin {instWC}
    BY <2>2 DEF Shrinks, ApartInv
  <2> QED
    BY <2>1, <2>2, <2>3, ShrinkApart DEF Shrinks
<1>6. CASE Controls /\ ~UninitIPC
  BY <1>1, <1>6 DEF Controls, InitAgain, InitIPC, QueueStart, InitDone, Uninitialize, StopClear,
     UninitSRPCLib, state, srpcVars
<1> QED
  BY <1>2, <1>3, <1>4, <1>5, <1>6

\* A task that runs before m_initialized is set leaves the map alone.
LEMMA EarlyTask ==
    ASSUME NEW task \in Task, Handle(task, FALSE)
    PROVE  requested' = requested
BY HandleCases DEF startWebEngine, webInstanceNotify, webContainerError, reConnWebContainer,
   reConnWebEngine, stopWebEngine, loadUrl, Idle

LEMMA StepNone ==
    ASSUME TypeOK, InitInv, [Next]_vars, StoppedFirst',
           ctl \in {"down", "ipc", "queue", "lib"} => NoneRequested,
           ctl' \in {"down", "ipc", "queue", "lib"}
    PROVE  NoneRequested'
<1>1. CASE ctl' = "lib"
  BY <1>1 DEF StoppedFirst, IsRequested, NoneRequested
<1>2. CASE ctl' # "lib" /\ (Posts \/ Environment \/ Expire \/ UNCHANGED vars)
  BY <1>2, PostsPost DEF PostsOne, Environment, BrokerIgnores, ContainerDies, EngineDies, Expire,
     vars, state, NoneRequested
<1>3. CASE ctl' # "lib" /\ Controls
  BY <1>3 DEF Controls, InitAgain, InitIPC, QueueStart, InitDone, Uninitialize, StopClear,
     UninitIPC, UninitSRPCLib, state, NoneRequested
<1>4. CASE ctl' # "lib" /\ Worker
  <2>1. ctl = "queue" /\ initialized = 0
    BY <1>4 DEF Worker, InitInv
  <2>2. Handle(Head(queue), FALSE) /\ Head(queue) \in Task
    BY <1>4, <2>1, WorkerRuns DEF Worker
  <2> QED
    BY <2>1, <2>2, EarlyTask DEF NoneRequested
<1>5. ~LateTask
  BY DEF LateTask
<1> QED
  BY <1>1, <1>2, <1>3, <1>4, <1>5, NextCases

LEMMA RunApart ==
    ASSUME TypeOK, TypedInv, ApartInv, Worker \/ LateTask
    PROVE  TypedInv' /\ ApartInv'
<1>1. CASE Worker
  BY <1>1, WorkerRuns, TaskApart DEF Worker
<1>2. CASE LateTask
  <2>1. late \in Task /\ (late \in Retry => late.engine \in DOMAIN engines)
    BY <1>2 DEF LateTask, TypeOK
  <2> QED
    BY <1>2, <2>1, TaskApart DEF LateTask
<1> QED
  BY <1>1, <1>2

LEMMA StepSession == TypeOK /\ InitInv /\ SessionInv /\ StoppedFirst' /\ [Next]_vars => SessionInv'
<1> SUFFICES ASSUME TypeOK, InitInv, SessionInv, StoppedFirst', [Next]_vars PROVE SessionInv'
  OBVIOUS
<1>1. ctl' \in {"down", "ipc", "queue", "lib"} => NoneRequested'
  BY StepNone DEF SessionInv
<1>2. SUFFICES TypedInv' /\ (ctl' # "down" => ApartInv')
  BY <1>1 DEF SessionInv
<1>3. CASE UNCHANGED vars
  BY <1>3 DEF vars, state, srpcVars, SessionInv, ApartInv, TypedInv, Current, Held
<1>4. CASE InitIPC
  BY <1>4, InitApart DEF InitIPC, SessionInv
<1>5. CASE Worker \/ LateTask
  BY <1>5, RunApart DEF Worker, LateTask, SessionInv
<1>6. CASE (Posts \/ Controls \/ Environment \/ Expire) /\ ~InitIPC
  <2>1. UNCHANGED <<engines, requested>>
    BY <1>6, PostsPost DEF PostsOne, Controls, InitAgain, QueueStart, InitDone, Uninitialize,
       StopClear, UninitIPC, UninitSRPCLib, Environment, BrokerIgnores, ContainerDies,
       EngineDies, Expire, state
  <2>2. TypedInv'
    BY <2>1 DEF SessionInv, TypedInv
  <2>3. CASE ctl = "down"
    <3>1. ctl' = "down"
      BY <1>6, <2>3, PostsPost DEF PostsOne, Controls, InitAgain, QueueStart, InitDone,
         Uninitialize, StopClear, UninitIPC, UninitSRPCLib, Environment, BrokerIgnores,
         ContainerDies, EngineDies, Expire
    <3> QED
      BY <2>2, <3>1
  <2>4. CASE ctl # "down"
    BY <1>6, <2>2, <2>4, OtherApart DEF SessionInv
  <2> QED
    BY <2>3, <2>4
<1> QED
  BY <1>3, <1>4, <1>5, <1>6, NextCases

LEMMA InitSession == Init => SessionInv
<1> SUFFICES ASSUME Init PROVE SessionInv
  OBVIOUS
<1>1. ctl = "down" /\ \A t \in EngineType : requested[t] = NoEngine
  BY DEF Init
<1> QED
  BY <1>1 DEF SessionInv, TypedInv, NoneRequested

\* In every session, when what was started is stopped before the last Uninit:
\* the handle recorded for an engine that is asked for is one the library
\* holds, whatever is stopped, lost or retried, whatever tasks and reports the
\* last session left, and whichever values sRPC returns again.  A process that
\* never gets to SRPC_Uninit has nothing to stop.
THEOREM RecordedIsHeld == Spec /\ []StoppedFirst => []HeldNotClosed
<1>1. TypeOK /\ SessionInv => HeldNotClosed
  BY CurrentFacts DEF SessionInv, ApartInv, HeldNotClosed, EngineOf, IsRequested
<1>2. Spec /\ []StoppedFirst => [](TypeOK /\ InitInv /\ SessionInv)
  BY InitType, StepType, InitSession, StepSession, PTL DEF Spec
<1> QED
  BY <1>1, <1>2, PTL

\* The pages of the recorded engines, when the value of a destroyed handle may
\* be returned: what is recorded is held, so that nothing else is sent on it.
Replayed == {u \in EngineType :
                requested[u] # NoEngine /\ Current[u] # NULL /\ conn[Current[u]] = "open" =>
                    engines[requested[u]].wnds \subseteq sent[Current[u]]}

\* No lost handle comes back to life.
StaysLost == \A i \in Inst : Held(i) /\ conn'[i] = "open" => conn[i] = "open"

LEMMA MovesLost == ASSUME TypeOK, ConnMoves PROVE StaysLost
<1>1. \A i \in Fresh : ~Held(i) /\ i \in Inst
  BY DEF Fresh, Held
<1>2. CASE UNCHANGED srpcVars
  BY <1>2 DEF StaysLost, srpcVars
<1>3. ASSUME NEW S, conn' = Destroyed(S) PROVE StaysLost
  BY <1>3 DEF StaysLost, Destroyed, Held
<1>4. ASSUME NEW S, NEW i \in Fresh, conn' = [Destroyed(S) EXCEPT ![i] = "open"] PROVE StaysLost
  BY <1>1, <1>4 DEF StaysLost, Destroyed, Held
<1>5. ASSUME NEW i \in Fresh, conn' = Opened({i}) PROVE StaysLost
  BY <1>1, <1>5 DEF StaysLost, Opened
<1> QED
  BY <1>2, <1>3, <1>4, <1>5 DEF ConnMoves

\* A step that records no new handle and no page.
LEMMA KeptReplayed ==
    ASSUME TypeOK, TypeOK', ApartInv, Shrinks, EnginesKept, StaysLost,
           NEW u \in EngineType, u \in Replayed,
           requested'[u] = requested[u] \/ Current'[u] = NULL
    PROVE  u \in Replayed'
<1> SUFFICES ASSUME requested'[u] # NoEngine, Current'[u] # NULL, conn'[Current'[u]] = "open"
             PROVE  engines'[requested'[u]].wnds \subseteq sent'[Current'[u]]
  BY DEF Replayed
<1>1. requested'[u] = requested[u] /\ Current'[u] = Current[u]
  BY DEF Shrinks
<1>2. /\ requested[u] \in DOMAIN engines /\ Current[u] = engines[requested[u]].inst
      /\ Current[u] \in Inst /\ Held(Current[u])
  BY <1>1, CurrentFacts DEF ApartInv, Ptr
<1>3. conn[Current[u]] = "open"
  BY <1>1, <1>2 DEF StaysLost
<1>4. engines[requested[u]].wnds \subseteq sent[Current[u]]
  BY <1>1, <1>3 DEF Replayed
<1>5. requested'[u] \in DOMAIN engines' /\ engines'[requested'[u]].inst # NULL
  <2>1. Current'[u] = engines'[requested'[u]].inst
    BY DEF Current
  <2>2. /\ engines' \in Seq(Engine) /\ requested'[u] \in 0 .. Len(engines')
        /\ requested'[u] # 0
    BY DEF TypeOK, NoEngine
  <2>3. requested'[u] \in DOMAIN engines'
    BY <2>2, LenProperties
  <2> QED
    BY <2>1, <2>3
<1> QED
  BY <1>1, <1>4, <1>5 DEF EnginesKept

\* The tasks of which KeptReplayed speaks.
LEMMA TaskReplayed ==
    ASSUME TypeOK, TypeOK', TypedInv, ApartInv, NEW task \in Task, NEW ok, Handle(task, ok),
           task \in Retry => task.engine \in DOMAIN engines,
           task.op \notin {"notify", "load"}, NEW u \in EngineType, u \in Replayed
    PROVE  u \in Replayed'
<1>1. EnginesKept /\ StaysLost
  BY TaskKeeps, TaskMoves, MovesLost
<1>2. CASE task.op = "start"
  <2>1. PICK t \in EngineType : startWebEngine(ok, t)
    BY <1>2, HandleCases
  <2>2. Shrinks /\ KeepsOthers(t)
    BY <2>1, StartShrinks
  <2>3. requested'[u] = requested[u] \/ Current'[u] = NULL
    <3>1. CASE u # t \/ requested' = requested
      BY <2>2, <3>1 DEF KeepsOthers
    <3>2. CASE /\ u = t /\ requested' = [requested EXCEPT ![t] = Len(engines')]
               /\ engines' = Append(engines, [inst |-> NULL, type |-> t, wnds |-> {}])
      <4> DEFINE r == [inst |-> NULL, type |-> t, wnds |-> {}]
      <4>1. r \in Engine /\ r.inst = NULL
        BY DEF Engine, Ptr
      <4> HIDE DEF r
      <4>2. Len(engines') = Len(engines) + 1 /\ engines'[Len(engines) + 1].inst = NULL
        BY <3>2, <4>1, EngineFacts, AppendProperties DEF r
      <4>3. requested'[u] = Len(engines) + 1
        BY <3>2, <4>2 DEF TypeOK
      <4> QED
        BY <4>2, <4>3 DEF Current
    <3> QED
      BY <2>1, <3>1, <3>2 DEF startWebEngine, Idle
  <2> QED
    BY <1>1, <2>2, <2>3, KeptReplayed
<1>3. CASE task.op = "reConnEngine"
  <2> DEFINE e == task.engine
             t == engines[task.engine].type
  <2>1. reConnWebEngine(ok, e) /\ e \in DOMAIN engines
    BY <1>3, HandleCases
  <2>2. Shrinks /\ KeepsOthers(t)
    BY <2>1, ReConnShrinks
  <2>3. requested'[u] = requested[u] \/ Current'[u] = NULL
    <3>1. CASE u # t \/ requested' = requested
      BY <2>2, <3>1 DEF KeepsOthers
    <3>2. CASE /\ u = t /\ requested' = [requested EXCEPT ![t] = e]
               /\ engines' = [engines EXCEPT ![e].inst = NULL]
      <4>1. e # NoEngine /\ engines \in Seq(Engine) /\ NULL \in Ptr
        BY <2>1, EngineFacts DEF Ptr
      <4>2. requested'[u] = e
        BY <3>2 DEF TypeOK
      <4> HIDE DEF e, t
      <4>3. [engines EXCEPT ![e].inst = NULL][e].inst = NULL
        BY <2>1, <4>1, SetInst
      <4> QED
        BY <3>2, <4>1, <4>2, <4>3 DEF Current
    <3> QED
      BY <2>1, <3>1, <3>2 DEF reConnWebEngine, Idle
  <2> QED
    BY <1>1, <2>2, <2>3, KeptReplayed
<1>4. CASE task.op = "stop"
  <2>1. PICK t \in EngineType : stopWebEngine(ok, t)
    BY <1>4, HandleCases
  <2>2. engines' = engines /\ (requested' = requested
                               \/ requested' = [requested EXCEPT ![t] = NoEngine])
    BY <2>1 DEF stopWebEngine, Idle
  <2>3. \A v \in EngineType : requested'[v] = requested[v] \/ requested'[v] = NoEngine
    BY <2>2 DEF TypeOK
  <2>4. /\ \A v \in EngineType : Current'[v] # NULL => Current'[v] = Current[v]
        /\ requested'[u] = requested[u] \/ Current'[u] = NULL
        /\ TypedInv'
    BY <2>2, <2>3 DEF Current, TypedInv
  <2> QED
    BY <1>1, <2>4, KeptReplayed DEF Shrinks
<1>5. CASE task.op = "error"
  <2>1. PICK i \in Inst : webContainerError(i)
    BY <1>5, HandleCases
  <2>2. requested' = requested
    BY <2>1, ErrorCases
  <2>3. Shrinks
    <3>1. ASSUME NEW e \in EnginesOn(i), engines' = [engines EXCEPT ![e].inst = NULL]
          PROVE  Shrinks
      <4>1. e \in DOMAIN engines /\ NULL \in Ptr
        BY EnginesOnType DEF Ptr
      <4>2. TypedInv' /\ \A v \in EngineType : Current'[v] = IF requested[v] = e THEN NULL ELSE Current[v]
        BY <2>2, <3>1, <4>1, SetCurrent
      <4> QED
        BY <4>2 DEF Shrinks
    <3> QED
      BY <2>1, <2>2, <3>1, ErrorCases, StayShrinks
  <2> QED
    BY <1>1, <2>2, <2>3, KeptReplayed
<1>6. CASE task.op = "reConnContainer"
  <2>1. UNCHANGED <<engines, requested>>
    BY <1>6, HandleCases DEF reConnWebContainer, Idle
  <2> QED
    BY <1>1, <2>1, StayShrinks, KeptReplayed
<1> QED
  BY <1>2, <1>3, <1>4, <1>5, <1>6, HandleCases

\* A new connection gets all the pages, and is not the connection of another.
LEMMA NotifyReplayed ==
    ASSUME TypeOK, TypeOK', TypedInv, ApartInv, NEW t \in EngineType, NEW ok,
           webInstanceNotify(ok, t), NEW u \in EngineType, u \in Replayed, StaysLost
    PROVE  u \in Replayed'
<1>1. CASE UNCHANGED <<engines, requested, sent>>
  BY <1>1, StayShrinks, KeptReplayed DEF EnginesKept
<1>2. ASSUME NEW i \in Fresh, IsRequested(t), NotifyConnected(t, i) PROVE u \in Replayed'
  <2> DEFINE e == requested[t]
  <2>1. e \in DOMAIN engines /\ i \in Inst /\ i # NULL /\ ~Held(i) /\ requested' = requested
    BY <1>2, EngineFacts, SrpcAssumption DEF Fresh, Held, NotifyConnected
  <2>2. /\ \A k \in DOMAIN engines : k # e => engines'[k] = engines[k]
        /\ engines'[e].wnds = engines[e].wnds
    BY <1>2, <2>1, SetInst, EngineFacts DEF NotifyConnected, Ptr
  <2>3. sent'[i] = engines[e].wnds /\ \A j \in Inst : j # i => sent'[j] = sent[j]
    BY <1>2, <2>1 DEF NotifyConnected, TypeOK
  <2>4. \A v \in EngineType : Current'[v] = IF requested[v] = e THEN i ELSE Current[v]
    BY <1>2, <2>1, SetCurrent DEF NotifyConnected, Ptr
  <2> HIDE DEF e
  <2>5. CASE requested[u] = e
    BY <2>1, <2>2, <2>3, <2>4, <2>5 DEF Replayed
  <2>6. CASE requested[u] # e
    <3>1. Current'[u] = Current[u]
      BY <2>4, <2>6
    <3>2. CASE requested[u] = NoEngine \/ Current[u] = NULL
      BY <2>1, <3>1, <3>2 DEF Replayed
    <3>3. CASE requested[u] # NoEngine /\ Current[u] # NULL
      <4>1. /\ requested[u] \in DOMAIN engines /\ Current[u] \in Inst /\ Held(Current[u])
            /\ Current[u] # i
        BY <2>1, <3>3, CurrentFacts DEF ApartInv, Ptr
      <4>2. conn'[Current[u]] = "open" => conn[Current[u]] = "open"
        BY <4>1 DEF StaysLost
      <4> QED
        BY <2>1, <2>2, <2>3, <2>6, <3>1, <3>3, <4>1, <4>2 DEF Replayed
    <3> QED
      BY <3>2, <3>3
  <2> QED
    BY <2>5, <2>6
<1> QED
  BY <1>1, <1>2 DEF webInstanceNotify, NotifyFailed

LEMMA LoadReplayed ==
    ASSUME TypeOK, TypeOK', TypedInv, ApartInv, NEW t \in EngineType, NEW w \in Wnd, NEW ok,
           loadUrl(ok, t, w), NEW u \in EngineType, u \in Replayed
    PROVE  u \in Replayed'
<1>1. conn' = conn /\ requested' = requested /\ Current'[u] = Current[u]
  BY LoadShrinks DEF loadUrl, Idle, srpcVars
<1>2. CASE Idle
  BY <1>1, <1>2 DEF Idle, Replayed
<1>3. CASE ~Idle
  <2> DEFINE e == requested[t]
             i == engines[e].inst
  <2>1. /\ e \in DOMAIN engines /\ i = Current[t] /\ i # NULL
        /\ engines' = [engines EXCEPT ![e].wnds = @ \cup {w}]
        /\ sent' = IF conn[i] = "open" THEN [sent EXCEPT ![i] = @ \cup {w}] ELSE sent
    BY <1>3, CurrentFacts DEF loadUrl, IsRequested
  <2>2. /\ \A k \in DOMAIN engines : k # e => engines'[k] = engines[k]
        /\ engines'[e].wnds = engines[e].wnds \cup {w}
    BY <2>1, AddWnd, EngineFacts
  <2>3. i \in Inst /\ sent \in [Inst -> SUBSET Wnd]
    BY <2>1, CurrentFacts DEF TypeOK, Ptr
  <2>4. requested[u] = e => Current[u] = i
    BY <2>1, CurrentFacts, EngineFacts
  <2> HIDE DEF e, i
  <2>5. /\ \A j \in Inst : sent[j] \subseteq sent'[j]
        /\ conn[i] = "open" => sent'[i] = sent[i] \cup {w}
    BY <2>1, <2>3
  <2>6. requested[u] # NoEngine => requested[u] \in DOMAIN engines
    BY CurrentFacts
  <2>7. Current[u] # NULL => Current[u] \in Inst
    BY CurrentFacts DEF Ptr
  <2> QED
    BY <1>1, <2>1, <2>2, <2>4, <2>5, <2>6, <2>7 DEF Replayed
<1> QED
  BY <1>2, <1>3

LEMMA RunReplayed ==
    ASSUME TypeOK, TypeOK', TypedInv, ApartInv, NEW task \in Task, NEW ok, Handle(task, ok),
           task \in Retry => task.engine \in DOMAIN engines, NEW u \in EngineType, u \in Replayed
    PROVE  u \in Replayed'
<1>1. CASE task.op = "notify"
  BY <1>1, TaskMoves, MovesLost, HandleCases, NotifyReplayed
<1>2. CASE task.op = "load"
  BY <1>2, HandleCases, LoadReplayed
<1>3. CASE task.op \notin {"notify", "load"}
  BY <1>3, TaskReplayed
<1> QED
  BY <1>1, <1>2, <1>3

ReplayInv == EngineType \subseteq Replayed

LEMMA StepReplayed ==
    TypeOK /\ TypeOK' /\ SessionInv /\ SessionInv' /\ ReplayInv /\ [Next]_vars => ReplayInv'
<1> SUFFICES ASSUME TypeOK, TypeOK', SessionInv, SessionInv', ReplayInv, [Next]_vars,
                    NEW u \in EngineType
             PROVE  u \in Replayed'
  BY DEF ReplayInv
<1>1. u \in Replayed
  BY DEF ReplayInv
<1>2. CASE ctl' \in {"down", "ipc"}
  BY <1>2 DEF SessionInv, NoneRequested, Replayed
<1>3. CASE ctl' \notin {"down", "ipc"} /\ (Posts \/ Controls \/ Environment \/ Expire \/ UNCHANGED vars)
  <2>1. UNCHANGED <<engines, requested, sent>>
    BY <1>3, PostsPost DEF PostsOne, Controls, InitAgain, InitIPC, QueueStart, InitDone, Uninitialize,
       StopClear, UninitIPC, UninitSRPCLib, Environment, BrokerIgnores, ContainerDies,
       EngineDies, Expire, state, vars
  <2>2. Current' = Current
    BY <2>1 DEF Current
  <2>3. \A i \in Inst : conn'[i] = "open" => conn[i] = "open"
    <3>1. \/ conn' = conn \/ \E i \in Inst : Lose(i)
          \/ conn' = Destroyed({instWC})
      BY <1>3, PostsPost, Unchanged DEF PostsOne, Controls, InitAgain, InitIPC, QueueStart, InitDone,
         Uninitialize, StopClear, UninitIPC, UninitSRPCLib, Environment, BrokerIgnores,
         ContainerDies, EngineDies, Expire, state, vars, srpcVars, Ptr
    <3> QED
      BY <3>1, Unchanged DEF Lose, Destroyed, Held
  <2>4. Current[u] # NULL => Current[u] \in Inst
    BY CurrentFacts DEF Ptr
  <2> QED
    BY <1>1, <2>1, <2>2, <2>3, <2>4 DEF Replayed
<1>4. CASE Worker
  BY <1>1, <1>4, WorkerRuns, RunReplayed DEF Worker, SessionInv
<1>5. CASE LateTask
  <2>1. late \in Task /\ (late \in Retry => late.engine \in DOMAIN engines)
    BY <1>5 DEF LateTask, TypeOK
  <2> QED
    BY <1>1, <1>5, <2>1, RunReplayed DEF LateTask, SessionInv
<1> QED
  BY <1>2, <1>3, <1>4, <1>5, NextCases

\* The same when the value of a destroyed handle may be returned again, if
\* everything was stopped before the last Uninit: no page that was sent on the
\* handle in its former life is taken for one that the new engine has.
THEOREM PagesSentOnReusedHandles == Spec /\ []StoppedFirst => []LoadsReplayed
<1>1. Init => ReplayInv
  <2> SUFFICES ASSUME Init PROVE ReplayInv
    OBVIOUS
  <2>1. \A t \in EngineType : requested[t] = NoEngine
    BY DEF Init
  <2> QED
    BY <2>1 DEF ReplayInv, Replayed
<1>2. TypeOK /\ ReplayInv => LoadsReplayed
  <2> SUFFICES ASSUME TypeOK, ReplayInv PROVE LoadsReplayed
    OBVIOUS
  <2> QED
    BY CurrentFacts DEF ReplayInv, Replayed, LoadsReplayed, EngineOf, IsRequested
<1>3. Spec /\ []StoppedFirst => [](TypeOK /\ InitInv /\ SessionInv)
  BY InitType, StepType, InitSession, StepSession, PTL DEF Spec
<1>4. Spec /\ []StoppedFirst => []ReplayInv
  BY <1>1, <1>3, StepReplayed, PTL DEF Spec
<1> QED
  BY <1>2, <1>3, <1>4, PTL

-----------------------------------------------------------------------------
(* The repair of the connections to the engines, while no connection to    *)
(* the broker is lost.                                                     *)

\* The types for which an engine is on its way.
Asked == {t \in EngineType :
             \/ t \in TasksOf(requests)
             \/ [op |-> "notify", type |-> t] \in Pending
             \/ \E x \in Pending : x.op = "reConnEngine" /\ engines[x.engine].type = t}

WakeInv ==
    ctl = "up" =>
        \A t \in EngineType : requested[t] # NoEngine =>
            /\ Current[t] = NULL => t \in Asked
            /\ Current[t] # NULL /\ conn[Current[t]] # "open" => ErrorPending(Current[t])

\* A task leaves no lost connection to the broker behind.
LEMMA TaskKeepsBroker ==
    ASSUME TypeOK, ApartInv, NEW task \in Task, NEW ok, Handle(task, ok),
           instWC # NULL => conn[instWC] = "open"
    PROVE  instWC' # NULL => conn'[instWC'] = "open"
<1>1. instWC # NULL => instWC \in Inst
  BY Unchanged DEF Ptr
<1>2. CASE UNCHANGED <<instWC, conn>>
  BY <1>2
<1>3. ASSUME NEW S, instWC \notin S, instWC # NULL
      PROVE  /\ Destroyed(S)[instWC] = "open"
             /\ \A i \in Fresh : [Destroyed(S) EXCEPT ![i] = "open"][instWC] = "open"
  <2>1. Destroyed(S)[instWC] = "open"
    BY <1>1, <1>3 DEF Destroyed
  <2>2. Destroyed(S) \in [Inst -> ConnState]
    BY ConnType
  <2> QED
    BY <1>1, <1>3, <2>1, <2>2
<1>4. ASSUME NEW t \in EngineType, NEW i \in Fresh, IsRequested(t), NotifyConnected(t, i),
             instWC # NULL
      PROVE  instWC' = instWC /\ conn'[instWC] = "open"
  <2>1. Current[t] = engines[requested[t]].inst
    BY <1>4, CurrentFacts DEF IsRequested
  <2>2. instWC \notin {engines[requested[t]].inst}
    BY <1>4, <2>1 DEF ApartInv
  <2> QED
    BY <1>3, <1>4, <2>2 DEF NotifyConnected
<1>5. ASSUME NEW t \in EngineType, webInstanceNotify(ok, t)
      PROVE  instWC' # NULL => conn'[instWC'] = "open"
  BY <1>2, <1>4, <1>5 DEF webInstanceNotify, NotifyConnected, NotifyFailed, srpcVars
<1>6. ASSUME NEW i \in Inst, webContainerError(i)
      PROVE  instWC' # NULL => conn'[instWC'] = "open"
  <2>1. CASE i = instWC
    BY <1>6, <2>1 DEF webContainerError
  <2>2. CASE i # instWC
    <3>1. instWC' = instWC /\ conn' = Destroyed({i}) /\ instWC \notin {i}
      BY <1>6, <2>2, ErrorCases
    <3> QED
      BY <1>3, <3>1
  <2> QED
    BY <2>1, <2>2
<1>7. ASSUME reConnWebContainer(ok) PROVE instWC' # NULL => conn'[instWC'] = "open"
  BY <1>2, <1>7 DEF reConnWebContainer, Idle, srpcVars, Opened, Fresh
<1>8. ASSUME NEW t \in EngineType, stopWebEngine(ok, t)
      PROVE  instWC' # NULL => conn'[instWC'] = "open"
  <2>1. CASE ~Idle /\ instWC # NULL
    <3>1. IsRequested(t) /\ conn' = Destroyed({engines[requested[t]].inst}) /\ instWC' = instWC
      BY <1>8, <2>1 DEF stopWebEngine
    <3>2. Current[t] = engines[requested[t]].inst
      BY <3>1, CurrentFacts DEF IsRequested
    <3>3. instWC \notin {engines[requested[t]].inst}
      BY <2>1, <3>2 DEF ApartInv
    <3> QED
      BY <1>3, <2>1, <3>1, <3>3
  <2> QED
    BY <1>2, <1>8, <2>1 DEF stopWebEngine, Idle, srpcVars
<1>9. CASE task.op = "start" \/ task.op = "load" \/ task.op = "reConnEngine"
  BY <1>2, <1>9, HandleCases DEF startWebEngine, loadUrl, reConnWebEngine, Idle, srpcVars
<1> QED
  BY <1>5, <1>6, <1>7, <1>8, <1>9, HandleCases

\* Without a fault of the broker its connection is never lost.
KeptInv ==
    /\ ctl \in {"down", "lib"} => instWC = NULL
    /\ instWC # NULL => conn[instWC] = "open"

LEMMA StepKept ==
    ASSUME "container" \notin Faults
    PROVE  TypeOK /\ SessionInv /\ KeptInv /\ [Next]_vars => KeptInv'
<1> SUFFICES ASSUME TypeOK, SessionInv, KeptInv, [Next]_vars PROVE KeptInv'
  OBVIOUS
<1>1. CASE UNCHANGED <<ctl, instWC, conn>>
  BY <1>1 DEF KeptInv
<1>2. CASE Posts \/ Expire \/ UNCHANGED vars
  BY <1>1, <1>2, PostsPost DEF PostsOne, Expire, vars, state, srpcVars
<1>3. CASE Controls
  BY <1>1, <1>3 DEF Controls, InitAgain, InitIPC, QueueStart, InitDone, Uninitialize, StopClear,
     UninitIPC, UninitSRPCLib, KeptInv, state, srpcVars, Opened, Fresh
<1>4. CASE Environment
  <2>1. ~ContainerDies
    BY DEF ContainerDies, MayFault
  <2>2. UNCHANGED <<ctl, instWC>> /\ (conn' = conn \/ \E i \in Inst : i # instWC /\ Lose(i))
    BY <1>4, <2>1 DEF Environment, BrokerIgnores, EngineDies, state, srpcVars
  <2>3. instWC # NULL => instWC \in Inst
    BY Unchanged DEF Ptr
  <2> QED
    BY <2>2, <2>3, Unchanged DEF KeptInv, Lose
<1>5. CASE Worker
  <2>1. Head(queue) \in Task /\ Handle(Head(queue), initialized # 0) /\ ctl' = ctl
        /\ ctl \notin {"down", "lib"}
    BY <1>5, WorkerRuns DEF Worker
  <2> QED
    BY <2>1, TaskKeepsBroker DEF KeptInv, SessionInv
<1>6. CASE LateTask
  <2>1. late \in Task /\ ctl' = ctl /\ ctl \notin {"down", "lib"}
    BY <1>6 DEF LateTask, TypeOK
  <2> QED
    BY <1>6, <2>1, TaskKeepsBroker DEF KeptInv, SessionInv, LateTask
<1> QED
  BY <1>2, <1>3, <1>4, <1>5, <1>6, NextCases

\* A task forgets no request and no WebEngine.
LEMMA TaskForgets ==
    ASSUME TypeOK, TypedInv, NEW task \in Task, NEW ok, Handle(task, ok),
           task \in Retry => task.engine \in DOMAIN engines
    PROVE  /\ TasksOf(requests) \subseteq TasksOf(requests')
           /\ \A e \in DOMAIN engines : engines'[e].type = engines[e].type
<1>1. CASE UNCHANGED <<requests, engines>>
  BY <1>1
<1>2. \A t \in EngineType : \A outcome :
          TasksOf(requests) \subseteq TasksOf(Requested(outcome, t))
  BY Unchanged, AppendTask DEF Requested
<1>3. \A e \in DOMAIN engines, x \in Ptr : engines' = [engines EXCEPT ![e].inst = x] =>
          \A k \in DOMAIN engines : engines'[k].type = engines[k].type
  BY SetInst, EngineFacts
<1>4. ASSUME NEW t \in EngineType, startWebEngine(ok, t)
      PROVE  /\ TasksOf(requests) \subseteq TasksOf(requests')
             /\ \A e \in DOMAIN engines : engines'[e].type = engines[e].type
  <2>1. TasksOf(requests) \subseteq TasksOf(requests')
    BY <1>2, <1>4 DEF startWebEngine, Idle
  <2>2. CASE engines' = engines
    BY <2>1, <2>2
  <2>3. CASE engines' = Append(engines, [inst |-> NULL, type |-> t, wnds |-> {}])
    <3>1. [inst |-> NULL, type |-> t, wnds |-> {}] \in Engine
      BY DEF Engine, Ptr
    <3>2. \A k \in DOMAIN engines : engines'[k] = engines[k]
      BY <2>3, <3>1, EngineFacts, AppendProperties
    <3> QED
      BY <2>1, <3>2
  <2> QED
    BY <1>4, <2>2, <2>3 DEF startWebEngine, Idle
<1>5. ASSUME NEW t \in EngineType, webInstanceNotify(ok, t)
      PROVE  /\ TasksOf(requests) \subseteq TasksOf(requests')
             /\ \A e \in DOMAIN engines : engines'[e].type = engines[e].type
  <2>1. requests' = requests
    BY <1>5 DEF webInstanceNotify, NotifyConnected, NotifyFailed
  <2>2. ASSUME NEW i \in Fresh, IsRequested(t), NotifyConnected(t, i)
        PROVE  \A e \in DOMAIN engines : engines'[e].type = engines[e].type
    BY <1>3, <2>2, EngineFacts, ConnType DEF NotifyConnected, Ptr
  <2> QED
    BY <1>5, <2>1, <2>2 DEF webInstanceNotify, NotifyFailed
<1>6. ASSUME NEW i \in Inst, webContainerError(i)
      PROVE  /\ TasksOf(requests) \subseteq TasksOf(requests')
             /\ \A e \in DOMAIN engines : engines'[e].type = engines[e].type
  <2>1. requests' = requests /\ \/ engines' = engines
                                \/ \E e \in EnginesOn(i) : engines' = [engines EXCEPT ![e].inst = NULL]
    BY <1>6, ErrorCases
  <2> QED
    BY <1>3, <2>1, EnginesOnType DEF Ptr
<1>7. ASSUME NEW e \in DOMAIN engines, reConnWebEngine(ok, e)
      PROVE  /\ TasksOf(requests) \subseteq TasksOf(requests')
             /\ \A k \in DOMAIN engines : engines'[k].type = engines[k].type
  <2>1. engines[e].type \in EngineType /\ NULL \in Ptr
    BY EngineFacts DEF Ptr
  <2> QED
    BY <1>1, <1>2, <1>3, <1>7, <2>1 DEF reConnWebEngine, Idle
<1>8. ASSUME NEW t \in EngineType, NEW w \in Wnd, loadUrl(ok, t, w)
      PROVE  /\ TasksOf(requests) \subseteq TasksOf(requests')
             /\ \A e \in DOMAIN engines : engines'[e].type = engines[e].type
  <2>1. CASE ~Idle
    <3>1. /\ IsRequested(t) /\ requests' = requests
          /\ engines' = [engines EXCEPT ![requested[t]].wnds = @ \cup {w}]
      BY <1>8, <2>1 DEF loadUrl
    <3>2. requested[t] \in DOMAIN engines /\ engines \in Seq(Engine)
      BY <3>1, EngineFacts
    <3>3. /\ \A k \in DOMAIN engines : k # requested[t] => engines'[k] = engines[k]
          /\ engines'[requested[t]].type = engines[requested[t]].type
      BY <3>1, <3>2, AddWnd
    <3> QED
      BY <3>1, <3>3
  <2> QED
    BY <1>1, <2>1 DEF Idle
<1>9. CASE task.op = "stop" \/ task.op = "reConnContainer"
  BY <1>1, <1>9, HandleCases DEF stopWebEngine, reConnWebContainer, Idle
<1> QED
  BY <1>4, <1>5, <1>6, <1>7, <1>8, <1>9, HandleCases

\* What an engine is waiting for is still there after the task x, unless x was it.
LEMMA AskedKept ==
    ASSUME TypeOK, NEW x, NEW u \in EngineType, u \in Asked,
           \A y \in Pending : y # x => y \in Pending',
           TasksOf(requests) \subseteq TasksOf(requests'),
           \A e \in DOMAIN engines : engines'[e].type = engines[e].type,
           x # [op |-> "notify", type |-> u],
           ~(x \in Retry /\ engines[x.engine].type = u)
    PROVE  u \in Asked'
<1>1. CASE u \in TasksOf(requests)
  BY <1>1 DEF Asked
<1>2. CASE [op |-> "notify", type |-> u] \in Pending
  BY <1>2 DEF Asked
<1>3. ASSUME NEW y \in Pending, y.op = "reConnEngine", engines[y.engine].type = u
      PROVE  u \in Asked'
  <2>1. y \in Task
    <3>1. /\ \A s \in Seq(Task) : \A n \in DOMAIN s : s[n] \in Task
      BY ElementOfSeq, LenProperties
    <3> QED
      BY <3>1 DEF Pending, TasksOf, TypeOK
  <2>2. y \in Retry
    BY <1>3, <2>1 DEF Task
  <2>3. y.engine \in DOMAIN engines
    BY <2>2 DEF TypeOK
  <2>4. y \in Pending'
    BY <1>3, <2>2
  <2> QED
    BY <1>3, <2>3, <2>4 DEF Asked
<1> QED
  BY <1>1, <1>2, <1>3 DEF Asked

\* A retry asks for the type of its WebEngine.
LEMMA RetryAsks ==
    ASSUME TypeOK, NEW e \in DOMAIN engines, engines'[e].type = engines[e].type,
           PostDelayTask([op |-> "reConnEngine", engine |-> e])
    PROVE  engines[e].type \in Asked'
<1> DEFINE x == [op |-> "reConnEngine", engine |-> e]
<1>1. x \in Task /\ x.op = "reConnEngine" /\ x.engine = e /\ delayed' = Append(delayed, x)
  BY EngineFacts, TaskKinds DEF PostDelayTask
<1> HIDE DEF x
<1>2. TasksOf(delayed') = TasksOf(delayed) \cup {x}
  BY <1>1, AppendTask DEF TypeOK
<1>3. x \in Pending'
  BY <1>2 DEF Pending
<1>4. engines[e].type \in EngineType
  BY EngineFacts
<1> QED
  BY <1>1, <1>3, <1>4 DEF Asked

LEMMA RequestAsks ==
    ASSUME TypeOK, NEW t \in EngineType, requests' = Append(requests, t)
    PROVE  t \in Asked'
<1>1. t \in TasksOf(requests')
  BY AppendTask, Unchanged
<1> QED
  BY <1>1 DEF Asked

\* The types for which a task has done what WakeInv asks.
Woken == {u \in EngineType :
             requested[u] # NoEngine =>
                /\ Current[u] = NULL => u \in Asked
                /\ Current[u] # NULL /\ conn[Current[u]] # "open" =>
                      Current[u] \in notices \/ LossOf(Current[u]) \in Pending}

\* A task that is not about the type u.
LEMMA OthersWoken ==
    ASSUME TypeOK, NEW x, NEW u \in EngineType, u \in Woken, requested'[u] = requested[u], Current'[u] = Current[u],
           Current[u] # NULL => x # LossOf(Current[u]),
           Current[u] = NULL /\ requested[u] # NoEngine => x # [op |-> "notify", type |-> u]
                                /\ ~(x \in Retry /\ engines[x.engine].type = u),
           Noticed, \A y \in Pending : y # x => y \in Pending',
           TasksOf(requests) \subseteq TasksOf(requests'),
           \A e \in DOMAIN engines : engines'[e].type = engines[e].type
    PROVE  u \in Woken'
<1>1. CASE requested[u] = NoEngine
  BY <1>1 DEF Woken
<1>2. CASE requested[u] # NoEngine /\ Current[u] = NULL
  <2>1. u \in Asked
    BY <1>2 DEF Woken
  <2>2. u \in Asked'
    BY <1>2, <2>1, AskedKept
  <2> QED
    BY <1>2, <2>2 DEF Woken
<1>3. CASE requested[u] # NoEngine /\ Current[u] # NULL
  <2>1. Current[u] \in Inst /\ x # LossOf(Current[u])
    BY <1>3, CurrentFacts DEF Ptr
  <2>2. conn'[Current[u]] # "open" => conn[Current[u]] # "open" \/ Current[u] \in notices'
    BY <2>1 DEF Noticed
  <2>3. conn[Current[u]] # "open" => Current[u] \in notices \/ LossOf(Current[u]) \in Pending
    BY <1>3 DEF Woken
  <2>4. LossOf(Current[u]) \in Pending => LossOf(Current[u]) \in Pending'
    BY <2>1
  <2>5. Current[u] \in notices => Current[u] \in notices'
    BY DEF Noticed
  <2> QED
    BY <1>3, <2>2, <2>3, <2>4, <2>5 DEF Woken
<1> QED
  BY <1>1, <1>2, <1>3

LEMMA TaskWakes ==
    ASSUME TypeOK, TypedInv, ApartInv, NEW x \in Task, Handle(x, TRUE),
           x \in Retry => x.engine \in DOMAIN engines,
           instWC # NULL => conn[instWC] = "open",
           \A y \in Pending : y # x => y \in Pending',
           NEW u \in EngineType, u \in Woken
    PROVE  u \in Woken'
<1>1. /\ Noticed /\ TasksOf(requests) \subseteq TasksOf(requests')
      /\ \A e \in DOMAIN engines : engines'[e].type = engines[e].type
  BY TaskWatched, TaskForgets
<1>2. instWC # NULL => AsyncCall(instWC) = {"sent"}
  BY DEF AsyncCall
<1>3. x.op # "error" => \A i : x # LossOf(i)
  BY DEF LossOf
<1>4. x.op # "notify" => \A t : x # [op |-> "notify", type |-> t]
  OBVIOUS
<1>5. x.op # "reConnEngine" => x \notin Retry
  BY DEF Retry
<1>6. CASE x.op = "start"
  <2>1. x.type \in EngineType /\ startWebEngine(TRUE, x.type)
    BY <1>6, HandleCases
  <2>2. CASE u # x.type \/ UNCHANGED <<engines, requested>>
    <3>1. requested'[u] = requested[u] /\ Current'[u] = Current[u]
      BY <2>1, <2>2, StartShrinks, StayShrinks DEF KeepsOthers
    <3> QED
      BY <1>1, <1>3, <1>4, <1>5, <1>6, <3>1, OthersWoken
  <2>3. CASE u = x.type /\ requests' = Append(requests, u)
             /\ engines' = Append(engines, [inst |-> NULL, type |-> u, wnds |-> {}])
             /\ requested' = [requested EXCEPT ![u] = Len(engines')]
    <3>1. u \in Asked'
      BY <2>3, RequestAsks
    <3>2. Current'[u] = NULL
      <4> DEFINE r == [inst |-> NULL, type |-> u, wnds |-> {}]
      <4>1. r \in Engine /\ r.inst = NULL
        BY DEF Engine, Ptr
      <4> HIDE DEF r
      <4>2. Len(engines') = Len(engines) + 1 /\ engines'[Len(engines) + 1].inst = NULL
        BY <2>3, <4>1, EngineFacts, AppendProperties DEF r
      <4>3. requested'[u] = Len(engines) + 1
        BY <2>3, <4>2 DEF TypeOK
      <4> QED
        BY <4>2, <4>3 DEF Current
    <3> QED
      BY <3>1, <3>2 DEF Woken
  <2>4. \/ UNCHANGED <<engines, requested>>
        \/ /\ requests' = Append(requests, x.type)
           /\ engines' = Append(engines, [inst |-> NULL, type |-> x.type, wnds |-> {}])
           /\ requested' = [requested EXCEPT ![x.type] = Len(engines')]
    BY <1>2, <2>1 DEF startWebEngine, Idle, Requested
  <2> QED
    BY <2>2, <2>3, <2>4
<1>7. CASE x.op = "notify"
  <2>1. x.type \in EngineType /\ webInstanceNotify(TRUE, x.type)
    BY <1>7, HandleCases
  <2>2. CASE ~IsRequested(x.type)
    <3>1. UNCHANGED <<engines, requested>>
      BY <2>1, <2>2 DEF webInstanceNotify
    <3>2. requested'[u] = requested[u] /\ Current'[u] = Current[u]
      BY <3>1, StayShrinks
    <3>3. requested[u] # NoEngine => x # [op |-> "notify", type |-> u]
      BY <2>2 DEF IsRequested
    <3> QED
      BY <1>1, <1>3, <1>5, <1>7, <3>2, <3>3, OthersWoken
  <2>3. ASSUME NEW i \in Fresh, IsRequested(x.type), NotifyConnected(x.type, i) PROVE u \in Woken'
    <3>1. Current'[x.type] = i /\ conn'[i] = "open" /\ KeepsOthers(x.type) /\ i # NULL
      BY <2>1, <2>3, ConnectApart, SrpcAssumption DEF IsRequested, Fresh
    <3>2. CASE u = x.type
      BY <3>1, <3>2 DEF Woken
    <3>3. CASE u # x.type
      <4>1. requested'[u] = requested[u] /\ Current'[u] = Current[u]
        BY <3>1, <3>3 DEF KeepsOthers
      <4>2. x # [op |-> "notify", type |-> u]
        BY <3>3
      <4> QED
        BY <1>1, <1>3, <1>5, <1>7, <4>1, <4>2, OthersWoken
    <3> QED
      BY <3>2, <3>3
  <2>4. CASE IsRequested(x.type) /\ NotifyFailed(x.type)
    <3>1. UNCHANGED <<engines, requested>>
          /\ PostDelayTask([op |-> "reConnEngine", engine |-> requested[x.type]])
      BY <2>4 DEF NotifyFailed
    <3>2. requested'[u] = requested[u] /\ Current'[u] = Current[u]
      BY <3>1, StayShrinks
    <3>3. requested[x.type] \in DOMAIN engines /\ engines[requested[x.type]].type = x.type
      BY <2>1, <2>4, CurrentFacts DEF TypedInv, IsRequested
    <3>4. x.type \in Asked'
      BY <1>1, <3>1, <3>3, RetryAsks
    <3>5. CASE u = x.type /\ Current[u] = NULL
      BY <3>2, <3>4, <3>5 DEF Woken
    <3>6. CASE u # x.type \/ Current[u] # NULL
      <4>1. Current[u] = NULL => x # [op |-> "notify", type |-> u]
        BY <3>6
      <4> QED
        BY <1>1, <1>3, <1>5, <1>7, <3>2, <4>1, OthersWoken
    <3> QED
      BY <3>5, <3>6
  <2> QED
    BY <2>1, <2>2, <2>3, <2>4 DEF webInstanceNotify
<1>8. CASE x.op = "error"
  <2>1. x.inst \in Inst /\ webContainerError(x.inst) /\ x = LossOf(x.inst)
    BY <1>8, HandleCases DEF LossOf
  <2>2. \A i : x = LossOf(i) => i = x.inst
    BY DEF LossOf
  <2>3. requested' = requested
    BY <2>1, ErrorCases
  <2>4. ASSUME NEW e \in EnginesOn(x.inst), engines' = [engines EXCEPT ![e].inst = NULL],
               PostDelayTask([op |-> "reConnEngine", engine |-> e])
        PROVE  u \in Woken'
    <3>1. PICK t \in EngineType : requested[t] = e /\ e \in DOMAIN engines
                                  /\ engines[e].inst = x.inst /\ e # NoEngine
      BY EnginesOnType DEF IsRequested
    <3>2. \A v \in EngineType : Current'[v] = IF requested[v] = e THEN NULL ELSE Current[v]
      BY <2>3, <2>4, <3>1, SetCurrent DEF Ptr
    <3>3. Current[t] = x.inst /\ x.inst # NULL /\ engines[e].type = t
      BY <2>1, <3>1, CurrentFacts, SrpcAssumption DEF TypedInv
    <3>4. t \in Asked'
      BY <1>1, <2>4, <3>1, <3>3, RetryAsks
    <3>5. CASE u = t
      BY <3>1, <3>2, <3>4, <3>5 DEF Woken
    <3>6. CASE u # t
      <4>1. Current[u] # x.inst
        BY <3>3, <3>6 DEF ApartInv
      <4>2. requested[u] # e
        BY <3>1, <4>1, CurrentFacts
      <4>3. requested'[u] = requested[u] /\ Current'[u] = Current[u]
        BY <2>3, <3>2, <4>2
      <4>4. x # LossOf(Current[u])
        BY <2>2, <4>1
      <4> QED
        BY <1>1, <1>4, <1>5, <1>8, <4>3, <4>4, OthersWoken
    <3> QED
      BY <3>5, <3>6
  <2>5. CASE EnginesOn(x.inst) = {} /\ engines' = engines
    <3>1. Current[u] # x.inst
      BY <2>1, <2>5, SrpcAssumption DEF Current, EnginesOn
    <3>2. requested'[u] = requested[u] /\ Current'[u] = Current[u]
      BY <2>3, <2>5, StayShrinks
    <3>3. x # LossOf(Current[u])
      BY <2>2, <3>1
    <3> QED
      BY <1>1, <1>4, <1>5, <1>8, <3>2, <3>3, OthersWoken
  <2>6. CASE x.inst = instWC /\ engines' = engines
    <3>1. Current[u] # NULL => Current[u] # x.inst
      BY <2>6 DEF ApartInv
    <3>2. requested'[u] = requested[u] /\ Current'[u] = Current[u]
      BY <2>3, <2>6, StayShrinks
    <3>3. Current[u] # NULL => x # LossOf(Current[u])
      BY <2>2, <3>1
    <3> QED
      BY <1>1, <1>4, <1>5, <1>8, <3>2, <3>3, OthersWoken
  <2> QED
    BY <2>1, <2>4, <2>5, <2>6, ErrorCases
<1>9. CASE x.op = "reConnContainer"
  <2>1. UNCHANGED <<engines, requested>>
    BY <1>9, HandleCases DEF reConnWebContainer, Idle
  <2>2. requested'[u] = requested[u] /\ Current'[u] = Current[u]
    BY <2>1, StayShrinks
  <2> QED
    BY <1>1, <1>3, <1>4, <1>5, <1>9, <2>2, OthersWoken
<1>10. CASE x.op = "reConnEngine"
  <2> DEFINE e == x.engine
             t == engines[x.engine].type
  <2>1. reConnWebEngine(TRUE, e) /\ e \in DOMAIN engines /\ t \in EngineType
    BY <1>10, HandleCases, EngineFacts
  <2>2. CASE u # t \/ ~IsRequested(t)
    <3>1. requested'[u] = requested[u] /\ Current'[u] = Current[u]
      <4>1. CASE u # t
        BY <2>1, <4>1, ReConnShrinks DEF KeepsOthers
      <4>2. CASE ~IsRequested(t)
        <5>1. UNCHANGED <<engines, requested>>
          BY <2>1, <4>2 DEF reConnWebEngine, Idle
        <5> QED
          BY <5>1, StayShrinks
      <4> QED
        BY <2>2, <4>1, <4>2
    <3>2. requested[u] # NoEngine => u # t
      BY <2>2 DEF IsRequested
    <3> QED
      BY <1>1, <1>3, <1>4, <1>10, <3>1, <3>2, OthersWoken
  <2>3. CASE u = t /\ IsRequested(t) /\ instWC # NULL
    <3>1. /\ requested' = [requested EXCEPT ![t] = e]
          /\ engines' = [engines EXCEPT ![e].inst = NULL]
          /\ requests' = Append(requests, t)
      BY <1>2, <2>1, <2>3 DEF reConnWebEngine, Requested
    <3>2. t \in Asked'
      BY <2>1, <3>1, RequestAsks
    <3>3. engines'[e].inst = NULL /\ e # NoEngine
      <4>1. e # NoEngine /\ engines \in Seq(Engine) /\ NULL \in Ptr
        BY <2>1, EngineFacts DEF Ptr
      <4> HIDE DEF e, t
      <4>2. [engines EXCEPT ![e].inst = NULL][e].inst = NULL
        BY <2>1, <4>1, SetInst
      <4> QED
        BY <3>1, <4>1, <4>2
    <3>5. requested'[t] = e
      BY <2>1, <3>1 DEF TypeOK
    <3>4. Current'[t] = NULL
      BY <2>1, <3>3, <3>5 DEF Current
    <3> QED
      BY <2>3, <3>2, <3>4 DEF Woken
  <2>4. CASE u = t /\ IsRequested(t) /\ instWC = NULL
    <3>1. UNCHANGED <<engines, requested>> /\ PostDelayTask([op |-> "reConnEngine", engine |-> e])
      BY <2>1, <2>4 DEF reConnWebEngine
    <3>2. requested'[u] = requested[u] /\ Current'[u] = Current[u]
      BY <3>1, StayShrinks
    <3>3. u \in Asked'
      BY <1>1, <2>1, <2>4, <3>1, RetryAsks
    <3>4. CASE Current[u] = NULL
      BY <3>2, <3>3, <3>4 DEF Woken
    <3>5. CASE Current[u] # NULL
      BY <1>1, <1>3, <1>10, <3>2, <3>5, OthersWoken
    <3> QED
      BY <3>4, <3>5
  <2> QED
    BY <2>2, <2>3, <2>4
<1>11. CASE x.op = "stop"
  <2>1. x.type \in EngineType /\ stopWebEngine(TRUE, x.type)
    BY <1>11, HandleCases
  <2>2. CASE u # x.type \/ UNCHANGED <<engines, requested>>
    <3>1. requested'[u] = requested[u] /\ Current'[u] = Current[u]
      BY <2>1, <2>2, StopApart, StayShrinks DEF KeepsOthers
    <3> QED
      BY <1>1, <1>3, <1>4, <1>5, <1>11, <3>1, OthersWoken
  <2>3. CASE u = x.type /\ requested' = [requested EXCEPT ![u] = NoEngine]
    BY <2>3 DEF Woken, TypeOK
  <2> QED
    BY <2>1, <2>2, <2>3 DEF stopWebEngine, Idle
<1>12. CASE x.op = "load"
  <2>1. x.type \in EngineType /\ x.wnd \in Wnd /\ loadUrl(TRUE, x.type, x.wnd)
    BY <1>12, HandleCases
  <2>2. requested'[u] = requested[u] /\ Current'[u] = Current[u]
    BY <2>1, LoadShrinks DEF loadUrl, Idle
  <2> QED
    BY <1>1, <1>3, <1>4, <1>5, <1>12, <2>2, OthersWoken
<1> QED
  BY <1>6, <1>7, <1>8, <1>9, <1>10, <1>11, <1>12, HandleCases

\* Every other step keeps what an engine waits for: a request becomes its
\* answer, and a notice becomes its task.
LEMMA OtherWakes ==
    ASSUME TypeOK, Posts \/ Expire \/ UNCHANGED <<queue, delayed>>,
           UNCHANGED <<engines, requested>>, Noticed \/ Posts, conn' = conn \/ Noticed,
           requests' = requests \/ Posts,
           NEW u \in EngineType, u \in Woken
    PROVE  u \in Woken'
<1>1. Current' = Current
  BY DEF Current
<1>2. Pending \subseteq Pending'
  <2>1. CASE Posts
    <3>1. PICK y \in Task : Post(y) /\ UNCHANGED delayed
      BY <2>1, PostsPost DEF PostsOne
    <3>2. TasksOf(queue') = TasksOf(queue) \cup {y}
      BY <3>1, AppendTask DEF Post, TypeOK
    <3> QED
      BY <3>1, <3>2 DEF Pending
  <2>2. CASE Expire
    BY <2>2, TaskDue
  <2>3. CASE UNCHANGED <<queue, delayed>>
    BY <2>3 DEF Pending
  <2> QED
    BY <2>1, <2>2, <2>3
<1>3. u \in TasksOf(requests) =>
          u \in TasksOf(requests') \/ [op |-> "notify", type |-> u] \in Pending'
  <2>1. CASE requests' = requests
    BY <2>1
  <2>2. CASE WebInstanceNotify
    <3> DEFINE t == Head(requests)
               y == [op |-> "notify", type |-> t]
    <3>1. TasksOf(requests) = TasksOf(requests') \cup {t} /\ t \in EngineType
      BY <2>2, TailTask, Unchanged DEF WebInstanceNotify
    <3>2. y \in Task /\ queue' = Append(queue, y)
      BY <2>2, <3>1, TaskKinds DEF WebInstanceNotify, Post
    <3>3. u = t => y = [op |-> "notify", type |-> u]
      OBVIOUS
    <3> HIDE DEF t, y
    <3>4. y \in TasksOf(queue')
      BY <3>2, AppendTask DEF TypeOK
    <3> QED
      BY <3>1, <3>3, <3>4 DEF Pending
  <2>3. CASE Posts /\ ~WebInstanceNotify
    BY <2>1, <2>3 DEF Posts, StartWebEngine, StopWebEngine, LoadUrl, OnWebContainerError, state
  <2> QED
    BY <2>1, <2>2, <2>3
<1>4. u \in Asked => u \in Asked'
  BY <1>2, <1>3 DEF Asked
<1>5. \A i \in Inst : i \in notices => i \in notices' \/ LossOf(i) \in Pending'
  <2>1. CASE Noticed
    BY <2>1 DEF Noticed
  <2>2. ASSUME Posts PROVE \A i \in Inst : i \in notices => i \in notices' \/ LossOf(i) \in Pending'
    <3>1. \/ notices' = notices
          \/ \E i \in Inst : notices' = notices \ {i} /\ Post(LossOf(i))
      BY <2>2, PostsPost DEF PostsOne, LossOf
    <3>2. ASSUME NEW i \in Inst, Post(LossOf(i)) PROVE LossOf(i) \in Pending'
      <4>1. LossOf(i) \in TasksOf(queue')
        BY <3>2, TaskKinds, AppendTask DEF LossOf, Post, TypeOK
      <4> QED
        BY <4>1 DEF Pending
    <3> QED
      BY <3>1, <3>2
  <2> QED
    BY <2>1, <2>2
<1>6. CASE requested[u] = NoEngine
  BY <1>6 DEF Woken
<1>7. CASE requested[u] # NoEngine /\ Current[u] = NULL
  BY <1>1, <1>4, <1>7 DEF Woken
<1>8. CASE requested[u] # NoEngine /\ Current[u] # NULL
  <2>1. Current[u] \in Inst
    BY <1>8, CurrentFacts DEF Ptr
  <2>2. conn'[Current[u]] # "open" => conn[Current[u]] # "open" \/ Current[u] \in notices'
    BY <2>1 DEF Noticed
  <2>3. conn[Current[u]] # "open" => Current[u] \in notices \/ LossOf(Current[u]) \in Pending
    BY <1>8 DEF Woken
  <2> QED
    BY <1>1, <1>2, <1>5, <1>8, <2>1, <2>2, <2>3 DEF Woken
<1> QED
  BY <1>6, <1>7, <1>8

LEMMA WakeWoken == WakeInv <=> (ctl = "up" => EngineType \subseteq Woken)
BY DEF WakeInv, Woken, ErrorPending, LossOf

LEMMA StepWake ==
    ASSUME "ignore" \notin Faults
    PROVE  /\ TypeOK /\ InitInv /\ SessionInv /\ WakeInv /\ [Next]_vars
           /\ BrokerKept /\ BrokerKept'
           => WakeInv'
<1>7. (ctl' = "up" => EngineType \subseteq Woken') => WakeInv'
  BY DEF WakeInv, Woken, ErrorPending, LossOf
<1> SUFFICES ASSUME TypeOK, InitInv, SessionInv, WakeInv, [Next]_vars, ctl' = "up",
                    BrokerKept, BrokerKept'
             PROVE  EngineType \subseteq Woken'
  BY <1>7
<1>1. CASE InitDone
  <2>1. \A u \in EngineType : requested'[u] = NoEngine
    BY <1>1 DEF InitDone, SessionInv, NoneRequested
  <2> QED
    BY <2>1 DEF Woken
<1>2. CASE ctl = "up" /\ (Posts \/ Expire \/ InitAgain \/ Uninitialize \/ Environment)
  <2>1. ~BrokerIgnores /\ ~ContainerDies
    <3>1. ContainerDies => instWC' # NULL /\ conn'[instWC'] = "lost"
      BY Unchanged DEF ContainerDies, Lose, state, Ptr
    <3> QED
      BY <3>1 DEF BrokerIgnores, MayFault, BrokerKept
  <2>2. UNCHANGED <<engines, requested>> /\ (requests' = requests \/ Posts)
        /\ (Posts \/ Expire \/ UNCHANGED <<queue, delayed>>)
    BY <1>2, <2>1, PostsPost DEF PostsOne, Expire, InitAgain, Uninitialize, Environment,
       EngineDies, state
  <2>3. (Noticed \/ Posts) /\ (conn' = conn \/ Noticed)
    <3>1. CASE Posts
      BY <3>1, PostsPost DEF PostsOne
    <3>2. CASE Expire \/ InitAgain \/ Uninitialize
      BY <3>2, StayNoticed DEF Expire, InitAgain, Uninitialize
    <3>3. CASE Environment
      <4>1. \E i \in Inst : Lose(i)
        BY <2>1, <3>3 DEF Environment, EngineDies
      <4> QED
        BY <4>1 DEF Lose, Noticed
    <3> QED
      BY <1>2, <3>1, <3>2, <3>3
  <2> QED
    BY <1>2, <2>2, <2>3, OtherWakes, WakeWoken
<1>3. CASE Worker
  <2> DEFINE x == Head(queue)
  <2>1. ctl = "up" /\ initialized # 0
    BY <1>3, Unchanged DEF Worker, InitInv
  <2>2. /\ x \in Task /\ (x \in Retry => x.engine \in DOMAIN engines) /\ KeepsTypes
        /\ TasksOf(queue) = TasksOf(queue') \cup {x} /\ Handle(x, TRUE)
    BY <1>3, <2>1, WorkerRuns DEF Worker
  <2> HIDE DEF x
  <2>3. \A y \in Pending : y # x => y \in Pending'
    BY <2>2, DelayedGrows DEF Pending
  <2>4. /\ instWC # NULL => conn[instWC] = "open"
        /\ TypedInv /\ ApartInv
    BY <2>1 DEF BrokerKept, SessionInv
  <2> QED
    BY <2>1, <2>2, <2>3, <2>4, TaskWakes, WakeWoken
<1>4. CASE UNCHANGED vars
  <2>1. UNCHANGED <<queue, delayed, engines, requested, requests, ctl, srpcVars>>
    BY <1>4 DEF vars, state
  <2> QED
    BY <2>1, OtherWakes, StayNoticed, WakeWoken DEF srpcVars
<1>5. ~LateTask /\ (Controls => InitDone \/ (ctl = "up" /\ (InitAgain \/ Uninitialize)))
  BY DEF LateTask, Controls, InitAgain, InitIPC, QueueStart, Uninitialize, StopClear, UninitIPC,
     UninitSRPCLib
<1>6. Posts \/ Environment \/ Expire => ctl = "up"
  BY PostsPost DEF PostsOne, Environment, BrokerIgnores, ContainerDies, EngineDies, Expire
<1> QED
  BY <1>1, <1>2, <1>3, <1>4, <1>5, <1>6, NextCases

\* While no connection to the broker is lost and no request is ignored, and
\* in every session before which everything was stopped: an engine that is
\* asked for and has no working connection is on its way to one.  Its request
\* or the answer is outstanding, a retry will ask again, or the loss of its
\* connection is about to be noticed.
THEOREM RepairedWhileBrokerKept ==
    ASSUME "ignore" \notin Faults
    PROVE  Spec /\ []StoppedFirst /\ []BrokerKept => []EngineWatched
<1>1. Init => WakeInv
  BY DEF Init, WakeInv
<1>2. TypeOK /\ WakeInv => EngineWatched
  BY CurrentFacts DEF WakeInv, Asked, EngineWatched, EngineOf, IsRequested
<1>3. Spec /\ []StoppedFirst /\ []BrokerKept => [](TypeOK /\ InitInv /\ SessionInv /\ WakeInv)
  BY <1>1, InitType, StepType, InitSession, StepSession, StepWake, PTL DEF Spec
<1> QED
  BY <1>2, <1>3, PTL

\* The same when the faults are those of engines and of connecting: no task
\* and no report, of this session or of the last one, closes a connection to
\* the broker and leaves it recorded.
THEOREM LostEngineRepaired ==
    ASSUME Faults \subseteq {"engine", "connect"}
    PROVE  Spec /\ []StoppedFirst => []EngineWatched
<1>1. "container" \notin Faults /\ "ignore" \notin Faults
  OBVIOUS
<1>2. Init => KeptInv
  BY DEF Init, KeptInv
<1>3. KeptInv => BrokerKept
  BY DEF KeptInv, BrokerKept
<1>4. TypeOK /\ SessionInv /\ KeptInv /\ [Next]_vars => KeptInv'
  BY <1>1, StepKept
<1>5. Spec /\ []StoppedFirst => [](TypeOK /\ InitInv /\ SessionInv /\ KeptInv)
  BY <1>2, <1>4, InitType, StepType, InitSession, StepSession, PTL DEF Spec
<1>6. Spec /\ []StoppedFirst /\ []BrokerKept => []EngineWatched
  BY <1>1, RepairedWhileBrokerKept
<1> QED
  BY <1>3, <1>5, <1>6, PTL

-----------------------------------------------------------------------------
(* The connections to the engines, in every session, while nothing was     *)
(* stopped.                                                                *)

\* At most one entry of a sequence is in S.
AtMostOne(seq, S) ==
    \A m, n \in DOMAIN seq : seq[m] \in S /\ seq[n] \in S => m = n

LEMMA AppendOne ==
    ASSUME NEW T, NEW s \in Seq(T), NEW e \in T, NEW S, AtMostOne(s, S),
           e \in S => TasksOf(s) \cap S = {}
    PROVE  AtMostOne(Append(s, e), S)
<1>1. Len(s) \in Nat /\ DOMAIN s = 1 .. Len(s)
  BY LenProperties
<1>2. /\ Append(s, e) \in Seq(T) /\ Len(Append(s, e)) = Len(s) + 1
      /\ \A n \in 1 .. Len(s) : Append(s, e)[n] = s[n]
      /\ Append(s, e)[Len(s) + 1] = e
  BY AppendProperties
<1>3. DOMAIN Append(s, e) = 1 .. Len(s) + 1
  BY <1>2, LenProperties
<1>4. \A n \in 1 .. Len(s) : s[n] \in TasksOf(s)
  BY <1>1 DEF TasksOf
<1>5. ASSUME NEW m \in 1 .. Len(s) + 1, NEW n \in 1 .. Len(s) + 1,
             Append(s, e)[m] \in S, Append(s, e)[n] \in S
      PROVE  m = n
  <2>1. CASE m \in 1 .. Len(s) /\ n \in 1 .. Len(s)
    BY <1>1, <1>2, <1>5, <2>1 DEF AtMostOne
  <2>2. CASE m = Len(s) + 1 /\ n \in 1 .. Len(s)
    BY <1>2, <1>4, <1>5, <2>2
  <2>3. CASE n = Len(s) + 1 /\ m \in 1 .. Len(s)
    BY <1>2, <1>4, <1>5, <2>3
  <2> QED
    BY <1>1, <2>1, <2>2, <2>3
<1> QED
  BY <1>3, <1>5 DEF AtMostOne

LEMMA TailOne ==
    ASSUME NEW T, NEW s \in Seq(T), s # <<>>, NEW S, AtMostOne(s, S)
    PROVE  /\ AtMostOne(Tail(s), S)
           /\ Head(s) \in S => TasksOf(Tail(s)) \cap S = {}
<1>1. Len(s) \in Nat /\ DOMAIN s = 1 .. Len(s)
  BY LenProperties
<1>2. /\ Tail(s) \in Seq(T) /\ Len(Tail(s)) = Len(s) - 1
      /\ \A n \in 1 .. Len(Tail(s)) : Tail(s)[n] = s[n + 1]
  BY HeadTailProperties
<1>3. Head(s) = s[1] /\ Len(s) > 0
  BY <1>1, EmptySeq
<1>4. DOMAIN Tail(s) = 1 .. Len(s) - 1
  BY <1>2, LenProperties
<1>5. \A n \in 1 .. Len(s) - 1 : n + 1 \in 1 .. Len(s) /\ n + 1 # 1 /\ Tail(s)[n] = s[n + 1]
  BY <1>1, <1>2
<1>6. 1 \in 1 .. Len(s)
  BY <1>1, <1>3
<1>7. ASSUME NEW m \in 1 .. Len(s) - 1, NEW n \in 1 .. Len(s) - 1,
             Tail(s)[m] \in S, Tail(s)[n] \in S
      PROVE  m = n
  <2>1. m + 1 = n + 1
    BY <1>1, <1>5, <1>7 DEF AtMostOne
  <2> QED
    BY <2>1, <1>1
<1>8. ASSUME Head(s) \in S, NEW n \in 1 .. Len(s) - 1, Tail(s)[n] \in S
      PROVE  FALSE
  BY <1>1, <1>3, <1>5, <1>6, <1>8 DEF AtMostOne
<1> QED
  BY <1>4, <1>7, <1>8 DEF AtMostOne, TasksOf

\* The tasks that may bring a connection to an engine of a type.
Brings == [t \in EngineType |->
              {x \in Task : \/ x = [op |-> "notify", type |-> t]
                            \/ x \in Retry /\ x.engine \in DOMAIN engines
                               /\ engines[x.engine].type = t}]

\* The places where the connection to an engine, or what brings it, may be.
InQueue == {t \in EngineType : TasksOf(queue) \cap Brings[t] # {}}
InDelayed == {t \in EngineType : TasksOf(delayed) \cap Brings[t] # {}}
InLate == {t \in EngineType : late \in Brings[t]}
InRequests == {t \in EngineType : t \in TasksOf(requests)}
Connected == {t \in EngineType : Current[t] # NULL}
Wanted == {t \in EngineType : requested[t] # NoEngine}
Placed == InDelayed \cup InRequests \cup Connected

\* The places a task may move it to are exclusive ...
PlacedInv ==
    /\ Placed \subseteq Wanted
    /\ InDelayed \cap InRequests = {}
    /\ Connected \cap (InDelayed \cup InRequests) = {}
    /\ \A t \in EngineType : AtMostOne(delayed, Brings[t]) /\ AtMostOne(requests, {t})

\* ... and exclusive of the tasks that are due.
DueInv ==
    /\ InQueue \cup InLate \subseteq Wanted
    /\ InQueue \cap InLate = {}
    /\ Placed \cap (InQueue \cup InLate) = {}
    /\ \A t \in EngineType : AtMostOne(queue, Brings[t])

\* A type has one WebEngine, which is recorded for it.
OnlyInv == TypedInv /\ \A e \in DOMAIN engines : requested[engines[e].type] = e

NoStop == \A x \in (Pending \cup {late}) \cap Task : x.op # "stop"

\* An open connection is the broker's, or recorded.
RecordedInv ==
    \A i \in Inst : conn[i] = "open" =>
        ctl # "down" /\ (i = instWC \/ \E t \in EngineType : Current[t] = i)

OrphanInv ==
    /\ budget.stop <= MaxStops
    /\ budget.stop = MaxStops => NoStop /\ OnlyInv /\ PlacedInv /\ DueInv /\ RecordedInv

LEMMA BringsFacts ==
    ASSUME NEW t \in EngineType
    PROVE  /\ [op |-> "notify", type |-> t] \in Brings[t]
           /\ \A x \in Brings[t] : /\ x \in Task
                                   /\ \A u \in EngineType : x \in Brings[u] => u = t
                                   /\ x.op \in {"notify", "reConnEngine"}
           /\ \A x \in Task \cap Retry : x \in Brings[t] <=>
                  x.engine \in DOMAIN engines /\ engines[x.engine].type = t
           /\ \A x \in Task : x.op = "notify" /\ x \in Brings[t] => x.type = t
<1>1. \A x \in Retry : x.op = "reConnEngine"
  BY DEF Retry
<1>2. [op |-> "notify", type |-> t] \in Task
  BY TaskKinds
<1>3. \A x : x \in Brings[t] <=>
          /\ x \in Task
          /\ \/ x = [op |-> "notify", type |-> t]
             \/ x \in Retry /\ x.engine \in DOMAIN engines /\ engines[x.engine].type = t
  BY DEF Brings
<1>4. ASSUME NEW x \in Brings[t], NEW u \in EngineType, x \in Brings[u] PROVE u = t
  <2>1. \/ x = [op |-> "notify", type |-> u]
        \/ x \in Retry /\ x.engine \in DOMAIN engines /\ engines[x.engine].type = u
    BY <1>4 DEF Brings
  <2>2. CASE x = [op |-> "notify", type |-> t]
    <3>1. x.op = "notify" /\ x.type = t
      BY <2>2
    <3>2. x = [op |-> "notify", type |-> u]
      BY <1>1, <2>1, <3>1
    <3> QED
      BY <3>1, <3>2
  <2>3. CASE x \in Retry /\ engines[x.engine].type = t
    <3>1. x.op # "notify"
      BY <1>1, <2>3
    <3> QED
      BY <2>1, <2>3, <3>1
  <2> QED
    BY <1>3, <2>2, <2>3
<1>5. \A x : x = [op |-> "notify", type |-> t] => x.op = "notify" /\ x.type = t
  OBVIOUS
<1> QED
  BY <1>1, <1>2, <1>3, <1>4, <1>5

\* What a task is for does not change when WebEngines are added.
LEMMA BringsKept ==
    ASSUME DOMAIN engines \subseteq DOMAIN engines',
           \A e \in DOMAIN engines : engines'[e].type = engines[e].type,
           NEW t \in EngineType, NEW x,
           x \in Retry => x.engine \in DOMAIN engines
    PROVE  x \in Brings'[t] <=> x \in Brings[t]
BY DEF Brings

\* A task is either not about any engine's connection, or it moves the one of
\* a type t from where it was.
Moves(task, t) ==
    /\ KeepsOthers(t) /\ requested'[t] # NoEngine
    /\ task \in Brings[t] \/ requested[t] = NoEngine \/ Current[t] # NULL
    /\ \/ delayed' = delayed /\ requests' = requests
       \/ /\ Current'[t] = NULL /\ requests' = requests
          /\ \E e \in DOMAIN engines :
                engines[e].type = t /\ PostDelayTask([op |-> "reConnEngine", engine |-> e])
       \/ Current'[t] = NULL /\ delayed' = delayed /\ requests' = Append(requests, t)
Passes ==
    /\ delayed' = delayed \/ PostDelayTask([op |-> "reConnContainer"])
    /\ requests' = requests
    /\ \A u \in EngineType : requested'[u] = requested[u] /\ Current'[u] = Current[u]

\* The hypothesis of the next lemmas, of a task that is taken: nothing else
\* brings what it brings.
LEMMA TaskMovesOne ==
    ASSUME TypeOK, OnlyInv, NEW task \in Task, NEW ok, Handle(task, ok), task.op # "stop",
           task \in Retry => task.engine \in DOMAIN engines,
           \A u \in EngineType : task \in Brings[u] => u \in Wanted \ Placed
    PROVE  OnlyInv' /\ (Passes \/ \E t \in EngineType : Moves(task, t))
<1> USE DEF OnlyInv
<1>1. ASSUME UNCHANGED <<engines, requested>>
      PROVE  OnlyInv' /\ \A u \in EngineType : requested'[u] = requested[u] /\ Current'[u] = Current[u]
  BY <1>1, StayShrinks DEF Shrinks
<1>2. CASE UNCHANGED <<engines, requested, delayed, requests>>
  BY <1>1, <1>2 DEF Passes
<1>3. ASSUME requested' = requested, DOMAIN engines' = DOMAIN engines, TypedInv',
             \A e \in DOMAIN engines : engines'[e].type = engines[e].type
      PROVE  OnlyInv'
  BY <1>3
<1>4. CASE task.op = "start"
  <2> DEFINE t == task.type
  <2>1. t \in EngineType /\ startWebEngine(ok, t)
    BY <1>4, HandleCases
  <2> HIDE DEF t
  <2>2. CASE /\ requested[t] = NoEngine /\ delayed' = delayed
             /\ requests' = requests \/ requests' = Append(requests, t)
             /\ engines' = Append(engines, [inst |-> NULL, type |-> t, wnds |-> {}])
             /\ requested' = [requested EXCEPT ![t] = Len(engines')]
    <3> DEFINE r == [inst |-> NULL, type |-> t, wnds |-> {}]
    <3>1. r \in Engine /\ r.inst = NULL /\ r.type = t
      BY <2>1 DEF Engine, Ptr
    <3> HIDE DEF r
    <3>2. /\ Len(engines') = Len(engines) + 1 /\ engines' \in Seq(Engine)
          /\ \A k \in DOMAIN engines : engines'[k] = engines[k]
          /\ engines'[Len(engines) + 1] = r
      BY <2>2, <3>1, EngineFacts, AppendProperties DEF r
    <3>3. DOMAIN engines' = 1 .. Len(engines) + 1
      BY <3>2, LenProperties
    <3>4. /\ requested'[t] = Len(engines) + 1
          /\ \A u \in EngineType : u # t => requested'[u] = requested[u]
      BY <2>1, <2>2, <3>2 DEF TypeOK
    <3>5. TypedInv' /\ KeepsOthers(t)
      BY <2>1, StartShrinks DEF Shrinks
    <3>6. \A e \in DOMAIN engines : engines[e].type # t
      BY <2>2, EngineFacts
    <3>7. \A e \in DOMAIN engines' : requested'[engines'[e].type] = e
      BY <3>1, <3>2, <3>3, <3>4, <3>6, EngineFacts
    <3>8. requested'[t] # NoEngine /\ Current'[t] = NULL
      BY <2>1, <3>1, <3>2, <3>4, EngineFacts DEF Current, NoEngine
    <3> QED
      BY <2>1, <2>2, <3>5, <3>7, <3>8 DEF Moves
  <2> QED
    BY <1>2, <2>1, <2>2 DEF startWebEngine, Idle, Requested, IsRequested
<1>5. CASE task.op = "notify"
  <2> DEFINE t == task.type
  <2>1. t \in EngineType /\ webInstanceNotify(ok, t) /\ task = [op |-> "notify", type |-> t]
    <3>1. t \in EngineType /\ webInstanceNotify(ok, t)
      BY <1>5, HandleCases
    <3>2. \A x \in Retry : x.op = "reConnEngine"
      BY DEF Retry
    <3> QED
      BY <1>5, <3>1, <3>2 DEF Task
  <2>2. task \in Brings[t]
    BY <2>1, BringsFacts
  <2>3. requested[t] # NoEngine /\ Current[t] = NULL /\ requested[t] \in DOMAIN engines
    BY <2>1, <2>2, CurrentFacts DEF Wanted, Placed, Connected
  <2> HIDE DEF t
  <2>4. ASSUME NEW i \in Fresh, NotifyConnected(t, i)
        PROVE  OnlyInv' /\ \E u \in EngineType : Moves(task, u)
    <3>1. i \in Ptr /\ engines' = [engines EXCEPT ![requested[t]].inst = i]
          /\ UNCHANGED <<requested, delayed, requests>>
      BY <2>4, ConnType DEF NotifyConnected, Ptr
    <3>2. /\ DOMAIN engines' = DOMAIN engines
          /\ \A e \in DOMAIN engines : engines'[e].type = engines[e].type
      BY <2>3, <3>1, SetInst, EngineFacts
    <3>3. /\ TypedInv'
          /\ \A u \in EngineType : Current'[u] = IF requested[u] = requested[t] THEN i ELSE Current[u]
      BY <2>3, <3>1, SetCurrent
    <3>4. KeepsOthers(t)
      BY <2>1, <2>3, <3>1, <3>3 DEF KeepsOthers, TypedInv
    <3> QED
      BY <1>3, <2>1, <2>2, <2>3, <3>1, <3>2, <3>3, <3>4 DEF Moves
  <2>5. CASE NotifyFailed(t)
    <3>1. /\ UNCHANGED <<engines, requested, requests>>
          /\ PostDelayTask([op |-> "reConnEngine", engine |-> requested[t]])
      BY <2>5 DEF NotifyFailed
    <3>2. engines[requested[t]].type = t
      BY <2>1, <2>3 DEF TypedInv
    <3>3. KeepsOthers(t) /\ Current'[t] = NULL /\ requested'[t] # NoEngine
      BY <1>1, <2>1, <2>3, <3>1 DEF KeepsOthers
    <3> QED
      BY <1>1, <2>1, <2>2, <2>3, <3>1, <3>2, <3>3 DEF Moves
  <2> QED
    BY <1>2, <2>1, <2>4, <2>5 DEF webInstanceNotify
<1>6. CASE task.op = "error"
  <2>1. task.inst \in Inst /\ webContainerError(task.inst)
    BY <1>6, HandleCases
  <2>2. requests' = requests /\ requested' = requested
    BY <2>1, ErrorCases
  <2>3. ASSUME NEW e \in EnginesOn(task.inst), engines' = [engines EXCEPT ![e].inst = NULL],
               PostDelayTask([op |-> "reConnEngine", engine |-> e])
        PROVE  OnlyInv' /\ \E t \in EngineType : Moves(task, t)
    <3>1. PICK t \in EngineType : requested[t] = e /\ e \in DOMAIN engines
                                  /\ engines[e].inst = task.inst /\ e # NoEngine
      BY EnginesOnType DEF IsRequested
    <3>2. /\ TypedInv'
          /\ \A u \in EngineType : Current'[u] = IF requested[u] = e THEN NULL ELSE Current[u]
      BY <2>2, <2>3, <3>1, SetCurrent DEF Ptr
    <3>3. /\ DOMAIN engines' = DOMAIN engines
          /\ \A k \in DOMAIN engines : engines'[k].type = engines[k].type
      BY <2>3, <3>1, SetInst, EngineFacts DEF Ptr
    <3>4. Current[t] # NULL /\ engines[e].type = t
      BY <2>1, <3>1, CurrentFacts, SrpcAssumption DEF TypedInv
    <3>5. KeepsOthers(t)
      BY <2>2, <3>1, <3>2 DEF KeepsOthers, TypedInv
    <3>6. Moves(task, t)
      BY <2>2, <2>3, <3>1, <3>2, <3>4, <3>5 DEF Moves
    <3> QED
      BY <1>3, <2>2, <3>2, <3>3, <3>6
  <2>4. CASE UNCHANGED engines /\ (delayed' = delayed \/ PostDelayTask([op |-> "reConnContainer"]))
    BY <1>1, <2>2, <2>4 DEF Passes
  <2> QED
    BY <2>1, <2>3, <2>4, ErrorCases
<1>7. CASE task.op = "reConnContainer"
  <2>1. UNCHANGED <<engines, requested, requests>>
        /\ (delayed' = delayed \/ PostDelayTask([op |-> "reConnContainer"]))
    BY <1>7, HandleCases DEF reConnWebContainer, Idle
  <2> QED
    BY <1>1, <2>1 DEF Passes
<1>8. CASE task.op = "reConnEngine"
  <2> DEFINE e == task.engine
             t == engines[task.engine].type
  <2>1. task \in Retry /\ e \in DOMAIN engines /\ t \in EngineType /\ reConnWebEngine(ok, e)
    BY <1>8, HandleCases, EngineFacts
  <2>2. task \in Brings[t]
    BY <2>1, BringsFacts
  <2>3. requested[t] = e /\ Current[t] = NULL /\ engines[e].inst = NULL /\ requested[t] # NoEngine
    BY <2>1, <2>2, CurrentFacts DEF Wanted, Placed, Connected
  <2>4. Shrinks /\ KeepsOthers(t)
    BY <2>1, ReConnShrinks
  <2>5. CASE ~Idle
    <3>1. /\ engines' = engines \/ engines' = [engines EXCEPT ![e].inst = NULL]
          /\ requested' = requested \/ requested' = [requested EXCEPT ![t] = e]
          /\ \/ PostDelayTask([op |-> "reConnEngine", engine |-> e]) /\ requests' = requests
             \/ delayed' = delayed /\ requests' \in {requests, Append(requests, t)}
      BY <2>1, <2>5 DEF reConnWebEngine, Requested, AsyncCall
    <3>2. requested' = requested
      BY <2>1, <2>3, <3>1 DEF TypeOK
    <3>3. /\ DOMAIN engines' = DOMAIN engines
          /\ \A k \in DOMAIN engines : engines'[k].type = engines[k].type
      <4> HIDE DEF t, e
      <4>1. CASE engines' = [engines EXCEPT ![e].inst = NULL]
        BY <2>1, <4>1, SetInst, EngineFacts DEF Ptr
      <4> QED
        BY <3>1, <4>1
    <3>4. Current'[t] = NULL
      BY <2>1, <2>3, <2>4 DEF Shrinks
    <3>5. Moves(task, t)
      <4> HIDE DEF t, e
      <4>1. engines[e].type = t
        BY DEF t, e
      <4> QED
        BY <2>1, <2>2, <2>3, <2>4, <3>1, <3>2, <3>4, <4>1 DEF Moves
    <3> QED
      BY <1>3, <2>1, <2>4, <3>2, <3>3, <3>5 DEF Shrinks
  <2>6. CASE Idle
    BY <1>2, <2>6 DEF Idle
  <2> QED
    BY <2>5, <2>6
<1>9. ASSUME NEW t \in EngineType, NEW w \in Wnd, loadUrl(ok, t, w)
      PROVE  OnlyInv' /\ (Passes \/ \E u \in EngineType : Moves(task, u))
  <2> DEFINE e == requested[t]
  <2>1. CASE ~Idle
    <3>1. /\ IsRequested(t) /\ UNCHANGED <<requested, delayed, requests>>
          /\ engines' = [engines EXCEPT ![e].wnds = @ \cup {w}]
      BY <1>9, <2>1 DEF loadUrl
    <3>2. e \in DOMAIN engines
      BY <3>1, EngineFacts
    <3>3. Shrinks /\ \A u \in EngineType : Current'[u] = Current[u]
      BY <1>9, LoadShrinks
    <3> HIDE DEF e
    <3>4. /\ DOMAIN engines' = DOMAIN engines
          /\ \A k \in DOMAIN engines : k # e => engines'[k] = engines[k]
          /\ engines'[e].type = engines[e].type
      BY <3>1, <3>2, AddWnd, EngineFacts
    <3>5. OnlyInv'
      BY <1>3, <3>1, <3>3, <3>4 DEF Shrinks
    <3> QED
      BY <3>1, <3>3, <3>5 DEF Passes
  <2> QED
    BY <1>2, <2>1 DEF Idle
<1> QED
  BY <1>4, <1>5, <1>6, <1>7, <1>8, <1>9, HandleCases

LEMMA SeqKept ==
    ASSUME NEW seq \in Seq(Task), \A x \in TasksOf(seq) : x \in Retry => x.engine \in DOMAIN engines,
           DOMAIN engines \subseteq DOMAIN engines',
           \A e \in DOMAIN engines : engines'[e].type = engines[e].type,
           NEW t \in EngineType
    PROVE  /\ TasksOf(seq) \cap Brings'[t] = TasksOf(seq) \cap Brings[t]
           /\ AtMostOne(seq, Brings[t]) => AtMostOne(seq, Brings'[t])
<1>1. \A x \in TasksOf(seq) : x \in Brings'[t] <=> x \in Brings[t]
  BY BringsKept
<1>2. \A n \in DOMAIN seq : seq[n] \in TasksOf(seq)
  BY DEF TasksOf
<1> QED
  BY <1>1, <1>2 DEF AtMostOne

\* A task that is taken leaves at most one connection, or one thing that
\* brings it, for each type.
LEMMA TaskPlaced ==
    ASSUME TypeOK, KeepsTypes, PlacedInv, NEW task, Passes \/ \E t \in EngineType : Moves(task, t),
           \A e \in DOMAIN engines : engines'[e].type = engines[e].type,
           \A u \in EngineType : task \in Brings[u] => u \notin Placed
    PROVE  /\ PlacedInv' /\ Wanted \subseteq Wanted'
           /\ \A u \in Placed' : u \in Placed \/ u \notin Wanted \/ task \in Brings[u]
<1>1. /\ delayed \in Seq(Task) /\ requests \in Seq(EngineType)
      /\ \A x \in TasksOf(delayed) : x \in Retry => x.engine \in DOMAIN engines
  BY DEF TypeOK, Pending
<1>2. DOMAIN engines \subseteq DOMAIN engines'
  BY DEF KeepsTypes
<1>3. \A u \in EngineType :
          /\ TasksOf(delayed) \cap Brings'[u] = TasksOf(delayed) \cap Brings[u]
          /\ AtMostOne(delayed, Brings'[u])
  BY <1>1, <1>2, SeqKept DEF PlacedInv
<1>4. ASSUME NEW u \in EngineType, delayed' = delayed
      PROVE  (u \in InDelayed' <=> u \in InDelayed) /\ AtMostOne(delayed, Brings[u])'
  BY <1>3, <1>4 DEF InDelayed, AtMostOne
<1>5. ASSUME NEW x \in Task, delayed' = Append(delayed, x), NEW u \in EngineType,
             x \notin Brings'[u]
      PROVE  (u \in InDelayed' <=> u \in InDelayed) /\ AtMostOne(delayed, Brings[u])'
  <2>1. AtMostOne(Append(delayed, x), Brings'[u])
    BY <1>1, <1>3, <1>5, AppendOne
  <2>2. TasksOf(delayed') = TasksOf(delayed) \cup {x}
    BY <1>1, <1>5, AppendTask
  <2> QED
    BY <1>3, <1>5, <2>1, <2>2 DEF InDelayed, AtMostOne
<1>6. ASSUME NEW u \in EngineType, requests' = requests
      PROVE  (u \in InRequests' <=> u \in InRequests) /\ AtMostOne(requests, {u})'
  BY <1>6 DEF InRequests, PlacedInv, AtMostOne
<1>7. CASE Passes
  <2>1. ASSUME PostDelayTask([op |-> "reConnContainer"]), NEW u \in EngineType
        PROVE  (u \in InDelayed' <=> u \in InDelayed) /\ AtMostOne(delayed, Brings[u])'
    <3> DEFINE y == [op |-> "reConnContainer"]
    <3>1. y \in Task /\ delayed' = Append(delayed, y) /\ y.op = "reConnContainer"
      BY <2>1, TaskKinds DEF PostDelayTask
    <3> HIDE DEF y
    <3>2. y \notin Brings'[u]
      <4>1. y \notin Retry /\ y # [op |-> "notify", type |-> u]
        BY <3>1 DEF Retry
      <4> QED
        BY <4>1 DEF Brings
    <3> QED
      BY <1>5, <3>1, <3>2
  <2>2. \A u \in EngineType :
            /\ (u \in InDelayed' <=> u \in InDelayed) /\ AtMostOne(delayed, Brings[u])'
            /\ (u \in InRequests' <=> u \in InRequests) /\ AtMostOne(requests, {u})'
            /\ (u \in Connected' <=> u \in Connected) /\ (u \in Wanted' <=> u \in Wanted)
    BY <1>4, <1>6, <1>7, <2>1 DEF Passes, Connected, Wanted
  <2>3. Placed' = Placed /\ Wanted' = Wanted /\ PlacedInv'
    BY <2>2 DEF PlacedInv, Placed, InDelayed, InRequests, Connected, Wanted, AtMostOne
  <2> QED
    BY <2>3
<1>8. ASSUME NEW t \in EngineType, Moves(task, t)
      PROVE  /\ PlacedInv' /\ Wanted \subseteq Wanted'
             /\ \A u \in Placed' : u \in Placed \/ u \notin Wanted \/ task \in Brings[u]
  <2>1. t \notin InDelayed /\ t \notin InRequests
        /\ (t \in Placed \/ t \notin Wanted \/ task \in Brings[t])
    BY <1>8 DEF Moves, PlacedInv, Placed, Connected, Wanted
  <2>2. t \in Wanted' /\ \A u \in EngineType : u # t =>
            (u \in Connected' <=> u \in Connected) /\ (u \in Wanted' <=> u \in Wanted)
    BY <1>8 DEF Moves, KeepsOthers, Connected, Wanted
  <2>3. ASSUME NEW e \in DOMAIN engines, engines[e].type = t,
               PostDelayTask([op |-> "reConnEngine", engine |-> e])
        PROVE  /\ \A u \in EngineType : AtMostOne(delayed, Brings[u])'
               /\ \A u \in EngineType : u # t => (u \in InDelayed' <=> u \in InDelayed)
    <3> DEFINE y == [op |-> "reConnEngine", engine |-> e]
    <3>1. y \in Task /\ y \in Retry /\ delayed' = Append(delayed, y) /\ y.engine = e
      BY <2>3, TaskKinds, EngineFacts DEF PostDelayTask
    <3> HIDE DEF y
    <3>2. \A u \in EngineType : u # t => y \notin Brings'[u]
      <4>1. \A u \in EngineType : y \in Brings[u] => u = t
        BY <2>3, <3>1, BringsFacts
      <4> QED
        BY <1>2, <3>1, <4>1, BringsKept
    <3>3. AtMostOne(Append(delayed, y), Brings'[t])
      <4>1. TasksOf(delayed) \cap Brings'[t] = {}
        BY <1>3, <2>1 DEF InDelayed
      <4> QED
        BY <1>1, <1>3, <3>1, <4>1, AppendOne
    <3>4. AtMostOne(delayed, Brings[t])'
      BY <3>1, <3>3 DEF AtMostOne
    <3> QED
      BY <1>5, <3>1, <3>2, <3>4
  <2>4. ASSUME requests' = Append(requests, t)
        PROVE  /\ \A u \in EngineType : AtMostOne(requests, {u})'
               /\ \A u \in EngineType : u # t => (u \in InRequests' <=> u \in InRequests)
    <3>1. TasksOf(requests') = TasksOf(requests) \cup {t}
      BY <1>1, <2>4, AppendTask
    <3>2. \A u \in EngineType : AtMostOne(requests, {u})
      BY DEF PlacedInv
    <3>3. t \in {t} => TasksOf(requests) \cap {t} = {}
      BY <2>1 DEF InRequests
    <3>4. \A u \in EngineType : AtMostOne(Append(requests, t), {u})
      BY <1>1, <3>2, <3>3, AppendOne
    <3> QED
      BY <2>4, <3>1, <3>4 DEF InRequests, AtMostOne
  <2>5. CASE delayed' = delayed /\ requests' = requests
    <3>1. \A u \in EngineType :
              /\ (u \in InDelayed' <=> u \in InDelayed) /\ AtMostOne(delayed, Brings[u])'
              /\ (u \in InRequests' <=> u \in InRequests) /\ AtMostOne(requests, {u})'
      BY <1>4, <1>6, <2>5
    <3> QED
      BY <2>1, <2>2, <3>1 DEF PlacedInv, Placed, InDelayed, InRequests, Connected, Wanted, AtMostOne
  <2>6. CASE Current'[t] = NULL /\ requests' = requests
             /\ \E e \in DOMAIN engines :
                   engines[e].type = t /\ PostDelayTask([op |-> "reConnEngine", engine |-> e])
    <3>1. /\ \A u \in EngineType : AtMostOne(delayed, Brings[u])'
          /\ \A u \in EngineType : u # t => (u \in InDelayed' <=> u \in InDelayed)
          /\ \A u \in EngineType : (u \in InRequests' <=> u \in InRequests) /\ AtMostOne(requests, {u})'
      BY <1>6, <2>3, <2>6
    <3>2. t \notin Connected'
      BY <2>6 DEF Connected
    <3> QED
      BY <2>1, <2>2, <3>1, <3>2 DEF PlacedInv, Placed, InDelayed, InRequests, Connected, Wanted,
         AtMostOne
  <2>7. CASE Current'[t] = NULL /\ delayed' = delayed /\ requests' = Append(requests, t)
    <3>1. /\ \A u \in EngineType : AtMostOne(requests, {u})'
          /\ \A u \in EngineType : u # t => (u \in InRequests' <=> u \in InRequests)
          /\ \A u \in EngineType : (u \in InDelayed' <=> u \in InDelayed) /\ AtMostOne(delayed, Brings[u])'
      BY <1>4, <2>4, <2>7
    <3>2. t \notin Connected'
      BY <2>7 DEF Connected
    <3> QED
      BY <2>1, <2>2, <3>1, <3>2 DEF PlacedInv, Placed, InDelayed, InRequests, Connected, Wanted,
         AtMostOne
  <2> QED
    BY <1>8, <2>5, <2>6, <2>7 DEF Moves
<1> QED
  BY <1>7, <1>8

\* A connection a task makes is the broker's or recorded; it closes those it
\* takes out of the map.
LEMMA TaskRecorded ==
    ASSUME TypeOK, OnlyInv, RecordedInv, NEW task \in Task, NEW ok, Handle(task, ok),
           task.op # "stop", ctl # "down", ctl' = ctl,
           task \in Retry => task.engine \in DOMAIN engines,
           \A u \in EngineType : task \in Brings[u] => u \in Wanted \ Placed
    PROVE  RecordedInv'
<1> USE DEF OnlyInv
<1> DEFINE Goal == \A i \in Inst : conn'[i] = "open" /\ i # instWC' =>
                       \E t \in EngineType : Current'[t] = i
<1>1. \A i \in Inst : conn[i] = "open" /\ i # instWC =>
          i # NULL /\ \E t \in EngineType : Current[t] = i
  BY SrpcAssumption DEF RecordedInv
<1>2. ASSUME UNCHANGED <<instWC, conn>>, \A u \in EngineType : Current[u] # NULL => Current'[u] = Current[u]
      PROVE  Goal
  BY <1>1, <1>2
<1> HIDE DEF Goal
<1>3. ASSUME NEW t \in EngineType, startWebEngine(ok, t), task.op = "start" PROVE Goal
  <2>1. UNCHANGED <<instWC, conn>> /\ (requested[t] = NoEngine \/ UNCHANGED <<engines, requested>>)
    BY <1>3 DEF startWebEngine, Idle, srpcVars, IsRequested
  <2>2. \A u \in EngineType : Current[u] # NULL => Current'[u] = Current[u]
    BY <1>3, <2>1, StartShrinks, StayShrinks, CurrentFacts DEF KeepsOthers
  <2> QED
    BY <1>2, <2>1, <2>2
<1>4. ASSUME task.op = "notify" PROVE Goal
  <2> DEFINE t == task.type
  <2>1. t \in EngineType /\ webInstanceNotify(ok, t) /\ task = [op |-> "notify", type |-> t]
    <3>1. t \in EngineType /\ webInstanceNotify(ok, t)
      BY <1>4, HandleCases
    <3>2. \A x \in Retry : x.op = "reConnEngine"
      BY DEF Retry
    <3> QED
      BY <1>4, <3>1, <3>2 DEF Task
  <2>2. requested[t] # NoEngine /\ Current[t] = NULL /\ requested[t] \in DOMAIN engines
        /\ engines[requested[t]].inst = NULL
    <3>1. task \in Brings[t]
      BY <2>1, BringsFacts
    <3> QED
      BY <2>1, <3>1, CurrentFacts DEF Wanted, Placed, Connected
  <2> HIDE DEF t
  <2>3. ASSUME NEW i \in Fresh, NotifyConnected(t, i) PROVE Goal
    <3>1. /\ i \in Ptr /\ i \in Inst /\ i # NULL
          /\ engines' = [engines EXCEPT ![requested[t]].inst = i]
          /\ conn' = [Destroyed({NULL}) EXCEPT ![i] = "open"]
          /\ UNCHANGED <<requested, instWC>>
      BY <2>2, <2>3, ConnType, SrpcAssumption DEF NotifyConnected, Ptr
    <3>2. \A u \in EngineType : Current'[u] = IF requested[u] = requested[t] THEN i ELSE Current[u]
      BY <2>2, <3>1, SetCurrent
    <3>3. Current'[t] = i /\ \A u \in EngineType : Current[u] # NULL => Current'[u] = Current[u]
      BY <2>1, <2>2, <3>2, CurrentFacts DEF TypedInv
    <3>4. \A j \in Inst : j # i /\ conn'[j] = "open" => conn[j] = "open"
      BY <3>1, ConnType DEF Destroyed
    <3> QED
      BY <1>1, <2>1, <3>1, <3>3, <3>4 DEF Goal
  <2>4. ASSUME UNCHANGED <<engines, requested, instWC, conn>> PROVE Goal
    <3>1. \A u \in EngineType : Current'[u] = Current[u]
      BY <2>4, StayShrinks
    <3> QED
      BY <1>2, <2>4, <3>1
  <2> QED
    BY <2>1, <2>3, <2>4 DEF webInstanceNotify, NotifyFailed, srpcVars
<1>5. ASSUME NEW i \in Inst, webContainerError(i) PROVE Goal
  <2>1. conn' = Destroyed({i}) /\ requested' = requested /\ (instWC' = instWC \/ i = instWC)
    BY <1>5, ErrorCases
  <2>2. \A j \in Inst : conn'[j] = "open" => j # i /\ conn[j] = "open"
    BY <2>1 DEF Destroyed, Held
  <2>3. \A j \in Inst : conn'[j] = "open" /\ j # instWC' => j # i /\ conn[j] = "open" /\ j # instWC
    BY <2>1, <2>2
  <2>4. \A u \in EngineType : Current[u] # NULL /\ Current[u] # i => Current'[u] = Current[u]
    <3>1. CASE engines' = engines
      BY <2>1, <3>1, StayShrinks
    <3>2. ASSUME NEW e \in EnginesOn(i), engines' = [engines EXCEPT ![e].inst = NULL]
          PROVE  \A u \in EngineType : Current[u] # NULL /\ Current[u] # i => Current'[u] = Current[u]
      <4>1. e \in DOMAIN engines /\ engines[e].inst = i
        BY EnginesOnType
      <4>2. \A u \in EngineType : Current'[u] = IF requested[u] = e THEN NULL ELSE Current[u]
        BY <2>1, <3>2, <4>1, SetCurrent DEF Ptr
      <4> QED
        BY <4>1, <4>2, CurrentFacts
    <3> QED
      BY <1>5, <3>1, <3>2, ErrorCases
  <2> QED
    BY <1>1, <2>3, <2>4 DEF Goal
<1>6. ASSUME reConnWebContainer(ok) PROVE Goal
  <2>1. UNCHANGED <<engines, requested>>
    BY <1>6 DEF reConnWebContainer, Idle
  <2>2. \A u \in EngineType : Current'[u] = Current[u]
    BY <2>1, StayShrinks
  <2>3. ASSUME NEW i \in Fresh, instWC = NULL, instWC' = i, conn' = Opened({i}) PROVE Goal
    <3>1. \A j \in Inst : conn'[j] = "open" /\ j # i => conn[j] = "open" /\ j # instWC
      BY <2>3, SrpcAssumption DEF Opened
    <3> QED
      BY <1>1, <2>2, <2>3, <3>1 DEF Goal
  <2> QED
    BY <1>2, <1>6, <2>2, <2>3 DEF reConnWebContainer, Idle, srpcVars
<1>7. ASSUME task \in Retry, reConnWebEngine(ok, task.engine) PROVE Goal
  <2> DEFINE e == task.engine
             t == engines[task.engine].type
  <2>1. e \in DOMAIN engines /\ t \in EngineType /\ task \in Brings[t]
    BY <1>7, EngineFacts, BringsFacts
  <2>2. Current[t] = NULL /\ KeepsOthers(t)
    BY <1>7, <2>1, ReConnShrinks DEF Wanted, Placed, Connected
  <2>3. UNCHANGED <<instWC, conn>>
    BY <1>7 DEF reConnWebEngine, Idle, srpcVars
  <2> HIDE DEF e, t
  <2> QED
    BY <1>2, <2>1, <2>2, <2>3 DEF KeepsOthers
<1>8. ASSUME NEW t \in EngineType, NEW w \in Wnd, loadUrl(ok, t, w) PROVE Goal
  <2>1. UNCHANGED <<instWC, conn>>
    BY <1>8 DEF loadUrl, Idle, srpcVars
  <2> QED
    BY <1>2, <1>8, <2>1, LoadShrinks
<1>9. Goal
  BY <1>3, <1>4, <1>5, <1>6, <1>7, <1>8, HandleCases
<1> QED
  BY <1>9 DEF Goal, RecordedInv

\* What a task posts is no stop.
LEMMA NoStopPosted ==
    ASSUME TypeOK, NEW task, Passes \/ \E t \in EngineType : Moves(task, t),
           NEW x \in TasksOf(delayed'), x \notin TasksOf(delayed)
    PROVE  x.op # "stop"
<1>1. \/ PostDelayTask([op |-> "reConnContainer"])
      \/ \E e \in DOMAIN engines : PostDelayTask([op |-> "reConnEngine", engine |-> e])
  BY DEF Passes, Moves
<1>2. ASSUME NEW y \in Task, y.op # "stop", delayed' = Append(delayed, y) PROVE x.op # "stop"
  <2>1. TasksOf(delayed') = TasksOf(delayed) \cup {y}
    BY <1>2, AppendTask DEF TypeOK
  <2> QED
    BY <1>2, <2>1
<1>3. CASE PostDelayTask([op |-> "reConnContainer"])
  <2> DEFINE y == [op |-> "reConnContainer"]
  <2>1. y \in Task /\ y.op # "stop" /\ delayed' = Append(delayed, y)
    BY <1>3, TaskKinds DEF PostDelayTask
  <2> QED
    BY <1>2, <2>1
<1>4. ASSUME NEW e \in DOMAIN engines, PostDelayTask([op |-> "reConnEngine", engine |-> e])
      PROVE  x.op # "stop"
  <2> DEFINE y == [op |-> "reConnEngine", engine |-> e]
  <2>1. y \in Task /\ y.op # "stop" /\ delayed' = Append(delayed, y)
    BY <1>4, TaskKinds, EngineFacts DEF PostDelayTask
  <2> QED
    BY <1>2, <2>1
<1> QED
  BY <1>1, <1>3, <1>4

OrphanParts == NoStop /\ OnlyInv /\ PlacedInv /\ DueInv /\ RecordedInv

\* The steps that run a task, x.
LEMMA RunOrphan ==
    ASSUME TypeOK, OrphanParts, Worker \/ LateTask
    PROVE  OrphanParts'
<1> USE DEF OrphanParts
<1> DEFINE x == IF Worker THEN Head(queue) ELSE late
<1>1. /\ queue \in Seq(Task) /\ delayed \in Seq(Task)
      /\ \A y \in Pending \cup {late} : y \in Retry => y.engine \in DOMAIN engines
  BY DEF TypeOK
<1>2. PICK ok : /\ x \in Task /\ x \in (Pending \cup {late}) /\ Handle(x, ok) /\ KeepsTypes
                /\ ctl' = ctl /\ ctl # "down"
                /\ TasksOf(queue') \subseteq TasksOf(queue) /\ late' \in {late, NoTask}
  <2>1. CASE Worker
    <3>1. x = Head(queue) /\ Handle(x, initialized # 0) /\ ctl' = ctl /\ ctl # "down"
      BY <2>1 DEF Worker
    <3>2. x \in TasksOf(queue)
      BY <2>1, <3>1, WorkerRuns
    <3> QED
      BY <2>1, <3>1, <3>2, WorkerRuns DEF Pending
  <2>2. CASE LateTask /\ ~Worker
    <3>1. x = late /\ (\E ok \in BOOLEAN : Handle(x, ok)) /\ ctl' = ctl /\ ctl # "down"
      BY <2>2 DEF LateTask
    <3>2. x \in Task
      BY <2>2, <3>1 DEF LateTask, TypeOK
    <3> QED
      BY <2>2, <3>1, <3>2, LateRuns
  <2> QED
    BY <2>1, <2>2
<1>3. \A u \in EngineType : x \in Brings[u] => u \in Wanted \ Placed
  <2>1. CASE Worker
    <3>1. x = Head(queue) /\ Head(queue) \in TasksOf(queue)
      BY <2>1, WorkerRuns
    <3> QED
      BY <3>1 DEF InQueue, DueInv
  <2>2. CASE ~Worker
    BY <2>2 DEF InLate, DueInv
  <2> QED
    BY <2>1, <2>2
<1> HIDE DEF x
<1>4. (x \in Retry => x.engine \in DOMAIN engines) /\ x.op # "stop"
  BY <1>1, <1>2 DEF NoStop
<1>5. OnlyInv' /\ (Passes \/ \E t \in EngineType : Moves(x, t))
  BY <1>2, <1>3, <1>4, TaskMovesOne
<1>6. RecordedInv'
  BY <1>2, <1>3, <1>4, TaskRecorded
<1>7. /\ DOMAIN engines \subseteq DOMAIN engines'
      /\ \A e \in DOMAIN engines : engines'[e].type = engines[e].type
  BY <1>2, <1>4, TaskForgets DEF KeepsTypes, OnlyInv
<1>8. /\ PlacedInv' /\ Wanted \subseteq Wanted'
      /\ \A u \in Placed' : u \in Placed \/ u \notin Wanted \/ x \in Brings[u]
  BY <1>2, <1>3, <1>5, <1>7, TaskPlaced
<1>9. NoStop'
  <2>1. \A y \in TasksOf(delayed') : y \in TasksOf(delayed) \/ y.op # "stop"
    BY <1>5, NoStopPosted
  <2>2. NoTask \notin Task
    BY InvokeQueueAssumption
  <2> QED
    BY <1>2, <2>1, <2>2 DEF NoStop, Pending
<1>10. \A u \in EngineType :
          /\ TasksOf(queue) \cap Brings'[u] = TasksOf(queue) \cap Brings[u]
          /\ AtMostOne(queue, Brings'[u])
  BY <1>1, <1>7, SeqKept DEF Pending, DueInv
<1>11. \A u \in EngineType : late \in Brings'[u] <=> late \in Brings[u]
  BY <1>1, <1>7, BringsKept
<1>12. \A u \in EngineType : (u \in InQueue' => u \in InQueue) /\ (u \in InLate' => u \in InLate)
  <2>1. \A u \in EngineType : NoTask \notin Brings'[u]
    BY InvokeQueueAssumption DEF Brings
  <2> QED
    BY <1>2, <1>10, <1>11, <2>1 DEF InQueue, InLate
<1>13. \A u \in EngineType : x \in Brings[u] => u \notin InQueue' /\ u \notin InLate'
  <2>1. CASE Worker
    <3>1. x = Head(queue) /\ Head(queue) \in TasksOf(queue) /\ queue # <<>> /\ queue' = Tail(queue)
      BY <2>1, WorkerRuns DEF Worker, x
    <3>2. ASSUME NEW u \in EngineType, x \in Brings[u] PROVE u \notin InQueue' /\ u \notin InLate'
      <4>1. u \in InQueue /\ u \notin InLate
        BY <3>1, <3>2 DEF InQueue, DueInv
      <4>2. AtMostOne(queue, Brings[u])
        BY DEF DueInv
      <4>3. TasksOf(queue') \cap Brings[u] = {}
        BY <1>1, <3>1, <3>2, <4>2, TailOne
      <4>4. TasksOf(queue') \cap Brings'[u] = {}
        BY <1>2, <1>10, <4>3
      <4> QED
        BY <1>12, <4>1, <4>4 DEF InQueue
    <3> QED
      BY <3>2
  <2>2. CASE LateTask /\ ~Worker
    <3>1. x = late /\ late' = NoTask
      BY <2>2 DEF x, LateTask
    <3>2. ASSUME NEW u \in EngineType, x \in Brings[u] PROVE u \notin InQueue' /\ u \notin InLate'
      <4>1. u \in InLate /\ u \notin InQueue
        BY <3>1, <3>2 DEF InLate, DueInv
      <4>2. NoTask \notin Brings'[u]
        BY InvokeQueueAssumption DEF Brings
      <4> QED
        BY <1>12, <3>1, <4>1, <4>2 DEF InLate
    <3> QED
      BY <3>2
  <2> QED
    BY <2>1, <2>2
<1>14. \A u \in EngineType : AtMostOne(queue, Brings[u])'
  <2>1. CASE Worker
    <3>1. queue # <<>> /\ queue' = Tail(queue)
      BY <2>1 DEF Worker
    <3>2. \A u \in EngineType : AtMostOne(Tail(queue), Brings'[u])
      BY <1>1, <1>10, <3>1, TailOne
    <3> QED
      BY <3>1, <3>2 DEF AtMostOne
  <2>2. CASE LateTask
    <3>1. queue' = queue
      BY <2>2 DEF LateTask
    <3> QED
      BY <1>10, <3>1 DEF AtMostOne
  <2> QED
    BY <2>1, <2>2
<1>15. DueInv'
  <2>1. \A u \in Placed' : u \notin InQueue' /\ u \notin InLate'
    <3>1. ASSUME NEW u \in EngineType, u \in Placed' PROVE u \notin InQueue' /\ u \notin InLate'
      BY <1>8, <1>12, <1>13, <3>1 DEF DueInv
    <3>2. \A u \in Placed' : u \in EngineType
      BY DEF Placed, InDelayed, InRequests, Connected
    <3> QED
      BY <3>1, <3>2
  <2>2. InQueue' \subseteq InQueue /\ InLate' \subseteq InLate
    <3>1. InQueue' \subseteq EngineType /\ InLate' \subseteq EngineType
      BY DEF InQueue, InLate
    <3> QED
      BY <1>12, <3>1
  <2> QED
    BY <1>8, <1>14, <2>1, <2>2 DEF DueInv
<1> QED
  BY <1>5, <1>6, <1>8, <1>9, <1>15

\* The other steps leave the WebEngines, and where they are recorded.
LEMMA SameEngines ==
    ASSUME UNCHANGED <<engines, requested>>
    PROVE  /\ Brings' = Brings /\ Current' = Current /\ Wanted' = Wanted /\ Connected' = Connected
           /\ OnlyInv => OnlyInv'
BY DEF Brings, Current, Wanted, Connected, OnlyInv, TypedInv

\* A step of the environment's, or of the control, that moves no task.
LEMMA QuietPlaced ==
    ASSUME TypeOK, PlacedInv, DueInv, UNCHANGED <<engines, requested, queue, delayed, late>>,
           \/ requests' = requests
           \/ requests' = <<>>
           \/ requests # <<>> /\ requests' = Tail(requests)
    PROVE  PlacedInv' /\ DueInv'
<1>1. Brings' = Brings /\ Wanted' = Wanted /\ Connected' = Connected
  BY SameEngines
<1>2. requests \in Seq(EngineType) /\ \A u \in EngineType : AtMostOne(requests, {u})
  BY DEF TypeOK, PlacedInv
<1>3. TasksOf(requests') \subseteq TasksOf(requests)
  BY <1>2, TailTask, NoTasks
<1>4. \A u \in EngineType : AtMostOne(requests, {u})'
  BY <1>2, TailOne DEF AtMostOne
<1>5. InDelayed' = InDelayed /\ InQueue' = InQueue /\ InLate' = InLate
  BY <1>1 DEF InDelayed, InQueue, InLate
<1>6. InRequests' \subseteq InRequests
  BY <1>3 DEF InRequests
<1>7. \A u \in EngineType : AtMostOne(delayed, Brings[u])' /\ AtMostOne(queue, Brings[u])'
  BY <1>1 DEF PlacedInv, DueInv, AtMostOne
<1> QED
  BY <1>1, <1>4, <1>5, <1>6, <1>7 DEF PlacedInv, DueInv, Placed

\* Posting a task that brings nothing.
LEMMA PostPlaced ==
    ASSUME TypeOK, PlacedInv, DueInv, NEW x \in Task, x.op \notin {"notify", "reConnEngine"},
           Post(x), UNCHANGED <<engines, requested, delayed, late, requests>>
    PROVE  PlacedInv' /\ DueInv'
<1>1. Brings' = Brings /\ Wanted' = Wanted /\ Connected' = Connected
  BY SameEngines
<1>2. /\ queue \in Seq(Task) /\ queue' = Append(queue, x)
      /\ \A u \in EngineType : AtMostOne(queue, Brings[u])
  BY DEF TypeOK, DueInv, Post
<1>3. \A u \in EngineType : x \notin Brings[u]
  BY BringsFacts
<1>4. TasksOf(queue') = TasksOf(queue) \cup {x}
  BY <1>2, AppendTask
<1>5. InQueue' = InQueue /\ InDelayed' = InDelayed /\ InLate' = InLate /\ InRequests' = InRequests
  BY <1>1, <1>3, <1>4 DEF InQueue, InDelayed, InLate, InRequests
<1>6. \A u \in EngineType : AtMostOne(queue, Brings[u])'
  <2>1. \A u \in EngineType : AtMostOne(Append(queue, x), Brings[u])
    BY <1>2, <1>3, AppendOne
  <2> QED
    BY <1>1, <1>2, <2>1 DEF AtMostOne
<1>7. \A u \in EngineType : AtMostOne(delayed, Brings[u])' /\ AtMostOne(requests, {u})'
  BY <1>1 DEF PlacedInv, AtMostOne
<1> QED
  BY <1>1, <1>5, <1>6, <1>7 DEF PlacedInv, DueInv, Placed

\* Two moves to the queue: a request is answered, a delayed task is due.
LEMMA AnswerPlaced ==
    ASSUME TypeOK, PlacedInv, DueInv, WebInstanceNotify
    PROVE  PlacedInv' /\ DueInv'
<1> DEFINE t == Head(requests)
           x == [op |-> "notify", type |-> t]
<1>1. /\ UNCHANGED <<engines, requested, delayed, late>> /\ requests # <<>>
      /\ requests' = Tail(requests) /\ queue' = Append(queue, x)
  BY DEF WebInstanceNotify, state, Post
<1>2. Brings' = Brings /\ Wanted' = Wanted /\ Connected' = Connected
  BY <1>1, SameEngines
<1>3. /\ queue \in Seq(Task) /\ requests \in Seq(EngineType)
      /\ \A u \in EngineType : AtMostOne(queue, Brings[u]) /\ AtMostOne(requests, {u})
  BY DEF TypeOK, PlacedInv, DueInv
<1>4. t \in EngineType /\ TasksOf(requests) = TasksOf(requests') \cup {t}
  BY <1>1, <1>3, TailTask
<1>5. x \in Task /\ x \in Brings[t] /\ \A u \in EngineType : x \in Brings[u] => u = t
  BY <1>4, BringsFacts, TaskKinds
<1>6. t \in InRequests
  BY <1>4 DEF InRequests
<1>7. t \in Wanted /\ t \notin InDelayed /\ t \notin Connected /\ t \notin InQueue /\ t \notin InLate
  BY <1>6 DEF PlacedInv, DueInv, Placed
<1> HIDE DEF t, x
<1>8. TasksOf(queue') = TasksOf(queue) \cup {x}
  BY <1>1, <1>3, <1>5, AppendTask
<1>9. /\ \A u \in EngineType : u # t => (u \in InQueue' <=> u \in InQueue)
      /\ InDelayed' = InDelayed /\ InLate' = InLate
      /\ InQueue' \subseteq EngineType
  BY <1>1, <1>2, <1>5, <1>8 DEF InQueue, InDelayed, InLate
<1>10. InRequests' \subseteq InRequests
  BY <1>4 DEF InRequests
<1>11. t \notin InRequests'
  <2>1. TasksOf(Tail(requests)) \cap {t} = {}
    BY <1>1, <1>3, <1>4, TailOne DEF t
  <2> QED
    BY <1>1, <2>1 DEF InRequests
<1>12. \A u \in EngineType : AtMostOne(requests, {u})' /\ AtMostOne(delayed, Brings[u])'
  BY <1>1, <1>2, <1>3, TailOne DEF AtMostOne, PlacedInv
<1>13. \A u \in EngineType : AtMostOne(queue, Brings[u])'
  <2>1. TasksOf(queue) \cap Brings[t] = {}
    BY <1>4, <1>7 DEF InQueue
  <2>2. \A u \in EngineType : AtMostOne(Append(queue, x), Brings[u])
    BY <1>3, <1>5, <2>1, AppendOne
  <2> QED
    BY <1>1, <1>2, <2>2 DEF AtMostOne
<1>14. PlacedInv'
  BY <1>2, <1>9, <1>10, <1>12 DEF PlacedInv, Placed
<1>15. \A u \in InQueue' : u = t \/ u \in InQueue
  BY <1>9
<1>16. DueInv'
  BY <1>2, <1>7, <1>9, <1>10, <1>11, <1>13, <1>15 DEF DueInv, Placed
<1> QED
  BY <1>14, <1>16

LEMMA ExpirePlaced ==
    ASSUME TypeOK, PlacedInv, DueInv, Expire
    PROVE  PlacedInv' /\ DueInv'
<1> DEFINE x == Head(delayed)
<1>1. /\ UNCHANGED <<engines, requested, requests, late>> /\ delayed # <<>>
      /\ delayed' = Tail(delayed) /\ queue' = Append(queue, x)
  BY DEF Expire, state, Post
<1>2. Brings' = Brings /\ Wanted' = Wanted /\ Connected' = Connected
  BY <1>1, SameEngines
<1>3. /\ queue \in Seq(Task) /\ delayed \in Seq(Task)
      /\ \A u \in EngineType : AtMostOne(queue, Brings[u]) /\ AtMostOne(delayed, Brings[u])
  BY DEF TypeOK, PlacedInv, DueInv
<1>4. x \in Task /\ TasksOf(delayed) = TasksOf(delayed') \cup {x}
  BY <1>1, <1>3, TailTask
<1>5. \A u \in EngineType : x \in Brings[u] => TasksOf(delayed') \cap Brings[u] = {}
  BY <1>1, <1>3, TailOne
<1> HIDE DEF x
<1>6. TasksOf(queue') = TasksOf(queue) \cup {x}
  BY <1>1, <1>3, <1>4, AppendTask
<1>7. \A u \in EngineType : x \in Brings[u] =>
          u \in InDelayed /\ u \notin InDelayed' /\ u \notin InQueue
  BY <1>2, <1>4, <1>5 DEF InDelayed, DueInv, Placed
<1>8. /\ \A u \in InQueue' : u \in EngineType /\ (u \in InQueue \/ x \in Brings[u])
      /\ InDelayed' \subseteq InDelayed /\ InRequests' = InRequests /\ InLate' = InLate
  BY <1>1, <1>2, <1>4, <1>6 DEF InQueue, InDelayed, InRequests, InLate
<1>9. \A u \in EngineType : AtMostOne(queue, Brings[u])'
  <2>1. \A u \in EngineType : x \in Brings[u] => TasksOf(queue) \cap Brings[u] = {}
    BY <1>7 DEF InQueue
  <2>2. \A u \in EngineType : AtMostOne(Append(queue, x), Brings[u])
    BY <1>3, <1>4, <2>1, AppendOne
  <2> QED
    BY <1>1, <1>2, <2>2 DEF AtMostOne
<1>10. \A u \in EngineType : AtMostOne(delayed, Brings[u])' /\ AtMostOne(requests, {u})'
  BY <1>1, <1>2, <1>3, TailOne DEF AtMostOne, PlacedInv
<1>11. PlacedInv'
  BY <1>2, <1>8, <1>10 DEF PlacedInv, Placed
<1>12. DueInv'
  BY <1>2, <1>7, <1>8, <1>9 DEF DueInv, PlacedInv, Placed
<1> QED
  BY <1>11, <1>12

LEMMA ClearPlaced ==
    ASSUME TypeOK, NoStop, PlacedInv, DueInv, StopClear
    PROVE  PlacedInv' /\ DueInv' /\ NoStop'
<1>1. /\ UNCHANGED <<engines, requested, requests>> /\ queue' = <<>> /\ delayed' = <<>>
      /\ late' = NoTask \/ (queue # <<>> /\ late' = Head(queue))
  BY DEF StopClear, state
<1>2. Brings' = Brings /\ Wanted' = Wanted /\ Connected' = Connected
  BY <1>1, SameEngines
<1>3. queue # <<>> => Head(queue) \in TasksOf(queue)
  BY TailTask DEF TypeOK
<1>4. \A u \in EngineType : NoTask \notin Brings[u] /\ NoTask \notin Task
  BY InvokeQueueAssumption DEF Brings
<1>5. TasksOf(<<>>) = {} /\ \A S : AtMostOne(<<>>, S)
  BY NoTasks DEF AtMostOne
<1>6. /\ InQueue' = {} /\ InDelayed' = {} /\ InRequests' = InRequests
      /\ InLate' \subseteq InQueue
  BY <1>1, <1>2, <1>3, <1>4, <1>5 DEF InQueue, InDelayed, InRequests, InLate
<1>7. \A u \in EngineType : /\ AtMostOne(queue, Brings[u])' /\ AtMostOne(delayed, Brings[u])'
                            /\ AtMostOne(requests, {u})'
  BY <1>1, <1>5 DEF AtMostOne, PlacedInv
<1>8. NoStop'
  <2>1. Pending' = {}
    BY <1>1, <1>5 DEF Pending
  <2>2. NoTask \notin Task
    BY InvokeQueueAssumption
  <2> QED
    BY <1>1, <1>3, <2>1, <2>2 DEF NoStop, Pending
<1> QED
  BY <1>2, <1>6, <1>7, <1>8 DEF PlacedInv, DueInv, Placed

\* Calls of WebContainerAPI_Stop are the only use of their budget.
LEMMA StopsCounted ==
    ASSUME TypeOK, Next
    PROVE  \/ budget'.stop = budget.stop
           \/ /\ budget'.stop = budget.stop - 1 /\ budget.stop > 0
              /\ \E t \in EngineType : StopWebEngine(t)
<1>1. ASSUME NEW what \in {"fault", "start", "init"}, Spend(what)
      PROVE  budget'.stop = budget.stop
  BY <1>1, Unchanged DEF Spend
<1>2. CASE Posts
  <2>1. ASSUME NEW t \in EngineType, StopWebEngine(t)
        PROVE  budget'.stop = budget.stop - 1 /\ budget.stop > 0
    BY <2>1, Unchanged DEF StopWebEngine, Spend, Has
  <2> QED
    BY <1>1, <1>2, <2>1 DEF Posts, StartWebEngine, LoadUrl, WebInstanceNotify, OnWebContainerError
<1>3. CASE Controls
  BY <1>1, <1>3 DEF Controls, InitAgain, InitIPC, QueueStart, InitDone, Uninitialize, StopClear,
     UninitIPC, UninitSRPCLib
<1>4. CASE Environment \/ Expire
  BY <1>1, <1>4 DEF Environment, BrokerIgnores, ContainerDies, EngineDies, Expire
<1>5. ASSUME NEW x \in Task, NEW ok, Handle(x, ok) PROVE budget'.stop = budget.stop
  BY <1>1, <1>5, HandleCases DEF startWebEngine, webInstanceNotify, NotifyConnected,
     NotifyFailed, webContainerError, reConnWebContainer, reConnWebEngine, stopWebEngine,
     loadUrl, Idle
<1>6. CASE Worker
  BY <1>5, <1>6, WorkerRuns DEF Worker
<1>7. CASE LateTask
  <2>1. late \in Task
    BY <1>7 DEF LateTask, TypeOK
  <2> QED
    BY <1>5, <1>7, <2>1 DEF LateTask
<1> QED
  BY <1>2, <1>3, <1>4, <1>6, <1>7, NextCases

\* Connections that are only lost or closed, outside the tasks.
LEMMA LessRecorded ==
    ASSUME RecordedInv, UNCHANGED <<engines, requested>>,
           \A i \in Inst : conn'[i] = "open" => conn[i] = "open",
           ctl # "down" => ctl' # "down" \/ \A i \in Inst : conn'[i] # "open",
           instWC' = instWC \/ \A i \in Inst : i = instWC => conn'[i] # "open"
    PROVE  RecordedInv'
<1>1. Current' = Current
  BY SameEngines
<1> QED
  BY <1>1 DEF RecordedInv

LEMMA PostsOrphan ==
    ASSUME TypeOK, OrphanParts, Posts, \A t \in EngineType : ~StopWebEngine(t)
    PROVE  OrphanParts'
<1> USE DEF OrphanParts
<1>1. PICK x \in Task : /\ Post(x) /\ x.op # "stop"
                        /\ WebInstanceNotify \/ (x.op \notin {"notify", "reConnEngine"}
                                                 /\ requests' = requests)
  <2>1. ASSUME NEW t \in EngineType, StartWebEngine(t)
        PROVE  requests' = requests /\ Post([op |-> "start", type |-> t])
               /\ [op |-> "start", type |-> t] \in Task
    BY <2>1, TaskKinds DEF StartWebEngine
  <2>2. ASSUME NEW t \in EngineType, NEW w \in Wnd, LoadUrl(t, w)
        PROVE  requests' = requests /\ Post([op |-> "load", type |-> t, wnd |-> w])
               /\ [op |-> "load", type |-> t, wnd |-> w] \in Task
    BY <2>2, TaskKinds DEF LoadUrl
  <2>3. ASSUME NEW i \in Inst, OnWebContainerError(i)
        PROVE  requests' = requests /\ Post([op |-> "error", inst |-> i])
               /\ [op |-> "error", inst |-> i] \in Task
    BY <2>3, TaskKinds DEF OnWebContainerError
  <2>4. ASSUME WebInstanceNotify
        PROVE  \E t \in EngineType : Post([op |-> "notify", type |-> t])
                                     /\ [op |-> "notify", type |-> t] \in Task
    <3>1. Head(requests) \in EngineType
      BY <2>4, TailTask DEF WebInstanceNotify, TypeOK
    <3> QED
      BY <2>4, <3>1, TaskKinds DEF WebInstanceNotify
  <2>5. CASE \E t \in EngineType : StartWebEngine(t)
    BY <2>1, <2>5
  <2>6. CASE \E t \in EngineType : \E w \in Wnd : LoadUrl(t, w)
    BY <2>2, <2>6
  <2>7. CASE \E i \in Inst : OnWebContainerError(i)
    BY <2>3, <2>7
  <2>8. CASE WebInstanceNotify
    BY <2>4, <2>8
  <2> QED
    BY <2>5, <2>6, <2>7, <2>8 DEF Posts
<1>2. UNCHANGED <<delayed, late, ctl, instWC, engines, requested, conn>>
  BY PostsPost DEF PostsOne
<1>3. PlacedInv' /\ DueInv'
  BY <1>1, <1>2, AnswerPlaced, PostPlaced
<1>4. OnlyInv' /\ RecordedInv'
  BY <1>2, SameEngines, LessRecorded
<1>5. NoStop'
  <2>1. TasksOf(queue') = TasksOf(queue) \cup {x}
    BY <1>1, AppendTask DEF Post, TypeOK
  <2> QED
    BY <1>1, <1>2, <2>1 DEF NoStop, Pending
<1> QED
  BY <1>3, <1>4, <1>5

LEMMA EnvironmentOrphan ==
    ASSUME TypeOK, OrphanParts, Environment \/ Expire
    PROVE  OrphanParts'
<1> USE DEF OrphanParts
<1>1. UNCHANGED <<ctl, instWC, engines, requested>>
  BY DEF Environment, BrokerIgnores, ContainerDies, EngineDies, Expire, state
<1>2. \A i \in Inst : conn'[i] = "open" => conn[i] = "open"
  <2>1. conn' = conn \/ \E i \in Inst : Lose(i)
    BY Unchanged DEF Environment, BrokerIgnores, ContainerDies, EngineDies, Expire, srpcVars, Ptr
  <2> QED
    BY <2>1, Unchanged DEF Lose
<1>3. OnlyInv' /\ RecordedInv'
  BY <1>1, <1>2, SameEngines, LessRecorded
<1>4. CASE Expire
  <2>1. NoStop'
    BY <1>4, TaskDue DEF NoStop, Expire
  <2> QED
    BY <1>3, <1>4, <2>1, ExpirePlaced
<1>5. CASE Environment
  <2>1. /\ UNCHANGED <<queue, delayed, late>>
        /\ requests' = requests \/ requests' = <<>> \/ (requests # <<>> /\ requests' = Tail(requests))
    BY <1>5 DEF Environment, BrokerIgnores, ContainerDies, EngineDies
  <2>2. NoStop'
    BY <2>1 DEF NoStop, Pending
  <2> QED
    BY <1>1, <1>3, <2>1, <2>2, QuietPlaced
<1> QED
  BY <1>4, <1>5

LEMMA ControlsOrphan ==
    ASSUME TypeOK, OrphanParts, Controls
    PROVE  OrphanParts'
<1> USE DEF OrphanParts
<1>1. UNCHANGED <<engines, requested>>
  BY DEF Controls, InitAgain, InitIPC, QueueStart, InitDone, Uninitialize, StopClear, UninitIPC,
     UninitSRPCLib, state
<1>2. CASE StopClear
  <2>1. UNCHANGED <<instWC, conn>> /\ ctl' # "down"
    BY <1>2 DEF StopClear, state, srpcVars
  <2> QED
    BY <1>1, <1>2, <2>1, ClearPlaced, SameEngines, LessRecorded
<1>3. CASE ~StopClear
  <2>1. UNCHANGED <<queue, delayed, late>> /\ (requests' = requests \/ requests' = <<>>)
    BY <1>3 DEF Controls, InitAgain, InitIPC, QueueStart, InitDone, Uninitialize, UninitIPC,
       UninitSRPCLib, state
  <2>2. PlacedInv' /\ DueInv'
    BY <1>1, <2>1, QuietPlaced
  <2>3. NoStop'
    BY <2>1 DEF NoStop, Pending
  <2>4. RecordedInv'
    <3>1. CASE InitIPC
      <4>1. \A i \in Inst : conn[i] # "open"
        BY <3>1 DEF InitIPC, RecordedInv
      <4>2. CASE UNCHANGED <<ctl, instWC, conn>>
        BY <1>1, <4>2, LessRecorded
      <4>3. ASSUME NEW j \in Fresh, instWC' = j, conn' = Opened({j}), ctl' = "ipc"
            PROVE  RecordedInv'
        BY <4>1, <4>3 DEF RecordedInv, Opened
      <4> QED
        BY <3>1, <4>2, <4>3 DEF InitIPC
    <3>2. CASE UninitIPC
      <4>1. conn' = Destroyed({instWC}) /\ ctl' = "lib"
        BY <3>2 DEF UninitIPC
      <4>2. \A i \in Inst : conn'[i] = "open" => conn[i] = "open" /\ i # instWC
        BY <4>1 DEF Destroyed, Held
      <4> QED
        BY <1>1, <4>1, <4>2, LessRecorded
    <3>3. CASE UninitSRPCLib
      <4>1. \A i \in Inst : conn'[i] # "open"
        BY <3>3 DEF UninitSRPCLib, Destroyed, Held
      <4> QED
        BY <4>1 DEF RecordedInv
    <3>4. CASE InitAgain \/ QueueStart \/ InitDone \/ Uninitialize
      <4>1. UNCHANGED <<instWC, conn>> /\ ctl' # "down"
        BY <3>4 DEF InitAgain, QueueStart, InitDone, Uninitialize, state, srpcVars
      <4> QED
        BY <1>1, <4>1, LessRecorded
    <3> QED
      BY <1>3, <3>1, <3>2, <3>3, <3>4 DEF Controls
  <2> QED
    BY <1>1, <2>2, <2>3, <2>4, SameEngines
<1> QED
  BY <1>2, <1>3

LEMMA StepOrphan == TypeOK /\ OrphanInv /\ [Next]_vars => OrphanInv'
<1> SUFFICES ASSUME TypeOK, OrphanInv, [Next]_vars PROVE OrphanInv'
  OBVIOUS
<1>1. CASE UNCHANGED vars
  <2>1. UNCHANGED <<queue, delayed, late, ctl, instWC, engines, requested, requests, conn, budget>>
    BY <1>1 DEF vars, state, srpcVars
  <2>2. OrphanParts => OrphanParts'
    BY <2>1, SameEngines, QuietPlaced, LessRecorded DEF OrphanParts, NoStop, Pending
  <2> QED
    BY <2>1, <2>2 DEF OrphanInv, OrphanParts
<1>2. CASE Next
  <2>1. budget.stop \in Nat /\ MaxStops \in Nat /\ budget.stop <= MaxStops
    BY Unchanged, InvokeQueueAssumption DEF OrphanInv
  <2>2. /\ budget'.stop <= MaxStops
        /\ budget'.stop = MaxStops => budget.stop = MaxStops
    BY <1>2, <2>1, StopsCounted
  <2>3. ASSUME budget'.stop = MaxStops PROVE OrphanParts'
    <3>1. \A t \in EngineType : ~StopWebEngine(t)
      <4>1. ASSUME NEW t \in EngineType, StopWebEngine(t) PROVE FALSE
        <5>1. budget'.stop = budget.stop - 1
          BY <4>1, Unchanged DEF StopWebEngine, Spend
        <5> QED
          BY <2>1, <2>2, <2>3, <5>1
      <4> QED
        BY <4>1
    <3>2. OrphanParts
      BY <2>2, <2>3 DEF OrphanInv, OrphanParts
    <3> QED
      BY <1>2, <3>1, <3>2, NextCases, PostsOrphan, ControlsOrphan, EnvironmentOrphan, RunOrphan
  <2> QED
    BY <2>2, <2>3 DEF OrphanInv, OrphanParts
<1> QED
  BY <1>1, <1>2

LEMMA InitOrphan == Init => OrphanInv
<1> SUFFICES ASSUME Init PROVE OrphanInv
  OBVIOUS
<1>1. budget.stop = MaxStops /\ MaxStops \in Nat
  BY InvokeQueueAssumption DEF Init
<1>2. /\ queue = <<>> /\ delayed = <<>> /\ late = NoTask /\ requests = <<>> /\ engines = <<>>
      /\ requested = [t \in EngineType |-> NoEngine] /\ conn = [i \in Inst |-> "unused"]
  BY DEF Init, SrpcInit
<1>3. TasksOf(<<>>) = {} /\ (\A S : AtMostOne(<<>>, S)) /\ DOMAIN engines = {}
  BY <1>2, NoTasks DEF AtMostOne
<1>4. NoTask \notin Task /\ \A t \in EngineType : NoTask \notin Brings[t]
  BY InvokeQueueAssumption DEF Brings
<1>5. NoStop /\ OnlyInv /\ RecordedInv
  BY <1>2, <1>3, <1>4 DEF NoStop, Pending, OnlyInv, TypedInv, RecordedInv
<1>6. InQueue = {} /\ InDelayed = {} /\ InLate = {} /\ InRequests = {} /\ Connected = {}
  BY <1>2, <1>3, <1>4 DEF InQueue, InDelayed, InLate, InRequests, Connected, Current
<1>7. PlacedInv /\ DueInv
  BY <1>2, <1>3, <1>6 DEF PlacedInv, DueInv, Placed
<1> QED
  BY <1>1, <1>5, <1>7 DEF OrphanInv

\* While nothing was stopped, and over any number of sessions: every connection
\* to an engine is recorded for the type that uses it, whatever is lost,
\* retried, answered late or cut off by Uninitialize.  A type has one WebEngine,
\* and its connection is in one place: made, asked for, answered or to be
\* retried; so no answer finds a connection that it would not replace.
THEOREM NoneOrphaned == Spec => []NoOrphanHandle
<1>1. TypeOK /\ OrphanInv => NoOrphanHandle
  <2> SUFFICES ASSUME TypeOK, OrphanInv, NEW i \in Inst, conn[i] = "open", i # instWC,
                      budget.stop = MaxStops
               PROVE  \E t \in EngineType : IsRequested(t) /\ EngineOf(t).inst = i
    BY DEF NoOrphanHandle
  <2>1. PICK t \in EngineType : Current[t] = i
    BY DEF OrphanInv, RecordedInv
  <2> QED
    BY <2>1, CurrentFacts, SrpcAssumption DEF IsRequested, EngineOf
<1>2. Spec => [](TypeOK /\ InitInv /\ OrphanInv)
  BY InitType, StepType, InitOrphan, StepOrphan, PTL DEF Spec
<1> QED
  BY <1>1, <1>2, PTL

-----------------------------------------------------------------------------
(* Working connections.                                                    *)

\* The handles that sRPC reports or has reported, up to the task that is told.
Reported == {i \in Inst : i \in notices \/ LossOf(i) \in Pending \cup {late}}
Over == {i \in Inst : conn[i] \in {"lost", "closed"}}

DeadInv == Reported \subseteq Over

LEMMA LossTask ==
    ASSUME NEW i \in Inst
    PROVE  LossOf(i).op = "error" /\ LossOf(i).inst = i /\ LossOf(i) # NoTask
<1>1. [op |-> "error", inst |-> i] \in Task
  BY TaskKinds
<1>2. LossOf(i) = [op |-> "error", inst |-> i]
  BY DEF LossOf
<1>3. NoTask \notin Task
  BY InvokeQueueAssumption
<1>4. LossOf(i) # NoTask
  BY <1>1, <1>2, <1>3
<1> QED
  BY <1>2, <1>4

LEMMA AgesOver == ASSUME TypeOK, TypeOK', Ages PROVE Over \subseteq Over'
BY DEF Ages, Over, TypeOK, SrpcTypeOK, ConnState

\* What a task does reports only handles that it destroys.
LEMMA MovesReport ==
    ASSUME TypeOK, ~ReuseHandles, ConnMoves
    PROVE  \A i \in Inst : i \in notices' => i \in notices \/ i \in Over'
<1>1. \A i \in Fresh : i \in Inst /\ conn[i] = "unused"
  BY DEF Fresh
<1>2. ASSUME NEW S, notices' = DestroyNotices(S), conn' = Destroyed(S),
             NEW i \in Inst, i \in notices', i \notin notices
      PROVE  i \in Over'
  BY <1>2 DEF Destroyed, DestroyNotices, Over
<1>3. ASSUME NEW S, NEW j \in Fresh, notices' = DestroyNotices(S),
             conn' = [Destroyed(S) EXCEPT ![j] = "open"],
             NEW i \in Inst, i \in notices', i \notin notices
      PROVE  i \in Over'
  <2>1. i \in S /\ Held(i) /\ i # j
    BY <1>1, <1>3 DEF DestroyNotices, Held
  <2> QED
    BY <1>3, <2>1 DEF Destroyed, Over
<1> QED
  BY <1>2, <1>3 DEF ConnMoves, srpcVars

LEMMA TaskReports ==
    ASSUME TypeOK, NEW task \in Task, NEW ok, Handle(task, ok),
           task \in Retry => task.engine \in DOMAIN engines
    PROVE  \A x \in TasksOf(delayed') : x \in TasksOf(delayed) \/ x.op # "error"
<1>1. ASSUME NEW y \in Task, y.op # "error", PostDelayTask(y)
      PROVE  \A x \in TasksOf(delayed') : x \in TasksOf(delayed) \/ x.op # "error"
  <2>1. TasksOf(delayed') = TasksOf(delayed) \cup {y}
    BY <1>1, AppendTask DEF TypeOK, PostDelayTask
  <2> QED
    BY <1>1, <2>1
<1>2. ASSUME NEW e \in DOMAIN engines, PostDelayTask([op |-> "reConnEngine", engine |-> e])
      PROVE  \A x \in TasksOf(delayed') : x \in TasksOf(delayed) \/ x.op # "error"
  <2> DEFINE y == [op |-> "reConnEngine", engine |-> e]
  <2>1. y \in Task /\ y.op # "error"
    BY TaskKinds, EngineFacts
  <2> QED
    BY <1>1, <1>2, <2>1
<1>3. CASE PostDelayTask([op |-> "reConnContainer"])
  <2> DEFINE y == [op |-> "reConnContainer"]
  <2>1. y \in Task /\ y.op # "error"
    BY TaskKinds
  <2> QED
    BY <1>1, <1>3, <2>1
<1>4. \/ delayed' = delayed
      \/ PostDelayTask([op |-> "reConnContainer"])
      \/ \E e \in DOMAIN engines : PostDelayTask([op |-> "reConnEngine", engine |-> e])
  <2>1. ASSUME NEW t \in EngineType, webInstanceNotify(ok, t)
        PROVE  \/ delayed' = delayed
               \/ \E e \in DOMAIN engines : PostDelayTask([op |-> "reConnEngine", engine |-> e])
    BY <2>1, EngineFacts DEF webInstanceNotify, NotifyConnected, NotifyFailed
  <2>2. ASSUME NEW i \in Inst, webContainerError(i)
        PROVE  \/ delayed' = delayed
               \/ PostDelayTask([op |-> "reConnContainer"])
               \/ \E e \in DOMAIN engines : PostDelayTask([op |-> "reConnEngine", engine |-> e])
    BY <2>2, ErrorCases, EnginesOnType
  <2>3. reConnWebContainer(ok) => delayed' = delayed \/ PostDelayTask([op |-> "reConnContainer"])
    BY DEF reConnWebContainer, Idle
  <2>4. ASSUME NEW e \in DOMAIN engines, reConnWebEngine(ok, e)
        PROVE  delayed' = delayed \/ PostDelayTask([op |-> "reConnEngine", engine |-> e])
    BY <2>4 DEF reConnWebEngine, Idle
  <2>5. \A t \in EngineType : startWebEngine(ok, t) \/ stopWebEngine(ok, t) => delayed' = delayed
    BY DEF startWebEngine, stopWebEngine, Idle
  <2>6. \A t \in EngineType, w \in Wnd : loadUrl(ok, t, w) => delayed' = delayed
    BY DEF loadUrl, Idle
  <2> QED
    BY <2>1, <2>2, <2>3, <2>4, <2>5, <2>6, HandleCases
<1> QED
  BY <1>2, <1>3, <1>4

LEMMA RunReports ==
    ASSUME TypeOK, ~ReuseHandles, NEW task \in Task, NEW ok, Handle(task, ok),
           task \in Retry => task.engine \in DOMAIN engines,
           TasksOf(queue') \cup {late'} \subseteq TasksOf(queue) \cup {late, NoTask}
    PROVE  Reported' \subseteq Reported \cup Over' /\ Ages
<1>1. ConnMoves
  BY TaskMoves
<1>2. \A i \in Inst : LossOf(i).op = "error" /\ LossOf(i) # NoTask
  BY LossTask
<1>3. \A i \in Inst : LossOf(i) \in TasksOf(delayed') => LossOf(i) \in TasksOf(delayed)
  BY <1>2, TaskReports
<1>4. \A i \in Inst : LossOf(i) \in Pending' \cup {late'} => LossOf(i) \in Pending \cup {late}
  BY <1>2, <1>3 DEF Pending
<1> QED
  BY <1>1, <1>4, MovesReport, MovesAge DEF Reported

\* A post reports the loss that it takes from sRPC, and no other.
LEMMA PostsReport ==
    ASSUME TypeOK, Posts
    PROVE  \E x \in Task :
               /\ TasksOf(queue') = TasksOf(queue) \cup {x}
               /\ \/ notices' = notices /\ x.op # "error"
                  \/ \E i \in Inst : notices' = notices \ {i} /\ i \in notices /\ x = LossOf(i)
<1>1. \A x \in Task : Post(x) => TasksOf(queue') = TasksOf(queue) \cup {x}
  BY AppendTask DEF Post, TypeOK
<1>2. ASSUME NEW t \in EngineType, StartWebEngine(t)
      PROVE  \E x \in Task : Post(x) /\ notices' = notices /\ x.op # "error"
  <2>1. [op |-> "start", type |-> t] \in Task
    BY TaskKinds
  <2> QED
    BY <1>2, <2>1 DEF StartWebEngine, srpcVars
<1>3. ASSUME NEW t \in EngineType, StopWebEngine(t)
      PROVE  \E x \in Task : Post(x) /\ notices' = notices /\ x.op # "error"
  <2>1. [op |-> "stop", type |-> t] \in Task
    BY TaskKinds
  <2> QED
    BY <1>3, <2>1 DEF StopWebEngine, srpcVars
<1>4. ASSUME NEW t \in EngineType, NEW w \in Wnd, LoadUrl(t, w)
      PROVE  \E x \in Task : Post(x) /\ notices' = notices /\ x.op # "error"
  <2>1. [op |-> "load", type |-> t, wnd |-> w] \in Task
    BY TaskKinds
  <2> QED
    BY <1>4, <2>1 DEF LoadUrl, srpcVars
<1>5. ASSUME WebInstanceNotify
      PROVE  \E x \in Task : Post(x) /\ notices' = notices /\ x.op # "error"
  <2>1. Head(requests) \in EngineType
    BY <1>5, TailTask DEF WebInstanceNotify, TypeOK
  <2>2. [op |-> "notify", type |-> Head(requests)] \in Task
    BY <2>1, TaskKinds
  <2> QED
    BY <1>5, <2>2 DEF WebInstanceNotify, srpcVars
<1>6. ASSUME NEW i \in Inst, OnWebContainerError(i)
      PROVE  Post(LossOf(i)) /\ LossOf(i) \in Task /\ notices' = notices \ {i} /\ i \in notices
  BY <1>6, TaskKinds DEF OnWebContainerError, LossOf
<1>7. \/ \E x \in Task : Post(x) /\ notices' = notices /\ x.op # "error"
      \/ \E i \in Inst : /\ Post(LossOf(i)) /\ LossOf(i) \in Task
                         /\ notices' = notices \ {i} /\ i \in notices
  <2>1. CASE \E t \in EngineType : StartWebEngine(t) \/ StopWebEngine(t)
    BY <2>1, <1>2, <1>3
  <2>2. CASE \E t \in EngineType : \E w \in Wnd : LoadUrl(t, w)
    BY <2>2, <1>4
  <2>3. CASE WebInstanceNotify
    BY <2>3, <1>5
  <2>4. CASE \E i \in Inst : OnWebContainerError(i)
    BY <2>4, <1>6
  <2> QED
    BY <2>1, <2>2, <2>3, <2>4 DEF Posts
<1> QED
  BY <1>1, <1>7

LEMMA OtherReports ==
    ASSUME TypeOK, Posts \/ Controls \/ Environment \/ Expire
    PROVE  Reported' \subseteq Reported \cup Over'
<1>1. CASE Posts
  <2>1. PICK x \in Task :
          /\ TasksOf(queue') = TasksOf(queue) \cup {x}
          /\ \/ notices' = notices /\ x.op # "error"
             \/ \E i \in Inst : notices' = notices \ {i} /\ i \in notices /\ x = LossOf(i)
    BY <1>1, PostsReport
  <2>2. UNCHANGED <<delayed, late>>
    BY <1>1, PostsPost DEF PostsOne
  <2>3. Pending' = Pending \cup {x}
    BY <2>1, <2>2 DEF Pending
  <2>4. ASSUME NEW i \in Inst, i \in notices' \/ LossOf(i) \in Pending' \cup {late'}
        PROVE  i \in notices \/ LossOf(i) \in Pending \cup {late}
    BY <2>1, <2>2, <2>3, <2>4, LossTask
  <2> QED
    BY <2>4 DEF Reported
<1>2. CASE Expire
  <2>1. Pending' = Pending /\ UNCHANGED <<late, notices>>
    BY <1>2, TaskDue DEF Expire, srpcVars
  <2> QED
    BY <2>1 DEF Reported
<1>3. CASE Environment
  <2>1. UNCHANGED <<queue, delayed, late>>
    BY <1>3 DEF Environment, BrokerIgnores, ContainerDies, EngineDies
  <2>2. notices' = notices \/ \E i \in Inst : Lose(i)
    BY <1>3, Unchanged DEF Environment, BrokerIgnores, ContainerDies, EngineDies, srpcVars, Ptr
  <2>3. ASSUME NEW i \in Inst, Lose(i) PROVE notices' = notices \cup {i} /\ i \in Over'
    BY <2>3, Unchanged DEF Lose, Over
  <2> QED
    BY <2>1, <2>2, <2>3 DEF Reported, Pending
<1>4. CASE Controls
  <2>1. Pending' \cup {late'} \subseteq Pending \cup {late, NoTask}
    <3>1. CASE StopClear
      <4>1. queue # <<>> => Head(queue) \in TasksOf(queue)
        BY TailTask DEF TypeOK
      <4> QED
        BY <3>1, <4>1, NoTasks DEF StopClear, Pending
    <3>2. CASE ~StopClear
      BY <1>4, <3>2 DEF Controls, InitAgain, InitIPC, QueueStart, InitDone, Uninitialize,
         UninitIPC, UninitSRPCLib, Pending
    <3> QED
      BY <3>1, <3>2
  <2>2. \A i \in Inst : i \in notices' => i \in notices \/ i \in Over'
    <3>1. CASE UninitIPC
      BY <3>1 DEF UninitIPC, Destroyed, DestroyNotices, Over
    <3>2. CASE ~UninitIPC
      BY <1>4, <3>2 DEF Controls, InitAgain, InitIPC, QueueStart, InitDone, Uninitialize,
         StopClear, UninitSRPCLib, srpcVars
    <3> QED
      BY <3>1, <3>2
  <2>3. ASSUME NEW i \in Inst, LossOf(i) \in Pending' \cup {late'}
        PROVE  LossOf(i) \in Pending \cup {late}
    <3>1. LossOf(i) # NoTask
      BY LossTask
    <3> QED
      BY <2>1, <2>3, <3>1
  <2> QED
    BY <2>2, <2>3 DEF Reported
<1> QED
  BY <1>1, <1>2, <1>3, <1>4

LEMMA StepDead ==
    ASSUME ~ReuseHandles
    PROVE  TypeOK /\ TypeOK' /\ DeadInv /\ [Next]_vars => DeadInv'
<1> SUFFICES ASSUME TypeOK, TypeOK', DeadInv, [Next]_vars PROVE DeadInv'
  OBVIOUS
<1>1. CASE UNCHANGED vars
  BY <1>1 DEF vars, srpcVars, DeadInv, Reported, Over, Pending
<1>2. ASSUME Ages, Reported' \subseteq Reported \cup Over' PROVE DeadInv'
  BY <1>2, AgesOver DEF DeadInv
<1>3. CASE Posts \/ Controls \/ Environment \/ Expire
  BY <1>2, <1>3, OtherAges, OtherReports
<1>4. CASE Worker
  BY <1>2, <1>4, WorkerRuns, RunReports DEF Worker
<1>5. CASE LateTask
  <2>1. late \in Task /\ (late \in Retry => late.engine \in DOMAIN engines)
    BY <1>5 DEF LateTask, TypeOK
  <2> QED
    BY <1>2, <1>5, <2>1, RunReports DEF LateTask
<1> QED
  BY <1>1, <1>3, <1>4, <1>5, NextCases

\* The handles that a step cuts: they work before it and are closed after it.
Cut == {i \in Inst : conn[i] = "open" /\ conn'[i] = "closed"}
Excused == {i \in Inst : \E t \in EngineType :
               /\ IsRequested(t) /\ EngineOf(t).inst = i
               /\ ~IsRequested(t)' \/ conn'[EngineOf(t).inst'] = "open"}

LEMMA TaskCuts ==
    ASSUME TypeOK, ~ReuseHandles, NEW task \in Task, NEW ok, Handle(task, ok),
           \A i \in Inst : task = LossOf(i) => i \in Over
    PROVE  Cut \subseteq Excused
<1>1. CASE conn' = conn
  BY <1>1 DEF Cut
<1>2. ASSUME NEW t \in EngineType, NEW i \in Fresh, IsRequested(t), NotifyConnected(t, i)
      PROVE  Cut \subseteq Excused
  <2> DEFINE e == requested[t]
  <2>1. e \in DOMAIN engines /\ i \in Inst /\ i \in Ptr /\ conn[i] = "unused"
    BY <1>2, EngineFacts DEF Fresh, Ptr
  <2>2. engines' = [engines EXCEPT ![e].inst = i] /\ requested' = requested
    BY <1>2 DEF NotifyConnected
  <2>3. engines'[e].inst = i
    BY <1>2, <2>1, SetInst, EngineFacts DEF NotifyConnected, Ptr
  <2>4. conn' = [Destroyed({engines[e].inst}) EXCEPT ![i] = "open"]
    BY <1>2 DEF NotifyConnected
  <2>5. conn'[i] = "open"
    BY <2>1, <2>4 DEF Destroyed
  <2>6. \A j \in Cut : j = EngineOf(t).inst
    BY <2>1, <2>4 DEF Cut, Destroyed, EngineOf
  <2>7. EngineOf(t).inst' = i
    BY <2>2, <2>3 DEF EngineOf
  <2> QED
    BY <1>2, <2>5, <2>6, <2>7 DEF Excused, Cut
<1>3. ASSUME NEW t \in EngineType, webInstanceNotify(ok, t) PROVE Cut \subseteq Excused
  BY <1>1, <1>2, <1>3 DEF webInstanceNotify, NotifyFailed, srpcVars
<1>4. ASSUME NEW i \in Inst, webContainerError(i), i \in Over PROVE Cut \subseteq Excused
  BY <1>4 DEF webContainerError, Destroyed, Cut, Over
<1>5. ASSUME reConnWebContainer(ok) PROVE Cut \subseteq Excused
  BY <1>1, <1>5 DEF reConnWebContainer, Idle, Cut, Opened, srpcVars
<1>6. ASSUME NEW t \in EngineType, stopWebEngine(ok, t) PROVE Cut \subseteq Excused
  <2>1. CASE Idle
    BY <1>1, <2>1 DEF Idle, srpcVars
  <2>2. CASE IsRequested(t) /\ conn' = Destroyed({engines[requested[t]].inst})
             /\ requested' = [requested EXCEPT ![t] = NoEngine]
    <3>1. ~IsRequested(t)'
      BY <2>2 DEF IsRequested, TypeOK
    <3>2. \A j \in Cut : j = EngineOf(t).inst
      BY <2>2 DEF Cut, Destroyed, EngineOf
    <3> QED
      BY <2>2, <3>1, <3>2 DEF Excused, Cut
  <2> QED
    BY <1>6, <2>1, <2>2 DEF stopWebEngine
<1>7. ASSUME NEW t \in EngineType, startWebEngine(ok, t) PROVE Cut \subseteq Excused
  BY <1>1, <1>7 DEF startWebEngine, Idle, srpcVars
<1>8. ASSUME NEW e, reConnWebEngine(ok, e) PROVE Cut \subseteq Excused
  BY <1>1, <1>8 DEF reConnWebEngine, Idle, srpcVars
<1>9. ASSUME NEW t \in EngineType, NEW w \in Wnd, loadUrl(ok, t, w) PROVE Cut \subseteq Excused
  BY <1>1, <1>9 DEF loadUrl, Idle, srpcVars
<1> QED
  BY <1>3, <1>4, <1>5, <1>6, <1>7, <1>8, <1>9, HandleCases DEF LossOf

LEMMA StepCuts ==
    ASSUME ~ReuseHandles
    PROVE  TypeOK /\ DeadInv /\ [Next]_vars /\ ctl' = ctl => Cut \subseteq Excused
<1> SUFFICES ASSUME TypeOK, DeadInv, [Next]_vars, ctl' = ctl PROVE Cut \subseteq Excused
  OBVIOUS
<1>1. CASE \A i \in Inst : conn'[i] = "closed" => conn[i] = "closed"
  BY <1>1 DEF Cut
<1>2. CASE UNCHANGED vars \/ Posts \/ Expire
  BY <1>1, <1>2, PostsPost DEF PostsOne, Expire, vars, srpcVars
<1>3. CASE Environment
  <2>1. conn' = conn \/ \E i \in Inst : Lose(i)
    BY <1>3, Unchanged DEF Environment, BrokerIgnores, ContainerDies, EngineDies, srpcVars, Ptr
  <2> QED
    BY <1>1, <2>1, Unchanged DEF Lose
<1>4. CASE Controls
  BY <1>1, <1>4 DEF Controls, InitAgain, InitIPC, QueueStart, InitDone, Uninitialize, StopClear,
     UninitIPC, UninitSRPCLib, Opened, srpcVars
<1>5. CASE Worker
  <2>1. Head(queue) \in Task /\ Head(queue) \in Pending
    BY <1>5, WorkerRuns DEF Pending
  <2>2. \A i \in Inst : Head(queue) = LossOf(i) => i \in Over
    BY <2>1 DEF DeadInv, Reported
  <2> QED
    BY <1>5, <2>1, <2>2, TaskCuts DEF Worker
<1>6. CASE LateTask
  <2>1. late \in Task
    BY <1>6 DEF LateTask, TypeOK
  <2>2. \A i \in Inst : late = LossOf(i) => i \in Over
    BY DEF DeadInv, Reported
  <2> QED
    BY <1>6, <2>1, <2>2, TaskCuts DEF LateTask
<1> QED
  BY <1>2, <1>3, <1>4, <1>5, <1>6, NextCases

\* A working connection is cut only to stop its type, to put a new one in its
\* place, or to leave the library: not by a loss that was reported late, a
\* retry that outlived its session or a second repair of the broker's.
THEOREM WorkingConnectionsKept ==
    ASSUME ~ReuseHandles
    PROVE  Spec => WorkingKept
<1>1. Init => DeadInv
  <2> SUFFICES ASSUME Init PROVE DeadInv
    OBVIOUS
  <2>1. notices = {} /\ Pending = {} /\ late = NoTask
    BY NoTasks DEF Init, SrpcInit, Pending
  <2>2. ASSUME NEW i \in Inst PROVE i \notin Reported
    <3>1. LossOf(i) # NoTask
      BY LossTask
    <3> QED
      BY <2>1, <3>1 DEF Reported
  <2> QED
    BY <2>2 DEF DeadInv, Reported
<1>2. Spec => [](TypeOK /\ InitInv /\ DeadInv)
  BY <1>1, InitType, StepType, StepDead, PTL DEF Spec
<1>3. TypeOK /\ DeadInv /\ [Next]_vars =>
        [\A i \in Inst :
            conn[i] = "open" /\ conn'[i] = "closed" /\ ctl' = ctl =>
                \E t \in EngineType :
                    /\ IsRequested(t) /\ EngineOf(t).inst = i
                    /\ ~IsRequested(t)' \/ conn'[EngineOf(t).inst'] = "open"]_vars
  BY StepCuts DEF Cut, Excused
<1> QED
  BY <1>2, <1>3, PTL DEF Spec, WorkingKept
=============================================================================
