-------------------------- MODULE InvokeQueueProofs --------------------------
(***************************************************************************)
(* Proofs about InvokeQueue, for every set of handles, types and windows   *)
(* and all bounds: types, and the repair of the broker's connection over   *)
(* any number of sessions.  InvokeQueueEngineProofs builds on it.          *)
(***************************************************************************)
EXTENDS InvokeQueue, TLAPS, SequenceTheorems

-----------------------------------------------------------------------------
(* Sequences.                                                              *)

LEMMA AppendTask ==
    ASSUME NEW S, NEW s \in Seq(S), NEW e \in S
    PROVE  /\ Append(s, e) \in Seq(S) /\ Append(s, e) # <<>>
           /\ Len(Append(s, e)) = Len(s) + 1
           /\ TasksOf(Append(s, e)) = TasksOf(s) \cup {e}
<1>1. Len(s) \in Nat /\ DOMAIN s = 1 .. Len(s)
  BY LenProperties
<1>2. /\ Append(s, e) \in Seq(S) /\ Len(Append(s, e)) = Len(s) + 1
      /\ \A n \in 1 .. Len(s) : Append(s, e)[n] = s[n]
      /\ Append(s, e)[Len(s) + 1] = e
  BY AppendProperties
<1>3. DOMAIN Append(s, e) = 1 .. Len(s) + 1
  BY <1>2, LenProperties
<1>4. TasksOf(Append(s, e)) = TasksOf(s) \cup {e}
  BY <1>1, <1>2, <1>3 DEF TasksOf
<1>5. Append(s, e) # <<>>
  BY <1>1, <1>2
<1> QED
  BY <1>2, <1>4, <1>5

LEMMA TailTask ==
    ASSUME NEW S, NEW s \in Seq(S), s # <<>>
    PROVE  /\ Head(s) \in S /\ Tail(s) \in Seq(S)
           /\ TasksOf(s) = TasksOf(Tail(s)) \cup {Head(s)}
<1>1. Len(s) \in Nat /\ DOMAIN s = 1 .. Len(s)
  BY LenProperties
<1>2. /\ Head(s) \in S /\ Tail(s) \in Seq(S) /\ Len(Tail(s)) = Len(s) - 1
      /\ \A n \in 1 .. Len(Tail(s)) : Tail(s)[n] = s[n + 1]
  BY HeadTailProperties
<1>3. Head(s) = s[1] /\ Len(s) > 0
  BY <1>1, EmptySeq
<1>4. DOMAIN Tail(s) = 1 .. Len(s) - 1
  BY <1>2, LenProperties
<1>5. TasksOf(s) = TasksOf(Tail(s)) \cup {Head(s)}
  <2>1. ASSUME NEW n \in 1 .. Len(s) PROVE s[n] \in TasksOf(Tail(s)) \cup {Head(s)}
    <3>1. CASE n = 1
      BY <1>3, <3>1
    <3>2. CASE n # 1
      <4>1. n - 1 \in 1 .. Len(s) - 1 /\ s[n] = Tail(s)[n - 1]
        BY <1>1, <1>2, <3>2
      <4> QED
        BY <1>4, <4>1 DEF TasksOf
    <3> QED
      BY <3>1, <3>2
  <2>2. ASSUME NEW n \in 1 .. Len(s) - 1 PROVE Tail(s)[n] \in TasksOf(s)
    <3>1. n + 1 \in 1 .. Len(s) /\ Tail(s)[n] = s[n + 1]
      BY <1>1, <1>2
    <3> QED
      BY <1>1, <3>1 DEF TasksOf
  <2>3. Head(s) \in TasksOf(s)
    BY <1>1, <1>3 DEF TasksOf
  <2> QED
    BY <1>1, <1>4, <2>1, <2>2, <2>3 DEF TasksOf
<1> QED
  BY <1>2, <1>5

LEMMA NoTasks == TasksOf(<<>>) = {} /\ <<>> \in Seq(Task)
<1>1. <<>> \in Seq(Task)
  OBVIOUS
<1> QED
  BY <1>1 DEF TasksOf

\* The tasks that are posted, by their kind.
LEMMA TaskKinds ==
    /\ \A t \in EngineType, o \in {"start", "stop", "notify"} :
          [op |-> o, type |-> t] \in Task \ Retry
    /\ \A t \in EngineType, w \in Wnd : [op |-> "load", type |-> t, wnd |-> w] \in Task \ Retry
    /\ \A i \in Inst : [op |-> "error", inst |-> i] \in Task \ Retry
    /\ [op |-> "reConnContainer"] \in Task \ Retry
    /\ \A e \in Nat \ {NoEngine} :
          [op |-> "reConnEngine", engine |-> e] \in Task \cap Retry
<1>1. \A r \in Retry : r.op = "reConnEngine"
  BY DEF Retry
<1>2. \A t \in EngineType, o \in {"start", "stop", "notify"} :
          [op |-> o, type |-> t] \in Task /\ [op |-> o, type |-> t] \notin Retry
  BY <1>1 DEF Task
<1>3. \A t \in EngineType, w \in Wnd :
          /\ [op |-> "load", type |-> t, wnd |-> w] \in Task
          /\ [op |-> "load", type |-> t, wnd |-> w] \notin Retry
  BY <1>1 DEF Task
<1>4. \A i \in Inst : [op |-> "error", inst |-> i] \in Task
                      /\ [op |-> "error", inst |-> i] \notin Retry
  BY <1>1 DEF Task
<1>5. [op |-> "reConnContainer"] \in Task /\ [op |-> "reConnContainer"] \notin Retry
  BY <1>1 DEF Task
<1>6. \A e \in Nat \ {NoEngine} :
          [op |-> "reConnEngine", engine |-> e] \in Task
          /\ [op |-> "reConnEngine", engine |-> e] \in Retry
  BY DEF Task, Retry
<1> QED
  BY <1>2, <1>3, <1>4, <1>5, <1>6

-----------------------------------------------------------------------------
(* Types.                                                                  *)

\* What changes the handle of a WebEngine, and its windows.
LEMMA SetInst ==
    ASSUME engines \in Seq(Engine), NEW e \in DOMAIN engines, NEW x \in Ptr
    PROVE  LET new == [engines EXCEPT ![e].inst = x]
           IN  /\ new \in Seq(Engine) /\ Len(new) = Len(engines)
               /\ DOMAIN new = DOMAIN engines
               /\ \A k \in DOMAIN engines : k # e => new[k] = engines[k]
               /\ new[e].inst = x /\ new[e].type = engines[e].type
               /\ new[e].wnds = engines[e].wnds
<1>1. /\ DOMAIN engines = 1 .. Len(engines) /\ Len(engines) \in Nat
      /\ engines[e] \in Engine
  BY LenProperties, ElementOfSeq
<1> DEFINE r == [engines[e] EXCEPT !.inst = x]
           new == [engines EXCEPT ![e].inst = x]
<1>2. r \in Engine /\ r.inst = x /\ r.type = engines[e].type /\ r.wnds = engines[e].wnds
  BY <1>1 DEF Engine
<1>3. new = [engines EXCEPT ![e] = r]
  OBVIOUS
<1> HIDE DEF r, new
<1>4. /\ new \in Seq(Engine) /\ Len(new) = Len(engines)
      /\ \A k \in 1 .. Len(engines) : new[k] = IF k = e THEN r ELSE engines[k]
  BY <1>1, <1>2, <1>3, ExceptSeq
<1>5. DOMAIN new = DOMAIN engines
  BY <1>1, <1>4, LenProperties
<1> QED
  BY <1>1, <1>2, <1>4, <1>5 DEF new

LEMMA AddWnd ==
    ASSUME engines \in Seq(Engine), NEW e \in DOMAIN engines, NEW w \in Wnd
    PROVE  LET new == [engines EXCEPT ![e].wnds = @ \cup {w}]
           IN  /\ new \in Seq(Engine) /\ Len(new) = Len(engines)
               /\ DOMAIN new = DOMAIN engines
               /\ \A k \in DOMAIN engines : k # e => new[k] = engines[k]
               /\ new[e].inst = engines[e].inst /\ new[e].type = engines[e].type
               /\ new[e].wnds = engines[e].wnds \cup {w}
<1>1. /\ DOMAIN engines = 1 .. Len(engines) /\ Len(engines) \in Nat
      /\ engines[e] \in Engine
  BY LenProperties, ElementOfSeq
<1> DEFINE r == [engines[e] EXCEPT !.wnds = @ \cup {w}]
           new == [engines EXCEPT ![e].wnds = @ \cup {w}]
<1>2. /\ r \in Engine /\ r.inst = engines[e].inst /\ r.type = engines[e].type
      /\ r.wnds = engines[e].wnds \cup {w}
  BY <1>1 DEF Engine
<1>3. new = [engines EXCEPT ![e] = r]
  OBVIOUS
<1> HIDE DEF r, new
<1>4. /\ new \in Seq(Engine) /\ Len(new) = Len(engines)
      /\ \A k \in 1 .. Len(engines) : new[k] = IF k = e THEN r ELSE engines[k]
  BY <1>1, <1>2, <1>3, ExceptSeq
<1>5. DOMAIN new = DOMAIN engines
  BY <1>1, <1>4, LenProperties
<1> QED
  BY <1>1, <1>2, <1>4, <1>5 DEF new

\* A task is handled by the operator for its kind.
LEMMA HandleCases ==
    ASSUME NEW task \in Task, NEW ok, Handle(task, ok)
    PROVE  \/ task.op = "start" /\ task.type \in EngineType /\ startWebEngine(ok, task.type)
           \/ task.op = "notify" /\ task.type \in EngineType /\ webInstanceNotify(ok, task.type)
           \/ task.op = "error" /\ task.inst \in Inst /\ webContainerError(task.inst)
              /\ task = [op |-> "error", inst |-> task.inst]
           \/ task.op = "reConnContainer" /\ reConnWebContainer(ok)
              /\ task = [op |-> "reConnContainer"]
           \/ task.op = "reConnEngine" /\ task \in Retry /\ task.engine \in Nat \ {NoEngine}
              /\ reConnWebEngine(ok, task.engine)
           \/ task.op = "stop" /\ task.type \in EngineType /\ stopWebEngine(ok, task.type)
           \/ task.op = "load" /\ task.type \in EngineType /\ task.wnd \in Wnd
              /\ loadUrl(ok, task.type, task.wnd)
<1>1. CASE task \in [op : {"start", "stop", "notify"}, type : EngineType]
  BY <1>1 DEF Handle
<1>2. CASE task \in [op : {"load"}, type : EngineType, wnd : Wnd]
  BY <1>2 DEF Handle
<1>3. CASE task \in [op : {"error"}, inst : Inst]
  BY <1>3 DEF Handle
<1>4. CASE task \in [op : {"reConnContainer"}]
  BY <1>4 DEF Handle
<1>5. CASE task \in Retry
  BY <1>5 DEF Handle, Retry
<1> QED
  BY <1>1, <1>2, <1>3, <1>4, <1>5 DEF Task

LEMMA ConnType ==
    ASSUME TypeOK
    PROVE  /\ \A S : Destroyed(S) \in [Inst -> ConnState] /\ DestroyNotices(S) \subseteq Inst
           /\ \A S : Opened(S) \in [Inst -> ConnState]
           /\ \A S, i : [Destroyed(S) EXCEPT ![i] = "open"] \in [Inst -> ConnState]
           /\ Fresh \subseteq Inst
BY DEF TypeOK, SrpcTypeOK, Destroyed, DestroyNotices, Opened, ConnState, Fresh

LEMMA EngineFacts ==
    ASSUME TypeOK
    PROVE  /\ engines \in Seq(Engine) /\ Len(engines) \in Nat
           /\ DOMAIN engines = 1 .. Len(engines)
           /\ \A e \in DOMAIN engines : /\ e \in Nat \ {NoEngine}
                                        /\ engines[e].inst \in Ptr
                                        /\ engines[e].type \in EngineType
                                        /\ engines[e].wnds \subseteq Wnd
           /\ \A t \in EngineType : IsRequested(t) => requested[t] \in DOMAIN engines
<1>1. engines \in Seq(Engine)
  BY DEF TypeOK
<1>2. Len(engines) \in Nat /\ DOMAIN engines = 1 .. Len(engines)
  BY <1>1, LenProperties
<1>3. \A e \in DOMAIN engines : engines[e] \in Engine
  BY <1>1, <1>2, ElementOfSeq
<1>4. \A e \in DOMAIN engines : e \in Nat \ {NoEngine}
  BY <1>2 DEF NoEngine
<1>5. \A t \in EngineType : requested[t] \in 0 .. Len(engines)
  BY DEF TypeOK
<1> QED
  BY <1>1, <1>2, <1>3, <1>4, <1>5 DEF Engine, IsRequested, NoEngine

\* What a task may post, and what it keeps typed.
Reposts ==
    \/ delayed' = delayed
    \/ \E x \in Task : /\ delayed' = Append(delayed, x)
                       /\ x \in Retry => x.engine \in DOMAIN engines
KeepsTypes ==
    /\ Reposts
    /\ engines' \in Seq(Engine) /\ DOMAIN engines \subseteq DOMAIN engines'
    /\ requested' \in [EngineType -> 0 .. Len(engines')]
    /\ requests' \in Seq(EngineType)
    /\ sent' \in [Inst -> SUBSET Wnd] /\ owed' \subseteq EngineType
    /\ budget' \in [{"fault", "start", "stop", "init"} -> Nat]
    /\ budget'.init = budget.init
    /\ instWC' \in Ptr
    /\ conn' \in [Inst -> ConnState] /\ notices' \in SUBSET Inst

LEMMA SpendType ==
    ASSUME TypeOK, NEW what \in {"fault", "start", "stop", "init"}, Has(what), Spend(what)
    PROVE  /\ budget' \in [{"fault", "start", "stop", "init"} -> Nat]
           /\ what # "init" => budget'.init = budget.init
           /\ what = "init" => budget'.init = budget.init - 1 /\ budget.init > 0
<1>1. budget[what] \in Nat /\ budget[what] > 0 /\ budget' = [budget EXCEPT ![what] = @ - 1]
  BY DEF TypeOK, Has, Spend
<1>2. budget[what] - 1 \in Nat
  BY <1>1
<1> QED
  BY <1>1, <1>2 DEF TypeOK

LEMMA RequestedType ==
    ASSUME TypeOK, NEW outcome, NEW t \in EngineType
    PROVE  /\ Requested(outcome, t) \in Seq(EngineType)
           /\ Append(requests, t) \in Seq(EngineType)
BY AppendTask DEF TypeOK, Requested

LEMMA RetryPosted ==
    ASSUME TypeOK, NEW e \in DOMAIN engines,
           PostDelayTask([op |-> "reConnEngine", engine |-> e])
    PROVE  Reposts
<1> DEFINE x == [op |-> "reConnEngine", engine |-> e]
<1>1. x \in Task /\ x.engine = e /\ delayed' = Append(delayed, x)
  BY EngineFacts, TaskKinds DEF PostDelayTask
<1> HIDE DEF x
<1> QED
  BY <1>1 DEF Reposts

LEMMA StaysTyped == ASSUME TypeOK PROVE KeepsTypes \/ ~Idle
BY DEF TypeOK, KeepsTypes, Idle, Reposts, srpcVars, SrpcTypeOK

LEMMA StartType ==
    ASSUME TypeOK, NEW t \in EngineType, NEW ok, startWebEngine(ok, t)
    PROVE  KeepsTypes
<1>1. CASE Idle
  BY <1>1, StaysTyped
<1>2. CASE ~Idle
  <2>1. PICK outcome \in AsyncCall(instWC) :
          /\ requests' = Requested(outcome, t)
          /\ IF outcome = "refused"
               THEN UNCHANGED <<engines, requested>>
               ELSE /\ engines' = Append(engines, [inst |-> NULL, type |-> t, wnds |-> {}])
                    /\ requested' = [requested EXCEPT ![t] = Len(engines')]
    BY <1>2 DEF startWebEngine
  <2>2. UNCHANGED <<delayed, instWC, sent, owed, budget, srpcVars>>
    BY <1>2 DEF startWebEngine
  <2>3. [inst |-> NULL, type |-> t, wnds |-> {}] \in Engine
    BY DEF Engine, Ptr
  <2>4. /\ engines' \in Seq(Engine) /\ DOMAIN engines \subseteq DOMAIN engines'
        /\ requested' \in [EngineType -> 0 .. Len(engines')]
    <3>1. CASE UNCHANGED <<engines, requested>>
      BY <3>1 DEF TypeOK
    <3>2. CASE /\ engines' = Append(engines, [inst |-> NULL, type |-> t, wnds |-> {}])
               /\ requested' = [requested EXCEPT ![t] = Len(engines')]
      <4>1. engines' \in Seq(Engine) /\ Len(engines') = Len(engines) + 1
        BY <2>3, <3>2, AppendTask, EngineFacts
      <4>2. DOMAIN engines' = 1 .. Len(engines')
        BY <4>1, LenProperties
      <4> QED
        BY <3>2, <4>1, <4>2, EngineFacts DEF TypeOK
    <3> QED
      BY <2>1, <3>1, <3>2
  <2> QED
    BY <2>1, <2>2, <2>4, RequestedType DEF KeepsTypes, Reposts, TypeOK, srpcVars, SrpcTypeOK
<1> QED
  BY <1>1, <1>2

\* A step that sets the handle of one WebEngine to x.
LEMMA InstSet ==
    ASSUME TypeOK, NEW e \in DOMAIN engines, NEW x \in Ptr,
           engines' = [engines EXCEPT ![e].inst = x]
    PROVE  /\ engines' \in Seq(Engine) /\ Len(engines') = Len(engines)
           /\ DOMAIN engines' = DOMAIN engines
BY SetInst, EngineFacts

LEMMA ConnectedType ==
    ASSUME TypeOK, NEW t \in EngineType, IsRequested(t), NEW i \in Fresh, NotifyConnected(t, i)
    PROVE  KeepsTypes
<1>1. requested[t] \in DOMAIN engines /\ i \in Inst /\ i \in Ptr
  BY EngineFacts, ConnType DEF Ptr
<1>2. engines' = [engines EXCEPT ![requested[t]].inst = i]
  BY DEF NotifyConnected
<1>3. engines' \in Seq(Engine) /\ Len(engines') = Len(engines) /\ DOMAIN engines' = DOMAIN engines
  BY <1>1, <1>2, InstSet
<1>4. sent' \in [Inst -> SUBSET Wnd]
  BY <1>1, EngineFacts DEF NotifyConnected, TypeOK
<1>5. conn' \in [Inst -> ConnState] /\ notices' \in SUBSET Inst
  BY ConnType DEF NotifyConnected
<1> QED
  BY <1>3, <1>4, <1>5 DEF NotifyConnected, KeepsTypes, Reposts, TypeOK

LEMMA NotifyType ==
    ASSUME TypeOK, NEW t \in EngineType, NEW ok, webInstanceNotify(ok, t)
    PROVE  KeepsTypes
<1>1. CASE ~ok \/ ~IsRequested(t)
  <2>1. \/ owed' = owed \ {t} /\ UNCHANGED <<delayed, instWC, engines, requested, requests,
                                             sent, budget, srpcVars>>
        \/ ok /\ IsRequested(t)
    BY DEF webInstanceNotify
  <2> QED
    BY <1>1, <2>1 DEF KeepsTypes, Reposts, TypeOK, srpcVars, SrpcTypeOK
<1>2. CASE ok /\ IsRequested(t)
  <2>1. CASE \E i \in Fresh : NotifyConnected(t, i)
    BY <1>2, <2>1, ConnectedType
  <2>2. CASE NotifyFailed(t)
    <3>1. Reposts
      BY <1>2, <2>2, EngineFacts, RetryPosted DEF NotifyFailed
    <3>2. budget' \in [{"fault", "start", "stop", "init"} -> Nat] /\ budget'.init = budget.init
      BY <2>2, SpendType DEF NotifyFailed, MayFault
    <3> QED
      BY <2>2, <3>1, <3>2 DEF NotifyFailed, KeepsTypes, TypeOK, srpcVars, SrpcTypeOK
  <2> QED
    BY <1>2, <2>1, <2>2 DEF webInstanceNotify
<1> QED
  BY <1>1, <1>2

\* The engines a lost handle is recorded for.
LEMMA EnginesOnType ==
    ASSUME TypeOK, NEW i
    PROVE  \A e \in EnginesOn(i) :
              e \in DOMAIN engines /\ engines[e].inst = i
              /\ \E t \in EngineType : requested[t] = e /\ IsRequested(t)
BY EngineFacts DEF EnginesOn, IsRequested

\* The three ways webContainerError goes.
LEMMA ErrorCases ==
    ASSUME NEW i \in Inst, webContainerError(i)
    PROVE  /\ conn' = Destroyed({i}) /\ notices' = DestroyNotices({i})
           /\ UNCHANGED <<requested, requests, sent, owed, budget>>
           /\ \/ /\ i = instWC /\ instWC' = NULL /\ UNCHANGED engines
                 /\ PostDelayTask([op |-> "reConnContainer"])
              \/ /\ i # instWC /\ UNCHANGED instWC
                 /\ \E e \in EnginesOn(i) :
                      /\ engines' = [engines EXCEPT ![e].inst = NULL]
                      /\ PostDelayTask([op |-> "reConnEngine", engine |-> e])
              \/ i # instWC /\ EnginesOn(i) = {} /\ UNCHANGED <<instWC, engines, delayed>>
<1>1. CASE i = instWC
  BY <1>1 DEF webContainerError
<1>2. CASE i # instWC /\ EnginesOn(i) # {}
  BY <1>2 DEF webContainerError
<1>3. CASE i # instWC /\ EnginesOn(i) = {}
  BY <1>3 DEF webContainerError
<1> QED
  BY <1>1, <1>2, <1>3

LEMMA ContainerPosted ==
    ASSUME TypeOK, PostDelayTask([op |-> "reConnContainer"])
    PROVE  Reposts
<1>1. [op |-> "reConnContainer"] \in Task /\ [op |-> "reConnContainer"] \notin Retry
  BY TaskKinds
<1> QED
  BY <1>1 DEF PostDelayTask, Reposts

LEMMA ErrorType ==
    ASSUME TypeOK, NEW i \in Inst, webContainerError(i)
    PROVE  KeepsTypes
<1>1. conn' \in [Inst -> ConnState] /\ notices' \in SUBSET Inst
  <2>1. conn' = Destroyed({i}) /\ notices' = DestroyNotices({i})
    BY DEF webContainerError
  <2>2. Destroyed({i}) \in [Inst -> ConnState] /\ DestroyNotices({i}) \subseteq Inst
    BY ConnType
  <2> QED
    BY <2>1, <2>2
<1>2. UNCHANGED <<requested, requests, sent, owed, budget>>
  BY DEF webContainerError
<1>6. \/ /\ i = instWC /\ instWC' = NULL /\ UNCHANGED engines
         /\ PostDelayTask([op |-> "reConnContainer"])
      \/ /\ UNCHANGED instWC
         /\ \E e \in EnginesOn(i) :
              /\ engines' = [engines EXCEPT ![e].inst = NULL]
              /\ PostDelayTask([op |-> "reConnEngine", engine |-> e])
      \/ UNCHANGED <<instWC, engines, delayed>>
  BY ErrorCases
<1>3. CASE /\ i = instWC /\ instWC' = NULL /\ UNCHANGED engines
           /\ PostDelayTask([op |-> "reConnContainer"])
  BY <1>1, <1>2, <1>3, ContainerPosted DEF KeepsTypes, TypeOK, Ptr
<1>4. ASSUME NEW e \in EnginesOn(i), UNCHANGED instWC,
             engines' = [engines EXCEPT ![e].inst = NULL],
             PostDelayTask([op |-> "reConnEngine", engine |-> e])
      PROVE  KeepsTypes
  <2>1. e \in DOMAIN engines /\ NULL \in Ptr
    BY EnginesOnType DEF Ptr
  <2>2. engines' \in Seq(Engine) /\ Len(engines') = Len(engines)
        /\ DOMAIN engines' = DOMAIN engines
    BY <1>4, <2>1, InstSet
  <2>3. Reposts
    BY <1>4, <2>1, RetryPosted
  <2> QED
    BY <1>1, <1>2, <1>4, <2>2, <2>3 DEF KeepsTypes, TypeOK
<1>5. CASE UNCHANGED <<instWC, engines, delayed>>
  BY <1>1, <1>2, <1>5 DEF KeepsTypes, Reposts, TypeOK
<1> QED
  BY <1>3, <1>4, <1>5, <1>6

LEMMA ReConnContainerType ==
    ASSUME TypeOK, NEW ok, reConnWebContainer(ok)
    PROVE  KeepsTypes
<1>1. CASE Idle
  BY <1>1, StaysTyped
<1>2. CASE ~Idle
  <2>1. \/ /\ \E i \in Fresh : instWC' = i /\ conn' = Opened({i})
           /\ UNCHANGED <<delayed, budget>>
        \/ /\ MayFault("connect") /\ Spend("fault")
           /\ PostDelayTask([op |-> "reConnContainer"])
           /\ UNCHANGED <<instWC, conn>>
    BY <1>2 DEF reConnWebContainer
  <2>2. UNCHANGED <<engines, requested, requests, sent, owed, notices>>
    BY <1>2 DEF reConnWebContainer
  <2>3. Reposts
    BY <2>1, ContainerPosted DEF Reposts
  <2>4. instWC' \in Ptr /\ conn' \in [Inst -> ConnState]
    <3>1. Fresh \subseteq Ptr /\ \A i : Opened({i}) \in [Inst -> ConnState]
      BY ConnType DEF Ptr
    <3>2. instWC \in Ptr /\ conn \in [Inst -> ConnState]
      BY DEF TypeOK, SrpcTypeOK
    <3> QED
      BY <2>1, <3>1, <3>2
  <2>5. budget' \in [{"fault", "start", "stop", "init"} -> Nat] /\ budget'.init = budget.init
    BY <2>1, SpendType DEF TypeOK, MayFault
  <2> QED
    BY <2>2, <2>3, <2>4, <2>5 DEF KeepsTypes, TypeOK, SrpcTypeOK
<1> QED
  BY <1>1, <1>2

LEMMA ReConnEngineType ==
    ASSUME TypeOK, NEW e \in DOMAIN engines, NEW ok, reConnWebEngine(ok, e)
    PROVE  KeepsTypes
<1> DEFINE t == engines[e].type
           Repost == PostDelayTask([op |-> "reConnEngine", engine |-> e])
<1>1. t \in EngineType /\ NULL \in Ptr
  BY EngineFacts DEF Ptr
<1>2. CASE Idle
  BY <1>2, StaysTyped
<1>3. CASE /\ Repost
           /\ UNCHANGED <<instWC, engines, requested, requests, sent, owed, budget, srpcVars>>
  BY <1>3, RetryPosted DEF KeepsTypes, TypeOK, srpcVars, SrpcTypeOK
<1>4. CASE /\ engines' = [engines EXCEPT ![e].inst = NULL]
           /\ requested' = [requested EXCEPT ![t] = e]
           /\ \E outcome \in AsyncCall(instWC) :
                /\ requests' = Requested(outcome, t)
                /\ IF outcome = "refused" THEN Repost ELSE UNCHANGED delayed
           /\ UNCHANGED <<instWC, sent, owed, budget, srpcVars>>
  <2>1. engines' \in Seq(Engine) /\ Len(engines') = Len(engines)
        /\ DOMAIN engines' = DOMAIN engines
    BY <1>1, <1>4, InstSet
  <2>2. requested' \in [EngineType -> 0 .. Len(engines')]
    BY <1>4, <2>1, EngineFacts DEF TypeOK
  <2>3. requests' \in Seq(EngineType) /\ Reposts
    BY <1>1, <1>4, RequestedType, RetryPosted DEF Reposts
  <2> QED
    BY <1>4, <2>1, <2>2, <2>3 DEF KeepsTypes, TypeOK, srpcVars, SrpcTypeOK
<1> QED
  BY <1>2, <1>3, <1>4 DEF reConnWebEngine

LEMMA StopType ==
    ASSUME TypeOK, NEW t \in EngineType, NEW ok, stopWebEngine(ok, t)
    PROVE  KeepsTypes
<1>1. CASE Idle
  BY <1>1, StaysTyped
<1>2. CASE ~Idle
  <2>1. /\ requested' = [requested EXCEPT ![t] = NoEngine] /\ owed' = owed \ {t}
        /\ UNCHANGED <<delayed, instWC, engines, requests, sent, budget>>
        /\ conn' \in [Inst -> ConnState] /\ notices' \in SUBSET Inst
    BY <1>2, ConnType DEF stopWebEngine
  <2>2. requested' \in [EngineType -> 0 .. Len(engines')]
    BY <2>1, EngineFacts DEF TypeOK, NoEngine
  <2> QED
    BY <2>1, <2>2 DEF KeepsTypes, Reposts, TypeOK
<1> QED
  BY <1>1, <1>2

LEMMA LoadType ==
    ASSUME TypeOK, NEW t \in EngineType, NEW w \in Wnd, NEW ok, loadUrl(ok, t, w)
    PROVE  KeepsTypes
<1>1. CASE Idle
  BY <1>1, StaysTyped
<1>2. CASE ~Idle
  <2>1. /\ IsRequested(t)
        /\ engines' = [engines EXCEPT ![requested[t]].wnds = @ \cup {w}]
        /\ UNCHANGED <<delayed, instWC, requested, requests, owed, budget, srpcVars>>
    BY <1>2 DEF loadUrl
  <2>2. requested[t] \in DOMAIN engines
    BY <2>1, EngineFacts
  <2>3. engines' \in Seq(Engine) /\ Len(engines') = Len(engines)
        /\ DOMAIN engines' = DOMAIN engines
    BY <2>1, <2>2, EngineFacts, AddWnd
  <2>4. sent' \in [Inst -> SUBSET Wnd]
    <3>1. \/ sent' = sent
          \/ sent' = [sent EXCEPT ![engines[requested[t]].inst] = @ \cup {w}]
      BY <1>2 DEF loadUrl
    <3>2. sent \in [Inst -> SUBSET Wnd]
      BY DEF TypeOK
    <3> QED
      BY <3>1, <3>2
  <2> QED
    BY <2>1, <2>3, <2>4 DEF KeepsTypes, Reposts, TypeOK, srpcVars, SrpcTypeOK
<1> QED
  BY <1>1, <1>2

LEMMA HandleType ==
    ASSUME TypeOK, NEW task \in Task, task \in Retry => task.engine \in DOMAIN engines,
           NEW ok, Handle(task, ok)
    PROVE  KeepsTypes
BY HandleCases, StartType, NotifyType, ErrorType, ReConnContainerType, ReConnEngineType,
   StopType, LoadType

\* The calls of Init that are not undone, the one under way, and those that
\* are left, are no more than there may be; and m_initialized is not zero
\* exactly while the library is up.
InitInv ==
    /\ ctl = "up" => initialized > 0
    /\ ctl # "up" => initialized = 0
    /\ initialized + budget.init + (IF ctl \in {"ipc", "queue"} THEN 1 ELSE 0) <= MaxInits

LEMMA InitType == Init => TypeOK /\ InitInv
<1> SUFFICES ASSUME Init PROVE TypeOK /\ InitInv
  OBVIOUS
<1>1. <<>> \in Seq(Engine) /\ <<>> \in Seq(EngineType) /\ <<>> \in Seq(Task)
      /\ Len(<<>>) = 0
  OBVIOUS
<1>2. Pending = {}
  BY NoTasks DEF Init, Pending
<1>3. NoTask \notin Retry
  BY InvokeQueueAssumption DEF Task
<1>4. late = NoTask /\ queue \in Seq(Task) /\ delayed \in Seq(Task) /\ Len(engines) = 0
  BY <1>1 DEF Init
<1>5. budget \in [{"fault", "start", "stop", "init"} -> Nat] /\ budget.init = MaxInits
      /\ MaxInits \in Nat /\ initialized = 0 /\ ctl = "down"
  BY InvokeQueueAssumption DEF Init
<1>6. engines \in Seq(Engine) /\ requests \in Seq(EngineType)
      /\ requested \in [EngineType -> 0 .. Len(engines)]
  BY <1>1 DEF Init, NoEngine
<1>7. instWC \in Ptr /\ server \in BOOLEAN /\ sent \in [Inst -> SUBSET Wnd]
      /\ owed \subseteq EngineType /\ SrpcTypeOK
  BY DEF Init, Ptr, SrpcInit, SrpcTypeOK, ConnState
<1>8. TypeOK
  BY <1>2, <1>3, <1>4, <1>5, <1>6, <1>7 DEF TypeOK
<1> QED
  BY <1>5, <1>8 DEF InitInv

\* What the steps do to the tasks: none is made up, and a retry that is made
\* names an engine there is.
TasksTyped ==
    /\ queue' \in Seq(Task) /\ delayed' \in Seq(Task) /\ late' \in Task \cup {NoTask}
    /\ \A x \in Pending' \cup {late'} : x \in Retry => x.engine \in DOMAIN engines

LEMMA TasksStay ==
    ASSUME TypeOK, UNCHANGED <<queue, delayed, late>>
    PROVE  TasksTyped
BY DEF TypeOK, TasksTyped, Pending

LEMMA TaskPosted ==
    ASSUME TypeOK, NEW x \in Task \ Retry, Post(x), UNCHANGED <<delayed, late>>
    PROVE  TasksTyped
<1>1. queue' \in Seq(Task) /\ TasksOf(queue') = TasksOf(queue) \cup {x}
  BY AppendTask DEF Post, TypeOK
<1>2. TasksOf(delayed') = TasksOf(delayed) /\ late' = late
  OBVIOUS
<1> QED
  BY <1>1, <1>2 DEF TypeOK, TasksTyped, Pending

LEMMA TaskDue ==
    ASSUME TypeOK, Expire
    PROVE  /\ TasksTyped
           /\ Pending' = Pending
<1> DEFINE x == Head(delayed)
<1>1. x \in Task /\ delayed' \in Seq(Task) /\ TasksOf(delayed) = TasksOf(delayed') \cup {x}
  BY TailTask DEF Expire, TypeOK
<1>2. queue' = Append(queue, x) /\ late' = late
  BY DEF Expire, Post
<1> HIDE DEF x
<1>3. queue' \in Seq(Task) /\ TasksOf(queue') = TasksOf(queue) \cup {x}
  BY <1>1, <1>2, AppendTask DEF TypeOK
<1>4. Pending' = Pending
  BY <1>1, <1>3 DEF Pending
<1> QED
  BY <1>1, <1>2, <1>3, <1>4 DEF TypeOK, TasksTyped

LEMMA QueueCleared ==
    ASSUME TypeOK, StopClear
    PROVE  TasksTyped
<1>1. queue' \in Seq(Task) /\ delayed' \in Seq(Task) /\ Pending' = {}
  BY NoTasks DEF StopClear, Pending
<1>2. CASE queue = <<>>
  <2>1. late' = NoTask /\ NoTask \notin Retry
    BY <1>2, InvokeQueueAssumption DEF StopClear, Task
  <2> QED
    BY <1>1, <2>1 DEF TasksTyped
<1>3. CASE queue # <<>>
  <2>1. Head(queue) \in Task /\ Head(queue) \in Pending
    BY <1>3, TailTask DEF TypeOK, Pending
  <2>2. late' = NoTask \/ late' = Head(queue)
    BY <1>3 DEF StopClear
  <2>3. NoTask \notin Retry
    BY InvokeQueueAssumption DEF Task
  <2> QED
    BY <1>1, <2>1, <2>2, <2>3 DEF TasksTyped, TypeOK
<1> QED
  BY <1>2, <1>3

\* The two steps that run a task.
LEMMA WorkerRuns ==
    ASSUME TypeOK, Worker
    PROVE  /\ Head(queue) \in Task
           /\ Head(queue) \in Retry => Head(queue).engine \in DOMAIN engines
           /\ TasksOf(queue) = TasksOf(queue') \cup {Head(queue)}
           /\ queue' \in Seq(Task) /\ late' = late
           /\ KeepsTypes
<1>1. /\ Head(queue) \in Task /\ queue' \in Seq(Task)
      /\ TasksOf(queue) = TasksOf(queue') \cup {Head(queue)}
  BY TailTask DEF Worker, TypeOK
<1>2. Head(queue) \in Retry => Head(queue).engine \in DOMAIN engines
  BY <1>1 DEF TypeOK, Pending
<1>3. Handle(Head(queue), initialized # 0) /\ late' = late
  BY DEF Worker
<1>4. KeepsTypes
  BY <1>1, <1>2, <1>3, HandleType
<1> QED
  BY <1>1, <1>2, <1>3, <1>4

LEMMA LateRuns ==
    ASSUME TypeOK, LateTask
    PROVE  KeepsTypes /\ late' = NoTask /\ queue' = queue
<1>1. late \in Task /\ (late \in Retry => late.engine \in DOMAIN engines)
  BY DEF LateTask, TypeOK
<1>2. PICK ok \in BOOLEAN : Handle(late, ok)
  BY DEF LateTask
<1> QED
  BY <1>1, <1>2, HandleType DEF LateTask

LEMMA RepostTasks ==
    ASSUME TypeOK, KeepsTypes, queue' \in Seq(Task), TasksOf(queue') \subseteq TasksOf(queue),
           late' \in {late, NoTask}
    PROVE  TasksTyped
<1>1. NoTask \notin Retry
  BY InvokeQueueAssumption DEF Task
<1>2. CASE delayed' = delayed
  BY <1>1, <1>2 DEF TypeOK, TasksTyped, Pending
<1>3. ASSUME NEW x \in Task, delayed' = Append(delayed, x),
             x \in Retry => x.engine \in DOMAIN engines
      PROVE  TasksTyped
  <2>1. delayed' \in Seq(Task) /\ TasksOf(delayed') = TasksOf(delayed) \cup {x}
    BY <1>3, AppendTask DEF TypeOK
  <2> QED
    BY <1>1, <1>3, <2>1 DEF TypeOK, TasksTyped, Pending
<1> QED
  BY <1>2, <1>3 DEF KeepsTypes, Reposts

Control == {"down", "ipc", "queue", "up", "stopping", "join", "lib"}
Data == <<engines, requested, requests, sent, owed>>

LEMMA TypesMet ==
    ASSUME TasksTyped, KeepsTypes, ctl' \in Control, initialized' \in 0 .. MaxInits,
           server' \in BOOLEAN
    PROVE  TypeOK'
<1>1. \A x \in Pending' \cup {late'} : x \in Retry => x.engine \in DOMAIN engines'
  BY DEF TasksTyped, KeepsTypes
<1> QED
  BY <1>1 DEF TasksTyped, KeepsTypes, TypeOK, Control, SrpcTypeOK

\* A step that leaves alone what the tasks work on.
LEMMA DataStays ==
    ASSUME TypeOK, TasksTyped, UNCHANGED <<engines, requested, sent>>,
           requests' \in Seq(EngineType), owed' \subseteq EngineType,
           budget' \in [{"fault", "start", "stop", "init"} -> Nat],
           instWC' \in Ptr, conn' \in [Inst -> ConnState], notices' \in SUBSET Inst,
           ctl' \in Control, initialized' \in 0 .. MaxInits, server' \in BOOLEAN
    PROVE  TypeOK'
<1>1. /\ engines' \in Seq(Engine) /\ requested' \in [EngineType -> 0 .. Len(engines')]
      /\ sent' \in [Inst -> SUBSET Wnd]
  BY DEF TypeOK
<1>2. \A x \in Pending' \cup {late'} : x \in Retry => x.engine \in DOMAIN engines'
  BY DEF TasksTyped
<1> QED
  BY <1>1, <1>2 DEF TasksTyped, TypeOK, Control, SrpcTypeOK

LEMMA Unchanged ==
    ASSUME TypeOK
    PROVE  /\ requests \in Seq(EngineType) /\ owed \subseteq EngineType
           /\ budget \in [{"fault", "start", "stop", "init"} -> Nat] /\ instWC \in Ptr
           /\ conn \in [Inst -> ConnState] /\ notices \in SUBSET Inst
           /\ ctl \in Control /\ initialized \in 0 .. MaxInits /\ server \in BOOLEAN
           /\ initialized \in Nat /\ budget.init \in Nat /\ MaxInits \in Nat
BY InvokeQueueAssumption DEF TypeOK, SrpcTypeOK, Control

LEMMA LoseType ==
    ASSUME TypeOK, NEW i \in Inst, Lose(i)
    PROVE  conn' \in [Inst -> ConnState] /\ notices' \in SUBSET Inst
<1>1. conn' = [conn EXCEPT ![i] = "lost"] /\ notices' = notices \cup {i} /\ conn[i] = "open"
  BY DEF Lose
<1>2. conn \in [Inst -> ConnState]
  BY Unchanged
<1> QED
  BY <1>1, <1>2, Unchanged DEF ConnState

\* The posts of the user, of the broker and of sRPC.
Posts ==
    \/ \E t \in EngineType : StartWebEngine(t) \/ StopWebEngine(t) \/ \E w \in Wnd : LoadUrl(t, w)
    \/ WebInstanceNotify
    \/ \E i \in Inst : OnWebContainerError(i)

PostsOne ==
    /\ \E x \in Task \ Retry : Post(x)
    /\ UNCHANGED <<delayed, late, ctl, initialized, server, instWC, engines, requested, sent, conn>>
    /\ \/ notices' = notices
       \/ \E i \in Inst : notices' = notices \ {i} /\ Post([op |-> "error", inst |-> i])
    /\ requests' \in Seq(EngineType) /\ owed' \subseteq EngineType
    /\ budget' \in [{"fault", "start", "stop", "init"} -> Nat] /\ budget'.init = budget.init

LEMMA PostsPost == ASSUME TypeOK, Posts PROVE PostsOne
<1>1. ASSUME NEW t \in EngineType, StartWebEngine(t) PROVE PostsOne
  <2>1. [op |-> "start", type |-> t] \in Task \ Retry
    BY TaskKinds
  <2>2. budget' \in [{"fault", "start", "stop", "init"} -> Nat] /\ budget'.init = budget.init
    BY <1>1, SpendType DEF StartWebEngine
  <2> QED
    BY <1>1, <2>1, <2>2, Unchanged DEF StartWebEngine, PostsOne, srpcVars
<1>2. ASSUME NEW t \in EngineType, StopWebEngine(t) PROVE PostsOne
  <2>1. [op |-> "stop", type |-> t] \in Task \ Retry
    BY TaskKinds
  <2>2. budget' \in [{"fault", "start", "stop", "init"} -> Nat] /\ budget'.init = budget.init
    BY <1>2, SpendType DEF StopWebEngine
  <2> QED
    BY <1>2, <2>1, <2>2, Unchanged DEF StopWebEngine, PostsOne, srpcVars, state
<1>3. ASSUME NEW t \in EngineType, NEW w \in Wnd, LoadUrl(t, w) PROVE PostsOne
  <2>1. [op |-> "load", type |-> t, wnd |-> w] \in Task \ Retry
    BY TaskKinds
  <2> QED
    BY <1>3, <2>1, Unchanged DEF LoadUrl, PostsOne, srpcVars, state
<1>4. CASE WebInstanceNotify
  <2>1. Head(requests) \in EngineType /\ requests' \in Seq(EngineType)
    BY <1>4, Unchanged, TailTask DEF WebInstanceNotify
  <2>2. [op |-> "notify", type |-> Head(requests)] \in Task \ Retry
    BY <2>1, TaskKinds
  <2> QED
    BY <1>4, <2>1, <2>2, Unchanged DEF WebInstanceNotify, PostsOne, srpcVars, state
<1>5. ASSUME NEW i \in Inst, OnWebContainerError(i) PROVE PostsOne
  <2>1. [op |-> "error", inst |-> i] \in Task \ Retry
    BY TaskKinds
  <2> QED
    BY <1>5, <2>1, Unchanged DEF OnWebContainerError, PostsOne, srpcVars, state
<1> QED
  BY <1>1, <1>2, <1>3, <1>4, <1>5 DEF Posts

LEMMA PostsType == ASSUME TypeOK, InitInv, Posts PROVE TypeOK' /\ InitInv'
<1>1. PostsOne
  BY PostsPost
<1>2. TasksTyped
  BY <1>1, TaskPosted DEF PostsOne
<1>3. TypeOK'
  BY <1>1, <1>2, Unchanged, DataStays DEF PostsOne
<1>4. InitInv'
  BY <1>1 DEF PostsOne, InitInv
<1> QED
  BY <1>3, <1>4

\* The control of the library: Initialize and Uninitialize.
Controls ==
    \/ InitAgain \/ InitIPC \/ QueueStart \/ InitDone
    \/ Uninitialize \/ StopClear \/ UninitIPC \/ UninitSRPCLib

LEMMA ControlTasks == ASSUME TypeOK, Controls PROVE TasksTyped
<1>1. CASE StopClear
  BY <1>1, QueueCleared
<1>2. CASE ~StopClear
  BY <1>2, TasksStay DEF Controls, InitAgain, InitIPC, QueueStart, InitDone, Uninitialize,
     UninitIPC, UninitSRPCLib
<1> QED
  BY <1>1, <1>2

LEMMA ControlCounts ==
    ASSUME TypeOK, InitInv, Controls
    PROVE  /\ budget' \in [{"fault", "start", "stop", "init"} -> Nat]
           /\ ctl' \in Control /\ initialized' \in 0 .. MaxInits
           /\ InitInv'
<1> USE DEF Control, InitInv
<1>1. CASE InitAgain
  BY <1>1, Unchanged, SpendType DEF InitAgain
<1>2. CASE InitIPC
  BY <1>2, Unchanged, SpendType DEF InitIPC
<1>3. CASE QueueStart
  BY <1>3, Unchanged DEF QueueStart, state
<1>4. CASE InitDone
  BY <1>4, Unchanged DEF InitDone
<1>5. CASE Uninitialize
  BY <1>5, Unchanged DEF Uninitialize
<1>6. CASE StopClear
  BY <1>6, Unchanged DEF StopClear, state
<1>7. CASE UninitIPC
  BY <1>7, Unchanged DEF UninitIPC
<1>8. CASE UninitSRPCLib
  BY <1>8, Unchanged DEF UninitSRPCLib
<1> QED
  BY <1>1, <1>2, <1>3, <1>4, <1>5, <1>6, <1>7, <1>8 DEF Controls

LEMMA ControlConn ==
    ASSUME TypeOK, Controls
    PROVE  instWC' \in Ptr /\ conn' \in [Inst -> ConnState] /\ notices' \in SUBSET Inst
<1>1. Fresh \subseteq Ptr /\ (\A S : Opened(S) \in [Inst -> ConnState])
      /\ \A S : Destroyed(S) \in [Inst -> ConnState] /\ DestroyNotices(S) \in SUBSET Inst
  BY ConnType DEF Ptr
<1>2. CASE InitIPC
  BY <1>1, <1>2, Unchanged DEF InitIPC
<1>3. CASE UninitIPC
  BY <1>1, <1>3 DEF UninitIPC, Ptr
<1>4. CASE UninitSRPCLib
  BY <1>1, <1>4, Unchanged DEF UninitSRPCLib
<1>5. CASE InitAgain \/ QueueStart \/ InitDone \/ Uninitialize \/ StopClear
  BY <1>5, Unchanged DEF InitAgain, QueueStart, InitDone, Uninitialize, StopClear, state,
     srpcVars
<1> QED
  BY <1>2, <1>3, <1>4, <1>5 DEF Controls

LEMMA ControlsType == ASSUME TypeOK, InitInv, Controls PROVE TypeOK' /\ InitInv'
<1>1. TasksTyped /\ instWC' \in Ptr /\ conn' \in [Inst -> ConnState] /\ notices' \in SUBSET Inst
  BY ControlTasks, ControlConn
<1>2. /\ budget' \in [{"fault", "start", "stop", "init"} -> Nat]
      /\ ctl' \in Control /\ initialized' \in 0 .. MaxInits /\ InitInv'
  BY ControlCounts
<1>3. /\ UNCHANGED <<engines, requested, sent>> /\ server' \in BOOLEAN
      /\ requests' \in Seq(EngineType) /\ owed' \subseteq EngineType
  <2>1. <<>> \in Seq(EngineType)
    OBVIOUS
  <2> QED
    BY <2>1, Unchanged DEF Controls, InitAgain, InitIPC, QueueStart, InitDone, Uninitialize,
       StopClear, UninitIPC, UninitSRPCLib, state
<1> QED
  BY <1>1, <1>2, <1>3, DataStays

\* What the broker and the engines do on their own.
Environment ==
    BrokerIgnores \/ ContainerDies \/ \E i \in Inst : EngineDies(i)

LEMMA EnvironmentType == ASSUME TypeOK, InitInv, Environment PROVE TypeOK' /\ InitInv'
<1>1. /\ UNCHANGED <<queue, delayed, late, ctl, state>>
      /\ budget' \in [{"fault", "start", "stop", "init"} -> Nat] /\ budget'.init = budget.init
  BY SpendType DEF Environment, BrokerIgnores, ContainerDies, EngineDies, MayFault
<1>2. conn' \in [Inst -> ConnState] /\ notices' \in SUBSET Inst
  <2>1. (conn' = conn /\ notices' = notices) \/ \E i \in Inst : Lose(i)
    BY Unchanged DEF Environment, BrokerIgnores, ContainerDies, EngineDies, srpcVars, Ptr
  <2> QED
    BY <2>1, LoseType, Unchanged
<1>3. requests' \in Seq(EngineType)
  <2>1. <<>> \in Seq(EngineType)
    OBVIOUS
  <2>2. requests # <<>> => Tail(requests) \in Seq(EngineType)
    BY TailTask, Unchanged
  <2> QED
    BY <2>1, <2>2, Unchanged DEF Environment, BrokerIgnores, ContainerDies, EngineDies
<1>4. TasksTyped
  BY <1>1, TasksStay
<1>5. TypeOK'
  BY <1>1, <1>2, <1>3, <1>4, DataStays, Unchanged DEF state
<1>6. InitInv'
  BY <1>1 DEF state, InitInv
<1> QED
  BY <1>5, <1>6

LEMMA ExpireType == ASSUME TypeOK, InitInv, Expire PROVE TypeOK' /\ InitInv'
<1>1. TasksTyped
  BY TaskDue
<1>2. UNCHANGED <<late, ctl, state, requests, budget, srpcVars>>
  BY DEF Expire
<1>3. TypeOK'
  BY <1>1, <1>2, DataStays, Unchanged DEF state, srpcVars
<1> QED
  BY <1>2, <1>3 DEF state, InitInv

LEMMA RunType == ASSUME TypeOK, InitInv, Worker \/ LateTask PROVE TypeOK' /\ InitInv'
<1>1. KeepsTypes /\ queue' \in Seq(Task) /\ TasksOf(queue') \subseteq TasksOf(queue)
      /\ late' \in {late, NoTask}
  BY WorkerRuns, LateRuns DEF TypeOK
<1>2. UNCHANGED <<ctl, initialized, server>>
  BY DEF Worker, LateTask
<1>3. TypeOK'
  BY <1>1, <1>2, RepostTasks, TypesMet, Unchanged
<1>4. InitInv'
  BY <1>1, <1>2 DEF KeepsTypes, InitInv
<1> QED
  BY <1>3, <1>4

LEMMA NextCases ==
    Next => Posts \/ Controls \/ Environment \/ Expire \/ Worker \/ LateTask
BY DEF Next, Posts, Controls, Environment

LEMMA StepType == TypeOK /\ InitInv /\ [Next]_vars => TypeOK' /\ InitInv'
<1>1. ASSUME TypeOK, InitInv, UNCHANGED vars PROVE TypeOK' /\ InitInv'
  BY <1>1 DEF vars, state, srpcVars, TypeOK, InitInv, SrpcTypeOK, Pending
<1> QED
  BY <1>1, NextCases, PostsType, ControlsType, EnvironmentType, ExpireType, RunType

\* Every variable holds a value of its kind: m_initialized stays within the
\* calls of Init, and every retry in the queue, whatever was stopped, started
\* or uninitialized meanwhile, names a WebEngine that exists.
THEOREM TypeCorrect == Spec => []TypeOK
<1>1. Spec => [](TypeOK /\ InitInv)
  BY InitType, StepType, PTL DEF Spec
<1> QED
  BY <1>1, PTL

-----------------------------------------------------------------------------
(* The repair of the connection to the broker.                             *)

Repair == [op |-> "reConnContainer"]
LossOf(i) == [op |-> "error", inst |-> i]

\* ContainerWatched holds of the library before it is up as well: the worker
\* runs from QueueStart on, and from InitIPC on the connection may be lost.
\* Before m_initialized is set, a task that repairs would do nothing, so it
\* must still be waiting for its 1000 ms.
WatchInv ==
    /\ ctl = "ipc" => instWC # NULL
    /\ ctl = "queue" /\ instWC = NULL => Repair \in TasksOf(delayed)
    /\ ctl = "up" /\ instWC = NULL => Repair \in Pending
    /\ ctl \in {"ipc", "queue", "up"} /\ instWC # NULL /\ conn[instWC] # "open" =>
          ErrorPending(instWC)

\* A handle that stops being open leaves a notice.
Noticed ==
    /\ notices \subseteq notices'
    /\ \A i \in Inst : conn'[i] # "open" => conn[i] # "open" \/ i \in notices'

LEMMA DestroyNoticed ==
    ASSUME TypeOK, NEW S, notices' = DestroyNotices(S),
           \/ conn' = Destroyed(S)
           \/ \E i \in Inst : conn' = [Destroyed(S) EXCEPT ![i] = "open"]
    PROVE  Noticed
<1>1. \A i \in Inst : Destroyed(S)[i] # "open" => conn[i] # "open" \/ i \in DestroyNotices(S)
  BY DEF Destroyed, DestroyNotices, Held
<1>2. \A i, j \in Inst : [Destroyed(S) EXCEPT ![i] = "open"][j] # "open" => Destroyed(S)[j] # "open"
  BY DEF Destroyed
<1>3. notices \subseteq notices'
  BY DEF DestroyNotices
<1> HIDE DEF Destroyed, DestroyNotices
<1> QED
  BY <1>1, <1>2, <1>3 DEF Noticed

LEMMA StayNoticed == ASSUME UNCHANGED srpcVars PROVE Noticed
BY DEF Noticed, srpcVars

LEMMA OpenedNoticed ==
    ASSUME NEW S, conn' = Opened(S), notices' = notices
    PROVE  Noticed /\ \A i \in Inst \cap S : conn'[i] = "open"
BY DEF Opened, Noticed

\* What a task does to the connection to the broker.
Watched(task, ok) ==
    \/ /\ instWC' = instWC
       /\ \A i \in Inst : i = instWC => task # LossOf(i)
       /\ ~(ok /\ instWC = NULL /\ task = Repair)
    \/ instWC' = NULL /\ Repair \in TasksOf(delayed')
    \/ instWC' \in Inst /\ conn'[instWC'] = "open"

LEMMA RepairPosted ==
    ASSUME TypeOK, PostDelayTask(Repair)
    PROVE  Repair \in TasksOf(delayed')
<1>1. Repair \in Task /\ delayed \in Seq(Task)
  BY TaskKinds DEF Repair, TypeOK
<1> QED
  BY <1>1, AppendTask DEF PostDelayTask

LEMMA TaskWatched ==
    ASSUME TypeOK, NEW task \in Task, NEW ok, Handle(task, ok)
    PROVE  Noticed /\ Watched(task, ok)
<1>1. ASSUME task.op \in {"start", "notify", "reConnEngine", "stop", "load"}
      PROVE  task # Repair /\ \A i \in Inst : task # LossOf(i)
  BY <1>1 DEF Repair, LossOf
<1>2. CASE task.op = "start"
  <2>1. UNCHANGED <<instWC, srpcVars>>
    BY <1>2, HandleCases DEF startWebEngine, Idle
  <2> QED
    BY <1>1, <1>2, <2>1, StayNoticed DEF Watched
<1>3. CASE task.op = "notify"
  <2>1. webInstanceNotify(ok, task.type) /\ task.type \in EngineType
    BY <1>3, HandleCases
  <2>2. instWC' = instWC
    BY <2>1 DEF webInstanceNotify, NotifyConnected, NotifyFailed
  <2>3. Noticed
    <3>1. CASE UNCHANGED srpcVars
      BY <3>1, StayNoticed
    <3>2. ASSUME NEW i \in Fresh, NotifyConnected(task.type, i) PROVE Noticed
      BY <3>2, DestroyNoticed, ConnType DEF NotifyConnected
    <3> QED
      BY <2>1, <3>1, <3>2 DEF webInstanceNotify, NotifyFailed
  <2> QED
    BY <1>1, <1>3, <2>2, <2>3 DEF Watched
<1>4. CASE task.op = "error"
  <2>1. task.inst \in Inst /\ webContainerError(task.inst) /\ task = LossOf(task.inst)
    BY <1>4, HandleCases DEF LossOf
  <2>2. Noticed
    BY <2>1, ErrorCases, DestroyNoticed
  <2>3. \/ instWC' = NULL /\ PostDelayTask(Repair)
        \/ instWC' = instWC /\ task.inst # instWC
    BY <2>1, ErrorCases DEF Repair
  <2>4. task # Repair /\ \A i \in Inst : task = LossOf(i) => i = task.inst
    BY <1>4 DEF Repair, LossOf
  <2> QED
    BY <2>2, <2>3, <2>4, RepairPosted DEF Watched
<1>5. CASE task.op = "reConnContainer"
  <2>1. reConnWebContainer(ok) /\ task = Repair
    BY <1>5, HandleCases DEF Repair
  <2>2. \A i \in Inst : task # LossOf(i)
    BY <1>5 DEF LossOf
  <2>3. CASE Idle /\ (~ok \/ instWC # NULL)
    BY <2>2, <2>3, StayNoticed DEF Idle, Watched
  <2>4. ASSUME NEW i \in Fresh, instWC' = i, conn' = Opened({i}), notices' = notices
        PROVE  Noticed /\ Watched(task, ok)
    BY <2>4, OpenedNoticed, ConnType DEF Watched
  <2>5. CASE ok /\ instWC = NULL /\ PostDelayTask(Repair) /\ UNCHANGED <<instWC, conn, notices>>
    BY <2>5, RepairPosted, StayNoticed DEF Watched, srpcVars
  <2> QED
    BY <2>1, <2>3, <2>4, <2>5 DEF reConnWebContainer, Repair
<1>6. CASE task.op = "reConnEngine"
  <2>1. reConnWebEngine(ok, task.engine)
    BY <1>6, HandleCases
  <2>2. UNCHANGED <<instWC, srpcVars>>
    BY <2>1 DEF reConnWebEngine, Idle
  <2> QED
    BY <1>1, <1>6, <2>2, StayNoticed DEF Watched
<1>7. CASE task.op = "stop"
  <2>1. stopWebEngine(ok, task.type)
    BY <1>7, HandleCases
  <2>2. instWC' = instWC
    BY <2>1 DEF stopWebEngine, Idle
  <2>3. Noticed
    <3>1. CASE Idle
      BY <3>1, StayNoticed DEF Idle
    <3>2. CASE ~Idle
      BY <2>1, <3>2, DestroyNoticed DEF stopWebEngine
    <3> QED
      BY <3>1, <3>2
  <2> QED
    BY <1>1, <1>7, <2>2, <2>3 DEF Watched
<1>8. CASE task.op = "load"
  <2>1. UNCHANGED <<instWC, srpcVars>>
    BY <1>8, HandleCases DEF loadUrl, Idle
  <2> QED
    BY <1>1, <1>8, <2>1, StayNoticed DEF Watched
<1> QED
  BY <1>2, <1>3, <1>4, <1>5, <1>6, <1>7, <1>8, HandleCases

LEMMA PostsWatch == ASSUME TypeOK, WatchInv, Posts PROVE WatchInv'
<1>1. PostsOne
  BY PostsPost
<1>2. PICK x \in Task \ Retry : Post(x)
  BY <1>1 DEF PostsOne
<1>3. TasksOf(queue') = TasksOf(queue) \cup {x}
  BY <1>2, AppendTask DEF Post, TypeOK
<1>4. Pending \subseteq Pending' /\ UNCHANGED <<delayed, ctl, instWC, conn>>
  BY <1>1, <1>3 DEF PostsOne, Pending
<1>5. \A i \in Inst : ErrorPending(i) => ErrorPending(i)'
  <2>1. CASE notices' = notices
    BY <1>4, <2>1 DEF ErrorPending
  <2>2. ASSUME NEW i \in Inst, notices' = notices \ {i}, Post([op |-> "error", inst |-> i])
        PROVE  \A j \in Inst : ErrorPending(j) => ErrorPending(j)'
    <3>1. [op |-> "error", inst |-> i] \in TasksOf(queue')
      BY <2>2, TaskKinds, AppendTask DEF Post, TypeOK
    <3>2. [op |-> "error", inst |-> i] \in Pending'
      BY <3>1 DEF Pending
    <3> QED
      BY <1>4, <2>2, <3>2 DEF ErrorPending
  <2> QED
    BY <1>1, <2>1, <2>2 DEF PostsOne
<1> QED
  BY <1>4, <1>5, Unchanged DEF WatchInv, Ptr

LEMMA ControlsWatch == ASSUME TypeOK, InitInv, WatchInv, Controls PROVE WatchInv'
<1>1. CASE InitIPC
  <2>1. CASE ctl' = ctl
    BY <1>1, <2>1 DEF InitIPC, WatchInv
  <2>2. ASSUME NEW i \in Fresh, instWC' = i, conn' = Opened({i}), ctl' = "ipc"
        PROVE  WatchInv'
    <3>1. i \in Inst /\ conn'[i] = "open" /\ i # NULL
      BY <2>2, ConnType, SrpcAssumption DEF Opened
    <3> QED
      BY <2>2, <3>1 DEF WatchInv
  <2> QED
    BY <1>1, <2>1, <2>2 DEF InitIPC
<1>2. CASE QueueStart
  BY <1>2 DEF QueueStart, WatchInv, ErrorPending, Pending, state, srpcVars
<1>3. CASE InitDone
  BY <1>3 DEF InitDone, WatchInv, ErrorPending, Pending, srpcVars
<1>4. CASE InitAgain \/ Uninitialize
  BY <1>4 DEF InitAgain, Uninitialize, WatchInv, ErrorPending, Pending, srpcVars
<1>5. CASE StopClear \/ UninitIPC \/ UninitSRPCLib
  BY <1>5 DEF StopClear, UninitIPC, UninitSRPCLib, WatchInv
<1> QED
  BY <1>1, <1>2, <1>3, <1>4, <1>5 DEF Controls

LEMMA EnvironmentWatch == ASSUME TypeOK, WatchInv, Environment PROVE WatchInv'
<1>1. UNCHANGED <<queue, delayed, late, ctl, state>>
  BY DEF Environment, BrokerIgnores, ContainerDies, EngineDies
<1>2. UNCHANGED srpcVars \/ \E i \in Inst : Lose(i)
  BY Unchanged DEF Environment, BrokerIgnores, ContainerDies, EngineDies, Ptr
<1>3. Noticed
  <2>1. ASSUME NEW i \in Inst, Lose(i) PROVE Noticed
    BY <2>1 DEF Lose, Noticed
  <2> QED
    BY <1>2, <2>1, StayNoticed
<1>4. Pending' = Pending
  BY <1>1 DEF Pending
<1> QED
  BY <1>1, <1>3, <1>4, Unchanged DEF WatchInv, Noticed, ErrorPending, state, Ptr

LEMMA ExpireWatch == ASSUME TypeOK, WatchInv, Expire PROVE WatchInv'
<1>1. Pending' = Pending /\ ctl # "queue"
  BY TaskDue DEF Expire
<1> QED
  BY <1>1 DEF Expire, WatchInv, ErrorPending, state, srpcVars

LEMMA DelayedGrows ==
    ASSUME TypeOK, KeepsTypes
    PROVE  TasksOf(delayed) \subseteq TasksOf(delayed')
<1>1. CASE delayed' = delayed
  BY <1>1
<1>2. ASSUME NEW x \in Task, delayed' = Append(delayed, x)
      PROVE  TasksOf(delayed) \subseteq TasksOf(delayed')
  <2>1. TasksOf(Append(delayed, x)) = TasksOf(delayed) \cup {x}
    BY AppendTask DEF TypeOK
  <2> QED
    BY <1>2, <2>1
<1> QED
  BY <1>1, <1>2 DEF KeepsTypes, Reposts

LEMMA WorkerWatch == ASSUME TypeOK, InitInv, WatchInv, Worker PROVE WatchInv'
<1> DEFINE x == Head(queue)
           ok == initialized # 0
<1>1. /\ x \in Task /\ TasksOf(queue) = TasksOf(queue') \cup {x} /\ Handle(x, ok)
      /\ UNCHANGED ctl /\ KeepsTypes
  BY WorkerRuns DEF Worker
<1>2. ctl = "up" => ok
  BY Unchanged DEF InitInv
<1> HIDE DEF x, ok
<1>3. Noticed /\ Watched(x, ok)
  BY <1>1, TaskWatched
<1>4. TasksOf(delayed) \subseteq TasksOf(delayed')
  BY <1>1, DelayedGrows
<1>5. Pending \ {x} \subseteq Pending'
  BY <1>1, <1>4 DEF Pending
<1>6. CASE instWC' = NULL /\ Repair \in TasksOf(delayed')
  <2>1. Repair \in Pending' /\ ctl' # "ipc"
    BY <1>1, <1>6 DEF Pending, Worker
  <2> QED
    BY <1>6, <2>1 DEF WatchInv
<1>7. CASE instWC' \in Inst /\ conn'[instWC'] = "open"
  BY <1>7, SrpcAssumption DEF WatchInv
<1>8. CASE /\ instWC' = instWC
           /\ \A i \in Inst : i = instWC => x # LossOf(i)
           /\ ~(ok /\ instWC = NULL /\ x = Repair)
  <2>1. ctl = "up" /\ instWC = NULL => Repair \in Pending'
    BY <1>2, <1>5, <1>8 DEF WatchInv
  <2>2. instWC # NULL => instWC \in Inst
    BY Unchanged DEF Ptr
  <2>3. instWC # NULL /\ ErrorPending(instWC) => ErrorPending(instWC)'
    <3>1. LossOf(instWC) \in Pending /\ instWC # NULL => LossOf(instWC) \in Pending'
      BY <1>5, <1>8, <2>2
    <3> QED
      BY <1>3, <1>8, <3>1 DEF ErrorPending, LossOf, Noticed
  <2>4. instWC # NULL /\ conn'[instWC] # "open" =>
            conn[instWC] # "open" \/ instWC \in notices'
    BY <1>3, <2>2 DEF Noticed
  <2> QED
    BY <1>1, <1>4, <1>8, <2>1, <2>3, <2>4 DEF WatchInv, ErrorPending
<1> QED
  BY <1>3, <1>6, <1>7, <1>8 DEF Watched

LEMMA StepWatch == TypeOK /\ InitInv /\ WatchInv /\ [Next]_vars => WatchInv'
<1>1. ASSUME WatchInv, UNCHANGED vars PROVE WatchInv'
  BY <1>1 DEF vars, state, srpcVars, WatchInv, ErrorPending, Pending
<1>2. ASSUME LateTask PROVE WatchInv'
  BY <1>2 DEF LateTask, WatchInv
<1> QED
  BY <1>1, <1>2, NextCases, PostsWatch, ControlsWatch, EnvironmentWatch, ExpireWatch,
     WorkerWatch

\* While the library is initialized, a broker connection that is gone or about
\* to be found gone has its repair on its way, whatever handles sRPC returns,
\* however often the library is initialized and uninitialized, and whichever
\* tasks are left over from one session to the next.
THEOREM BrokerRepaired == Spec => []ContainerWatched
<1>1. Init => WatchInv
  BY DEF Init, WatchInv
<1>2. WatchInv => ContainerWatched
  BY DEF WatchInv, ContainerWatched, Repair
<1>3. Spec => [](TypeOK /\ InitInv /\ WatchInv)
  BY <1>1, InitType, StepType, StepWatch, PTL DEF Spec
<1> QED
  BY <1>2, <1>3, PTL
=============================================================================
