----------------------------- MODULE InvokeQueue -----------------------------
(***************************************************************************)
(* WebContainerAPI.dll, the client library in a user's process: the class  *)
(* InvokeQueue (src/WebContainerAPI).  The user's threads and the sRPC     *)
(* threads post tasks; the worker of m_queue runs them one by one.  A task *)
(* asks the broker for an engine, connects to the address it answers with, *)
(* and repairs what is lost: both the connection to the broker and the     *)
(* connection to each engine are retried after 1000 ms.                    *)
(*                                                                         *)
(* All delays are 1000 ms, so delayed tasks expire in the order they were  *)
(* posted.  A WebEnginePtr is an index of "engines", or NoEngine; bPrivate *)
(* is only copied from a Start into its requests, and is left out.         *)
(***************************************************************************)
EXTENDS Srpc, Naturals, Sequences, FiniteSets

CONSTANTS
    EngineType,  \* engine types the user asks for
    Wnd,         \* windows the user loads pages in
    Faults,      \* the kinds of fault that may happen
    MaxFaults,   \* bound: number of faults
    MaxStarts,   \* bound: number of calls of WebContainerAPI_Start
    MaxStops,    \* bound: number of calls of WebContainerAPI_Stop
    MaxInits,    \* bound: number of calls of WebContainerAPI_Init
    NoTask       \* no task

FaultKind == {"container", "engine", "connect", "ignore"}

VARIABLES
    queue,        \* tasks of m_queue that are due, in order
    delayed,      \* tasks of m_queue that wait for their 1000 ms
    late,         \* a task the worker still runs after Stop cleared the queue
    ctl,          \* how far Initialize or Uninitialize has got
    initialized,  \* m_initialized
    server,       \* m_localServer # nullptr
    instWC,       \* m_instWebContainer
    engines,      \* the WebEngine objects
    requested,    \* WebEngineMgr::m_mapRequested
    requests,     \* GetInstance calls the broker has yet to answer
    sent,         \* sent[i]: windows whose page was sent on the handle i
    owed,         \* types whose Start the callback has not reported on
    budget        \* what is left of each bound

state == <<initialized, server, instWC, engines, requested, sent, owed>>
vars == <<queue, delayed, late, ctl, state, requests, budget, srpcVars>>

NoEngine == 0
Ptr == Inst \cup {NULL}
Engine == [inst : Ptr, type : EngineType, wnds : SUBSET Wnd]
Retry == [op : {"reConnEngine"}, engine : Nat \ {NoEngine}]
Task == [op : {"start", "stop", "notify"}, type : EngineType]
   \cup [op : {"load"}, type : EngineType, wnd : Wnd]
   \cup [op : {"error"}, inst : Inst]
   \cup [op : {"reConnContainer"}]
   \cup Retry

ASSUME InvokeQueueAssumption ==
    /\ Faults \subseteq FaultKind
    /\ {MaxFaults, MaxStarts, MaxStops, MaxInits} \subseteq Nat
    /\ NoTask \notin Task

Init ==
    /\ queue = <<>> /\ delayed = <<>> /\ late = NoTask
    /\ ctl = "down" /\ initialized = 0 /\ server = FALSE
    /\ instWC = NULL
    /\ engines = <<>>
    /\ requested = [t \in EngineType |-> NoEngine]
    /\ requests = <<>>
    /\ sent = [i \in Inst |-> {}]
    /\ owed = {}
    /\ budget = [fault |-> MaxFaults, start |-> MaxStarts,
                 stop |-> MaxStops, init |-> MaxInits]
    /\ SrpcInit

Has(what) == budget[what] > 0
Spend(what) == budget' = [budget EXCEPT ![what] = @ - 1]
MayFault(kind) == kind \in Faults /\ Has("fault")

-----------------------------------------------------------------------------
(* The user's threads: Start, Stop and LoadUrl post a task.                *)

Post(task) == queue' = Append(queue, task)

StartWebEngine(t) ==
    /\ Has("start") /\ Spend("start")
    /\ ctl = "up"
    /\ Post([op |-> "start", type |-> t])
    /\ owed' = owed \cup {t}
    /\ UNCHANGED <<delayed, late, ctl, initialized, server, instWC, engines,
                   requested, sent, requests, srpcVars>>

StopWebEngine(t) ==
    /\ Has("stop") /\ Spend("stop")
    /\ ctl = "up"
    /\ Post([op |-> "stop", type |-> t])
    /\ UNCHANGED <<delayed, late, ctl, state, requests, srpcVars>>

LoadUrl(t, w) ==
    /\ ctl = "up"
    /\ queue = <<>>  \* bound: loads are posted to an empty queue only
    /\ Post([op |-> "load", type |-> t, wnd |-> w])
    /\ UNCHANGED <<delayed, late, ctl, state, requests, budget, srpcVars>>

-----------------------------------------------------------------------------
(* Initialize and Uninitialize, on one thread of the user, in the steps    *)
(* that the worker and the sRPC threads can see.                           *)

InitAgain ==
    /\ ctl = "up" /\ Has("init") /\ Spend("init")
    /\ initialized' = initialized + 1
    /\ UNCHANGED <<queue, delayed, late, ctl, server, instWC, engines,
                   requested, sent, owed, requests, srpcVars>>

\* initSRPCLib, initIPC; a failure is returned and undoes nothing, so that
\* the server may stay.
InitIPC ==
    /\ ctl = "down" /\ Has("init") /\ Spend("init")
    /\ \/ /\ \E i \in Fresh : instWC' = i /\ conn' = Opened({i})
          /\ ctl' = "ipc" /\ server' = TRUE
       \/ /\ server' \in BOOLEAN
          /\ UNCHANGED <<ctl, instWC, conn>>
    /\ UNCHANGED <<queue, delayed, late, initialized, engines, requested, sent,
                   owed, requests, notices>>

QueueStart ==
    /\ ctl = "ipc"
    /\ ctl' = "queue"
    /\ UNCHANGED <<queue, delayed, late, state, requests, budget, srpcVars>>

InitDone ==
    /\ ctl = "queue"
    /\ ctl' = "up"
    /\ initialized' = initialized + 1
    /\ UNCHANGED <<queue, delayed, late, server, instWC, engines, requested,
                   sent, owed, requests, budget, srpcVars>>

Uninitialize ==
    /\ ctl = "up"
    /\ initialized' = initialized - 1
    /\ ctl' = IF initialized = 1 THEN "stopping" ELSE ctl
    /\ UNCHANGED <<queue, delayed, late, server, instWC, engines, requested,
                   sent, owed, requests, budget, srpcVars>>

\* m_queue.Stop clears the queue; the worker may be in the middle of a task.
StopClear ==
    /\ ctl = "stopping"
    /\ ctl' = "join"
    /\ late' \in {NoTask} \cup (IF queue = <<>> THEN {} ELSE {Head(queue)})
    /\ queue' = <<>> /\ delayed' = <<>>
    /\ UNCHANGED <<state, requests, budget, srpcVars>>

\* The worker is joined; uninitIPC.
UninitIPC ==
    /\ ctl = "join" /\ late = NoTask
    /\ ctl' = "lib"
    /\ conn' = Destroyed({instWC}) /\ notices' = DestroyNotices({instWC})
    /\ instWC' = NULL
    /\ server' = FALSE
    /\ UNCHANGED <<queue, delayed, late, initialized, engines, requested, sent,
                   owed, requests, budget>>

\* SRPC_Uninit: the library lets go of every handle.
UninitSRPCLib ==
    /\ ctl = "lib"
    /\ ctl' = "down"
    /\ conn' = Destroyed(Inst)
    /\ notices' = {} /\ requests' = <<>> /\ owed' = {}
    /\ UNCHANGED <<queue, delayed, late, initialized, server, instWC, engines,
                   requested, sent, budget>>

-----------------------------------------------------------------------------
(* The sRPC threads, the broker and the engines.                           *)

\* The broker answers a request, on the connection to our server.
WebInstanceNotify ==
    /\ requests # <<>> /\ server
    /\ requests' = Tail(requests)
    /\ Post([op |-> "notify", type |-> Head(requests)])
    /\ UNCHANGED <<delayed, late, ctl, state, budget, srpcVars>>

\* The broker drops a request: it could not start an engine.
BrokerIgnores ==
    /\ MayFault("ignore") /\ Spend("fault")
    /\ requests # <<>>
    /\ requests' = Tail(requests)
    /\ UNCHANGED <<queue, delayed, late, ctl, state, srpcVars>>

ContainerDies ==
    /\ MayFault("container") /\ Spend("fault")
    /\ instWC # NULL /\ Lose(instWC)
    /\ requests' = <<>>
    /\ UNCHANGED <<queue, delayed, late, ctl, state>>

EngineDies(i) ==
    /\ MayFault("engine") /\ Spend("fault")
    /\ i # instWC /\ Lose(i)
    /\ UNCHANGED <<queue, delayed, late, ctl, state, requests>>

OnWebContainerError(i) ==
    /\ i \in notices
    /\ notices' = notices \ {i}
    /\ Post([op |-> "error", inst |-> i])
    /\ UNCHANGED <<delayed, late, ctl, state, requests, budget, conn>>

\* A delayed task is due.  Assumed: Initialize takes less than the 1000 ms
\* between the start of the worker and its last statement.
Expire ==
    /\ delayed # <<>> /\ ctl # "queue"
    /\ delayed' = Tail(delayed)
    /\ Post(Head(delayed))
    /\ UNCHANGED <<late, ctl, state, requests, budget, srpcVars>>

-----------------------------------------------------------------------------
(* The worker: one operator per task.  "ok" is m_initialized # 0 as the    *)
(* task reads it, with no lock; a task that reads 0 does nothing.          *)

IsRequested(t) == requested[t] # NoEngine
Idle == UNCHANGED <<delayed, instWC, engines, requested, requests, sent, owed,
                    budget, srpcVars>>
PostDelayTask(task) == delayed' = Append(delayed, task)

\* What SRPC_AsyncCall does with a call: sent, accepted and lost with the
\* connection, or refused with -1.
AsyncCall(i) == IF conn[i] = "open" THEN {"sent"} ELSE {"lost", "refused"}
Requested(outcome, t) ==
    IF outcome = "sent" THEN Append(requests, t) ELSE requests

\* Mutated form: without the test IsRequested.
startWebEngineAgain(ok, t) ==
    \/ (~ok \/ instWC = NULL) /\ Idle
    \/ /\ ok /\ instWC # NULL
       /\ engines' = Append(engines, [inst |-> NULL, type |-> t, wnds |-> {}])
       /\ requested' = [requested EXCEPT ![t] = Len(engines')]
       /\ requests' = Append(requests, t)
       /\ UNCHANGED <<delayed, instWC, sent, owed, budget, srpcVars>>

startWebEngine(ok, t) ==
    \/ /\ ~ok \/ IsRequested(t) \/ instWC = NULL
       /\ Idle
    \/ /\ ok /\ ~IsRequested(t) /\ instWC # NULL
       /\ \E outcome \in AsyncCall(instWC) :
            /\ requests' = Requested(outcome, t)
            /\ IF outcome = "refused"
                 THEN UNCHANGED <<engines, requested>>
                 ELSE /\ engines' = Append(engines, [inst |-> NULL, type |-> t,
                                                     wnds |-> {}])
                      /\ requested' = [requested EXCEPT ![t] = Len(engines')]
       /\ UNCHANGED <<delayed, instWC, sent, owed, budget, srpcVars>>

\* Mutated form: the recorded pages are not sent again.
NotifyConnectedBare(t, i) ==
    LET e == requested[t]
        old == {engines[e].inst}
    IN /\ engines' = [engines EXCEPT ![e].inst = i]
       /\ conn' = [Destroyed(old) EXCEPT ![i] = "open"]
       /\ notices' = DestroyNotices(old)
       /\ owed' = owed \ {t}
       /\ UNCHANGED <<delayed, instWC, requested, requests, sent, budget>>

\* SRPC_CreateClient succeeds with the handle i.  The callback reports 0.
NotifyConnected(t, i) ==
    LET e == requested[t]
        old == {engines[e].inst}
    IN /\ engines' = [engines EXCEPT ![e].inst = i]
       /\ conn' = [Destroyed(old) EXCEPT ![i] = "open"]
       /\ notices' = DestroyNotices(old)
       /\ sent' = [sent EXCEPT ![i] = engines[e].wnds]
       /\ owed' = owed \ {t}
       /\ UNCHANGED <<delayed, instWC, requested, requests, budget>>

\* Mutated form: "return" for "break", so no callback and no retry.
NotifyFailedReturn(t) ==
    MayFault("connect") /\ Spend("fault")
    /\ UNCHANGED <<delayed, instWC, engines, requested, requests, sent, owed,
                   srpcVars>>

\* SRPC_CreateClient fails.  The callback reports -1.
NotifyFailed(t) ==
    /\ MayFault("connect") /\ Spend("fault")
    /\ PostDelayTask([op |-> "reConnEngine", engine |-> requested[t]])
    /\ owed' = owed \ {t}
    /\ UNCHANGED <<instWC, engines, requested, requests, sent, srpcVars>>

\* Mutated form: the retry is not restricted to a type that is requested.
webInstanceNotifyRetry(ok, t) ==
    \/ /\ ~ok \/ ~IsRequested(t)
       /\ PostDelayTask([op |-> "reConnEngine", engine |-> requested[t]])
       /\ owed' = owed \ {t}
       /\ UNCHANGED <<instWC, engines, requested, requests, sent, budget, srpcVars>>
    \/ /\ ok /\ IsRequested(t)
       /\ (\E i \in Fresh : NotifyConnected(t, i)) \/ NotifyFailed(t)

webInstanceNotify(ok, t) ==
    \/ /\ ~ok \/ ~IsRequested(t)
       /\ owed' = owed \ {t}
       /\ UNCHANGED <<delayed, instWC, engines, requested, requests, sent,
                      budget, srpcVars>>
    \/ /\ ok /\ IsRequested(t)
       /\ (\E i \in Fresh : NotifyConnected(t, i)) \/ NotifyFailed(t)

EnginesOn(i) == {e \in {requested[t] : t \in EngineType} \ {NoEngine} :
                    engines[e].inst = i}

\* Mutated forms: nothing is posted; the inst of the engine is kept.
webContainerErrorNoRetry(i) ==
    /\ conn' = Destroyed({i}) /\ notices' = DestroyNotices({i})
    /\ instWC' = IF i = instWC THEN NULL ELSE instWC
    /\ engines' = [e \in DOMAIN engines |->
                      IF e \in EnginesOn(i) THEN [engines[e] EXCEPT !.inst = NULL]
                                            ELSE engines[e]]
    /\ UNCHANGED <<delayed, requested, requests, sent, owed, budget>>
webContainerErrorKeep(i) ==
    /\ conn' = Destroyed({i}) /\ notices' = DestroyNotices({i})
    /\ delayed' = IF EnginesOn(i) = {} THEN delayed ELSE
          Append(delayed, [op |-> "reConnEngine",
                           engine |-> CHOOSE e \in EnginesOn(i) : TRUE])
    /\ UNCHANGED <<instWC, engines, requested, requests, sent, owed, budget>>

webContainerError(i) ==
    /\ conn' = Destroyed({i}) /\ notices' = DestroyNotices({i})
    /\ CASE i = instWC ->
              /\ instWC' = NULL
              /\ PostDelayTask([op |-> "reConnContainer"])
              /\ UNCHANGED engines
         [] i # instWC /\ EnginesOn(i) # {} ->
              \E e \in EnginesOn(i) :
                /\ engines' = [engines EXCEPT ![e].inst = NULL]
                /\ PostDelayTask([op |-> "reConnEngine", engine |-> e])
                /\ UNCHANGED instWC
         [] OTHER -> UNCHANGED <<instWC, engines, delayed>>
    /\ UNCHANGED <<requested, requests, sent, owed, budget>>

\* Mutated form: a failed attempt is not repeated.
reConnWebContainerOnce(ok) ==
    \/ (~ok \/ instWC # NULL) /\ Idle
    \/ /\ ok /\ instWC = NULL
       /\ \/ /\ \E i \in Fresh : instWC' = i /\ conn' = Opened({i})
             /\ UNCHANGED budget
          \/ /\ MayFault("connect") /\ Spend("fault")
             /\ UNCHANGED <<instWC, conn>>
       /\ UNCHANGED <<delayed, engines, requested, requests, sent, owed, notices>>

\* Mutated form: the attempt does not ask whether there is a connection.
reConnWebContainerAlways(ok) ==
    \/ ~ok /\ Idle
    \/ /\ ok
       /\ \/ /\ \E i \in Fresh : /\ instWC' = i
                                /\ conn' = [Destroyed({instWC}) EXCEPT ![i] = "open"]
             /\ notices' = DestroyNotices({instWC})
             /\ UNCHANGED <<delayed, budget>>
          \/ /\ MayFault("connect") /\ Spend("fault")
             /\ PostDelayTask([op |-> "reConnContainer"])
             /\ UNCHANGED <<instWC, conn, notices>>
       /\ UNCHANGED <<engines, requested, requests, sent, owed>>

reConnWebContainer(ok) ==
    \/ /\ ~ok \/ instWC # NULL
       /\ Idle
    \/ /\ ok /\ instWC = NULL
       /\ \/ /\ \E i \in Fresh : instWC' = i /\ conn' = Opened({i})
             /\ UNCHANGED <<delayed, budget>>
          \/ /\ MayFault("connect") /\ Spend("fault")
             /\ PostDelayTask([op |-> "reConnContainer"])
             /\ UNCHANGED <<instWC, conn>>
       /\ UNCHANGED <<engines, requested, requests, sent, owed, notices>>

reConnWebEngine(ok, e) ==
    LET t == engines[e].type
        Repost == PostDelayTask([op |-> "reConnEngine", engine |-> e])
    IN \/ /\ ~ok \/ ~IsRequested(t)
          /\ Idle
       \/ /\ ok /\ IsRequested(t) /\ instWC = NULL
          /\ Repost
          /\ UNCHANGED <<instWC, engines, requested, requests, sent, owed,
                         budget, srpcVars>>
       \/ /\ ok /\ IsRequested(t) /\ instWC # NULL
          /\ engines' = [engines EXCEPT ![e].inst = NULL]
          /\ requested' = [requested EXCEPT ![t] = e]
          /\ \E outcome \in AsyncCall(instWC) :
               /\ requests' = Requested(outcome, t)
               /\ IF outcome = "refused" THEN Repost ELSE UNCHANGED delayed
          /\ UNCHANGED <<instWC, sent, owed, budget, srpcVars>>

stopWebEngine(ok, t) ==
    \/ /\ ~ok \/ ~IsRequested(t)
       /\ Idle
    \/ /\ ok /\ IsRequested(t)
       /\ LET old == {engines[requested[t]].inst}
          IN conn' = Destroyed(old) /\ notices' = DestroyNotices(old)
       /\ requested' = [requested EXCEPT ![t] = NoEngine]
       /\ owed' = owed \ {t}
       /\ UNCHANGED <<delayed, instWC, engines, requests, sent, budget>>

\* The page is recorded for the window before it is sent.
loadUrl(ok, t, w) ==
    LET e == requested[t]
        i == engines[e].inst
    IN IF ok /\ IsRequested(t) /\ i # NULL
         THEN /\ engines' = [engines EXCEPT ![e].wnds = @ \cup {w}]
              /\ sent' = IF conn[i] = "open"
                           THEN [sent EXCEPT ![i] = @ \cup {w}] ELSE sent
              /\ UNCHANGED <<delayed, instWC, requested, requests, owed, budget,
                             srpcVars>>
         ELSE Idle

Handle(task, ok) ==
    CASE task.op = "start"           -> startWebEngine(ok, task.type)
      [] task.op = "notify"          -> webInstanceNotify(ok, task.type)
      [] task.op = "error"           -> webContainerError(task.inst)
      [] task.op = "reConnContainer" -> reConnWebContainer(ok)
      [] task.op = "reConnEngine"    -> reConnWebEngine(ok, task.engine)
      [] task.op = "stop"            -> stopWebEngine(ok, task.type)
      [] task.op = "load"            -> loadUrl(ok, task.type, task.wnd)

Worker ==
    /\ ctl \in {"queue", "up", "stopping"}
    /\ queue # <<>>
    /\ queue' = Tail(queue)
    /\ Handle(Head(queue), initialized # 0)
    /\ UNCHANGED <<late, ctl, initialized, server>>

\* The task the worker was in when Stop cleared the queue runs to its end.
LateTask ==
    /\ ctl = "join" /\ late # NoTask
    /\ \E ok \in BOOLEAN : Handle(late, ok)
    /\ late' = NoTask
    /\ UNCHANGED <<queue, ctl, initialized, server>>

Next ==
    \/ \E t \in EngineType :
         \/ StartWebEngine(t) \/ StopWebEngine(t)
         \/ \E w \in Wnd : LoadUrl(t, w)
    \/ InitAgain \/ InitIPC \/ QueueStart \/ InitDone
    \/ Uninitialize \/ StopClear \/ UninitIPC \/ UninitSRPCLib
    \/ WebInstanceNotify \/ BrokerIgnores \/ ContainerDies
    \/ \E i \in Inst : EngineDies(i) \/ OnWebContainerError(i)
    \/ Expire \/ Worker \/ LateTask

Spec == Init /\ [][Next]_vars

\* The threads run, sRPC reports a lost connection, and the broker answers a
\* request it has received.
Fairness ==
    /\ WF_vars(Worker) /\ WF_vars(LateTask) /\ WF_vars(Expire)
    /\ WF_vars(QueueStart \/ InitDone)
    /\ WF_vars(StopClear \/ UninitIPC \/ UninitSRPCLib)
    /\ WF_vars(WebInstanceNotify)
    /\ \A i \in Inst : WF_vars(OnWebContainerError(i))
FairSpec == Spec /\ Fairness

-----------------------------------------------------------------------------
TasksOf(seq) == {seq[n] : n \in DOMAIN seq}
Pending == TasksOf(queue) \cup TasksOf(delayed)
ErrorPending(i) == i \in notices \/ [op |-> "error", inst |-> i] \in Pending
EngineOf(t) == engines[requested[t]]

\* Every variable holds a value of its kind; in particular m_initialized counts
\* the calls of Init that were not undone, and a retry names an engine there is.
TypeOK ==
    /\ queue \in Seq(Task) /\ delayed \in Seq(Task)
    /\ late \in Task \cup {NoTask}
    /\ \A x \in Pending \cup {late} : x \in Retry => x.engine \in DOMAIN engines
    /\ ctl \in {"down", "ipc", "queue", "up", "stopping", "join", "lib"}
    /\ initialized \in 0 .. MaxInits /\ server \in BOOLEAN
    /\ instWC \in Ptr
    /\ engines \in Seq(Engine)
    /\ requested \in [EngineType -> 0 .. Len(engines)]
    /\ requests \in Seq(EngineType)
    /\ sent \in [Inst -> SUBSET Wnd]
    /\ owed \subseteq EngineType
    /\ budget \in [{"fault", "start", "stop", "init"} -> Nat]
    /\ SrpcTypeOK

\* While the library is initialized, a broker connection that is gone, or is
\* about to be found gone, has a repair on its way: webContainerError or
\* reConnWebContainer.  Holds across Uninit and Init, with tasks left over.
ContainerWatched ==
    ctl = "up" =>
        /\ instWC = NULL => [op |-> "reConnContainer"] \in Pending
        /\ instWC # NULL /\ conn[instWC] # "open" => ErrorPending(instWC)

\* While the broker stays up, an engine that was asked for and has no working
\* connection is on its way to one: the request or its answer is outstanding,
\* or a task will ask again.  A stale retry, of a WebEngine that was stopped
\* and asked for again, counts: it puts itself into the map.
EngineWatched ==
    ctl = "up" =>
        \A t \in EngineType : IsRequested(t) =>
            LET i == EngineOf(t).inst
            IN \/ /\ i = NULL
                  /\ \/ t \in TasksOf(requests)
                     \/ [op |-> "notify", type |-> t] \in Pending
                     \/ \E x \in Pending : /\ x.op = "reConnEngine"
                                           /\ engines[x.engine].type = t
               \/ i # NULL /\ (conn[i] = "open" \/ ErrorPending(i))

\* The handle recorded for an engine that is asked for is one the library
\* holds: no task destroys a handle and leaves it in the map, where the next
\* SRPC_AsyncCall or SRPC_DestroyClient would use it.
HeldNotClosed ==
    ctl = "up" =>
        \A t \in EngineType :
            IsRequested(t) /\ EngineOf(t).inst # NULL => Held(EngineOf(t).inst)

\* While nothing was stopped, every engine connection of the library is
\* recorded for the type that uses it, so that stopWebEngine can close it.
NoOrphanHandle ==
    \A i \in Inst :
        conn[i] = "open" /\ i # instWC /\ ctl # "down" /\ budget.stop = MaxStops =>
            \E t \in EngineType : IsRequested(t) /\ EngineOf(t).inst = i

\* What was started is stopped before the last Uninit.  Otherwise the map of
\* WebEngineMgr keeps WebEngines whose handles uninitSRPCLib let go of, and a
\* later session finds them there.
StoppedFirst == ctl = "lib" => \A t \in EngineType : ~IsRequested(t)

\* The library closes a working connection of an engine only when it stops the
\* type or puts a new connection in its place, and the broker's never, until
\* Uninit.  A loss that is reported late, a retry that outlived its session and
\* a second repair of the broker's connection close none.  Only where handle
\* values are not reused: the library is told of the handles it destroys as of
\* losses, and destroys the value again.
WorkingKept ==
    [][\A i \in Inst :
        conn[i] = "open" /\ conn'[i] = "closed" /\ ctl' = ctl =>
            \E t \in EngineType :
                /\ IsRequested(t) /\ EngineOf(t).inst = i
                /\ ~IsRequested(t)' \/ conn'[EngineOf(t).inst'] = "open"]_vars

\* An engine that takes the place of a lost one is sent every page recorded
\* for the lost one's windows.
LoadsReplayed ==
    \A t \in EngineType :
        IsRequested(t) /\ EngineOf(t).inst # NULL =>
            LET i == EngineOf(t).inst
            IN conn[i] = "open" => EngineOf(t).wnds \subseteq sent[i]

\* A broker connection that is lost is made again.
ContainerReconnects ==
    (ctl = "up" /\ (instWC = NULL \/ conn[instWC] = "lost"))
        ~> (ctl # "up" \/ (instWC # NULL /\ conn[instWC] = "open"))

\* A connection to the broker is there and works, or there is none.
BrokerKept == ctl = "up" /\ instWC # NULL => conn[instWC] = "open"
BrokerStays == [](ctl = "up" => instWC # NULL /\ conn[instWC] = "open")

\* While the broker stays up, an engine that is asked for and not connected is
\* connected in the end, unless it is stopped.
EngineReconnects == BrokerStays =>
    \A t \in EngineType :
        (ctl = "up" /\ IsRequested(t) /\ EngineOf(t).inst = NULL)
            ~> (\/ ctl # "up" \/ ~IsRequested(t)
                \/ EngineOf(t).inst # NULL /\ Held(EngineOf(t).inst))

\* WebStartCb reports on every Start, with success or failure
\* (WebContainerAPI.h:45-51), while the broker stays up and answers and a type
\* is started once.
StartReported == BrokerStays => \A t \in EngineType : t \in owed ~> t \notin owed

-----------------------------------------------------------------------------
\* WebContainerAPI.h:88: a user holds at most one reference to the engine of
\* a kind, so the library has at most one connection a kind.
OneReferencePerKernel ==
    Cardinality({i \in Inst \ {instWC} : conn[i] = "open"})
        <= Cardinality(EngineType)
=============================================================================
