------------------------------- MODULE ResMgr -------------------------------
(***************************************************************************)
(* WebContainer.exe, the broker: it starts browser engines and tells each  *)
(* requester the address of the engine it may use (src/WebContainer).      *)
(*                                                                         *)
(* The sRPC threads only post tasks, with PostWork_...; one worker of      *)
(* CResMgr::m_queue runs them, so a handler is one step.  Tasks run in     *)
(* the order they were posted (TaskQueue models when that fails).          *)
(*                                                                         *)
(* Maps are keyed by CAddrKey, whose operator< compares m_hInstance alone  *)
(* (AddrKey.h:58-61): a key is a handle, and a key built from an address   *)
(* alone is the key NULL.  A WebCorePtr is an index of "cores", the        *)
(* CWebCore objects in the order they were made, or NoCore.                *)
(***************************************************************************)
EXTENDS Srpc, Naturals, Sequences

CONSTANTS
    Addr,        \* addresses of requesters (szRspAddr)
    Configured,  \* engine types with a provider in bin/Release/WebContainer.xml
    MaxQueue,    \* bound: requests are posted while fewer tasks are queued
    NoReq        \* "no entry", for m_mapReqs

EngineType == {"Chromium", "IE"}

ASSUME ResMgrAssumption ==
    /\ Configured \subseteq EngineType
    /\ MaxQueue \in Nat
    /\ NoReq \notin [addr : Addr, fac : [EngineType -> Nat]]

VARIABLES
    queue,     \* tasks of m_queue, in the order they run
    mapReqs,   \* m_mapReqs: requester handle -> its address and its factory
    mapRes,    \* m_mapRes: engine handle -> its WebCorePtr
    mapAddrs,  \* CGlobalResMgr::m_mapAddrs: type -> handle of the public engine
    cores,     \* the CWebCore objects
    told       \* told[k]: the engine whose address was last sent on handle k

reqVars == <<mapReqs, mapRes, mapAddrs, cores, told>>
vars == <<queue, reqVars, srpcVars>>

Key == Inst \cup {NULL}
NoCore == 0
NoFac == [t \in EngineType |-> NoCore]

Core == [inst : Key, type : EngineType, priv : BOOLEAN, reqs : SUBSET Key]
Requester == [addr : Addr, fac : [EngineType -> Nat]]
Task == [op : {"get"}, addr : Addr, type : EngineType, priv : BOOLEAN]
   \cup [op : {"release"}, addr : Addr, type : EngineType]
   \cup [op : {"connErr"}, inst : Inst]

Init ==
    /\ queue = <<>>
    /\ mapReqs = [k \in Key |-> NoReq]
    /\ mapRes = [k \in Key |-> NoCore]
    /\ mapAddrs = [t \in EngineType |-> NULL]
    /\ cores = <<>>
    /\ told = [k \in Inst |-> NoCore]
    /\ SrpcInit

-----------------------------------------------------------------------------
(* sRPC threads: the services post a task, the error callback posts a task. *)

GetInstance(a, t, p) ==
    /\ Len(queue) < MaxQueue
    /\ queue' = Append(queue, [op |-> "get", addr |-> a, type |-> t, priv |-> p])
    /\ UNCHANGED <<reqVars, srpcVars>>

ReleaseInstance(a, t) ==
    /\ Len(queue) < MaxQueue
    /\ queue' = Append(queue, [op |-> "release", addr |-> a, type |-> t])
    /\ UNCHANGED <<reqVars, srpcVars>>

\* A bug: the error callback drops its task when the queue is full.
OnSRPCErrorBounded(i) ==
    /\ i \in notices
    /\ notices' = notices \ {i}
    /\ queue' = IF Len(queue) < MaxQueue
                THEN Append(queue, [op |-> "connErr", inst |-> i]) ELSE queue
    /\ UNCHANGED <<reqVars, conn>>

\* A bug: the key is built without the handle.
OnSRPCErrorNoKey(i) ==
    /\ i \in notices
    /\ notices' = notices \ {i}
    /\ queue' = Append(queue, [op |-> "connErr", inst |-> NULL])
    /\ UNCHANGED <<reqVars, conn>>

OnSRPCError(i) ==
    /\ i \in notices
    /\ notices' = notices \ {i}
    /\ queue' = Append(queue, [op |-> "connErr", inst |-> i])
    /\ UNCHANGED <<reqVars, conn>>

\* The other end of a handle, a requester or an engine, closes or dies.
PeerDies(i) ==
    /\ Lose(i)
    /\ UNCHANGED <<queue, reqVars>>

-----------------------------------------------------------------------------
(* CWebCore, CWebCoreFactory and CGlobalResMgr, and the forms of them that *)
(* a mistake would give: the runs tell them apart.                         *)

\* The insert is missing, or it replaces the set.
AddRequesterNone(core, k) == core
AddRequesterOnly(core, k) == [core EXCEPT !.reqs = {k}]
AddRequester(core, k) == [core EXCEPT !.reqs = @ \cup {k}]

DelRequesterNone(core, k) == core
DelRequester(core, k) == [core EXCEPT !.reqs = @ \ {k}]

\* DelWebCore for the types in T, on the factory of the requester record r;
\* and what it returns, the number of erased entries.
DelWebCores(r, T) ==
    [r EXCEPT !.fac = [t \in EngineType |-> IF t \in T THEN NoCore ELSE @[t]]]
DelCount(fac, t) == IF fac[t] = NoCore THEN 0 ELSE 1

AddAddrNone(t, i) == mapAddrs
AddAddr(t, i) == [mapAddrs EXCEPT ![t] = i]

DelAddrNone(T) == mapAddrs
DelAddr(T) == [t \in EngineType |-> IF t \in T THEN NULL ELSE mapAddrs[t]]

-----------------------------------------------------------------------------
(* The worker: procGetWebInstance.                                         *)

\* The key that the handlers build from an address alone.
RequesterKey(a) == NULL

\* The factory the handler goes on with: the recorded one or a new one.
FactoryOf(k) == IF mapReqs[k] = NoReq THEN NoFac ELSE mapReqs[k].fac

\* What SRPC_CreateProvider may return for the type t: it fails when no
\* provider is configured, and may fail otherwise.
ProviderResults(t, used) ==
    {NULL} \cup (IF t \in Configured THEN Fresh \ used ELSE {})

\* notifyWebAddr: the address of core c of the heap cs goes to k, if there is
\* one.  The mutated form tells the first requester of an engine only.
NotifyWebAddrFirst(k, cs, c) ==
    IF cs[c].inst # NULL /\ cs[c].reqs = {} THEN [told EXCEPT ![k] = c] ELSE told
NotifyWebAddr(k, cs, c) ==
    IF cs[c].inst # NULL THEN [told EXCEPT ![k] = c] ELSE told

\* The requester k gets the core c of the heap cs: recorded both ways, told.
Register(k, req, cs, c) ==
    /\ cores' = [cs EXCEPT ![c] =
           [AddRequester(@, k) EXCEPT !.type = req.type, !.priv = req.priv]]
    /\ mapReqs' = [mapReqs EXCEPT ![k] =
           [addr |-> req.addr,
            fac |-> [FactoryOf(RequesterKey(req.addr)) EXCEPT ![req.type] = c]]]
    /\ told' = NotifyWebAddr(k, cs, c)

\* createOneCore, for the handle p (NULL if SRPC_CreateProvider failed).
NewCore(p) == [inst |-> p, type |-> "Chromium", priv |-> FALSE, reqs |-> {}]

ServeNewEngine(k, req) ==
    \E p \in ProviderResults(req.type, {k}) :
        /\ mapRes' = [mapRes EXCEPT ![p] = Len(cores) + 1]
        /\ mapAddrs' = IF req.priv THEN mapAddrs ELSE AddAddr(req.type, p)
        /\ Register(k, req, Append(cores, NewCore(p)), Len(cores) + 1)
        /\ conn' = Opened({k, p})

\* getGlobalWeb finds an engine.  The mutated form forgets bPrivate.
PublicKnownAny(req) == mapAddrs[req.type] # NULL
PublicKnown(req) == ~req.priv /\ mapAddrs[req.type] # NULL

\* m_mapRes[getGlobalWeb(type)], where the public engine is known.
ServePublicEngine(k, req) ==
    LET c == mapRes[mapAddrs[req.type]] IN
    /\ IF c = NoCore
       THEN UNCHANGED <<cores, mapReqs, told>>
       ELSE Register(k, req, cores, c)
    /\ conn' = Opened({k})
    /\ UNCHANGED <<mapRes, mapAddrs>>

ProcGetWebInstance ==
    /\ queue # <<>>
    /\ LET req == Head(queue) IN
       /\ req.op = "get"
       /\ \/ \* already served, or SRPC_CreateClient fails
             UNCHANGED <<reqVars, conn>>
          \/ /\ FactoryOf(RequesterKey(req.addr))[req.type] = NoCore
             /\ \E k \in Fresh :
                   IF PublicKnown(req)
                   THEN ServePublicEngine(k, req)
                   ELSE ServeNewEngine(k, req)
    /\ queue' = Tail(queue)
    /\ UNCHANGED notices

-----------------------------------------------------------------------------
(* The worker: the two doWebRelease.                                       *)

\* doWebRelease(reqKey, iType) for the types in T.  The handle of the
\* requester is closed, and its entry erased, if DelWebCore returns 0; the
\* engine is closed if DelRequester returns 0, that is, if the core does
\* not list the requester.
ReleaseRequester(k, T) ==
    LET served  == {t \in T : mapReqs[k] # NoReq /\ mapReqs[k].fac[t] # NoCore}
        closes  == \E t \in served : DelCount(mapReqs[k].fac, t) = 0
        used    == {mapReqs[k].fac[t] : t \in served}
        unknown == {t \in served : k \notin cores[mapReqs[k].fac[t]].reqs}
        stopped == {cores[mapReqs[k].fac[t]].inst : t \in unknown}
        closed  == stopped \cup (IF closes THEN {k} ELSE {})
    IN  /\ mapReqs' = [mapReqs EXCEPT ![k] =
               IF @ = NoReq \/ closes THEN NoReq
               ELSE DelWebCores(@, served)]
        /\ cores' = [c \in DOMAIN cores |->
               IF c \in used THEN DelRequester(cores[c], k) ELSE cores[c]]
        /\ mapRes' = [i \in Key |-> IF i \in stopped THEN NoCore ELSE mapRes[i]]
        /\ mapAddrs' = DelAddr({t \in unknown : ~cores[mapReqs[k].fac[t]].priv})
        /\ conn' = Destroyed(closed)
        /\ notices' = DestroyNotices(closed)
        /\ UNCHANGED told

\* The requesters of c that have a factory.  The mutated form skips the loop.
UsersOfNone(c) == {}
UsersOf(c) == {k \in cores[c].reqs : mapReqs[k] # NoReq}

\* doWebRelease(pWeb): the engine is gone, its requesters forget it.
ReleaseEngine(c) ==
    LET t      == cores[c].type
        ended  == {k \in UsersOf(c) : DelCount(mapReqs[k].fac, t) = 0}
        closed == {cores[c].inst} \cup ended
    IN  /\ mapAddrs' = IF cores[c].priv THEN mapAddrs ELSE DelAddr({t})
        /\ mapRes' = [mapRes EXCEPT ![cores[c].inst] = NoCore]
        /\ mapReqs' = [k \in Key |->
               IF k \in ended THEN NoReq
               ELSE IF k \in UsersOf(c) THEN DelWebCores(mapReqs[k], {t})
               ELSE mapReqs[k]]
        /\ conn' = Destroyed(closed)
        /\ notices' = DestroyNotices(closed)
        /\ UNCHANGED <<cores, told>>

ProcReleaseWebInstance ==
    /\ queue # <<>>
    /\ Head(queue).op = "release"
    /\ queue' = Tail(queue)
    /\ ReleaseRequester(RequesterKey(Head(queue).addr), {Head(queue).type})

ProcConnectErr ==
    /\ queue # <<>>
    /\ Head(queue).op = "connErr"
    /\ queue' = Tail(queue)
    /\ LET i == Head(queue).inst IN
       IF mapRes[i] # NoCore
       THEN ReleaseEngine(mapRes[i])
       ELSE ReleaseRequester(i, EngineType)

-----------------------------------------------------------------------------
Worker == ProcGetWebInstance \/ ProcReleaseWebInstance \/ ProcConnectErr

Next ==
    \/ \E a \in Addr, t \in EngineType, p \in BOOLEAN : GetInstance(a, t, p)
    \/ \E a \in Addr, t \in EngineType : ReleaseInstance(a, t)
    \/ \E i \in Inst : OnSRPCError(i) \/ PeerDies(i)
    \/ Worker

Spec == Init /\ [][Next]_vars

\* The worker thread runs while the process does, and sRPC makes the error
\* callback it owes (sRPCTypeDef.h:116-126).
Fairness == WF_vars(Worker) /\ \A i \in Inst : WF_vars(OnSRPCError(i))
FairSpec == Spec /\ Fairness
-----------------------------------------------------------------------------
(* Safety.  The conjuncts of the inductive invariant are named, so that    *)
(* the runs and the proofs can cite each one.                              *)

\* Every variable holds a value of its kind, and pointers are to cores.
TypeOK ==
    /\ queue \in Seq(Task)
    /\ mapReqs \in [Key -> Requester \cup {NoReq}]
    /\ mapRes \in [Key -> Nat]
    /\ mapAddrs \in [EngineType -> Key]
    /\ cores \in Seq(Core)
    /\ told \in [Inst -> Nat]
    /\ SrpcTypeOK

Uses(k, t, c) == mapReqs[k] # NoReq /\ mapReqs[k].fac[t] = c

\* The lookups by address (CResMgr.cpp:52, 114, 184) search the key NULL,
\* under which no requester is ever recorded: they find nothing.
NoNullRequester == mapReqs[NULL] = NoReq

\* m_mapRes files every engine under its own handle.
ResIndex ==
    \A i \in Key : mapRes[i] # NoCore =>
        mapRes[i] \in DOMAIN cores /\ cores[mapRes[i]].inst = i

\* An engine in use is one the broker still holds: no factory keeps an engine
\* that doWebRelease dropped (an engine that could not be started is in no
\* such table).
NoDanglingEngine ==
    \A k \in Key, t \in EngineType, c \in DOMAIN cores :
        Uses(k, t, c) => /\ cores[c].type = t
                         /\ cores[c].inst # NULL => mapRes[cores[c].inst] = c

\* The two registries agree: a requester's factory names a core exactly when
\* that core lists the requester, for every engine the broker holds.
RegistrationMirror ==
    /\ \A k \in Key, t \in EngineType :
          mapReqs[k] # NoReq /\ mapReqs[k].fac[t] # NoCore =>
              /\ mapReqs[k].fac[t] \in DOMAIN cores
              /\ k \in cores[mapReqs[k].fac[t]].reqs
    /\ \A i \in Key : mapRes[i] # NoCore =>
          \A k \in cores[mapRes[i]].reqs :
              Uses(k, cores[mapRes[i]].type, mapRes[i])

\* At most one public engine per type is running, and it is the one
\* CGlobalResMgr names; so m_mapRes[getGlobalWeb(...)] (CResMgr.cpp:93) never
\* makes a null entry.
OnePublicEngine ==
    /\ \A t \in EngineType : mapAddrs[t] # NULL =>
          /\ mapRes[mapAddrs[t]] # NoCore
          /\ cores[mapRes[mapAddrs[t]]].type = t
          /\ ~cores[mapRes[mapAddrs[t]]].priv
    /\ \A i \in Inst :
          mapRes[i] # NoCore /\ ~cores[mapRes[i]].priv =>
              mapAddrs[cores[mapRes[i]].type] = i

\* A private engine is never shared (InnerProtocol.h:26).
PrivateIsExclusive ==
    \A c \in DOMAIN cores :
        cores[c].priv => \A j, k \in cores[c].reqs : j = k

\* Every sRPC handle that is not closed yet is either an engine's or a
\* requester's, recorded in the one table and not in the other; and the tables
\* hold no closed handle.
HandleOwned ==
    \A i \in Inst :
        /\ Held(i) <=> (mapRes[i] # NoCore \/ mapReqs[i] # NoReq)
        /\ ~(mapRes[i] # NoCore /\ mapReqs[i] # NoReq)

\* A requester recorded for a running engine has been sent the address of
\* that engine and of no other since.
RegisteredIsTold ==
    \A k \in Inst, t \in EngineType, c \in DOMAIN cores :
        Uses(k, t, c) /\ cores[c].inst # NULL => told[k] = c

\* The inductive invariant: what is above and holds whether or not handle
\* values are reused.
ResMgrInv ==
    /\ TypeOK
    /\ NoNullRequester
    /\ ResIndex
    /\ NoDanglingEngine
    /\ RegistrationMirror
    /\ OnePublicEngine
    /\ PrivateIsExclusive
    /\ HandleOwned
    /\ RegisteredIsTold

\* A connected requester that was sent the address of a running engine is
\* recorded for it: the engine is not closed under it, and it is told apart
\* from the requesters of others.  (Only while handle values are not reused.)
ToldIsRegistered ==
    \A k \in Inst :
        /\ told[k] # NoCore /\ conn[k] = "open"
        /\ mapRes[cores[told[k]].inst] = told[k]
        => k \in cores[told[k]].reqs

\* The broker drops an engine only after its connection was lost: a late or
\* repeated error callback never takes down an engine that works.  (Only
\* while handle values are not reused.)
OnlyLostEnginesDropped ==
    [][\A i \in Inst : mapRes[i] # NoCore /\ mapRes'[i] # mapRes[i]
                          => conn[i] = "lost"]_vars

\* An engine whose connection is lost is dropped in the end, so that the next
\* request starts another one instead of getting a dead address.
LostEngineDropped ==
    \A i \in Inst :
        (mapRes[i] # NoCore /\ conn[i] = "lost") ~> (mapRes[i] = NoCore)

-----------------------------------------------------------------------------
\* The engines the broker holds, and who is listed by which.
Running == {i \in Inst : mapRes[i] # NoCore}
Listed == {x \in Inst \X Running : x[1] \in cores[mapRes[x[2]]].reqs}

\* The broker keeps the promise of Registry, though a grant, a release and a
\* loss each update up to five tables, objects of engines that are gone stay
\* in the heap, and values of handles are returned again.
Grants == INSTANCE Registry WITH engines <- Running, public <- mapAddrs, uses <- Listed
RegistrySpec == Grants!Spec

-----------------------------------------------------------------------------
(* What comments say and the code does not do; a run violates each.        *)

Quiet == queue = <<>> /\ notices = {}

\* InnerProtocol.h:27 and CResMgr.cpp:69: the reply address identifies the
\* requester, and a repeated request gets the engine it already has.
OneRecordPerRequester ==
    \A j, k \in Inst :
        /\ mapReqs[j] # NoReq /\ mapReqs[k] # NoReq
        /\ mapReqs[j].addr = mapReqs[k].addr
        /\ conn[j] = "open" /\ conn[k] = "open"
        => j = k

\* WebContainerAPI.h:102: an engine stops when its reference count is 0.
UnusedEngineStopped ==
    Quiet => \A i \in Inst : mapRes[i] # NoCore => cores[mapRes[i]].reqs # {}
=============================================================================
