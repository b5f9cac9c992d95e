--------------------------- MODULE RegistryProofs ---------------------------
(***************************************************************************)
(* Proofs about what the broker (ResMgr) promises its requesters: it       *)
(* implements Registry, with or without reuse of handle values; and, when  *)
(* they are not reused, no working engine is dropped and no requester that *)
(* was told of one is forgotten.                                           *)
(***************************************************************************)
EXTENDS ResMgrProofs

Abstract == <<Running, mapAddrs, Listed>>

LEMMA InitRegistry == Init => Grants!Init
BY DEF Init, Grants!Init, Running, Listed, NoCore, Key

\* Steps that change neither the table of the engines, nor the public ones,
\* nor an object.
LEMMA TablesSame ==
    ASSUME UNCHANGED <<mapRes, mapAddrs, cores>>
    PROVE  UNCHANGED Abstract
BY DEF Abstract, Running, Listed

\* The engines that are held, as the invariant describes them.
LEMMA RunningCores ==
    ASSUME ResMgrInv, NEW i \in Running
    PROVE  /\ i \in Inst /\ i \in Key /\ mapRes[i] \in DOMAIN cores
           /\ mapRes[i] \in 1 .. Len(cores) /\ cores[mapRes[i]].inst = i
BY CoreIndex DEF Running, ResMgrInv, ResIndex, Key

\* A handle that sRPC returns stands for no engine and no user.
LEMMA FreshIsFree ==
    ASSUME ResMgrInv, NEW k \in Fresh
    PROVE  k \in Grants!Free
<1>1. k \in Inst /\ k \in Key /\ mapRes[k] = NoCore /\ mapReqs[k] = NoReq
  BY FreshUnowned
<1>2. \A i \in Running : k # i /\ k \notin cores[mapRes[i]].reqs
  BY <1>1, UnownedUnlisted DEF Running, Key
<1>3. \A x \in Listed : x[2] \in Running /\ x[1] \in cores[mapRes[x[2]]].reqs
  BY DEF Listed
<1>4. \A x \in Listed : k # x[1] /\ k # x[2]
  BY <1>2, <1>3
<1> QED
  BY <1>1, <1>2, <1>4 DEF Grants!Free, Running

\* A further requester of the public engine.
LEMMA ServePublicShares ==
    ASSUME ResMgrInv, NEW k \in Fresh, NEW req \in GetTask, PublicKnown(req),
           ServePublicEngine(k, req)
    PROVE  Grants!Share(k, req.type)
<1> DEFINE h == mapAddrs[req.type]
           c == mapRes[h]
<1>1. req.type \in EngineType /\ ~req.priv /\ h # NULL /\ h \in Key /\ h \in Inst
  BY DEF GetTask, PublicKnown, ResMgrInv, TypeOK, Key
<1>2. c # NoCore /\ c \in DOMAIN cores /\ cores[c].inst = h
  BY <1>1 DEF ResMgrInv, OnePublicEngine, ResIndex
<1>3. k \in Inst
  BY FreshUnowned
<1>4. Register(k, req, cores, c) /\ mapRes' = mapRes /\ mapAddrs' = mapAddrs
  BY <1>2 DEF ServePublicEngine
<1>5. cores \in Seq(Core)
  BY DEF ResMgrInv, TypeOK
<1>6. /\ \A d \in DOMAIN cores : d # c => cores'[d] = cores[d]
      /\ cores'[c].reqs = cores[c].reqs \cup {k}
  <2> HIDE DEF c, h
  <2> QED
    BY <1>2, <1>3, <1>4, <1>5, RegisterEffect
<1>7. Running' = Running
  BY <1>4 DEF Running
<1>8. ASSUME NEW j \in Inst, NEW i \in Running
      PROVE  j \in cores'[mapRes'[i]].reqs <=> j \in cores[mapRes[i]].reqs \/ (j = k /\ i = h)
  <2>1. mapRes[i] \in DOMAIN cores /\ cores[mapRes[i]].inst = i
    BY RunningCores
  <2>2. mapRes[i] = c <=> i = h
    BY <1>2, <2>1
  <2> HIDE DEF c, h
  <2> QED
    BY <1>4, <1>6, <2>1, <2>2
<1>9. h \in Running
  BY <1>1, <1>2 DEF Running
<1>10. Listed' = {x \in Inst \X Running : x[1] \in cores'[mapRes'[x[2]]].reqs}
  BY <1>7 DEF Listed
<1>11. Listed' = Listed \cup {<<k, h>>}
  <2> HIDE DEF h
  <2> QED
    BY <1>3, <1>8, <1>9, <1>10 DEF Listed
<1> QED
  BY <1>1, <1>4, <1>7, <1>11, FreshIsFree DEF Grants!Share

\* A requester gets an engine of its own, or the first public one of its type.
\* An engine that could not be started is none.
LEMMA ServeNewStarts ==
    ASSUME ResMgrInv, NEW k \in Fresh, NEW req \in GetTask, ~PublicKnown(req),
           ServeNewEngine(k, req)
    PROVE  \/ UNCHANGED Abstract
           \/ \E e \in Inst : \/ Grants!StartPrivate(k, e)
                              \/ Grants!StartPublic(k, e, req.type)
<1> DEFINE c == Len(cores) + 1
<1>1. PICK p \in ProviderResults(req.type, {k}) :
          /\ mapRes' = [mapRes EXCEPT ![p] = c]
          /\ mapAddrs' = IF req.priv THEN mapAddrs ELSE AddAddr(req.type, p)
          /\ Register(k, req, Append(cores, NewCore(p)), c)
          /\ conn' = Opened({k, p})
  BY DEF ServeNewEngine
<1> DEFINE cs == Append(cores, NewCore(p))
<1>2. k \in Inst /\ req.type \in EngineType /\ req.priv \in BOOLEAN
  BY FreshUnowned DEF GetTask
<1>3. p \in Key /\ p # k /\ (p # NULL => p \in Fresh /\ p \in Inst)
  BY FreshUnowned DEF ProviderResults, Key, Fresh
<1>4. /\ Len(cores) \in Nat /\ DOMAIN cores = 1 .. Len(cores) /\ cores \in Seq(Core)
      /\ c # NoCore
  BY CoreIndex DEF ResMgrInv, TypeOK, NoCore
<1>5. NewCore(p) \in Core /\ NewCore(p).reqs = {}
  BY <1>3 DEF NewCore, Core, EngineType
<1>6. /\ cs \in Seq(Core) /\ c \in DOMAIN cs /\ cs[c].reqs = {}
      /\ \A d \in DOMAIN cores : d \in DOMAIN cs /\ d # c /\ cs[d] = cores[d]
  BY <1>4, <1>5
<1>7. /\ cores'[c].reqs = {k}
      /\ \A d \in DOMAIN cores : cores'[d] = cores[d]
  <2> HIDE DEF cs, c
  <2>1. Register(k, req, cs, c)
    BY <1>1 DEF cs
  <2>2. /\ \A d \in DOMAIN cs : d # c => cores'[d] = cs[d]
        /\ cores'[c].reqs = cs[c].reqs \cup {k}
    BY <1>2, <1>6, <2>1, RegisterEffect
  <2> QED
    BY <1>6, <2>2
<1> HIDE DEF c, cs
<1>8. \A i \in Key : mapRes'[i] = IF i = p THEN c ELSE mapRes[i]
  BY <1>1, <1>3 DEF ResMgrInv, TypeOK
<1>9. \A i \in Running : i # p => i \in Running' /\ cores'[mapRes'[i]] = cores[mapRes[i]]
  BY <1>7, <1>8, RunningCores DEF Running
<1>10. CASE p = NULL
  <2>1. Running' = Running
    BY <1>8, <1>10, SrpcAssumption DEF Running, Key
  <2>2. NULL \notin Running
    BY SrpcAssumption DEF Running
  <2>3. Listed' = Listed
    BY <1>9, <1>10, <2>1, <2>2 DEF Listed
  <2>4. mapAddrs' = mapAddrs
    <3>1. ~req.priv => mapAddrs[req.type] = NULL
      BY DEF PublicKnown
    <3> QED
      BY <1>1, <1>2, <1>10, <3>1 DEF AddAddr, ResMgrInv, TypeOK
  <2> QED
    BY <2>1, <2>3, <2>4 DEF Abstract
<1>11. CASE p # NULL
  <2>1. p \in Inst /\ p \in Fresh
    BY <1>3, <1>11
  <2>2. k \in Grants!Free /\ p \in Grants!Free
    BY <2>1, FreshIsFree
  <2>3. p \notin Running
    BY <2>2 DEF Grants!Free
  <2>4. Running' = Running \cup {p}
    BY <1>4, <1>8, <2>1 DEF Running, Key
  <2>5. cores'[mapRes'[p]].reqs = {k}
    BY <1>3, <1>7, <1>8
  <2>6. Listed' = Listed \cup {<<k, p>>}
    <3>1. Listed' = {x \in Inst \X (Running \cup {p}) : x[1] \in cores'[mapRes'[x[2]]].reqs}
      BY <2>4 DEF Listed
    <3>2. ASSUME NEW j \in Inst, NEW i \in Running \cup {p}
          PROVE  j \in cores'[mapRes'[i]].reqs <=>
                    (i \in Running /\ j \in cores[mapRes[i]].reqs) \/ (j = k /\ i = p)
      <4>1. CASE i = p
        BY <2>3, <2>5, <4>1
      <4>2. CASE i # p
        BY <1>9, <4>2
      <4> QED
        BY <4>1, <4>2
    <3> QED
      BY <1>2, <2>1, <3>1, <3>2 DEF Listed
  <2>7. CASE req.priv
    <3>1. mapAddrs' = mapAddrs
      BY <1>1, <2>7
    <3>2. Grants!StartPrivate(k, p)
      BY <1>3, <2>2, <2>4, <2>6, <3>1 DEF Grants!StartPrivate
    <3> QED
      BY <2>1, <3>2
  <2>8. CASE ~req.priv
    <3>1. mapAddrs' = [mapAddrs EXCEPT ![req.type] = p] /\ mapAddrs[req.type] = NULL
      BY <1>1, <2>8 DEF AddAddr, PublicKnown
    <3>2. Grants!StartPublic(k, p, req.type)
      BY <1>3, <2>2, <2>4, <2>6, <3>1 DEF Grants!StartPublic
    <3> QED
      BY <2>1, <3>2
  <2> QED
    BY <2>7, <2>8
<1> QED
  BY <1>10, <1>11

\* A requester that is lost gives up its engine, if it has one.  A release
\* request reaches nobody: its key is never found.
LEMMA ReleaseLeaves ==
    ASSUME ResMgrInv, NEW k \in Key, NEW T \in SUBSET EngineType,
           k = NULL \/ T = EngineType, ReleaseRequester(k, T)
    PROVE  UNCHANGED Abstract \/ (k \in Inst /\ Grants!Leave(k))
<1>1. /\ UNCHANGED <<mapRes, mapAddrs>>
      /\ \A c \in DOMAIN cores : cores'[c].reqs =
            IF \E t \in T : Uses(k, t, c) THEN cores[c].reqs \ {k} ELSE cores[c].reqs
  BY ReleaseRequesterEffect
<1>2. Running' = Running
  BY <1>1 DEF Running
<1>3. \A i \in Running : mapRes'[i] = mapRes[i] /\ mapRes[i] \in DOMAIN cores
  BY <1>1, RunningCores
<1>4. \A i \in Running : k \in cores[mapRes[i]].reqs =>
          cores[mapRes[i]].type \in EngineType /\ Uses(k, cores[mapRes[i]].type, mapRes[i])
  <2> TAKE i \in Running
  <2>1. i \in Key /\ mapRes[i] # NoCore /\ mapRes[i] \in DOMAIN cores
    BY RunningCores DEF Running
  <2>2. cores[mapRes[i]] \in Core
    BY <2>1, CoreIndex DEF ResMgrInv
  <2> QED
    BY <2>1, <2>2 DEF ResMgrInv, RegistrationMirror, Core
<1>5. CASE k = NULL
  <2>1. \A i \in Running : cores'[mapRes'[i]].reqs = cores[mapRes[i]].reqs
    BY <1>1, <1>3, <1>5 DEF Uses, ResMgrInv, NoNullRequester
  <2>2. Listed' = Listed
    BY <1>2, <2>1 DEF Listed
  <2> QED
    BY <1>1, <1>2, <2>2 DEF Abstract
<1>6. CASE k # NULL /\ T = EngineType
  <2>1. \A i \in Running, j \in Inst :
           j \in cores'[mapRes'[i]].reqs <=> j \in cores[mapRes[i]].reqs /\ j # k
    <3> TAKE i \in Running, j \in Inst
    <3>1. mapRes'[i] = mapRes[i] /\ mapRes[i] \in DOMAIN cores
      BY <1>3
    <3>2. k \in cores[mapRes[i]].reqs => \E t \in T : Uses(k, t, mapRes[i])
      BY <1>4, <1>6
    <3>3. cores'[mapRes[i]].reqs = cores[mapRes[i]].reqs \ {k}
      <4>1. CASE \E t \in T : Uses(k, t, mapRes[i])
        BY <1>1, <3>1, <4>1
      <4>2. CASE ~\E t \in T : Uses(k, t, mapRes[i])
        BY <1>1, <3>1, <3>2, <4>2
      <4> QED
        BY <4>1, <4>2
    <3> QED
      BY <3>1, <3>3
  <2>2. Listed' = {x \in Listed : x[1] # k}
    BY <1>2, <2>1 DEF Listed
  <2>3. CASE \E x \in Listed : x[1] = k
    BY <1>1, <1>2, <1>6, <2>2, <2>3 DEF Grants!Leave, Key
  <2>4. CASE ~\E x \in Listed : x[1] = k
    <3>1. Listed' = Listed
      BY <2>2, <2>4
    <3> QED
      BY <1>1, <1>2, <3>1 DEF Abstract
  <2> QED
    BY <2>3, <2>4
<1> QED
  BY <1>5, <1>6

\* An engine that is lost is given up by all its users at once.
LEMMA ReleaseEnds ==
    ASSUME ResMgrInv, NEW i \in Inst, mapRes[i] # NoCore, ReleaseEngine(mapRes[i])
    PROVE  Grants!End(i)
<1>1. /\ cores' = cores /\ mapRes' = [mapRes EXCEPT ![i] = NoCore]
      /\ mapAddrs' = IF cores[mapRes[i]].priv THEN mapAddrs
                     ELSE DelAddr({cores[mapRes[i]].type})
  BY ReleaseEngineEffect
<1>2. i \in Running /\ cores[mapRes[i]].type \in EngineType
  <2>1. i \in Running
    BY DEF Running
  <2>2. cores[mapRes[i]] \in Core
    BY <2>1, RunningCores, CoreIndex DEF ResMgrInv
  <2> QED
    BY <2>1, <2>2 DEF Core
<1>3. \A j \in Inst : mapRes'[j] = IF j = i THEN NoCore ELSE mapRes[j]
  BY <1>1 DEF ResMgrInv, TypeOK, Key
<1>4. Running' = Running \ {i}
  BY <1>3 DEF Running
<1>5. Listed' = {x \in Listed : x[2] # i}
  BY <1>1, <1>3, <1>4 DEF Listed
<1>6. \A t \in EngineType : mapAddrs[t] = i <=>
          ~cores[mapRes[i]].priv /\ t = cores[mapRes[i]].type
  <2>1. i # NULL
    BY SrpcAssumption
  <2> QED
    BY <1>2, <2>1 DEF ResMgrInv, OnePublicEngine
<1>7. mapAddrs' = [t \in EngineType |-> IF mapAddrs[t] = i THEN NULL ELSE mapAddrs[t]]
  <2>1. mapAddrs = [t \in EngineType |-> mapAddrs[t]]
    BY DEF ResMgrInv, TypeOK
  <2>2. CASE cores[mapRes[i]].priv
    BY <1>1, <1>6, <2>1, <2>2
  <2>3. CASE ~cores[mapRes[i]].priv
    BY <1>1, <1>6, <2>3 DEF DelAddr
  <2> QED
    BY <2>2, <2>3
<1> QED
  BY <1>2, <1>4, <1>5, <1>7 DEF Grants!End

LEMMA StepRegistry == ResMgrInv /\ [Next]_vars => [Grants!Next]_Abstract
<1> SUFFICES ASSUME ResMgrInv, [Next]_vars PROVE Grants!Next \/ UNCHANGED Abstract
  OBVIOUS
<1>1. CASE UNCHANGED reqVars
  BY <1>1, TablesSame DEF reqVars
<1>2. CASE ProcGetWebInstance
  <2> DEFINE req == Head(queue)
  <2>1. queue # <<>> /\ req.op = "get"
    BY <1>2 DEF ProcGetWebInstance
  <2>2. req \in GetTask
    BY <2>1, HeadTask DEF ResMgrInv, Task, GetTask
  <2>3. req.type \in EngineType
    BY <2>2 DEF GetTask
  <2>4. ASSUME NEW k \in Fresh,
               IF PublicKnown(req) THEN ServePublicEngine(k, req)
                                   ELSE ServeNewEngine(k, req)
        PROVE  Grants!Next \/ UNCHANGED Abstract
    <3>1. k \in Inst
      BY FreshUnowned
    <3> HIDE DEF req
    <3>2. CASE PublicKnown(req)
      <4>1. Grants!Share(k, req.type)
        BY <2>2, <2>4, <3>2, ServePublicShares
      <4> QED
        BY <2>3, <3>1, <4>1 DEF Grants!Next
    <3>3. CASE ~PublicKnown(req)
      <4>1. \/ UNCHANGED Abstract
            \/ \E e \in Inst : \/ Grants!StartPrivate(k, e)
                               \/ Grants!StartPublic(k, e, req.type)
        BY <2>2, <2>4, <3>3, ServeNewStarts
      <4> QED
        BY <2>3, <3>1, <4>1 DEF Grants!Next
    <3> QED
      BY <3>2, <3>3
  <2> QED
    BY <1>1, <1>2, <2>4 DEF ProcGetWebInstance
<1>3. CASE ProcReleaseWebInstance
  <2>1. queue # <<>> /\ Head(queue) \in Task /\ Head(queue).op = "release"
    BY <1>3, HeadTask DEF ProcReleaseWebInstance, ResMgrInv
  <2>2. Head(queue).type \in EngineType
    BY <2>1 DEF Task
  <2>3. {Head(queue).type} \in SUBSET EngineType /\ NULL \in Key
    BY <2>2 DEF Key
  <2>4. ReleaseRequester(NULL, {Head(queue).type})
    BY <1>3 DEF ProcReleaseWebInstance, RequesterKey
  <2>5. UNCHANGED Abstract
    BY <2>3, <2>4, ReleaseLeaves, SrpcAssumption
  <2> QED
    BY <2>5
<1>4. CASE ProcConnectErr
  <2>1. queue # <<>> /\ Head(queue) \in Task /\ Head(queue).op = "connErr"
    BY <1>4, HeadTask DEF ProcConnectErr, ResMgrInv
  <2>2. Head(queue).inst \in Inst /\ Head(queue).inst \in Key
    BY <2>1 DEF Task, Key
  <2>3. CASE mapRes[Head(queue).inst] # NoCore
    <3>1. Grants!End(Head(queue).inst)
      BY <1>4, <2>2, <2>3, ReleaseEnds DEF ProcConnectErr
    <3> QED
      BY <2>2, <3>1 DEF Grants!Next
  <2>4. CASE mapRes[Head(queue).inst] = NoCore
    <3>1. UNCHANGED Abstract \/ (Head(queue).inst \in Inst /\ Grants!Leave(Head(queue).inst))
      BY <1>4, <2>2, <2>4, ReleaseLeaves DEF ProcConnectErr
    <3> QED
      BY <3>1 DEF Grants!Next
  <2> QED
    BY <2>3, <2>4
<1> QED
  BY <1>1, <1>2, <1>3, <1>4
     DEF Next, Worker, GetInstance, ReleaseInstance, OnSRPCError, PeerDies, vars

\* The broker implements Registry: grants, releases and losses, spread over the
\* tables and the heap, are single steps of a relation between users and
\* engines, for all constants, with or without reuse of handle values.
THEOREM ImplementsRegistry == Spec => RegistrySpec
<1>1. ResMgrInv /\ [Next]_vars => [Grants!Next]_(Grants!vars)
  BY StepRegistry DEF Abstract, Grants!vars
<1> QED
  BY <1>1, InitRegistry, InvariantHolds, PTL DEF Spec, RegistrySpec, Grants!Spec

-----------------------------------------------------------------------------
(* Handles whose values are not returned again.                            *)

\* A connection that is over.
Over == {"lost", "closed"}

\* What the library's handles do in one step.
ConnSteps ==
    \/ conn' = conn
    \/ \E S : conn' = Destroyed(S)
    \/ \E S : conn' = Opened(S) /\ S \cap Inst \subseteq Fresh
    \/ \E i \in Inst : Lose(i)

LEMMA StepConn ==
    ASSUME [Next]_vars
    PROVE  ConnSteps
<1> USE DEF ConnSteps
<1>1. ASSUME NEW k \in Fresh, NEW req, ServeNewEngine(k, req) PROVE ConnSteps
  <2>1. PICK p \in ProviderResults(req.type, {k}) : conn' = Opened({k, p})
    BY <1>1 DEF ServeNewEngine
  <2>2. {k, p} \cap Inst \subseteq Fresh
    BY <2>1, SrpcAssumption DEF ProviderResults
  <2> QED
    BY <2>1, <2>2
<1>2. ASSUME NEW k \in Fresh, NEW req, ServePublicEngine(k, req) PROVE ConnSteps
  <2>1. conn' = Opened({k}) /\ {k} \cap Inst \subseteq Fresh
    BY <1>2 DEF ServePublicEngine
  <2> QED
    BY <2>1
<1>3. ASSUME NEW k, NEW T, ReleaseRequester(k, T) PROVE ConnSteps
  BY <1>3 DEF ReleaseRequester
<1>4. ASSUME NEW c, ReleaseEngine(c) PROVE ConnSteps
  BY <1>4 DEF ReleaseEngine
<1>5. CASE ProcGetWebInstance
  BY <1>1, <1>2, <1>5 DEF ProcGetWebInstance
<1>6. CASE ProcReleaseWebInstance \/ ProcConnectErr
  BY <1>3, <1>4, <1>6 DEF ProcReleaseWebInstance, ProcConnectErr
<1>7. CASE \E i \in Inst : PeerDies(i)
  BY <1>7 DEF PeerDies
<1> QED
  BY <1>5, <1>6, <1>7
     DEF Next, Worker, GetInstance, ReleaseInstance, OnSRPCError, vars, srpcVars

\* A connection that is over stays over, and a handle that was returned is
\* not returned again.
Ages ==
    \A i \in Inst : /\ conn[i] \in Over => conn'[i] \in Over
                    /\ conn'[i] = "unused" => conn[i] = "unused"

LEMMA StepAges ==
    ASSUME ~ReuseHandles, TypeOK, [Next]_vars
    PROVE  Ages
<1> USE DEF Ages, Over
<1>1. \A i \in Fresh : conn[i] = "unused"
  BY DEF Fresh
<1>2. ASSUME NEW S, conn' = Destroyed(S) PROVE Ages
  BY <1>2 DEF Destroyed
<1>3. ASSUME NEW S, conn' = Opened(S), S \cap Inst \subseteq Fresh PROVE Ages
  BY <1>1, <1>3 DEF Opened
<1>4. ASSUME NEW i \in Inst, Lose(i) PROVE Ages
  BY <1>4 DEF Lose, TypeOK, SrpcTypeOK
<1> QED
  BY <1>2, <1>3, <1>4, StepConn DEF ConnSteps

\* An error callback that is due, or its task, is about a connection that is
\* over: it cannot take down an engine that works.
NoticeInv ==
    /\ \A i \in notices : conn[i] \in Over
    /\ \A n \in DOMAIN queue : queue[n].op = "connErr" => conn[queue[n].inst] \in Over

LEMMA QueueGrows ==
    ASSUME TypeOK, NEW task \in Task, queue' = Append(queue, task),
           task.op = "connErr" => conn'[task.inst] \in Over, Ages, NoticeInv
    PROVE  \A n \in DOMAIN queue' :
               queue'[n].op = "connErr" => conn'[queue'[n].inst] \in Over
<1> TAKE n \in DOMAIN queue'
<1>1. Len(queue) \in Nat /\ queue \in Seq(Task)
  BY DEF TypeOK
<1>2. CASE n \in DOMAIN queue
  <2>1. queue'[n] = queue[n] /\ queue[n] \in Task
    BY <1>1, <1>2
  <2>2. queue[n].op = "connErr" => queue[n].inst \in Inst
    BY <2>1 DEF Task
  <2> QED
    BY <1>2, <2>1, <2>2 DEF NoticeInv, Ages
<1>3. CASE n \notin DOMAIN queue
  <2>1. queue'[n] = task
    BY <1>1, <1>3
  <2> QED
    BY <2>1
<1> QED
  BY <1>2, <1>3

LEMMA QueueShrinks ==
    ASSUME TypeOK, queue # <<>>, queue' = Tail(queue), Ages, NoticeInv
    PROVE  \A n \in DOMAIN queue' :
               queue'[n].op = "connErr" => conn'[queue'[n].inst] \in Over
<1> TAKE n \in DOMAIN queue'
<1>1. queue \in Seq(Task)
  BY DEF TypeOK
<1>2. n + 1 \in DOMAIN queue /\ queue'[n] = queue[n + 1] /\ queue[n + 1] \in Task
  BY <1>1
<1>3. queue[n + 1].op = "connErr" => queue[n + 1].inst \in Inst
  BY <1>2 DEF Task
<1> QED
  BY <1>2, <1>3 DEF NoticeInv, Ages

LEMMA NoticesOver ==
    ASSUME TypeOK, Ages, NoticeInv, notices' \subseteq notices
    PROVE  \A i \in notices' : conn'[i] \in Over
BY DEF TypeOK, SrpcTypeOK, NoticeInv, Ages

LEMMA DestroyOver ==
    ASSUME TypeOK, Ages, NoticeInv, NEW S, conn' = Destroyed(S), notices' = DestroyNotices(S)
    PROVE  \A i \in notices' : conn'[i] \in Over
<1> TAKE i \in notices'
<1>1. CASE i \in notices
  BY <1>1 DEF TypeOK, SrpcTypeOK, NoticeInv, Ages
<1>2. CASE i \in S \cap Inst /\ Held(i)
  BY <1>2 DEF Destroyed, Over
<1> QED
  BY <1>1, <1>2 DEF DestroyNotices

LEMMA StepNotice ==
    ASSUME ~ReuseHandles, ResMgrInv, NoticeInv, [Next]_vars
    PROVE  NoticeInv'
<1> DEFINE QueueOver == \A n \in DOMAIN queue' :
               queue'[n].op = "connErr" => conn'[queue'[n].inst] \in Over
<1>0. TypeOK
  BY DEF ResMgrInv
<1>1. Ages
  BY <1>0, StepAges
<1>2. ASSUME NEW a \in Addr, NEW t \in EngineType, NEW p \in BOOLEAN, GetInstance(a, t, p)
      PROVE  NoticeInv'
  <2>1. [op |-> "get", addr |-> a, type |-> t, priv |-> p] \in Task
    BY DEF Task
  <2>2. QueueOver
    BY <1>0, <1>1, <1>2, <2>1, QueueGrows DEF GetInstance
  <2> QED
    BY <1>0, <1>1, <1>2, <2>2, NoticesOver DEF GetInstance, srpcVars, NoticeInv
<1>3. ASSUME NEW a \in Addr, NEW t \in EngineType, ReleaseInstance(a, t)
      PROVE  NoticeInv'
  <2>1. [op |-> "release", addr |-> a, type |-> t] \in Task
    BY DEF Task
  <2>2. QueueOver
    BY <1>0, <1>1, <1>3, <2>1, QueueGrows DEF ReleaseInstance
  <2> QED
    BY <1>0, <1>1, <1>3, <2>2, NoticesOver DEF ReleaseInstance, srpcVars, NoticeInv
<1>4. ASSUME NEW i \in Inst, OnSRPCError(i) PROVE NoticeInv'
  <2>1. [op |-> "connErr", inst |-> i] \in Task
    BY DEF Task
  <2>2. conn'[i] \in Over
    BY <1>1, <1>4 DEF OnSRPCError, NoticeInv, Ages
  <2>3. QueueOver
    BY <1>0, <1>1, <1>4, <2>1, <2>2, QueueGrows DEF OnSRPCError
  <2> QED
    BY <1>0, <1>1, <1>4, <2>3, NoticesOver DEF OnSRPCError, NoticeInv
<1>5. ASSUME NEW i \in Inst, PeerDies(i) PROVE NoticeInv'
  <2>1. conn'[i] = "lost" /\ notices' = notices \cup {i} /\ queue' = queue
    BY <1>0, <1>5 DEF PeerDies, Lose, TypeOK, SrpcTypeOK
  <2>2. \A j \in notices' : conn'[j] \in Over
    BY <1>0, <1>1, <2>1 DEF NoticeInv, Ages, Over, TypeOK, SrpcTypeOK
  <2>3. QueueOver
    <3> TAKE n \in DOMAIN queue'
    <3>1. queue[n] \in Task
      BY <1>0, <2>1 DEF TypeOK
    <3>2. queue[n].op = "connErr" => queue[n].inst \in Inst
      BY <3>1 DEF Task
    <3> QED
      BY <1>1, <2>1, <3>2 DEF NoticeInv, Ages
  <2> QED
    BY <2>2, <2>3 DEF NoticeInv
<1>6. CASE Worker
  <2>1. queue # <<>> /\ queue' = Tail(queue)
    BY <1>6 DEF Worker, ProcGetWebInstance, ProcReleaseWebInstance, ProcConnectErr
  <2>2. QueueOver
    BY <1>0, <1>1, <2>1, QueueShrinks
  <2>3. \A i \in notices' : conn'[i] \in Over
    <3>1. ASSUME NEW k, NEW T, ReleaseRequester(k, T) PROVE \A i \in notices' : conn'[i] \in Over
      BY <1>0, <1>1, <3>1, DestroyOver DEF ReleaseRequester
    <3>2. ASSUME NEW c, ReleaseEngine(c) PROVE \A i \in notices' : conn'[i] \in Over
      BY <1>0, <1>1, <3>2, DestroyOver DEF ReleaseEngine
    <3>3. CASE ProcGetWebInstance
      BY <1>0, <1>1, <3>3, NoticesOver DEF ProcGetWebInstance
    <3> QED
      BY <1>6, <3>1, <3>2, <3>3 DEF Worker, ProcReleaseWebInstance, ProcConnectErr
  <2> QED
    BY <2>2, <2>3 DEF NoticeInv
<1>7. CASE UNCHANGED vars
  BY <1>7 DEF vars, srpcVars, NoticeInv
<1> QED
  BY <1>2, <1>3, <1>4, <1>5, <1>6, <1>7 DEF Next

LEMMA StepDrops ==
    ASSUME ~ReuseHandles, ResMgrInv, NoticeInv, [Next]_vars,
           NEW i \in Inst, mapRes[i] # NoCore, mapRes'[i] # mapRes[i]
    PROVE  conn[i] = "lost"
<1>1. i \in Key /\ Held(i)
  BY DEF Key, ResMgrInv, HandleOwned
<1>2. ~UNCHANGED mapRes
  OBVIOUS
<1>3. ASSUME NEW k \in Fresh, NEW req \in GetTask, ServeNewEngine(k, req) PROVE FALSE
  <2>1. PICK p \in ProviderResults(req.type, {k}) :
            mapRes' = [mapRes EXCEPT ![p] = Len(cores) + 1]
    BY <1>3 DEF ServeNewEngine
  <2>2. i # p
    <3>1. p = NULL \/ p \in Fresh
      BY <2>1 DEF ProviderResults
    <3> QED
      BY <3>1, FreshUnowned, SrpcAssumption
  <2> QED
    BY <1>1, <2>1, <2>2 DEF ResMgrInv, TypeOK
<1>4. CASE ProcGetWebInstance
  <2>1. Head(queue) \in GetTask
    BY <1>4, HeadTask DEF ProcGetWebInstance, ResMgrInv, Task, GetTask
  <2> QED
    BY <1>2, <1>3, <1>4, <2>1 DEF ProcGetWebInstance, ServePublicEngine, reqVars
<1>5. CASE ProcReleaseWebInstance
  <2>1. Head(queue).type \in EngineType
    BY <1>5, HeadTask DEF ProcReleaseWebInstance, ResMgrInv, Task
  <2>2. {Head(queue).type} \in SUBSET EngineType /\ NULL \in Key
    BY <2>1 DEF Key
  <2> QED
    BY <1>2, <1>5, <2>2, ReleaseRequesterEffect DEF ProcReleaseWebInstance, RequesterKey
<1>6. CASE ProcConnectErr
  <2> DEFINE j == Head(queue).inst
  <2>1. queue # <<>> /\ Head(queue).op = "connErr" /\ 1 \in DOMAIN queue /\ Head(queue) = queue[1]
    BY <1>6 DEF ProcConnectErr, ResMgrInv, TypeOK
  <2>2. j \in Inst /\ j \in Key
    BY <2>1, HeadTask DEF ResMgrInv, Task, Key
  <2>3. conn[j] \in Over
    BY <2>1 DEF NoticeInv
  <2>4. mapRes[j] # NoCore
    <3>1. EngineType \in SUBSET EngineType
      OBVIOUS
    <3> QED
      BY <1>2, <1>6, <2>2, <3>1, ReleaseRequesterEffect DEF ProcConnectErr
  <2>5. mapRes' = [mapRes EXCEPT ![j] = NoCore]
    BY <1>6, <2>2, <2>4, ReleaseEngineEffect DEF ProcConnectErr
  <2>6. i = j
    BY <1>1, <2>5 DEF ResMgrInv, TypeOK
  <2> QED
    BY <1>1, <2>3, <2>6 DEF Over, Held
<1> QED
  BY <1>2, <1>4, <1>5, <1>6
     DEF Next, Worker, GetInstance, ReleaseInstance, OnSRPCError, PeerDies, vars, reqVars

\* The broker drops an engine only after its connection was lost, however late
\* the error callbacks run, if values of handles are not returned again.
THEOREM WorkingEnginesKept ==
    ASSUME ~ReuseHandles
    PROVE  Spec => OnlyLostEnginesDropped
<1>1. Init => NoticeInv
  BY DEF Init, SrpcInit, NoticeInv
<1>2. ResMgrInv /\ NoticeInv /\ [Next]_vars => NoticeInv'
  BY StepNotice
<1>3. ResMgrInv /\ NoticeInv /\ [Next]_vars =>
          [\A i \in Inst : mapRes[i] # NoCore /\ mapRes'[i] # mapRes[i]
                              => conn[i] = "lost"]_vars
  BY StepDrops
<1> QED
  BY <1>1, <1>2, <1>3, InvariantHolds, PTL DEF Spec, OnlyLostEnginesDropped

-----------------------------------------------------------------------------
(* Requesters that were told of an engine.                                 *)

\* The core whose address a handle was last sent is one of the heap, and
\* nothing was sent on a handle that was never returned.
ToldInv ==
    \A k \in Inst : /\ told[k] \in DOMAIN cores \cup {NoCore}
                    /\ conn[k] = "unused" => told[k] = NoCore

\* Steps of the worker that register the requester k for the core c: the
\* other objects of the heap "old" stay, and so do the other requesters.
Registers(k, c, old) ==
    /\ DOMAIN cores \subseteq DOMAIN old /\ c \in DOMAIN old
    /\ DOMAIN cores' = DOMAIN old
    /\ \A d \in DOMAIN old : d # c => cores'[d] = old[d]
    /\ \A d \in DOMAIN cores \ {c} : old[d] = cores[d]
    /\ cores'[c].inst = old[c].inst /\ cores'[c].reqs = old[c].reqs \cup {k}
    /\ \A j \in Inst : j # k => told'[j] = told[j]
    /\ told'[k] \in {c, told[k]}

LEMMA RegisterRegisters ==
    ASSUME ResMgrInv, NEW k \in Inst, NEW req \in GetTask, NEW old \in Seq(Core),
           NEW c \in DOMAIN old, Register(k, req, old, c),
           DOMAIN cores \subseteq DOMAIN old,
           \A d \in DOMAIN cores \ {c} : old[d] = cores[d]
    PROVE  Registers(k, c, old)
<1>1. told'[k] \in {c, told[k]}
  BY DEF Register, NotifyWebAddr, ResMgrInv, TypeOK
<1> QED
  BY <1>1, RegisterEffect DEF Registers

\* Whoever is told of an engine in a step is listed by it; for the others the
\* objects and the tables are what they were.
LEMMA RegistersTold ==
    ASSUME ~ReuseHandles, ResMgrInv, ToldInv, ToldIsRegistered, Ages,
           NEW k \in Fresh, NEW c, c # NoCore, NEW old, Registers(k, c, old),
           NEW S, k \in S, conn' = Opened(S), S \cap Inst \subseteq Fresh,
           \A d \in DOMAIN cores :
               /\ old[d].inst = cores[d].inst /\ old[d].reqs = cores[d].reqs
               /\ mapRes'[cores[d].inst] = d => mapRes[cores[d].inst] = d
    PROVE  ToldInv' /\ ToldIsRegistered'
<1>1. k \in Inst /\ conn[k] = "unused" /\ told[k] = NoCore /\ conn'[k] = "open"
  BY DEF Fresh, ToldInv, Opened
<1>2. told'[k] \in {c, NoCore} /\ c \in DOMAIN cores' /\ k \in cores'[c].reqs
  BY <1>1 DEF Registers
<1>3. ASSUME NEW j \in Inst, j # k, told'[j] # NoCore
      PROVE  /\ told'[j] = told[j] /\ told[j] \in DOMAIN cores /\ told[j] \in DOMAIN cores'
             /\ cores'[told[j]].inst = cores[told[j]].inst
             /\ cores[told[j]].reqs \subseteq cores'[told[j]].reqs
  <2>1. told'[j] = told[j] /\ told[j] \in DOMAIN cores /\ told[j] \in DOMAIN old
    BY <1>3 DEF Registers, ToldInv
  <2>2. CASE told[j] = c
    BY <2>1, <2>2 DEF Registers
  <2>3. CASE told[j] # c
    BY <2>1, <2>3 DEF Registers
  <2> QED
    BY <2>1, <2>2, <2>3 DEF Registers
<1>4. ToldInv'
  <2> SUFFICES ASSUME NEW j \in Inst
               PROVE  /\ told'[j] \in DOMAIN cores' \cup {NoCore}
                      /\ conn'[j] = "unused" => told'[j] = NoCore
    BY DEF ToldInv
  <2>1. CASE j = k
    BY <1>1, <1>2, <2>1
  <2>2. CASE j # k
    BY <1>3, <2>2 DEF Registers, ToldInv, Ages
  <2> QED
    BY <2>1, <2>2
<1>5. ToldIsRegistered'
  <2> SUFFICES ASSUME NEW j \in Inst, told'[j] # NoCore, conn'[j] = "open",
                      mapRes'[cores'[told'[j]].inst] = told'[j]
               PROVE  j \in cores'[told'[j]].reqs
    BY DEF ToldIsRegistered
  <2>1. CASE j = k
    BY <1>2, <2>1
  <2>2. CASE j # k
    <3>1. /\ told'[j] = told[j] /\ told[j] \in DOMAIN cores
          /\ cores'[told[j]].inst = cores[told[j]].inst
          /\ cores[told[j]].reqs \subseteq cores'[told[j]].reqs
      BY <1>3, <2>2
    <3>2. conn[j] = "open"
      <4>1. j \in S => conn[j] = "unused" /\ told[j] = NoCore
        BY DEF Fresh, ToldInv
      <4> QED
        BY <3>1, <4>1 DEF Opened
    <3>3. mapRes[cores[told[j]].inst] = told[j]
      BY <3>1
    <3>4. told[j] # NoCore
      BY <3>1
    <3>5. j \in cores[told[j]].reqs
      BY <3>2, <3>3, <3>4 DEF ToldIsRegistered
    <3> QED
      BY <3>1, <3>5
  <2> QED
    BY <2>1, <2>2
<1> QED
  BY <1>4, <1>5

LEMMA ServePublicTold ==
    ASSUME ~ReuseHandles, ResMgrInv, ToldInv, ToldIsRegistered, Ages,
           NEW k \in Fresh, NEW req \in GetTask, PublicKnown(req), ServePublicEngine(k, req)
    PROVE  ToldInv' /\ ToldIsRegistered'
<1> DEFINE c == mapRes[mapAddrs[req.type]]
<1>1. c # NoCore /\ c \in DOMAIN cores
  BY DEF GetTask, PublicKnown, ResMgrInv, TypeOK, Key, OnePublicEngine, ResIndex
<1>2. Register(k, req, cores, c) /\ mapRes' = mapRes /\ conn' = Opened({k})
  BY <1>1 DEF ServePublicEngine
<1>3. k \in Inst /\ cores \in Seq(Core)
  BY FreshUnowned DEF ResMgrInv, TypeOK
<1> HIDE DEF c
<1>4. Registers(k, c, cores)
  BY <1>1, <1>2, <1>3, RegisterRegisters
<1>5. {k} \cap Inst \subseteq Fresh /\ k \in {k}
  OBVIOUS
<1> QED
  BY <1>1, <1>2, <1>4, <1>5, RegistersTold

LEMMA ServeNewTold ==
    ASSUME ~ReuseHandles, ResMgrInv, ToldInv, ToldIsRegistered, Ages,
           NEW k \in Fresh, NEW req \in GetTask, ServeNewEngine(k, req)
    PROVE  ToldInv' /\ ToldIsRegistered'
<1> DEFINE c == Len(cores) + 1
<1>1. PICK p \in ProviderResults(req.type, {k}) :
          /\ mapRes' = [mapRes EXCEPT ![p] = c]
          /\ Register(k, req, Append(cores, NewCore(p)), c)
          /\ conn' = Opened({k, p})
  BY DEF ServeNewEngine
<1> DEFINE cs == Append(cores, NewCore(p))
<1>2. k \in Inst /\ p \in Key /\ {k, p} \cap Inst \subseteq Fresh /\ k \in {k, p}
  BY SrpcAssumption, FreshUnowned DEF ProviderResults, Key, Fresh
<1>3. /\ Len(cores) \in Nat /\ DOMAIN cores = 1 .. Len(cores) /\ cores \in Seq(Core)
      /\ c # NoCore /\ c \notin DOMAIN cores
  BY CoreIndex DEF ResMgrInv, TypeOK, NoCore
<1>4. NewCore(p) \in Core
  BY <1>2 DEF NewCore, Core, EngineType
<1>5. /\ cs \in Seq(Core) /\ c \in DOMAIN cs /\ DOMAIN cores \subseteq DOMAIN cs
      /\ \A d \in DOMAIN cores : cs[d] = cores[d]
  BY <1>3, <1>4
<1>6. \A d \in DOMAIN cores : mapRes'[cores[d].inst] = d => mapRes[cores[d].inst] = d
  <2> TAKE d \in DOMAIN cores
  <2>1. cores[d].inst \in Key
    BY CoreIndex DEF ResMgrInv, Core
  <2> HIDE DEF c
  <2> QED
    BY <1>1, <1>2, <1>3, <2>1 DEF ResMgrInv, TypeOK
<1> HIDE DEF c, cs
<1>7. Registers(k, c, cs)
  BY <1>1, <1>2, <1>5, RegisterRegisters DEF cs
<1>8. \A d \in DOMAIN cores :
          /\ cs[d].inst = cores[d].inst /\ cs[d].reqs = cores[d].reqs
          /\ mapRes'[cores[d].inst] = d => mapRes[cores[d].inst] = d
  BY <1>5, <1>6
<1> QED
  BY <1>1, <1>2, <1>3, <1>7, <1>8, RegistersTold

\* A requester is taken off an engine's list only after its own connection is
\* over.
LEMMA ReleaseTold ==
    ASSUME ResMgrInv, ToldInv, ToldIsRegistered, Ages,
           NEW k \in Key, NEW T \in SUBSET EngineType, k = NULL \/ conn[k] \in Over,
           ReleaseRequester(k, T)
    PROVE  ToldInv' /\ ToldIsRegistered'
<1>1. /\ mapRes' = mapRes /\ told' = told /\ conn' = conn
      /\ DOMAIN cores' = DOMAIN cores
      /\ \A c \in DOMAIN cores : /\ cores'[c].inst = cores[c].inst
                                 /\ cores[c].reqs \ {k} \subseteq cores'[c].reqs
  <2>1. UNCHANGED <<mapRes, told, srpcVars>> /\ DOMAIN cores' = DOMAIN cores
    BY ReleaseRequesterEffect
  <2>2. \A c \in DOMAIN cores : cores'[c].inst = cores[c].inst
    BY ReleaseRequesterEffect
  <2>3. \A c \in DOMAIN cores : cores'[c].reqs =
            IF \E t \in T : Uses(k, t, c) THEN cores[c].reqs \ {k} ELSE cores[c].reqs
    BY ReleaseRequesterEffect
  <2> QED
    BY <2>1, <2>2, <2>3 DEF srpcVars
<1>2. \A j \in Inst : conn[j] = "open" => j # k
  BY SrpcAssumption DEF Over
<1> QED
  BY <1>1, <1>2 DEF ToldInv, ToldIsRegistered

LEMMA ReleaseEngineTold ==
    ASSUME ResMgrInv, ToldInv, ToldIsRegistered, Ages,
           NEW i \in Inst, mapRes[i] # NoCore, ReleaseEngine(mapRes[i])
    PROVE  ToldInv' /\ ToldIsRegistered'
<1>1. /\ UNCHANGED <<cores, told>> /\ conn' = Destroyed({i})
      /\ mapRes' = [mapRes EXCEPT ![i] = NoCore]
  BY ReleaseEngineEffect
<1>2. \A j \in Inst : conn'[j] = "open" => conn[j] = "open"
  BY <1>1 DEF Destroyed
<1>3. \A d \in DOMAIN cores : mapRes'[cores[d].inst] = d => mapRes[cores[d].inst] = d
  <2> TAKE d \in DOMAIN cores
  <2>1. cores[d].inst \in Key /\ d # NoCore
    BY CoreIndex DEF ResMgrInv, Core
  <2> QED
    BY <1>1, <2>1 DEF ResMgrInv, TypeOK
<1>4. ToldInv'
  BY <1>1 DEF ToldInv, Ages
<1>5. ToldIsRegistered'
  BY <1>1, <1>2, <1>3 DEF ToldIsRegistered, ToldInv
<1> QED
  BY <1>4, <1>5

LEMMA StepTold ==
    ASSUME ~ReuseHandles, ResMgrInv, NoticeInv, ToldInv, ToldIsRegistered, [Next]_vars
    PROVE  ToldInv' /\ ToldIsRegistered'
<1>1. Ages
  BY StepAges DEF ResMgrInv
<1>2. CASE UNCHANGED <<reqVars, conn>>
  BY <1>2 DEF reqVars, ToldInv, ToldIsRegistered
<1>3. ASSUME NEW i \in Inst, PeerDies(i) PROVE ToldInv' /\ ToldIsRegistered'
  <2>1. \A j \in Inst : conn'[j] = "open" => conn[j] = "open"
    BY <1>3 DEF PeerDies, Lose, ResMgrInv, TypeOK, SrpcTypeOK
  <2> QED
    BY <1>1, <1>3, <2>1 DEF PeerDies, reqVars, ToldInv, ToldIsRegistered, Ages
<1>4. CASE ProcGetWebInstance
  <2> DEFINE req == Head(queue)
  <2>1. req \in GetTask
    BY <1>4, HeadTask DEF ProcGetWebInstance, ResMgrInv, Task, GetTask
  <2>2. ASSUME NEW k \in Fresh,
               IF PublicKnown(req) THEN ServePublicEngine(k, req)
                                   ELSE ServeNewEngine(k, req)
        PROVE  ToldInv' /\ ToldIsRegistered'
    <3> HIDE DEF req
    <3> QED
      BY <1>1, <2>1, <2>2, ServePublicTold, ServeNewTold
  <2> QED
    BY <1>2, <1>4, <2>2 DEF ProcGetWebInstance
<1>5. CASE ProcReleaseWebInstance
  <2>1. Head(queue).type \in EngineType
    BY <1>5, HeadTask DEF ProcReleaseWebInstance, ResMgrInv, Task
  <2>2. {Head(queue).type} \in SUBSET EngineType /\ NULL \in Key
    BY <2>1 DEF Key
  <2>3. ReleaseRequester(NULL, {Head(queue).type})
    BY <1>5 DEF ProcReleaseWebInstance, RequesterKey
  <2> QED
    BY <1>1, <2>2, <2>3, ReleaseTold
<1>6. CASE ProcConnectErr
  <2> DEFINE j == Head(queue).inst
  <2>1. queue # <<>> /\ Head(queue).op = "connErr" /\ 1 \in DOMAIN queue /\ Head(queue) = queue[1]
    BY <1>6 DEF ProcConnectErr, ResMgrInv, TypeOK
  <2>2. j \in Inst /\ j \in Key /\ EngineType \in SUBSET EngineType
    BY <2>1, HeadTask DEF ResMgrInv, Task, Key
  <2>3. conn[j] \in Over
    BY <2>1 DEF NoticeInv
  <2> QED
    BY <1>1, <1>6, <2>2, <2>3, ReleaseTold, ReleaseEngineTold DEF ProcConnectErr
<1> QED
  BY <1>2, <1>3, <1>4, <1>5, <1>6
     DEF Next, Worker, GetInstance, ReleaseInstance, OnSRPCError, vars, srpcVars

\* A connected requester that was sent the address of a running engine is
\* recorded for it, whatever was lost or released meanwhile, if values of
\* handles are not returned again.
THEOREM ToldAreRegistered ==
    ASSUME ~ReuseHandles
    PROVE  Spec => []ToldIsRegistered
<1>1. Init => NoticeInv /\ ToldInv /\ ToldIsRegistered
  BY DEF Init, SrpcInit, NoticeInv, ToldInv, ToldIsRegistered
<1>2. ResMgrInv /\ NoticeInv /\ ToldInv /\ ToldIsRegistered /\ [Next]_vars =>
          NoticeInv' /\ ToldInv' /\ ToldIsRegistered'
  BY StepNotice, StepTold
<1> QED
  BY <1>1, <1>2, InvariantHolds, PTL DEF Spec
=============================================================================
