---------------------------- MODULE ResMgrProofs ----------------------------
(***************************************************************************)
(* Proofs about ResMgr: ResMgrInv is an inductive invariant, whatever the  *)
(* handles, the addresses, the configured types and the bound on posts,    *)
(* and whether or not handle values are reused.                            *)
(***************************************************************************)
EXTENDS ResMgr, TLAPS, SequenceTheorems

\* The cores are numbered from 1, so NoCore is not one of them.
LEMMA CoreIndex ==
    ASSUME TypeOK
    PROVE  /\ Len(cores) \in Nat
           /\ DOMAIN cores = 1 .. Len(cores)
           /\ NoCore \notin DOMAIN cores
           /\ \A c \in DOMAIN cores : cores[c] \in Core
BY DEF TypeOK, NoCore

\* A function on the indices of cores with values in Core is a heap again.
LEMMA CoresFunction ==
    ASSUME TypeOK, NEW f \in [1 .. Len(cores) -> Core]
    PROVE  f \in Seq(Core) /\ DOMAIN f = DOMAIN cores
<1>1. Len(cores) \in Nat
  BY CoreIndex
<1>2. f \in Seq(Core)
  BY <1>1, SeqDef
<1> QED
  BY <1>2, CoreIndex

\* Erasing the types in T from a factory leaves the other entries alone.
LEMMA DelWebCoresEffect ==
    ASSUME NEW r \in Requester, NEW T
    PROVE  /\ DelWebCores(r, T) \in Requester \ {NoReq}
           /\ \A t \in EngineType :
                 DelWebCores(r, T).fac[t] = IF t \in T THEN NoCore ELSE r.fac[t]
BY ResMgrAssumption DEF DelWebCores, Requester, NoCore

\* The initial state satisfies the invariant.
LEMMA InitInv == Init => ResMgrInv
<1> SUFFICES ASSUME Init PROVE ResMgrInv
  OBVIOUS
<1> USE DEF Init, SrpcInit, Key, NoCore
<1>1. TypeOK
  BY SrpcAssumption DEF TypeOK, SrpcTypeOK, ConnState
<1>2. NoNullRequester /\ ResIndex /\ NoDanglingEngine
  BY DEF NoNullRequester, ResIndex, NoDanglingEngine, Uses
<1>3. RegistrationMirror /\ OnePublicEngine /\ PrivateIsExclusive
  BY DEF RegistrationMirror, OnePublicEngine, PrivateIsExclusive
<1>4. HandleOwned /\ RegisteredIsTold
  BY DEF HandleOwned, RegisteredIsTold, Held, Uses
<1> QED
  BY <1>1, <1>2, <1>3, <1>4 DEF ResMgrInv

\* A task of the queue is of one of the three kinds.
LEMMA HeadTask ==
    ASSUME TypeOK, queue # <<>>
    PROVE  Head(queue) \in Task /\ Tail(queue) \in Seq(Task)
BY DEF TypeOK

-----------------------------------------------------------------------------
(* The steps of the sRPC threads only touch the queue and the library.     *)

\* A step that changes no more than the queue and the notices.
LEMMA QueueOnlyInv ==
    ASSUME ResMgrInv, queue' \in Seq(Task),
           UNCHANGED reqVars, conn' = conn, notices' \in SUBSET Inst
    PROVE  ResMgrInv'
<1> USE DEF ResMgrInv, reqVars
<1>1. TypeOK'
  BY DEF TypeOK, SrpcTypeOK
<1>2. NoNullRequester' /\ ResIndex' /\ NoDanglingEngine'
  BY DEF NoNullRequester, ResIndex, NoDanglingEngine, Uses
<1>3. RegistrationMirror' /\ OnePublicEngine' /\ PrivateIsExclusive'
  BY DEF RegistrationMirror, OnePublicEngine, PrivateIsExclusive, Uses
<1>4. HandleOwned' /\ RegisteredIsTold'
  BY DEF HandleOwned, RegisteredIsTold, Held, Uses
<1> QED
  BY <1>1, <1>2, <1>3, <1>4

LEMMA PeerDiesInv ==
    ASSUME ResMgrInv, NEW i \in Inst, PeerDies(i)
    PROVE  ResMgrInv'
<1> USE DEF ResMgrInv, reqVars, PeerDies, Lose
<1>1. TypeOK'
  BY DEF TypeOK, SrpcTypeOK, ConnState
<1>2. NoNullRequester' /\ ResIndex' /\ NoDanglingEngine'
  BY DEF NoNullRequester, ResIndex, NoDanglingEngine, Uses
<1>3. RegistrationMirror' /\ OnePublicEngine' /\ PrivateIsExclusive'
  BY DEF RegistrationMirror, OnePublicEngine, PrivateIsExclusive, Uses
<1>4. RegisteredIsTold'
  BY DEF RegisteredIsTold, Uses
<1>5. \A j \in Inst : Held(j)' <=> Held(j)
  BY DEF Held, TypeOK, SrpcTypeOK
<1>6. HandleOwned'
  BY <1>5 DEF HandleOwned
<1> QED
  BY <1>1, <1>2, <1>3, <1>4, <1>6
-----------------------------------------------------------------------------
(* doWebRelease(reqKey, iType): with the two registries in agreement it    *)
(* only takes the requester and its engines apart; it closes no handle.    *)

LEMMA ReleaseRequesterEffect ==
    ASSUME ResMgrInv, NEW k \in Key, NEW T \in SUBSET EngineType,
           ReleaseRequester(k, T)
    PROVE  /\ UNCHANGED <<mapRes, mapAddrs, told, srpcVars>>
           /\ DOMAIN cores' = DOMAIN cores
           /\ mapReqs' \in [Key -> Requester \cup {NoReq}]
           /\ \A j \in Key : mapReqs'[j] = NoReq <=> mapReqs[j] = NoReq
           /\ \A j \in Key, t \in EngineType : mapReqs[j] # NoReq =>
                 mapReqs'[j].fac[t] = IF j = k /\ t \in T THEN NoCore
                                      ELSE mapReqs[j].fac[t]
           /\ cores' \in Seq(Core)
           /\ \A c \in DOMAIN cores :
                 /\ cores'[c].inst = cores[c].inst
                 /\ cores'[c].type = cores[c].type
                 /\ cores'[c].priv = cores[c].priv
                 /\ cores'[c].reqs =
                       IF \E t \in T : Uses(k, t, c) THEN cores[c].reqs \ {k}
                       ELSE cores[c].reqs
<1> DEFINE served  == {t \in T : mapReqs[k] # NoReq /\ mapReqs[k].fac[t] # NoCore}
           closes  == \E t \in served : DelCount(mapReqs[k].fac, t) = 0
           used    == {mapReqs[k].fac[t] : t \in served}
           unknown == {t \in served : k \notin cores[mapReqs[k].fac[t]].reqs}
           stopped == {cores[mapReqs[k].fac[t]].inst : t \in unknown}
           closed  == stopped \cup (IF closes THEN {k} ELSE {})
<1>1. ~closes
  BY DEF DelCount, NoCore
<1>2. unknown = {}
  BY DEF ResMgrInv, RegistrationMirror
<1>3. stopped = {} /\ closed = {}
  BY <1>1, <1>2
<1>4. UNCHANGED <<mapRes, mapAddrs, told, srpcVars>>
  <2>1. mapRes' = mapRes
    BY <1>3 DEF ReleaseRequester, ResMgrInv, TypeOK
  <2>2. mapAddrs' = mapAddrs
    BY <1>2 DEF ReleaseRequester, ResMgrInv, TypeOK, DelAddr
  <2>3. conn' = Destroyed({}) /\ notices' = DestroyNotices({})
    BY <1>3 DEF ReleaseRequester
  <2>4. Destroyed({}) = conn /\ DestroyNotices({}) = notices
    BY DEF Destroyed, DestroyNotices, ResMgrInv, TypeOK, SrpcTypeOK
  <2>5. told' = told
    BY DEF ReleaseRequester
  <2> QED
    BY <2>1, <2>2, <2>3, <2>4, <2>5 DEF srpcVars
<1>5. mapReqs' = [mapReqs EXCEPT ![k] =
                    IF @ = NoReq THEN NoReq ELSE DelWebCores(@, served)]
  BY <1>1 DEF ReleaseRequester
<1>6. /\ mapReqs' \in [Key -> Requester \cup {NoReq}]
      /\ \A j \in Key : mapReqs'[j] = NoReq <=> mapReqs[j] = NoReq
      /\ \A j \in Key, t \in EngineType : mapReqs[j] # NoReq =>
            mapReqs'[j].fac[t] = IF j = k /\ t \in T THEN NoCore
                                 ELSE mapReqs[j].fac[t]
  <2>1. CASE mapReqs[k] = NoReq
    <3>1. mapReqs' = mapReqs
      BY <1>5, <2>1 DEF ResMgrInv, TypeOK
    <3> QED
      BY <2>1, <3>1 DEF ResMgrInv, TypeOK
  <2>2. CASE mapReqs[k] # NoReq
    <3>1. DelWebCores(mapReqs[k], served) \in Requester \ {NoReq}
      BY <2>2, DelWebCoresEffect DEF ResMgrInv, TypeOK
    <3>2. \A t \in EngineType : DelWebCores(mapReqs[k], served).fac[t] =
                                   IF t \in T THEN NoCore ELSE mapReqs[k].fac[t]
      <4>1. mapReqs[k] \in Requester
        BY <2>2 DEF ResMgrInv, TypeOK
      <4>2. \A t \in EngineType : t \in served <=> t \in T /\ mapReqs[k].fac[t] # NoCore
        BY <2>2
      <4> HIDE DEF served
      <4> QED
        BY <4>1, <4>2, DelWebCoresEffect
    <3> HIDE DEF served
    <3>3. mapReqs' = [mapReqs EXCEPT ![k] = DelWebCores(mapReqs[k], served)]
      BY <1>5, <2>2
    <3> QED
      BY <2>2, <3>1, <3>2, <3>3 DEF ResMgrInv, TypeOK
  <2> QED
    BY <2>1, <2>2
<1>7. cores' = [c \in DOMAIN cores |->
                  IF c \in used THEN DelRequester(cores[c], k) ELSE cores[c]]
  BY DEF ReleaseRequester
<1>8. \A c \in DOMAIN cores : cores[c] \in Core
  BY DEF ResMgrInv, TypeOK
<1>9. /\ \A c \in DOMAIN cores : cores'[c] \in Core
      /\ \A c \in DOMAIN cores :
            /\ cores'[c].inst = cores[c].inst
            /\ cores'[c].type = cores[c].type
            /\ cores'[c].priv = cores[c].priv
            /\ cores'[c].reqs = IF c \in used THEN cores[c].reqs \ {k}
                                ELSE cores[c].reqs
  BY <1>7, <1>8 DEF DelRequester, Core
<1>10. \A c \in DOMAIN cores : c \in used <=> \E t \in T : Uses(k, t, c)
  BY DEF Uses, NoCore, ResMgrInv, TypeOK
<1>11. cores' \in Seq(Core) /\ DOMAIN cores' = DOMAIN cores
  <2>1. cores' \in [1 .. Len(cores) -> Core]
    BY <1>7, <1>9, CoreIndex DEF ResMgrInv
  <2> QED
    BY <2>1, CoresFunction DEF ResMgrInv
<1> QED
  BY <1>4, <1>6, <1>9, <1>10, <1>11

LEMMA ReleaseRequesterInv ==
    ASSUME ResMgrInv, NEW k \in Key, NEW T \in SUBSET EngineType,
           ReleaseRequester(k, T), queue # <<>>, queue' = Tail(queue)
    PROVE  ResMgrInv'
<1>0. /\ UNCHANGED <<mapRes, mapAddrs, told, conn, notices>>
      /\ DOMAIN cores' = DOMAIN cores
      /\ mapReqs' \in [Key -> Requester \cup {NoReq}]
      /\ \A j \in Key : mapReqs'[j] = NoReq <=> mapReqs[j] = NoReq
      /\ \A j \in Key, t \in EngineType : mapReqs[j] # NoReq =>
            mapReqs'[j].fac[t] = IF j = k /\ t \in T THEN NoCore
                                 ELSE mapReqs[j].fac[t]
      /\ cores' \in Seq(Core)
      /\ \A c \in DOMAIN cores :
            /\ cores'[c].inst = cores[c].inst
            /\ cores'[c].type = cores[c].type
            /\ cores'[c].priv = cores[c].priv
            /\ cores'[c].reqs =
                  IF \E t \in T : Uses(k, t, c) THEN cores[c].reqs \ {k}
                  ELSE cores[c].reqs
  BY ReleaseRequesterEffect DEF srpcVars
<1>1. NoCore \notin DOMAIN cores
  BY CoreIndex DEF ResMgrInv
<1>2. TypeOK'
  BY <1>0, HeadTask DEF ResMgrInv, TypeOK, SrpcTypeOK
<1>3. NoNullRequester' /\ ResIndex'
  BY <1>0 DEF ResMgrInv, NoNullRequester, ResIndex, Key
<1>4. \A j \in Key, t \in EngineType, c \in DOMAIN cores :
         (mapReqs'[j] # NoReq /\ mapReqs'[j].fac[t] = c)
             <=> Uses(j, t, c) /\ ~(j = k /\ t \in T)
  <2> TAKE j \in Key, t \in EngineType, c \in DOMAIN cores
  <2>1. c # NoCore
    BY <1>1
  <2>2. CASE mapReqs[j] = NoReq
    BY <1>0, <2>2 DEF Uses
  <2>3. CASE mapReqs[j] # NoReq
    <3>1. mapReqs'[j] # NoReq
      BY <1>0, <2>3
    <3>2. mapReqs'[j].fac[t] = IF j = k /\ t \in T THEN NoCore ELSE mapReqs[j].fac[t]
      BY <1>0, <2>3
    <3> QED
      BY <2>1, <2>3, <3>1, <3>2 DEF Uses
  <2> QED
    BY <2>2, <2>3
<1>5. NoDanglingEngine'
  <2>1. ASSUME NEW j \in Key, NEW t \in EngineType, NEW c \in DOMAIN cores,
               mapReqs'[j] # NoReq /\ mapReqs'[j].fac[t] = c
        PROVE  /\ cores'[c].type = t
               /\ cores'[c].inst # NULL => mapRes'[cores'[c].inst] = c
    <3>1. Uses(j, t, c)
      BY <1>4, <2>1
    <3>2. cores[c].type = t /\ (cores[c].inst # NULL => mapRes[cores[c].inst] = c)
      BY <3>1 DEF ResMgrInv, NoDanglingEngine
    <3>3. cores'[c].inst = cores[c].inst /\ cores'[c].type = cores[c].type
      BY <1>0
    <3>4. mapRes' = mapRes
      BY <1>0
    <3> QED
      BY <3>2, <3>3, <3>4
  <2> QED
    BY <1>0, <2>1 DEF NoDanglingEngine, Uses
<1>6. RegistrationMirror'
  <2>1. ASSUME NEW j \in Key, NEW t \in EngineType,
               (mapReqs[j] # NoReq /\ mapReqs[j].fac[t] # NoCore)'
        PROVE  (/\ mapReqs[j].fac[t] \in DOMAIN cores
                /\ j \in cores[mapReqs[j].fac[t]].reqs)'
    <3> DEFINE c == mapReqs[j].fac[t]
    <3>1. mapReqs[j] # NoReq /\ ~(j = k /\ t \in T) /\ mapReqs'[j].fac[t] = c /\ c # NoCore
      BY <1>0, <2>1
    <3>2. c \in DOMAIN cores /\ j \in cores[c].reqs /\ cores[c].type = t
      BY <3>1 DEF ResMgrInv, RegistrationMirror, NoDanglingEngine, Uses
    <3>3. j \in cores'[c].reqs
      <4>1. CASE j # k
        BY <1>0, <3>2, <4>1
      <4>2. CASE j = k
        <5>1. ~ \E u \in T : Uses(k, u, c)
          BY <3>1, <3>2, <4>2 DEF ResMgrInv, NoDanglingEngine
        <5> QED
          BY <1>0, <3>2, <5>1
      <4> QED
        BY <4>1, <4>2
    <3> QED
      BY <1>0, <3>1, <3>2, <3>3
  <2>2. ASSUME NEW i \in Key, (mapRes[i] # NoCore)',
               NEW j \in (cores[mapRes[i]].reqs)'
        PROVE  Uses(j, cores[mapRes[i]].type, mapRes[i])'
    <3> DEFINE c == mapRes[i]
    <3>1. c # NoCore /\ c \in DOMAIN cores /\ mapRes'[i] = c /\ cores'[c].type = cores[c].type
      BY <1>0, <2>2 DEF ResMgrInv, ResIndex
    <3>2. cores[c].type \in EngineType /\ cores[c].reqs \subseteq Key
      BY <3>1, CoreIndex DEF ResMgrInv, Core
    <3>3. j \in cores'[c].reqs
      BY <2>2, <3>1
    <3>4. j \in cores[c].reqs /\ (j = k => ~ \E u \in T : Uses(k, u, c))
      BY <1>0, <3>1, <3>3
    <3>5. Uses(j, cores[c].type, c)
      BY <3>1, <3>4 DEF ResMgrInv, RegistrationMirror
    <3>6. mapReqs'[j] # NoReq /\ mapReqs'[j].fac[cores[c].type] = c
      BY <1>4, <3>1, <3>2, <3>4, <3>5
    <3> QED
      BY <3>1, <3>6 DEF Uses
  <2> QED
    BY <2>1, <2>2 DEF RegistrationMirror
<1>7. OnePublicEngine'
  BY <1>0 DEF ResMgrInv, OnePublicEngine, ResIndex, Key, TypeOK
<1>8. PrivateIsExclusive'
  BY <1>0 DEF ResMgrInv, PrivateIsExclusive
<1>9. HandleOwned'
  BY <1>0 DEF ResMgrInv, HandleOwned, Held, Key
<1>10. RegisteredIsTold'
  <2>1. ASSUME NEW j \in Inst, NEW t \in EngineType, NEW c \in DOMAIN cores,
               mapReqs'[j] # NoReq /\ mapReqs'[j].fac[t] = c, cores'[c].inst # NULL
        PROVE  told'[j] = c
    <3>1. Uses(j, t, c)
      BY <1>4, <2>1 DEF Key
    <3> QED
      BY <1>0, <2>1, <3>1 DEF ResMgrInv, RegisteredIsTold
  <2> QED
    BY <1>0, <2>1 DEF RegisteredIsTold, Uses
<1> QED
  BY <1>2, <1>3, <1>5, <1>6, <1>7, <1>8, <1>9, <1>10 DEF ResMgrInv
-----------------------------------------------------------------------------
(* doWebRelease(pWeb): exactly the factories that name the engine lose it, *)
(* and only the handle of the engine is closed.                            *)

LEMMA ReleaseEngineEffect ==
    ASSUME ResMgrInv, NEW i \in Inst, mapRes[i] # NoCore, ReleaseEngine(mapRes[i])
    PROVE  /\ UNCHANGED <<cores, told>>
           /\ conn' = Destroyed({i}) /\ notices' = DestroyNotices({i})
           /\ mapRes' = [mapRes EXCEPT ![i] = NoCore]
           /\ mapAddrs' = IF cores[mapRes[i]].priv THEN mapAddrs
                          ELSE DelAddr({cores[mapRes[i]].type})
           /\ mapReqs' \in [Key -> Requester \cup {NoReq}]
           /\ \A j \in Key : mapReqs'[j] = NoReq <=> mapReqs[j] = NoReq
           /\ \A j \in Key, u \in EngineType : mapReqs[j] # NoReq =>
                 mapReqs'[j].fac[u] = IF mapReqs[j].fac[u] = mapRes[i] THEN NoCore
                                      ELSE mapReqs[j].fac[u]
<1> DEFINE c      == mapRes[i]
           t      == cores[c].type
           ended  == {k \in UsersOf(c) : DelCount(mapReqs[k].fac, t) = 0}
           closed == {cores[c].inst} \cup ended
<1>1. i \in Key /\ c \in DOMAIN cores /\ cores[c].inst = i
  BY DEF ResMgrInv, ResIndex, Key
<1>2. t \in EngineType /\ cores[c].reqs \subseteq Key
  BY <1>1, CoreIndex DEF ResMgrInv, Core
<1>3. \A k \in UsersOf(c) : k \in Key /\ mapReqs[k] # NoReq /\ mapReqs[k].fac[t] = c
  BY <1>1, <1>2 DEF UsersOf, ResMgrInv, RegistrationMirror, Uses
<1>4. \A k \in Key, u \in EngineType :
         mapReqs[k] # NoReq /\ mapReqs[k].fac[u] = c => k \in UsersOf(c) /\ u = t
  BY <1>1 DEF UsersOf, ResMgrInv, RegistrationMirror, NoDanglingEngine, Uses
<1>5. ended = {}
  BY <1>3 DEF DelCount
<1>6. closed = {i}
  BY <1>1, <1>5
<1>7. \A k \in Key : mapReqs'[k] = IF k \in UsersOf(c)
                                   THEN DelWebCores(mapReqs[k], {t}) ELSE mapReqs[k]
  BY <1>5 DEF ReleaseEngine
<1>8. \A k \in Key : mapReqs[k] # NoReq => mapReqs[k] \in Requester
  BY DEF ResMgrInv, TypeOK
<1>9. \A k \in UsersOf(c) :
         /\ DelWebCores(mapReqs[k], {t}) \in Requester \ {NoReq}
         /\ \A u \in EngineType : DelWebCores(mapReqs[k], {t}).fac[u] =
               IF u = t THEN NoCore ELSE mapReqs[k].fac[u]
  <2> TAKE k \in UsersOf(c)
  <2>1. mapReqs[k] \in Requester
    BY <1>3, <1>8
  <2>2. \A u \in EngineType : u \in {t} <=> u = t
    OBVIOUS
  <2> HIDE DEF t
  <2> QED
    BY <2>1, <2>2, DelWebCoresEffect
<1>10. mapReqs' = [k \in Key |-> mapReqs'[k]]
  BY DEF ReleaseEngine
<1>11. mapReqs' \in [Key -> Requester \cup {NoReq}]
  BY <1>7, <1>8, <1>9, <1>10
<1>12. \A j \in Key : mapReqs'[j] = NoReq <=> mapReqs[j] = NoReq
  BY <1>3, <1>7, <1>9
<1>13. ASSUME NEW j \in Key, NEW u \in EngineType, mapReqs[j] # NoReq
       PROVE  mapReqs'[j].fac[u] = IF mapReqs[j].fac[u] = c THEN NoCore
                                   ELSE mapReqs[j].fac[u]
  <2>1. CASE j \in UsersOf(c)
    <3>1. mapReqs'[j].fac[u] = IF u = t THEN NoCore ELSE mapReqs[j].fac[u]
      BY <1>7, <1>9, <2>1
    <3>2. u = t <=> mapReqs[j].fac[u] = c
      BY <1>3, <1>4, <1>13, <2>1
    <3> QED
      BY <3>1, <3>2
  <2>2. CASE j \notin UsersOf(c)
    BY <1>4, <1>7, <1>13, <2>2
  <2> QED
    BY <2>1, <2>2
<1>14. mapRes' = [mapRes EXCEPT ![i] = NoCore]
  BY <1>1 DEF ReleaseEngine
<1>15. /\ conn' = Destroyed({i}) /\ notices' = DestroyNotices({i})
       /\ mapAddrs' = IF cores[c].priv THEN mapAddrs ELSE DelAddr({t})
       /\ UNCHANGED <<cores, told>>
  BY <1>6 DEF ReleaseEngine
<1> QED
  BY <1>11, <1>12, <1>13, <1>14, <1>15

LEMMA ReleaseEngineInv ==
    ASSUME ResMgrInv, NEW i \in Inst, mapRes[i] # NoCore, ReleaseEngine(mapRes[i]),
           queue # <<>>, queue' = Tail(queue)
    PROVE  ResMgrInv'
<1> DEFINE c == mapRes[i]
           t == cores[c].type
<1>0. /\ cores' = cores /\ told' = told
      /\ conn' = Destroyed({i}) /\ notices' = DestroyNotices({i})
      /\ mapRes' = [mapRes EXCEPT ![i] = NoCore]
      /\ mapAddrs' = IF cores[c].priv THEN mapAddrs ELSE DelAddr({t})
      /\ mapReqs' \in [Key -> Requester \cup {NoReq}]
      /\ \A j \in Key : mapReqs'[j] = NoReq <=> mapReqs[j] = NoReq
      /\ \A j \in Key, u \in EngineType : mapReqs[j] # NoReq =>
            mapReqs'[j].fac[u] = IF mapReqs[j].fac[u] = c THEN NoCore
                                 ELSE mapReqs[j].fac[u]
  BY ReleaseEngineEffect
<1>1. i \in Key /\ c \in DOMAIN cores /\ cores[c].inst = i
  BY DEF ResMgrInv, ResIndex, Key
<1>2. t \in EngineType /\ NoCore \notin DOMAIN cores
  BY <1>1, CoreIndex DEF ResMgrInv, Core
<1>3. \A j \in Key : mapRes'[j] = IF j = i THEN NoCore ELSE mapRes[j]
  BY <1>0, <1>1 DEF ResMgrInv, TypeOK
<1>4. \A u \in EngineType : mapAddrs'[u] =
         IF u = t /\ ~cores[c].priv THEN NULL ELSE mapAddrs[u]
  BY <1>0 DEF DelAddr
<1>5. \A j \in Key, u \in EngineType, d \in DOMAIN cores :
         (mapReqs'[j] # NoReq /\ mapReqs'[j].fac[u] = d) <=> Uses(j, u, d) /\ d # c
  <2> TAKE j \in Key, u \in EngineType, d \in DOMAIN cores
  <2>1. CASE mapReqs[j] = NoReq
    BY <1>0, <2>1 DEF Uses
  <2>2. CASE mapReqs[j] # NoReq
    <3>1. mapReqs'[j] # NoReq
      BY <1>0, <2>2
    <3>2. mapReqs'[j].fac[u] = IF mapReqs[j].fac[u] = c THEN NoCore
                               ELSE mapReqs[j].fac[u]
      BY <1>0, <2>2
    <3> QED
      BY <1>2, <2>2, <3>1, <3>2 DEF Uses
  <2> QED
    BY <2>1, <2>2
<1>6. TypeOK'
  <2>1. mapAddrs' \in [EngineType -> Key]
    BY <1>0 DEF DelAddr, ResMgrInv, TypeOK, Key
  <2>2. mapRes' \in [Key -> Nat]
    BY <1>0 DEF ResMgrInv, TypeOK, NoCore
  <2>3. conn' \in [Inst -> ConnState] /\ notices' \in SUBSET Inst
    BY <1>0 DEF ResMgrInv, TypeOK, SrpcTypeOK, Destroyed, DestroyNotices, ConnState
  <2> QED
    BY <1>0, <2>1, <2>2, <2>3, HeadTask DEF ResMgrInv, TypeOK, SrpcTypeOK
<1>7. NoNullRequester'
  BY <1>0 DEF ResMgrInv, NoNullRequester, Key
<1>8. ResIndex'
  BY <1>0, <1>3 DEF ResMgrInv, ResIndex
<1>9. NoDanglingEngine'
  <2>1. ASSUME NEW j \in Key, NEW u \in EngineType, NEW d \in DOMAIN cores,
               mapReqs'[j] # NoReq /\ mapReqs'[j].fac[u] = d
        PROVE  /\ cores[d].type = u
               /\ cores[d].inst # NULL => mapRes'[cores[d].inst] = d
    <3>1. Uses(j, u, d) /\ d # c
      BY <1>5, <2>1
    <3>2. cores[d].type = u /\ (cores[d].inst # NULL => mapRes[cores[d].inst] = d)
      BY <3>1 DEF ResMgrInv, NoDanglingEngine
    <3>3. cores[d].inst \in Key
      BY CoreIndex DEF ResMgrInv, Core
    <3> QED
      BY <1>3, <3>1, <3>2, <3>3
  <2> QED
    BY <1>0, <2>1 DEF NoDanglingEngine, Uses
<1>10. RegistrationMirror'
  <2>1. ASSUME NEW j \in Key, NEW u \in EngineType,
               mapReqs'[j] # NoReq, mapReqs'[j].fac[u] # NoCore
        PROVE  /\ mapReqs'[j].fac[u] \in DOMAIN cores
               /\ j \in cores[mapReqs'[j].fac[u]].reqs
    <3>1. mapReqs[j] # NoReq /\ mapReqs'[j].fac[u] = mapReqs[j].fac[u]
      BY <1>0, <2>1
    <3> QED
      BY <2>1, <3>1 DEF ResMgrInv, RegistrationMirror
  <2>2. ASSUME NEW h \in Key, mapRes'[h] # NoCore, NEW j \in cores[mapRes'[h]].reqs
        PROVE  mapReqs'[j] # NoReq /\ mapReqs'[j].fac[cores[mapRes'[h]].type] = mapRes'[h]
    <3> DEFINE d == mapRes[h]
    <3>1. h # i /\ mapRes'[h] = d /\ d # NoCore
      BY <1>3, <2>2
    <3>2. d \in DOMAIN cores /\ d # c
      BY <1>1, <3>1 DEF ResMgrInv, ResIndex
    <3>3. cores[d].type \in EngineType /\ j \in Key
      BY <2>2, <3>1, <3>2, CoreIndex DEF ResMgrInv, Core
    <3>4. Uses(j, cores[d].type, d)
      BY <2>2, <3>1 DEF ResMgrInv, RegistrationMirror
    <3> QED
      BY <1>5, <3>1, <3>2, <3>3, <3>4
  <2> QED
    BY <1>0, <2>1, <2>2 DEF RegistrationMirror, Uses
<1>11. OnePublicEngine'
  <2>1. ASSUME NEW u \in EngineType, mapAddrs'[u] # NULL
        PROVE  /\ mapRes'[mapAddrs'[u]] # NoCore
               /\ cores[mapRes'[mapAddrs'[u]]].type = u
               /\ ~cores[mapRes'[mapAddrs'[u]]].priv
    <3>1. mapAddrs'[u] = mapAddrs[u] /\ ~(u = t /\ ~cores[c].priv)
      BY <1>4, <2>1
    <3>2. /\ mapAddrs[u] \in Key /\ mapRes[mapAddrs[u]] # NoCore
          /\ cores[mapRes[mapAddrs[u]]].type = u
          /\ ~cores[mapRes[mapAddrs[u]]].priv
      BY <2>1, <3>1 DEF ResMgrInv, OnePublicEngine, TypeOK
    <3>3. mapAddrs[u] # i
      BY <3>1, <3>2
    <3> QED
      BY <1>3, <3>1, <3>2, <3>3
  <2>2. ASSUME NEW h \in Inst, mapRes'[h] # NoCore, ~cores[mapRes'[h]].priv
        PROVE  mapAddrs'[cores[mapRes'[h]].type] = h
    <3> DEFINE d == mapRes[h]
    <3>1. h \in Key /\ h # i /\ mapRes'[h] = d /\ d # NoCore
      BY <1>3, <2>2 DEF Key
    <3>2. mapAddrs[cores[d].type] = h
      BY <2>2, <3>1 DEF ResMgrInv, OnePublicEngine
    <3>3. cores[d].type \in EngineType
      BY <3>1, CoreIndex DEF ResMgrInv, ResIndex, Core
    <3>4. ~(cores[d].type = t /\ ~cores[c].priv)
      BY <3>1, <3>2 DEF ResMgrInv, OnePublicEngine
    <3> QED
      BY <1>4, <3>1, <3>2, <3>3, <3>4
  <2> QED
    BY <1>0, <2>1, <2>2 DEF OnePublicEngine
<1>12. PrivateIsExclusive'
  BY <1>0 DEF ResMgrInv, PrivateIsExclusive
<1>13. HandleOwned'
  <2>1. conn[i] \in {"open", "lost"} /\ mapReqs[i] = NoReq
    BY DEF ResMgrInv, HandleOwned, Held
  <2>2. \A h \in Inst : Held(h)' <=> Held(h) /\ h # i
    BY <1>0, <2>1 DEF Held, Destroyed
  <2>3. \A h \in Inst : h \in Key
    BY DEF Key
  <2> QED
    BY <1>0, <1>3, <2>1, <2>2, <2>3 DEF ResMgrInv, HandleOwned
<1>14. RegisteredIsTold'
  <2>1. ASSUME NEW j \in Inst, NEW u \in EngineType, NEW d \in DOMAIN cores,
               mapReqs'[j] # NoReq /\ mapReqs'[j].fac[u] = d, cores[d].inst # NULL
        PROVE  told[j] = d
    <3>1. Uses(j, u, d)
      BY <1>5, <2>1 DEF Key
    <3> QED
      BY <2>1, <3>1 DEF ResMgrInv, RegisteredIsTold
  <2> QED
    BY <1>0, <2>1 DEF RegisteredIsTold, Uses
<1> QED
  BY <1>6, <1>7, <1>8, <1>9, <1>10, <1>11, <1>12, <1>13, <1>14 DEF ResMgrInv
-----------------------------------------------------------------------------
(* procGetWebInstance: the tail of the handler, AddRequester to            *)
(* notifyWebAddr.  The factory is a new one, as no lookup finds any.       *)

GetTask == [op : {"get"}, addr : Addr, type : EngineType, priv : BOOLEAN]

LEMMA RegisterEffect ==
    ASSUME ResMgrInv, NEW k \in Inst, NEW req \in GetTask,
           NEW cs \in Seq(Core), NEW c \in DOMAIN cs, Register(k, req, cs, c)
    PROVE  /\ cores' \in Seq(Core) /\ DOMAIN cores' = DOMAIN cs
           /\ \A d \in DOMAIN cs : d # c => cores'[d] = cs[d]
           /\ cores'[c].inst = cs[c].inst /\ cores'[c].type = req.type
           /\ cores'[c].priv = req.priv /\ cores'[c].reqs = cs[c].reqs \cup {k}
           /\ mapReqs' \in [Key -> Requester \cup {NoReq}]
           /\ \A j \in Key : j # k => mapReqs'[j] = mapReqs[j]
           /\ mapReqs'[k] # NoReq
           /\ \A u \in EngineType :
                 mapReqs'[k].fac[u] = IF u = req.type THEN c ELSE NoCore
           /\ told' \in [Inst -> Nat]
           /\ \A j \in Inst : j # k => told'[j] = told[j]
           /\ cs[c].inst # NULL => told'[k] = c
<1> DEFINE old == cs[c]
           new == [AddRequester(old, k) EXCEPT !.type = req.type, !.priv = req.priv]
           fac == [NoFac EXCEPT ![req.type] = c]
           rec == [addr |-> req.addr, fac |-> fac]
<1>1. Len(cs) \in Nat /\ DOMAIN cs = 1 .. Len(cs) /\ c \in Nat /\ old \in Core
  OBVIOUS
<1>2. /\ new \in Core
      /\ new.inst = old.inst /\ new.type = req.type /\ new.priv = req.priv
      /\ new.reqs = old.reqs \cup {k}
  BY <1>1 DEF AddRequester, Core, Key, GetTask
<1>3. cores' = [cs EXCEPT ![c] = new]
  BY DEF Register
<1>4. cores' \in Seq(Core) /\ DOMAIN cores' = DOMAIN cs
  <2> HIDE DEF new
  <2>1. cores' \in [1 .. Len(cs) -> Core]
    BY <1>1, <1>2, <1>3
  <2> QED
    BY <1>1, <2>1, SeqDef
<1>5. /\ \A d \in DOMAIN cs : d # c => cores'[d] = cs[d]
      /\ cores'[c] = new
  BY <1>3
<1>6. FactoryOf(RequesterKey(req.addr)) = NoFac
  BY DEF FactoryOf, RequesterKey, ResMgrInv, NoNullRequester
<1>7. mapReqs' = [mapReqs EXCEPT ![k] = rec]
  BY <1>6 DEF Register
<1>8. \A u \in EngineType : fac[u] = IF u = req.type THEN c ELSE NoCore
  BY DEF NoFac
<1>9. rec \in Requester /\ rec # NoReq
  BY <1>1, ResMgrAssumption DEF Requester, GetTask, NoFac, NoCore
<1>10. /\ mapReqs' \in [Key -> Requester \cup {NoReq}]
       /\ \A j \in Key : j # k => mapReqs'[j] = mapReqs[j]
       /\ mapReqs'[k] = rec
  <2> HIDE DEF rec
  <2> QED
    BY <1>7, <1>9 DEF ResMgrInv, TypeOK, Key
<1>11. /\ told' \in [Inst -> Nat]
       /\ \A j \in Inst : j # k => told'[j] = told[j]
       /\ cs[c].inst # NULL => told'[k] = c
  BY <1>1 DEF Register, NotifyWebAddr, ResMgrInv, TypeOK
<1> QED
  BY <1>2, <1>4, <1>5, <1>8, <1>9, <1>10, <1>11

\* A free handle is in neither table.
LEMMA FreshUnowned ==
    ASSUME ResMgrInv, NEW k \in Fresh
    PROVE  /\ k \in Inst /\ k \in Key /\ k # NULL
           /\ mapRes[k] = NoCore /\ mapReqs[k] = NoReq
BY SrpcAssumption DEF Fresh, ResMgrInv, HandleOwned, Held, Key

\* Nobody uses, and no core lists, a handle that is not recorded.
LEMMA UnownedUnlisted ==
    ASSUME ResMgrInv, NEW k \in Key, mapReqs[k] = NoReq
    PROVE  \A i \in Key : mapRes[i] # NoCore => k \notin cores[mapRes[i]].reqs
BY DEF ResMgrInv, RegistrationMirror, Uses
\* A further requester gets the public engine that is running.
LEMMA ServePublicInv ==
    ASSUME ResMgrInv, NEW k \in Fresh, NEW req \in GetTask, PublicKnown(req),
           ServePublicEngine(k, req), queue # <<>>, queue' = Tail(queue),
           notices' = notices
    PROVE  ResMgrInv'
<1> DEFINE h == mapAddrs[req.type]
           c == mapRes[h]
<1>1. req.type \in EngineType /\ ~req.priv /\ h # NULL /\ h \in Key /\ h \in Inst
  BY DEF GetTask, PublicKnown, ResMgrInv, TypeOK, Key
<1>2. /\ c # NoCore /\ c \in DOMAIN cores
      /\ cores[c].inst = h /\ cores[c].type = req.type /\ ~cores[c].priv
  BY <1>1 DEF ResMgrInv, OnePublicEngine, ResIndex
<1>3. k \in Inst /\ k \in Key /\ mapRes[k] = NoCore /\ mapReqs[k] = NoReq /\ k # NULL
  BY FreshUnowned
<1>4. /\ Register(k, req, cores, c)
      /\ conn' = Opened({k}) /\ mapRes' = mapRes /\ mapAddrs' = mapAddrs
  BY <1>2 DEF ServePublicEngine
<1>5. NoCore \notin DOMAIN cores /\ cores \in Seq(Core)
  BY CoreIndex DEF ResMgrInv, TypeOK
<1>6. /\ cores' \in Seq(Core) /\ DOMAIN cores' = DOMAIN cores
      /\ \A d \in DOMAIN cores : d # c => cores'[d] = cores[d]
      /\ cores'[c].inst = cores[c].inst /\ cores'[c].type = req.type
      /\ cores'[c].priv = req.priv /\ cores'[c].reqs = cores[c].reqs \cup {k}
      /\ mapReqs' \in [Key -> Requester \cup {NoReq}]
      /\ \A j \in Key : j # k => mapReqs'[j] = mapReqs[j]
      /\ mapReqs'[k] # NoReq
      /\ \A u \in EngineType :
            mapReqs'[k].fac[u] = IF u = req.type THEN c ELSE NoCore
      /\ told' \in [Inst -> Nat]
      /\ \A j \in Inst : j # k => told'[j] = told[j]
      /\ cores[c].inst # NULL => told'[k] = c
  <2> HIDE DEF c, h
  <2> QED
    BY <1>2, <1>3, <1>4, <1>5, RegisterEffect
<1>7. \A d \in DOMAIN cores :
         /\ cores'[d].inst = cores[d].inst /\ cores'[d].type = cores[d].type
         /\ cores'[d].priv <=> cores[d].priv
         /\ cores'[d].reqs = IF d = c THEN cores[d].reqs \cup {k} ELSE cores[d].reqs
  BY <1>1, <1>2, <1>6
<1>8. \A j \in Key, u \in EngineType, d \in DOMAIN cores :
         (mapReqs'[j] # NoReq /\ mapReqs'[j].fac[u] = d)
             <=> (j # k /\ Uses(j, u, d)) \/ (j = k /\ u = req.type /\ d = c)
  <2> TAKE j \in Key, u \in EngineType, d \in DOMAIN cores
  <2>1. CASE j = k
    BY <1>5, <1>6, <2>1
  <2>2. CASE j # k
    BY <1>6, <2>2 DEF Uses
  <2> QED
    BY <2>1, <2>2
<1>9. TypeOK'
  BY <1>3, <1>4, <1>6, HeadTask DEF ResMgrInv, TypeOK, SrpcTypeOK, Opened, ConnState
<1>10. NoNullRequester'
  BY <1>3, <1>6 DEF ResMgrInv, NoNullRequester, Key
<1>11. ResIndex'
  BY <1>4, <1>6, <1>7 DEF ResMgrInv, ResIndex
<1>12. NoDanglingEngine'
  <2>1. ASSUME NEW j \in Key, NEW u \in EngineType, NEW d \in DOMAIN cores,
               mapReqs'[j] # NoReq /\ mapReqs'[j].fac[u] = d
        PROVE  cores[d].type = u /\ (cores[d].inst # NULL => mapRes[cores[d].inst] = d)
    <3>1. CASE j # k
      <4>1. Uses(j, u, d)
        BY <1>8, <2>1, <3>1
      <4> QED
        BY <4>1 DEF ResMgrInv, NoDanglingEngine
    <3>2. CASE j = k
      BY <1>2, <1>8, <2>1, <3>2
    <3> QED
      BY <3>1, <3>2
  <2>2. ASSUME NEW j \in Key, NEW u \in EngineType, NEW d \in DOMAIN cores,
               mapReqs'[j] # NoReq /\ mapReqs'[j].fac[u] = d
        PROVE  cores'[d].type = u /\ (cores'[d].inst # NULL => mapRes'[cores'[d].inst] = d)
    <3>1. cores'[d].inst = cores[d].inst /\ cores'[d].type = cores[d].type
      BY <1>7
    <3>2. mapRes' = mapRes
      BY <1>4
    <3> HIDE DEF c, h
    <3> QED
      BY <2>1, <2>2, <3>1, <3>2
  <2> QED
    BY <1>6, <2>2 DEF NoDanglingEngine, Uses
<1>13. RegistrationMirror'
  <2>1. ASSUME NEW j \in Key, NEW u \in EngineType,
               mapReqs'[j] # NoReq, mapReqs'[j].fac[u] # NoCore
        PROVE  /\ mapReqs'[j].fac[u] \in DOMAIN cores
               /\ j \in cores'[mapReqs'[j].fac[u]].reqs
    <3>1. CASE j = k
      BY <1>2, <1>6, <2>1, <3>1
    <3>2. CASE j # k
      <4> DEFINE d == mapReqs[j].fac[u]
      <4>1. mapReqs'[j].fac[u] = d /\ d \in DOMAIN cores /\ j \in cores[d].reqs
        BY <1>6, <2>1, <3>2 DEF ResMgrInv, RegistrationMirror
      <4> QED
        BY <1>7, <4>1
    <3> QED
      BY <3>1, <3>2
  <2>2. ASSUME NEW i \in Key, mapRes[i] # NoCore, NEW j \in cores'[mapRes[i]].reqs
        PROVE  mapReqs'[j] # NoReq /\ mapReqs'[j].fac[cores'[mapRes[i]].type] = mapRes[i]
    <3> DEFINE d == mapRes[i]
    <3>1. d \in DOMAIN cores /\ cores'[d].type = cores[d].type /\ cores[d].type \in EngineType
      BY <1>7, <2>2, CoreIndex DEF ResMgrInv, ResIndex, Core
    <3>2. CASE j \in cores[d].reqs
      <4>1. j # k /\ j \in Key
        BY <1>3, <2>2, <3>1, <3>2, UnownedUnlisted, CoreIndex DEF ResMgrInv, Core
      <4>2. Uses(j, cores[d].type, d)
        BY <2>2, <3>2 DEF ResMgrInv, RegistrationMirror
      <4> QED
        BY <1>8, <3>1, <4>1, <4>2
    <3>3. CASE j \notin cores[d].reqs
      <4>1. j \in cores'[d].reqs
        BY <2>2
      <4>2. cores'[d].reqs = IF d = c THEN cores[d].reqs \cup {k} ELSE cores[d].reqs
        BY <1>7, <3>1
      <4>3. j = k /\ d = c
        <5> HIDE DEF c, d, h
        <5> QED
          BY <3>3, <4>1, <4>2
      <4> QED
        BY <1>2, <1>8, <1>3, <3>1, <4>3
    <3> QED
      BY <3>2, <3>3
  <2> QED
    BY <1>4, <1>6, <2>1, <2>2 DEF RegistrationMirror, Uses
<1>14. OnePublicEngine'
  <2>1. \A i \in Key : mapRes[i] # NoCore => mapRes[i] \in DOMAIN cores
    BY DEF ResMgrInv, ResIndex
  <2>2. \A i \in Inst : i \in Key
    BY DEF Key
  <2>3. \A u \in EngineType : mapAddrs[u] \in Key
    BY DEF ResMgrInv, TypeOK
  <2>4. mapRes' = mapRes /\ mapAddrs' = mapAddrs
    BY <1>4
  <2>5. ASSUME NEW u \in EngineType, mapAddrs[u] # NULL
        PROVE  /\ mapRes[mapAddrs[u]] # NoCore
               /\ cores'[mapRes[mapAddrs[u]]].type = u
               /\ ~cores'[mapRes[mapAddrs[u]]].priv
    <3> DEFINE d == mapRes[mapAddrs[u]]
    <3>1. d # NoCore /\ d \in DOMAIN cores /\ cores[d].type = u /\ ~cores[d].priv
      BY <2>1, <2>3, <2>5 DEF ResMgrInv, OnePublicEngine
    <3>2. cores'[d].type = u /\ ~cores'[d].priv
      BY <1>7, <3>1
    <3> QED
      BY <3>1, <3>2
  <2>6. ASSUME NEW i \in Inst, mapRes[i] # NoCore, ~cores'[mapRes[i]].priv
        PROVE  mapAddrs[cores'[mapRes[i]].type] = i
    <3> DEFINE d == mapRes[i]
    <3>1. d \in DOMAIN cores /\ cores'[d].type = cores[d].type /\ ~cores[d].priv
      BY <1>7, <2>1, <2>2, <2>6
    <3> QED
      BY <2>6, <3>1 DEF ResMgrInv, OnePublicEngine
  <2> QED
    BY <2>4, <2>5, <2>6 DEF OnePublicEngine
<1>15. PrivateIsExclusive'
  <2>1. ASSUME NEW d \in DOMAIN cores, cores'[d].priv
        PROVE  \A i, j \in cores'[d].reqs : i = j
    <3>1. d # c
      BY <1>1, <1>6, <2>1
    <3>2. cores'[d] = cores[d]
      BY <1>6, <3>1
    <3> QED
      BY <2>1, <3>2 DEF ResMgrInv, PrivateIsExclusive
  <2> QED
    BY <1>6, <2>1 DEF PrivateIsExclusive
<1>16. HandleOwned'
  <2>1. \A i \in Inst : Held(i)' <=> Held(i) \/ i = k
    BY <1>4 DEF Held, Opened
  <2>2. \A i \in Inst : i \in Key
    BY DEF Key
  <2> QED
    BY <1>3, <1>4, <1>6, <2>1, <2>2 DEF ResMgrInv, HandleOwned
<1>17. RegisteredIsTold'
  <2>1. ASSUME NEW j \in Inst, NEW u \in EngineType, NEW d \in DOMAIN cores,
               mapReqs'[j] # NoReq /\ mapReqs'[j].fac[u] = d, cores[d].inst # NULL
        PROVE  told'[j] = d
    <3>1. j \in Key
      BY DEF Key
    <3>2. CASE j = k
      BY <1>2, <1>6, <1>8, <2>1, <3>1, <3>2
    <3>3. CASE j # k
      <4>1. Uses(j, u, d)
        BY <1>8, <2>1, <3>1, <3>3
      <4> QED
        BY <1>6, <2>1, <3>3, <4>1 DEF ResMgrInv, RegisteredIsTold
    <3> QED
      BY <3>2, <3>3
  <2> QED
    BY <1>6, <1>7, <2>1 DEF RegisteredIsTold, Uses
<1> QED
  BY <1>9, <1>10, <1>11, <1>12, <1>13, <1>14, <1>15, <1>16, <1>17 DEF ResMgrInv
\* A requester gets an engine of its own, or the first of its type, or one
\* that could not be started.
LEMMA ServeNewInv ==
    ASSUME ResMgrInv, NEW k \in Fresh, NEW req \in GetTask, ~PublicKnown(req),
           ServeNewEngine(k, req), queue # <<>>, queue' = Tail(queue),
           notices' = notices
    PROVE  ResMgrInv'
<1> DEFINE c == Len(cores) + 1
<1>1. PICK p \in ProviderResults(req.type, {k}) :
          /\ mapRes' = [mapRes EXCEPT ![p] = c]
          /\ mapAddrs' = IF req.priv THEN mapAddrs ELSE AddAddr(req.type, p)
          /\ Register(k, req, Append(cores, NewCore(p)), c)
          /\ conn' = Opened({k, p})
  BY DEF ServeNewEngine
<1> DEFINE cs == Append(cores, NewCore(p))
<1>2. req.type \in EngineType /\ req.priv \in BOOLEAN
  BY DEF GetTask
<1>3. k \in Inst /\ k \in Key /\ mapRes[k] = NoCore /\ mapReqs[k] = NoReq /\ k # NULL
  BY FreshUnowned
<1>4. /\ p \in Key /\ p # k /\ (p # NULL => p \in Fresh /\ p \in Inst)
      /\ p # NULL => mapRes[p] = NoCore /\ mapReqs[p] = NoReq
  <2>1. p = NULL \/ p \in Fresh \ {k}
    BY DEF ProviderResults
  <2> QED
    BY <1>3, <2>1, FreshUnowned DEF Key
<1>5. /\ Len(cores) \in Nat /\ DOMAIN cores = 1 .. Len(cores) /\ cores \in Seq(Core)
      /\ c \in Nat /\ c # NoCore /\ c \notin DOMAIN cores /\ NoCore \notin DOMAIN cores
  <2>1. Len(cores) \in Nat /\ DOMAIN cores = 1 .. Len(cores) /\ cores \in Seq(Core)
    BY CoreIndex DEF ResMgrInv, TypeOK
  <2> QED
    BY <2>1 DEF NoCore
<1>6. NewCore(p) \in Core /\ NewCore(p).inst = p /\ NewCore(p).reqs = {}
  BY <1>4 DEF NewCore, Core, EngineType
<1>7. /\ cs \in Seq(Core) /\ DOMAIN cs = DOMAIN cores \cup {c} /\ cs[c] = NewCore(p)
      /\ \A d \in DOMAIN cores : cs[d] = cores[d]
  BY <1>5, <1>6
<1>8. /\ cores' \in Seq(Core) /\ DOMAIN cores' = DOMAIN cores \cup {c}
      /\ \A d \in DOMAIN cores : cores'[d] = cores[d]
      /\ cores'[c].inst = p /\ cores'[c].type = req.type
      /\ cores'[c].priv = req.priv /\ cores'[c].reqs = {k}
      /\ mapReqs' \in [Key -> Requester \cup {NoReq}]
      /\ \A j \in Key : j # k => mapReqs'[j] = mapReqs[j]
      /\ mapReqs'[k] # NoReq
      /\ \A u \in EngineType :
            mapReqs'[k].fac[u] = IF u = req.type THEN c ELSE NoCore
      /\ told' \in [Inst -> Nat]
      /\ \A j \in Inst : j # k => told'[j] = told[j]
      /\ p # NULL => told'[k] = c
  <2> HIDE DEF cs, c
  <2>1. c \in DOMAIN cs /\ Register(k, req, cs, c)
    BY <1>1, <1>7 DEF cs
  <2>2. /\ cores' \in Seq(Core) /\ DOMAIN cores' = DOMAIN cs
        /\ \A d \in DOMAIN cs : d # c => cores'[d] = cs[d]
        /\ cores'[c].inst = cs[c].inst /\ cores'[c].type = req.type
        /\ cores'[c].priv = req.priv /\ cores'[c].reqs = cs[c].reqs \cup {k}
        /\ mapReqs' \in [Key -> Requester \cup {NoReq}]
        /\ \A j \in Key : j # k => mapReqs'[j] = mapReqs[j]
        /\ mapReqs'[k] # NoReq
        /\ \A u \in EngineType :
              mapReqs'[k].fac[u] = IF u = req.type THEN c ELSE NoCore
        /\ told' \in [Inst -> Nat]
        /\ \A j \in Inst : j # k => told'[j] = told[j]
        /\ cs[c].inst # NULL => told'[k] = c
    BY <1>3, <1>7, <2>1, RegisterEffect
  <2> QED
    BY <1>5, <1>6, <1>7, <2>2
<1> HIDE DEF c, cs
<1>9. \A i \in Key : mapRes'[i] = IF i = p THEN c ELSE mapRes[i]
  BY <1>1, <1>4 DEF ResMgrInv, TypeOK
<1>10. \A u \in EngineType : mapAddrs'[u] =
          IF u = req.type /\ ~req.priv THEN p ELSE mapAddrs[u]
  BY <1>1, <1>2 DEF AddAddr, ResMgrInv, TypeOK
<1>11. \A j \in Key, u \in EngineType, d \in DOMAIN cores' :
          (mapReqs'[j] # NoReq /\ mapReqs'[j].fac[u] = d)
              <=> \/ j # k /\ Uses(j, u, d) /\ d \in DOMAIN cores
                  \/ j = k /\ u = req.type /\ d = c
  <2> TAKE j \in Key, u \in EngineType, d \in DOMAIN cores'
  <2>1. CASE j = k
    BY <1>5, <1>8, <2>1
  <2>2. CASE j # k
    <3>1. mapReqs[j] # NoReq /\ mapReqs[j].fac[u] # NoCore =>
              mapReqs[j].fac[u] \in DOMAIN cores
      BY DEF ResMgrInv, RegistrationMirror
    <3>2. d # NoCore
      BY <1>5, <1>8
    <3> QED
      BY <1>8, <2>2, <3>1, <3>2 DEF Uses
  <2> QED
    BY <2>1, <2>2
<1>12. \A i \in Key : mapRes[i] # NoCore =>
          mapRes[i] \in DOMAIN cores /\ cores[mapRes[i]].inst = i
  BY DEF ResMgrInv, ResIndex
<1>13. TypeOK'
  <2>1. mapRes' \in [Key -> Nat]
    BY <1>1, <1>5 DEF ResMgrInv, TypeOK
  <2>2. mapAddrs' \in [EngineType -> Key]
    BY <1>1, <1>4 DEF AddAddr, ResMgrInv, TypeOK
  <2>3. conn' \in [Inst -> ConnState]
    BY <1>1 DEF Opened, ConnState, ResMgrInv, TypeOK, SrpcTypeOK
  <2> QED
    BY <1>8, <2>1, <2>2, <2>3, HeadTask DEF ResMgrInv, TypeOK, SrpcTypeOK
<1>14. NoNullRequester'
  BY <1>3, <1>8 DEF ResMgrInv, NoNullRequester, Key
<1>15. ResIndex'
  <2>1. ASSUME NEW i \in Key, mapRes'[i] # NoCore
        PROVE  mapRes'[i] \in DOMAIN cores' /\ cores'[mapRes'[i]].inst = i
    BY <1>8, <1>9, <1>12, <2>1
  <2> QED
    BY <2>1 DEF ResIndex
<1>16. NoDanglingEngine'
  <2>1. ASSUME NEW j \in Key, NEW u \in EngineType, NEW d \in DOMAIN cores',
               mapReqs'[j] # NoReq /\ mapReqs'[j].fac[u] = d
        PROVE  cores'[d].type = u /\ (cores'[d].inst # NULL => mapRes'[cores'[d].inst] = d)
    <3>1. CASE j # k
      <4>1. Uses(j, u, d) /\ d \in DOMAIN cores
        BY <1>11, <2>1, <3>1
      <4>2. cores[d].type = u /\ (cores[d].inst # NULL => mapRes[cores[d].inst] = d)
        BY <4>1 DEF ResMgrInv, NoDanglingEngine
      <4>3. cores'[d] = cores[d] /\ cores[d].inst \in Key /\ d # NoCore
        BY <1>5, <1>8, <4>1, CoreIndex DEF ResMgrInv, Core
      <4>4. cores[d].inst # NULL => cores[d].inst # p
        BY <1>4, <4>2, <4>3
      <4> QED
        BY <1>9, <4>2, <4>3, <4>4
    <3>2. CASE j = k
      <4>1. u = req.type /\ d = c
        BY <1>11, <2>1, <3>2
      <4> QED
        BY <1>4, <1>8, <1>9, <4>1
    <3> QED
      BY <3>1, <3>2
  <2> QED
    BY <2>1 DEF NoDanglingEngine, Uses
<1>17. RegistrationMirror'
  <2>1. ASSUME NEW j \in Key, NEW u \in EngineType,
               mapReqs'[j] # NoReq, mapReqs'[j].fac[u] # NoCore
        PROVE  /\ mapReqs'[j].fac[u] \in DOMAIN cores'
               /\ j \in cores'[mapReqs'[j].fac[u]].reqs
    <3>1. CASE j = k
      BY <1>8, <2>1, <3>1
    <3>2. CASE j # k
      <4> DEFINE d == mapReqs[j].fac[u]
      <4>1. mapReqs'[j].fac[u] = d /\ d \in DOMAIN cores /\ j \in cores[d].reqs
        BY <1>8, <2>1, <3>2 DEF ResMgrInv, RegistrationMirror
      <4> QED
        BY <1>8, <4>1
    <3> QED
      BY <3>1, <3>2
  <2>2. ASSUME NEW i \in Key, mapRes'[i] # NoCore, NEW j \in cores'[mapRes'[i]].reqs
        PROVE  mapReqs'[j] # NoReq /\ mapReqs'[j].fac[cores'[mapRes'[i]].type] = mapRes'[i]
    <3>1. CASE i = p
      BY <1>2, <1>8, <1>9, <2>2, <3>1
    <3>2. CASE i # p
      <4> DEFINE d == mapRes[i]
      <4>1. /\ mapRes'[i] = d /\ d # NoCore /\ d \in DOMAIN cores
            /\ cores'[d] = cores[d] /\ j \in cores[d].reqs
        BY <1>8, <1>9, <1>12, <2>2, <3>2
      <4>2. cores[d].type \in EngineType /\ cores[d].reqs \subseteq Key
        BY <4>1, CoreIndex DEF ResMgrInv, Core
      <4>3. j # k /\ j \in Key
        BY <1>3, <4>1, <4>2, UnownedUnlisted
      <4>4. Uses(j, cores[d].type, d)
        BY <4>1 DEF ResMgrInv, RegistrationMirror
      <4>5. d \in DOMAIN cores'
        BY <1>8, <4>1
      <4> QED
        BY <1>11, <4>1, <4>2, <4>3, <4>4, <4>5
    <3> QED
      BY <3>1, <3>2
  <2> QED
    BY <2>1, <2>2 DEF RegistrationMirror, Uses
<1>18. OnePublicEngine'
  <2>1. ASSUME NEW u \in EngineType, mapAddrs'[u] # NULL
        PROVE  /\ mapRes'[mapAddrs'[u]] # NoCore
               /\ cores'[mapRes'[mapAddrs'[u]]].type = u
               /\ ~cores'[mapRes'[mapAddrs'[u]]].priv
    <3>1. CASE u = req.type /\ ~req.priv
      BY <1>4, <1>5, <1>8, <1>9, <1>10, <3>1
    <3>2. CASE ~(u = req.type /\ ~req.priv)
      <4> DEFINE h == mapAddrs[u]
                 d == mapRes[h]
      <4>1. mapAddrs'[u] = h /\ h # NULL /\ h \in Key
        BY <1>10, <2>1, <3>2 DEF ResMgrInv, TypeOK
      <4>2. d # NoCore /\ cores[d].type = u /\ ~cores[d].priv
        BY <4>1 DEF ResMgrInv, OnePublicEngine
      <4>3. h # p /\ d \in DOMAIN cores
        BY <1>4, <1>12, <4>1, <4>2
      <4> QED
        BY <1>8, <1>9, <4>1, <4>2, <4>3
    <3> QED
      BY <3>1, <3>2
  <2>2. ASSUME NEW i \in Inst, mapRes'[i] # NoCore, ~cores'[mapRes'[i]].priv
        PROVE  mapAddrs'[cores'[mapRes'[i]].type] = i
    <3>0. i \in Key
      BY DEF Key
    <3>1. CASE i = p
      BY <1>2, <1>8, <1>9, <1>10, <2>2, <3>0, <3>1
    <3>2. CASE i # p
      <4> DEFINE d == mapRes[i]
      <4>1. /\ mapRes'[i] = d /\ d # NoCore /\ d \in DOMAIN cores
            /\ cores'[d] = cores[d] /\ ~cores[d].priv
        BY <1>8, <1>9, <1>12, <2>2, <3>0, <3>2
      <4>2. mapAddrs[cores[d].type] = i /\ cores[d].type \in EngineType
        BY <4>1, CoreIndex DEF ResMgrInv, OnePublicEngine, Core
      <4>3. ~(cores[d].type = req.type /\ ~req.priv)
        BY <4>2, SrpcAssumption DEF PublicKnown
      <4> QED
        BY <1>10, <4>1, <4>2, <4>3
    <3> QED
      BY <3>1, <3>2
  <2> QED
    BY <2>1, <2>2 DEF OnePublicEngine
<1>19. PrivateIsExclusive'
  BY <1>8 DEF ResMgrInv, PrivateIsExclusive
<1>20. HandleOwned'
  <2>1. \A i \in Inst : Held(i)' <=> Held(i) \/ i = k \/ i = p
    BY <1>1 DEF Held, Opened
  <2>2. \A i \in Inst : i \in Key /\ i # NULL
    BY SrpcAssumption DEF Key
  <2> QED
    BY <1>3, <1>4, <1>5, <1>8, <1>9, <2>1, <2>2 DEF ResMgrInv, HandleOwned
<1>21. RegisteredIsTold'
  <2>1. ASSUME NEW j \in Inst, NEW u \in EngineType, NEW d \in DOMAIN cores',
               mapReqs'[j] # NoReq /\ mapReqs'[j].fac[u] = d, cores'[d].inst # NULL
        PROVE  told'[j] = d
    <3>1. j \in Key
      BY DEF Key
    <3>2. CASE j = k
      BY <1>8, <1>11, <2>1, <3>1, <3>2
    <3>3. CASE j # k
      <4>1. Uses(j, u, d) /\ d \in DOMAIN cores /\ cores'[d] = cores[d]
        BY <1>8, <1>11, <2>1, <3>1, <3>3
      <4> QED
        BY <1>8, <2>1, <3>3, <4>1 DEF ResMgrInv, RegisteredIsTold
    <3> QED
      BY <3>2, <3>3
  <2> QED
    BY <2>1 DEF RegisteredIsTold, Uses
<1> QED
  BY <1>13, <1>14, <1>15, <1>16, <1>17, <1>18, <1>19, <1>20, <1>21 DEF ResMgrInv

-----------------------------------------------------------------------------
(* The theorems.                                                           *)

\* Every step keeps the invariant.
LEMMA NextInv == ResMgrInv /\ [Next]_vars => ResMgrInv'
<1> SUFFICES ASSUME ResMgrInv, [Next]_vars PROVE ResMgrInv'
  OBVIOUS
<1>1. ASSUME NEW a \in Addr, NEW t \in EngineType, NEW p \in BOOLEAN,
             GetInstance(a, t, p)
      PROVE  ResMgrInv'
  <2>1. [op |-> "get", addr |-> a, type |-> t, priv |-> p] \in Task
    BY DEF Task
  <2> QED
    BY <1>1, <2>1, QueueOnlyInv DEF GetInstance, srpcVars, ResMgrInv, TypeOK, SrpcTypeOK
<1>2. ASSUME NEW a \in Addr, NEW t \in EngineType, ReleaseInstance(a, t)
      PROVE  ResMgrInv'
  <2>1. [op |-> "release", addr |-> a, type |-> t] \in Task
    BY DEF Task
  <2> QED
    BY <1>2, <2>1, QueueOnlyInv DEF ReleaseInstance, srpcVars, ResMgrInv, TypeOK, SrpcTypeOK
<1>3. ASSUME NEW i \in Inst, OnSRPCError(i)
      PROVE  ResMgrInv'
  <2>1. [op |-> "connErr", inst |-> i] \in Task
    BY DEF Task
  <2> QED
    BY <1>3, <2>1, QueueOnlyInv DEF OnSRPCError, ResMgrInv, TypeOK, SrpcTypeOK
<1>4. ASSUME NEW i \in Inst, PeerDies(i)
      PROVE  ResMgrInv'
  BY <1>4, PeerDiesInv
<1>5. CASE ProcGetWebInstance
  <2> DEFINE req == Head(queue)
  <2>1. queue # <<>> /\ req.op = "get" /\ queue' = Tail(queue) /\ notices' = notices
    BY <1>5 DEF ProcGetWebInstance
  <2>2. req \in GetTask
    BY <2>1, HeadTask DEF ResMgrInv, Task, GetTask
  <2>3. CASE UNCHANGED <<reqVars, conn>>
    <3>1. queue' \in Seq(Task) /\ notices' \in SUBSET Inst /\ conn' = conn
      BY <2>1, <2>3, HeadTask DEF ResMgrInv, TypeOK, SrpcTypeOK
    <3>2. UNCHANGED reqVars
      BY <2>3
    <3> QED
      BY <3>1, <3>2, QueueOnlyInv
  <2>4. ASSUME NEW k \in Fresh,
               IF PublicKnown(req) THEN ServePublicEngine(k, req)
                                   ELSE ServeNewEngine(k, req)
        PROVE  ResMgrInv'
    <3> HIDE DEF req
    <3> QED
      BY <2>1, <2>2, <2>4, ServePublicInv, ServeNewInv
  <2> QED
    BY <1>5, <2>3, <2>4 DEF ProcGetWebInstance
<1>6. CASE ProcReleaseWebInstance
  <2>1. queue # <<>> /\ Head(queue) \in Task /\ Head(queue).op = "release"
    BY <1>6, HeadTask DEF ProcReleaseWebInstance, ResMgrInv
  <2>2. Head(queue).type \in EngineType
    BY <2>1 DEF Task
  <2>3. RequesterKey(Head(queue).addr) \in Key
    BY DEF RequesterKey, Key
  <2> QED
    BY <1>6, <2>2, <2>3, ReleaseRequesterInv DEF ProcReleaseWebInstance
<1>7. CASE ProcConnectErr
  <2>1. queue # <<>> /\ Head(queue) \in Task /\ Head(queue).op = "connErr"
    BY <1>7, HeadTask DEF ProcConnectErr, ResMgrInv
  <2>2. Head(queue).inst \in Inst /\ Head(queue).inst \in Key
    BY <2>1 DEF Task, Key
  <2> QED
    BY <1>7, <2>2, ReleaseRequesterInv, ReleaseEngineInv DEF ProcConnectErr
<1>8. CASE UNCHANGED vars
  <2>1. UNCHANGED <<queue, reqVars, conn, notices>>
    BY <1>8 DEF vars, srpcVars
  <2> QED
    <3>1. queue' \in Seq(Task) /\ notices' \in SUBSET Inst /\ conn' = conn
      BY <2>1 DEF ResMgrInv, TypeOK, SrpcTypeOK
    <3>2. UNCHANGED reqVars
      BY <2>1
    <3> QED
      BY <3>1, <3>2, QueueOnlyInv
<1> QED
  BY <1>1, <1>2, <1>3, <1>4, <1>5, <1>6, <1>7, <1>8 DEF Next, Worker

\* The broker's tables always satisfy the invariant of ResMgr, for every set
\* of handles, addresses and configured types and every bound.
THEOREM InvariantHolds == Spec => []ResMgrInv
BY InitInv, NextInv, PTL DEF Spec

\* Types, and the pointers of the tables.
THEOREM TypeCorrect == Spec => []TypeOK
BY InvariantHolds, PTL DEF ResMgrInv

\* m_mapReqs and the requester sets of the engines always agree, so that a
\* lost engine is forgotten by exactly its requesters (doWebRelease).
THEOREM RegistriesAgree == Spec => []RegistrationMirror
BY InvariantHolds, PTL DEF ResMgrInv

\* There is at most one public engine per type, and getGlobalWeb finds it.
THEOREM PublicEngineUnique == Spec => []OnePublicEngine
BY InvariantHolds, PTL DEF ResMgrInv

\* No private engine is shared between two requesters.
THEOREM PrivateNotShared == Spec => []PrivateIsExclusive
BY InvariantHolds, PTL DEF ResMgrInv

\* No handle is used after it is closed, and none is lost track of.
THEOREM HandlesAccounted == Spec => []HandleOwned
BY InvariantHolds, PTL DEF ResMgrInv

\* No requester keeps an engine that the broker has dropped.
THEOREM NoEngineDangles == Spec => []NoDanglingEngine
BY InvariantHolds, PTL DEF ResMgrInv

\* Whoever is recorded for a running engine has been sent its address.
THEOREM RecordedMeansTold == Spec => []RegisteredIsTold
BY InvariantHolds, PTL DEF ResMgrInv
=============================================================================
