-------------------------------- MODULE Srpc --------------------------------
(***************************************************************************)
(* The client side of the sRPC library, as one process sees it.  sRPC is a *)
(* binary (lib/sRPC.lib, bin/Release/sRPC.dll): its behaviour is taken     *)
(* from the contract in inc/sRPC/sRPC.h and inc/sRPC/sRPCTypeDef.h and     *)
(* from how the code calls it.                                             *)
(*                                                                         *)
(* A handle (void* instance) is returned by SRPC_CreateClient or           *)
(* SRPC_CreateProvider and given back with SRPC_DestroyClient.  The        *)
(* connection-error callback is owed to a handle (it is in "notices") in   *)
(* two cases, sRPCTypeDef.h:122-124: the remote end closed or failed, and  *)
(* the local side called SRPC_DestroyClient.                               *)
(***************************************************************************)
CONSTANTS
    Inst,          \* the handles the library can return
    NULL,          \* nullptr
    ReuseHandles   \* TRUE if a destroyed handle's value may be returned again

ASSUME SrpcAssumption ==
    /\ NULL \notin Inst
    /\ ReuseHandles \in BOOLEAN

VARIABLES
    conn,     \* conn[i]: what the handle i stands for in the library
    notices   \* handles for which the error callback is still to be called

srpcVars == <<conn, notices>>

ConnState == {"unused", "open", "lost", "closed"}

SrpcTypeOK ==
    /\ conn \in [Inst -> ConnState]
    /\ notices \in SUBSET Inst

SrpcInit ==
    /\ conn = [i \in Inst |-> "unused"]
    /\ notices = {}

\* The values SRPC_CreateClient and SRPC_CreateProvider may return.
Fresh == {i \in Inst : \/ conn[i] = "unused"
                       \/ ReuseHandles /\ conn[i] = "closed"}

\* A handle that has not been given back with SRPC_DestroyClient.
Held(i) == conn[i] \in {"open", "lost"}

\* The handles in S are returned by a create call.
Opened(S) == [i \in Inst |-> IF i \in S THEN "open" ELSE conn[i]]

\* SRPC_DestroyClient on each handle in S; on a handle that is not held the
\* call fails and changes nothing (sRPCTypeDef.h:127-128).
Destroyed(S) == [i \in Inst |-> IF i \in S /\ Held(i) THEN "closed" ELSE conn[i]]
DestroyNotices(S) == notices \cup {i \in S \cap Inst : Held(i)}

\* The remote end of i closes the connection or dies.
Lose(i) ==
    /\ conn[i] = "open"
    /\ conn' = [conn EXCEPT ![i] = "lost"]
    /\ notices' = notices \cup {i}
=============================================================================
