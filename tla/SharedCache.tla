----------------------------- MODULE SharedCache -----------------------------
(***************************************************************************)
(* The users of the cache whose correctness rests on the order of its      *)
(* operations, side by side: the access limit of an application and the    *)
(* gateway of a model.  A restart of the cache empties both.               *)
(***************************************************************************)
EXTENDS AccessLimit, ModelGateway

cacheVars == <<limit, gatewayVars>>

CacheInit == AccessInit /\ GatewayInit

\* Redis keeps nothing on disk: a restart loses the counter and the model.
Restart == Forget /\ Empty /\ UNCHANGED <<row, reader, held, editor, edits, late>>

CacheNext ==
  \/ \E r \in Turn : EnsureAccess(r) /\ UNCHANGED gatewayVars
  \/ GatewayNext /\ UNCHANGED limit
  \/ Restart

CacheSpec == CacheInit /\ [][CacheNext]_cacheVars
=============================================================================
