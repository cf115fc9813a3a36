---------------------------- MODULE MCPushQueue ----------------------------
(* Instances of PushQueue for TLC: endpoints are symmetric.                *)
EXTENDS PushQueue, TLC

CONSTANTS e1, e2

EndpointSymmetry == Permutations({e1, e2})
=============================================================================
