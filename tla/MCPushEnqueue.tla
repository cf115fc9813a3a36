--------------------------- MODULE MCPushEnqueue ---------------------------
(* Instances of PushEnqueue for TLC: concurrent requests are symmetric.    *)
EXTENDS PushEnqueue, TLC

CONSTANTS c1, c2

ClientSymmetry == Permutations({c1, c2})
=============================================================================
