--------------------------- MODULE MCAuthSessions ---------------------------
(***************************************************************************)
(* AuthSessions with two concurrent requests and a joint bound on what     *)
(* they store: refresh tokens, reset tokens and passwords.                 *)
(***************************************************************************)
EXTENDS AuthSessions, TLC

CONSTANT MaxWrites  \* bound: tokens inserted and passwords set, together

ClientSymmetry == Permutations(Clients)

BoundedNext ==
    /\ Next
    /\ (nextToken' - 1) + Cardinality(DOMAIN resets') + password' <= MaxWrites

BoundedSpec == Init /\ [][BoundedNext]_vars
=============================================================================
