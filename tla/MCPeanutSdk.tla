----------------------------- MODULE MCPeanutSdk -----------------------------
(***************************************************************************)
(* The JavaScript SDK: calls of one client, or a subscription.  The two    *)
(* share the access token alone, which streamRequest reads once, so a      *)
(* behaviour has either.                                                   *)
(***************************************************************************)
EXTENDS PeanutClient, PeanutRealtime

vars == <<clientVars, streamVars>>

Init == ClientInit /\ RealtimeInit

Next ==
    \/ pc = "none" /\ ClientNext /\ UNCHANGED streamVars
    \/ (\A c \in Calls : call[c].pc = "idle") /\ RealtimeNext /\ UNCHANGED clientVars

Spec == Init /\ [][Next]_vars /\ ClientFairness /\ RealtimeFairness
=============================================================================
