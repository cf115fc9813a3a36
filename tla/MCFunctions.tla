----------------------------- MODULE MCFunctions -----------------------------
(***************************************************************************)
(* Functions: the edits of one function, or its invocations.  What an      *)
(* invocation sees of the edits is which version is active and whether the *)
(* function exists, and those FunctionInvocations changes at any time; so  *)
(* a behaviour has either.                                                 *)
(***************************************************************************)
EXTENDS FunctionVersions, FunctionInvocations

VARIABLE part  \* "edits" or "invocations"

functionVars == <<vars, invocationVars, part>>

FunctionsInit ==
    /\ Init
    /\ InvocationsInit
    /\ part \in {"edits", "invocations"}
    /\ part = "edits" => before = 0

FunctionsNext ==
    /\ \/ part = "edits" /\ Next /\ UNCHANGED invocationVars
       \/ part = "invocations" /\ InvocationsNext /\ UNCHANGED vars
    /\ UNCHANGED part

FunctionsSpec == FunctionsInit /\ [][FunctionsNext]_functionVars /\ InvocationsFairness
=============================================================================
