--------------------------- MODULE MCConsoleViews ---------------------------
(***************************************************************************)
(* The views of the console, of which one is open at a time: the lists and *)
(* the operations of any of them, or the drafts of the functions view.     *)
(* The two look at different parts of the server and share no state, so a  *)
(* behaviour has either.                                                   *)
(***************************************************************************)
EXTENDS ConsoleViews, FunctionsView

VARIABLE part  \* "lists" or "drafts"

vars == <<consoleVars, functionsVars, part>>

Init ==
    /\ ConsoleInit
    /\ FunctionsInit
    /\ \/ part = "lists" /\ \A name \in Names : stored[name] = NoText
       \/ part = "drafts" /\ view = "functions"

Next ==
    /\ \/ part = "lists" /\ ConsoleNext /\ UNCHANGED functionsVars
       \/ part = "drafts" /\ FunctionsNext /\ UNCHANGED consoleVars
    /\ UNCHANGED part

Spec == Init /\ [][Next]_vars
=============================================================================
