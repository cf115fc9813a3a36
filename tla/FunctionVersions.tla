-------------------------- MODULE FunctionVersions --------------------------
(***************************************************************************)
(* The versions of one function and its active version                     *)
(* (src/api/functions/admin.rs, versions.rs, internal.rs).  An edit loads  *)
(* the function, and in a later transaction stores what it made of it.     *)
(* The source code, secrets and settings of a version are one value, its   *)
(* code; the row of the function holds a copy of the active version's.     *)
(***************************************************************************)
EXTENDS Naturals, FiniteSets

CONSTANTS
    Editors,     \* requests that are served concurrently
    Codes,       \* source codes; a function is created with code 0
    MaxVersions, \* bound: version numbers
    MaxEdits     \* bound: edits begun

ASSUME VersionsAssumption ==
    /\ IsFiniteSet(Editors)
    /\ 0 \in Codes
    /\ MaxVersions \in Nat \ {0}
    /\ MaxEdits \in Nat

VARIABLES
    function,  \* the row of functions: exists, active_version_number, code
    versions,  \* function_versions: number -> [code, base]
    edit,      \* per editor: the request being served
    edits      \* auxiliary: edits begun

vars == <<function, versions, edit, edits>>

Numbers == 1 .. MaxVersions

NoEdit == [pc |-> "idle", from |-> 0, base |-> 0, code |-> 0]

TypeOK ==
    /\ function \in [exists : BOOLEAN, active : Numbers, code : Codes]
    /\ DOMAIN versions \subseteq Numbers
    /\ \A n \in DOMAIN versions : versions[n] \in [code : Codes, base : Codes]
    /\ edit \in [Editors -> [pc : {"idle", "update", "activate", "failed"},
                             from : 0 .. MaxVersions, base : Codes, code : Codes]]
    /\ edits \in 0 .. MaxEdits

\* create_function: version 1 and the row of the function, in a transaction.
Init ==
    /\ function = [exists |-> TRUE, active |-> 1, code |-> 0]
    /\ versions = [n \in {1} |-> [code |-> 0, base |-> 0]]
    /\ edit = [e \in Editors |-> NoEdit]
    /\ edits = 0

-----------------------------------------------------------------------------
(* update_function.  The payload is merged into the function as loaded.    *)
LoadForUpdate(e, code) ==
    /\ edit[e].pc = "idle"
    /\ function.exists
    /\ edits < MaxEdits
    /\ edits' = edits + 1
    /\ edit' = [edit EXCEPT ![e] = [pc |-> "update", from |-> function.active,
                                    base |-> function.code, code |-> code]]
    /\ UNCHANGED <<function, versions>>

\* Mutant: the next number is the one after the newest version.
NextVersionOfAll(e) == Cardinality(DOMAIN versions) + 1

NextVersion(e) == edit[e].from + 1

\* insert_function_version fails if the function is gone (its foreign key) or
\* the number is taken (UNIQUE).
CanInsert(n) == function.exists /\ n \notin DOMAIN versions

\* Mutant: the number is switched and the copied code is not.
ActivateNumberOnly(n, code) == function' = [function EXCEPT !.active = n]

\* activate_function_version.
Activate(n, code) == function' = [function EXCEPT !.active = n, !.code = code]

StoreUpdate(e) ==
    /\ edit[e].pc = "update"
    /\ NextVersion(e) \in Numbers
    /\ LET n == NextVersion(e) IN
       IF CanInsert(n)
       THEN /\ versions' = [k \in DOMAIN versions \cup {n} |->
                              IF k = n THEN [code |-> edit[e].code, base |-> edit[e].base]
                              ELSE versions[k]]
            /\ Activate(n, edit[e].code)
            /\ edit' = [edit EXCEPT ![e] = NoEdit]
       ELSE /\ edit' = [edit EXCEPT ![e] = [NoEdit EXCEPT !.pc = "failed"]]
            /\ UNCHANGED <<function, versions>>
    /\ UNCHANGED edits

(* rollback_function_version: load the version, then activate it.          *)
LoadForRollback(e, n) ==
    /\ edit[e].pc = "idle"
    /\ function.exists
    /\ n \in DOMAIN versions
    /\ edit' = [edit EXCEPT ![e] = [NoEdit EXCEPT !.pc = "activate", !.from = n,
                                                  !.code = versions[n].code]]
    /\ UNCHANGED <<function, versions, edits>>

\* The UPDATE matches no row if the function was deleted.
ActivateOld(e) ==
    /\ edit[e].pc = "activate"
    /\ IF function.exists THEN Activate(edit[e].from, edit[e].code) ELSE UNCHANGED function
    /\ edit' = [edit EXCEPT ![e] = NoEdit]
    /\ UNCHANGED <<versions, edits>>

\* delete_function: the versions go with it (ON DELETE CASCADE).
DeleteFunction ==
    /\ function.exists
    /\ function' = [function EXCEPT !.exists = FALSE]
    /\ versions' = [n \in {} |-> versions[n]]
    /\ UNCHANGED <<edit, edits>>

\* The editor saw the error and moves on.
Dismiss(e) ==
    /\ edit[e].pc = "failed"
    /\ edit' = [edit EXCEPT ![e] = NoEdit]
    /\ UNCHANGED <<function, versions, edits>>

Next ==
    \/ \E e \in Editors :
          \/ \E code \in Codes : LoadForUpdate(e, code)
          \/ StoreUpdate(e)
          \/ \E n \in Numbers : LoadForRollback(e, n)
          \/ ActivateOld(e)
          \/ Dismiss(e)
    \/ DeleteFunction

Spec == Init /\ [][Next]_vars

-----------------------------------------------------------------------------
(* The function runs the code of its active version: the copy in the row   *)
(* of the function and the version it names agree under all interleavings  *)
(* of updates and rollbacks.                                               *)
ActiveIsStored ==
    function.exists =>
        /\ function.active \in DOMAIN versions
        /\ versions[function.active].code = function.code

(* No update is lost: version n + 1 was made from the code of version n.   *)
(* Of two edits of the same version the UNIQUE number refuses the second.  *)
EachFromPrevious ==
    \A n \in DOMAIN versions : n > 1 =>
        /\ n - 1 \in DOMAIN versions
        /\ versions[n].base = versions[n - 1].code

(* The history of a function only grows while the function exists.         *)
HistoryKept ==
    [][function'.exists =>
          \A n \in DOMAIN versions : n \in DOMAIN versions' /\ versions'[n] = versions[n]]_vars

(* An update by the only editor is stored as a new active version.  After  *)
(* a rollback the number following the active one is already taken.        *)
UpdateIsStored == function.exists => \A e \in Editors : edit[e].pc # "failed"
=============================================================================
