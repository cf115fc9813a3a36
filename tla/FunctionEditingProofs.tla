----------------------- MODULE FunctionEditingProofs ------------------------
(***************************************************************************)
(* Proofs about how functions are edited: their versions on the server     *)
(* (FunctionVersions), the editor of the console (CodeEditor) and the      *)
(* drafts of its functions view (FunctionsView), for any number of editors,*)
(* versions, functions, texts and requests.                                *)
(***************************************************************************)
EXTENDS FunctionVersions, FunctionsView, FiniteSetTheorems, NaturalsInduction, TLAPS

(* The time a leaf may take. *)
USE SMTT(30)

-----------------------------------------------------------------------------
(* FunctionVersions.  What an editor loaded stays true of the version it   *)
(* was loaded from for as long as the function exists (EditFromVersion);   *)
(* this is what makes the invariants inductive, and it holds because       *)
(* versions are never rewritten.                                           *)

\* What an edit in progress holds is what its version holds.
EditFromVersion ==
    \A e \in Editors :
        /\ function.exists /\ edit[e].pc = "update" =>
              /\ edit[e].from \in DOMAIN versions
              /\ edit[e].base = versions[edit[e].from].code
        /\ function.exists /\ edit[e].pc = "activate" =>
              /\ edit[e].from \in DOMAIN versions
              /\ edit[e].code = versions[edit[e].from].code

DeletedHasNoVersions == ~function.exists => DOMAIN versions = {}

Inv ==
    /\ TypeOK
    /\ ActiveIsStored
    /\ EachFromPrevious
    /\ EditFromVersion
    /\ DeletedHasNoVersions

\* Create starts every invariant.
LEMMA InitInv == Init => Inv
  BY VersionsAssumption
  DEF Init, Inv, TypeOK, ActiveIsStored, EachFromPrevious, EditFromVersion,
      DeletedHasNoVersions, Numbers, NoEdit

EditStates == [pc : {"idle", "update", "activate", "failed"},
               from : 0 .. MaxVersions, base : Codes, code : Codes]

\* The values that an edit takes have the type of an edit.
LEMMA EditTypes ==
  /\ NoEdit \in EditStates
  /\ [NoEdit EXCEPT !.pc = "failed"] \in EditStates
  /\ \A n \in Numbers, c \in Codes :
        [NoEdit EXCEPT !.pc = "activate", !.from = n, !.code = c] \in EditStates
  <1>1. /\ 0 \in 0 .. MaxVersions /\ 0 \in Codes
        /\ \A n \in Numbers : n \in 0 .. MaxVersions
    BY VersionsAssumption DEF Numbers
  <1>2. NoEdit \in EditStates  BY <1>1, Zenon DEF NoEdit, EditStates
  <1>3. [NoEdit EXCEPT !.pc = "failed"] \in EditStates  BY <1>2, Zenon DEF EditStates
  <1>4. ASSUME NEW n \in Numbers, NEW c \in Codes
        PROVE  [NoEdit EXCEPT !.pc = "activate", !.from = n, !.code = c] \in EditStates
    BY <1>1, <1>2, Zenon DEF EditStates
  <1>5. QED  BY <1>2, <1>3, <1>4, Zenon

\* The fields of an edit that loaded a version.
LEMMA LoadedEdit ==
  ASSUME NEW n, NEW c
  PROVE  /\ [NoEdit EXCEPT !.pc = "activate", !.from = n, !.code = c].pc = "activate"
         /\ [NoEdit EXCEPT !.pc = "activate", !.from = n, !.code = c].from = n
         /\ [NoEdit EXCEPT !.pc = "activate", !.from = n, !.code = c].code = c
  BY Zenon DEF NoEdit

\* Loading a function for an update only reads it.
LEMMA LoadForUpdateInv ==
  ASSUME Inv, NEW e \in Editors, NEW code \in Codes, LoadForUpdate(e, code)
  PROVE  Inv'
  <1> USE VersionsAssumption DEF Inv, LoadForUpdate
  <1>1. TypeOK'  BY DEF TypeOK, Numbers
  <1>2. ActiveIsStored' /\ EachFromPrevious' /\ DeletedHasNoVersions'
    BY Zenon DEF ActiveIsStored, EachFromPrevious, DeletedHasNoVersions
  <1>3. EditFromVersion'  BY Zenon DEF EditFromVersion, ActiveIsStored, TypeOK
  <1>4. QED  BY <1>1, <1>2, <1>3, Zenon

\* The new version follows the one it was made from, or nothing is stored.
LEMMA StoreUpdateInv ==
  ASSUME Inv, NEW e \in Editors, StoreUpdate(e)
  PROVE  Inv'
  <1> USE VersionsAssumption DEF Inv, StoreUpdate, NextVersion
  <1> DEFINE n == edit[e].from + 1
  <1>0. edit[e] \in [pc : {"idle", "update", "activate", "failed"},
                     from : 0 .. MaxVersions, base : Codes, code : Codes]
    BY Zenon DEF TypeOK
  <1>1. CASE CanInsert(n)
    <2>1. /\ versions' = [k \in DOMAIN versions \cup {n} |->
                            IF k = n THEN [code |-> edit[e].code, base |-> edit[e].base]
                            ELSE versions[k]]
          /\ function' = [function EXCEPT !.active = n, !.code = edit[e].code]
          /\ edit' = [edit EXCEPT ![e] = NoEdit]
          /\ n \in Numbers /\ n \notin DOMAIN versions /\ function.exists
          /\ edits' = edits
      BY <1>1, Zenon DEF CanInsert, Activate
    <2>2. edit[e].from \in DOMAIN versions /\ edit[e].base = versions[edit[e].from].code
      BY <2>1 DEF EditFromVersion
    <2>3. TypeOK'
      <3>1. [code |-> edit[e].code, base |-> edit[e].base] \in [code : Codes, base : Codes]
        BY <1>0, Zenon
      <3>2. /\ DOMAIN versions' \subseteq Numbers
            /\ \A k \in DOMAIN versions' : versions'[k] \in [code : Codes, base : Codes]
        BY <2>1, <3>1 DEF TypeOK
      <3>3. function' \in [exists : BOOLEAN, active : Numbers, code : Codes]
        BY <1>0, <2>1, Zenon DEF TypeOK
      <3>4. edit' \in [Editors -> EditStates]
        BY <2>1, EditTypes, Zenon DEF TypeOK, EditStates
      <3>5. edits' \in 0 .. MaxEdits  BY <2>1 DEF TypeOK
      <3>6. QED  BY <3>2, <3>3, <3>4, <3>5, Zenon DEF TypeOK, EditStates
    <2>4. ActiveIsStored' /\ DeletedHasNoVersions'
      BY <2>1 DEF ActiveIsStored, DeletedHasNoVersions, TypeOK
    <2>5. EachFromPrevious'
      <3> SUFFICES ASSUME NEW m \in DOMAIN versions', m > 1
                   PROVE  /\ m - 1 \in DOMAIN versions'
                          /\ versions'[m].base = versions'[m - 1].code
        BY Zenon DEF EachFromPrevious
      <3>1. CASE m = n
        BY <1>0, <2>1, <2>2, <3>1
      <3>2. CASE m # n
        <4>1. m \in DOMAIN versions /\ m \in Nat  BY <2>1, <3>2 DEF TypeOK, Numbers
        <4>2. m - 1 \in DOMAIN versions /\ versions[m].base = versions[m - 1].code
          BY <4>1, Zenon DEF EachFromPrevious
        <4>3. m - 1 # n  BY <2>1, <4>2, Zenon
        <4>4. QED  BY <2>1, <3>2, <4>1, <4>2, <4>3, Zenon
      <3>3. QED  BY <3>1, <3>2, Zenon
    <2>6. EditFromVersion'  BY <2>1 DEF EditFromVersion, TypeOK, NoEdit
    <2>7. QED  BY <2>3, <2>4, <2>5, <2>6, Zenon
  <1>2. CASE ~CanInsert(n)
    <2> DEFINE failed == [pc |-> "failed", from |-> 0, base |-> 0, code |-> 0]
    <2>1. /\ edit' = [edit EXCEPT ![e] = failed]
          /\ UNCHANGED <<function, versions, edits>>
      <3>1. [NoEdit EXCEPT !.pc = "failed"] = failed  BY DEF NoEdit
      <3>2. QED  BY <1>2, <3>1, Zenon
    <2>2. TypeOK'  BY <2>1 DEF TypeOK
    <2>3. ActiveIsStored' /\ EachFromPrevious' /\ DeletedHasNoVersions'
      BY <2>1, Zenon DEF ActiveIsStored, EachFromPrevious, DeletedHasNoVersions
    <2>4. EditFromVersion'  BY <2>1, Zenon DEF EditFromVersion, TypeOK
    <2>5. QED  BY <2>2, <2>3, <2>4, Zenon
  <1>3. QED  BY <1>1, <1>2, Zenon

\* Loading a version for a rollback only reads it.
LEMMA LoadForRollbackInv ==
  ASSUME Inv, NEW e \in Editors, NEW n \in Numbers, LoadForRollback(e, n)
  PROVE  Inv'
  <1> USE VersionsAssumption DEF Inv, LoadForRollback
  <1> DEFINE loaded == [NoEdit EXCEPT !.pc = "activate", !.from = n, !.code = versions[n].code]
  <1>0. /\ loaded.pc = "activate" /\ loaded.from = n /\ loaded.code = versions[n].code
        /\ edit' = [edit EXCEPT ![e] = loaded]
    BY LoadedEdit
  <1>1. TypeOK'
    <2>1. versions[n].code \in Codes  BY Zenon DEF TypeOK
    <2>2. loaded \in EditStates  BY <2>1, EditTypes, Zenon
    <2> HIDE DEF loaded
    <2>3. edit' \in [Editors -> EditStates]
      <3>1. edit \in [Editors -> EditStates]  BY Zenon DEF TypeOK, EditStates
      <3>2. QED  BY <1>0, <2>2, <3>1, Zenon
    <2>4. QED  BY <2>3, Zenon DEF TypeOK, EditStates
  <1> HIDE DEF loaded
  <1>2. ActiveIsStored' /\ EachFromPrevious' /\ DeletedHasNoVersions'
    BY Zenon DEF ActiveIsStored, EachFromPrevious, DeletedHasNoVersions
  <1>3. EditFromVersion'  BY <1>0 DEF EditFromVersion, TypeOK
  <1>4. QED  BY <1>1, <1>2, <1>3, Zenon

\* A rollback activates a version that still is what was loaded.
LEMMA ActivateOldInv ==
  ASSUME Inv, NEW e \in Editors, ActivateOld(e)
  PROVE  Inv'
  <1> USE VersionsAssumption DEF Inv, ActivateOld, Activate
  <1>1. TypeOK'
    <2>1. function.exists => edit[e].from \in Numbers
      BY Zenon DEF EditFromVersion, TypeOK
    <2>2. edit[e].code \in Codes  BY Zenon DEF TypeOK
    <2>3. function' \in [exists : BOOLEAN, active : Numbers, code : Codes]
      BY <2>1, <2>2, Zenon DEF TypeOK
    <2>4. QED  BY <2>3, EditTypes, Zenon DEF TypeOK, EditStates
  <1>2. ActiveIsStored'  BY Zenon DEF ActiveIsStored, EditFromVersion, TypeOK
  <1>3. EachFromPrevious'  BY Zenon DEF EachFromPrevious
  <1>4. DeletedHasNoVersions'  BY Zenon DEF DeletedHasNoVersions, TypeOK
  <1>5. EditFromVersion'  BY Zenon DEF EditFromVersion, TypeOK, NoEdit
  <1>6. QED  BY <1>1, <1>2, <1>3, <1>4, <1>5, Zenon

\* A deleted function has no versions, and nothing is claimed of its edits.
LEMMA DeleteFunctionInv ==
  ASSUME Inv, DeleteFunction
  PROVE  Inv'
  <1> USE VersionsAssumption DEF Inv, DeleteFunction
  <1>1. TypeOK'  BY Zenon DEF TypeOK
  <1>2. function'.exists = FALSE /\ DOMAIN versions' = {}  BY Zenon DEF TypeOK
  <1>3. QED
    BY <1>1, <1>2, Zenon
    DEF ActiveIsStored, EachFromPrevious, EditFromVersion, DeletedHasNoVersions

\* Reporting an error changes neither the function nor its versions.
LEMMA DismissInv ==
  ASSUME Inv, NEW e \in Editors, Dismiss(e)
  PROVE  Inv'
  BY VersionsAssumption
  DEF Inv, Dismiss, TypeOK, ActiveIsStored, EachFromPrevious, EditFromVersion,
      DeletedHasNoVersions, NoEdit

\* Every step of the specification preserves the invariant.
LEMMA NextInv == Inv /\ [Next]_vars => Inv'
  <1> SUFFICES ASSUME Inv, [Next]_vars PROVE Inv'
    BY Zenon
  <1>1. CASE UNCHANGED vars
    BY <1>1, Zenon DEF vars, Inv, TypeOK, ActiveIsStored, EachFromPrevious, EditFromVersion,
                DeletedHasNoVersions
  <1>2. CASE Next
    BY <1>2, LoadForUpdateInv, StoreUpdateInv, LoadForRollbackInv, ActivateOldInv,
       DeleteFunctionInv, DismissInv, Zenon
    DEF Next
  <1>3. QED  BY <1>1, <1>2, Zenon

\* Inv is inductive: an editor stores what it made from the version it loaded,
\* whatever other editors store, activate or delete in between.
THEOREM VersionsInvariance == Spec => []Inv
  BY InitInv, NextInv, PTL DEF Spec

\* The row of the function always agrees with the version it names, for any
\* number of administrators (admin.rs, versions.rs, internal.rs).
THEOREM ActiveVersionStored == Spec => []ActiveIsStored
  <1>1. Inv => ActiveIsStored  BY Zenon DEF Inv
  <1>2. QED  BY <1>1, VersionsInvariance, PTL

\* Updates are never lost: update_function makes each version from the one
\* before it, or the unique version number refuses it.
THEOREM NoLostUpdate == Spec => []EachFromPrevious
  <1>1. Inv => EachFromPrevious  BY Zenon DEF Inv
  <1>2. QED  BY <1>1, VersionsInvariance, PTL

\* No update, rollback or failed request rewrites or removes a version of an
\* existing function.
THEOREM HistoryIsKept == Spec => HistoryKept
  <1>1. Inv /\ [Next]_vars =>
          [function'.exists =>
             \A n \in DOMAIN versions : n \in DOMAIN versions' /\ versions'[n] = versions[n]]_vars
    <2> DEFINE kept == function'.exists =>
                         \A n \in DOMAIN versions : n \in DOMAIN versions' /\ versions'[n] = versions[n]
    <2> SUFFICES ASSUME Inv, [Next]_vars PROVE kept
      BY Zenon
    <2>1. ASSUME NEW e \in Editors, StoreUpdate(e) PROVE kept
      BY <2>1, Zenon DEF StoreUpdate, CanInsert
    <2>2. ASSUME DeleteFunction PROVE kept
      BY <2>2, Zenon DEF DeleteFunction, Inv, TypeOK
    <2>3. ASSUME UNCHANGED versions PROVE kept
      BY <2>3, Zenon
    <2>4. QED
      BY <2>1, <2>2, <2>3, Zenon DEF Next, vars, LoadForUpdate, LoadForRollback, ActivateOld, Dismiss
  <1>2. QED  BY <1>1, VersionsInvariance, PTL DEF Spec, HistoryKept

-----------------------------------------------------------------------------
(* CodeEditor: the history, for every set of texts and every limit.        *)

EditorInv == EditorTypeOK /\ HistoryFollowsValue

(* A history that starts afresh is a sequence of one snapshot.             *)
LEMMA FreshHistory ==
    ASSUME NEW text \in Texts
    PROVE  /\ Fresh(text) \in Seq(Snapshot)
           /\ Len(Fresh(text)) = 1
           /\ Fresh(text)[1].text = text
BY EditorAssumption DEF Fresh, Snapshot

(* pushHistory leaves the new snapshot last, within the limit.             *)
LEMMA LimitedHistory ==
    ASSUME EditorInv, NEW next \in Snapshot, Limited(Append(Truncated, next))
    PROVE  /\ history' \in Seq(Snapshot)
           /\ at' \in 1 .. Len(history') /\ Len(history') <= HistoryLimit
           /\ history'[at'] = next
<1> DEFINE h == Append(Truncated, next)
<1>1. /\ Truncated \in Seq(Snapshot)
      /\ Len(Truncated) = at
  BY DEF EditorInv, EditorTypeOK, HistoryFollowsValue, Truncated
<1>2. /\ h \in Seq(Snapshot)
      /\ Len(h) = at + 1
      /\ h[at + 1] = next
  BY <1>1, at \in Nat DEF EditorInv, EditorTypeOK
<1>3. at <= HistoryLimit /\ HistoryLimit \in Nat /\ HistoryLimit >= 1 /\ at \in Nat /\ at >= 1
  BY EditorAssumption DEF EditorInv, EditorTypeOK, HistoryFollowsValue
<1> HIDE DEF h
<1>4. CASE at + 1 > HistoryLimit
  <2>1. history' = Tail(h) /\ at' = Len(history')
    BY <1>2, <1>4, Zenon DEF Limited, h
  <2>2. Tail(h) \in Seq(Snapshot) /\ Len(Tail(h)) = at /\ Tail(h)[at] = h[at + 1]
    BY <1>2, <1>3
  <2> QED BY <1>2, <1>3, <1>4, <2>1, <2>2
<1>5. CASE at + 1 <= HistoryLimit
  <2>1. history' = h /\ at' = at + 1
    BY <1>2, <1>3, <1>5 DEF Limited, h
  <2> QED BY <1>2, <1>3, <1>5, <2>1
<1> QED BY <1>3, <1>4, <1>5

(* Typing and Tab: pushHistory, or the snapshot that is there already.     *)
LEMMA TypeInv ==
    ASSUME EditorInv, NEW next \in Snapshot, Type(next)
    PROVE  EditorInv'
<1>1. value' = next.text /\ next.text \in Texts
  BY Zenon DEF Type, Snapshot
<1>2. CASE history[at] = next
  BY <1>1, <1>2, Zenon DEF Type, PushHistory, EditorInv, EditorTypeOK, HistoryFollowsValue
<1>3. CASE history[at] # next
  <2>1. Limited(Append(Truncated, next))
    BY <1>3, Zenon DEF Type, PushHistory
  <2>2. /\ history' \in Seq(Snapshot)
        /\ at' \in 1 .. Len(history') /\ Len(history') <= HistoryLimit
        /\ history'[at'] = next
    BY <2>1, LimitedHistory, Zenon
  <2> QED BY <1>1, <2>2 DEF EditorInv, EditorTypeOK, HistoryFollowsValue
<1> QED BY <1>2, <1>3, Zenon

(* Undo and redo: applyHistorySnapshot shows the snapshot it moves to.     *)
LEMMA SnapshotInv ==
    ASSUME EditorInv, NEW i \in 1 .. Len(history), ApplyHistorySnapshot(i)
    PROVE  EditorInv'
<1>1. history[i] \in Snapshot
  BY DEF EditorInv, EditorTypeOK
<1>2. history[i].text \in Texts
  BY <1>1, Zenon DEF Snapshot
<1> QED BY <1>2 DEF EditorInv, EditorTypeOK, HistoryFollowsValue, ApplyHistorySnapshot

(* The parent's text: the history is kept if it is the text at the index.  *)
LEMMA ReplaceInv ==
    ASSUME EditorInv, NEW text \in Texts, Replace(text)
    PROVE  EditorInv'
<1>1. CASE history[at].text = text
  BY <1>1, Zenon DEF Replace, EditorInv, EditorTypeOK, HistoryFollowsValue
<1>2. CASE history[at].text # text
  BY <1>2, FreshHistory, EditorAssumption DEF Replace, EditorInv, EditorTypeOK, HistoryFollowsValue
<1> QED BY <1>1, <1>2, Zenon

(* Every step of the editor keeps the invariant.                           *)
LEMMA EditorNextInv == EditorInv /\ [EditorNext]_editorVars => EditorInv'
<1> SUFFICES ASSUME EditorInv, [EditorNext]_editorVars PROVE EditorInv'
  BY Zenon
<1>1. ASSUME NEW next \in Snapshot, Type(next) PROVE EditorInv'
  BY <1>1, TypeInv, Zenon
<1>2. CASE Undo
  BY <1>2, SnapshotInv, at - 1 \in 1 .. Len(history), Zenon DEF Undo, EditorInv, EditorTypeOK, HistoryFollowsValue
<1>3. CASE Redo
  BY <1>3, SnapshotInv, at + 1 \in 1 .. Len(history), Zenon DEF Redo, EditorInv, EditorTypeOK, HistoryFollowsValue
<1>4. ASSUME NEW text \in Texts, Replace(text) PROVE EditorInv'
  BY <1>4, ReplaceInv, Zenon
<1>5. CASE UNCHANGED editorVars
  BY <1>5, Zenon DEF editorVars, EditorInv, EditorTypeOK, HistoryFollowsValue
<1> QED BY <1>1, <1>2, <1>3, <1>4, <1>5, Zenon DEF EditorNext

(* In every reachable state of the editor, for every limit, the current    *)
(* snapshot is the text shown.                                             *)
THEOREM EditorHistory == EditorSpec => []HistoryFollowsValue
<1>1. (\E text \in Texts : EditorInit(text)) => EditorInv
  <2> SUFFICES ASSUME NEW text \in Texts, EditorInit(text) PROVE EditorInv
    BY Zenon
  <2>1. value = text /\ history = Fresh(text) /\ at = 1
    BY Zenon DEF EditorInit
  <2>2. history \in Seq(Snapshot) /\ Len(history) = 1 /\ history[1].text = text
    BY <2>1, FreshHistory, Zenon
  <2> QED BY <2>1, <2>2, EditorAssumption DEF EditorInv, EditorTypeOK, HistoryFollowsValue
<1>2. EditorInv => HistoryFollowsValue
  BY Zenon DEF EditorInv
<1> QED BY <1>1, <1>2, EditorNextInv, PTL DEF EditorSpec

-----------------------------------------------------------------------------
(* FunctionsView.                                                          *)

Pending(c) == call[c].pc # "idle"
Fillers == Calls \ {"delete"}

\* Every request names a function.
RequestsNamed == \A c \in Calls : Pending(c) => call[c].name \in Names

\* While drafts are awaited one at a time, the one awaited is that of the
\* selected function, and otherwise the one that is there is.
OneDraftAwaited ==
    ~mixed =>
        /\ \A c, d \in Fillers : Pending(c) /\ Pending(d) => c = d
        /\ \A c \in Loads : Pending(c) /\ selected # NoName => call[c].name = selected
        /\ selected # NoName /\ (\A c \in Loads : ~Pending(c)) => draftOf = selected

\* An update that nothing interfered with has stored, and is answered by,
\* the text that was shown when it was made.
UpdateFaithful ==
    LET u == call["update"] IN
        /\ u.pc = "sent" => u.text = u.shown
        /\ u.pc = "stored" /\ u.clean => stored[u.name] = u.shown
        /\ u.pc = "answered" /\ u.clean /\ u.text # NoText => u.text = u.shown /\ stored[u.name] = u.shown

ViewInv ==
    /\ FunctionsTypeOK /\ HistoryFollowsValue
    /\ RequestsNamed /\ OneDraftAwaited /\ UpdateFaithful /\ SaveTakesEffect
-----------------------------------------------------------------------------
(* Requests have the names the code gives them.                            *)
LEMMA CallNames ==
    /\ {"update", "create", "delete"} \subseteq Calls /\ Loads \subseteq Fillers
    /\ {"update", "create"} \subseteq Fillers /\ Fillers \subseteq Calls
    /\ \A c \in Loads : c # "update" /\ c # "create" /\ c # "delete"
BY ViewAssumption, Zenon DEF Calls, Fillers

(* The list has a first entry unless it is empty.                          *)
LEMMA ListTyped ==
    ASSUME FunctionsTypeOK
    PROVE  List \in [names : SUBSET Names, first : Names \cup {NoName}]
<1> DEFINE existing == {name \in Names : stored[name] # NoText}
           Newest(n) == \A other \in existing : recent[n] <= recent[other]
<1>1. existing = {} \/ \E n \in existing : Newest(n)
  <2> SUFFICES ASSUME NEW e \in existing PROVE \E n \in existing : Newest(n)
    BY Zenon
  <2>1. PICK places : places = {recent[n] : n \in existing}
    BY Zenon
  <2>2. places \subseteq Nat /\ recent[e] \in places /\ \A n \in existing : recent[n] \in places /\ recent[n] \in Nat
    BY <2>1 DEF FunctionsTypeOK
  <2>3. PICK least \in places : \A other \in places : ~(<<other, least>> \in OpToRel(<, Nat))
    BY <2>2, NatLessThanWellFounded, WFMin, Zenon
  <2>4. \A other \in places : ~(other < least)
    BY <2>2, <2>3, Zenon DEF OpToRel
  <2>5. PICK n \in existing : recent[n] = least
    BY <2>1, Zenon
  <2>6. Newest(n)
    BY <2>2, <2>4, <2>5
  <2> QED
    BY <2>6, Zenon
<1>2. List = [names |-> existing,
              first |-> IF existing = {} THEN NoName ELSE CHOOSE n \in existing : Newest(n)]
  BY Zenon DEF List
<1>3. CASE existing = {}
  BY <1>2, <1>3, Zenon
<1>4. CASE existing # {}
  <2>1. (CHOOSE n \in existing : Newest(n)) \in existing
    BY <1>1, <1>4, Zenon
  <2> QED
    BY <1>2, <1>4, <2>1, Zenon
<1> QED
  BY <1>3, <1>4, Zenon

(* What is saved, deleted or loaded goes by the name of a function.        *)
LEMMA ActiveNameTyped ==
    ASSUME FunctionsTypeOK
    PROVE  ActiveName \in Names \cup {NoName} /\ (selected # NoName => ActiveName = selected)
BY Zenon DEF FunctionsTypeOK, ActiveName

(* A request changes, the others stay.                                     *)
LEMMA OneCall ==
    ASSUME FunctionsTypeOK, NEW c \in Calls, NEW new \in Requests, call' = [call EXCEPT ![c] = new]
    PROVE  /\ call' \in [Calls -> Requests] /\ call'[c] = new
           /\ \A d \in Calls \ {c} : call'[d] = call[d]
BY Zenon DEF FunctionsTypeOK

(* A request that is idle.                                                 *)
LEMMA IdleTyped == Idle \in Requests /\ Idle.pc = "idle" /\ Idle.clean = TRUE
BY Zenon DEF Idle, Requests

-----------------------------------------------------------------------------
\* The requests move on without beginning or ending.
CallsContinue ==
    \A c \in Calls : call'[c].name = call[c].name /\ (call'[c].pc = "idle" <=> call[c].pc = "idle")

(* Such a step keeps what is known of the drafts.                          *)
LEMMA DraftsContinue ==
    ASSUME ViewInv, CallsContinue, UNCHANGED <<selected, draftOf, mixed>>
    PROVE  RequestsNamed' /\ OneDraftAwaited'
<1>1. Loads \subseteq Calls /\ Fillers \subseteq Calls
  BY CallNames, Zenon
<1>2. RequestsNamed'
  BY Zenon DEF ViewInv, CallsContinue, RequestsNamed, Pending
<1>3. OneDraftAwaited'
  BY <1>1, Zenon DEF ViewInv, CallsContinue, OneDraftAwaited, Pending, Fillers, Calls
<1> QED
  BY <1>2, <1>3, Zenon

(* The form and the list are used; no request is made or answered.         *)
LEMMA FormInv ==
    ASSUME ViewInv, Edit \/ RefreshList \/ RefreshDetail \/ LoadDraft
    PROVE  ViewInv'
<1> USE DEF ViewInv
<1>1. UNCHANGED <<stored, recent, foreign, selected, call, calls, mixed>>
  BY Zenon DEF Edit, RefreshList, RefreshDetail, LoadDraft, serverVars, auxVars
<1>2. EditorInv' /\ (Edit \/ LoadDraft \/ UNCHANGED editorVars)
  <2>1. CASE Edit
    <3>1. [EditorNext]_editorVars
      BY <2>1, Zenon DEF Edit, EditorNext
    <3> QED
      BY <2>1, <3>1, EditorNextInv, Zenon DEF EditorInv, FunctionsTypeOK
  <2>2. CASE LoadDraft
    <3>1. Replace(detail[ActiveName]) /\ detail[ActiveName] # NoText /\ ActiveName \in Names
      BY <2>2, ActiveNameTyped, Zenon DEF LoadDraft, ApplyFunctionDraft
    <3>2. PICK text : text = detail[ActiveName]
      BY Zenon
    <3>3. text \in Texts /\ Replace(text)
      BY <3>1, <3>2, Zenon DEF FunctionsTypeOK
    <3> QED
      BY <2>2, <3>3, ReplaceInv, Zenon DEF EditorInv, FunctionsTypeOK
  <2>3. CASE RefreshList \/ RefreshDetail
    BY <2>3, Zenon DEF RefreshList, RefreshDetail, editorVars, EditorInv, EditorTypeOK, HistoryFollowsValue,
                FunctionsTypeOK
  <2> QED
    BY <2>1, <2>2, <2>3, Zenon
<1>3. listed' \in [names : SUBSET Names, first : Names \cup {NoName}]
  BY ListTyped, Zenon DEF Edit, RefreshList, RefreshDetail, LoadDraft, cacheVars, FunctionsTypeOK
<1>4. detail' \in [Names -> Texts \cup {NoText}]
  <2>1. CASE RefreshDetail
    <3>1. ActiveName \in Names /\ detail' = [detail EXCEPT ![ActiveName] = stored[ActiveName]]
      BY <2>1, ActiveNameTyped, Zenon DEF RefreshDetail
    <3> QED
      BY <3>1, Zenon DEF FunctionsTypeOK
  <2>2. CASE ~RefreshDetail
    BY <2>2, Zenon DEF Edit, RefreshList, LoadDraft, cacheVars, FunctionsTypeOK
  <2> QED
    BY <2>1, <2>2, Zenon
<1>5. draftOf' \in Names \cup {NoName} /\ saved' \in Texts \cup {NoText}
  BY ActiveNameTyped, Zenon DEF Edit, RefreshList, RefreshDetail, LoadDraft, ApplyFunctionDraft, auxVars, FunctionsTypeOK
<1>6. FunctionsTypeOK'
  BY <1>1, <1>2, <1>3, <1>4, <1>5, Zenon DEF FunctionsTypeOK, EditorInv
<1>7. RequestsNamed' /\ OneDraftAwaited'
  <2>1. CASE draftOf' = draftOf
    BY <1>1, <2>1, DraftsContinue, Zenon DEF CallsContinue
  <2>2. CASE LoadDraft
    <3>1. selected # NoName => draftOf' = selected
      BY <2>2, ActiveNameTyped, Zenon DEF LoadDraft, ApplyFunctionDraft
    <3> QED
      BY <1>1, <3>1, Zenon DEF RequestsNamed, OneDraftAwaited, Pending, Fillers, Calls
  <2> QED
    BY <2>1, <2>2, Zenon DEF Edit, RefreshList, RefreshDetail, auxVars
<1>8. UpdateFaithful'
  BY <1>1, Zenon DEF UpdateFaithful
<1>9. SaveTakesEffect'
  BY <1>1, Zenon DEF SaveTakesEffect, Edit, RefreshList, RefreshDetail, LoadDraft, auxVars, editorVars
<1> QED
  BY <1>2, <1>6, <1>7, <1>8, <1>9, Zenon DEF EditorInv

(* A request is sent with the name of a function.                          *)
LEMMA SendFacts ==
    ASSUME ViewInv, NEW c \in Calls, NEW name \in Names, NEW text \in Texts \cup {NoText},
           Send(c, name, text)
    PROVE  /\ call' \in [Calls -> Requests] /\ calls' \in 0 .. MaxCalls
           /\ call[c].pc = "idle" /\ \A d \in Calls \ {c} : call'[d] = call[d]
           /\ call'[c].pc = "sent" /\ call'[c].name = name /\ call'[c].text = text
           /\ c = "update" => call'[c].shown = value
           /\ RequestsNamed'
<1>1. PICK new : new = [pc |-> "sent", name |-> name, text |-> text, clean |-> TRUE,
                        shown |-> IF c = "update" THEN value ELSE NoText]
  BY Zenon
<1>2. value \in Texts
  BY Zenon DEF ViewInv, FunctionsTypeOK, EditorTypeOK
<1>3. new \in Requests
  BY <1>1, <1>2, Zenon DEF Requests
<1>4. call' = [call EXCEPT ![c] = new] /\ call[c].pc = "idle"
  BY <1>1, Zenon DEF Send
<1>5. call' \in [Calls -> Requests] /\ call'[c] = new /\ \A d \in Calls \ {c} : call'[d] = call[d]
  BY <1>3, <1>4, OneCall, Zenon DEF ViewInv
<1>6. calls' \in 0 .. MaxCalls
  BY ViewAssumption DEF Send, ViewInv, FunctionsTypeOK
<1>7. RequestsNamed'
  BY <1>1, <1>5 DEF ViewInv, RequestsNamed, Pending
<1> QED
  BY <1>1, <1>4, <1>5, <1>6, <1>7, Zenon

(* A function is selected, and its draft awaited.                          *)
LEMMA SelectInv ==
    ASSUME ViewInv, NEW c \in Loads, NEW name \in Names, SelectFunction(c, name)
    PROVE  ViewInv'
<1> USE DEF ViewInv
<1>1. /\ selected' = name /\ Send(c, name, NoText) /\ mixed' = Filling /\ saved' = NoText
      /\ UNCHANGED <<editorVars, serverVars, cacheVars, draftOf>>
  BY Zenon DEF SelectFunction
<1>2. c \in Calls /\ c \in Fillers /\ c # "update" /\ "update" \in Calls
  BY CallNames, Zenon
<1>3. /\ call' \in [Calls -> Requests] /\ calls' \in 0 .. MaxCalls
      /\ call[c].pc = "idle" /\ \A d \in Calls \ {c} : call'[d] = call[d]
      /\ call'[c].pc = "sent" /\ call'[c].name = name
      /\ RequestsNamed'
  BY <1>1, <1>2, SendFacts, Zenon
<1>4. mixed' \in BOOLEAN
  BY <1>1, Zenon DEF Filling
<1>5. FunctionsTypeOK' /\ HistoryFollowsValue'
  BY <1>1, <1>3, <1>4, Zenon DEF FunctionsTypeOK, EditorTypeOK, HistoryFollowsValue, editorVars, serverVars, cacheVars
<1>6. OneDraftAwaited'
  <2> SUFFICES ASSUME ~mixed' PROVE OneDraftAwaited'
    BY Zenon DEF OneDraftAwaited
  <2>1. \A d \in Fillers : call[d].pc = "idle"
    BY <1>1, Zenon DEF Filling, Fillers
  <2>2. \A d \in Fillers : Pending(d)' => d = c
    BY <1>3, <2>1, CallNames, Zenon DEF Pending
  <2> QED
    BY <1>1, <1>2, <1>3, <2>2, CallNames, Zenon DEF OneDraftAwaited, Pending, Fillers, Calls
<1>7. UpdateFaithful'
  BY <1>1, <1>2, <1>3, Zenon DEF UpdateFaithful, serverVars
<1>8. SaveTakesEffect'
  BY <1>1, Zenon DEF SaveTakesEffect
<1> QED
  BY <1>3, <1>5, <1>6, <1>7, <1>8, Zenon

(* A save or a creation is sent.                                           *)
LEMMA SaveInv ==
    ASSUME ViewInv, Save \/ \E name \in Names : Create(name)
    PROVE  ViewInv'
<1> USE DEF ViewInv
<1>1. /\ mixed' = (mixed \/ Filling) /\ saved' = NoText
      /\ UNCHANGED <<editorVars, serverVars, selected, cacheVars, draftOf>>
  BY Zenon DEF Save, Create
<1>2. \E c \in {"update", "create"}, name \in Names : Send(c, name, value)
  BY ActiveNameTyped, Zenon DEF Save, Create, SentText
<1>3. PICK c \in {"update", "create"}, name \in Names : Send(c, name, value)
  BY <1>2, Zenon
<1>4. c \in Calls /\ c \in Fillers /\ c \notin Loads /\ "update" \in Calls
  BY CallNames, Zenon
<1>5. PICK text \in Texts : text = value
  BY Zenon DEF FunctionsTypeOK, EditorTypeOK
<1>6. /\ call' \in [Calls -> Requests] /\ calls' \in 0 .. MaxCalls
      /\ call[c].pc = "idle" /\ \A d \in Calls \ {c} : call'[d] = call[d]
      /\ call'[c].pc = "sent" /\ call'[c].name = name /\ call'[c].text = value
      /\ c = "update" => call'[c].shown = value
      /\ RequestsNamed'
  BY <1>3, <1>4, <1>5, SendFacts, Zenon
<1>7. mixed' \in BOOLEAN
  BY <1>1, Zenon DEF Filling
<1>8. FunctionsTypeOK' /\ HistoryFollowsValue'
  BY <1>1, <1>6, <1>7, Zenon DEF FunctionsTypeOK, EditorTypeOK, HistoryFollowsValue, editorVars, serverVars, cacheVars
<1>9. OneDraftAwaited'
  <2> SUFFICES ASSUME ~mixed' PROVE OneDraftAwaited'
    BY Zenon DEF OneDraftAwaited
  <2>1. ~mixed /\ \A d \in Fillers : call[d].pc = "idle"
    BY <1>1, Zenon DEF Filling, Fillers
  <2>2. \A d \in Fillers : Pending(d)' => d = c
    BY <1>6, <2>1, CallNames, Zenon DEF Pending
  <2>3. \A d \in Loads : ~Pending(d)' /\ ~Pending(d)
    BY <1>4, <2>1, <2>2, CallNames, Zenon DEF Pending
  <2> QED
    BY <1>1, <2>1, <2>2, <2>3, Zenon DEF OneDraftAwaited, Fillers, Calls
<1>10. UpdateFaithful'
  BY <1>1, <1>4, <1>6, Zenon DEF UpdateFaithful, serverVars
<1>11. SaveTakesEffect'
  BY <1>1, Zenon DEF SaveTakesEffect
<1> QED
  BY <1>6, <1>8, <1>9, <1>10, <1>11, Zenon

(* A deletion is sent.                                                     *)
LEMMA DeleteInv ==
    ASSUME ViewInv, Delete
    PROVE  ViewInv'
<1> USE DEF ViewInv
<1>1. UNCHANGED <<editorVars, serverVars, selected, cacheVars, auxVars>>
  BY Zenon DEF Delete
<1>2. PICK name \in Names : Send("delete", name, NoText)
  BY ActiveNameTyped, Zenon DEF Delete
<1>3. "delete" \in Calls /\ "delete" \notin Fillers /\ "update" \in Calls
  BY CallNames, Zenon DEF Fillers
<1>4. /\ call' \in [Calls -> Requests] /\ calls' \in 0 .. MaxCalls
      /\ \A d \in Calls \ {"delete"} : call'[d] = call[d]
      /\ RequestsNamed'
  BY <1>2, <1>3, SendFacts, Zenon
<1>5. FunctionsTypeOK' /\ HistoryFollowsValue'
  BY <1>1, <1>4, Zenon DEF FunctionsTypeOK, EditorTypeOK, HistoryFollowsValue, editorVars, serverVars, cacheVars, auxVars
<1>6. OneDraftAwaited'
  <2>1. \A d \in Fillers : call'[d] = call[d]
    BY <1>4, Zenon DEF Fillers
  <2> QED
    BY <1>1, <2>1, CallNames, Zenon DEF OneDraftAwaited, Pending, auxVars, Fillers, Calls
<1>7. UpdateFaithful'
  BY <1>1, <1>3, <1>4, Zenon DEF UpdateFaithful, serverVars
<1>8. SaveTakesEffect'
  BY <1>1, Zenon DEF SaveTakesEffect, editorVars, serverVars, auxVars
<1> QED
  BY <1>4, <1>5, <1>6, <1>7, <1>8, Zenon

-----------------------------------------------------------------------------
(* A function that is touched takes the first place.                       *)
LEMMA TouchTyped ==
    ASSUME FunctionsTypeOK, NEW name \in Names, Touch(name)
    PROVE  recent' \in [Names -> 1 .. Cardinality(Names)]
<1>1. Cardinality(Names) \in Nat
  BY ViewAssumption, FS_CardinalityType, Zenon
<1>2. \A n \in Names : recent[n] \in 1 .. Cardinality(Names)
  BY Zenon DEF FunctionsTypeOK
<1> QED
  BY <1>1, <1>2 DEF Touch

(* The answer to a request that was pending.                               *)
LEMMA AnswerFacts ==
    ASSUME ViewInv, NEW c \in Calls, NEW text \in Texts \cup {NoText}, Answer(c, text), Pending(c)
    PROVE  /\ call' \in [Calls -> Requests] /\ CallsContinue
           /\ \A d \in Calls \ {c} : call'[d] = call[d]
           /\ call'[c].pc = "answered" /\ call'[c].text = text
           /\ call'[c].clean = call[c].clean /\ call'[c].shown = call[c].shown
<1>1. PICK new : new = [call[c] EXCEPT !.pc = "answered", !.text = text]
  BY Zenon
<1>2. call[c] \in Requests
  BY Zenon DEF ViewInv, FunctionsTypeOK
<1>3. /\ new \in Requests /\ new.pc = "answered" /\ new.text = text /\ new.name = call[c].name
      /\ new.clean = call[c].clean /\ new.shown = call[c].shown
  BY <1>1, <1>2, Zenon DEF Requests
<1>4. call' = [call EXCEPT ![c] = new]
  BY <1>1, Zenon DEF Answer
<1>5. call' \in [Calls -> Requests] /\ call'[c] = new /\ \A d \in Calls \ {c} : call'[d] = call[d]
  BY <1>3, <1>4, OneCall, Zenon DEF ViewInv
<1> QED
  BY <1>3, <1>5, Zenon DEF CallsContinue, Pending

(* The server answers, having changed nothing or changed it before.        *)
LEMMA AnswerInv ==
    ASSUME ViewInv, NEW c \in Calls, NEW text \in Texts \cup {NoText}, Answer(c, text), Pending(c),
           UNCHANGED <<editorVars, serverVars, selected, cacheVars, calls, auxVars>>,
           \/ c # "update"
           \/ text = NoText
           \/ call[c].pc = "stored" /\ text = stored[call[c].name]
    PROVE  ViewInv'
<1> USE DEF ViewInv
<1>1. /\ call' \in [Calls -> Requests] /\ CallsContinue
      /\ \A d \in Calls \ {c} : call'[d] = call[d]
      /\ call'[c].pc = "answered" /\ call'[c].text = text
      /\ call'[c].clean = call[c].clean /\ call'[c].shown = call[c].shown
  BY AnswerFacts, Zenon
<1>2. FunctionsTypeOK' /\ HistoryFollowsValue'
  BY <1>1, Zenon DEF FunctionsTypeOK, EditorTypeOK, HistoryFollowsValue, editorVars, serverVars, cacheVars, auxVars
<1>3. RequestsNamed' /\ OneDraftAwaited'
  BY <1>1, DraftsContinue, Zenon DEF auxVars
<1>4. UpdateFaithful'
  BY <1>1, CallNames DEF UpdateFaithful, serverVars, CallsContinue
<1>5. SaveTakesEffect'
  BY Zenon DEF SaveTakesEffect, editorVars, serverVars, auxVars
<1> QED
  BY <1>2, <1>3, <1>4, <1>5, Zenon

(* What a change of a function by a request of this view does to the       *)
(* requests.                                                               *)
LEMMA StoreFacts ==
    ASSUME ViewInv, NEW name, NEW text, NEW by \in {"update", "create", "delete"}, Store(name, text, by), Pending(by)
    PROVE  /\ call' \in [Calls -> Requests] /\ CallsContinue
           /\ \A c \in Calls : /\ call'[c].text = call[c].text /\ call'[c].shown = call[c].shown
                               /\ c # by => call'[c].pc = call[c].pc
           /\ call'[by].pc = "stored" /\ call'["update"].clean = (by = "update")
<1>1. by \in Calls /\ "update" \in Calls
  BY CallNames, Zenon
<1>2. PICK mid : mid = [call EXCEPT ![by].pc = "stored"]
  BY Zenon
<1>3. /\ mid \in [Calls -> Requests] /\ mid[by].pc = "stored"
      /\ \A c \in Calls : /\ mid[c].name = call[c].name /\ mid[c].text = call[c].text
                          /\ mid[c].shown = call[c].shown /\ (c # by => mid[c].pc = call[c].pc)
  <2>1. PICK new : new = [call[by] EXCEPT !.pc = "stored"]
    BY Zenon
  <2>2. call[by] \in Requests
    BY <1>1, Zenon DEF ViewInv, FunctionsTypeOK
  <2>3. /\ new \in Requests /\ new.pc = "stored" /\ new.name = call[by].name
        /\ new.text = call[by].text /\ new.shown = call[by].shown
    BY <2>1, <2>2, Zenon DEF Requests
  <2>4. mid = [call EXCEPT ![by] = new]
    BY <1>2, <2>1, Zenon
  <2> QED
    BY <1>1, <2>3, <2>4, Zenon DEF ViewInv, FunctionsTypeOK
<1>4. call' = [mid EXCEPT !["update"].clean = (by = "update")]
  BY <1>2, Zenon DEF Store
<1>5. PICK new : new = [mid["update"] EXCEPT !.clean = (by = "update")]
  BY Zenon
<1>6. /\ new \in Requests /\ new.clean = (by = "update") /\ new.name = mid["update"].name
      /\ new.pc = mid["update"].pc /\ new.text = mid["update"].text /\ new.shown = mid["update"].shown
  <2>1. mid["update"] \in Requests /\ (by = "update") \in BOOLEAN
    BY <1>1, <1>3, Zenon
  <2> QED
    BY <1>5, <2>1, Zenon DEF Requests
<1>7. call' = [mid EXCEPT !["update"] = new]
  BY <1>4, <1>5, Zenon
<1>8. /\ call' \in [Calls -> Requests] /\ call'["update"] = new
      /\ \A c \in Calls \ {"update"} : call'[c] = mid[c]
  BY <1>1, <1>3, <1>6, <1>7, Zenon
<1>9. \A c \in Calls : /\ call'[c].text = call[c].text /\ call'[c].shown = call[c].shown
                       /\ call'[c].name = call[c].name /\ call'[c].pc = mid[c].pc
  BY <1>3, <1>6, <1>8
<1> QED
  BY <1>1, <1>3, <1>6, <1>8, <1>9 DEF CallsContinue, Pending

(* A request of this view changes a function.                              *)
LEMMA StoreInv ==
    ASSUME ViewInv, NEW name \in Names, NEW text \in Texts \cup {NoText},
           NEW by \in {"update", "create", "delete"}, Store(name, text, by), Pending(by),
           by = "update" => /\ call[by].pc = "sent" /\ name = call[by].name /\ text = call[by].text,
           UNCHANGED <<editorVars, foreign, selected, cacheVars, calls, draftOf, mixed>>
    PROVE  ViewInv'
<1> USE DEF ViewInv
<1>1. /\ call' \in [Calls -> Requests] /\ CallsContinue
      /\ \A c \in Calls : /\ call'[c].text = call[c].text /\ call'[c].shown = call[c].shown
                          /\ c # by => call'[c].pc = call[c].pc
      /\ call'[by].pc = "stored" /\ call'["update"].clean = (by = "update")
  BY StoreFacts, Zenon
<1>2. stored' = [stored EXCEPT ![name] = text] /\ saved' = NoText /\ Touch(name)
  BY Zenon DEF Store
<1>3. stored' \in [Names -> Texts \cup {NoText}] /\ stored'[name] = text
  BY <1>2, Zenon DEF FunctionsTypeOK
<1>4. recent' \in [Names -> 1 .. Cardinality(Names)]
  BY <1>2, TouchTyped, Zenon
<1>5. FunctionsTypeOK' /\ HistoryFollowsValue'
  BY <1>1, <1>2, <1>3, <1>4, Zenon DEF FunctionsTypeOK, EditorTypeOK, HistoryFollowsValue, editorVars, cacheVars
<1>6. RequestsNamed' /\ OneDraftAwaited'
  BY <1>1, DraftsContinue, Zenon
<1>7. UpdateFaithful'
  <2>1. "update" \in Calls
    BY CallNames, Zenon
  <2>2. CASE by = "update"
    BY <1>1, <1>3, <2>1, <2>2 DEF UpdateFaithful, CallsContinue
  <2>3. CASE by # "update"
    BY <1>1, <2>1, <2>3, Zenon DEF UpdateFaithful, CallsContinue
  <2> QED
    BY <2>2, <2>3, Zenon
<1>8. SaveTakesEffect'
  BY <1>2, Zenon DEF SaveTakesEffect
<1> QED
  BY <1>5, <1>6, <1>7, <1>8, Zenon

(* Another administrator changes a function.                               *)
LEMMA ForeignInv ==
    ASSUME ViewInv, NEW name \in Names, ChangedElsewhere(name)
    PROVE  ViewInv'
<1> USE DEF ViewInv
<1>1. /\ call' = [call EXCEPT !["update"].clean = FALSE] /\ saved' = NoText /\ Touch(name)
      /\ UNCHANGED <<editorVars, selected, cacheVars, calls, draftOf, mixed>>
  BY Zenon DEF ChangedElsewhere
<1>2. foreign' \in 0 .. MaxForeign
  BY ViewAssumption DEF ChangedElsewhere, FunctionsTypeOK
<1>3. stored' \in [Names -> Texts \cup {NoText}]
  BY Zenon DEF ChangedElsewhere, FunctionsTypeOK
<1>4. recent' \in [Names -> 1 .. Cardinality(Names)]
  BY <1>1, TouchTyped, Zenon
<1>5. PICK new : new = [call["update"] EXCEPT !.clean = FALSE]
  BY Zenon
<1>6. "update" \in Calls /\ call["update"] \in Requests
  BY CallNames, Zenon DEF FunctionsTypeOK
<1>7. /\ new \in Requests /\ new.clean = FALSE /\ new.name = call["update"].name
      /\ new.pc = call["update"].pc /\ new.text = call["update"].text /\ new.shown = call["update"].shown
  BY <1>5, <1>6, Zenon DEF Requests
<1>8. call' = [call EXCEPT !["update"] = new]
  BY <1>1, <1>5, Zenon
<1>9. /\ call' \in [Calls -> Requests] /\ call'["update"] = new
      /\ \A d \in Calls \ {"update"} : call'[d] = call[d]
  BY <1>6, <1>7, <1>8, OneCall, Zenon
<1>10. FunctionsTypeOK' /\ HistoryFollowsValue'
  BY <1>1, <1>2, <1>3, <1>4, <1>9, Zenon DEF FunctionsTypeOK, EditorTypeOK, HistoryFollowsValue, editorVars, cacheVars
<1>11. RequestsNamed' /\ OneDraftAwaited'
  BY <1>1, <1>7, <1>9, DraftsContinue, Zenon DEF CallsContinue
<1>12. UpdateFaithful'
  BY <1>7, <1>9, Zenon DEF UpdateFaithful
<1>13. SaveTakesEffect'
  BY <1>1, Zenon DEF SaveTakesEffect
<1> QED
  BY <1>10, <1>11, <1>12, <1>13, Zenon

(* The server's part of the requests.                                      *)
LEMMA ServerInv ==
    ASSUME ViewInv,
           \/ \E c \in Loads : AnswerLoad(c)
           \/ ExecuteUpdate \/ AnswerUpdate \/ ExecuteCreate \/ AnswerCreate \/ ExecuteDelete
    PROVE  ViewInv'
<1>1. \A c \in Calls : call[c] \in Requests /\ (Pending(c) => call[c].name \in Names)
  BY Zenon DEF ViewInv, FunctionsTypeOK, RequestsNamed
<1>2. \A c \in Calls : call[c].text \in Texts \cup {NoText}
  BY <1>1, Zenon DEF Requests
<1>3. /\ \A name \in Names : stored[name] \in Texts \cup {NoText}
      /\ "update" \in Calls /\ "create" \in Calls /\ "delete" \in Calls /\ Loads \subseteq Calls
  BY CallNames, Zenon DEF ViewInv, FunctionsTypeOK
<1>4. ASSUME NEW c \in Calls, NEW pc \in {"sent", "stored"}, call[c].pc = pc, Answer(c, stored[call[c].name]),
             UNCHANGED <<editorVars, serverVars, selected, cacheVars, calls, auxVars>>,
             c # "update" \/ pc = "stored"
      PROVE  ViewInv'
  <2>1. Pending(c) /\ call[c].name \in Names
    BY <1>1, <1>4, Zenon DEF Pending
  <2>2. PICK text : text = stored[call[c].name]
    BY Zenon
  <2>3. text \in Texts \cup {NoText} /\ Answer(c, text)
    BY <1>3, <1>4, <2>1, <2>2, Zenon
  <2> QED
    BY <1>4, <2>1, <2>2, <2>3, AnswerInv, Zenon
<1>5. ASSUME NEW c \in Loads, AnswerLoad(c) PROVE ViewInv'
  <2>1. c \in Calls /\ c # "update"
    BY CallNames, Zenon
  <2> QED
    BY <1>4, <1>5, <2>1, Zenon DEF AnswerLoad
<1>6. CASE AnswerUpdate
  BY <1>3, <1>4, <1>6, Zenon DEF AnswerUpdate
<1>7. CASE AnswerCreate
  BY <1>3, <1>4, <1>7, Zenon DEF AnswerCreate
<1>8. ASSUME NEW c \in {"update", "create"}, call[c].pc = "sent", Answer(c, NoText),
             UNCHANGED <<stored, recent, saved>>,
             UNCHANGED <<editorVars, foreign, selected, cacheVars, calls, draftOf, mixed>>
      PROVE  ViewInv'
  <2>1. Pending(c) /\ c \in Calls
    BY <1>3, <1>8, Zenon DEF Pending
  <2>2. UNCHANGED <<editorVars, serverVars, selected, cacheVars, calls, auxVars>>
    BY <1>8, Zenon DEF serverVars, auxVars
  <2> QED
    BY <1>8, <2>1, <2>2, AnswerInv, Zenon
<1>9. ASSUME NEW by \in {"update", "create", "delete"}, call[by].pc = "sent",
             NEW text, text = IF by = "delete" THEN NoText ELSE call[by].text,
             Store(call[by].name, text, by),
             UNCHANGED <<editorVars, foreign, selected, cacheVars, calls, draftOf, mixed>>
      PROVE  ViewInv'
  <2>1. Pending(by) /\ by \in Calls /\ text \in Texts \cup {NoText}
    BY <1>2, <1>3, <1>9, Zenon DEF Pending
  <2>2. PICK name : name = call[by].name
    BY Zenon
  <2>3. name \in Names /\ Store(name, text, by)
    BY <1>1, <1>9, <2>1, <2>2, Zenon
  <2>4. by = "update" => call[by].pc = "sent" /\ name = call[by].name /\ text = call[by].text
    BY <1>9, <2>2, Zenon
  <2> QED
    BY <1>9, <2>1, <2>3, <2>4, StoreInv, Zenon
<1>10. CASE ExecuteUpdate
  <2>1. CASE Store(call["update"].name, call["update"].text, "update")
    <3>1. PICK text : text = call["update"].text
      BY Zenon
    <3> QED
      BY <1>9, <1>10, <2>1, <3>1, Zenon DEF ExecuteUpdate
  <2>2. CASE Answer("update", NoText) /\ UNCHANGED <<stored, recent, saved>>
    BY <1>8, <1>10, <2>2, Zenon DEF ExecuteUpdate
  <2> QED
    BY <1>10, <2>1, <2>2, Zenon DEF ExecuteUpdate
<1>11. CASE ExecuteCreate
  <2>1. CASE Store(call["create"].name, call["create"].text, "create")
    <3>1. PICK text : text = call["create"].text
      BY Zenon
    <3> QED
      BY <1>9, <1>11, <2>1, <3>1, Zenon DEF ExecuteCreate
  <2>2. CASE Answer("create", NoText) /\ UNCHANGED <<stored, recent, saved>>
    BY <1>8, <1>11, <2>2, Zenon DEF ExecuteCreate
  <2> QED
    BY <1>11, <2>1, <2>2, Zenon DEF ExecuteCreate
<1>12. CASE ExecuteDelete
  BY <1>9, <1>12, Zenon DEF ExecuteDelete
<1> QED
  BY <1>5, <1>6, <1>7, <1>10, <1>11, <1>12, Zenon

-----------------------------------------------------------------------------
(* A request ends.                                                         *)
LEMMA EndFacts ==
    ASSUME ViewInv, NEW c \in Calls, call' = [call EXCEPT ![c] = Idle]
    PROVE  /\ call' \in [Calls -> Requests] /\ \A d \in Calls \ {c} : call'[d] = call[d]
           /\ call'[c].pc = "idle" /\ RequestsNamed'
           /\ stored' = stored => UpdateFaithful'
<1>1. PICK new \in Requests : new = Idle /\ new.pc = "idle"
  BY IdleTyped, Zenon
<1>2. call' \in [Calls -> Requests] /\ call'[c] = new /\ \A d \in Calls \ {c} : call'[d] = call[d]
  BY <1>1, OneCall, Zenon DEF ViewInv
<1>3. RequestsNamed'
  BY <1>1, <1>2, Zenon DEF ViewInv, RequestsNamed, Pending
<1>4. ASSUME stored' = stored PROVE UpdateFaithful'
  <2>1. call'["update"].pc = "idle" \/ call'["update"] = call["update"]
    BY <1>1, <1>2, CallNames, Zenon
  <2> QED
    BY <1>4, <2>1, Zenon DEF ViewInv, UpdateFaithful
<1> QED
  BY <1>1, <1>2, <1>3, <1>4, Zenon

(* A draft that was awaited replaces the text, as that of name.  The       *)
(* answer to a load leaves the selection, one to a mutation sets it.       *)
LEMMA AppliedInv ==
    ASSUME ViewInv, NEW c \in Fillers, call[c].pc = "answered", call' = [call EXCEPT ![c] = Idle],
           call[c].text # NoText, ApplyFunctionDraft(call[c].name, call[c].text),
           \/ c \in Loads /\ selected' = selected
           \/ c \in {"update", "create"} /\ selected' = call[c].name,
           saved' \in {NoText, call[c].shown}, saved' # NoText => c = "update" /\ call[c].clean,
           UNCHANGED <<serverVars, cacheVars, calls, mixed>>
    PROVE  ViewInv'
<1> USE DEF ViewInv
<1>1. c \in Calls /\ call[c] \in Requests /\ call[c].name \in Names
  BY CallNames, Zenon DEF FunctionsTypeOK, RequestsNamed, Pending
<1>2. call[c].text \in Texts /\ call[c].shown \in Texts \cup {NoText}
  BY <1>1, Zenon DEF Requests
<1>3. /\ call' \in [Calls -> Requests] /\ \A d \in Calls \ {c} : call'[d] = call[d]
      /\ call'[c].pc = "idle" /\ RequestsNamed' /\ UpdateFaithful'
  BY <1>1, EndFacts, Zenon DEF serverVars
<1>4. PICK text \in Texts : text = call[c].text
  BY <1>2, Zenon
<1>5. Replace(text) /\ draftOf' = call[c].name
  BY <1>4, Zenon DEF ApplyFunctionDraft
<1>6. EditorInv' /\ value' = text
  BY <1>5, ReplaceInv, Zenon DEF EditorInv, FunctionsTypeOK, Replace
<1>7. FunctionsTypeOK' /\ HistoryFollowsValue'
  BY <1>1, <1>2, <1>3, <1>5, <1>6, Zenon DEF EditorInv, FunctionsTypeOK, serverVars, cacheVars
<1>8. OneDraftAwaited'
  <2> SUFFICES ASSUME ~mixed' PROVE OneDraftAwaited'
    BY Zenon DEF OneDraftAwaited
  <2>1. \A d \in Fillers : Pending(d) => d = c
    BY Zenon DEF OneDraftAwaited, Pending
  <2>2. \A d \in Fillers : ~Pending(d)'
    BY <1>3, <2>1, CallNames, Zenon DEF Pending
  <2>3. selected' # NoName => draftOf' = selected'
    BY <1>5, Zenon DEF OneDraftAwaited, Pending
  <2> QED
    BY <2>2, <2>3, CallNames, Zenon DEF OneDraftAwaited, Fillers, Calls
<1>9. SaveTakesEffect'
  <2> SUFFICES ASSUME saved' # NoText
               PROVE  value' = saved' /\ selected' = draftOf' /\ stored'[selected'] = saved'
    BY Zenon DEF SaveTakesEffect
  <2>1. c = "update" /\ call[c].clean /\ saved' = call[c].shown
    BY Zenon
  <2>2. call[c].text = call[c].shown /\ stored[call[c].name] = call[c].shown
    BY <2>1, Zenon DEF UpdateFaithful
  <2>3. selected' = call[c].name
    BY <2>1, CallNames, Zenon
  <2> QED
    BY <1>4, <1>5, <1>6, <2>1, <2>2, <2>3, Zenon DEF serverVars
<1> QED
  BY <1>3, <1>7, <1>8, <1>9, Zenon

(* A request ends without a draft.                                         *)
LEMMA DroppedInv ==
    ASSUME ViewInv, NEW c \in Calls, call' = [call EXCEPT ![c] = Idle],
           mixed' \in BOOLEAN, mixed => mixed', c \in Loads => mixed',
           UNCHANGED <<editorVars, serverVars, selected, cacheVars, calls, draftOf>>,
           saved' \in {NoText, saved}
    PROVE  ViewInv'
<1> USE DEF ViewInv
<1>1. /\ call' \in [Calls -> Requests] /\ \A d \in Calls \ {c} : call'[d] = call[d]
      /\ call'[c].pc = "idle" /\ RequestsNamed' /\ UpdateFaithful'
  BY EndFacts, Zenon DEF serverVars
<1>2. saved' \in Texts \cup {NoText}
  BY Zenon DEF FunctionsTypeOK
<1>3. FunctionsTypeOK' /\ HistoryFollowsValue'
  BY <1>1, <1>2, Zenon DEF FunctionsTypeOK, EditorTypeOK, HistoryFollowsValue, editorVars, serverVars, cacheVars
<1>4. OneDraftAwaited'
  <2> SUFFICES ASSUME ~mixed' PROVE OneDraftAwaited'
    BY Zenon DEF OneDraftAwaited
  <2>1. ~mixed /\ c \notin Loads
    BY Zenon
  <2>2. \A d \in Loads : call'[d] = call[d]
    BY <1>1, <2>1, CallNames, Zenon
  <2>3. \A d \in Fillers : Pending(d)' => Pending(d)
    BY <1>1, CallNames, Zenon DEF Pending
  <2>4. (\A d \in Loads : ~Pending(d)') => \A d \in Loads : ~Pending(d)
    BY <2>2, Zenon DEF Pending
  <2>5. \A d \in Loads : Pending(d)' => Pending(d)
    BY <2>2, Zenon DEF Pending
  <2> QED
    BY <2>1, <2>2, <2>3, <2>4, <2>5, Zenon DEF OneDraftAwaited, Fillers, Calls
<1>5. SaveTakesEffect'
  BY Zenon DEF SaveTakesEffect, editorVars, serverVars
<1> QED
  BY <1>1, <1>3, <1>4, <1>5, Zenon

(* The answers arrive, or are lost with their requests.                    *)
LEMMA ReceiveInv ==
    ASSUME ViewInv,
           \/ \E c \in Loads : ReceiveLoad(c)
           \/ ReceiveUpdate \/ ReceiveCreate
           \/ \E c \in Calls : Lose(c)
    PROVE  ViewInv'
<1>1. ASSUME NEW c \in Loads, ReceiveLoad(c) PROVE ViewInv'
  <2>1. /\ c \in Fillers /\ c \in Calls /\ call[c].pc = "answered" /\ call' = [call EXCEPT ![c] = Idle]
        /\ saved' = NoText /\ UNCHANGED <<serverVars, selected, cacheVars, calls>>
    BY <1>1, CallNames, Zenon DEF ReceiveLoad, Settle
  <2>2. CASE call[c].text # NoText
    <3>1. ApplyFunctionDraft(call[c].name, call[c].text) /\ mixed' = mixed
      BY <1>1, <2>2, Zenon DEF ReceiveLoad
    <3> QED
      BY <2>1, <2>2, <3>1, AppliedInv, Zenon
  <2>3. CASE call[c].text = NoText
    <3>1. mixed' = TRUE /\ UNCHANGED <<editorVars, draftOf>>
      BY <1>1, <2>3, Zenon DEF ReceiveLoad
    <3> QED
      BY <2>1, <3>1, DroppedInv, Zenon
  <2> QED
    BY <2>2, <2>3, Zenon
<1>2. CASE ReceiveUpdate
  <2>1. /\ call["update"].pc = "answered" /\ call' = [call EXCEPT !["update"] = Idle]
        /\ UNCHANGED <<serverVars, cacheVars, calls, mixed>>
        /\ "update" \in Fillers /\ "update" \in Calls /\ "update" \notin Loads /\ mixed \in BOOLEAN
    BY <1>2, CallNames, Zenon DEF ReceiveUpdate, Settle, ViewInv, FunctionsTypeOK
  <2>2. CASE call["update"].text # NoText
    <3>1. /\ ApplyFunctionDraft(call["update"].name, call["update"].text)
          /\ selected' = call["update"].name
          /\ saved' = IF call["update"].clean THEN call["update"].shown ELSE NoText
      BY <1>2, <2>2, Zenon DEF ReceiveUpdate, SelectAndApply
    <3>2. saved' \in {NoText, call["update"].shown} /\ (saved' # NoText => call["update"].clean)
      BY <3>1, Zenon
    <3> QED
      BY <2>1, <2>2, <3>1, <3>2, AppliedInv, Zenon
  <2>3. CASE call["update"].text = NoText
    <3>1. UNCHANGED <<editorVars, selected, draftOf, saved>>
      BY <1>2, <2>3, Zenon DEF ReceiveUpdate
    <3> QED
      BY <2>1, <3>1, DroppedInv, Zenon
  <2> QED
    BY <2>2, <2>3, Zenon
<1>3. CASE ReceiveCreate
  <2>1. /\ call["create"].pc = "answered" /\ call' = [call EXCEPT !["create"] = Idle]
        /\ saved' = NoText /\ UNCHANGED <<serverVars, cacheVars, calls, mixed>>
        /\ "create" \in Fillers /\ "create" \in Calls /\ "create" \notin Loads /\ mixed \in BOOLEAN
    BY <1>3, CallNames, Zenon DEF ReceiveCreate, Settle, ViewInv, FunctionsTypeOK
  <2>2. CASE call["create"].text # NoText
    <3>1. /\ ApplyFunctionDraft(call["create"].name, call["create"].text)
          /\ selected' = call["create"].name
      BY <1>3, <2>2, Zenon DEF ReceiveCreate, SelectAndApply
    <3> QED
      BY <2>1, <2>2, <3>1, AppliedInv, Zenon
  <2>3. CASE call["create"].text = NoText
    <3>1. UNCHANGED <<editorVars, selected, draftOf>>
      BY <1>3, <2>3, Zenon DEF ReceiveCreate
    <3> QED
      BY <2>1, <3>1, DroppedInv, Zenon
  <2> QED
    BY <2>2, <2>3, Zenon
<1>4. ASSUME NEW c \in Calls, Lose(c) PROVE ViewInv'
  <2>1. /\ call' = [call EXCEPT ![c] = Idle] /\ mixed' = (mixed \/ c \in Loads)
        /\ UNCHANGED <<editorVars, serverVars, selected, cacheVars, calls, draftOf, saved>>
    BY <1>4, Zenon DEF Lose
  <2> QED
    BY <2>1, DroppedInv, Zenon
<1> QED
  BY <1>1, <1>2, <1>3, <1>4, Zenon

(* A deletion is answered: nothing is selected any more.                   *)
LEMMA ReceiveDeleteInv ==
    ASSUME ViewInv, ReceiveDelete
    PROVE  ViewInv'
<1> USE DEF ViewInv
<1>1. /\ call' = [call EXCEPT !["delete"] = Idle] /\ selected' = NoName /\ saved' = NoText
      /\ UNCHANGED <<editorVars, serverVars, cacheVars, calls, draftOf, mixed>>
  BY Zenon DEF ReceiveDelete
<1>2. /\ call' \in [Calls -> Requests] /\ \A d \in Calls \ {"delete"} : call'[d] = call[d]
      /\ RequestsNamed' /\ UpdateFaithful'
  BY <1>1, EndFacts, CallNames, Zenon DEF serverVars
<1>3. FunctionsTypeOK' /\ HistoryFollowsValue'
  BY <1>1, <1>2, Zenon DEF FunctionsTypeOK, EditorTypeOK, HistoryFollowsValue, editorVars, serverVars, cacheVars
<1>4. OneDraftAwaited'
  BY <1>1, <1>2, Zenon DEF OneDraftAwaited, Pending, Fillers, Calls
<1>5. SaveTakesEffect'
  BY <1>1, Zenon DEF SaveTakesEffect
<1> QED
  BY <1>2, <1>3, <1>4, <1>5, Zenon

-----------------------------------------------------------------------------
(* The view just opened: its template, nothing selected or requested.      *)
LEMMA ViewInitInv == FunctionsInit => ViewInv
<1> SUFFICES ASSUME FunctionsInit PROVE ViewInv
  BY Zenon
<1>1. /\ value = Template /\ history = Fresh(Template) /\ at = 1
      /\ stored \in [Names -> Texts \cup {NoText}] /\ foreign = 0 /\ selected = NoName
      /\ detail = [name \in Names |-> NoText] /\ call = [c \in Calls |-> Idle] /\ calls = 0
      /\ draftOf = NoName /\ mixed = FALSE /\ saved = NoText
      /\ listed = [names |-> {}, first |-> NoName]
  BY Zenon DEF FunctionsInit, EditorInit
<1>2. recent \in [Names -> 1 .. Cardinality(Names)]
  <2>1. PICK count \in Bijection(1 .. Cardinality(Names), Names) : TRUE
    BY ViewAssumption, FS_CardinalityType, Zenon DEF ExistsBijection
  <2>2. PICK place : place = [n \in Names |-> CHOOSE i \in 1 .. Cardinality(Names) : count[i] = n]
    BY Zenon
  <2>3. \A n \in Names : \E i \in 1 .. Cardinality(Names) : count[i] = n
    BY <2>1, Zenon DEF Bijection, Surjection
  <2>4. place \in Orders
    <3>1. \A n \in Names : place[n] \in 1 .. Cardinality(Names) /\ count[place[n]] = n
      BY <2>2, <2>3, Zenon
    <3> QED
      BY <2>2, <3>1, Zenon DEF Orders
  <2>5. recent = CHOOSE o \in Orders : TRUE
    BY Zenon DEF FunctionsInit
  <2>6. recent \in Orders
    BY <2>4, <2>5, Zenon
  <2> QED
    BY <2>6, Zenon DEF Orders
<1>3. EditorInv
  <2>1. history \in Seq(Snapshot) /\ Len(history) = 1 /\ history[1].text = Template
    BY <1>1, FreshHistory, ViewAssumption, Zenon
  <2> QED
    BY <1>1, <2>1, EditorAssumption, ViewAssumption DEF EditorInv, EditorTypeOK, HistoryFollowsValue
<1>4. call \in [Calls -> Requests] /\ \A c \in Calls : call[c].pc = "idle"
  BY <1>1, IdleTyped, Zenon
<1>5. 0 \in 0 .. MaxCalls /\ 0 \in 0 .. MaxForeign
  BY ViewAssumption
<1>6. detail \in [Names -> Texts \cup {NoText}] /\ listed \in [names : SUBSET Names, first : Names \cup {NoName}]
  BY <1>1, Zenon
<1>7. FunctionsTypeOK
  BY <1>1, <1>2, <1>3, <1>4, <1>5, <1>6, Zenon DEF FunctionsTypeOK, EditorInv
<1>8. RequestsNamed /\ OneDraftAwaited /\ UpdateFaithful /\ SaveTakesEffect
  BY <1>1, <1>4, CallNames DEF RequestsNamed, OneDraftAwaited, UpdateFaithful, SaveTakesEffect, Pending
<1> QED
  BY <1>3, <1>7, <1>8, Zenon DEF ViewInv, EditorInv

(* Every step keeps the invariant.                                         *)
LEMMA ViewStepInv == ViewInv /\ [FunctionsNext]_functionsVars => ViewInv'
<1> SUFFICES ASSUME ViewInv, [FunctionsNext]_functionsVars PROVE ViewInv'
  BY Zenon
<1>1. CASE UNCHANGED functionsVars
  <2>1. UNCHANGED <<value, history, at, stored, recent, foreign, selected, listed, detail, call, calls,
                    draftOf, mixed, saved>>
    BY <1>1, Zenon DEF functionsVars, editorVars, serverVars, cacheVars, auxVars
  <2>2. FunctionsTypeOK' /\ HistoryFollowsValue' /\ UpdateFaithful' /\ SaveTakesEffect'
    BY <2>1 DEF ViewInv, FunctionsTypeOK, EditorTypeOK, HistoryFollowsValue, UpdateFaithful, SaveTakesEffect
  <2>3. RequestsNamed' /\ OneDraftAwaited'
    BY <2>1, DraftsContinue, Zenon DEF CallsContinue
  <2> QED
    BY <2>2, <2>3, Zenon DEF ViewInv
<1> QED
  BY <1>1, FormInv, SelectInv, SaveInv, DeleteInv, ForeignInv, ServerInv, ReceiveInv, ReceiveDeleteInv, Zenon
  DEF FunctionsNext

(* The types and what is known of the requests hold in every reachable     *)
(* state of the functions view.                                            *)
THEOREM ViewInvariance == FunctionsSpec => [](ViewInv /\ FunctionsTypeOK)
<1>1. ViewInv => FunctionsTypeOK
  BY Zenon DEF ViewInv
<1> QED
  BY <1>1, ViewInitInv, ViewStepInv, PTL DEF FunctionsSpec

(* The form holds the draft of the selected function, for any number of    *)
(* functions, unless drafts were awaited together or one did not come.     *)
THEOREM DraftIsOfSelected == FunctionsSpec => []DraftOfSelected
<1>1. ViewInv => DraftOfSelected
  <2> SUFFICES ASSUME ViewInv, selected # NoName, ~Filling, ~mixed PROVE draftOf = selected
    BY Zenon DEF DraftOfSelected
  <2>1. \A c \in Loads : ~Pending(c)
    BY CallNames, Zenon DEF Filling, Pending, Fillers
  <2> QED
    BY <2>1, Zenon DEF ViewInv, OneDraftAwaited
<1> QED
  BY <1>1, ViewInvariance, PTL

(* An answered save put into effect, and left in the form, what was shown  *)
(* when it was made, until somebody touches either.                        *)
THEOREM SavesTakeEffect == FunctionsSpec => []SaveTakesEffect
<1>1. ViewInv => SaveTakesEffect
  BY Zenon DEF ViewInv
<1> QED
  BY <1>1, ViewInvariance, PTL
=============================================================================
