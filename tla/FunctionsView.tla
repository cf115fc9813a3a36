--------------------------- MODULE FunctionsView ---------------------------
(***************************************************************************)
(* The functions view of the console                                       *)
(* (components/console/views/functions-view.tsx and functions/), on one    *)
(* app, around the editor of CodeEditor.  A draft, that is the fields of   *)
(* the form and the source code, is its text; the server keeps the text of *)
(* each function (FunctionVersions has its versions).                      *)
(***************************************************************************)
EXTENDS CodeEditor, FiniteSets

CONSTANTS
    Names,      \* functions of the app
    NoName,     \* no function: the empty string
    NoText,     \* no text: the function does not exist, or an error
    Template,   \* the source code of a view just opened
    Loads,      \* bound: the drafts that may be loading at once
    MaxCalls,   \* bound: requests made by the view
    MaxForeign  \* bound: changes made by others

ASSUME ViewAssumption ==
    /\ IsFiniteSet(Names) /\ NoName \notin Names
    /\ NoText \notin Texts /\ Template \in Texts
    /\ Loads \cap {"update", "create", "delete"} = {}
    /\ MaxCalls \in Nat /\ MaxForeign \in Nat

VARIABLES
    stored,    \* the server: the text of each function, or NoText
    recent,    \* the server: per function, its place by updated_at, the newest being 1
    selected,  \* selectedName
    listed,    \* functions.data: the names, and the first of them
    detail,    \* detail.data, by function
    call,      \* the requests of the view: loadFunctionDraft and the mutations
    calls,     \* auxiliary: requests made
    foreign,   \* auxiliary: changes made by others
    draftOf,   \* auxiliary: the function whose draft was applied last
    mixed,     \* auxiliary: drafts were awaited together, or one did not come
    saved      \* auxiliary: the text last saved, until anything touches it

serverVars == <<stored, recent, foreign>>
cacheVars == <<listed, detail>>
auxVars == <<draftOf, mixed, saved>>
functionsVars == <<editorVars, serverVars, selected, cacheVars, call, calls, auxVars>>

Calls == Loads \cup {"update", "create", "delete"}

\* A request: text is what it carries and then what answers it.  Auxiliary, of
\* an update: the text shown when it was made, and whether its effect stands.
Requests == [pc : {"idle", "sent", "stored", "answered"}, name : Names \cup {NoName},
             text : Texts \cup {NoText}, shown : Texts \cup {NoText}, clean : BOOLEAN]
Idle == [pc |-> "idle", name |-> NoName, text |-> NoText, shown |-> NoText, clean |-> TRUE]

FunctionsTypeOK ==
    /\ EditorTypeOK
    /\ stored \in [Names -> Texts \cup {NoText}] /\ detail \in [Names -> Texts \cup {NoText}]
    /\ recent \in [Names -> 1 .. Cardinality(Names)]
    /\ listed \in [names : SUBSET Names, first : Names \cup {NoName}]
    /\ selected \in Names \cup {NoName} /\ draftOf \in Names \cup {NoName}
    /\ call \in [Calls -> Requests]
    /\ calls \in 0 .. MaxCalls /\ foreign \in 0 .. MaxForeign
    /\ mixed \in BOOLEAN /\ saved \in Texts \cup {NoText}

\* Names are interchangeable at first, and so is their order.
Orders == {o \in [Names -> 1 .. Cardinality(Names)] : \A f, g \in Names : o[f] = o[g] => f = g}

FunctionsInit ==
    /\ EditorInit(Template)
    /\ stored \in [Names -> Texts \cup {NoText}]
    /\ recent = CHOOSE o \in Orders : TRUE
    /\ foreign = 0
    /\ selected = NoName
    /\ listed = [names |-> {}, first |-> NoName]
    /\ detail = [name \in Names |-> NoText]
    /\ call = [c \in Calls |-> Idle]
    /\ calls = 0
    /\ draftOf = NoName
    /\ mixed = FALSE
    /\ saved = NoText

\* list_functions: ORDER BY updated_at DESC.
List ==
    LET existing == {name \in Names : stored[name] # NoText}
        newest == CHOOSE name \in existing : \A other \in existing : recent[name] <= recent[other]
    IN  [names |-> existing, first |-> IF existing = {} THEN NoName ELSE newest]

\* updated_at of the function becomes the newest, changes being of different seconds.
Touch(name) ==
    recent' = [other \in Names |-> IF other = name THEN 1
                                   ELSE IF recent[other] < recent[name] THEN recent[other] + 1
                                   ELSE recent[other]]

\* Mutant: the selection is not preferred to the list.
ActiveNameListed == listed.first

ActiveName == IF selected # NoName THEN selected ELSE listed.first

-----------------------------------------------------------------------------
(* Requests.  An answer, or the request, may be lost on its way.           *)
Send(c, name, text) ==
    /\ call[c].pc = "idle"
    /\ calls < MaxCalls
    /\ calls' = calls + 1
    /\ call' = [call EXCEPT ![c] = [pc |-> "sent", name |-> name, text |-> text,
                                    clean |-> TRUE,
                                    shown |-> IF c = "update" THEN value ELSE NoText]]

Answer(c, text) == call' = [call EXCEPT ![c].pc = "answered", ![c].text = text]
Settle(c) == call[c].pc = "answered" /\ call' = [call EXCEPT ![c] = Idle]

\* Requests whose answer applies a draft.
Filling == \E c \in Calls \ {"delete"} : call[c].pc # "idle"

Lose(c) ==
    /\ call[c].pc \in {"sent", "answered"}
    /\ call' = [call EXCEPT ![c] = Idle]
    /\ mixed' = (mixed \/ c \in Loads)
    /\ UNCHANGED <<editorVars, serverVars, selected, cacheVars, calls, draftOf, saved>>

-----------------------------------------------------------------------------
(* The form and the list.                                                  *)
ApplyFunctionDraft(name, text) ==
    /\ Replace(text)
    /\ draftOf' = name

\* A keystroke, Tab (which may change nothing), undo or redo.
Edit ==
    /\ \/ \E next \in Snapshot : Type(next)
       \/ Undo
       \/ Redo
    /\ saved' = NoText
    /\ UNCHANGED <<serverVars, selected, cacheVars, call, calls, draftOf, mixed>>

RefreshList ==
    /\ listed' = List
    /\ UNCHANGED <<editorVars, serverVars, selected, detail, call, calls, auxVars>>

\* The query of detail, in one step: what it read last may be out of date.
RefreshDetail ==
    /\ ActiveName # NoName
    /\ stored[ActiveName] # NoText
    /\ detail' = [detail EXCEPT ![ActiveName] = stored[ActiveName]]
    /\ UNCHANGED <<editorVars, serverVars, selected, listed, call, calls, auxVars>>

\* onApplyCachedDraft
LoadDraft ==
    /\ ActiveName # NoName
    /\ detail[ActiveName] # NoText
    /\ ApplyFunctionDraft(ActiveName, detail[ActiveName])
    /\ saved' = NoText
    /\ UNCHANGED <<serverVars, selected, cacheVars, call, calls, mixed>>

\* onSelectFunction and onLoadDraft, by the menu or by the entries below it.
SelectFunction(c, name) ==
    /\ c = CHOOSE d \in Loads : call[d].pc = "idle" \/ \A e \in Loads : call[e].pc # "idle"
    /\ name \in listed.names
    /\ selected' = name
    /\ Send(c, name, NoText)
    /\ mixed' = Filling
    /\ saved' = NoText
    /\ UNCHANGED <<editorVars, serverVars, cacheVars, draftOf>>

\* The function may have been deleted: 404.
AnswerLoad(c) ==
    /\ call[c].pc = "sent"
    /\ Answer(c, stored[call[c].name])
    /\ UNCHANGED <<editorVars, serverVars, selected, cacheVars, calls, auxVars>>

ReceiveLoad(c) ==
    /\ Settle(c)
    /\ IF call[c].text # NoText
       THEN ApplyFunctionDraft(call[c].name, call[c].text) /\ UNCHANGED mixed
       ELSE mixed' = TRUE /\ UNCHANGED <<editorVars, draftOf>>
    /\ saved' = NoText
    /\ UNCHANGED <<serverVars, selected, cacheVars, calls>>

-----------------------------------------------------------------------------
(* updateFunction                                                          *)

\* Mutant: what is sent is the draft as it was last fetched.
SentTextCached == IF detail[ActiveName] # NoText THEN detail[ActiveName] ELSE value

\* The fields of the form, with sourceCode.
SentText == value

Save ==
    /\ ActiveName # NoName
    /\ Send("update", ActiveName, SentText)
    /\ mixed' = (mixed \/ Filling)
    /\ saved' = NoText
    /\ UNCHANGED <<editorVars, serverVars, selected, cacheVars, draftOf>>

\* A function changes on the server, by a request of this view or another.
Store(name, text, by) ==
    /\ stored' = [stored EXCEPT ![name] = text]
    /\ Touch(name)
    /\ call' = [call EXCEPT ![by].pc = "stored", !["update"].clean = (by = "update")]
    /\ saved' = NoText

\* update_function, which may find no function or refuse the update.
ExecuteUpdate ==
    /\ call["update"].pc = "sent"
    /\ \/ /\ stored[call["update"].name] # NoText
          /\ Store(call["update"].name, call["update"].text, "update")
       \/ Answer("update", NoText) /\ UNCHANGED <<stored, recent, saved>>
    /\ UNCHANGED <<editorVars, foreign, selected, cacheVars, calls, draftOf, mixed>>

\* The answer is the function as loaded again after the commit.
AnswerUpdate ==
    /\ call["update"].pc = "stored"
    /\ Answer("update", stored[call["update"].name])
    /\ UNCHANGED <<editorVars, serverVars, selected, cacheVars, calls, auxVars>>

\* setSelectedName and applyFunctionDraft with the function of the answer.
SelectAndApply(name, text) ==
    /\ selected' = name
    /\ ApplyFunctionDraft(name, text)

ReceiveUpdate ==
    /\ Settle("update")
    /\ LET c == call["update"] IN
       IF c.text # NoText
       THEN /\ SelectAndApply(c.name, c.text)
            /\ saved' = IF c.clean THEN c.shown ELSE NoText
       ELSE UNCHANGED <<editorVars, selected, draftOf, saved>>
    /\ UNCHANGED <<serverVars, cacheVars, calls, mixed>>

-----------------------------------------------------------------------------
(* createFunction, under any name: one that exists is refused.             *)
Create(name) ==
    /\ Send("create", name, value)
    /\ mixed' = (mixed \/ Filling)
    /\ saved' = NoText
    /\ UNCHANGED <<editorVars, serverVars, selected, cacheVars, draftOf>>

ExecuteCreate ==
    /\ call["create"].pc = "sent"
    /\ LET name == call["create"].name IN
       IF stored[name] = NoText
       THEN Store(name, call["create"].text, "create")
       ELSE Answer("create", NoText) /\ UNCHANGED <<stored, recent, saved>>
    /\ UNCHANGED <<editorVars, foreign, selected, cacheVars, calls, draftOf, mixed>>

AnswerCreate ==
    /\ call["create"].pc = "stored"
    /\ Answer("create", stored[call["create"].name])
    /\ UNCHANGED <<editorVars, serverVars, selected, cacheVars, calls, auxVars>>

ReceiveCreate ==
    /\ Settle("create")
    /\ IF call["create"].text # NoText
       THEN SelectAndApply(call["create"].name, call["create"].text)
       ELSE UNCHANGED <<editorVars, selected, draftOf>>
    /\ saved' = NoText
    /\ UNCHANGED <<serverVars, cacheVars, calls, mixed>>

(* deleteFunction.  The draft stays in the form.                           *)
Delete ==
    /\ ActiveName # NoName
    /\ Send("delete", ActiveName, NoText)
    /\ UNCHANGED <<editorVars, serverVars, selected, cacheVars, auxVars>>

ExecuteDelete ==
    /\ call["delete"].pc = "sent"
    /\ stored[call["delete"].name] # NoText
    /\ Store(call["delete"].name, NoText, "delete")
    /\ UNCHANGED <<editorVars, foreign, selected, cacheVars, calls, draftOf, mixed>>

ReceiveDelete ==
    /\ call["delete"].pc = "stored"
    /\ call' = [call EXCEPT !["delete"] = Idle]
    /\ selected' = NoName
    /\ saved' = NoText
    /\ UNCHANGED <<editorVars, serverVars, cacheVars, calls, draftOf, mixed>>

\* Another administrator creates, updates or deletes a function; or this view
\* rolls one back, whose answer changes no draft.
ChangedElsewhere(name) ==
    /\ foreign < MaxForeign
    /\ foreign' = foreign + 1
    /\ \E text \in (Texts \cup {NoText}) \ {stored[name]} : stored' = [stored EXCEPT ![name] = text]
    /\ Touch(name)
    /\ call' = [call EXCEPT !["update"].clean = FALSE]
    /\ saved' = NoText
    /\ UNCHANGED <<editorVars, selected, cacheVars, calls, draftOf, mixed>>

FunctionsNext ==
    \/ Edit \/ RefreshList \/ RefreshDetail \/ LoadDraft
    \/ \E c \in Loads :
          \/ \E name \in Names : SelectFunction(c, name)
          \/ AnswerLoad(c) \/ ReceiveLoad(c)
    \/ Save \/ ExecuteUpdate \/ AnswerUpdate \/ ReceiveUpdate
    \/ \E name \in Names : Create(name) \/ ChangedElsewhere(name)
    \/ ExecuteCreate \/ AnswerCreate \/ ReceiveCreate
    \/ Delete \/ ExecuteDelete \/ ReceiveDelete
    \/ \E c \in Calls : Lose(c)

FunctionsSpec == FunctionsInit /\ [][FunctionsNext]_functionsVars

-----------------------------------------------------------------------------
(* The editor holds the draft of the selected function, so a save goes to  *)
(* the function whose draft is shown.  The exceptions: drafts awaited      *)
(* together, whose answers may come in either order, and a load that       *)
(* failed.                                                                 *)
DraftOfSelected == selected # NoName /\ ~Filling /\ ~mixed => draftOf = selected

(* Once a save was answered the function runs the text that was on the     *)
(* screen when it was made, and that text is shown as the draft of the     *)
(* selected function, until somebody edits either.                         *)
SaveTakesEffect ==
    saved # NoText =>
        /\ value = saved
        /\ selected = draftOf
        /\ stored[selected] = saved
=============================================================================
