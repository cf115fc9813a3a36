----------------------------- MODULE CodeEditor -----------------------------
(***************************************************************************)
(* The undo history of the console's code editor                           *)
(* (components/console/shared/code-editor.tsx).  The text belongs to the   *)
(* parent: it changes by what is typed here and by what the parent puts    *)
(* there, which an effect notices after the fact.  A snapshot is a text    *)
(* with a selection.                                                       *)
(***************************************************************************)
EXTENDS Integers, Sequences

CONSTANTS
    Texts,        \* texts of the editor
    Selections,   \* selections in a text
    Start,        \* the selection of a text that the parent put there
    HistoryLimit  \* snapshots kept (100)

ASSUME EditorAssumption == HistoryLimit \in Nat \ {0} /\ Start \in Selections

VARIABLES
    value,    \* the text shown
    history,  \* historyRef
    at        \* historyIndexRef, counted from 1

editorVars == <<value, history, at>>

Snapshot == [text : Texts, selection : Selections]
Fresh(text) == <<[text |-> text, selection |-> Start]>>

EditorTypeOK ==
    /\ value \in Texts
    /\ history \in Seq(Snapshot)
    /\ at \in Nat

EditorInit(text) ==
    /\ value = text
    /\ history = Fresh(text)
    /\ at = 1

-----------------------------------------------------------------------------
\* historyRef.current.slice(0, historyIndexRef.current + 1)
Truncated == SubSeq(history, 1, at)

\* Mutant: the index is set before the oldest snapshot is dropped.
LimitedPastEnd(h) == history' = (IF Len(h) > HistoryLimit THEN Tail(h) ELSE h) /\ at' = Len(h)

Limited(h) == history' = (IF Len(h) > HistoryLimit THEN Tail(h) ELSE h) /\ at' = Len(history')

\* pushHistory(next), then the effect of [value], which finds them equal.
PushHistory(next) ==
    IF history[at] = next THEN UNCHANGED <<history, at>> ELSE Limited(Append(Truncated, next))

\* A change of the textarea, or Tab: pushHistory and onChange.
Type(next) ==
    /\ PushHistory(next)
    /\ value' = next.text

ApplyHistorySnapshot(i) ==
    /\ at' = i
    /\ value' = history[i].text
    /\ UNCHANGED history

Undo == at > 1 /\ ApplyHistorySnapshot(at - 1)

Redo == at < Len(history) /\ ApplyHistorySnapshot(at + 1)

\* The parent replaces the text, and the effect of [value] starts afresh
\* unless it is the text of the current snapshot.
Replace(text) ==
    /\ value' = text
    /\ IF history[at].text = text THEN UNCHANGED <<history, at>>
       ELSE history' = Fresh(text) /\ at' = 1

EditorNext ==
    \/ \E next \in Snapshot : Type(next)
    \/ Undo \/ Redo
    \/ \E text \in Texts : Replace(text)

EditorSpec == (\E text \in Texts : EditorInit(text)) /\ [][EditorNext]_editorVars

-----------------------------------------------------------------------------
(* The editor shows its current snapshot: the index stays inside a history *)
(* of bounded length, whatever is typed, undone, redone or replaced, and   *)
(* so undo and redo step from the text on the screen.                      *)
HistoryFollowsValue ==
    /\ at \in 1 .. Len(history)
    /\ Len(history) <= HistoryLimit
    /\ history[at].text = value
=============================================================================
