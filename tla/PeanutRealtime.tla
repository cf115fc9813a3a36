--------------------------- MODULE PeanutRealtime ---------------------------
(***************************************************************************)
(* One subscription of the JavaScript SDK to the events of a table         *)
(* (subscribeTable in sdks/js/src/index.ts) and the server's side of it    *)
(* (stream_table_events_sdk).  Row events pass a bounded broadcast channel *)
(* that overwrites its oldest entry, become frames of a byte stream, and   *)
(* reach the client in chunks cut anywhere.                                *)
(*                                                                         *)
(* The text is a sequence of symbols: a line feed, the two halves of the   *)
(* data line of event n, the line that names the event, and the colon of a *)
(* keep-alive comment.                                                     *)
(*                                                                         *)
(* Auxiliary: owed is the events of this table published while the server  *)
(* was subscribed and not overwritten; broken says the network failed or   *)
(* the request was refused.                                                *)
(***************************************************************************)
EXTENDS Naturals, Sequences, SequencesExt

CONSTANTS
    Capacity,       \* length of the broadcast channel (256 in main.rs)
    MaxEvents,      \* bound: events published
    MaxKeepAlives   \* bound: keep-alive comments

ASSUME RealtimeAssumption ==
    Capacity \in Nat \ {0} /\ MaxEvents \in Nat /\ MaxKeepAlives \in Nat

VARIABLES
    pc,          \* the client's loop: "none", "connecting", "reading", "ended", "failed"
    closed,      \* controller.signal.aborted
    buffer,      \* text after the last blank line
    queue,       \* parts of the chunk being handled
    delivered,   \* events handed to onEvent
    errors,      \* calls of onError
    serving,     \* the handler's stream is subscribed to the channel
    backlog,     \* the channel, as this receiver sees it
    pipe,        \* text written and not read
    published, keepAlives, owed, broken

streamVars == <<pc, closed, buffer, queue, delivered, errors, serving, backlog, pipe,
                published, keepAlives, owed, broken>>

Events == 1 .. MaxEvents
LF == <<"lf", 0>>
Name == <<"name", 0>>
Colon == <<"colon", 0>>
Head1(n) == <<"data", n>>
Tail1(n) == <<"rest", n>>
Symbols == {LF, Name, Colon} \cup {Head1(n) : n \in Events} \cup {Tail1(n) : n \in Events}

RealtimeTypeOK ==
    /\ pc \in {"none", "connecting", "reading", "ended", "failed"}
    /\ buffer \in Seq(Symbols) /\ pipe \in Seq(Symbols)
    /\ queue \in Seq(Seq(Symbols))
    /\ delivered \in Seq(Events) /\ owed \in Seq(Events)
    /\ backlog \in Seq(0 .. MaxEvents) /\ Len(backlog) <= Capacity
    /\ published \in 0 .. MaxEvents /\ keepAlives \in 0 .. MaxKeepAlives
    /\ errors \in Nat
    /\ {closed, serving, broken} \subseteq BOOLEAN

RealtimeInit ==
    /\ pc = "none" /\ closed = FALSE
    /\ buffer = <<>> /\ queue = <<>> /\ delivered = <<>> /\ errors = 0
    /\ serving = FALSE /\ backlog = <<>> /\ pipe = <<>>
    /\ published = 0 /\ keepAlives = 0 /\ owed = <<>> /\ broken = FALSE

clientSide == <<pc, closed, buffer, queue, delivered, errors>>
serverSide == <<serving, backlog, pipe, published, keepAlives, owed>>

-----------------------------------------------------------------------------
(* The server.                                                             *)
EventFrame(n) == <<Name, LF, Head1(n), Tail1(n), LF, LF>>
KeepAliveFrame == <<Colon, LF, LF>>

Without(s, T) == SelectSeq(s, LAMBDA n : n \notin T)

\* emit_data_row_event: a row of this table changes, or (0) one this
\* subscriber does not see.  A full channel overwrites its oldest entry.
EmitDataRowEvent(n) ==
    LET lost == IF Len(backlog) = Capacity THEN {Head(backlog)} ELSE {}
        kept == IF lost = {} THEN backlog ELSE Tail(backlog)
    IN  /\ serving
        /\ published < MaxEvents
        /\ published' = published + 1
        /\ n \in {0, published'}
        /\ backlog' = Append(kept, n)
        /\ owed' = IF n = 0 THEN Without(owed, lost) ELSE Append(Without(owed, lost), n)
        /\ UNCHANGED <<clientSide, serving, pipe, keepAlives, broken>>

\* Mutant: frames are written when two events wait.
WriteFrameOfTwo ==
    /\ serving
    /\ Len(backlog) > 1
    /\ backlog' = Tail(backlog)
    /\ pipe' = IF Head(backlog) = 0 THEN pipe ELSE pipe \o EventFrame(Head(backlog))
    /\ UNCHANGED <<clientSide, serving, published, keepAlives, owed, broken>>

\* The filter_map of the handler: what the subscriber may see becomes a frame.
WriteFrame ==
    /\ serving
    /\ backlog # <<>>
    /\ backlog' = Tail(backlog)
    /\ pipe' = IF Head(backlog) = 0 THEN pipe ELSE pipe \o EventFrame(Head(backlog))
    /\ UNCHANGED <<clientSide, serving, published, keepAlives, owed, broken>>

KeepAlive ==
    /\ serving
    /\ keepAlives < MaxKeepAlives
    /\ keepAlives' = keepAlives + 1
    /\ pipe' = pipe \o KeepAliveFrame
    /\ UNCHANGED <<clientSide, serving, backlog, published, owed, broken>>

\* The server stops: the stream ends after the frames already written.
Shutdown ==
    /\ serving
    /\ serving' = FALSE
    /\ owed' = Without(owed, ToSet(backlog))
    /\ backlog' = <<>>
    /\ UNCHANGED <<clientSide, pipe, published, keepAlives, broken>>

-----------------------------------------------------------------------------
(* The client.                                                             *)
SubscribeTable ==
    /\ pc = "none"
    /\ pc' = "connecting"
    /\ UNCHANGED <<closed, buffer, queue, delivered, errors, serverSide, broken>>

\* streamRequest succeeds: the handler subscribed before it answered.
Connect ==
    /\ pc = "connecting" /\ ~closed
    /\ pc' = "reading"
    /\ serving' = TRUE
    /\ UNCHANGED <<closed, buffer, queue, delivered, errors, backlog, pipe, published, keepAlives,
                   owed, broken>>

\* The catch clause: silent after close.
Catch ==
    /\ pc' = "failed"
    /\ queue' = <<>>
    /\ errors' = IF closed THEN errors ELSE errors + 1

\* The server refuses, or the connection breaks.
Break ==
    /\ pc \in {"connecting", "reading"} /\ ~closed /\ queue = <<>>
    /\ Catch
    /\ broken' = TRUE
    /\ UNCHANGED <<closed, buffer, delivered, serverSide>>

Cuts(text) == {i \in 1 .. Len(text) - 1 : text[i] = LF /\ text[i + 1] = LF}

\* text.split("\n\n"), for text without three line feeds in a row.
SplitBlank(text) ==
    LET cuts == SetToSortSeq(Cuts(text), <)
        from(j) == IF j = 1 THEN 1 ELSE cuts[j - 1] + 2
        to(j) == IF j > Len(cuts) THEN Len(text) ELSE cuts[j] - 1
    IN  [j \in 1 .. Len(cuts) + 1 |-> SubSeq(text, from(j), to(j))]

\* Mutant: what follows the last blank line of a chunk is dropped.
ReadDropsRest(k) ==
    /\ pc = "reading" /\ ~closed /\ queue = <<>>
    /\ k \in 1 .. Len(pipe)
    /\ LET parts == SplitBlank(buffer \o SubSeq(pipe, 1, k))
       IN  buffer' = <<>> /\ queue' = Front(parts)
    /\ pipe' = SubSeq(pipe, k + 1, Len(pipe))
    /\ UNCHANGED <<pc, closed, delivered, errors, serving, backlog, published, keepAlives, owed,
                   broken>>

\* reader.read() returns a chunk of k symbols.
Read(k) ==
    /\ pc = "reading" /\ ~closed /\ queue = <<>>
    /\ k \in 1 .. Len(pipe)
    /\ LET parts == SplitBlank(buffer \o SubSeq(pipe, 1, k))
       IN  buffer' = Last(parts) /\ queue' = Front(parts)
    /\ pipe' = SubSeq(pipe, k + 1, Len(pipe))
    /\ UNCHANGED <<pc, closed, delivered, errors, serving, backlog, published, keepAlives, owed,
                   broken>>

LineStarts(part) == {i \in 1 .. Len(part) : i = 1 \/ part[i - 1] = LF}
DataLines(part) == {i \in LineStarts(part) : part[i][1] = "data"}

HasData(part) == DataLines(part) # {}

\* JSON.parse of the first data line: event n, if the line is whole.
Parsed(part) == {n \in Events : SubSeq(part, Min(DataLines(part)), Min(DataLines(part)) + 1) = <<Head1(n), Tail1(n)>>}

\* One pass of the loop over the parts of a chunk.
Handle ==
    /\ pc = "reading"
    /\ queue # <<>>
    /\ LET part == Head(queue)
           events == IF HasData(part) THEN Parsed(part) ELSE {}
       IN  IF HasData(part) /\ events = {}
           THEN Catch /\ UNCHANGED delivered
           ELSE /\ delivered' = delivered \o SetToSeq(events)
                /\ queue' = Tail(queue)
                /\ UNCHANGED <<pc, errors>>
    /\ UNCHANGED <<closed, buffer, serverSide, broken>>

\* reader.read() returns done: what is left in the buffer is dropped.
Done ==
    /\ pc = "reading" /\ ~closed /\ queue = <<>> /\ pipe = <<>> /\ ~serving
    /\ pc' = "ended"
    /\ UNCHANGED <<closed, buffer, queue, delivered, errors, serverSide, broken>>

\* close() is called by the application, possibly from onEvent; the events
\* of the chunk being handled are still delivered.
Close ==
    /\ pc \in {"connecting", "reading"} /\ ~closed
    /\ closed' = TRUE
    /\ UNCHANGED <<pc, buffer, queue, delivered, errors, serverSide, broken>>

\* The aborted fetch or read throws.
Abort ==
    /\ pc \in {"connecting", "reading"} /\ closed /\ queue = <<>>
    /\ Catch
    /\ serving' = FALSE
    /\ UNCHANGED <<closed, buffer, delivered, backlog, pipe, published, keepAlives, owed, broken>>

\* The client's loop goes on.
Loop == Handle \/ \E k \in 1 .. Len(pipe) : Read(k)

RealtimeNext ==
    \/ \E n \in 0 .. MaxEvents : EmitDataRowEvent(n)
    \/ WriteFrame \/ KeepAlive \/ Shutdown
    \/ SubscribeTable \/ Connect \/ Break
    \/ Loop \/ Done \/ Close \/ Abort

\* The handler's task and the client's loop keep running.
RealtimeFairness == WF_streamVars(WriteFrame) /\ WF_streamVars(Loop)

-----------------------------------------------------------------------------
(* However the stream is cut into chunks, onEvent receives the events of   *)
(* the table whole, in the order of the changes and without a gap but for  *)
(* those the channel overwrote, all of them once the text is read; and     *)
(* onError is called for a refusal or a broken connection only.            *)
EventsExact ==
    /\ IsPrefix(delivered, owed)
    /\ (pc \in {"reading", "ended"} /\ ~closed /\ backlog = <<>> /\ pipe = <<>> /\ queue = <<>>)
         => delivered = owed
    /\ errors = IF broken THEN 1 ELSE 0

(* onEvent catches up with the changes of the table, unless the            *)
(* subscription is closed or the stream breaks.                            *)
EventsDelivered == []<>(delivered = owed \/ closed \/ broken)
=============================================================================
