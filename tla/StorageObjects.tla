--------------------------- MODULE StorageObjects ---------------------------
(***************************************************************************)
(* One object of a bucket: its data file, its metadata file and the bytes  *)
(* it is charged for (src/storage/local/object.rs, src/api/storage/sdk.rs, *)
(* presign.rs, src/functions/host.rs).  A file is written in place: it is  *)
(* truncated and then written, and the two files are written one after the *)
(* other.  Four routes write objects; only the SDK's checks the limit and  *)
(* records the bytes.                                                      *)
(*                                                                         *)
(* A body is the number of the write that brought it and its size; the     *)
(* metadata holds the same pair (etag and content_length).  Policies, MIME *)
(* types, tags and audit entries are left out.                             *)
(***************************************************************************)
EXTENDS Integers, FiniteSets

CONSTANTS
    Clients,    \* concurrent requests
    Sizes,      \* body sizes
    Limit,      \* storage_bytes of the workspace
    MaxWrites,  \* bound: write and delete requests
    MaxFaults,  \* bound: crashes and failing statements
    Routes      \* the routes that write, for a run

VARIABLES
    data, meta,  \* the two files
    used,        \* usage counter
    client,      \* per client: the request being served
    writes,      \* auxiliary: requests begun, which number the bodies
    mixed,       \* auxiliary: a request overlapped another or was cut short, and
                 \* no undisturbed write has replaced the object since
    unmetered,   \* auxiliary: some request wrote by another route than the SDK's,
                 \* overlapped another or was cut short; the counter never recovers
    faults

vars == <<data, meta, used, client, writes, mixed, unmetered, faults>>

Bodies == [write : 1 .. MaxWrites, size : Sizes]
NoFile == [write |-> 0, size |-> 0]
Torn == [write |-> -1, size |-> 0]
Files == Bodies \cup {NoFile, Torn}
Idle == [pc |-> "idle", route |-> "sdk", body |-> NoFile, previous |-> 0,
         raced |-> FALSE]
Writing == {"truncate", "data", "meta", "metadata", "composite", "compositedata",
            "removedata", "removemeta"}

SizeBounds == {NoFile.size} \cup Sizes

TypeOK ==
    /\ data \in Files /\ meta \in Files
    /\ used \in Int
    /\ client \in [Clients ->
          [pc : {"idle", "head", "limit", "record", "headdelete", "uncharge"} \cup Writing,
           route : {"sdk", "presigned", "host", "complete"},
           body : Bodies \cup {NoFile}, previous : SizeBounds, raced : BOOLEAN]]
    /\ writes \in 0 .. MaxWrites
    /\ mixed \in BOOLEAN /\ unmetered \in BOOLEAN
    /\ faults \in 0 .. MaxFaults

Init ==
    /\ data = NoFile /\ meta = NoFile
    /\ used = 0
    /\ client = [c \in Clients |-> Idle]
    /\ writes = 0
    /\ mixed = FALSE /\ unmetered = FALSE
    /\ faults = 0

-----------------------------------------------------------------------------
At(c, pc) == client[c].pc = pc
Goto(c, pc) == client' = [client EXCEPT ![c].pc = pc]
Finish(c) == client' = [client EXCEPT ![c] = Idle]
Fault == faults < MaxFaults /\ faults' = faults + 1

\* A request that finds others unfinished races with them, and they with it.
Overlap(c) == \E d \in Clients \ {c} : ~At(d, "idle")
Begin(c, request) ==
    /\ At(c, "idle") /\ writes < MaxWrites
    /\ writes' = writes + 1
    /\ mixed' = (mixed \/ Overlap(c))
    /\ client' = [d \in Clients |->
          IF d = c THEN [request EXCEPT !.raced = Overlap(c)]
          ELSE IF At(d, "idle") THEN Idle ELSE [client[d] EXCEPT !.raced = TRUE]]

\* What a file holds after c writes its body into it.  A write that races may
\* land in a file another request has truncated, filled or unlinked since:
\* then either body, a blend of the two, or what was there remains.
Landed(c, file) ==
    IF client[c].raced THEN {client[c].body, file, Torn} ELSE {client[c].body}

\* The last write of a request: an undisturbed one has replaced the object.
Settle(c) == mixed' = (mixed /\ client[c].raced)

\* head_object: the data file must exist and the metadata must be readable.
Exists == data # NoFile
Readable == Exists /\ meta \notin {NoFile, Torn}

(* put_sdk_object, put_presigned_object, handle_storage_put and the write  *)
(* of complete_multipart_upload.                                           *)
BeginPut(c, route, size) ==
    /\ Begin(c, [Idle EXCEPT !.pc = IF route = "sdk" THEN "head" ELSE "truncate",
                             !.route = route,
                             !.body = [write |-> writes + 1, size |-> size]])
    /\ unmetered' = (unmetered \/ route # "sdk" \/ Overlap(c))
    /\ UNCHANGED <<data, meta, used, faults>>

\* Any error counts as no previous object.
HeadPrevious(c) ==
    /\ At(c, "head")
    /\ client' = [client EXCEPT ![c].pc = "limit",
                                ![c].previous = IF Readable THEN meta.size ELSE 0]
    /\ UNCHANGED <<data, meta, used, writes, mixed, unmetered, faults>>

WithinLimit(delta) == used + (IF delta > 0 THEN delta ELSE 0) <= Limit

CheckLimit(c) ==
    /\ At(c, "limit")
    /\ IF WithinLimit(client[c].body.size - client[c].previous)
       THEN Goto(c, "truncate") ELSE Finish(c)
    /\ UNCHANGED <<data, meta, used, writes, mixed, unmetered, faults>>

\* put_object_with_metadata: tokio::fs::write truncates the data file,
TruncateData(c) ==
    /\ At(c, "truncate")
    /\ data' = Torn
    /\ Goto(c, "data")
    /\ UNCHANGED <<meta, used, writes, mixed, unmetered, faults>>

\* writes it,
WriteData(c) ==
    /\ At(c, "data")
    /\ data' \in Landed(c, data)
    /\ Goto(c, "meta")
    /\ UNCHANGED <<meta, used, writes, mixed, unmetered, faults>>

\* and does the same with the metadata.
TruncateMeta(c) ==
    /\ At(c, "meta")
    /\ meta' = Torn
    /\ Goto(c, "metadata")
    /\ UNCHANGED <<data, used, writes, mixed, unmetered, faults>>

WriteMeta(c) ==
    /\ At(c, "metadata")
    /\ meta' \in Landed(c, meta)
    /\ Settle(c)
    /\ CASE client[c].route = "sdk" -> Goto(c, "record")
         [] client[c].route = "complete" -> Goto(c, "composite")
         [] OTHER -> Finish(c)
    /\ UNCHANGED <<data, used, writes, unmetered, faults>>

\* complete_multipart_upload writes the metadata again, with the composite etag.
TruncateComposite(c) ==
    /\ At(c, "composite")
    /\ meta' = Torn
    /\ Goto(c, "compositedata")
    /\ UNCHANGED <<data, used, writes, mixed, unmetered, faults>>

WriteComposite(c) ==
    /\ At(c, "compositedata")
    /\ meta' \in Landed(c, meta)
    /\ Finish(c)
    /\ UNCHANGED <<data, used, writes, mixed, unmetered, faults>>

\* Mutant: the whole body is recorded, not the difference.
DeltaWhole(c) == client[c].body.size

Delta(c) == client[c].body.size - client[c].previous

\* record_usage; its error is ignored.
RecordPut(c) ==
    /\ At(c, "record")
    /\ \/ used' = used + Delta(c) /\ UNCHANGED <<unmetered, faults>>
       \/ Fault /\ unmetered' = TRUE /\ UNCHANGED used
    /\ Finish(c)
    /\ UNCHANGED <<data, meta, writes, mixed>>

-----------------------------------------------------------------------------
(* delete_sdk_object and handle_storage_delete.                            *)
BeginDelete(c, route) ==
    /\ Begin(c, [Idle EXCEPT !.pc = IF route = "sdk" THEN "headdelete" ELSE "removedata",
                             !.route = route])
    /\ unmetered' = (unmetered \/ route # "sdk" \/ Overlap(c))
    /\ UNCHANGED <<data, meta, used, faults>>

HeadDelete(c) ==
    /\ At(c, "headdelete")
    /\ IF Readable
       THEN client' = [client EXCEPT ![c].pc = "removedata", ![c].previous = meta.size]
       ELSE Finish(c)
    /\ UNCHANGED <<data, meta, used, writes, mixed, unmetered, faults>>

RemoveData(c) ==
    /\ At(c, "removedata")
    /\ IF Exists THEN data' = NoFile /\ Goto(c, "removemeta")
                 ELSE UNCHANGED data /\ Finish(c)
    /\ UNCHANGED <<meta, used, writes, mixed, unmetered, faults>>

\* Mutant: the metadata stays.
RemoveDataOnly(c) ==
    /\ At(c, "removemeta")
    /\ Settle(c)
    /\ IF client[c].route = "sdk" THEN Goto(c, "uncharge") ELSE Finish(c)
    /\ UNCHANGED <<data, meta, used, writes, unmetered, faults>>

\* Missing metadata is no error.
RemoveMeta(c) ==
    /\ At(c, "removemeta")
    /\ meta' = NoFile
    /\ Settle(c)
    /\ IF client[c].route = "sdk" THEN Goto(c, "uncharge") ELSE Finish(c)
    /\ UNCHANGED <<data, used, writes, unmetered, faults>>

RecordDelete(c) ==
    /\ At(c, "uncharge")
    /\ \/ used' = used - client[c].previous /\ UNCHANGED <<unmetered, faults>>
       \/ Fault /\ unmetered' = TRUE /\ UNCHANGED used
    /\ Finish(c)
    /\ UNCHANGED <<data, meta, writes, mixed>>

-----------------------------------------------------------------------------
\* The server stops: requests are gone, files stay as they are.
Crash ==
    /\ \E c \in Clients : ~At(c, "idle")
    /\ Fault
    /\ mixed' = (mixed \/ \E c \in Clients : client[c].pc \in Writing)
    /\ unmetered' = TRUE
    /\ client' = [c \in Clients |-> Idle]
    /\ UNCHANGED <<data, meta, used, writes>>

Next ==
    \/ \E c \in Clients :
          \/ \E route \in Routes, size \in Sizes : BeginPut(c, route, size)
          \/ \E route \in Routes \cap {"sdk", "host"} : BeginDelete(c, route)
          \/ HeadPrevious(c) \/ CheckLimit(c)
          \/ TruncateData(c) \/ WriteData(c) \/ TruncateMeta(c) \/ WriteMeta(c)
          \/ TruncateComposite(c) \/ WriteComposite(c) \/ RecordPut(c)
          \/ HeadDelete(c) \/ RemoveData(c) \/ RemoveMeta(c) \/ RecordDelete(c)
    \/ Crash

Spec == Init /\ [][Next]_vars

-----------------------------------------------------------------------------
Quiet == \A c \in Clients : At(c, "idle")
StoredSize == data.size

(* Whatever races and crashes came before, once a put or a delete has run  *)
(* to its end undisturbed, the two files agree again: the metadata         *)
(* describes the data, or both are gone.                                   *)
FilesAgree == Quiet /\ ~mixed => data = meta /\ data # Torn

(* As long as only the SDK route has written, one request at a time and    *)
(* none cut short, the workspace is charged for exactly what is stored,    *)
(* and what is stored is within the limit.                                 *)
UsageExact ==
    Quiet /\ ~unmetered => used = StoredSize /\ StoredSize <= Limit

(* No write stores more bytes than the workspace's storage limit, whatever *)
(* route it takes: the claim that storage writes are guarded.              *)
StorageWithinLimit == StoredSize <= Limit
=============================================================================
