-------------------------- MODULE MultipartUploads --------------------------
(***************************************************************************)
(* One multipart upload (src/storage/local/multipart.rs): a directory with *)
(* a manifest and, per part, a data and a metadata file.  Requests upload  *)
(* parts, complete and abort; the cleanup loop of main.rs removes uploads  *)
(* whose manifest is old.  Every file operation is a step of its own, so   *)
(* requests on the same upload interleave with each other and with the     *)
(* loop.                                                                   *)
(*                                                                         *)
(* The body of a part is the number of the upload that brought it, and its *)
(* etag is the same number.  The object the parts are assembled into is    *)
(* written in one step here; StorageObjects has its files.                 *)
(***************************************************************************)
EXTENDS Integers, Sequences, FiniteSets

CONSTANTS
    Clients,   \* concurrent requests
    Parts,     \* part numbers
    MaxPuts,   \* bound: part uploads
    MaxEnds,   \* bound: complete and abort requests
    MaxFaults, \* bound: restarts
    SmallPuts  \* the part uploads whose body is under 5 MiB

ASSUME MultipartAssumption ==
    /\ IsFiniteSet(Clients)
    /\ Parts \subseteq Nat /\ IsFiniteSet(Parts)
    /\ MaxPuts \in Nat /\ MaxEnds \in Nat /\ MaxFaults \in Nat
    /\ SmallPuts \subseteq 1 .. MaxPuts

VARIABLES
    root,       \* the upload directory exists
    manifest,   \* upload.json: "none", "torn" or "ok"
    data, etag, \* per part: the two files, None when absent, Torn when unreadable
    old,        \* the manifest's age has passed MULTIPART_STALE_HOURS
    object,     \* the assembled object, << >> before
    client,     \* per client: the request being served
    cleaner,    \* the cleanup loop: "asleep", "remove" or "rmdir"
    acked,      \* per part: the etags clients were given
    puts, ends, faults,
    okays,      \* auxiliary: completions answered with success
    disturbed   \* auxiliary: a part upload met a removal of the directory, met
                \* another upload of its part, met a completion, or was cut short

vars == <<root, manifest, data, etag, old, object, client, cleaner, acked,
          puts, ends, faults, okays, disturbed>>

None == 0
Torn == -1
Etags == 1 .. MaxPuts
Files == Etags \cup {None, Torn}
Entries == [part : Parts, etag : Etags]
Lists == {<<>>} \cup [1 .. 1 -> Entries] \cup [1 .. 2 -> Entries]
Idle == [pc |-> "idle", part |-> 0, body |-> None, list |-> <<>>, got |-> <<>>]
PutSteps == {"putread", "mkdir", "open", "fill", "openmeta", "fillmeta"}
EndSteps == {"endread", "etag", "data", "store", "abortread", "remove", "rmdir"}

TypeOK ==
    /\ root \in BOOLEAN /\ manifest \in {"none", "torn", "ok"}
    /\ data \in [Parts -> Files] /\ etag \in [Parts -> Files]
    /\ old \in BOOLEAN /\ disturbed \in BOOLEAN
    /\ object \in Seq(Files)
    /\ \A c \in Clients :
          /\ client[c].pc \in {"idle", "mkroot", "manifest", "fillmanifest"} \cup PutSteps \cup EndSteps
          /\ client[c].part \in Parts \cup {0} /\ client[c].body \in Files
          /\ client[c].list \in Lists /\ Len(client[c].got) <= Len(client[c].list)
    /\ cleaner \in {"asleep", "remove", "rmdir"}
    /\ acked \in [Parts -> SUBSET Etags]
    /\ puts \in 0 .. MaxPuts /\ ends \in 0 .. MaxEnds /\ faults \in 0 .. MaxFaults
    /\ okays \in 0 .. MaxEnds

Init ==
    /\ root = FALSE /\ manifest = "none"
    /\ data = [n \in Parts |-> None] /\ etag = [n \in Parts |-> None]
    /\ old = FALSE /\ object = <<>>
    /\ \E c \in Clients :
          client = [d \in Clients |-> IF d = c THEN [Idle EXCEPT !.pc = "mkroot"] ELSE Idle]
    /\ cleaner = "asleep" /\ acked = [n \in Parts |-> {}]
    /\ puts = 0 /\ ends = 0 /\ faults = 0 /\ okays = 0
    /\ disturbed = FALSE

-----------------------------------------------------------------------------
At(c, pc) == client[c].pc = pc
Goto(c, pc) == client' = [client EXCEPT ![c].pc = pc]
Finish(c) == client' = [client EXCEPT ![c] = Idle]
GotoIf(c, ok, pc) == IF ok THEN Goto(c, pc) ELSE Finish(c)

counters == <<old, acked, puts, ends, faults, okays>>

(* create_multipart_upload: the directory, then the manifest; the id is    *)
(* answered, and with it the upload becomes known, after both.             *)
MakeRoot(c) ==
    /\ At(c, "mkroot")
    /\ root' = TRUE
    /\ Goto(c, "manifest")
    /\ UNCHANGED <<manifest, data, etag, object, cleaner, counters, disturbed>>

OpenManifest(c) ==
    /\ At(c, "manifest")
    /\ manifest' = "torn"
    /\ Goto(c, "fillmanifest")
    /\ UNCHANGED <<root, data, etag, object, cleaner, counters, disturbed>>

FillManifest(c) ==
    /\ At(c, "fillmanifest")
    /\ manifest' = IF manifest = "none" THEN "none" ELSE "ok"
    /\ Finish(c)
    /\ UNCHANGED <<root, data, etag, object, cleaner, counters, disturbed>>

Created == \A c \in Clients : client[c].pc \notin {"mkroot", "manifest", "fillmanifest"}

-----------------------------------------------------------------------------
(* put_multipart_part.                                                     *)
Removing == cleaner \in {"remove", "rmdir"} \/ \E c \in Clients : client[c].pc \in {"remove", "rmdir"}
Putting(n) == \E c \in Clients : client[c].pc \in PutSteps /\ client[c].part = n
Ending == \E c \in Clients : client[c].pc \in EndSteps

BeginPut(c, n) ==
    /\ At(c, "idle") /\ Created /\ puts < MaxPuts
    /\ puts' = puts + 1
    /\ client' = [client EXCEPT ![c] = [Idle EXCEPT !.pc = "putread", !.part = n, !.body = puts + 1]]
    /\ disturbed' = (disturbed \/ Putting(n) \/ Ending \/ Removing)
    /\ UNCHANGED <<root, manifest, data, etag, object, cleaner, old, acked, ends, faults, okays>>

\* read_multipart_upload
PutRead(c) ==
    /\ At(c, "putread")
    /\ GotoIf(c, manifest = "ok", "mkdir")
    /\ UNCHANGED <<root, manifest, data, etag, object, cleaner, counters, disturbed>>

\* create_dir_all makes every missing directory, the upload's own included.
MakePartsDir(c) ==
    /\ At(c, "mkdir")
    /\ root' = TRUE
    /\ Goto(c, "open")
    /\ UNCHANGED <<manifest, data, etag, object, cleaner, counters, disturbed>>

\* A file cannot be opened in a directory that is gone.
OpenPart(c) ==
    /\ At(c, "open")
    /\ data' = IF root THEN [data EXCEPT ![client[c].part] = Torn] ELSE data
    /\ GotoIf(c, root, "fill")
    /\ UNCHANGED <<root, manifest, etag, object, cleaner, counters, disturbed>>

\* Bytes written to a file that was unlinked, or that another upload of the
\* part has also opened, are lost, blended or kept.
Fill(c, file) ==
    IF file = None THEN {None}
    ELSE IF disturbed THEN {client[c].body, file, Torn} ELSE {client[c].body}

FillPart(c) ==
    /\ At(c, "fill")
    /\ \E v \in Fill(c, data[client[c].part]) : data' = [data EXCEPT ![client[c].part] = v]
    /\ Goto(c, "openmeta")
    /\ UNCHANGED <<root, manifest, etag, object, cleaner, counters, disturbed>>

OpenPartMeta(c) ==
    /\ At(c, "openmeta")
    /\ etag' = IF root THEN [etag EXCEPT ![client[c].part] = Torn] ELSE etag
    /\ GotoIf(c, root, "fillmeta")
    /\ UNCHANGED <<root, manifest, data, object, cleaner, counters, disturbed>>

FillPartMeta(c) ==
    /\ At(c, "fillmeta")
    /\ \E v \in Fill(c, etag[client[c].part]) : etag' = [etag EXCEPT ![client[c].part] = v]
    /\ acked' = [acked EXCEPT ![client[c].part] = @ \cup {client[c].body}]
    /\ Finish(c)
    /\ UNCHANGED <<root, manifest, data, object, cleaner, old, puts, ends, faults, okays, disturbed>>

-----------------------------------------------------------------------------
(* complete_multipart_upload, for a list of parts and etags a client was   *)
(* given, and abort_multipart_upload, the request with an empty list here; *)
(* a completion with an empty list is refused before it does anything.     *)
Known(list) == \A i \in DOMAIN list : list[i].etag \in acked[list[i].part]

BeginEnd(c, list) ==
    /\ At(c, "idle") /\ Created /\ ends < MaxEnds
    /\ Known(list)
    /\ ends' = ends + 1
    /\ client' = [client EXCEPT ![c] =
                    [Idle EXCEPT !.pc = IF list = <<>> THEN "abortread" ELSE "endread",
                                 !.list = list]]
    /\ disturbed' = (disturbed \/ \E n \in Parts : Putting(n))
    /\ UNCHANGED <<root, manifest, data, etag, object, cleaner, old, acked, puts, faults, okays>>

EndRead(c) ==
    /\ At(c, "endread")
    /\ GotoIf(c, manifest = "ok", "etag")
    /\ UNCHANGED <<root, manifest, data, etag, object, cleaner, counters, disturbed>>

Position(c) == Len(client[c].got) + 1
Entry(c) == client[c].list[Position(c)]

\* Mutant: the order of the part numbers is not checked.
AscendingAny(c) == TRUE

Ascending(c) == Position(c) = 1 \/ Entry(c).part > client[c].list[Position(c) - 1].part

EtagMatches(c) == etag[Entry(c).part] = Entry(c).etag

LargeEnough(c) == Position(c) = Len(client[c].list) \/ Entry(c).etag \notin SmallPuts

\* The metadata is read first.  The code compares it after reading the data;
\* the comparison uses only what was read here.
ReadPartMeta(c) ==
    /\ At(c, "etag")
    /\ GotoIf(c, Ascending(c) /\ EtagMatches(c) /\ LargeEnough(c), "data")
    /\ UNCHANGED <<root, manifest, data, etag, object, cleaner, counters, disturbed>>

ReadPartData(c) ==
    /\ At(c, "data")
    /\ IF data[Entry(c).part] = None THEN Finish(c)
       ELSE client' = [client EXCEPT
              ![c].got = Append(@, data[Entry(c).part]),
              ![c].pc = IF Position(c) = Len(client[c].list) THEN "store" ELSE "etag"]
    /\ UNCHANGED <<root, manifest, data, etag, object, cleaner, counters, disturbed>>

\* put_object and write_metadata
StoreObject(c) ==
    /\ At(c, "store")
    /\ object' = client[c].got
    /\ Goto(c, "abortread")
    /\ UNCHANGED <<root, manifest, data, etag, cleaner, counters, disturbed>>

AbortRead(c) ==
    /\ At(c, "abortread")
    /\ GotoIf(c, manifest = "ok", "remove")
    /\ disturbed' = (disturbed \/ (manifest = "ok" /\ \E n \in Parts : Putting(n)))
    /\ UNCHANGED <<root, manifest, data, etag, object, cleaner, counters>>

(* remove_dir_all: the files, then the directory, which must be empty.     *)
RemoveFiles ==
    /\ manifest' = "none"
    /\ data' = [n \in Parts |-> None] /\ etag' = [n \in Parts |-> None]

Empty == manifest = "none" /\ \A n \in Parts : data[n] = None /\ etag[n] = None

\* Mutant: the directory itself stays.
RemoveRootNot == UNCHANGED root

RemoveRoot == root' = IF Empty THEN FALSE ELSE root

AbortRemove(c) ==
    /\ At(c, "remove")
    /\ IF root THEN RemoveFiles /\ Goto(c, "rmdir")
               ELSE UNCHANGED <<manifest, data, etag>> /\ Finish(c)
    /\ UNCHANGED <<root, object, cleaner, counters, disturbed>>

\* Mutant: a directory another request has removed is no error.
SucceedsAlways == TRUE

Succeeds == root /\ Empty

AbortRmdir(c) ==
    /\ At(c, "rmdir")
    /\ RemoveRoot
    /\ okays' = IF Succeeds /\ client[c].list # <<>> THEN okays + 1 ELSE okays
    /\ Finish(c)
    /\ UNCHANGED <<manifest, data, etag, object, cleaner, old, acked, puts, ends, faults, disturbed>>

-----------------------------------------------------------------------------
(* The cleanup loop of main.rs.                                            *)

\* Mutant: the cutoff is compared the wrong way round.
StaleYoung == manifest # "none" /\ ~old

\* collect_stale_multipart_upload_roots: a directory without a manifest is
\* descended into, never collected.
Stale == manifest # "none" /\ old

Collect ==
    /\ cleaner = "asleep" /\ Stale
    /\ cleaner' = "remove"
    /\ disturbed' = (disturbed \/ \E n \in Parts : Putting(n))
    /\ UNCHANGED <<root, manifest, data, etag, object, client, counters>>

CleanFiles ==
    /\ cleaner = "remove"
    /\ IF root THEN RemoveFiles /\ cleaner' = "rmdir"
               ELSE UNCHANGED <<manifest, data, etag>> /\ cleaner' = "asleep"
    /\ UNCHANGED <<root, object, client, counters, disturbed>>

CleanRmdir ==
    /\ cleaner = "rmdir"
    /\ RemoveRoot
    /\ cleaner' = "asleep"
    /\ UNCHANGED <<manifest, data, etag, object, client, counters, disturbed>>

Age ==
    /\ ~old /\ Created
    /\ old' = TRUE
    /\ UNCHANGED <<root, manifest, data, etag, object, client, cleaner, acked, puts, ends, faults,
                   okays, disturbed>>

Restart ==
    /\ faults < MaxFaults
    /\ faults' = faults + 1
    /\ client' = [c \in Clients |-> Idle]
    /\ cleaner' = "asleep"
    /\ disturbed' = (disturbed \/ Removing \/ \E c \in Clients : ~At(c, "idle"))
    /\ UNCHANGED <<root, manifest, data, etag, object, old, acked, puts, ends, okays>>

Create(c) == MakeRoot(c) \/ OpenManifest(c) \/ FillManifest(c)
Put(c) == \/ PutRead(c) \/ MakePartsDir(c) \/ OpenPart(c) \/ FillPart(c)
          \/ OpenPartMeta(c) \/ FillPartMeta(c)
End(c) == \/ EndRead(c) \/ ReadPartMeta(c) \/ ReadPartData(c) \/ StoreObject(c)
          \/ AbortRead(c) \/ AbortRemove(c) \/ AbortRmdir(c)
Cleanup == Collect \/ CleanFiles \/ CleanRmdir

Next ==
    \/ \E c \in Clients :
          \/ \E n \in Parts : BeginPut(c, n)
          \/ \E list \in Lists : BeginEnd(c, list)
          \/ Create(c) \/ Put(c) \/ End(c)
    \/ Cleanup \/ Age \/ Restart

\* Requests run to their end, time passes and the loop's task is never stopped.
Fairness ==
    /\ \A c \in Clients : WF_vars(Create(c) \/ Put(c) \/ End(c))
    /\ WF_vars(Cleanup) /\ WF_vars(Age)

Spec == Init /\ [][Next]_vars /\ Fairness

-----------------------------------------------------------------------------
Quiet == cleaner = "asleep" /\ \A c \in Clients : At(c, "idle")

(* What a completion stores is, part by part and in ascending order, the   *)
(* bodies whose etags its request names, as long as no part upload raced.  *)
StoredAsRequested ==
    ~disturbed => \A c \in Clients : At(c, "store") =>
        LET list == client[c].list
        IN  /\ client[c].got = [i \in 1 .. Len(list) |-> list[i].etag]
            /\ \A i, j \in 1 .. Len(list) : i < j => list[i].part < list[j].part

(* Of the completions of one upload that race each other, an abort or the  *)
(* loop, at most one is answered with success.                             *)
OneCompletionSucceeds == ~disturbed => okays <= 1

(* A directory without a manifest, which no request and no cleanup pass    *)
(* will remove, is only left by a part upload that met a removal or by a   *)
(* restart.                                                                *)
OrphanOnlyByRace == Quiet /\ ~disturbed => (root <=> manifest = "ok")

(* An upload nobody completes or aborts is removed in the end, unless it   *)
(* was orphaned.                                                           *)
UploadsAreReclaimed == root ~> (~root \/ disturbed)
=============================================================================
