---------------------------- MODULE PushEnqueue ----------------------------
(***************************************************************************)
(* enqueue_push and enqueue_batch (api/push/service.rs, enqueue.rs) run by *)
(* concurrent requests: the target check, the idempotency lookup, the      *)
(* monthly quota check of api/workspaces.rs, the INSERT and record_usage   *)
(* are separate statements with other requests in between.                 *)
(*                                                                         *)
(* A request enqueues a batch of messages one after the other; a single    *)
(* message is a batch of one.                                              *)
(***************************************************************************)
EXTENDS Integers, FiniteSets, Sequences

CONSTANTS
    Clients,    \* concurrent requests
    UserIds,    \* user ids
    Broadcast,  \* target of a message with a broadcast_tag: user_id ''
    Keys,       \* idempotency keys
    NoKey,      \* a message without idempotency_key
    Limit,      \* push_sends_month of the workspace
    MaxBatch,   \* bound: messages of a batch (100 in the code)
    MaxRows,    \* bound: rows inserted during a behaviour
    MaxLosses   \* bound: lost usage records and crashes

ASSUME EnqueueAssumption ==
    /\ IsFiniteSet(Clients) /\ Clients # {}
    /\ Limit \in Nat /\ MaxBatch \in Nat \ {0} /\ MaxRows \in Nat /\ MaxLosses \in Nat
    /\ Broadcast \notin UserIds /\ NoKey \notin Keys

VARIABLES
    userRows,   \* rows of users
    rows,       \* push_queue: the id, target and key of each row
    nextRow,    \* AUTOINCREMENT counter
    used,       \* usage_counters.used of push_sends_month
    req,        \* [Clients -> request in progress]
    lost,       \* history: inserted rows whose usage was never recorded
    losses      \* faults so far

enqueueVars == <<userRows, rows, nextRow, used, req, lost, losses>>

Message == [target : UserIds \cup {Broadcast}, key : Keys \cup {NoKey}]
Idle == [pc |-> "idle", todo |-> <<>>, id |-> 0, results |-> <<>>, reply |-> "none"]

EnqueueInit ==
    /\ userRows = UserIds
    /\ rows = {}
    /\ nextRow = 1
    /\ used = 0
    /\ req = [c \in Clients |-> Idle]
    /\ lost = 0
    /\ losses = 0

At(c, label) == req[c].pc = label
Current(c) == Head(req[c].todo)

Goto(c, label) == req' = [req EXCEPT ![c].pc = label]

(* An error response: enqueue_batch returns it and drops the results.      *)
Refuse(c, code) ==
    req' = [req EXCEPT ![c] = [Idle EXCEPT !.reply = code]]

(* One message done: the next one, or 201 with every id.                   *)
Accepted(c, id) ==
    LET r == req[c]
        ids == Append(r.results, id)
    IN  req' = [req EXCEPT ![c] =
            IF Len(r.todo) = 1
            THEN [Idle EXCEPT !.results = ids, !.reply = "created"]
            ELSE [r EXCEPT !.pc = "verify", !.todo = Tail(@), !.id = 0, !.results = ids]]

(* A client sends a batch of messages.                                     *)
Send(c, msgs) ==
    /\ At(c, "idle")
    /\ req' = [req EXCEPT ![c] = [Idle EXCEPT !.pc = "verify", !.todo = msgs]]
    /\ UNCHANGED <<userRows, rows, nextRow, used, lost, losses>>

(* The target user must exist; a broadcast has none to check.              *)
VerifyTarget(c) ==
    /\ At(c, "verify")
    /\ IF Current(c).target \in userRows \cup {Broadcast}
       THEN Goto(c, "lookup")
       ELSE Refuse(c, "not_found")
    /\ UNCHANGED <<userRows, rows, nextRow, used, lost, losses>>

WithKey(k) == {r \in rows : r.key = k /\ k # NoKey}

(* Mutant: a replay is charged like a new message.                         *)
LookupKeyCharging(c) ==
    /\ At(c, "lookup")
    /\ Goto(c, IF WithKey(Current(c).key) = {} THEN "quota" ELSE "record")
    /\ UNCHANGED <<userRows, rows, nextRow, used, lost, losses>>

(* A replay answers with the stored row and inserts nothing.               *)
LookupKey(c) ==
    /\ At(c, "lookup")
    /\ IF WithKey(Current(c).key) = {}
       THEN Goto(c, "quota")
       ELSE \E r \in WithKey(Current(c).key) : Accepted(c, r.id)
    /\ UNCHANGED <<userRows, rows, nextRow, used, lost, losses>>

(* Mutant: the request itself is not counted.                              *)
CheckQuotaOffByOne(c) ==
    /\ At(c, "quota")
    /\ IF used > Limit THEN Refuse(c, "limit_exceeded") ELSE Goto(c, "insert")
    /\ UNCHANGED <<userRows, rows, nextRow, used, lost, losses>>

(* require_app_resource_available(.., "push_sends_month", 1).              *)
CheckQuota(c) ==
    /\ At(c, "quota")
    /\ IF used + 1 > Limit THEN Refuse(c, "limit_exceeded") ELSE Goto(c, "insert")
    /\ UNCHANGED <<userRows, rows, nextRow, used, lost, losses>>

(* Mutant: the key is not unique.                                          *)
InsertFailsWithoutUnique(m) == m.target \notin userRows

(* The table's constraints: user_id references users, (app, key) unique.   *)
InsertFails(m) == m.target \notin userRows \/ WithKey(m.key) # {}

Insert(c) ==
    /\ At(c, "insert")
    /\ IF InsertFails(Current(c))
       THEN Refuse(c, "internal_error") /\ UNCHANGED <<rows, nextRow>>
       ELSE /\ nextRow <= MaxRows
            /\ rows' = rows \cup {[id |-> nextRow, target |-> Current(c).target,
                                   key |-> Current(c).key]}
            /\ nextRow' = nextRow + 1
            /\ req' = [req EXCEPT ![c].pc = "record", ![c].id = nextRow]
    /\ UNCHANGED <<userRows, used, lost, losses>>

(* record_usage after the INSERT; its error is ignored.                    *)
RecordUsage(c, ok) ==
    /\ At(c, "record")
    /\ ok \/ losses < MaxLosses
    /\ used' = IF ok THEN used + 1 ELSE used
    /\ lost' = IF ok THEN lost ELSE lost + 1
    /\ losses' = IF ok THEN losses ELSE losses + 1
    /\ Accepted(c, req[c].id)
    /\ UNCHANGED <<userRows, rows, nextRow>>

(* delete_admin_user removes the user and the rows that name it.           *)
DeleteAdminUser(u) ==
    /\ u \in userRows
    /\ userRows' = userRows \ {u}
    /\ rows' = {r \in rows : r.target # u}
    /\ UNCHANGED <<nextRow, used, req, lost, losses>>

(* cleanup_old_items deletes a settled row after 30 days.                  *)
CleanUp(r) ==
    /\ r \in rows
    /\ rows' = rows \ {r}
    /\ UNCHANGED <<userRows, nextRow, used, req, lost, losses>>

(* The process restarts: requests in progress are gone.                    *)
Restart ==
    /\ losses < MaxLosses
    /\ lost' = lost + Cardinality({c \in Clients : At(c, "record")})
    /\ req' = [c \in Clients |-> Idle]
    /\ losses' = losses + 1
    /\ UNCHANGED <<userRows, rows, nextRow, used>>

EnqueueNext ==
    \/ \E c \in Clients :
          \/ \E n \in 1..MaxBatch : \E msgs \in [1..n -> Message] : Send(c, msgs)
          \/ VerifyTarget(c) \/ LookupKey(c) \/ CheckQuota(c) \/ Insert(c)
          \/ \E ok \in BOOLEAN : RecordUsage(c, ok)
    \/ \E u \in UserIds : DeleteAdminUser(u)
    \/ \E r \in rows : CleanUp(r)
    \/ Restart

EnqueueSpec == EnqueueInit /\ [][EnqueueNext]_enqueueVars

(***************************************************************************)
(* Properties.                                                             *)
(***************************************************************************)

Charging == {c \in Clients : At(c, "record")}
PastQuota == {c \in Clients : req[c].pc \in {"insert", "record"}}

(* Requests, rows and counters have their types.                           *)
EnqueueTypeOK ==
    /\ userRows \subseteq UserIds
    /\ rows \subseteq [id : 1..MaxRows, target : UserIds \cup {Broadcast}, key : Keys \cup {NoKey}]
    /\ nextRow \in 1..(MaxRows + 1)
    /\ used \in Nat /\ lost \in Nat /\ losses \in 0..MaxLosses
    /\ \A c \in Clients :
          /\ req[c].pc \in {"idle", "verify", "lookup", "quota", "insert", "record"}
          /\ req[c].todo \in Seq(Message) /\ Len(req[c].todo) <= MaxBatch
          /\ req[c].results \in Seq(1..MaxRows)
          /\ req[c].pc = "idle" <=> req[c].todo = <<>>

(* Every row ever inserted is charged exactly once: it has been counted,   *)
(* is about to be, or its charge was lost to an ignored error or a crash.  *)
(* Replays and refused messages cost nothing.                              *)
EveryRowCharged ==
    used + lost + Cardinality(Charging) = nextRow - 1

(* The quota check and the charge are separate statements, so the limit    *)
(* can be overrun, but by less than the number of concurrent requests.     *)
OverrunBounded ==
    used + Cardinality(PastQuota) <= Limit + Cardinality(Clients) - 1

(* A key names at most one stored row, however requests interleave between *)
(* the lookup and the INSERT.                                              *)
KeyNamesOneRow ==
    \A r, s \in rows : r.key = s.key /\ r.key # NoKey => r = s

(* docs/push.md: a message with a broadcast_tag fans out to the topic's    *)
(* subscriptions.  So one that passed every check can be inserted.         *)
BroadcastAccepted ==
    \A c \in Clients :
        At(c, "insert") /\ Current(c).target = Broadcast /\ Current(c).key = NoKey
            => ~InsertFails(Current(c))
=============================================================================
