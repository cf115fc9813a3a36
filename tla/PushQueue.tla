----------------------------- MODULE PushQueue -----------------------------
(***************************************************************************)
(* The push_queue table and the background worker that drains it           *)
(* (push/worker.rs), beside the request handlers that insert rows, save    *)
(* and delete subscriptions, and delete users.                             *)
(*                                                                         *)
(* Every SQL statement outside a transaction is one atomic step, and so is *)
(* every answer of a delivery task.  A step of another task may come       *)
(* between any two of them.                                                *)
(*                                                                         *)
(* Time.  The code stores timestamps and compares them with the clock.     *)
(* The model stores the distance to the clock: "wait" is what is left      *)
(* until both scheduled_at and next_retry_at have passed, "age" is the     *)
(* time since claimed_at (processing) or processed_at (sent, failed).      *)
(***************************************************************************)
EXTENDS Integers, FiniteSets

CONSTANTS
    MaxItems,      \* bound: rows inserted during a behaviour
    Users,         \* user ids
    NoUser,        \* placeholder of absent rows
    Endpoints,     \* ntfy topics and Web Push endpoints
    MaxRetries,    \* MAX_RETRIES
    BatchSize,     \* LIMIT of the worker's SELECT
    ClaimTimeout,  \* CLAIM_TIMEOUT_SECONDS, in ticks
    Retention,     \* the 30 days of cleanup_old_items, in ticks
    MaxAge,        \* bound: ages saturate here
    Delays,        \* distances to scheduled_at a request may ask for
    Backoffs,      \* delays retry_backoff_seconds may return
    MaxFaults      \* bound: database errors and crashes of a behaviour

ASSUME PushAssumption ==
    /\ MaxItems \in Nat /\ MaxRetries \in Nat \ {0} /\ BatchSize \in Nat \ {0}
    /\ ClaimTimeout \in Nat /\ Retention \in Nat /\ MaxFaults \in Nat
    /\ MaxAge \in Nat /\ ClaimTimeout <= MaxAge /\ Retention <= MaxAge
    /\ Delays \subseteq Nat /\ Backoffs \subseteq Nat \ {0}
    /\ NoUser \notin Users

Items == 1..MaxItems

VARIABLES
    queue,      \* [Items -> row of push_queue]
    nextId,     \* AUTOINCREMENT counter: ids are never reused
    users,      \* rows of users
    subs,       \* [Users -> endpoints in push_subscriptions]
    pc,         \* where the worker is
    batch,      \* ids selected and not yet visited
    item,       \* the claimed row as fetch_one read it
    outcome,    \* [Endpoints -> state of the delivery task]
    webhooks,   \* history: POSTs made for each row, by status
    acked,      \* history: acknowledged deliveries of each row and endpoint
    faults      \* database errors and crashes so far

vars == <<queue, nextId, users, subs, pc, batch, item, outcome, webhooks,
          acked, faults>>
worker == <<pc, batch, item, outcome>>
history == <<webhooks, acked>>

Statuses == {"absent", "pending", "processing", "sent", "failed"}
Settled == {"sent", "failed"}
Row == [status : Statuses, user : Users \cup {NoUser}, retry : 0..MaxRetries,
        wait : Nat, age : 0..MaxAge]
NoRow == [status |-> "absent", user |-> NoUser, retry |-> 0, wait |-> 0,
          age |-> 0]
NoItem == [id |-> 0, user |-> NoUser, retry |-> 0]
DeliveryOutcome == {"none", "waiting", "ok", "gone", "pruned", "terminal",
                    "failure"}
NoOutcome == [e \in Endpoints |-> "none"]

Init ==
    /\ queue = [i \in Items |-> NoRow]
    /\ nextId = 1
    /\ users = Users
    /\ subs = [u \in Users |-> {}]
    /\ pc = "reclaim" /\ batch = {} /\ item = NoItem /\ outcome = NoOutcome
    /\ webhooks = [i \in Items |-> [s \in Settled |-> 0]]
    /\ acked = [i \in Items |-> [e \in Endpoints |-> 0]]
    /\ faults = 0

Exists(i) == queue[i].status # "absent"

(***************************************************************************)
(* Requests.                                                               *)
(***************************************************************************)

(* The INSERT of enqueue_push: the foreign key refuses an unknown user.    *)
EnqueuePush(u, d) ==
    /\ nextId \in Items
    /\ u \in users
    /\ queue' = [queue EXCEPT ![nextId] =
          [status |-> "pending", user |-> u, retry |-> 0, wait |-> d, age |-> 0]]
    /\ nextId' = nextId + 1
    /\ UNCHANGED <<users, subs, worker, history, faults>>

(* create_subscription: an upsert on (app, user, endpoint).                *)
SaveSubscription(u, e) ==
    /\ u \in users
    /\ subs' = [subs EXCEPT ![u] = @ \cup {e}]
    /\ UNCHANGED <<queue, nextId, users, worker, history, faults>>

DeleteSubscription(u, e) ==
    /\ e \in subs[u]
    /\ subs' = [subs EXCEPT ![u] = @ \ {e}]
    /\ UNCHANGED <<queue, nextId, users, worker, history, faults>>

(* delete_admin_user: one transaction over every table that names the user. *)
DeleteUser(u) ==
    /\ u \in users
    /\ users' = users \ {u}
    /\ subs' = [subs EXCEPT ![u] = {}]
    /\ queue' = [i \in Items |-> IF queue[i].user = u THEN NoRow ELSE queue[i]]
    /\ UNCHANGED <<nextId, worker, history, faults>>

(***************************************************************************)
(* The worker, one action per statement of process_queue_with_deliveries.  *)
(***************************************************************************)

(* Writes the status and claimed_at of a row.                              *)
SetClaim(row, s) == [row EXCEPT !.status = s, !.age = 0]

(* Mutant: the UPDATE forgets the status guard.                            *)
ReclaimAnyStatus ==
    /\ pc = "reclaim"
    /\ queue' = [i \in Items |->
          IF queue[i].status \in Settled \cup {"processing"} /\ queue[i].age >= ClaimTimeout
          THEN SetClaim(queue[i], "pending")
          ELSE queue[i]]
    /\ pc' = "select"
    /\ UNCHANGED <<nextId, users, subs, batch, item, outcome, history, faults>>

(* Mutant: stale claims are never taken back.                              *)
ReclaimNothing ==
    /\ pc = "reclaim"
    /\ pc' = "select"
    /\ UNCHANGED <<queue, nextId, users, subs, batch, item, outcome, history, faults>>

ReclaimStale ==
    /\ pc = "reclaim"
    /\ queue' = [i \in Items |->
          IF queue[i].status = "processing" /\ queue[i].age >= ClaimTimeout
          THEN SetClaim(queue[i], "pending")
          ELSE queue[i]]
    /\ pc' = "select"
    /\ UNCHANGED <<nextId, users, subs, batch, item, outcome, history, faults>>

Due == {i \in Items : queue[i].status = "pending" /\ queue[i].wait = 0}

(* ORDER BY id ASC LIMIT BatchSize.                                        *)
SelectDue ==
    /\ pc = "select"
    /\ batch' = {i \in Due : Cardinality({j \in Due : j < i}) < BatchSize}
    /\ pc' = "claim"
    /\ UNCHANGED <<queue, nextId, users, subs, item, outcome, history, faults>>

(* The guarded UPDATE: a row that is no longer pending is skipped.         *)
Claim(i) ==
    /\ pc = "claim" /\ i \in batch /\ \A j \in batch : i <= j
    /\ batch' = batch \ {i}
    /\ IF queue[i].status = "pending"
       THEN /\ queue' = [queue EXCEPT ![i] = SetClaim(@, "processing")]
            /\ item' = [NoItem EXCEPT !.id = i]
            /\ pc' = "fetch"
       ELSE UNCHANGED <<queue, item, pc>>
    /\ UNCHANGED <<nextId, users, subs, outcome, history, faults>>

BatchDone ==
    /\ pc = "claim" /\ batch = {}
    /\ pc' = "rest"
    /\ UNCHANGED <<queue, nextId, users, subs, batch, item, outcome, history,
                   faults>>

(* fetch_one fails when the row was deleted since the claim, and its error *)
(* abandons the rest of the batch.                                         *)
FetchItem ==
    /\ pc = "fetch"
    /\ IF Exists(item.id)
       THEN /\ item' = [item EXCEPT !.user = queue[item.id].user,
                                    !.retry = queue[item.id].retry]
            /\ pc' = "subscriptions"
            /\ UNCHANGED batch
       ELSE /\ item' = NoItem /\ batch' = {} /\ pc' = "rest"
    /\ UNCHANGED <<queue, nextId, users, subs, outcome, history, faults>>

(* One delivery task is spawned for each subscription of the user.         *)
LoadSubscriptions ==
    /\ pc = "subscriptions"
    /\ outcome' = [e \in Endpoints |->
                      IF e \in subs[item.user] THEN "waiting" ELSE "none"]
    /\ pc' = IF subs[item.user] = {} THEN "settle" ELSE "deliver"
    /\ UNCHANGED <<queue, nextId, users, subs, batch, item, history, faults>>

(* join_next: the task of endpoint e answers, classified as o.             *)
Answer(e, o) ==
    /\ pc = "deliver" /\ outcome[e] = "waiting"
    /\ outcome' = [outcome EXCEPT ![e] = o]
    /\ acked' = IF o = "ok" THEN [acked EXCEPT ![item.id][e] = @ + 1] ELSE acked
    /\ pc' = IF \E f \in Endpoints \ {e} : outcome[f] = "waiting"
             THEN "deliver" ELSE "settle"
    /\ UNCHANGED <<queue, nextId, users, subs, batch, item, webhooks, faults>>

(* delete_subscription_by_endpoint for a destination that is gone.         *)
Prune(e) ==
    /\ pc = "settle" /\ outcome[e] = "gone"
    /\ subs' = [subs EXCEPT ![item.user] = @ \ {e}]
    /\ outcome' = [outcome EXCEPT ![e] = "pruned"]
    /\ UNCHANGED <<queue, nextId, users, pc, batch, item, history, faults>>

Delivered == \E e \in Endpoints : outcome[e] = "ok"
Hopeless == \A e \in Endpoints : outcome[e] \in {"none", "pruned", "terminal"}

(* Mutant: one retry too many.                                             *)
WillRetryOnceMore == item.retry + 1 <= MaxRetries

WillRetry == item.retry + 1 < MaxRetries

(* Mutant: a retryable failure does not release the claim.                 *)
MarkedStillClaimed(row, backoff) ==
    IF Delivered
    THEN [row EXCEPT !.status = "sent", !.wait = 0, !.age = 0]
    ELSE IF Hopeless \/ ~WillRetry
    THEN [row EXCEPT !.status = "failed", !.retry = MaxRetries, !.wait = 0, !.age = 0]
    ELSE [row EXCEPT !.retry = item.retry + 1, !.wait = backoff, !.age = 0]

(* What the round writes into the row: mark_sent, mark_terminal_failure or *)
(* mark_failed, none of which looks at the row's present status.           *)
Marked(row, backoff) ==
    IF Delivered
    THEN [row EXCEPT !.status = "sent", !.wait = 0, !.age = 0]
    ELSE IF Hopeless
    THEN [row EXCEPT !.status = "failed", !.retry = MaxRetries, !.wait = 0, !.age = 0]
    ELSE IF WillRetry
    THEN [row EXCEPT !.status = "pending", !.retry = item.retry + 1,
                     !.wait = backoff, !.age = 0]
    ELSE [row EXCEPT !.status = "failed", !.retry = item.retry + 1,
                     !.wait = 0, !.age = 0]

(* Mutant: every failed round is announced, not only the last one.         *)
MarkAndAnnounce(backoff) ==
    /\ pc = "settle" /\ \A e \in Endpoints : outcome[e] # "gone"
    /\ queue' = IF Exists(item.id)
                THEN [queue EXCEPT ![item.id] = Marked(@, backoff)]
                ELSE queue
    /\ pc' = "webhook"
    /\ UNCHANGED <<nextId, users, subs, batch, item, outcome, history, faults>>

Mark(backoff) ==
    /\ pc = "settle" /\ \A e \in Endpoints : outcome[e] # "gone"
    /\ queue' = IF Exists(item.id)
                THEN [queue EXCEPT ![item.id] = Marked(@, backoff)]
                ELSE queue
    /\ IF ~Delivered /\ ~Hopeless /\ WillRetry
       THEN pc' = "claim" /\ item' = NoItem /\ outcome' = NoOutcome
       ELSE pc' = "webhook" /\ UNCHANGED <<item, outcome>>
    /\ UNCHANGED <<nextId, users, subs, batch, history, faults>>

(* emit_push_webhook: the POST may be skipped (no URL, lookup failure) or  *)
(* lost; it is never repeated.                                             *)
EmitWebhook(posted) ==
    /\ pc = "webhook"
    /\ webhooks' = LET s == IF Delivered THEN "sent" ELSE "failed"
                   IN  IF posted THEN [webhooks EXCEPT ![item.id][s] = @ + 1]
                                 ELSE webhooks
    /\ pc' = "claim" /\ item' = NoItem /\ outcome' = NoOutcome
    /\ UNCHANGED <<queue, nextId, users, subs, batch, acked, faults>>

(* start_push_worker after process_queue: clean up if an hour has passed.  *)
Rest(hourPassed) ==
    /\ pc = "rest"
    /\ queue' = IF hourPassed
                THEN [i \in Items |->
                        IF queue[i].status \in Settled /\ queue[i].age >= Retention
                        THEN NoRow ELSE queue[i]]
                ELSE queue
    /\ pc' = "reclaim"
    /\ UNCHANGED <<nextId, users, subs, batch, item, outcome, history, faults>>

(***************************************************************************)
(* Faults.                                                                 *)
(***************************************************************************)

(* A statement of process_queue fails: `?` leaves the rest of the batch.   *)
DbError ==
    /\ faults < MaxFaults
    /\ pc \in {"reclaim", "select", "claim", "fetch", "subscriptions", "settle"}
    /\ pc = "claim" => batch # {}
    /\ pc' = "rest" /\ batch' = {} /\ item' = NoItem /\ outcome' = NoOutcome
    /\ faults' = faults + 1
    /\ UNCHANGED <<queue, nextId, users, subs, history>>

(* The process stops and starts again: only the database survives.         *)
Crash ==
    /\ faults < MaxFaults
    /\ pc' = "reclaim" /\ batch' = {} /\ item' = NoItem /\ outcome' = NoOutcome
    /\ faults' = faults + 1
    /\ UNCHANGED <<queue, nextId, users, subs, history>>

(***************************************************************************)
(* The clock advances.                                                     *)
(***************************************************************************)
Older(row) ==
    [row EXCEPT !.wait = IF @ > 0 THEN @ - 1 ELSE 0,
                !.age = IF row.status \in Settled \cup {"processing"} /\ @ < MaxAge
                        THEN @ + 1 ELSE @]

Tick ==
    /\ queue' = [i \in Items |-> Older(queue[i])]
    /\ queue' # queue
    /\ UNCHANGED <<nextId, users, subs, worker, history, faults>>

Worker ==
    \/ ReclaimStale \/ SelectDue \/ BatchDone \/ FetchItem \/ LoadSubscriptions
    \/ \E i \in Items : Claim(i)
    \/ \E e \in Endpoints, o \in {"ok", "gone", "terminal", "failure"} : Answer(e, o)
    \/ \E e \in Endpoints : Prune(e)
    \/ \E b \in Backoffs : Mark(b)
    \/ \E p \in BOOLEAN : EmitWebhook(p)
    \/ \E h \in BOOLEAN : Rest(h)

Next ==
    \/ \E u \in Users, d \in Delays : EnqueuePush(u, d)
    \/ \E u \in Users, e \in Endpoints : SaveSubscription(u, e) \/ DeleteSubscription(u, e)
    \/ \E u \in Users : DeleteUser(u)
    \/ Worker \/ DbError \/ Crash \/ Tick

Spec == Init /\ [][Next]_vars

(* The runtime keeps polling the worker, deliveries answer, time passes.   *)
FairSpec == Spec /\ WF_vars(Worker) /\ WF_vars(Tick)

(***************************************************************************)
(* Properties.                                                             *)
(***************************************************************************)

Held == {"fetch", "subscriptions", "deliver", "settle"}

(* Rows, worker and counters have their types.                             *)
TypeOK ==
    /\ queue \in [Items -> Row]
    /\ nextId \in 1..(MaxItems + 1)
    /\ users \subseteq Users
    /\ subs \in [Users -> SUBSET Endpoints]
    /\ pc \in Held \cup {"reclaim", "select", "claim", "webhook", "rest"}
    /\ batch \subseteq Items
    /\ item \in [id : 0..MaxItems, user : Users \cup {NoUser}, retry : 0..MaxRetries]
    /\ outcome \in [Endpoints -> DeliveryOutcome]
    /\ webhooks \in [Items -> [Settled -> Nat]]
    /\ acked \in [Items -> [Endpoints -> Nat]]
    /\ faults \in 0..MaxFaults

(* A row is failed exactly when its retry budget is used up, whichever of  *)
(* mark_failed and mark_terminal_failure wrote it: the worker never leaves *)
(* an exhausted row in the queue and never gives up early on a retryable   *)
(* error.                                                                  *)
FailedIffExhausted ==
    \A i \in Items : Exists(i) => (queue[i].status = "failed" <=> queue[i].retry = MaxRetries)

(* Exclusive claims: while the worker is between the claim and the mark,   *)
(* its row is still claimed (or was deleted with its user) and holds the   *)
(* retry_count the worker read, so mark_failed never writes a stale count; *)
(* any other processing row was orphaned by an error or a crash.           *)
ClaimIsExclusive ==
    /\ pc \in Held =>
          /\ item.id \in Items
          /\ queue[item.id].status \in {"processing", "absent"}
          /\ pc # "fetch" /\ Exists(item.id) =>
                queue[item.id].retry = item.retry /\ queue[item.id].user = item.user
    /\ \A i \in Items : queue[i].status = "processing" /\ ~(pc \in Held /\ i = item.id)
                            => faults > 0

(* No message is acknowledged twice by the same endpoint, except once more *)
(* for each error or crash between its delivery and mark_sent.             *)
AcknowledgedOnce ==
    \A i \in Items, e \in Endpoints : acked[i][e] <= faults + 1

(* At most one webhook POST for a message, and it says what the row says.  *)
WebhookOnce ==
    \A i \in Items :
        /\ webhooks[i]["sent"] + webhooks[i]["failed"] <= 1
        /\ \A s \in Settled : webhooks[i][s] > 0 => queue[i].status \in {s, "absent"}

(* Every accepted message eventually leaves the queue: retries, backoff,   *)
(* batch limits and reclaimed claims delay it but never starve it.         *)
EveryMessageSettles ==
    \A i \in Items : queue[i].status \in {"pending", "processing"}
                        ~> queue[i].status \notin {"pending", "processing"}

(* The queue implements the lifecycle of a message.                        *)
LifecycleState ==
    [i \in Items |->
        CASE i >= nextId -> "none"
          [] i < nextId /\ queue[i].status \in {"pending", "processing"} -> "queued"
          [] i < nextId /\ queue[i].status = "absent" -> "removed"
          [] OTHER -> queue[i].status]
Lifecycle == INSTANCE MessageLifecycle
    WITH Outcomes <- Settled,
         state <- LifecycleState,
         announced <- [i \in Items |-> {s \in Settled : webhooks[i][s] > 0}]

(* Every behaviour of the worker and the handlers is one the lifecycle     *)
(* allows: accepted once, settled once, announced at most once.            *)
ImplementsLifecycle == Lifecycle!LifecycleSpec
=============================================================================
