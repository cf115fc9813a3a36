----------------------------- MODULE PushProofs -----------------------------
(***************************************************************************)
(* Proofs about the push queue for any number of rows, users, endpoints,   *)
(* retries and faults: the worker (PushQueue), the life of a message that  *)
(* it implements (MessageLifecycle) and the requests that fill the queue   *)
(* (PushEnqueue).                                                          *)
(***************************************************************************)
EXTENDS PushQueue, PushEnqueue, FiniteSetTheorems, TLAPS

(* The time a leaf may take. *)
USE SMTT(30)

(* Ids from nextId on have never been used.                                *)
FreshIds ==
    \A i \in Items : i >= nextId =>
        /\ queue[i].status = "absent"
        /\ \A s \in Settled : webhooks[i][s] = 0
        /\ \A e \in Endpoints : acked[i][e] = 0

(* The worker holds an item exactly while it processes one; delivery       *)
(* results exist only then.                                                *)
WorkerShape ==
    /\ pc \in Held \cup {"webhook"} => item.id \in Items /\ item.id < nextId
    /\ pc \notin Held \cup {"webhook"} => item.id = 0
    /\ pc \notin {"deliver", "settle", "webhook"} =>
            \A e \in Endpoints : outcome[e] = "none"
    /\ \A i \in batch : i < nextId

(* Once marked, the row says what the webhook is about to say.             *)
MarkedBeforeWebhook ==
    pc = "webhook" =>
        queue[item.id].status \in {IF Delivered THEN "sent" ELSE "failed", "absent"}

(* An unsettled row, and the row in the worker's hands, may be             *)
(* acknowledged once more: the faults so far account for every earlier     *)
(* acknowledgement.                                                        *)
AckCredit ==
    \A i \in Items, e \in Endpoints :
        /\ acked[i][e] <= faults + 1
        /\ \/ queue[i].status \in {"pending", "processing"}
           \/ pc \in Held /\ i = item.id
           => acked[i][e] <= faults \/ (i = item.id /\ outcome[e] = "ok")

(* No webhook has been posted for an unsettled row or the worker's item.   *)
WebhookCredit ==
    \A i \in Items :
        queue[i].status \in {"pending", "processing"} \/ i = item.id
            => \A s \in Settled : webhooks[i][s] = 0

Inv ==
    /\ TypeOK
    /\ FailedIffExhausted
    /\ ClaimIsExclusive
    /\ WebhookOnce
    /\ FreshIds
    /\ WorkerShape
    /\ MarkedBeforeWebhook
    /\ AckCredit
    /\ WebhookCredit

-----------------------------------------------------------------------------
(***************************************************************************)
(* What the row updates of the specification do to the fields of a row.    *)
(***************************************************************************)

(* The bounds the updates stay within.                                     *)
LEMMA Bounds ==
    /\ MaxRetries \in Nat /\ MaxRetries > 0
    /\ 0 \in 0..MaxAge /\ 0 \in 0..MaxRetries /\ MaxRetries \in 0..MaxRetries
    /\ \A b \in Backoffs : b \in Nat
    /\ \A d \in Delays : d \in Nat
  BY PushAssumption

(* Changing the status of a row and restarting its age keeps it a row.     *)
LEMMA RowStatus ==
    ASSUME NEW r \in Row, NEW s \in Statuses
    PROVE  /\ SetClaim(r, s) \in Row
           /\ SetClaim(r, s).status = s /\ SetClaim(r, s).retry = r.retry
           /\ SetClaim(r, s).user = r.user
  BY Bounds, Zenon DEF Row, SetClaim

(* The clock changes neither the status nor the retry count of a row.      *)
LEMMA RowOlder ==
    ASSUME NEW r \in Row
    PROVE  /\ Older(r) \in Row
           /\ Older(r).status = r.status /\ Older(r).retry = r.retry
           /\ Older(r).user = r.user
  <1> DEFINE w == IF r.wait > 0 THEN r.wait - 1 ELSE 0
             a == IF r.status \in Settled \cup {"processing"} /\ r.age < MaxAge
                  THEN r.age + 1 ELSE r.age
  <1>1. r.age \in 0..MaxAge /\ r.wait \in Nat
    BY Zenon DEF Row
  <1>2. w \in Nat /\ a \in 0..MaxAge
    BY <1>1, PushAssumption
  <1>3. Older(r) = [r EXCEPT !.wait = w, !.age = a]
    BY Zenon DEF Older
  <1> HIDE DEF w, a
  <1>4. Older(r) \in Row
    BY <1>2, <1>3, Zenon DEF Row
  <1> QED
    BY <1>4, Zenon DEF Older, Row

(* The absent row is a row.                                                *)
LEMMA NoRowType == NoRow \in Row /\ NoRow.status = "absent"
  BY PushAssumption DEF NoRow, Row, Statuses

(* What the worker holds between two items has its type.                   *)
LEMMA NoItemType ==
    /\ NoItem \in [id : 0..MaxItems, user : Users \cup {NoUser}, retry : 0..MaxRetries]
    /\ NoItem.id = 0
    /\ NoOutcome \in [Endpoints -> DeliveryOutcome]
  BY PushAssumption DEF NoItem, NoOutcome, DeliveryOutcome

(* mark_sent, mark_terminal_failure and mark_failed: the row is failed     *)
(* exactly when its retries are used up, and its status is the one the     *)
(* webhook announces.                                                      *)
LEMMA RowMarked ==
    ASSUME NEW r \in Row, NEW b \in Backoffs, item.retry \in 0..MaxRetries,
           item.retry < MaxRetries, r.retry = item.retry
    PROVE  /\ Marked(r, b) \in Row
           /\ Marked(r, b).status = "failed" <=> Marked(r, b).retry = MaxRetries
           /\ ~Delivered /\ ~Hopeless /\ WillRetry => Marked(r, b).status = "pending"
           /\ ~(~Delivered /\ ~Hopeless /\ WillRetry) =>
                 Marked(r, b).status = IF Delivered THEN "sent" ELSE "failed"
  <1>0. 0 \in Nat /\ 0 \in 0..MaxAge /\ MaxRetries \in 0..MaxRetries
    BY Bounds, Zenon
  <1>1. CASE Delivered
    <2>1. Marked(r, b) = [r EXCEPT !.status = "sent", !.wait = 0, !.age = 0]
      BY <1>1, Zenon DEF Marked
    <2>2. Marked(r, b) \in Row /\ Marked(r, b).status = "sent" /\ Marked(r, b).retry = r.retry
      BY <2>1, <1>0, Zenon DEF Row, Statuses
    <2> QED
      BY <1>1, <2>2
  <1>2. CASE ~Delivered /\ Hopeless
    <2>1. Marked(r, b) = [r EXCEPT !.status = "failed", !.retry = MaxRetries,
                                   !.wait = 0, !.age = 0]
      BY <1>2, Zenon DEF Marked
    <2>2. Marked(r, b) \in Row /\ Marked(r, b).status = "failed"
          /\ Marked(r, b).retry = MaxRetries
      BY <2>1, <1>0, Zenon DEF Row, Statuses
    <2> QED
      BY <1>2, <2>2, Zenon
  <1>3. CASE ~Delivered /\ ~Hopeless /\ WillRetry
    <2>1. item.retry + 1 \in 0..MaxRetries /\ item.retry + 1 # MaxRetries
      BY <1>3, Bounds DEF WillRetry
    <2>2. Marked(r, b) = [r EXCEPT !.status = "pending", !.retry = item.retry + 1,
                                   !.wait = b, !.age = 0]
      BY <1>3, Zenon DEF Marked
    <2>3. Marked(r, b) \in Row /\ Marked(r, b).status = "pending"
          /\ Marked(r, b).retry = item.retry + 1
      BY <2>1, <2>2, Bounds, Zenon DEF Row, Statuses
    <2> QED
      BY <1>3, <2>1, <2>3, Zenon
  <1>4. CASE ~Delivered /\ ~Hopeless /\ ~WillRetry
    <2>1. item.retry + 1 = MaxRetries
      BY <1>4, Bounds DEF WillRetry
    <2>2. Marked(r, b) = [r EXCEPT !.status = "failed", !.retry = MaxRetries,
                                   !.wait = 0, !.age = 0]
      BY <1>4, <2>1, Zenon DEF Marked
    <2>3. Marked(r, b) \in Row /\ Marked(r, b).status = "failed"
          /\ Marked(r, b).retry = MaxRetries
      BY <2>2, <1>0, Zenon DEF Row, Statuses
    <2> QED
      BY <1>4, <2>3, Zenon
  <1> QED
    BY <1>1, <1>2, <1>3, <1>4, Zenon

-----------------------------------------------------------------------------

(* The initial state satisfies the invariant.                              *)
LEMMA InitInv == Init => Inv
  <1> SUFFICES ASSUME Init PROVE Inv
    BY Zenon
  <1> USE PushAssumption DEF Init
  <1>1. TypeOK
    BY DEF TypeOK, Row, NoRow, NoItem, NoOutcome, DeliveryOutcome, Held,
           Statuses, Settled, Items
  <1>2. FailedIffExhausted /\ ClaimIsExclusive /\ WebhookOnce
    BY DEF FailedIffExhausted, ClaimIsExclusive, WebhookOnce, Exists, NoRow,
           Held, Settled
  <1>3. FreshIds /\ WorkerShape /\ MarkedBeforeWebhook
    BY Zenon DEF FreshIds, WorkerShape, MarkedBeforeWebhook, NoRow, NoItem,
           NoOutcome, Held, Settled
  <1>4. AckCredit /\ WebhookCredit
    BY DEF AckCredit, WebhookCredit, NoRow, NoItem, Held, Settled
  <1> QED
    BY <1>1, <1>2, <1>3, <1>4, Zenon DEF Inv


(* enqueue_push appends a fresh row.                                       *)
LEMMA EnqueuePushInv ==
    ASSUME Inv, NEW u \in Users, NEW d \in Delays, EnqueuePush(u, d)
    PROVE  Inv'
  <1> USE DEF Inv
  <1>0. /\ queue' \in [Items -> Row]
        /\ nextId \in Items
        /\ \A i \in Items : i # nextId => queue'[i] = queue[i]
        /\ queue'[nextId].status = "pending" /\ queue'[nextId].retry = 0
    BY Bounds, Zenon DEF TypeOK, EnqueuePush, Row, Statuses
  <1>1. TypeOK'
    <2>1. nextId' \in 1..(MaxItems + 1)
      BY <1>0, PushAssumption DEF TypeOK, EnqueuePush, Items
    <2> QED
      BY <1>0, <2>1, Zenon DEF EnqueuePush, worker, history, TypeOK
  <1>2. FailedIffExhausted'
    BY <1>0, Bounds DEF EnqueuePush, worker, history, TypeOK,
           FailedIffExhausted, ClaimIsExclusive, Exists, Held
  <1>3. ClaimIsExclusive'
    BY <1>0 DEF EnqueuePush, worker, history, ClaimIsExclusive, Exists, Held,
           TypeOK, WorkerShape
  <1>4. WebhookOnce'
    BY <1>0 DEF EnqueuePush, worker, history, WebhookOnce, Held, TypeOK,
           WorkerShape, FreshIds, Settled
  <1>5. FreshIds'
    <2> SUFFICES ASSUME NEW i \in Items, i >= nextId'
                 PROVE  /\ queue'[i].status = "absent"
                        /\ \A s \in Settled : webhooks'[i][s] = 0
                        /\ \A e \in Endpoints : acked'[i][e] = 0
      BY Zenon DEF FreshIds
    <2>1. i # nextId /\ i >= nextId
      BY <1>0, Bounds DEF EnqueuePush, TypeOK, Items
    <2>2. queue'[i] = queue[i] /\ webhooks' = webhooks /\ acked' = acked
      BY <1>0, <2>1, Zenon DEF EnqueuePush, history, TypeOK
    <2> QED
      BY <1>0, <2>1, <2>2, Zenon DEF FreshIds
  <1>6. WorkerShape'
    BY <1>0 DEF EnqueuePush, worker, history, WorkerShape, Held, TypeOK
  <1>7. MarkedBeforeWebhook'
    BY <1>0 DEF EnqueuePush, worker, history, MarkedBeforeWebhook, Delivered,
           Held, TypeOK, WorkerShape
  <1>8. AckCredit'
    <2>1. faults \in Nat /\ \A e \in Endpoints : acked[nextId][e] = 0
      BY <1>0, PushAssumption DEF FreshIds, TypeOK
    <2>2. UNCHANGED <<acked, faults, pc, item, outcome>>
      BY Zenon DEF EnqueuePush, worker, history
    <2> QED
      BY <1>0, <2>1, <2>2 DEF AckCredit
  <1>9. WebhookCredit'
    BY <1>0 DEF EnqueuePush, worker, history, WebhookCredit, Held, TypeOK,
           WorkerShape, FreshIds, Settled
  <1> QED
    BY <1>1, <1>2, <1>3, <1>4, <1>5, <1>6, <1>7, <1>8, <1>9, Zenon

(* Saving a subscription touches no row.                                   *)
LEMMA SaveSubscriptionInv ==
    ASSUME Inv, NEW u \in Users, NEW e \in Endpoints, SaveSubscription(u, e)
    PROVE  Inv'
  <1> USE DEF Inv
  <1>1. TypeOK'
    BY Zenon DEF SaveSubscription, worker, history, TypeOK
  <1>2. FailedIffExhausted'
    BY Zenon DEF SaveSubscription, worker, history, FailedIffExhausted, Exists
  <1>3. ClaimIsExclusive'
    BY Zenon DEF SaveSubscription, worker, history, ClaimIsExclusive, Exists
  <1>4. WebhookOnce'
    BY Zenon DEF SaveSubscription, worker, history, WebhookOnce
  <1>5. FreshIds'
    BY Zenon DEF SaveSubscription, worker, history, FreshIds
  <1>6. WorkerShape'
    BY Zenon DEF SaveSubscription, worker, history, WorkerShape
  <1>7. MarkedBeforeWebhook'
    BY Zenon DEF SaveSubscription, worker, history, MarkedBeforeWebhook, Delivered
  <1>8. AckCredit'
    BY Zenon DEF SaveSubscription, worker, history, AckCredit
  <1>9. WebhookCredit'
    BY Zenon DEF SaveSubscription, worker, history, WebhookCredit
  <1> QED
    BY <1>1, <1>2, <1>3, <1>4, <1>5, <1>6, <1>7, <1>8, <1>9, Zenon

(* Deleting a subscription touches no row.                                 *)
LEMMA DeleteSubscriptionInv ==
    ASSUME Inv, NEW u \in Users, NEW e \in Endpoints, DeleteSubscription(u, e)
    PROVE  Inv'
  <1> USE DEF Inv
  <1>1. TypeOK'
    BY Zenon DEF DeleteSubscription, worker, history, TypeOK
  <1>2. FailedIffExhausted'
    BY Zenon DEF DeleteSubscription, worker, history, FailedIffExhausted, Exists
  <1>3. ClaimIsExclusive'
    BY Zenon DEF DeleteSubscription, worker, history, ClaimIsExclusive, Exists
  <1>4. WebhookOnce'
    BY Zenon DEF DeleteSubscription, worker, history, WebhookOnce
  <1>5. FreshIds'
    BY Zenon DEF DeleteSubscription, worker, history, FreshIds
  <1>6. WorkerShape'
    BY Zenon DEF DeleteSubscription, worker, history, WorkerShape
  <1>7. MarkedBeforeWebhook'
    BY Zenon DEF DeleteSubscription, worker, history, MarkedBeforeWebhook, Delivered
  <1>8. AckCredit'
    BY Zenon DEF DeleteSubscription, worker, history, AckCredit
  <1>9. WebhookCredit'
    BY Zenon DEF DeleteSubscription, worker, history, WebhookCredit
  <1> QED
    BY <1>1, <1>2, <1>3, <1>4, <1>5, <1>6, <1>7, <1>8, <1>9, Zenon

(* Deleting a user removes rows, the worker's included.                    *)
LEMMA DeleteUserInv ==
    ASSUME Inv, NEW u \in Users, DeleteUser(u)
    PROVE  Inv'
  <1> USE DEF Inv
  <1>0. /\ queue' \in [Items -> Row]
        /\ \A i \in Items : queue'[i] = queue[i] \/ queue'[i].status = "absent"
    BY NoRowType, Zenon DEF TypeOK, DeleteUser
  <1>1. TypeOK'
    BY <1>0, Zenon DEF DeleteUser, worker, history, TypeOK
  <1>2. FailedIffExhausted'
    BY <1>0, Zenon DEF DeleteUser, worker, history, FailedIffExhausted, Exists
  <1>3. ClaimIsExclusive'
    BY <1>0, Zenon DEF DeleteUser, worker, history, ClaimIsExclusive, Exists
  <1>4. WebhookOnce'
    BY <1>0, Zenon DEF DeleteUser, worker, history, WebhookOnce
  <1>5. FreshIds'
    BY <1>0, Zenon DEF DeleteUser, worker, history, FreshIds
  <1>6. WorkerShape'
    BY <1>0, Zenon DEF DeleteUser, worker, history, WorkerShape
  <1>7. MarkedBeforeWebhook'
    BY <1>0, Zenon DEF DeleteUser, worker, history, MarkedBeforeWebhook, Delivered,
           Held, TypeOK, WorkerShape
  <1>8. AckCredit'
    BY <1>0, Zenon DEF DeleteUser, worker, history, AckCredit
  <1>9. WebhookCredit'
    BY <1>0, Zenon DEF DeleteUser, worker, history, WebhookCredit
  <1> QED
    BY <1>1, <1>2, <1>3, <1>4, <1>5, <1>6, <1>7, <1>8, <1>9, Zenon

(* Reclaiming runs while the worker holds no item.                         *)
LEMMA ReclaimStaleInv ==
    ASSUME Inv, ReclaimStale
    PROVE  Inv'
  <1> USE DEF Inv
  <1>0. ASSUME NEW i \in Items
        PROVE  /\ queue'[i] \in Row
               /\ queue'[i].retry = queue[i].retry /\ queue'[i].user = queue[i].user
               /\ \/ queue'[i].status = queue[i].status
                  \/ queue[i].status = "processing" /\ queue'[i].status = "pending"
    <2>1. queue[i] \in Row /\ "pending" \in Statuses
      BY Zenon DEF TypeOK, Statuses
    <2>2. CASE queue[i].status = "processing" /\ queue[i].age >= ClaimTimeout
      <3>1. queue'[i] = SetClaim(queue[i], "pending")
        BY <2>2, Zenon DEF ReclaimStale
      <3> QED
        BY <2>1, <2>2, <3>1, RowStatus
    <2>3. CASE ~(queue[i].status = "processing" /\ queue[i].age >= ClaimTimeout)
      <3>1. queue'[i] = queue[i]
        BY <2>3, Zenon DEF ReclaimStale
      <3> QED
        BY <2>1, <3>1, Zenon
    <2> QED
      BY <2>2, <2>3, Zenon
  <1>1. TypeOK'
    <2>1. queue' \in [Items -> Row]
      BY <1>0, Zenon DEF ReclaimStale
    <2> QED
      BY <2>1, Zenon DEF ReclaimStale, history, TypeOK, Held
  <1>2. FailedIffExhausted'
    BY <1>0, Zenon DEF FailedIffExhausted, Exists
  <1>3. ClaimIsExclusive'
    BY <1>0, Zenon DEF ReclaimStale, history, ClaimIsExclusive, Exists, Held
  <1>4. WebhookOnce'
    BY <1>0, Zenon DEF ReclaimStale, history, WebhookOnce, Held, TypeOK, WorkerShape,
           FreshIds, Settled
  <1>5. FreshIds'
    BY <1>0, Zenon DEF ReclaimStale, history, FreshIds
  <1>6. WorkerShape'
    BY <1>0, Zenon DEF ReclaimStale, history, WorkerShape, Held
  <1>7. MarkedBeforeWebhook'
    BY <1>0, Zenon DEF ReclaimStale, history, MarkedBeforeWebhook, Delivered
  <1>8. AckCredit'
    BY <1>0, Zenon DEF ReclaimStale, history, AckCredit, Held
  <1>9. WebhookCredit'
    BY <1>0, Zenon DEF ReclaimStale, history, WebhookCredit
  <1> QED
    BY <1>1, <1>2, <1>3, <1>4, <1>5, <1>6, <1>7, <1>8, <1>9, Zenon

(* The batch is read from the table.                                       *)
LEMMA SelectDueInv ==
    ASSUME Inv, SelectDue
    PROVE  Inv'
  <1> USE DEF Inv
  <1>1. TypeOK'
    BY Bounds, Zenon DEF SelectDue, history, TypeOK, Held, Due
  <1>2. FailedIffExhausted'
    BY Zenon DEF SelectDue, history, FailedIffExhausted, Exists
  <1>3. ClaimIsExclusive'
    BY Zenon DEF SelectDue, history, ClaimIsExclusive, Exists, Held
  <1>4. WebhookOnce'
    BY Zenon DEF SelectDue, history, WebhookOnce
  <1>5. FreshIds'
    BY Zenon DEF SelectDue, history, FreshIds
  <1>6. WorkerShape'
    <2>1. \A i \in batch' : i \in Items /\ queue[i].status = "pending"
      BY Zenon DEF SelectDue, Due
    <2>2. \A i \in batch' : i < nextId
      BY <2>1 DEF FreshIds, TypeOK, Items
    <2> QED
      BY <2>2, Zenon DEF SelectDue, WorkerShape, Held
  <1>7. MarkedBeforeWebhook'
    BY Zenon DEF SelectDue, history, MarkedBeforeWebhook, Delivered
  <1>8. AckCredit'
    BY Zenon DEF SelectDue, history, AckCredit, Held
  <1>9. WebhookCredit'
    BY Zenon DEF SelectDue, history, WebhookCredit
  <1> QED
    BY <1>1, <1>2, <1>3, <1>4, <1>5, <1>6, <1>7, <1>8, <1>9, Zenon

(* A pending row is claimed; one that is no longer pending is skipped.     *)
LEMMA ClaimInv ==
    ASSUME Inv, NEW k \in Items, Claim(k)
    PROVE  Inv'
  <1> USE DEF Inv
  <1>1. CASE queue[k].status = "pending"
    <2>0. /\ queue' \in [Items -> Row]
          /\ \A i \in Items : i # k => queue'[i] = queue[i]
          /\ queue'[k].status = "processing" /\ queue'[k].retry = queue[k].retry
      <3>1. queue[k] \in Row /\ "processing" \in Statuses
        BY Zenon DEF TypeOK, Statuses
      <3>2. queue' = [queue EXCEPT ![k] = SetClaim(queue[k], "processing")]
        BY <1>1, Zenon DEF Claim
      <3>3. /\ queue'[k] \in Row /\ \A i \in Items : i # k => queue'[i] = queue[i]
            /\ queue'[k].status = "processing" /\ queue'[k].retry = queue[k].retry
        <4>1. queue'[k] = SetClaim(queue[k], "processing")
              /\ \A i \in Items : i # k => queue'[i] = queue[i]
          BY <3>2, Zenon DEF TypeOK
        <4> QED
          BY <3>1, <4>1, RowStatus
      <3> QED
        BY <3>2, <3>3, Zenon DEF TypeOK
    <2>1. item'.id = k /\ pc' = "fetch" /\ pc = "claim" /\ k < nextId
      BY <1>1, Zenon DEF Claim, NoItem, WorkerShape
    <2>2. TypeOK'
      <3>1. item' \in [id : 0..MaxItems, user : Users \cup {NoUser},
             retry : 0..MaxRetries]
        BY <1>1, Bounds DEF Claim, NoItem, Items
      <3> QED
        BY <1>1, <2>0, <3>1, Zenon DEF Claim, history, TypeOK, Held
    <2>3. FailedIffExhausted'
      BY <1>1, <2>0, Zenon DEF FailedIffExhausted, Exists
    <2>4. ClaimIsExclusive'
      BY <1>1, <2>0, <2>1, Zenon DEF Claim, ClaimIsExclusive, Held, Exists
    <2>5. WebhookOnce'
      <3>1. \A i \in Items : queue[i].status = "pending" => \A s \in Settled : webhooks[i][s] = 0
        BY Zenon DEF WebhookCredit
      <3> QED
        BY <1>1, <2>0, <3>1, Zenon DEF Claim, history, WebhookOnce, Settled
    <2>9. FreshIds'
      <3>1. ~(k >= nextId)
        BY <2>1 DEF TypeOK, Items
      <3> QED
        BY <1>1, <2>0, <3>1, Zenon DEF Claim, history, FreshIds
    <2>6. WorkerShape' /\ MarkedBeforeWebhook'
      BY <1>1, <2>1, Zenon DEF Claim, WorkerShape, MarkedBeforeWebhook, Held
    <2>7. AckCredit'
      BY <1>1, <2>0, <2>1, Zenon DEF Claim, history, AckCredit, WorkerShape, Held
    <2>8. WebhookCredit'
      BY <1>1, <2>0, <2>1, Zenon DEF Claim, history, WebhookCredit
    <2> QED
      BY <2>2, <2>3, <2>4, <2>5, <2>6, <2>7, <2>8, <2>9, Zenon
  <1>2. CASE queue[k].status # "pending"
    <2>1. UNCHANGED <<queue, nextId, users, subs, pc, item, outcome, webhooks,
           acked, faults>>
          /\ batch' = batch \ {k}
      BY <1>2, Zenon DEF Claim, history
    <2> QED
      BY <2>1 DEF TypeOK, FailedIffExhausted, ClaimIsExclusive, WebhookOnce,
             FreshIds,
         WorkerShape, MarkedBeforeWebhook, AckCredit, WebhookCredit, Exists,
                Delivered
  <1> QED
    BY <1>1, <1>2, Zenon

(* The batch is exhausted.                                                 *)
LEMMA BatchDoneInv ==
    ASSUME Inv, BatchDone
    PROVE  Inv'
  <1> USE DEF Inv
  <1>1. TypeOK'
    BY Zenon DEF BatchDone, history, TypeOK
  <1>2. FailedIffExhausted'
    BY Zenon DEF BatchDone, history, FailedIffExhausted, Exists
  <1>3. ClaimIsExclusive'
    BY Zenon DEF BatchDone, history, ClaimIsExclusive, Exists, Held
  <1>4. WebhookOnce'
    BY Zenon DEF BatchDone, history, WebhookOnce
  <1>5. FreshIds'
    BY Zenon DEF BatchDone, history, FreshIds
  <1>6. WorkerShape'
    BY Zenon DEF BatchDone, history, WorkerShape, Held
  <1>7. MarkedBeforeWebhook'
    BY Zenon DEF BatchDone, history, MarkedBeforeWebhook, Delivered
  <1>8. AckCredit'
    BY Zenon DEF BatchDone, history, AckCredit, Held
  <1>9. WebhookCredit'
    BY Zenon DEF BatchDone, history, WebhookCredit
  <1> QED
    BY <1>1, <1>2, <1>3, <1>4, <1>5, <1>6, <1>7, <1>8, <1>9, Zenon

(* The item is read, or found deleted.                                     *)
LEMMA FetchItemInv ==
    ASSUME Inv, FetchItem
    PROVE  Inv'
  <1> USE DEF Inv
  <1>0. item.id \in Items /\ queue[item.id] \in Row
    BY Zenon DEF WorkerShape, FetchItem, Held, TypeOK
  <1>1. TypeOK'
    <2>1. item' \in [id : 0..MaxItems, user : Users \cup {NoUser},
           retry : 0..MaxRetries]
      BY <1>0, NoItemType, Zenon DEF FetchItem, TypeOK, Row
    <2> QED
      BY <2>1, Zenon DEF FetchItem, history, TypeOK, Held
  <1>2. FailedIffExhausted'
    BY <1>0, Zenon DEF FetchItem, NoItem, history, FailedIffExhausted, Exists
  <1>3. ClaimIsExclusive'
    BY <1>0, Zenon DEF FetchItem, NoItem, history, ClaimIsExclusive, Exists, Held, TypeOK
  <1>4. WebhookOnce'
    BY <1>0, Zenon DEF FetchItem, NoItem, history, WebhookOnce
  <1>5. FreshIds'
    BY <1>0, Zenon DEF FetchItem, NoItem, history, FreshIds
  <1>6. WorkerShape'
    BY <1>0, NoItemType, Zenon DEF FetchItem, history, TypeOK, WorkerShape, Held
  <1>7. MarkedBeforeWebhook'
    BY <1>0, Zenon DEF FetchItem, NoItem, history, MarkedBeforeWebhook, Delivered
  <1>8. AckCredit'
    BY <1>0, Zenon DEF FetchItem, NoItem, history, AckCredit, Held, TypeOK, WorkerShape
  <1>9. WebhookCredit'
    <2>1. item'.id \in {item.id, 0}
      BY <1>0, NoItemType, Zenon DEF FetchItem, TypeOK
    <2> QED
      BY <2>1 DEF FetchItem, history, WebhookCredit, Items
  <1> QED
    BY <1>1, <1>2, <1>3, <1>4, <1>5, <1>6, <1>7, <1>8, <1>9, Zenon

(* Delivery tasks are spawned.                                             *)
LEMMA LoadSubscriptionsInv ==
    ASSUME Inv, LoadSubscriptions
    PROVE  Inv'
  <1> USE DEF Inv
  <1>1. TypeOK'
    BY Bounds, Zenon DEF LoadSubscriptions, history, TypeOK, Held, DeliveryOutcome
  <1>2. FailedIffExhausted'
    BY Zenon DEF LoadSubscriptions, history, FailedIffExhausted, Exists
  <1>3. ClaimIsExclusive'
    BY Zenon DEF LoadSubscriptions, history, ClaimIsExclusive, Exists, Held
  <1>4. WebhookOnce'
    BY Zenon DEF LoadSubscriptions, history, WebhookOnce
  <1>5. FreshIds'
    BY Zenon DEF LoadSubscriptions, history, FreshIds
  <1>6. WorkerShape'
    BY Zenon DEF LoadSubscriptions, history, WorkerShape, Held
  <1>7. MarkedBeforeWebhook'
    BY Zenon DEF LoadSubscriptions, history, MarkedBeforeWebhook, Delivered
  <1>8. AckCredit'
    BY Zenon DEF LoadSubscriptions, history, AckCredit, Held, TypeOK, WorkerShape
  <1>9. WebhookCredit'
    BY Zenon DEF LoadSubscriptions, history, WebhookCredit
  <1> QED
    BY <1>1, <1>2, <1>3, <1>4, <1>5, <1>6, <1>7, <1>8, <1>9, Zenon

(* A delivery answers.                                                     *)
LEMMA AnswerInv ==
    ASSUME Inv, NEW f \in Endpoints, NEW o \in {"ok", "gone", "terminal",
           "failure"}, Answer(f, o)
    PROVE  Inv'
  <1> USE DEF Inv
  <1>0. item.id \in Items
    BY Zenon DEF WorkerShape, Answer, Held
  <1>1. TypeOK'
    <2>1. acked' \in [Items -> [Endpoints -> Nat]]
      BY <1>0 DEF Answer, TypeOK
    <2>2. outcome' \in [Endpoints -> DeliveryOutcome]
      BY Zenon DEF Answer, TypeOK, DeliveryOutcome
    <2> QED
      BY <2>1, <2>2, Zenon DEF Answer, TypeOK, Held
  <1>2. FailedIffExhausted'
    BY <1>0, Zenon DEF Answer, FailedIffExhausted, Exists
  <1>3. ClaimIsExclusive'
    BY <1>0, Zenon DEF Answer, ClaimIsExclusive, Exists, Held
  <1>4. WebhookOnce'
    BY <1>0, Zenon DEF Answer, WebhookOnce
  <1>5. FreshIds'
    BY <1>0 DEF Answer, FreshIds, Held, TypeOK, WorkerShape
  <1>6. WorkerShape'
    BY <1>0, Zenon DEF Answer, WorkerShape, Held
  <1>7. MarkedBeforeWebhook'
    BY <1>0, Zenon DEF Answer, MarkedBeforeWebhook, Delivered
  <1>8. AckCredit'
    BY <1>0 DEF Answer, AckCredit, Held, TypeOK
  <1>9. WebhookCredit'
    BY <1>0, Zenon DEF Answer, WebhookCredit
  <1> QED
    BY <1>1, <1>2, <1>3, <1>4, <1>5, <1>6, <1>7, <1>8, <1>9, Zenon

(* A gone destination is pruned.                                           *)
LEMMA PruneInv ==
    ASSUME Inv, NEW f \in Endpoints, Prune(f)
    PROVE  Inv'
  <1> USE DEF Inv
  <1>1. TypeOK'
    BY Bounds, Zenon DEF Prune, history, TypeOK, Held, DeliveryOutcome
  <1>2. FailedIffExhausted'
    BY Zenon DEF Prune, history, FailedIffExhausted, Exists
  <1>3. ClaimIsExclusive'
    BY Zenon DEF Prune, history, ClaimIsExclusive, Exists
  <1>4. WebhookOnce'
    BY Zenon DEF Prune, history, WebhookOnce
  <1>5. FreshIds'
    BY Zenon DEF Prune, history, FreshIds
  <1>6. WorkerShape'
    BY Zenon DEF Prune, history, WorkerShape
  <1>7. MarkedBeforeWebhook'
    BY Zenon DEF Prune, history, MarkedBeforeWebhook, Delivered
  <1>8. AckCredit'
    BY DEF Prune, history, AckCredit
  <1>9. WebhookCredit'
    BY Zenon DEF Prune, history, WebhookCredit
  <1> QED
    BY <1>1, <1>2, <1>3, <1>4, <1>5, <1>6, <1>7, <1>8, <1>9, Zenon

(* The row is marked with the verdict of the round.                        *)
LEMMA MarkInv ==
    ASSUME Inv, NEW b \in Backoffs, Mark(b)
    PROVE  Inv'
  <1> USE DEF Inv
  <1> DEFINE k == item.id
             retrying == ~Delivered /\ ~Hopeless /\ WillRetry
  <1>1. /\ k \in Items /\ k < nextId /\ pc = "settle"
        /\ queue[k].status \in {"processing", "absent"}
        /\ UNCHANGED <<nextId, users, subs, batch, webhooks, acked, faults>>
    BY Zenon DEF Mark, WorkerShape, ClaimIsExclusive, Held, history
  <1>2. /\ queue' \in [Items -> Row]
        /\ \A i \in Items : i # k => queue'[i] = queue[i]
        /\ queue[k].status = "absent" => queue'[k].status = "absent"
        /\ queue[k].status # "absent" =>
              /\ queue'[k].status = IF retrying THEN "pending"
                                    ELSE IF Delivered THEN "sent" ELSE "failed"
              /\ queue'[k].status = "failed" <=> queue'[k].retry = MaxRetries
    <2>1. CASE Exists(k)
      <3>1. /\ item.retry \in 0..MaxRetries /\ item.retry < MaxRetries
            /\ queue[k].retry = item.retry /\ queue[k] \in Row
        <4>1. queue[k] \in Row /\ queue[k].retry \in 0..MaxRetries
          BY <1>1, Zenon DEF TypeOK, Row
        <4>2. queue[k].retry = item.retry /\ queue[k].retry # MaxRetries
          BY <1>1, <2>1, Zenon DEF ClaimIsExclusive, FailedIffExhausted, Held, Exists
        <4> QED
          BY <4>1, <4>2, Bounds
      <3>2. queue' = [queue EXCEPT ![k] = Marked(queue[k], b)]
        BY <2>1, Zenon DEF Mark
      <3> QED
        BY <1>1, <2>1, <3>1, <3>2, RowMarked, Zenon DEF TypeOK, Exists
    <2>2. CASE ~Exists(k)
      BY <2>2, Zenon DEF Mark, Exists, TypeOK
    <2> QED
      BY <2>1, <2>2, Zenon
  <1>3. \/ retrying /\ pc' = "claim" /\ item' = NoItem /\ outcome' = NoOutcome
        \/ ~retrying /\ pc' = "webhook" /\ item' = item /\ outcome' = outcome
    BY Zenon DEF Mark
  <1>4. TypeOK'
    BY <1>1, <1>2, <1>3, NoItemType, Zenon DEF TypeOK
  <1>5. FailedIffExhausted' /\ ClaimIsExclusive'
    BY <1>1, <1>2, <1>3, Zenon DEF FailedIffExhausted, ClaimIsExclusive, Exists, Held
  <1>6. WebhookOnce' /\ FreshIds'
    BY <1>1, <1>2, Zenon DEF WebhookOnce, FreshIds, WebhookCredit, TypeOK, Settled
  <1>7. WorkerShape' 
    BY <1>1, <1>3, NoItemType, Zenon DEF WorkerShape, Held, NoOutcome
  <1>8. MarkedBeforeWebhook'
    BY <1>1, <1>2, <1>3, Zenon DEF MarkedBeforeWebhook, Delivered
  <1>9. AckCredit'
    BY <1>1, <1>2, <1>3, NoItemType DEF AckCredit, Held, Delivered, NoOutcome,
           TypeOK, Items
  <1>10. WebhookCredit'
    BY <1>1, <1>2, <1>3, NoItemType DEF WebhookCredit, Items
  <1> QED
    BY <1>4, <1>5, <1>6, <1>7, <1>8, <1>9, <1>10, Zenon

(* The webhook is posted.                                                  *)
LEMMA EmitWebhookInv ==
    ASSUME Inv, NEW p \in BOOLEAN, EmitWebhook(p)
    PROVE  Inv'
  <1> USE DEF Inv
  <1>0. item.id \in Items
    BY Zenon DEF WorkerShape, EmitWebhook
  <1>1. TypeOK'
    <2>1. webhooks' \in [Items -> [Settled -> Nat]]
      BY <1>0 DEF EmitWebhook, TypeOK, Settled
    <2> QED
      BY <2>1, NoItemType, Zenon DEF EmitWebhook, TypeOK
  <1>2. FailedIffExhausted'
    BY <1>0, Zenon DEF EmitWebhook, NoItem, NoOutcome, FailedIffExhausted, Exists
  <1>3. ClaimIsExclusive'
    BY <1>0, Zenon DEF EmitWebhook, NoItem, NoOutcome, ClaimIsExclusive, Exists, Held
  <1>4. WebhookOnce'
    BY <1>0 DEF EmitWebhook, NoItem, NoOutcome, WebhookOnce, Held, TypeOK,
           MarkedBeforeWebhook, WebhookCredit, Settled, WorkerShape
  <1>5. FreshIds'
    BY <1>0 DEF EmitWebhook, NoItem, NoOutcome, FreshIds, Held, TypeOK,
           WorkerShape
  <1>6. WorkerShape'
    BY <1>0, Zenon DEF EmitWebhook, NoItem, NoOutcome, WorkerShape, Held
  <1>7. MarkedBeforeWebhook'
    BY <1>0, Zenon DEF EmitWebhook, NoItem, NoOutcome, MarkedBeforeWebhook, Delivered
  <1>8. AckCredit'
    BY <1>0, Zenon DEF EmitWebhook, NoItem, NoOutcome, AckCredit, Held, TypeOK,
           MarkedBeforeWebhook, WebhookCredit, Settled, WorkerShape
  <1>9. WebhookCredit'
    BY <1>0, Bounds DEF EmitWebhook, NoItem, NoOutcome, TypeOK, WebhookCredit,
           WorkerShape, FreshIds, ClaimIsExclusive, MarkedBeforeWebhook,
           Exists, Held, Settled, Delivered, Items
  <1> QED
    BY <1>1, <1>2, <1>3, <1>4, <1>5, <1>6, <1>7, <1>8, <1>9, Zenon

(* Old rows are cleaned up.                                                *)
LEMMA RestInv ==
    ASSUME Inv, NEW h \in BOOLEAN, Rest(h)
    PROVE  Inv'
  <1> USE DEF Inv
  <1>0. /\ queue' \in [Items -> Row]
        /\ \A i \in Items : \/ queue'[i] = queue[i]
                            \/ queue[i].status \in Settled /\ queue'[i].status = "absent"
    BY NoRowType, Zenon DEF TypeOK, Rest
  <1>1. TypeOK'
    BY <1>0, Zenon DEF Rest, history, TypeOK
  <1>2. FailedIffExhausted'
    BY <1>0 DEF Rest, history, FailedIffExhausted, Exists
  <1>3. ClaimIsExclusive'
    BY <1>0, Zenon DEF Rest, history, ClaimIsExclusive, Exists, Held
  <1>4. WebhookOnce'
    BY <1>0, Zenon DEF Rest, history, WebhookOnce
  <1>5. FreshIds'
    BY <1>0, Zenon DEF Rest, history, FreshIds
  <1>6. WorkerShape'
    BY <1>0, Zenon DEF Rest, history, WorkerShape, Held
  <1>7. MarkedBeforeWebhook'
    BY <1>0, Zenon DEF Rest, history, MarkedBeforeWebhook, Delivered
  <1>8. AckCredit'
    BY <1>0, Zenon DEF Rest, history, AckCredit, Held
  <1>9. WebhookCredit'
    BY <1>0, Zenon DEF Rest, history, WebhookCredit
  <1> QED
    BY <1>1, <1>2, <1>3, <1>4, <1>5, <1>6, <1>7, <1>8, <1>9, Zenon

(* A statement fails.                                                      *)
LEMMA DbErrorInv ==
    ASSUME Inv, DbError
    PROVE  Inv'
  <1> USE DEF Inv
  <1>1. TypeOK'
    <2>1. faults' \in 0..MaxFaults
      BY PushAssumption DEF DbError, TypeOK
    <2> QED
      BY <2>1, NoItemType, Zenon DEF DbError, history, TypeOK
  <1>2. FailedIffExhausted'
    BY Zenon DEF DbError, NoItem, NoOutcome, history, FailedIffExhausted, Exists
  <1>3. ClaimIsExclusive'
    BY DEF DbError, NoItem, NoOutcome, history, ClaimIsExclusive, Exists, Held,
           TypeOK
  <1>4. WebhookOnce'
    BY Zenon DEF DbError, NoItem, NoOutcome, history, WebhookOnce
  <1>5. FreshIds'
    BY Zenon DEF DbError, NoItem, NoOutcome, history, FreshIds
  <1>6. WorkerShape'
    BY Zenon DEF DbError, NoItem, NoOutcome, history, WorkerShape, Held
  <1>7. MarkedBeforeWebhook'
    BY Zenon DEF DbError, NoItem, NoOutcome, history, MarkedBeforeWebhook, Delivered
  <1>8. AckCredit'
    <2>1. faults \in Nat /\ faults' = faults + 1
      BY PushAssumption DEF DbError, TypeOK
    <2>2. \A i \in Items,
           e \in Endpoints : acked[i][e] \in Nat /\ acked[i][e] <= faults + 1
      BY Zenon DEF AckCredit, TypeOK
    <2> QED
      BY <2>1, <2>2 DEF DbError, history, AckCredit
  <1>9. WebhookCredit'
    BY DEF DbError, NoItem, NoOutcome, history, WebhookCredit, Held, TypeOK,
           WorkerShape, Items
  <1> QED
    BY <1>1, <1>2, <1>3, <1>4, <1>5, <1>6, <1>7, <1>8, <1>9, Zenon

(* The process restarts.                                                   *)
LEMMA CrashInv ==
    ASSUME Inv, Crash
    PROVE  Inv'
  <1> USE DEF Inv
  <1>1. TypeOK'
    <2>1. faults' \in 0..MaxFaults
      BY PushAssumption DEF Crash, TypeOK
    <2> QED
      BY <2>1, NoItemType, Zenon DEF Crash, history, TypeOK
  <1>2. FailedIffExhausted'
    BY Zenon DEF Crash, NoItem, NoOutcome, history, FailedIffExhausted, Exists
  <1>3. ClaimIsExclusive'
    BY DEF Crash, NoItem, NoOutcome, history, ClaimIsExclusive, Exists, Held,
           TypeOK
  <1>4. WebhookOnce'
    BY Zenon DEF Crash, NoItem, NoOutcome, history, WebhookOnce
  <1>5. FreshIds'
    BY Zenon DEF Crash, NoItem, NoOutcome, history, FreshIds
  <1>6. WorkerShape'
    BY Zenon DEF Crash, NoItem, NoOutcome, history, WorkerShape, Held
  <1>7. MarkedBeforeWebhook'
    BY Zenon DEF Crash, NoItem, NoOutcome, history, MarkedBeforeWebhook, Delivered
  <1>8. AckCredit'
    <2>1. faults \in Nat /\ faults' = faults + 1
      BY PushAssumption DEF Crash, TypeOK
    <2>2. \A i \in Items,
           e \in Endpoints : acked[i][e] \in Nat /\ acked[i][e] <= faults + 1
      BY Zenon DEF AckCredit, TypeOK
    <2> QED
      BY <2>1, <2>2 DEF Crash, history, AckCredit
  <1>9. WebhookCredit'
    BY DEF Crash, NoItem, NoOutcome, history, WebhookCredit, Held, TypeOK,
           WorkerShape, Items
  <1> QED
    BY <1>1, <1>2, <1>3, <1>4, <1>5, <1>6, <1>7, <1>8, <1>9, Zenon

(* The clock advances.                                                     *)
LEMMA TickInv ==
    ASSUME Inv, Tick
    PROVE  Inv'
  <1> USE DEF Inv
  <1>0. /\ queue' \in [Items -> Row]
        /\ \A i \in Items :
              /\ queue'[i].status = queue[i].status /\ queue'[i].retry = queue[i].retry
              /\ queue'[i].user = queue[i].user
    BY RowOlder, Zenon DEF TypeOK, Tick
  <1>1. TypeOK'
    BY <1>0, Zenon DEF Tick, worker, history, TypeOK, Held
  <1>2. FailedIffExhausted'
    BY <1>0, Zenon DEF FailedIffExhausted, Exists
  <1>3. ClaimIsExclusive'
    BY <1>0, Zenon DEF Tick, worker, history, ClaimIsExclusive, Exists, Held
  <1>4. WebhookOnce'
    BY <1>0, Zenon DEF Tick, worker, history, WebhookOnce, Held
  <1>5. FreshIds'
    BY <1>0, Zenon DEF Tick, worker, history, FreshIds, Held
  <1>6. WorkerShape'
    BY <1>0, Zenon DEF Tick, worker, history, WorkerShape, Held
  <1>7. MarkedBeforeWebhook'
    BY <1>0, Zenon DEF Tick, worker, history, MarkedBeforeWebhook, Delivered, Held,
           TypeOK, WorkerShape
  <1>8. AckCredit'
    BY <1>0, Zenon DEF Tick, worker, history, AckCredit, Held
  <1>9. WebhookCredit'
    BY <1>0, Zenon DEF Tick, worker, history, WebhookCredit, Held
  <1> QED
    BY <1>1, <1>2, <1>3, <1>4, <1>5, <1>6, <1>7, <1>8, <1>9, Zenon

-----------------------------------------------------------------------------

(* Every step of the queue preserves the invariant.                        *)
LEMMA NextInv == Inv /\ [Next]_vars => Inv'
  <1> SUFFICES ASSUME Inv, [Next]_vars PROVE Inv'
    BY Zenon
  <1>1. CASE \E u \in Users, d \in Delays : EnqueuePush(u, d)
    BY <1>1, EnqueuePushInv, Zenon
  <1>2. CASE \E u \in Users, e \in Endpoints :
                SaveSubscription(u, e) \/ DeleteSubscription(u, e)
    BY <1>2, SaveSubscriptionInv, DeleteSubscriptionInv, Zenon
  <1>3. CASE \E u \in Users : DeleteUser(u)
    BY <1>3, DeleteUserInv, Zenon
  <1>4. CASE Worker
    BY <1>4, ReclaimStaleInv, SelectDueInv, ClaimInv, BatchDoneInv, FetchItemInv,
       LoadSubscriptionsInv, AnswerInv, PruneInv, MarkInv, EmitWebhookInv, RestInv, Zenon
       DEF Worker
  <1>5. CASE DbError
    BY <1>5, DbErrorInv, Zenon
  <1>6. CASE Crash
    BY <1>6, CrashInv, Zenon
  <1>7. CASE Tick
    BY <1>7, TickInv, Zenon
  <1>8. CASE UNCHANGED vars
    BY <1>8 DEF vars, Inv, TypeOK, FailedIffExhausted, ClaimIsExclusive,
       WebhookOnce, FreshIds, WorkerShape, MarkedBeforeWebhook, AckCredit,
       WebhookCredit, Exists, Delivered
  <1> QED
    BY <1>1, <1>2, <1>3, <1>4, <1>5, <1>6, <1>7, <1>8, Zenon DEF Next

(* Inv is inductive: the worker's statements and answers, its faults, the  *)
(* clients' requests and deletions keep it in any order.                   *)
THEOREM Invariance == Spec => []Inv
  BY InitInv, NextInv, PTL DEF Spec

(* Rows, worker and counters keep their types in every behaviour of the    *)
(* queue and its worker.                                                   *)
THEOREM TypeCorrect == Spec => []TypeOK
  <1>1. Inv => TypeOK
    BY Zenon DEF Inv
  <1> QED
    BY <1>1, Invariance, PTL

(* mark_failed and mark_terminal_failure agree on what a failed row is.    *)
THEOREM RetryBudget == Spec => []FailedIffExhausted
  <1>1. Inv => FailedIffExhausted
    BY Zenon DEF Inv
  <1> QED
    BY <1>1, Invariance, PTL

(* The row in the worker's hands is never taken back from it.              *)
THEOREM ExclusiveClaims == Spec => []ClaimIsExclusive
  <1>1. Inv => ClaimIsExclusive
    BY Zenon DEF Inv
  <1> QED
    BY <1>1, Invariance, PTL

(* A message is acknowledged at most once per endpoint, plus once for each *)
(* error or crash.                                                         *)
THEOREM BoundedDuplicates == Spec => []AcknowledgedOnce
  <1>1. Inv => AcknowledgedOnce
    BY Zenon DEF Inv, AckCredit, AcknowledgedOnce
  <1> QED
    BY <1>1, Invariance, PTL

(* A message has at most one webhook, with the status of its row.          *)
THEOREM SingleWebhook == Spec => []WebhookOnce
  <1>1. Inv => WebhookOnce
    BY Zenon DEF Inv
  <1> QED
    BY <1>1, Invariance, PTL

-----------------------------------------------------------------------------
(* PushQueue implements MessageLifecycle.                                  *)

(* What the lifecycle tells apart in the status of an accepted row.        *)
Phase(status) ==
    IF status \in {"pending", "processing"} THEN "queued"
    ELSE IF status = "absent" THEN "removed" ELSE status

(* The statuses with which a message has been announced.                   *)
Announced == [i \in Items |-> {s \in Settled : webhooks[i][s] > 0}]

-----------------------------------------------------------------------------
(* The lifecycle sees of an accepted row its phase.                        *)
LEMMA StateIsPhase ==
    ASSUME TypeOK
    PROVE  LifecycleState = [i \in Items |-> IF i >= nextId THEN "none" ELSE Phase(queue[i].status)]
  <1> SUFFICES ASSUME NEW i \in Items
               PROVE  (CASE i >= nextId -> "none"
                         [] i < nextId /\ queue[i].status \in {"pending", "processing"} -> "queued"
                         [] i < nextId /\ queue[i].status = "absent" -> "removed"
                         [] OTHER -> queue[i].status)
                      = IF i >= nextId THEN "none" ELSE Phase(queue[i].status)
    BY Zenon DEF LifecycleState
  <1>1. i \in Int /\ nextId \in Int
    BY PushAssumption DEF TypeOK, Items
  <1> QED
    BY <1>1 DEF Phase

(* The same in the next state.                                             *)
LEMMA NextStateIsPhase ==
    ASSUME TypeOK'
    PROVE  LifecycleState' = [i \in Items |-> IF i >= nextId' THEN "none" ELSE Phase(queue'[i].status)]
  <1> SUFFICES ASSUME NEW i \in Items
               PROVE  (CASE i >= nextId' -> "none"
                         [] i < nextId' /\ queue'[i].status \in {"pending", "processing"} -> "queued"
                         [] i < nextId' /\ queue'[i].status = "absent" -> "removed"
                         [] OTHER -> queue'[i].status)
                      = IF i >= nextId' THEN "none" ELSE Phase(queue'[i].status)
    BY Zenon DEF LifecycleState
  <1>1. i \in Int /\ nextId' \in Int
    BY PushAssumption DEF TypeOK, Items
  <1> QED
    BY <1>1 DEF Phase

(* A step that moves no row between phases and posts no webhook stutters.  *)
LEMMA SamePhases ==
    ASSUME TypeOK, TypeOK', nextId' = nextId, webhooks' = webhooks,
           \A i \in Items : i < nextId => Phase(queue'[i].status) = Phase(queue[i].status)
    PROVE  UNCHANGED Lifecycle!lifecycleVars
  <1>1. LifecycleState' = LifecycleState
    <2>1. \A i \in Items : i \in Int /\ nextId \in Int
      BY PushAssumption DEF TypeOK, Items
    <2> QED
      BY <2>1, StateIsPhase, NextStateIsPhase
  <1> QED
    BY <1>1, Zenon DEF Lifecycle!lifecycleVars

(* A step that deletes rows and otherwise keeps the phases is a removal.   *)
LEMMA Removal ==
    ASSUME TypeOK, TypeOK', nextId' = nextId, webhooks' = webhooks,
           \A i \in Items : i < nextId =>
              \/ Phase(queue'[i].status) = Phase(queue[i].status)
              \/ queue'[i].status = "absent"
    PROVE  Lifecycle!LifecycleNext
  <1> DEFINE S == {i \in Items : i < nextId /\ queue[i].status # "absent" /\ queue'[i].status = "absent"}
  <1>0. \A i \in Items : i \in Int /\ nextId \in Int /\ queue[i].status \in Statuses
    BY PushAssumption DEF TypeOK, Items, Row
  <1>1. \A i \in S : LifecycleState[i] \in {"queued"} \cup Settled
    BY <1>0, StateIsPhase DEF Phase, Statuses, Settled
  <1>2. LifecycleState' = [i \in Items |-> IF i \in S THEN "removed" ELSE LifecycleState[i]]
    BY <1>0, StateIsPhase, NextStateIsPhase DEF Phase
  <1>3. Lifecycle!Remove(S)
    BY <1>1, <1>2, Zenon DEF Lifecycle!Remove
  <1>4. S \in SUBSET Items
    BY Zenon
  <1> QED
    BY <1>3, <1>4, Zenon DEF Lifecycle!LifecycleNext

-----------------------------------------------------------------------------
(* enqueue_push accepts a message that never existed.                      *)
LEMMA EnqueueAccepts ==
    ASSUME Inv, Inv', NEW u \in Users, NEW d \in Delays, EnqueuePush(u, d)
    PROVE  Lifecycle!LifecycleNext
  <1>0. TypeOK /\ TypeOK' /\ nextId \in Items /\ nextId' = nextId + 1 /\ webhooks' = webhooks
    BY Zenon DEF Inv, EnqueuePush, history
  <1>1. \A i \in Items : i \in Int /\ nextId \in Int
    BY <1>0, PushAssumption DEF TypeOK, Items
  <1>2. /\ queue'[nextId].status = "pending"
        /\ \A i \in Items : i # nextId => queue'[i] = queue[i]
    BY <1>0, Zenon DEF EnqueuePush, TypeOK
  <1>3. LifecycleState[nextId] = "none"
    BY <1>0, <1>1, StateIsPhase
  <1>4. LifecycleState' = [LifecycleState EXCEPT ![nextId] = "queued"]
    BY <1>0, <1>1, <1>2, StateIsPhase, NextStateIsPhase DEF Phase
  <1>5. Lifecycle!Accept(nextId)
    BY <1>0, <1>3, <1>4, Zenon DEF Lifecycle!Accept
  <1> QED
    BY <1>0, <1>5, Zenon DEF Lifecycle!LifecycleNext

(* mark_sent, mark_failed and mark_terminal_failure settle a message or    *)
(* leave it queued.                                                        *)
LEMMA MarkSettles ==
    ASSUME Inv, Inv', NEW b \in Backoffs, Mark(b)
    PROVE  Lifecycle!LifecycleNext \/ UNCHANGED Lifecycle!lifecycleVars
  <1> DEFINE k == item.id
  <1>0. /\ TypeOK /\ TypeOK' /\ k \in Items /\ k < nextId
        /\ queue[k].status \in {"processing", "absent"}
        /\ nextId' = nextId /\ webhooks' = webhooks
    BY Zenon DEF Inv, Mark, WorkerShape, ClaimIsExclusive, Held, history
  <1>1. \A i \in Items : i \in Int /\ nextId \in Int
    BY <1>0, PushAssumption DEF TypeOK, Items
  <1>2. \A i \in Items : i # k => queue'[i] = queue[i]
    BY <1>0, Zenon DEF Mark, TypeOK
  <1>3. CASE ~Exists(k)
    <2>1. queue' = queue
      BY <1>3, Zenon DEF Mark
    <2> QED
      BY <1>0, <2>1, SamePhases, Zenon
  <1>4. CASE Exists(k)
    <2>0. queue[k] \in Row /\ queue'[k] = Marked(queue[k], b)
      BY <1>0, <1>4, Zenon DEF Mark, TypeOK
    <2>1. queue[k].status = "processing" /\ queue'[k].status \in {"pending"} \cup Settled
      BY <1>0, <1>4, <2>0, Zenon DEF Marked, Exists, Row, Settled
    <2>2. CASE queue'[k].status = "pending"
      <3>1. \A i \in Items : Phase(queue'[i].status) = Phase(queue[i].status)
        BY <1>2, <2>1, <2>2, Zenon DEF Phase
      <3> QED
        BY <1>0, <3>1, SamePhases, Zenon
    <2>3. CASE queue'[k].status \in Settled
      <3> DEFINE o == queue'[k].status
      <3>1. LifecycleState[k] = "queued"
        BY <1>0, <1>1, <2>1, StateIsPhase DEF Phase
      <3>2. LifecycleState' = [LifecycleState EXCEPT ![k] = o]
        BY <1>0, <1>1, <1>2, <2>3, StateIsPhase, NextStateIsPhase DEF Phase, Settled
      <3>3. Lifecycle!Settle(k, o)
        BY <1>0, <3>1, <3>2, Zenon DEF Lifecycle!Settle
      <3> QED
        BY <1>0, <2>3, <3>3, Zenon DEF Lifecycle!LifecycleNext
    <2> QED
      BY <2>1, <2>2, <2>3, Zenon
  <1> QED
    BY <1>3, <1>4, Zenon

(* emit_push_webhook announces a message not announced before, with the    *)
(* status it settled with.                                                 *)
LEMMA WebhookAnnounces ==
    ASSUME Inv, Inv', NEW p \in BOOLEAN, EmitWebhook(p)
    PROVE  Lifecycle!LifecycleNext \/ UNCHANGED Lifecycle!lifecycleVars
  <1> DEFINE k == item.id
             s == IF Delivered THEN "sent" ELSE "failed"
  <1>0. /\ TypeOK /\ TypeOK' /\ k \in Items /\ k < nextId
        /\ queue[k].status \in {s, "absent"}
        /\ nextId' = nextId /\ queue' = queue
    BY Zenon DEF Inv, EmitWebhook, WorkerShape, MarkedBeforeWebhook
  <1>1. s \in Settled
    BY Zenon DEF Settled
  <1>2. \A i \in Items : i \in Int /\ nextId \in Int
    BY <1>0, PushAssumption DEF TypeOK, Items
  <1>3. LifecycleState' = LifecycleState
    BY <1>0, StateIsPhase, NextStateIsPhase, Zenon
  <1>4. CASE ~p
    <2>1. webhooks' = webhooks
      BY <1>4, Zenon DEF EmitWebhook
    <2> QED
      BY <1>0, <2>1, SamePhases, Zenon
  <1>5. CASE p
    <2>1. webhooks' = [webhooks EXCEPT ![k][s] = @ + 1]
      BY <1>5, Zenon DEF EmitWebhook
    <2>2. \A t \in Settled : webhooks[k][t] = 0
      BY <1>0, Zenon DEF Inv, WebhookCredit
    <2>3. webhooks \in [Items -> [Settled -> Nat]]
      BY <1>0, Zenon DEF TypeOK
    <2>4. webhooks'[k][s] = 1 /\ \A t \in Settled : t # s => webhooks'[k][t] = 0
      BY <1>0, <1>1, <2>1, <2>2, <2>3
    <2>5. \A i \in Items : i # k => webhooks'[i] = webhooks[i]
      BY <1>0, <2>1, <2>3, Zenon
    <2>6. Announced[k] = {}
      BY <1>0, <2>2 DEF Announced
    <2>7. Announced' = [Announced EXCEPT ![k] = {s}]
      <3>1. {t \in Settled : webhooks'[k][t] > 0} = {s}
        BY <1>1, <2>4
      <3>2. Announced' = [i \in Items |-> {t \in Settled : webhooks'[i][t] > 0}]
        BY Zenon DEF Announced
      <3>3. \A i \in Items : Announced'[i] = IF i = k THEN {s} ELSE Announced[i]
        BY <1>0, <2>5, <3>1, <3>2, Zenon DEF Announced
      <3> HIDE DEF s, k
      <3>4. [Announced EXCEPT ![k] = {s}] = [i \in Items |-> IF i = k THEN {s} ELSE Announced[i]]
        BY Zenon DEF Announced
      <3> QED
        BY <3>2, <3>3, <3>4, Zenon
    <2>8. LifecycleState[k] \in {s, "removed"}
      BY <1>0, <1>1, <1>2, StateIsPhase DEF Phase, Settled
    <2>9. PICK i \in Items, o \in Settled : i = k /\ o = s
      BY <1>0, <1>1, Zenon
    <2> HIDE DEF s, k
    <2>10. Lifecycle!Announce(i, o)
      BY <1>3, <2>6, <2>7, <2>8, <2>9, Zenon DEF Lifecycle!Announce, Announced
    <2> QED
      BY <2>10, Zenon DEF Lifecycle!LifecycleNext
  <1> QED
    BY <1>4, <1>5, Zenon

(* Claims are taken and returned inside the phase "queued".                *)
LEMMA ClaimsStutter ==
    ASSUME Inv, Inv', ReclaimStale \/ (\E i \in Items : Claim(i)) \/ Tick
    PROVE  UNCHANGED Lifecycle!lifecycleVars
  <1>0. TypeOK /\ TypeOK' /\ nextId' = nextId /\ webhooks' = webhooks
    BY Zenon DEF Inv, ReclaimStale, Claim, Tick, history
  <1>1. \A i \in Items : queue[i] \in Row
    BY <1>0, Zenon DEF TypeOK
  <1>2. CASE ReclaimStale
    <2>1. \A i \in Items : \/ queue'[i] = queue[i]
                           \/ queue[i].status = "processing" /\ queue'[i] = SetClaim(queue[i], "pending")
      BY <1>2, Zenon DEF ReclaimStale
    <2>2. \A i \in Items : Phase(queue'[i].status) = Phase(queue[i].status)
      BY <1>1, <2>1, RowStatus DEF Phase, Statuses
    <2> QED
      BY <1>0, <2>2, SamePhases, Zenon
  <1>3. CASE \E i \in Items : Claim(i)
    <2>1. PICK k \in Items : Claim(k)
      BY <1>3, Zenon
    <2>2. \A i \in Items : \/ queue'[i] = queue[i]
                           \/ queue[i].status = "pending" /\ queue'[i] = SetClaim(queue[i], "processing")
      BY <1>0, <2>1, Zenon DEF Claim, TypeOK
    <2>3. \A i \in Items : Phase(queue'[i].status) = Phase(queue[i].status)
      BY <1>1, <2>2, RowStatus DEF Phase, Statuses
    <2> QED
      BY <1>0, <2>3, SamePhases, Zenon
  <1>4. CASE Tick
    <2>1. \A i \in Items : queue'[i].status = queue[i].status
      BY <1>1, <1>4, RowOlder, Zenon DEF Tick
    <2> QED
      BY <1>0, <2>1, SamePhases, Zenon
  <1> QED
    BY <1>2, <1>3, <1>4, Zenon

(* Steps that write neither rows nor webhooks stutter.                     *)
LEMMA OthersStutter ==
    ASSUME Inv, Inv', UNCHANGED <<queue, nextId, webhooks>>
    PROVE  UNCHANGED Lifecycle!lifecycleVars
  BY SamePhases, Zenon DEF Inv

(* Rows disappear with their user or when they are old.                    *)
LEMMA DeletionsRemove ==
    ASSUME Inv, Inv', (\E u \in Users : DeleteUser(u)) \/ (\E h \in BOOLEAN : Rest(h))
    PROVE  Lifecycle!LifecycleNext
  <1>0. TypeOK /\ TypeOK' /\ nextId' = nextId /\ webhooks' = webhooks
    BY Zenon DEF Inv, DeleteUser, Rest, history
  <1>1. \A i \in Items : queue'[i] = queue[i] \/ queue'[i] = NoRow
    BY <1>0, Zenon DEF DeleteUser, Rest, TypeOK
  <1> QED
    BY <1>0, <1>1, NoRowType, Removal, Zenon

-----------------------------------------------------------------------------
(* Every step of the queue is a step of the lifecycle or none.             *)
LEMMA StepRefines ==
    ASSUME Inv, Inv', [Next]_vars
    PROVE  [Lifecycle!LifecycleNext]_(Lifecycle!lifecycleVars)
  <1>1. CASE \E u \in Users, d \in Delays : EnqueuePush(u, d)
    BY <1>1, EnqueueAccepts, Zenon
  <1>2. CASE \E u \in Users, e \in Endpoints :
                SaveSubscription(u, e) \/ DeleteSubscription(u, e)
    BY <1>2, OthersStutter, Zenon DEF SaveSubscription, DeleteSubscription, history
  <1>3. CASE \E u \in Users : DeleteUser(u)
    BY <1>3, DeletionsRemove, Zenon
  <1>4. CASE Worker
    <2>1. CASE ReclaimStale \/ \E i \in Items : Claim(i)
      BY <2>1, ClaimsStutter, Zenon
    <2>2. CASE SelectDue \/ BatchDone \/ FetchItem \/ LoadSubscriptions
      BY <2>2, OthersStutter, Zenon DEF SelectDue, BatchDone, FetchItem, LoadSubscriptions, history
    <2>3. CASE \E e \in Endpoints, o \in {"ok", "gone", "terminal", "failure"} : Answer(e, o)
      BY <2>3, OthersStutter, Zenon DEF Answer
    <2>4. CASE \E e \in Endpoints : Prune(e)
      BY <2>4, OthersStutter, Zenon DEF Prune, history
    <2>5. CASE \E b \in Backoffs : Mark(b)
      BY <2>5, MarkSettles, Zenon
    <2>6. CASE \E p \in BOOLEAN : EmitWebhook(p)
      BY <2>6, WebhookAnnounces, Zenon
    <2>7. CASE \E h \in BOOLEAN : Rest(h)
      BY <2>7, DeletionsRemove, Zenon
    <2> QED
      BY <1>4, <2>1, <2>2, <2>3, <2>4, <2>5, <2>6, <2>7, Zenon DEF Worker
  <1>5. CASE DbError \/ Crash
    BY <1>5, OthersStutter, Zenon DEF DbError, Crash, history
  <1>6. CASE Tick
    BY <1>6, ClaimsStutter, Zenon
  <1>7. CASE UNCHANGED vars
    BY <1>7, OthersStutter, Zenon DEF vars
  <1> QED
    BY <1>1, <1>2, <1>3, <1>4, <1>5, <1>6, <1>7, Zenon DEF Next

(* The empty queue is the lifecycle's initial state.                       *)
LEMMA InitRefines == Init => Lifecycle!LifecycleInit
  <1> SUFFICES ASSUME Init PROVE Lifecycle!LifecycleInit
    BY Zenon
  <1>1. TypeOK
    BY InitInv, Zenon DEF Inv
  <1>2. \A i \in Items : i >= nextId
    BY PushAssumption DEF Init, Items
  <1>3. LifecycleState = [i \in Items |-> "none"]
    BY <1>1, <1>2, StateIsPhase, Zenon
  <1>4. Announced = [i \in Items |-> {}]
    BY DEF Init, Announced, Settled
  <1> QED
    BY <1>3, <1>4, Zenon DEF Lifecycle!LifecycleInit, Announced

(* Whatever the worker, its faults and the requests do, each message is    *)
(* accepted once, settled once, announced at most once with the status it  *)
(* settled with, and removed for good.                                     *)
THEOREM QueueImplementsLifecycle == Spec => ImplementsLifecycle
  <1>1. Inv /\ Inv' /\ [Next]_vars => [Lifecycle!LifecycleNext]_(Lifecycle!lifecycleVars)
    BY StepRefines, Zenon
  <1> QED
    BY <1>1, InitRefines, Invariance, PTL DEF Spec, ImplementsLifecycle, Lifecycle!LifecycleSpec

-----------------------------------------------------------------------------
(* PushEnqueue, for any number of concurrent requests, messages, keys and  *)
(* faults, and any limit.                                                  *)

(* Requests are records; what they carry does not matter here.             *)
Shaped(r) ==
    r = [pc |-> r.pc, todo |-> r.todo, id |-> r.id, results |-> r.results, reply |-> r.reply]

Shape ==
    /\ req = [c \in Clients |-> req[c]]
    /\ \A c \in Clients : Shaped(req[c])
    /\ nextRow \in Nat /\ used \in Nat /\ lost \in Nat

EnqueueInv == Shape /\ KeyNamesOneRow /\ EveryRowCharged /\ OverrunBounded

-----------------------------------------------------------------------------
(* Counting a set of requests that one request joins or leaves.            *)
LEMMA Counting ==
    ASSUME NEW S \in SUBSET Clients, NEW c \in Clients
    PROVE  /\ Cardinality(S) \in Nat /\ Cardinality(S) <= Cardinality(Clients)
           /\ Cardinality(S \cup {c}) = IF c \in S THEN Cardinality(S) ELSE Cardinality(S) + 1
           /\ Cardinality(S \ {c}) = IF c \in S THEN Cardinality(S) - 1 ELSE Cardinality(S)
  <1>1. IsFiniteSet(Clients) /\ IsFiniteSet(S)
    BY EnqueueAssumption, FS_Subset, Zenon
  <1>2. Cardinality(S) \in Nat
    BY <1>1, FS_CardinalityType, Zenon
  <1> QED
    BY <1>1, <1>2, FS_Subset, FS_AddElement, FS_RemoveElement, Zenon

(* There is a request, so the bound on the overrun is not below the limit. *)
LEMMA SomeClient == Cardinality(Clients) \in Nat /\ Cardinality(Clients) > 0
  <1>1. Cardinality(Clients) \in Nat
    BY EnqueueAssumption, FS_CardinalityType, Zenon
  <1>2. Cardinality(Clients) # 0
    BY EnqueueAssumption, FS_EmptySet, Zenon
  <1> QED
    BY <1>1, <1>2

(* The requests that count when one of them moves.                         *)
LEMMA Moving ==
    ASSUME NEW c \in Clients, \A d \in Clients \ {c} : req'[d].pc = req[d].pc
    PROVE  /\ Charging' = IF req'[c].pc = "record" THEN Charging \cup {c} ELSE Charging \ {c}
           /\ PastQuota' = IF req'[c].pc \in {"insert", "record"}
                           THEN PastQuota \cup {c} ELSE PastQuota \ {c}
  BY Zenon DEF Charging, PastQuota, At

(* Goto, Refuse and Accepted leave the other requests alone.               *)
LEMMA Goes ==
    ASSUME Shape, NEW c \in Clients, NEW label, Goto(c, label)
    PROVE  /\ req' = [d \in Clients |-> req'[d]] /\ \A d \in Clients : Shaped(req'[d])
           /\ \A d \in Clients \ {c} : req'[d].pc = req[d].pc
           /\ req'[c].pc = label
  BY DEF Shape, Shaped, Goto

(* The same for an error response.                                         *)
LEMMA Refuses ==
    ASSUME Shape, NEW c \in Clients, NEW code, Refuse(c, code)
    PROVE  /\ req' = [d \in Clients |-> req'[d]] /\ \A d \in Clients : Shaped(req'[d])
           /\ \A d \in Clients \ {c} : req'[d].pc = req[d].pc
           /\ req'[c].pc = "idle"
  BY Zenon DEF Shape, Shaped, Refuse, Idle

(* The same when a message is done.                                        *)
LEMMA Accepts ==
    ASSUME Shape, NEW c \in Clients, NEW id, Accepted(c, id)
    PROVE  /\ req' = [d \in Clients |-> req'[d]] /\ \A d \in Clients : Shaped(req'[d])
           /\ \A d \in Clients \ {c} : req'[d].pc = req[d].pc
           /\ req'[c].pc \in {"idle", "verify"}
  <1> DEFINE ids == Append(req[c].results, id)
             new == IF Len(req[c].todo) = 1
                    THEN [Idle EXCEPT !.results = ids, !.reply = "created"]
                    ELSE [req[c] EXCEPT !.pc = "verify", !.todo = Tail(@), !.id = 0, !.results = ids]
  <1>1. req' = [req EXCEPT ![c] = new]
    BY Zenon DEF Accepted
  <1>2. Shaped(new) /\ new.pc \in {"idle", "verify"}
    <2> HIDE DEF ids
    <2>1. CASE Len(req[c].todo) = 1
      BY <2>1, Zenon DEF Shaped, Idle
    <2>2. CASE Len(req[c].todo) # 1
      <3>1. new = [req[c] EXCEPT !.pc = "verify", !.todo = Tail(@), !.id = 0, !.results = ids]
        BY <2>2, Zenon
      <3>2. Shaped(req[c])
        BY Zenon DEF Shape
      <3> QED
        BY <3>1, <3>2, Zenon DEF Shaped
    <2> QED
      BY <2>1, <2>2, Zenon
  <1> HIDE DEF new
  <1> QED
    BY <1>1, <1>2, Zenon DEF Shape

(* A request whose row was inserted.                                       *)
LEMMA Charged ==
    ASSUME NEW r, NEW n, Shaped(r)
    PROVE  /\ Shaped([r EXCEPT !.pc = "record", !.id = n])
           /\ [r EXCEPT !.pc = "record", !.id = n].pc = "record"
  <1>1. PICK new : new = [r EXCEPT !.pc = "record", !.id = n]
    BY Zenon
  <1>2. Shaped(new) /\ new.pc = "record"
    BY <1>1, Zenon DEF Shaped
  <1> QED
    BY <1>1, <1>2, Zenon

(* A request outside the counted section that stays outside, and writes    *)
(* nothing, keeps every count.                                             *)
LEMMA Outside ==
    ASSUME EnqueueInv, NEW c \in Clients, UNCHANGED <<rows, nextRow, used, lost>>,
           req' = [d \in Clients |-> req'[d]], \A d \in Clients : Shaped(req'[d]),
           \A d \in Clients \ {c} : req'[d].pc = req[d].pc,
           req[c].pc \notin {"insert", "record"}, req'[c].pc \notin {"insert", "record"}
    PROVE  EnqueueInv'
  <1>1. Charging' = Charging /\ PastQuota' = PastQuota
    BY Moving, Zenon DEF Charging, PastQuota, At
  <1> QED
    BY <1>1, Zenon DEF EnqueueInv, Shape, KeyNamesOneRow, EveryRowCharged, OverrunBounded

-----------------------------------------------------------------------------
(* Before any request nothing is charged.                                  *)
LEMMA EnqueueInitInv == EnqueueInit => EnqueueInv
  <1> SUFFICES ASSUME EnqueueInit PROVE EnqueueInv
    BY Zenon
  <1>1. Charging = {} /\ PastQuota = {}
    BY Zenon DEF EnqueueInit, Idle, Charging, PastQuota, At
  <1>2. Cardinality({}) = 0
    BY FS_EmptySet, Zenon
  <1> QED
    BY <1>1, <1>2, SomeClient, EnqueueAssumption
    DEF EnqueueInit, EnqueueInv, Shape, Shaped, Idle, KeyNamesOneRow, EveryRowCharged, OverrunBounded

(* Requests before the quota check.                                        *)
LEMMA BeforeQuotaInv ==
    ASSUME EnqueueInv, NEW c \in Clients,
           VerifyTarget(c) \/ LookupKey(c)
    PROVE  EnqueueInv'
  <1>1. Shape
    BY Zenon DEF EnqueueInv
  <1>2. CASE VerifyTarget(c)
    BY <1>1, <1>2, Goes, Refuses, Outside DEF VerifyTarget, At
  <1>3. CASE LookupKey(c)
    BY <1>1, <1>3, Goes, Accepts, Outside DEF LookupKey, At
  <1> QED
    BY <1>2, <1>3, Zenon

(* A new request.                                                          *)
LEMMA SendInv ==
    ASSUME EnqueueInv, NEW c \in Clients, NEW msgs, Send(c, msgs)
    PROVE  EnqueueInv'
  <1>1. /\ req' = [d \in Clients |-> req'[d]] /\ \A d \in Clients : Shaped(req'[d])
        /\ \A d \in Clients \ {c} : req'[d].pc = req[d].pc
        /\ req'[c].pc = "verify"
    BY Zenon DEF EnqueueInv, Shape, Shaped, Send, Idle
  <1> QED
    BY <1>1, Outside, Zenon DEF Send, At

(* The check of the quota lets a request pass only below the limit, and    *)
(* at most all the others have passed it before.                           *)
LEMMA CheckQuotaInv ==
    ASSUME EnqueueInv, NEW c \in Clients, CheckQuota(c)
    PROVE  EnqueueInv'
  <1>1. Shape
    BY Zenon DEF EnqueueInv
  <1>2. CASE used + 1 > Limit
    BY <1>1, <1>2, Refuses, Outside, Zenon DEF CheckQuota, At
  <1>3. CASE ~(used + 1 > Limit)
    <2>1. /\ Goto(c, "insert") /\ UNCHANGED <<rows, nextRow, used, lost>>
          /\ c \notin Charging
      BY <1>3, Zenon DEF CheckQuota, At, Charging
    <2>2. Charging' = Charging /\ PastQuota' = PastQuota \cup {c}
      <3>1. req'[c].pc = "insert" /\ \A d \in Clients \ {c} : req'[d].pc = req[d].pc
        BY <1>1, <2>1, Goes, Zenon
      <3>2. Charging' = Charging \ {c} /\ PastQuota' = PastQuota \cup {c}
        BY <3>1, Moving, Zenon
      <3> QED
        BY <2>1, <3>2, Zenon
    <2>3. Cardinality(PastQuota \cup {c}) \in Nat
          /\ Cardinality(PastQuota \cup {c}) <= Cardinality(Clients)
      BY Counting, Zenon DEF PastQuota
    <2>4. OverrunBounded'
      BY <1>1, <1>3, <2>1, <2>2, <2>3, SomeClient, EnqueueAssumption DEF OverrunBounded, Shape
    <2>5. Shape'
      BY <1>1, <2>1, Goes, Zenon DEF Shape
    <2> QED
      BY <2>1, <2>2, <2>4, <2>5, Zenon DEF EnqueueInv, KeyNamesOneRow, EveryRowCharged
  <1> QED
    BY <1>2, <1>3, Zenon

(* The unique index refuses a second row with a key, and the row that is   *)
(* stored is charged next.                                                 *)
LEMMA InsertInv ==
    ASSUME EnqueueInv, NEW c \in Clients, Insert(c)
    PROVE  EnqueueInv'
  <1>1. Shape /\ At(c, "insert") /\ UNCHANGED <<used, lost>>
    BY Zenon DEF EnqueueInv, Insert
  <1>2. /\ c \in PastQuota /\ c \notin Charging
        /\ Charging \in SUBSET Clients /\ PastQuota \in SUBSET Clients
    BY <1>1, Zenon DEF At, PastQuota, Charging
  <1>3. CASE InsertFails(Current(c))
    <2>1. Refuse(c, "internal_error") /\ UNCHANGED <<rows, nextRow>>
      BY <1>3, Zenon DEF Insert
    <2>2. Charging' = Charging /\ PastQuota' = PastQuota \ {c}
      <3>1. req'[c].pc = "idle" /\ \A d \in Clients \ {c} : req'[d].pc = req[d].pc
        BY <1>1, <2>1, Refuses, Zenon
      <3>2. Charging' = Charging \ {c} /\ PastQuota' = PastQuota \ {c}
        BY <3>1, Moving, Zenon
      <3> QED
        BY <1>2, <3>2, Zenon
    <2>3. OverrunBounded'
      BY <1>1, <1>2, <2>2, Counting, SomeClient, EnqueueAssumption DEF EnqueueInv, OverrunBounded, Shape
    <2>4. Shape'
      BY <1>1, <2>1, Refuses, Zenon DEF Shape
    <2> QED
      BY <1>1, <2>1, <2>2, <2>3, <2>4, Zenon DEF EnqueueInv, KeyNamesOneRow, EveryRowCharged
  <1>4. CASE ~InsertFails(Current(c))
    <2> DEFINE row == [id |-> nextRow, target |-> Current(c).target, key |-> Current(c).key]
    <2>1. /\ rows' = rows \cup {row} /\ nextRow' = nextRow + 1
          /\ req' = [req EXCEPT ![c].pc = "record", ![c].id = nextRow]
      BY <1>4, Zenon DEF Insert
    <2>2. /\ req' = [d \in Clients |-> req'[d]] /\ \A d \in Clients : Shaped(req'[d])
          /\ \A d \in Clients \ {c} : req'[d].pc = req[d].pc
          /\ req'[c].pc = "record"
      <3>1. req' = [req EXCEPT ![c] = [req[c] EXCEPT !.pc = "record", !.id = nextRow]]
        <4> DEFINE moved == [req EXCEPT ![c].pc = "record"]
        <4>1. moved[c] = [req[c] EXCEPT !.pc = "record"]
          BY <1>1, Zenon DEF Shape
        <4>2. req' = [moved EXCEPT ![c] = [moved[c] EXCEPT !.id = nextRow]]
          BY <2>1, Zenon
        <4>3. req' = [moved EXCEPT ![c] = [req[c] EXCEPT !.pc = "record", !.id = nextRow]]
          BY <4>1, <4>2, Zenon
        <4> QED
          BY <1>1, <4>3, Zenon DEF Shape
      <3>2. /\ Shaped([req[c] EXCEPT !.pc = "record", !.id = nextRow])
            /\ [req[c] EXCEPT !.pc = "record", !.id = nextRow].pc = "record"
        <4>1. Shaped(req[c])
          BY <1>1, Zenon DEF Shape
        <4> QED
          BY <4>1, Charged, Zenon
      <3> QED
        BY <1>1, <3>1, <3>2, Zenon DEF Shape
    <2>3. Charging' = Charging \cup {c} /\ PastQuota' = PastQuota
      <3>1. Charging' = Charging \cup {c} /\ PastQuota' = PastQuota \cup {c}
        BY <2>2, Moving, Zenon
      <3> QED
        BY <1>2, <3>1, Zenon
    <2>4. Shape'
      BY <1>1, <2>1, <2>2 DEF Shape
    <2>5. KeyNamesOneRow'
      <3>1. \A r \in rows : r.key = row.key => row.key = NoKey
        BY <1>4, Zenon DEF InsertFails, WithKey
      <3> QED
        BY <2>1, <3>1, Zenon DEF EnqueueInv, KeyNamesOneRow
    <2>6. EveryRowCharged'
      <3>1. used + lost + Cardinality(Charging) = nextRow - 1
        BY Zenon DEF EnqueueInv, EveryRowCharged
      <3>2. Cardinality(Charging') = Cardinality(Charging) + 1 /\ Cardinality(Charging) \in Nat
        BY <1>2, <2>3, Counting, Zenon
      <3> QED
        BY <1>1, <2>1, <3>1, <3>2 DEF EveryRowCharged, Shape
    <2> QED
      BY <1>1, <2>3, <2>4, <2>5, <2>6, Zenon DEF EnqueueInv, OverrunBounded
  <1> QED
    BY <1>3, <1>4, Zenon

(* A charge moves a row from those about to be charged to the counter, or  *)
(* to those lost.                                                          *)
LEMMA RecordUsageInv ==
    ASSUME EnqueueInv, NEW c \in Clients, NEW ok \in BOOLEAN, RecordUsage(c, ok)
    PROVE  EnqueueInv'
  <1>1. /\ Shape /\ At(c, "record") /\ UNCHANGED <<rows, nextRow>> /\ Accepted(c, req[c].id)
        /\ used' + lost' = used + lost + 1 /\ used' \in Nat /\ lost' \in Nat
        /\ used' <= used + 1
    BY DEF EnqueueInv, RecordUsage, Shape
  <1>2. /\ c \in PastQuota /\ c \in Charging
        /\ Charging \in SUBSET Clients /\ PastQuota \in SUBSET Clients
    BY <1>1, Zenon DEF At, PastQuota, Charging
  <1>3. Charging' = Charging \ {c} /\ PastQuota' = PastQuota \ {c}
    BY <1>1, Accepts, Moving, Zenon
  <1>4. /\ Cardinality(Charging') = Cardinality(Charging) - 1 /\ Cardinality(Charging) \in Nat
        /\ Cardinality(PastQuota') = Cardinality(PastQuota) - 1 /\ Cardinality(PastQuota) \in Nat
    BY <1>2, <1>3, Counting, Zenon
  <1>5. Shape'
    BY <1>1, Accepts, Zenon DEF Shape
  <1>6. EveryRowCharged'
    BY <1>1, <1>4 DEF EnqueueInv, EveryRowCharged, Shape
  <1>7. OverrunBounded'
    BY <1>1, <1>4, SomeClient, EnqueueAssumption DEF EnqueueInv, OverrunBounded, Shape
  <1> QED
    BY <1>1, <1>5, <1>6, <1>7, Zenon DEF EnqueueInv, KeyNamesOneRow

(* Rows deleted with their user or when they are old stay charged.         *)
LEMMA DeletionInv ==
    ASSUME EnqueueInv, rows' \in SUBSET rows, UNCHANGED <<nextRow, used, req, lost>>
    PROVE  EnqueueInv'
  BY Zenon DEF EnqueueInv, Shape, KeyNamesOneRow, EveryRowCharged, OverrunBounded, Charging, PastQuota, At

(* A crash loses the charges of the rows just inserted.                    *)
LEMMA RestartInv ==
    ASSUME EnqueueInv, Restart
    PROVE  EnqueueInv'
  <1>1. Charging' = {} /\ PastQuota' = {}
    BY Zenon DEF Restart, Idle, Charging, PastQuota, At
  <1>2. Cardinality({}) = 0
    BY FS_EmptySet, Zenon
  <1>3. lost' = lost + Cardinality(Charging) /\ UNCHANGED <<rows, nextRow, used>>
    BY Zenon DEF Restart, Charging
  <1>4. Cardinality(Charging) \in Nat /\ Cardinality(PastQuota) \in Nat
    BY EnqueueAssumption, FS_Subset, FS_CardinalityType, Zenon DEF Charging, PastQuota
  <1>5. Shape'
    BY <1>3, <1>4 DEF Restart, EnqueueInv, Shape, Shaped, Idle
  <1> QED
    BY <1>1, <1>2, <1>3, <1>4, <1>5, SomeClient, EnqueueAssumption
    DEF EnqueueInv, Shape, KeyNamesOneRow, EveryRowCharged, OverrunBounded

-----------------------------------------------------------------------------
(* Every step preserves the invariant.                                     *)
LEMMA EnqueueNextInv == EnqueueInv /\ [EnqueueNext]_enqueueVars => EnqueueInv'
  <1> SUFFICES ASSUME EnqueueInv, [EnqueueNext]_enqueueVars PROVE EnqueueInv'
    BY Zenon
  <1>1. ASSUME NEW c \in Clients,
               \/ \E n \in 1..MaxBatch : \E msgs \in [1..n -> Message] : Send(c, msgs)
               \/ VerifyTarget(c) \/ LookupKey(c) \/ CheckQuota(c) \/ Insert(c)
               \/ \E ok \in BOOLEAN : RecordUsage(c, ok)
        PROVE  EnqueueInv'
    BY <1>1, SendInv, BeforeQuotaInv, CheckQuotaInv, InsertInv, RecordUsageInv, Zenon
  <1>2. CASE \E u \in UserIds : DeleteAdminUser(u)
    BY <1>2, DeletionInv, Zenon DEF DeleteAdminUser
  <1>3. CASE \E r \in rows : CleanUp(r)
    BY <1>3, DeletionInv, Zenon DEF CleanUp
  <1>4. CASE Restart
    BY <1>4, RestartInv, Zenon
  <1>5. CASE UNCHANGED enqueueVars
    BY <1>5, DeletionInv, Zenon DEF enqueueVars
  <1> QED
    BY <1>1, <1>2, <1>3, <1>4, <1>5, Zenon DEF EnqueueNext

(* EnqueueInv is inductive: calls of enqueue_push and enqueue_batch keep   *)
(* it however their checks, insertions and charges interleave or fail.     *)
THEOREM EnqueueInvariance == EnqueueSpec => []EnqueueInv
  BY EnqueueInitInv, EnqueueNextInv, PTL DEF EnqueueSpec

(* Whatever requests, restarts and deletions do, record_usage counts every *)
(* row inserted once, or an ignored error or a crash lost that one charge. *)
THEOREM ChargedOnce == EnqueueSpec => []EveryRowCharged
  <1>1. EnqueueInv => EveryRowCharged
    BY Zenon DEF EnqueueInv
  <1> QED
    BY <1>1, EnqueueInvariance, PTL

(* However many requests pass the quota check together, they overrun the   *)
(* limit by less than their number.                                        *)
THEOREM BoundedOverrun == EnqueueSpec => []OverrunBounded
  <1>1. EnqueueInv => OverrunBounded
    BY Zenon DEF EnqueueInv
  <1> QED
    BY <1>1, EnqueueInvariance, PTL

(* Any number of requests with one idempotency key store one row.          *)
THEOREM UniqueKeys == EnqueueSpec => []KeyNamesOneRow
  <1>1. EnqueueInv => KeyNamesOneRow
    BY Zenon DEF EnqueueInv
  <1> QED
    BY <1>1, EnqueueInvariance, PTL
=============================================================================
