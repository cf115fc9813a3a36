--------------------------- MODULE ClientsProofs ----------------------------
(***************************************************************************)
(* Proofs about the clients of the server: the SDK (PeanutClient) and the  *)
(* lists of the console (ConsoleViews).                                    *)
(***************************************************************************)
EXTENDS PeanutClient, ConsoleViews, FiniteSetTheorems, TLAPS

(* The time a leaf may take. *)
USE SMTT(30)

-----------------------------------------------------------------------------
(* Proofs about PeanutClient for any number of calls, retries, token pairs *)
(* and faults.  The number of executions is bounded through what can still *)
(* be executed: those and the attempts on their way are together no more   *)
(* than the attempts made (CallOK).  That a refusal has its reason needs   *)
(* an account of the refresh tokens that are no longer live (TokensOK).    *)

\* Refresh token t was used by a request that took effect.
Spent(t) == \E d \in Calls : call[d].arg = t /\ done[d] >= 1

\* What is known of a call, at every point of fetchWithRetry and request.
CallOK(c) ==
    /\ call[c].pc = "idle" => done[c] = 0 /\ wire[c] = {} /\ call[c].op = "write"
    /\ wire[c] \subseteq 0 .. call[c].attempt
    /\ done[c] + Cardinality(wire[c]) <= call[c].attempt + 1
    /\ call[c].pc = "delay" => call[c].attempt < MaxRetries
    /\ call[c].answer.status = "ok" => done[c] >= 1
    /\ call[c].pc = "resolved" => call[c].answer.status = "ok"
    /\ call[c].op \in {"refresh", "logout"} => call[c].arg \in 1 .. issued
    /\ call[c].op = "logout" => call[c].answer.pair = 0
    /\ call[c].answer.pair <= issued
    /\ call[c].answer.status = "refused" =>
          \/ call[c].op = "delete" /\ done[c] >= 1
          \/ call[c].op = "refresh" /\ Spent(call[c].arg)

CallsOK == \A c \in Calls : CallOK(c)

\* Tokens in the application's hands were issued; one that is not live
\* was used.
TokensOK ==
    /\ \A t \in known : t <= issued
    /\ \A t \in 1 .. issued : t \in live \/ Spent(t)

SignedOutOK ==
    signedOut /\ ~crossed => accessToken = 0 /\ \A c \in Calls : ~SigningIn(c)

ClientInv == ClientTypeOK /\ CallsOK /\ TokensOK /\ SignedOutOK

-----------------------------------------------------------------------------
\* A step of call c: no other call is touched, and what was done and issued
\* stays so.
StepOf(c) ==
    /\ call' \in [Calls -> CallRecord] /\ wire' \in [Calls -> SUBSET Attempts]
    /\ done' \in [Calls -> Nat] /\ issued' \in 0 .. MaxPairs
    /\ \A d \in Calls \ {c} : call'[d] = call[d] /\ wire'[d] = wire[d] /\ done'[d] = done[d]
    /\ done[c] <= done'[c] /\ issued <= issued'
    /\ call'[c].arg = call[c].arg \/ done[c] = 0

\* Nobody begins to sign in, or the client counts as signed in.
StaysSignedOut ==
    signedOut' /\ ~crossed' =>
        /\ signedOut /\ ~crossed /\ accessToken' = accessToken
        /\ \A c \in Calls : SigningIn(c)' => SigningIn(c)

(* A token that was used stays so.                                         *)
LEMMA SpentStays ==
    ASSUME ClientInv, NEW c \in Calls, StepOf(c), NEW t, Spent(t)
    PROVE  Spent(t)'
<1>1. PICK d \in Calls : call[d].arg = t /\ done[d] >= 1
  BY Zenon DEF Spent
<1>2. done[d] \in Nat /\ done'[d] \in Nat
  BY Zenon DEF StepOf, ClientInv, ClientTypeOK
<1>3. call'[d].arg = t /\ done'[d] >= 1
  BY <1>1, <1>2 DEF StepOf
<1> QED
  BY <1>3, Zenon DEF Spent

(* A step of one call leaves what is known of the others.                  *)
LEMMA OthersKept ==
    ASSUME ClientInv, NEW c \in Calls, StepOf(c), CallOK(c)'
    PROVE  CallsOK'
<1> SUFFICES ASSUME NEW d \in Calls, d # c PROVE CallOK(d)'
  BY Zenon DEF CallsOK
<1>1. call'[d] = call[d] /\ wire'[d] = wire[d] /\ done'[d] = done[d] /\ CallOK(d)
  BY Zenon DEF StepOf, ClientInv, CallsOK
<1>2. issued \in Nat /\ issued' \in Nat /\ issued <= issued' /\ call[d].answer.pair \in Nat
  BY ClientAssumption DEF StepOf, ClientInv, ClientTypeOK, CallRecord, Answers
<1>3. call[d].answer.pair <= issued' /\ (call[d].arg \in 1 .. issued => call[d].arg \in 1 .. issued')
  BY <1>1, <1>2 DEF CallOK
<1>4. Spent(call[d].arg) => Spent(call[d].arg)'
  <2> SUFFICES ASSUME Spent(call[d].arg) PROVE Spent(call[d].arg)'
    BY Zenon
  <2>1. PICK e \in Calls : call[e].arg = call[d].arg /\ done[e] >= 1
    BY Zenon DEF Spent
  <2>2. done[e] \in Nat /\ done'[e] \in Nat
    BY Zenon DEF StepOf, ClientInv, ClientTypeOK
  <2>3. call'[e].arg = call'[d].arg /\ done'[e] >= 1
    BY <1>1, <2>1, <2>2 DEF StepOf
  <2> QED
    BY <2>3, Zenon DEF Spent
<1> QED
  BY <1>1, <1>3, <1>4, Zenon DEF CallOK

(* So a step of a call has to be examined for that call alone, unless it   *)
(* revokes a token or changes what the application knows.                  *)
LEMMA CallStep ==
    ASSUME ClientInv, NEW c \in Calls, StepOf(c), CallOK(c)',
           live' = live, issued' = issued, known' = known, StaysSignedOut,
           accessToken' \in 0 .. MaxPairs, faults' \in 0 .. MaxFaults,
           signedOut' \in BOOLEAN, crossed' \in BOOLEAN
    PROVE  ClientInv'
<1>1. ClientTypeOK'
  BY Zenon DEF ClientInv, ClientTypeOK, StepOf
<1>2. CallsOK'
  BY OthersKept, Zenon
<1>3. TokensOK'
  <2>1. ASSUME NEW t \in 1 .. issued, t \notin live PROVE Spent(t)'
    BY <2>1, SpentStays, Zenon DEF ClientInv, TokensOK
  <2> QED
    BY <2>1, Zenon DEF ClientInv, TokensOK
<1>4. SignedOutOK'
  BY Zenon DEF ClientInv, SignedOutOK, StaysSignedOut
<1> QED
  BY <1>1, <1>2, <1>3, <1>4, Zenon DEF ClientInv

(* The types of one call, in arithmetic terms.                             *)
LEMMA CallTypes ==
    ASSUME ClientTypeOK, NEW c \in Calls
    PROVE  /\ call[c] \in CallRecord /\ call[c].attempt \in 0 .. MaxRetries /\ call[c].attempt \in Nat
           /\ call[c].answer \in Answers /\ call[c].answer.pair \in Nat /\ call[c].arg \in Nat
           /\ done[c] \in Nat /\ wire[c] \subseteq Attempts
           /\ IsFiniteSet(wire[c]) /\ Cardinality(wire[c]) \in Nat
<1>1. /\ call[c] \in CallRecord /\ done[c] \in Nat /\ wire[c] \subseteq 0 .. MaxRetries
  BY Zenon DEF ClientTypeOK, Attempts
<1>2. /\ call[c].attempt \in 0 .. MaxRetries /\ call[c].answer \in Answers /\ call[c].arg \in 0 .. MaxPairs
  BY <1>1, Zenon DEF CallRecord, Attempts
<1>3. IsFiniteSet(0 .. MaxRetries)
  BY ClientAssumption, FS_Interval
<1>4. IsFiniteSet(wire[c]) /\ Cardinality(wire[c]) \in Nat
  BY <1>1, <1>3, FS_Subset, FS_CardinalityType, Zenon
<1> QED
  BY <1>1, <1>2, <1>4, ClientAssumption DEF Answers, Attempts

(* fetchWithRetry and request move on, without sending or receiving.       *)
LEMMA MoveInv ==
    ASSUME ClientInv, NEW c \in Calls,
           NEW p \in {"delay", "body", "stalled", "resolved", "rejected"},
           call[c].pc \notin {"idle", "resolved", "rejected"}, call' = [call EXCEPT ![c].pc = p],
           p = "delay" => call[c].attempt < MaxRetries,
           p = "resolved" => call[c].answer.status = "ok"
    PROVE  /\ UNCHANGED <<wire, done, issued>> => StepOf(c) /\ CallOK(c)'
           /\ \A d \in Calls : SigningIn(d)' => SigningIn(d)
           /\ \A d \in Calls : call'[d].arg = call[d].arg /\ call'[d].answer = call[d].answer
<1>1. PICK new : new = [call[c] EXCEPT !.pc = p]
  BY Zenon
<1>2. call[c] \in CallRecord
  BY CallTypes, Zenon DEF ClientInv
<1>3. /\ new \in CallRecord /\ new.pc = p /\ new.op = call[c].op /\ new.attempt = call[c].attempt
      /\ new.arg = call[c].arg /\ new.answer = call[c].answer
  BY <1>1, <1>2, Zenon DEF CallRecord
<1>4. call' = [call EXCEPT ![c] = new]
  BY <1>1, Zenon
<1>5. call' \in [Calls -> CallRecord] /\ call'[c] = new /\ \A d \in Calls \ {c} : call'[d] = call[d]
  BY <1>3, <1>4, Zenon DEF ClientInv, ClientTypeOK
<1>6. \A d \in Calls : call'[d].arg = call[d].arg /\ call'[d].answer = call[d].answer
  BY <1>3, <1>5, Zenon
<1>7. \A d \in Calls : SigningIn(d)' => SigningIn(d)
  BY <1>3, <1>5, Zenon DEF SigningIn, InFlight, Settled
<1>8. ASSUME UNCHANGED <<wire, done, issued>> PROVE StepOf(c) /\ CallOK(c)'
  <2>1. StepOf(c)
    BY <1>3, <1>5, <1>8, CallTypes, ClientAssumption DEF StepOf, ClientInv, ClientTypeOK
  <2>2. CallOK(c)
    BY Zenon DEF ClientInv, CallsOK
  <2>3. call[c].answer.status = "refused" =>
            \/ call[c].op = "delete" /\ done[c] >= 1
            \/ call[c].op = "refresh" /\ Spent(call[c].arg)'
    <3>1. Spent(call[c].arg)' <=> Spent(call[c].arg)
      BY <1>6, <1>8, Zenon DEF Spent
    <3>2. call[c].answer.status = "refused" =>
              \/ call[c].op = "delete" /\ done[c] >= 1
              \/ call[c].op = "refresh" /\ Spent(call[c].arg)
      BY <2>2, Zenon DEF CallOK
    <3> QED
      BY <3>1, <3>2, Zenon
  <2>4. CallOK(c)'
    BY <1>3, <1>5, <1>8, <2>2, <2>3, Zenon DEF CallOK
  <2> QED
    BY <2>1, <2>4, Zenon
<1> QED
  BY <1>6, <1>7, <1>8, Zenon

(* The headers arrive, fetch throws, or the body fails.                    *)
LEMMA WaitInv ==
    ASSUME ClientInv, NEW c \in Calls, Headers(c) \/ FetchThrows(c) \/ BodyFails(c)
    PROVE  ClientInv'
<1>1. /\ UNCHANGED <<accessToken, wire, live, issued, done, known, signedOut, crossed>>
      /\ call[c].pc \notin {"idle", "resolved", "rejected"}
  BY Zenon DEF Headers, FetchThrows, BodyFails
<1>2. faults' \in 0 .. MaxFaults
  BY ClientAssumption DEF Headers, FetchThrows, BodyFails, ClientInv, ClientTypeOK
<1>3. \E p \in {"delay", "body", "stalled", "rejected"} :
         call' = [call EXCEPT ![c].pc = p] /\ (p = "delay" => call[c].attempt # MaxRetries)
  BY Zenon DEF Headers, FetchThrows, BodyFails, LastAttempt
<1>4. PICK p \in {"delay", "body", "stalled", "rejected"} :
         call' = [call EXCEPT ![c].pc = p] /\ (p = "delay" => call[c].attempt # MaxRetries)
  BY <1>3, Zenon
<1>5. call[c].attempt # MaxRetries => call[c].attempt < MaxRetries
  BY CallTypes, ClientAssumption DEF ClientInv
<1>6. StepOf(c) /\ CallOK(c)' /\ \A d \in Calls : SigningIn(d)' => SigningIn(d)
  BY <1>1, <1>4, <1>5, MoveInv, Zenon
<1>7. StaysSignedOut
  BY <1>1, <1>6, Zenon DEF StaysSignedOut
<1>8. accessToken' \in 0 .. MaxPairs /\ signedOut' \in BOOLEAN /\ crossed' \in BOOLEAN
  BY <1>1, Zenon DEF ClientInv, ClientTypeOK
<1> QED
  BY <1>1, <1>2, <1>6, <1>7, <1>8, CallStep, Zenon

(* A retry puts one more attempt on its way.                               *)
LEMMA RetryInv ==
    ASSUME ClientInv, NEW c \in Calls, Retry(c)
    PROVE  ClientInv'
<1>1. PICK new : new = [call[c] EXCEPT !.pc = "fetch", !.attempt = @ + 1, !.answer = NoAnswer]
  BY Zenon
<1>2. call[c] \in CallRecord /\ call[c].pc = "delay" /\ CallOK(c)
  BY CallTypes, Zenon DEF ClientInv, CallsOK, Retry
<1>3. call[c].attempt + 1 \in Attempts /\ call[c].attempt \in Nat
  BY <1>2, CallTypes, ClientAssumption DEF ClientInv, CallOK, Attempts
<1>4. NoAnswer \in Answers /\ NoAnswer.status = "none" /\ NoAnswer.pair = 0
  BY ClientAssumption DEF NoAnswer, Answers
<1>5. /\ new \in CallRecord /\ new.pc = "fetch" /\ new.op = call[c].op
      /\ new.attempt = call[c].attempt + 1 /\ new.arg = call[c].arg /\ new.answer = NoAnswer
  BY <1>1, <1>2, <1>3, <1>4, Zenon DEF CallRecord
<1>6. /\ call' = [call EXCEPT ![c] = new] /\ wire' = [wire EXCEPT ![c] = @ \cup {call[c].attempt + 1}]
      /\ UNCHANGED <<accessToken, live, issued, done, known, signedOut, crossed, faults>>
  BY <1>1, Zenon DEF Retry
<1>7. /\ call' \in [Calls -> CallRecord] /\ call'[c] = new
      /\ \A d \in Calls \ {c} : call'[d] = call[d]
  BY <1>5, <1>6, Zenon DEF ClientInv, ClientTypeOK
<1>8. /\ wire' \in [Calls -> SUBSET Attempts] /\ wire'[c] = wire[c] \cup {call[c].attempt + 1}
      /\ \A d \in Calls \ {c} : wire'[d] = wire[d]
  BY <1>3, <1>6, Zenon DEF ClientInv, ClientTypeOK
<1>9. StepOf(c)
  BY <1>5, <1>6, <1>7, <1>8, CallTypes, ClientAssumption DEF StepOf, ClientInv, ClientTypeOK
<1>10. Cardinality(wire'[c]) <= Cardinality(wire[c]) + 1 /\ Cardinality(wire'[c]) \in Nat
  <2>1. IsFiniteSet(wire[c]) /\ Cardinality(wire[c]) \in Nat
    BY CallTypes, Zenon DEF ClientInv
  <2>2. IsFiniteSet(wire'[c]) /\ (Cardinality(wire'[c]) = Cardinality(wire[c]) + 1 \/ wire'[c] = wire[c])
    <3>1. PICK w, a : w = wire[c] /\ a = call[c].attempt + 1
      BY Zenon
    <3>2. /\ IsFiniteSet(w \cup {a})
          /\ Cardinality(w \cup {a}) = (IF a \in w THEN Cardinality(w) ELSE Cardinality(w) + 1)
      BY <2>1, <3>1, FS_AddElement, Zenon
    <3> QED
      BY <1>8, <3>1, <3>2, Zenon
  <2> QED
    BY <2>1, <2>2
<1>11. CallOK(c)'
  <2>1. done[c] \in Nat /\ Cardinality(wire[c]) \in Nat /\ issued \in Nat
    BY CallTypes, ClientAssumption DEF ClientInv, ClientTypeOK
  <2>2. wire'[c] \subseteq 0 .. new.attempt
    BY <1>2, <1>3, <1>5, <1>8 DEF CallOK
  <2>3. done'[c] + Cardinality(wire'[c]) <= new.attempt + 1
    BY <1>2, <1>3, <1>5, <1>6, <1>10, <2>1 DEF CallOK
  <2> QED
    BY <1>2, <1>4, <1>5, <1>6, <1>7, <2>1, <2>2, <2>3 DEF CallOK
<1>12. StaysSignedOut
  BY <1>2, <1>5, <1>6, <1>7, Zenon DEF StaysSignedOut, SigningIn, InFlight, Settled
<1>13. /\ accessToken' \in 0 .. MaxPairs /\ faults' \in 0 .. MaxFaults
       /\ signedOut' \in BOOLEAN /\ crossed' \in BOOLEAN
  BY <1>6, Zenon DEF ClientInv, ClientTypeOK
<1> QED
  BY <1>6, <1>9, <1>11, <1>12, <1>13, CallStep, Zenon

(* A request is made, with a token the application was given.              *)
LEMMA RequestInv ==
    ASSUME ClientInv, NEW c \in Calls, NEW op \in Ops, NEW arg \in 0 .. MaxPairs, Request(c, op, arg),
           op \in {"refresh", "logout"} => arg \in known
    PROVE  ClientInv'
<1>1. NoAnswer \in Answers /\ NoAnswer.status = "none" /\ NoAnswer.pair = 0
  BY ClientAssumption DEF NoAnswer, Answers
<1>2. PICK new : new = [op |-> op, pc |-> "fetch", attempt |-> 0, arg |-> arg, answer |-> NoAnswer]
  BY Zenon
<1>3. new \in CallRecord /\ 0 \in Attempts
  BY <1>1, <1>2, ClientAssumption DEF CallRecord, Attempts
<1>4. /\ new.op = op /\ new.pc = "fetch" /\ new.attempt = 0 /\ new.arg = arg /\ new.answer = NoAnswer
  BY <1>2, Zenon
<1>5. /\ call[c].pc = "idle" /\ call' = [call EXCEPT ![c] = new] /\ wire' = [wire EXCEPT ![c] = {0}]
      /\ signedOut' = (signedOut /\ op \notin {"login", "refresh"})
      /\ UNCHANGED <<accessToken, live, issued, done, known, crossed, faults>>
  BY <1>2, Zenon DEF Request
<1>6. /\ call' \in [Calls -> CallRecord] /\ call'[c] = new
      /\ \A d \in Calls \ {c} : call'[d] = call[d]
      /\ wire' \in [Calls -> SUBSET Attempts] /\ wire'[c] = {0}
      /\ \A d \in Calls \ {c} : wire'[d] = wire[d]
  BY <1>3, <1>5, Zenon DEF ClientInv, ClientTypeOK
<1>7. done[c] = 0
  BY <1>5, Zenon DEF ClientInv, CallsOK, CallOK
<1>8. StepOf(c)
  BY <1>5, <1>6, <1>7, ClientAssumption DEF StepOf, ClientInv, ClientTypeOK
<1>9. op \in {"refresh", "logout"} => arg \in 1 .. issued
  BY ClientAssumption DEF ClientInv, ClientTypeOK, TokensOK, Pairs
<1>10. Cardinality({0}) = 1 /\ issued \in Nat
  BY FS_Singleton, ClientAssumption DEF ClientInv, ClientTypeOK
<1>11. CallOK(c)'
  BY <1>1, <1>4, <1>5, <1>6, <1>7, <1>9, <1>10 DEF CallOK
<1>12. StaysSignedOut
  <2>1. ASSUME signedOut', NEW d \in Calls, SigningIn(d)' PROVE SigningIn(d)
    BY <1>4, <1>5, <1>6, <2>1, Zenon DEF SigningIn, InFlight, Settled
  <2> QED
    BY <1>5, <2>1, Zenon DEF StaysSignedOut
<1>13. /\ accessToken' \in 0 .. MaxPairs /\ faults' \in 0 .. MaxFaults
       /\ signedOut' \in BOOLEAN /\ crossed' \in BOOLEAN
  BY <1>5, Zenon DEF ClientInv, ClientTypeOK
<1> QED
  BY <1>5, <1>8, <1>11, <1>12, <1>13, CallStep, Zenon

-----------------------------------------------------------------------------
\* What the client and the network make of an answer.
Answering(c, answer) ==
    \/ call' = call
    \/ call[c].pc = "fetch" /\ call' = [call EXCEPT ![c].answer = answer]

\* What is promised of the server's effect e of a request of call c.
EffectOK(c, e) ==
    /\ e.applied \in {0, 1} /\ e.issued \in {issued, issued + 1}
    /\ e.live \subseteq live \cup {issued + 1}
    /\ issued + 1 \in e.live => e.issued = issued + 1 \/ issued + 1 \in live
    /\ e.issued = issued + 1 => issued + 1 \in e.live
    /\ \A t \in live \ e.live : t = call[c].arg /\ e.applied = 1
    /\ e.answer \in [status : {"ok", "refused"}, pair : Nat] /\ e.answer.pair <= e.issued
    /\ call[c].op = "logout" => e.answer.pair = 0
    /\ e.answer.status = "ok" => done[c] >= 1 \/ e.applied = 1
    /\ e.answer.status = "refused" =>
          \/ call[c].op = "delete" /\ done[c] >= 1
          \/ call[c].op = "refresh" /\ call[c].arg \notin live

(* The server keeps the promise for each kind of request.                  *)
LEMMA EffectOfRequest ==
    ASSUME ClientInv, NEW c \in Calls
    PROVE  EffectOK(c, Effect(c))
<1>1. issued \in Nat /\ done[c] \in Nat /\ call[c].op \in Ops
  BY CallTypes, ClientAssumption DEF ClientInv, ClientTypeOK, CallRecord
<1>2. CASE call[c].op = "login"
  <2>1. Effect(c) = [live |-> live \cup {issued + 1}, issued |-> issued + 1,
                     answer |-> [status |-> "ok", pair |-> issued + 1], applied |-> 1]
    BY <1>2, Zenon DEF Effect, NewPair, Ok
  <2> QED
    BY <1>1, <1>2, <2>1 DEF EffectOK
<1>3. CASE call[c].op = "refresh" /\ call[c].arg \in live
  <2>1. Effect(c) = [live |-> (live \ {call[c].arg}) \cup {issued + 1}, issued |-> issued + 1,
                     answer |-> [status |-> "ok", pair |-> issued + 1], applied |-> 1]
    BY <1>3, Zenon DEF Effect, RefreshSession, NewPair, Ok
  <2> QED
    BY <1>1, <1>3, <2>1 DEF EffectOK
<1>4. CASE call[c].op = "refresh" /\ call[c].arg \notin live
  <2>1. Effect(c) = [live |-> live, issued |-> issued, answer |-> [status |-> "refused", pair |-> 0],
                     applied |-> 0]
    BY <1>4, Zenon DEF Effect, RefreshSession, NotApplied, Refused
  <2> QED
    BY <1>1, <1>4, <2>1 DEF EffectOK
<1>5. CASE call[c].op = "logout"
  <2>1. Effect(c) = [live |-> live \ {call[c].arg}, issued |-> issued,
                     answer |-> [status |-> "ok", pair |-> 0], applied |-> 1]
    BY <1>5, Zenon DEF Effect, Applied, Ok
  <2> QED
    BY <1>1, <1>5, <2>1 DEF EffectOK
<1>6. CASE call[c].op \in {"write", "put"} \/ (call[c].op \in {"keyed", "delete"} /\ ~(done[c] > 0))
  <2>1. Effect(c) = [live |-> live, issued |-> issued, answer |-> [status |-> "ok", pair |-> 0],
                     applied |-> 1]
    BY <1>6, Zenon DEF Effect, Applied, Ok
  <2> QED
    BY <1>1, <1>6, <2>1 DEF EffectOK
<1>7. CASE call[c].op = "keyed" /\ done[c] > 0
  <2>1. Effect(c) = [live |-> live, issued |-> issued, answer |-> [status |-> "ok", pair |-> 0],
                     applied |-> 0]
    BY <1>7, Zenon DEF Effect, NotApplied, Ok
  <2> QED
    BY <1>1, <1>7, <2>1 DEF EffectOK
<1>8. CASE call[c].op = "delete" /\ done[c] > 0
  <2>1. Effect(c) = [live |-> live, issued |-> issued, answer |-> [status |-> "refused", pair |-> 0],
                     applied |-> 0]
    BY <1>8, Zenon DEF Effect, NotApplied, Refused
  <2> QED
    BY <1>1, <1>8, <2>1 DEF EffectOK
<1> QED
  BY <1>1, <1>2, <1>3, <1>4, <1>5, <1>6, <1>7, <1>8, Zenon DEF Ops, AuthOps

(* An attempt leaves the wire, with or without an answer to the client.    *)
LEMMA AttemptEnds ==
    ASSUME ClientInv, NEW c \in Calls, NEW a \in wire[c], NEW answer \in Answers,
           wire' = [wire EXCEPT ![c] = @ \ {a}], Answering(c, answer)
    PROVE  /\ call' \in [Calls -> CallRecord] /\ wire' \in [Calls -> SUBSET Attempts]
           /\ \A d \in Calls \ {c} : call'[d] = call[d] /\ wire'[d] = wire[d]
           /\ call'[c].op = call[c].op /\ call'[c].pc = call[c].pc /\ call'[c].attempt = call[c].attempt
           /\ call'[c].arg = call[c].arg /\ call[c].pc # "idle"
           /\ \/ call'[c].answer = call[c].answer
              \/ call[c].pc = "fetch" /\ call'[c].answer = answer
           /\ wire'[c] = wire[c] \ {a} /\ Cardinality(wire'[c]) = Cardinality(wire[c]) - 1
           /\ StaysSignedOut \/ ~UNCHANGED <<signedOut, crossed, accessToken>>
<1>1. call[c].pc # "idle"
  BY Zenon DEF ClientInv, CallsOK, CallOK
<1>2. /\ wire' \in [Calls -> SUBSET Attempts] /\ \A d \in Calls \ {c} : wire'[d] = wire[d]
      /\ wire'[c] = wire[c] \ {a}
  BY Zenon DEF ClientInv, ClientTypeOK
<1>3. Cardinality(wire'[c]) = Cardinality(wire[c]) - 1
  <2>1. PICK w : w = wire[c]
    BY Zenon
  <2>2. Cardinality(w \ {a}) = Cardinality(w) - 1
    BY <2>1, CallTypes, FS_RemoveElement, Zenon DEF ClientInv
  <2> QED
    BY <1>2, <2>1, <2>2, Zenon
<1>4. /\ call' \in [Calls -> CallRecord] /\ \A d \in Calls \ {c} : call'[d] = call[d]
      /\ call'[c].op = call[c].op /\ call'[c].pc = call[c].pc /\ call'[c].attempt = call[c].attempt
      /\ call'[c].arg = call[c].arg
      /\ \/ call'[c].answer = call[c].answer
         \/ call[c].pc = "fetch" /\ call'[c].answer = answer
  <2>1. CASE call' = call
    BY <2>1, Zenon DEF ClientInv, ClientTypeOK
  <2>2. CASE call[c].pc = "fetch" /\ call' = [call EXCEPT ![c].answer = answer]
    <3>1. PICK new : new = [call[c] EXCEPT !.answer = answer]
      BY Zenon
    <3>2. /\ new \in CallRecord /\ new.op = call[c].op /\ new.pc = call[c].pc
          /\ new.attempt = call[c].attempt /\ new.arg = call[c].arg /\ new.answer = answer
      BY <3>1, CallTypes, Zenon DEF ClientInv, CallRecord
    <3>3. call' = [call EXCEPT ![c] = new]
      BY <2>2, <3>1, Zenon
    <3> QED
      BY <2>2, <3>2, <3>3, Zenon DEF ClientInv, ClientTypeOK
  <2> QED
    BY <2>1, <2>2, Zenon DEF Answering
<1>5. ASSUME UNCHANGED <<signedOut, crossed, accessToken>> PROVE StaysSignedOut
  BY <1>4, <1>5, Zenon DEF StaysSignedOut, SigningIn, InFlight, Settled
<1> QED
  BY <1>1, <1>2, <1>3, <1>4, <1>5, Zenon

(* A request is lost or turned away.                                       *)
LEMMA LoseInv ==
    ASSUME ClientInv, NEW c \in Calls, NEW a \in wire[c], Lose(c, a)
    PROVE  ClientInv'
<1>1. Transient \in Answers /\ Transient.status = "transient" /\ Transient.pair = 0
  BY ClientAssumption DEF Transient, Answers
<1>2. Answering(c, Transient)
  BY Zenon DEF Lose, AnswerArrives, Awaits, Answering
<1>3. /\ wire' = [wire EXCEPT ![c] = @ \ {a}]
      /\ UNCHANGED <<accessToken, live, issued, done, known, signedOut, crossed>>
  BY Zenon DEF Lose
<1>4. PICK answer : answer = Transient
  BY Zenon
<1>5. Answering(c, answer) /\ answer \in Answers
  BY <1>1, <1>2, <1>4, Zenon
<1>6. /\ call' \in [Calls -> CallRecord] /\ wire' \in [Calls -> SUBSET Attempts]
      /\ \A d \in Calls \ {c} : call'[d] = call[d] /\ wire'[d] = wire[d]
      /\ call'[c].op = call[c].op /\ call'[c].pc = call[c].pc /\ call'[c].attempt = call[c].attempt
      /\ call'[c].arg = call[c].arg
      /\ \/ call'[c].answer = call[c].answer
         \/ call[c].pc = "fetch" /\ call'[c].answer = answer
      /\ wire'[c] = wire[c] \ {a} /\ Cardinality(wire'[c]) = Cardinality(wire[c]) - 1
      /\ StaysSignedOut
  BY <1>3, <1>5, AttemptEnds, Zenon
<1>7. StepOf(c)
  BY <1>3, <1>6, CallTypes, ClientAssumption DEF StepOf, ClientInv, ClientTypeOK
<1>8. CallOK(c)'
  <2>1. CallOK(c)
    BY Zenon DEF ClientInv, CallsOK
  <2>2. /\ done[c] \in Nat /\ Cardinality(wire[c]) \in Nat /\ call[c].attempt \in Nat /\ issued \in Nat
    BY CallTypes, ClientAssumption DEF ClientInv, ClientTypeOK
  <2>3. Spent(call[c].arg) => Spent(call[c].arg)'
    <3>1. \A d \in Calls : call'[d].arg = call[d].arg
      BY <1>6, Zenon
    <3> QED
      BY <1>3, <3>1, Zenon DEF Spent
  <2>4. /\ done'[c] + Cardinality(wire'[c]) <= call'[c].attempt + 1
        /\ wire'[c] \subseteq 0 .. call'[c].attempt
    BY <1>3, <1>6, <2>1, <2>2 DEF CallOK
  <2>5. CASE call'[c].answer = call[c].answer
    BY <1>3, <1>6, <2>1, <2>3, <2>4, <2>5 DEF CallOK
  <2>6. CASE call[c].pc = "fetch" /\ call'[c].answer = Transient
    BY <1>1, <1>3, <1>6, <2>1, <2>2, <2>4, <2>6 DEF CallOK
  <2> QED
    BY <1>4, <1>6, <2>5, <2>6, Zenon
<1>9. accessToken' \in 0 .. MaxPairs /\ signedOut' \in BOOLEAN /\ crossed' \in BOOLEAN
  BY <1>3, Zenon DEF ClientInv, ClientTypeOK
<1>10. faults' \in 0 .. MaxFaults
  BY ClientAssumption DEF Lose, ClientInv, ClientTypeOK
<1> QED
  BY <1>3, <1>6, <1>7, <1>8, <1>9, <1>10, CallStep, Zenon

(* The server executes an attempt.  If it revokes a token, it is the one   *)
(* of the request, which counts as done.                                   *)
LEMMA ExecuteInv ==
    ASSUME ClientInv, NEW c \in Calls, NEW a \in wire[c], Execute(c, a)
    PROVE  ClientInv'
<1>1. PICK e : e = Effect(c)
  BY Zenon
<1>2. EffectOK(c, e)
  BY <1>1, EffectOfRequest, Zenon
<1>3. /\ wire' = [wire EXCEPT ![c] = @ \ {a}] /\ live' = e.live /\ issued' = e.issued
      /\ e.issued \in 0 .. MaxPairs /\ done' = [done EXCEPT ![c] = @ + e.applied]
      /\ UNCHANGED <<accessToken, known, signedOut, crossed>>
  BY <1>1, Zenon DEF Execute
<1>4. /\ done[c] \in Nat /\ Cardinality(wire[c]) \in Nat /\ call[c].attempt \in Nat /\ issued \in Nat
      /\ CallOK(c)
  BY CallTypes, ClientAssumption DEF ClientInv, ClientTypeOK, CallsOK
<1>5. /\ Transient \in Answers /\ Transient.status = "transient" /\ Transient.pair = 0
  BY ClientAssumption DEF Transient, Answers
<1>6. e.answer \in Answers
  <2>1. e.answer \in [status : {"ok", "refused"}, pair : Nat] /\ e.answer.pair <= e.issued
    BY <1>2, Zenon DEF EffectOK
  <2>2. e.answer.pair \in 0 .. MaxPairs
    BY <1>3, <2>1, ClientAssumption
  <2> QED
    BY <2>1, <2>2, Zenon DEF Answers
<1>7. PICK answer \in {e.answer, Transient} : Answering(c, answer)
  <2>1. Answering(c, e.answer) \/ Answering(c, Transient)
    BY <1>1, Zenon DEF Execute, AnswerArrives, Awaits, Answering
  <2> QED
    BY <2>1, Zenon
<1>8. answer \in Answers
  BY <1>5, <1>6, <1>7, Zenon
<1>9. /\ call' \in [Calls -> CallRecord] /\ wire' \in [Calls -> SUBSET Attempts]
      /\ \A d \in Calls \ {c} : call'[d] = call[d] /\ wire'[d] = wire[d]
      /\ call'[c].op = call[c].op /\ call'[c].pc = call[c].pc /\ call'[c].attempt = call[c].attempt
      /\ call'[c].arg = call[c].arg /\ call[c].pc # "idle"
      /\ \/ call'[c].answer = call[c].answer
         \/ call[c].pc = "fetch" /\ call'[c].answer = answer
      /\ wire'[c] = wire[c] \ {a} /\ Cardinality(wire'[c]) = Cardinality(wire[c]) - 1
      /\ StaysSignedOut
  BY <1>3, <1>7, <1>8, AttemptEnds, Zenon
<1>10. /\ done' \in [Calls -> Nat] /\ done'[c] = done[c] + e.applied /\ e.applied \in {0, 1}
       /\ \A d \in Calls \ {c} : done'[d] = done[d]
  BY <1>2, <1>3, <1>4 DEF EffectOK, ClientInv, ClientTypeOK
<1>11. issued <= issued' /\ issued' \in Nat
  BY <1>2, <1>3, <1>4 DEF EffectOK
<1>12. StepOf(c)
  BY <1>3, <1>4, <1>9, <1>10, <1>11 DEF StepOf
<1>13. call[c].arg \in 1 .. issued /\ (call[c].arg \notin live \/ Spent(call[c].arg)) => Spent(call[c].arg)'
  <2> SUFFICES ASSUME call[c].arg \in 1 .. issued, call[c].arg \notin live \/ Spent(call[c].arg)
               PROVE  Spent(call[c].arg)'
    BY Zenon
  <2>1. PICK t : t = call[c].arg
    BY Zenon
  <2>2. Spent(t)
    <3>1. t \in live \/ Spent(t)
      BY <2>1 DEF ClientInv, TokensOK
    <3> QED
      BY <2>1, <3>1, Zenon
  <2>3. Spent(t)'
    BY <1>12, <2>2, SpentStays, Zenon
  <2> QED
    BY <1>9, <2>1, <2>3, Zenon
<1>14. CallOK(c)'
  <2>1. /\ done'[c] + Cardinality(wire'[c]) <= call'[c].attempt + 1
        /\ wire'[c] \subseteq 0 .. call'[c].attempt
    BY <1>4, <1>9, <1>10 DEF CallOK
  <2>2. call'[c].op \in {"refresh", "logout"} => call'[c].arg \in 1 .. issued /\ call'[c].arg \in 1 .. issued'
    BY <1>4, <1>9, <1>11 DEF CallOK
  <2>3. done[c] >= 1 => done'[c] >= 1
    BY <1>4, <1>10
  <2>4. CASE call'[c].answer = call[c].answer
    <3>1. call[c].answer.pair \in Nat
      BY CallTypes, Zenon DEF ClientInv
    <3>2. call'[c].answer.pair <= issued'
      BY <1>4, <1>11, <2>4, <3>1 DEF CallOK
    <3>3. call'[c].answer.status = "refused" =>
              \/ call'[c].op = "delete" /\ done'[c] >= 1
              \/ call'[c].op = "refresh" /\ Spent(call[c].arg)'
      <4>1. call[c].answer.status = "refused" =>
                \/ call[c].op = "delete" /\ done[c] >= 1
                \/ call[c].op = "refresh" /\ Spent(call[c].arg)
        BY <1>4, Zenon DEF CallOK
      <4>2. call'[c].answer.status = call[c].answer.status
        BY <2>4, Zenon
      <4> QED
        BY <1>9, <1>13, <2>2, <2>3, <4>1, <4>2, Zenon
    <3> QED
      BY <1>4, <1>9, <2>1, <2>2, <2>3, <2>4, <3>2, <3>3, Zenon DEF CallOK
  <2>5. CASE call[c].pc = "fetch" /\ call'[c].answer = Transient
    BY <1>4, <1>5, <1>9, <1>11, <2>1, <2>2, <2>5 DEF CallOK
  <2>6. CASE call[c].pc = "fetch" /\ call'[c].answer = e.answer
    <3>1. /\ call[c].op = "logout" => e.answer.pair = 0
          /\ e.answer.pair <= issued'
          /\ e.answer.status = "ok" => done'[c] >= 1
      BY <1>2, <1>3, <1>4, <1>10 DEF EffectOK
    <3>2. e.answer.status = "refused" =>
              \/ call'[c].op = "delete" /\ done'[c] >= 1
              \/ call'[c].op = "refresh" /\ Spent(call[c].arg)'
      <4>1. e.answer.status = "refused" =>
                \/ call[c].op = "delete" /\ done[c] >= 1
                \/ call[c].op = "refresh" /\ call[c].arg \notin live
        BY <1>2, Zenon DEF EffectOK
      <4> QED
        BY <1>9, <1>13, <2>2, <2>3, <4>1, Zenon
    <3> QED
      BY <1>9, <2>1, <2>2, <2>6, <3>1, <3>2, Zenon DEF CallOK
  <2> QED
    BY <1>7, <1>9, <2>4, <2>5, <2>6, Zenon
<1>15. ClientTypeOK'
  <2>1. live' \subseteq Pairs
    <3>1. /\ e.live \subseteq live \cup {issued + 1}
          /\ issued + 1 \in e.live => e.issued = issued + 1 \/ issued + 1 \in live
      BY <1>2, Zenon DEF EffectOK
    <3>2. e.issued = issued + 1 => issued + 1 \in Pairs
      BY <1>3, <1>4, ClientAssumption DEF Pairs
    <3> QED
      BY <1>3, <3>1, <3>2 DEF ClientInv, ClientTypeOK
  <2>2. faults' \in 0 .. MaxFaults
    BY ClientAssumption DEF Execute, ClientInv, ClientTypeOK
  <2> QED
    BY <1>3, <1>12, <2>1, <2>2, Zenon DEF ClientInv, ClientTypeOK, StepOf
<1>16. TokensOK'
  <2>1. \A t \in known' : t <= issued'
    BY <1>3, <1>4, <1>11, ClientAssumption DEF ClientInv, ClientTypeOK, TokensOK, Pairs
  <2>2. ASSUME NEW t \in 1 .. issued', t \notin live' PROVE Spent(t)'
    <3>1. t \in 1 .. issued
      <4>1. e.issued \in {issued, issued + 1} /\ (e.issued = issued + 1 => issued + 1 \in e.live)
        BY <1>2, Zenon DEF EffectOK
      <4> QED
        BY <1>3, <1>4, <2>2, <4>1
    <3>2. CASE t \in live
      <4>1. t = call[c].arg /\ e.applied = 1
        BY <1>2, <1>3, <2>2, <3>2, Zenon DEF EffectOK
      <4>2. call'[c].arg = t /\ done'[c] >= 1
        BY <1>4, <1>9, <1>10, <4>1
      <4> QED
        BY <4>2, Zenon DEF Spent
    <3>3. CASE t \notin live
      BY <1>12, <3>1, <3>3, SpentStays, Zenon DEF ClientInv, TokensOK
    <3> QED
      BY <3>2, <3>3, Zenon
  <2> QED
    BY <2>1, <2>2, Zenon DEF TokensOK
<1>17. SignedOutOK'
  BY <1>9, Zenon DEF ClientInv, SignedOutOK, StaysSignedOut
<1>18. CallsOK'
  BY <1>12, <1>14, OthersKept, Zenon
<1> QED
  BY <1>15, <1>16, <1>17, <1>18, Zenon DEF ClientInv

(* A call is settled.  A logout leaves no token; another call that signs   *)
(* in while it is answered is what crossed records.                        *)
LEMMA BodyInv ==
    ASSUME ClientInv, NEW c \in Calls, Body(c)
    PROVE  ClientInv'
<1>1. UNCHANGED <<wire, live, issued, done, faults>> /\ call[c].pc = "body" /\ CallOK(c)
  BY Zenon DEF Body, ClientInv, CallsOK
<1>2. CASE call[c].answer.status # "ok"
  <2>1. call' = [call EXCEPT ![c].pc = "rejected"] /\ UNCHANGED <<accessToken, known, signedOut, crossed>>
    BY <1>2, Zenon DEF Body
  <2>2. StepOf(c) /\ CallOK(c)' /\ \A d \in Calls : SigningIn(d)' => SigningIn(d)
    BY <1>1, <2>1, MoveInv, Zenon
  <2>3. StaysSignedOut
    BY <2>1, <2>2, Zenon DEF StaysSignedOut
  <2>4. /\ accessToken' \in 0 .. MaxPairs /\ faults' \in 0 .. MaxFaults
        /\ signedOut' \in BOOLEAN /\ crossed' \in BOOLEAN
    BY <1>1, <2>1, Zenon DEF ClientInv, ClientTypeOK
  <2> QED
    BY <1>1, <2>1, <2>2, <2>3, <2>4, CallStep, Zenon
<1>3. CASE call[c].answer.status = "ok"
  <2>1. /\ call' = [call EXCEPT ![c].pc = "resolved"] /\ accessToken' = TokenAfter(c)
        /\ known' = known \cup ({call[c].answer.pair} \ {0})
        /\ signedOut' = (signedOut \/ call[c].op = "logout")
        /\ crossed' = (crossed \/ (call[c].op = "logout" /\ \E d \in Calls : SigningIn(d)))
    BY <1>3, Zenon DEF Body
  <2>2. /\ StepOf(c) /\ CallOK(c)' /\ \A d \in Calls : SigningIn(d)' => SigningIn(d)
    BY <1>1, <1>3, <2>1, MoveInv, Zenon
  <2>3. call[c].answer.pair \in 0 .. MaxPairs /\ call[c].answer.pair <= issued
    <3>1. call[c].answer \in Answers
      BY CallTypes, Zenon DEF ClientInv
    <3> QED
      BY <1>1, <3>1, Zenon DEF Answers, CallOK
  <2>4. ClientTypeOK'
    <3>1. accessToken' \in 0 .. MaxPairs
      BY <2>1, <2>3, Zenon DEF TokenAfter, ClientInv, ClientTypeOK
    <3>2. known' \subseteq Pairs
      BY <2>1, <2>3, ClientAssumption DEF ClientInv, ClientTypeOK, Pairs
    <3>3. signedOut' \in BOOLEAN /\ crossed' \in BOOLEAN
      BY <2>1, Zenon
    <3> QED
      BY <1>1, <2>2, <3>1, <3>2, <3>3, Zenon DEF ClientInv, ClientTypeOK, StepOf
  <2>5. CallsOK'
    BY <2>2, OthersKept, Zenon
  <2>6. TokensOK'
    <3>1. \A t \in known' : t <= issued'
      BY <1>1, <2>1, <2>3, Zenon DEF ClientInv, TokensOK
    <3>2. ASSUME NEW t \in 1 .. issued, t \notin live PROVE Spent(t)'
      BY <2>2, <3>2, SpentStays, Zenon DEF ClientInv, TokensOK
    <3> QED
      BY <1>1, <3>1, <3>2, Zenon DEF TokensOK
  <2>7. SignedOutOK'
    <3> SUFFICES ASSUME signedOut', ~crossed'
                 PROVE  accessToken' = 0 /\ \A d \in Calls : ~SigningIn(d)'
      BY Zenon DEF SignedOutOK
    <3>1. CASE call[c].op = "logout"
      <4>1. accessToken' = 0
        BY <1>1, <2>1, <3>1, Zenon DEF TokenAfter, AuthOps, CallOK
      <4>2. \A d \in Calls : ~SigningIn(d)
        BY <2>1, <3>1, Zenon
      <4> QED
        BY <2>2, <4>1, <4>2, Zenon
    <3>2. CASE call[c].op # "logout"
      <4>1. signedOut /\ ~crossed
        BY <2>1, <3>2, Zenon
      <4>2. accessToken = 0 /\ \A d \in Calls : ~SigningIn(d)
        BY <4>1, Zenon DEF ClientInv, SignedOutOK
      <4>3. call[c].op \notin {"login", "refresh"}
        BY <1>1, <4>2, Zenon DEF SigningIn, InFlight, Settled
      <4>4. accessToken' = accessToken
        BY <2>1, <3>2, <4>3, Zenon DEF TokenAfter, AuthOps
      <4> QED
        BY <2>2, <4>2, <4>4, Zenon
    <3> QED
      BY <3>1, <3>2, Zenon
  <2> QED
    BY <2>4, <2>5, <2>6, <2>7, Zenon DEF ClientInv
<1> QED
  BY <1>2, <1>3, Zenon

(* The application sets a token it was given, or none.                     *)
LEMMA SetAccessTokenInv ==
    ASSUME ClientInv, NEW t \in 0 .. MaxPairs, SetAccessToken(t)
    PROVE  ClientInv'
<1>1. /\ accessToken' = t /\ signedOut' = (signedOut /\ t = 0)
      /\ UNCHANGED <<call, wire, live, issued, done, known, crossed, faults>>
  BY Zenon DEF SetAccessToken
<1>2. ClientTypeOK'
  BY <1>1, Zenon DEF ClientInv, ClientTypeOK
<1>3. CallsOK' /\ TokensOK'
  BY <1>1, Zenon DEF ClientInv, CallsOK, CallOK, TokensOK, Spent
<1>4. SignedOutOK'
  BY <1>1, Zenon DEF ClientInv, SignedOutOK, SigningIn, InFlight, Settled
<1> QED
  BY <1>2, <1>3, <1>4, Zenon DEF ClientInv

-----------------------------------------------------------------------------
(* A new client.                                                           *)
LEMMA ClientInitInv == ClientInit => ClientInv
<1> SUFFICES ASSUME ClientInit PROVE ClientInv
  BY Zenon
<1>1. NoAnswer \in Answers /\ NoAnswer.status = "none" /\ NoAnswer.pair = 0
  BY ClientAssumption DEF NoAnswer, Answers
<1>2. PICK new : new = [op |-> "write", pc |-> "idle", attempt |-> 0, arg |-> 0, answer |-> NoAnswer]
  BY Zenon
<1>3. /\ new \in CallRecord /\ new.op = "write" /\ new.pc = "idle" /\ new.attempt = 0
      /\ new.answer = NoAnswer
  BY <1>1, <1>2, ClientAssumption DEF CallRecord, Attempts, Ops
<1>4. call = [c \in Calls |-> new] /\ wire = [c \in Calls |-> {}] /\ done = [c \in Calls |-> 0]
  BY <1>2, Zenon DEF ClientInit
<1>5. /\ accessToken = 0 /\ live = {} /\ issued = 0 /\ known = {} /\ faults = 0
      /\ signedOut = FALSE /\ crossed = FALSE
  BY Zenon DEF ClientInit
<1>6. 0 \in 0 .. MaxPairs /\ 0 \in 0 .. MaxFaults
  BY ClientAssumption
<1>7. ClientTypeOK
  BY <1>3, <1>4, <1>5, <1>6, Zenon DEF ClientTypeOK
<1>8. ASSUME NEW c \in Calls PROVE CallOK(c)
  <2>1. call[c] = new /\ wire[c] = {} /\ done[c] = 0
    BY <1>4, Zenon
  <2>2. Cardinality({}) = 0
    BY FS_EmptySet, Zenon
  <2> QED
    BY <1>1, <1>3, <1>5, <2>1, <2>2 DEF CallOK
<1> QED
  BY <1>5, <1>7, <1>8 DEF ClientInv, CallsOK, TokensOK, SignedOutOK

(* Every step keeps the invariant.                                         *)
LEMMA ClientStepInv == ClientInv /\ [ClientNext]_clientVars => ClientInv'
<1> SUFFICES ASSUME ClientInv, [ClientNext]_clientVars PROVE ClientInv'
  BY Zenon
<1>1. ASSUME NEW c \in Calls,
             Login(c) \/ DataCall(c) \/ StorageCall(c) \/ PushCall(c) \/ Invoke(c)
      PROVE  ClientInv'
  <2>1. \E op \in Ops \ {"refresh", "logout"} : Request(c, op, 0)
    BY <1>1, Zenon DEF Login, DataCall, StorageCall, PushCall, Invoke, Plain, Ops, AuthOps
  <2>2. 0 \in 0 .. MaxPairs
    BY ClientAssumption
  <2> QED
    BY <2>1, <2>2, RequestInv, Zenon
<1>2. ASSUME NEW c \in Calls, NEW t \in Pairs, Refresh(c, t) \/ Logout(c, t) PROVE ClientInv'
  <2>1. t \in 0 .. MaxPairs /\ t \in known
    BY <1>2, ClientAssumption DEF Pairs, Refresh, Logout
  <2>2. \E op \in {"refresh", "logout"} : Request(c, op, t)
    BY <1>2, Zenon DEF Refresh, Logout
  <2>3. {"refresh", "logout"} \subseteq Ops
    BY Zenon DEF Ops, AuthOps
  <2> QED
    BY <2>1, <2>2, <2>3, RequestInv, Zenon
<1>3. CASE UNCHANGED clientVars
  BY <1>3, Zenon DEF clientVars, ClientInv, ClientTypeOK, CallsOK, CallOK, TokensOK, Spent, SignedOutOK,
              SigningIn, InFlight, Settled
<1> QED
  BY <1>1, <1>2, <1>3, ExecuteInv, LoseInv, WaitInv, RetryInv, BodyInv, SetAccessTokenInv, Zenon
  DEF ClientNext, Advance

(* The types and the account of attempts and tokens hold in every          *)
(* reachable state of the client and the server it talks to.               *)
THEOREM ClientInvariance == ClientSpec => [](ClientInv /\ ClientTypeOK)
<1>1. ClientInv => ClientTypeOK
  BY Zenon DEF ClientInv
<1> QED
  BY <1>1, ClientInitInv, ClientStepInv, PTL DEF ClientSpec

(* A call takes effect at most once per attempt of fetchWithRetry, also    *)
(* when abandoned attempts arrive late, and a call that resolves took      *)
(* effect.                                                                 *)
THEOREM ExecutionsAreBounded == ClientSpec => []ExecutionsBounded
<1>1. ClientInv => ExecutionsBounded
  <2> SUFFICES ASSUME ClientInv, NEW c \in Calls
               PROVE  done[c] <= MaxRetries + 1 /\ (call[c].pc = "resolved" => done[c] >= 1)
    BY Zenon DEF ExecutionsBounded
  <2>1. CallOK(c)
    BY Zenon DEF ClientInv, CallsOK
  <2>2. /\ done[c] \in Nat /\ Cardinality(wire[c]) \in Nat /\ call[c].attempt \in Nat
        /\ call[c].attempt <= MaxRetries
    BY CallTypes, ClientAssumption DEF ClientInv
  <2> QED
    BY <2>1, <2>2, ClientAssumption DEF CallOK
<1> QED
  BY <1>1, ClientInvariance, PTL

(* A refresh whose token no other call used, and a delete, are refused     *)
(* only after an earlier attempt of the same call was executed.            *)
THEOREM RefusalsExplained == ClientSpec => []RefusedOnlyIfDone
<1>1. ClientInv => RefusedOnlyIfDone
  <2> SUFFICES ASSUME ClientInv, NEW c \in Calls, call[c].answer = Refused,
                      call[c].op = "delete" \/ \A d \in Calls \ {c} : call[d].arg # call[c].arg
               PROVE  done[c] >= 1
    BY Zenon DEF RefusedOnlyIfDone
  <2>1. call[c].answer.status = "refused"
    BY DEF Refused
  <2>2. \/ call[c].op = "delete" /\ done[c] >= 1
        \/ call[c].op = "refresh" /\ Spent(call[c].arg)
    BY <2>1, Zenon DEF ClientInv, CallsOK, CallOK
  <2> QED
    BY <2>2, Zenon DEF Spent
<1> QED
  BY <1>1, ClientInvariance, PTL

(* After a logout no token is sent until somebody signs in, unless a login *)
(* or a refresh was in flight when the logout was answered.                *)
THEOREM LogoutLasts == ClientSpec => []SignedOutStays
<1>1. ClientInv => SignedOutStays
  BY Zenon DEF ClientInv, SignedOutOK, SignedOutStays
<1> QED
  BY <1>1, ClientInvariance, PTL

-----------------------------------------------------------------------------
(* ConsoleViews, for any number of apps, items and operations.  A list     *)
(* that is not current is refetched by a query under way, or an answer to  *)
(* come will invalidate it (AllWillBeCurrent).                             *)

\* The answer to an operation will invalidate query k, which it changed.
Refreshes(s, k) ==
    /\ pending[s].pc = "done"
    /\ \E kind \in pending[s].op.changes \cap pending[s].op.invalidates :
          k = QueryKey(kind, pending[s].app, pending[s].item)

Awaiting(k) == \E s \in OpSlots : Refreshes(s, k)

\* Old data is about to be replaced, or an answer to come sees to it; what a
\* fetch has read and is out of date, an answer to come sees to.
WillBeCurrent(k) ==
    k \notin late /\ k.kind \notin NeverRefreshed =>
        /\ cache[k].data = "old" =>
              Awaiting(k) \/ cache[k].invalid \/ cache[k].fetch \in {"asked", "current"}
        /\ cache[k].fetch = "old" => Awaiting(k)

\* An operation in flight is one of the view, and about an item if it creates
\* one or changes what belongs to one.
NewNamed(s) == pending[s].op.by = "new" => pending[s].item \in Items

CallsOfView ==
    \A s \in OpSlots : pending[s].pc # "idle" =>
        /\ pending[s].op \in ViewContent[view].ops /\ pending[s].app \in Apps
        /\ pending[s].item \in Items \/ pending[s].op.changes \cap ViewContent[view].details = {}
        /\ NewNamed(s)

AllWillBeCurrent == \A k \in Keys : WillBeCurrent(k)

ListsInv == ConsoleTypeOK /\ CallsOfView /\ AllWillBeCurrent

-----------------------------------------------------------------------------
(* What is true of every operation of every view.                          *)
AnswerRefreshes(op, details) ==
    \A kind \in op.changes :
        kind \in op.invalidates \/ kind \in NeverRefreshed \/ (op.name = "delete" /\ kind \in details)

Shows(v) ==
    /\ v.items \subseteq v.lists /\ v.lists \cap v.details = {}
    /\ \A op \in v.ops :
          /\ op.changes \subseteq v.lists \cup v.details
          /\ op.by = "view" => op.changes \cap v.details = {}
          /\ AnswerRefreshes(op, v.details)
          /\ op.by \in {"view", "new", "row", "active", "typed"}
          /\ op.closure \in {"view", "name", "id"}
          /\ op.select \in {"keep", "item", "none"}

LEMMA ViewsShow == \A v \in DOMAIN ViewContent : Shows(ViewContent[v])
  <1> USE DEF Shows, AnswerRefreshes, NeverRefreshed, View, Op
  <1>1. Shows(ViewContent.apps)
    <2>1. ViewContent.apps = View(AppsView \cup AppRowActions, {"apps"}, {"apps"}, {})
      BY Zenon DEF ViewContent
    <2>2. Shows(View(AppsView \cup AppRowActions, {"apps"}, {"apps"}, {}))
      BY DEF AppsView, AppRowActions
    <2> QED
      BY <2>1, <2>2, Zenon
  <1>2. Shows(ViewContent.keys)
    <2>1. ViewContent.keys = View(KeysView \cup KeyRowActions, {}, {"keys"}, {})
      BY Zenon DEF ViewContent
    <2>2. Shows(View(KeysView \cup KeyRowActions, {}, {"keys"}, {}))
      BY DEF KeysView, KeyRowActions
    <2> QED
      BY <2>1, <2>2, Zenon
  <1>3. Shows(ViewContent.auth)
    <2>1. ViewContent.auth = View(AuthView \cup AuthUserActions \cup SessionActions, {"users"}, {"users"}, {"sessions"})
      BY Zenon DEF ViewContent
    <2>2. Shows(View(AuthView \cup AuthUserActions \cup SessionActions, {"users"}, {"users"}, {"sessions"}))
      BY DEF AuthView, AuthUserActions, SessionActions
    <2> QED
      BY <2>1, <2>2, Zenon
  <1>4. Shows(ViewContent.data)
    <2>1. ViewContent.data = View(DataView \cup DataTableActions \cup DataRowActions, {"tables"}, {"tables"}, {"rows"})
      BY Zenon DEF ViewContent
    <2>2. Shows(View(DataView \cup DataTableActions \cup DataRowActions, {"tables"}, {"tables"}, {"rows"}))
      BY DEF DataView, DataTableActions, DataRowActions
    <2> QED
      BY <2>1, <2>2, Zenon
  <1>5. Shows(ViewContent.storage)
    <2>1. ViewContent.storage = View(StorageView \cup BucketActions \cup ObjectActions, {"buckets"}, {"buckets"}, {"objects"})
      BY Zenon DEF ViewContent
    <2>2. Shows(View(StorageView \cup BucketActions \cup ObjectActions, {"buckets"}, {"buckets"}, {"objects"}))
      BY DEF StorageView, BucketActions, ObjectActions
    <2> QED
      BY <2>1, <2>2, Zenon
  <1>6. Shows(ViewContent.functions)
    <2>1. ViewContent.functions = View(FunctionOperations \cup RollbackVersion, {"functions"}, {"functions"}, {"versions"})
      BY Zenon DEF ViewContent
    <2>2. Shows(View(FunctionOperations \cup RollbackVersion, {"functions"}, {"functions"}, {"versions"}))
      BY DEF FunctionOperations, RollbackVersion, Selecting
    <2> QED
      BY <2>1, <2>2, Zenon
  <1>7. Shows(ViewContent.history)
    <2>1. ViewContent.history = View(InvokeFunction \cup RetryInvocation, {"functions"}, {"functions"}, {"invocations"})
      BY Zenon DEF ViewContent
    <2>2. Shows(View(InvokeFunction \cup RetryInvocation, {"functions"}, {"functions"}, {"invocations"}))
      BY DEF InvokeFunction, RetryInvocation
    <2> QED
      BY <2>1, <2>2, Zenon
  <1>8. Shows(ViewContent.push)
    <2>1. ViewContent.push = View(PushView, {}, {"queue", "diagnostics"}, {})
      BY Zenon DEF ViewContent
    <2>2. Shows(View(PushView, {}, {"queue", "diagnostics"}, {}))
      BY DEF PushView
    <2> QED
      BY <2>1, <2>2, Zenon
  <1>9. Shows(ViewContent.ops)
    <2>1. ViewContent.ops = View(OpsView, {}, {"backups", "metrics"}, {})
      BY Zenon DEF ViewContent
    <2>2. Shows(View(OpsView, {}, {"backups", "metrics"}, {}))
      BY DEF OpsView
    <2> QED
      BY <2>1, <2>2, Zenon
  <1>10. DOMAIN ViewContent = {"apps", "keys", "auth", "data", "storage", "functions", "history", "push", "ops"}
    BY Zenon DEF ViewContent
  <1> HIDE DEF Shows
  <1> QED
    BY <1>1, <1>2, <1>3, <1>4, <1>5, <1>6, <1>7, <1>8, <1>9, <1>10, Zenon

-----------------------------------------------------------------------------
(* Query keys.                                                             *)
LEMMA SameView ==
    ASSUME view' = view
    PROVE  /\ \A kind, a, item : QueryKey(kind, a, item)' = QueryKey(kind, a, item)
           /\ Keys' = Keys /\ Operations' = Operations
  <1>1. \A kind, a, item : QueryKey(kind, a, item)' = QueryKey(kind, a, item)
    BY Zenon DEF QueryKey
  <1>2. Operations' = Operations
    BY Zenon DEF Operations
  <1>3. Keys' = Keys
    BY <1>1 DEF Keys
  <1> QED
    BY <1>1, <1>2, <1>3, Zenon

LEMMA KeyFields ==
    ASSUME NEW kind, NEW a, NEW item, NEW k, k = QueryKey(kind, a, item)
    PROVE  k.kind = kind /\ (kind \in ViewContent[view].details => k.item = item)
  BY Zenon DEF QueryKey

LEMMA KeyIn ==
    ASSUME NEW kind \in ViewContent[view].lists \cup ViewContent[view].details, NEW a \in Apps, NEW item,
           item \in Items \/ kind \notin ViewContent[view].details
    PROVE  QueryKey(kind, a, item) \in Keys
  <1>1. CASE item \in Items
    BY <1>1 DEF Keys
  <1>2. CASE kind \notin ViewContent[view].details
    <2>1. PICK i \in Items : TRUE
      BY ConsoleAssumption, Zenon
    <2>2. QueryKey(kind, a, i) = QueryKey(kind, a, item)
      BY <1>2, Zenon DEF QueryKey
    <2> QED
      BY <2>1, <2>2 DEF Keys
  <1> QED
    BY <1>1, <1>2, Zenon

LEMMA ViewShows ==
    ASSUME ConsoleTypeOK
    PROVE  Shows(ViewContent[view])
  BY ViewsShow, Zenon DEF ConsoleTypeOK

LEMMA ItemsNamed ==
    ASSUME ConsoleTypeOK, NEW kind \in ViewContent[view].items
    PROVE  /\ QueryKey(kind, app, NoItem) \in Keys
           /\ cache[QueryKey(kind, app, NoItem)].names \subseteq Items
  <1>1. QueryKey(kind, app, NoItem) \in Keys
    BY ViewShows, KeyIn, Zenon DEF ConsoleTypeOK, Shows
  <1> QED
    BY <1>1, Zenon DEF ConsoleTypeOK, Queries

LEMMA ActiveType ==
    ASSUME ConsoleTypeOK
    PROVE  Active \in Items \cup {NoItem}
  <1>1. PICK names : names = UNION {cache[QueryKey(kind, app, NoItem)].names : kind \in ViewContent[view].items}
    BY Zenon
  <1>2. names \subseteq Items
    BY <1>1, ItemsNamed, Zenon
  <1>3. Active = IF selection # NoItem THEN selection ELSE IF names = {} THEN NoItem ELSE CHOOSE i \in names : TRUE
    BY <1>1 DEF Active, ActiveItem
  <1>4. names # {} => (CHOOSE i \in names : TRUE) \in names
    BY Zenon
  <1> QED
    BY <1>2, <1>3, <1>4, Zenon DEF ConsoleTypeOK

LEMMA MountedKeys ==
    ASSUME ConsoleTypeOK
    PROVE  Mounted \subseteq Keys
  <1>1. \A kind \in ViewContent[view].lists : QueryKey(kind, app, NoItem) \in Keys
    BY ViewShows, KeyIn, Zenon DEF ConsoleTypeOK, Shows
  <1>2. PICK item : item = Active
    BY Zenon
  <1>3. item # NoItem => \A kind \in ViewContent[view].details : QueryKey(kind, app, item) \in Keys
    BY <1>2, ActiveType, KeyIn, Zenon DEF ConsoleTypeOK
  <1> QED
    BY <1>1, <1>2, <1>3, Zenon DEF Mounted

\* What an operation in flight changes.
ChangedBy(s) == {QueryKey(kind, pending[s].app, pending[s].item) : kind \in pending[s].op.changes}

LEMMA ChangedKeys ==
    ASSUME ConsoleTypeOK, CallsOfView, NEW s \in OpSlots, pending[s].pc # "idle"
    PROVE  /\ ChangedBy(s) \subseteq Keys
           /\ AnswerRefreshes(pending[s].op, ViewContent[view].details)
  <1>1. /\ pending[s].op \in ViewContent[view].ops /\ pending[s].app \in Apps
        /\ pending[s].item \in Items \/ pending[s].op.changes \cap ViewContent[view].details = {}
    BY Zenon DEF CallsOfView
  <1>2. pending[s].op.changes \subseteq ViewContent[view].lists \cup ViewContent[view].details
    BY <1>1, ViewShows, Zenon DEF Shows
  <1>3. \A kind \in pending[s].op.changes : QueryKey(kind, pending[s].app, pending[s].item) \in Keys
    <2> TAKE kind \in pending[s].op.changes
    <2>1. PICK a, item : a = pending[s].app /\ item = pending[s].item
      BY Zenon
    <2> QED
      BY <1>1, <1>2, <2>1, KeyIn, Zenon
  <1> QED
    BY <1>1, <1>3, ViewShows DEF Shows, ChangedBy

-----------------------------------------------------------------------------
(* The steps.                                                              *)
LEMMA CountsType ==
    ASSUME ConsoleTypeOK, Turn \/ UNCHANGED countVars
    PROVE  made' \in 0 .. MaxOps /\ turns' \in 0 .. MaxTurns
  BY ConsoleAssumption DEF ConsoleTypeOK, Turn, countVars

\* Operations that are the same are awaited the same.
LEMMA SameAwaits ==
    ASSUME view' = view,
           \A s \in OpSlots : /\ pending'[s].pc = pending[s].pc /\ pending'[s].op = pending[s].op
                              /\ pending'[s].app = pending[s].app /\ pending'[s].item = pending[s].item
    PROVE  \A k : Awaiting(k)' = Awaiting(k)
  BY SameView DEF Awaiting, Refreshes

\* Steps of the user leave what was read and who will refresh it.
LEMMA MoveLists ==
    ASSUME ListsInv,
           \/ \E a \in Apps : SwitchApp(a)
           \/ \E item \in Items : SelectItem(item)
           \/ Leave \/ Return
    PROVE  ListsInv'
  <1>1. /\ ConsoleTypeOK /\ CallsOfView /\ AllWillBeCurrent
        /\ view' = view /\ UNCHANGED <<exists, cache, late>>
    BY Zenon DEF ListsInv, SwitchApp, SelectItem, Leave, Return
  <1>2. Keys' = Keys /\ Operations' = Operations
    BY <1>1, SameView, Zenon
  <1>3. /\ made' \in 0 .. MaxOps /\ turns' \in 0 .. MaxTurns
        /\ away' \in BOOLEAN /\ app' \in Apps /\ selection' \in Items \cup {NoItem}
    BY <1>1, CountsType, Zenon DEF SwitchApp, SelectItem, Leave, Return, ConsoleTypeOK
  <1>4. /\ pending' \in [OpSlots -> Operations]
        /\ \A s \in OpSlots : /\ pending'[s].pc = pending[s].pc /\ pending'[s].op = pending[s].op
                              /\ pending'[s].app = pending[s].app /\ pending'[s].item = pending[s].item
    <2>1. CASE pending' = pending
      BY <1>1, <2>1, Zenon DEF ConsoleTypeOK
    <2>2. CASE Leave
      <3>1. PICK item, a : item = Active /\ a = app
        BY Zenon
      <3>2. pending' = [s \in OpSlots |->
                     IF pending[s].pc = "idle" \/ pending[s].frozen THEN pending[s]
                     ELSE [pending[s] EXCEPT !.frozen = TRUE, !.toApp = a, !.toItem = item]]
        BY <2>2, <3>1, Zenon DEF Leave
      <3>3. item \in Items \cup {NoItem} /\ a \in Scopes
        BY <1>1, <3>1, ActiveType, Zenon DEF ConsoleTypeOK, Scopes
      <3>4. ASSUME NEW s \in OpSlots
            PROVE  /\ pending'[s] \in Operations
                   /\ pending'[s].pc = pending[s].pc /\ pending'[s].op = pending[s].op
                   /\ pending'[s].app = pending[s].app /\ pending'[s].item = pending[s].item
        <4>1. pending[s] \in Operations
          BY <1>1, Zenon DEF ConsoleTypeOK
        <4>2. PICK new : new = [pending[s] EXCEPT !.frozen = TRUE, !.toApp = a, !.toItem = item]
          BY Zenon
        <4>3. /\ new \in Operations /\ new.pc = pending[s].pc /\ new.op = pending[s].op
              /\ new.app = pending[s].app /\ new.item = pending[s].item
          BY <3>3, <4>1, <4>2, Zenon DEF Operations
        <4> QED
          BY <3>2, <4>1, <4>2, <4>3, Zenon
      <3> QED
        BY <3>2, <3>4, Zenon
    <2> QED
      BY <2>1, <2>2, Zenon DEF SwitchApp, SelectItem, Return
  <1>5. ConsoleTypeOK'
    BY <1>1, <1>2, <1>3, <1>4, Zenon DEF ConsoleTypeOK
  <1>6. CallsOfView'
    BY <1>1, <1>4, Zenon DEF CallsOfView, NewNamed
  <1>7. AllWillBeCurrent'
    BY <1>1, <1>2, <1>4, SameAwaits, Zenon DEF AllWillBeCurrent, WillBeCurrent
  <1> QED
    BY <1>5, <1>6, <1>7, Zenon DEF ListsInv

\* A fetch begins, reads, ends or is lost.
FetchMoves(k, q, new) ==
    /\ cache' = [cache EXCEPT ![k] = new]
    /\ \/ new.data = q.data /\ new.invalid = q.invalid /\ new.fetch = "asked" /\ late' = late
       \/ new.data = q.data /\ new.fetch = "current" /\ late' = late \ {k}
       \/ /\ new.data = q.data /\ new.fetch = "idle" /\ new.invalid = (q.data # "none")
          /\ late' \in {late, late \ {k}}
       \/ q.fetch \in {"old", "current"} /\ new.data = q.fetch /\ new.fetch = "idle" /\ late' = late

LEMMA FetchLists ==
    ASSUME ListsInv, NEW k \in DOMAIN cache, StartFetch(k) \/ Read(k) \/ Receive(k) \/ LoseFetch(k)
    PROVE  ListsInv'
  <1>1. /\ ConsoleTypeOK /\ CallsOfView /\ AllWillBeCurrent /\ k \in Keys
        /\ UNCHANGED <<view, away, app, selection, exists, pending>>
    BY Zenon DEF ListsInv, ConsoleTypeOK, StartFetch, Read, Receive, LoseFetch, viewVars
  <1>2. /\ Keys' = Keys /\ Operations' = Operations
        /\ \A q : Awaiting(q)' = Awaiting(q)
    BY <1>1, SameView, SameAwaits, Zenon
  <1>3. made' \in 0 .. MaxOps /\ turns' \in 0 .. MaxTurns
    <2>1. Turn \/ UNCHANGED countVars
      BY Zenon DEF StartFetch, Read, Receive, LoseFetch
    <2> QED
      BY <1>1, <2>1, CountsType, Zenon
  <1>4. PICK q : q = cache[k]
    BY Zenon
  <1>5. q \in Queries /\ WillBeCurrent(k)
    BY <1>1, <1>4, Zenon DEF ConsoleTypeOK, AllWillBeCurrent
  <1>6. \E new \in Queries : FetchMoves(k, q, new)
    <2>1. ASSUME FetchError(k), late' \in {late, late \ {k}} PROVE \E new \in Queries : FetchMoves(k, q, new)
      <3>1. PICK new : new = [q EXCEPT !.fetch = "idle", !.invalid = (q.data # "none")]
        BY Zenon
      <3>2. new \in Queries /\ new.data = q.data /\ new.fetch = "idle" /\ new.invalid = (q.data # "none")
        BY <1>5, <3>1, Zenon DEF Queries
      <3>3. cache' = [cache EXCEPT ![k] = new]
        BY <1>1, <1>4, <2>1, <3>1, Zenon DEF FetchError, ConsoleTypeOK
      <3> QED
        BY <2>1, <3>2, <3>3, Zenon DEF FetchMoves
    <2>2. CASE StartFetch(k)
      <3>1. PICK new : new = [q EXCEPT !.fetch = "asked"]
        BY Zenon
      <3>2. new \in Queries /\ new.data = q.data /\ new.fetch = "asked" /\ new.invalid = q.invalid
        BY <1>5, <3>1, Zenon DEF Queries
      <3> QED
        BY <1>1, <1>4, <2>2, <3>1, <3>2, Zenon DEF StartFetch, ConsoleTypeOK, FetchMoves
    <2>3. CASE Read(k) /\ k.item \in {NoItem} \cup exists[k.app]
      <3>1. PICK names : names = exists[k.app]
        BY Zenon
      <3>2. k.app \in Scopes
        BY <1>1 DEF Keys, QueryKey, ScopeOf, Scopes
      <3>3. names \subseteq Items
        BY <1>1, <3>1, <3>2, Zenon DEF ConsoleTypeOK
      <3>4. PICK new : new = [q EXCEPT !.fetch = "current", !.read = names]
        BY Zenon
      <3>5. new \in Queries /\ new.data = q.data /\ new.fetch = "current"
        BY <1>5, <3>3, <3>4, Zenon DEF Queries
      <3>6. cache' = [cache EXCEPT ![k] = new] /\ late' = late \ {k}
        BY <1>1, <1>4, <2>3, <3>1, <3>4, Zenon DEF Read, ConsoleTypeOK
      <3> QED
        BY <3>5, <3>6, Zenon DEF FetchMoves
    <2>4. CASE Receive(k)
      <3>1. PICK names : names = IF k.kind \in ViewContent[view].items THEN q.read ELSE {}
        BY Zenon
      <3>2. names \subseteq Items /\ q.fetch \in {"old", "current"}
        BY <1>4, <1>5, <2>4, <3>1, Zenon DEF Queries, Receive
      <3>3. PICK new : new = [NoQuery EXCEPT !.data = q.fetch, !.names = names]
        BY Zenon
      <3>4. new \in Queries /\ new.data = q.fetch /\ new.fetch = "idle"
        BY <3>2, <3>3, Zenon DEF Queries, NoQuery
      <3>5. cache' = [cache EXCEPT ![k] = new] /\ late' = late
        BY <1>4, <2>4, <3>1, <3>3, Zenon DEF Receive
      <3> QED
        BY <3>2, <3>4, <3>5, Zenon DEF FetchMoves
    <2>5. CASE Read(k) /\ k.item \notin {NoItem} \cup exists[k.app]
      BY <2>1, <2>5, Zenon DEF Read
    <2>6. CASE LoseFetch(k)
      BY <2>1, <2>6, Zenon DEF LoseFetch
    <2> QED
      BY <2>2, <2>3, <2>4, <2>5, <2>6, Zenon
  <1>7. PICK new \in Queries : FetchMoves(k, q, new)
    BY <1>6, Zenon
  <1>8. ConsoleTypeOK'
    <2>1. cache' \in [Keys -> Queries] /\ late' \subseteq Keys
      BY <1>1, <1>7, Zenon DEF ConsoleTypeOK, FetchMoves
    <2> QED
      BY <1>1, <1>2, <1>3, <2>1, Zenon DEF ConsoleTypeOK, Queries
  <1>9. AllWillBeCurrent'
    <2>1. ASSUME NEW j \in Keys, j # k PROVE WillBeCurrent(j)'
      <3>1. WillBeCurrent(j) /\ cache'[j] = cache[j] /\ (j \notin late' => j \notin late)
        BY <1>1, <1>7, <2>1, Zenon DEF AllWillBeCurrent, ConsoleTypeOK, FetchMoves
      <3> QED
        BY <1>2, <3>1, Zenon DEF WillBeCurrent
    <2>2. WillBeCurrent(k)'
      <3>1. cache'[k] = new
        BY <1>1, <1>7, Zenon DEF ConsoleTypeOK, FetchMoves
      <3> QED
        BY <1>2, <1>4, <1>5, <1>7, <3>1, Zenon DEF WillBeCurrent, Queries, FetchMoves
    <2> QED
      BY <1>2, <2>1, <2>2, Zenon DEF AllWillBeCurrent
  <1> QED
    BY <1>1, <1>8, <1>9, Zenon DEF ListsInv, CallsOfView, NewNamed

\* No call is an operation.
LEMMA NoCallType ==
    /\ NoCall \in Operations /\ NoCall.pc = "idle"
  BY Zenon DEF NoCall, Operations, Scopes

\* What is read of the queries that change becomes old.
LEMMA OutdateFacts ==
    ASSUME ConsoleTypeOK, NEW keys, Outdate(keys)
    PROVE  /\ cache' \in [Keys -> Queries]
           /\ \A k \in Keys \ keys : cache'[k] = cache[k]
  <1>1. \A k \in Keys : cache[k] \in Queries
    BY Zenon DEF ConsoleTypeOK
  <1>2. cache' = [k \in Keys |->
                    IF k \notin keys THEN cache[k]
                    ELSE [cache[k] EXCEPT !.data = IF @ = "current" THEN "old" ELSE @,
                                          !.fetch = IF @ = "current" THEN "old" ELSE @]]
    BY Zenon DEF Outdate, ConsoleTypeOK
  <1>3. ASSUME NEW k \in Keys
        PROVE  [cache[k] EXCEPT !.data = IF @ = "current" THEN "old" ELSE @,
                                !.fetch = IF @ = "current" THEN "old" ELSE @] \in Queries
    <2>1. PICK q \in Queries : q = cache[k]
      BY <1>1, Zenon
    <2>2. [q EXCEPT !.data = IF @ = "current" THEN "old" ELSE @,
                    !.fetch = IF @ = "current" THEN "old" ELSE @] \in Queries
      BY Zenon DEF Queries
    <2> QED
      BY <2>1, <2>2, Zenon
  <1> QED
    BY <1>1, <1>2, <1>3, Zenon

LEMMA MakeLists ==
    ASSUME ListsInv, NEW s \in OpSlots, NEW op \in ViewContent[view].ops, NEW item \in Items \cup {NoItem},
           Make(s, op, item)
    PROVE  ListsInv'
  <1>1. /\ ConsoleTypeOK /\ CallsOfView /\ AllWillBeCurrent /\ pending[s].pc = "idle"
        /\ UNCHANGED <<view, away, app, selection, exists, cache, turns, late>>
        /\ made' \in 0 .. MaxOps
    BY ConsoleAssumption DEF ListsInv, Make, viewVars, ConsoleTypeOK
  <1>2. Keys' = Keys /\ Operations' = Operations /\ \A kind, a, i : QueryKey(kind, a, i)' = QueryKey(kind, a, i)
    BY <1>1, SameView, Zenon
  <1>3. PICK new : new = [NoCall EXCEPT !.pc = "sent", !.op = op, !.app = app, !.item = item]
    BY Zenon
  <1>4. app \in Apps
    BY <1>1, Zenon DEF ConsoleTypeOK
  <1>5. new \in Operations /\ new.pc = "sent" /\ new.op = op /\ new.app = app /\ new.item = item
    BY <1>3, <1>4, Zenon DEF NoCall, Operations, Scopes
  <1>6. pending' = [pending EXCEPT ![s] = new]
    BY <1>3, Zenon DEF Make
  <1>7. pending' \in [OpSlots -> Operations] /\ pending'[s] = new /\ \A r \in OpSlots \ {s} : pending'[r] = pending[r]
    BY <1>1, <1>5, <1>6, Zenon DEF ConsoleTypeOK
  <1>8. item \in Items \/ op.changes \cap ViewContent[view].details = {}
    <2>1. Shows(ViewContent[view])
      BY <1>1, ViewShows, Zenon
    <2>2. op.by = "view" => op.changes \cap ViewContent[view].details = {}
      BY <2>1, Zenon DEF Shows
    <2>3. op.by # "view" => item \in Items
      BY <1>1, ItemsNamed, Zenon DEF Make
    <2> QED
      BY <2>2, <2>3, Zenon
  <1>9. ConsoleTypeOK'
    BY <1>1, <1>2, <1>7, Zenon DEF ConsoleTypeOK, Queries
  <1>10. CallsOfView'
    <2>1. op.by = "new" => item \in Items
      BY Zenon DEF Make
    <2> QED
      BY <1>1, <1>4, <1>5, <1>7, <1>8, <2>1, Zenon DEF CallsOfView, NewNamed
  <1>11. AllWillBeCurrent'
    <2>1. \A k : Awaiting(k) => Awaiting(k)'
      BY <1>1, <1>2, <1>7, Zenon DEF Awaiting, Refreshes
    <2> QED
      BY <1>1, <1>2, <2>1, Zenon DEF AllWillBeCurrent, WillBeCurrent
  <1> QED
    BY <1>9, <1>10, <1>11, Zenon DEF ListsInv

LEMMA ExecuteLists ==
    ASSUME ListsInv, NEW s \in OpSlots, ServerExecutes(s)
    PROVE  ListsInv'
  <1>1. /\ ConsoleTypeOK /\ CallsOfView /\ AllWillBeCurrent /\ pending[s].pc = "sent"
        /\ UNCHANGED <<view, away, app, selection, made, turns>>
    BY Zenon DEF ListsInv, ServerExecutes, viewVars, countVars
  <1>2. Keys' = Keys /\ Operations' = Operations /\ \A kind, a, i : QueryKey(kind, a, i)' = QueryKey(kind, a, i)
    BY <1>1, SameView, Zenon
  <1>3. CASE pending' = [pending EXCEPT ![s] = NoCall] /\ UNCHANGED <<exists, cache, late>>
    <2>1. /\ pending' \in [OpSlots -> Operations] /\ pending'[s] = NoCall
          /\ \A r \in OpSlots \ {s} : pending'[r] = pending[r]
      BY <1>1, <1>3, NoCallType, Zenon DEF ConsoleTypeOK
    <2>2. ConsoleTypeOK'
      BY <1>1, <1>2, <1>3, <2>1, Zenon DEF ConsoleTypeOK, Queries
    <2>3. CallsOfView'
      BY <1>1, <2>1, NoCallType, Zenon DEF CallsOfView, NewNamed
    <2>4. \A k : Awaiting(k) => Awaiting(k)'
      BY <1>1, <1>2, <2>1, Zenon DEF Awaiting, Refreshes
    <2>5. AllWillBeCurrent'
      BY <1>1, <1>2, <1>3, <2>4, Zenon DEF AllWillBeCurrent, WillBeCurrent
    <2> QED
      BY <2>2, <2>3, <2>5, Zenon DEF ListsInv
  <1>4. CASE ~(pending' = [pending EXCEPT ![s] = NoCall] /\ UNCHANGED <<exists, cache, late>>)
    <2>1. PICK keys : keys = ChangedBy(s)
      BY Zenon
    <2>2. /\ Outdate(keys) /\ pending' = [pending EXCEPT ![s].pc = "done"]
          /\ late' = IF pending[s].op.name = "delete" THEN late \cup {k \in keys : k.item = pending[s].item} ELSE late
      BY <1>4, <2>1, Zenon DEF ServerExecutes, ChangedBy
    <2>3. exists' \in [Scopes -> SUBSET Items]
      <3>1. PICK scope : scope = IF "apps" \in pending[s].op.changes THEN NoApp ELSE pending[s].app
        BY Zenon
      <3>2. PICK item : item = pending[s].item
        BY Zenon
      <3>3. /\ \/ pending[s].op.by = "view" \/ (item \in exists[scope]) = (pending[s].op.by # "new")
            /\ exists' = [exists EXCEPT ![scope] = IF pending[s].op.by = "new" THEN @ \cup {item}
                                                   ELSE IF pending[s].op.name = "delete" THEN @ \ {item}
                                                   ELSE @]
        BY <1>4, <3>1, <3>2, Zenon DEF ServerExecutes
      <3>4. pending[s].op.by = "new" => item \in Items
        <4>1. pending[s].op.by = "new" => NewNamed(s)
          BY <1>1, Zenon DEF CallsOfView
        <4> QED
          BY <3>2, <4>1, Zenon DEF NewNamed
      <3> QED
        BY <1>1, <3>3, <3>4, Zenon DEF ConsoleTypeOK
    <2>4. PICK new : new = [pending[s] EXCEPT !.pc = "done"]
      BY Zenon
    <2>5. pending[s] \in Operations
      BY <1>1, Zenon DEF ConsoleTypeOK
    <2>6. /\ new \in Operations /\ new.pc = "done" /\ new.op = pending[s].op
          /\ new.app = pending[s].app /\ new.item = pending[s].item
      BY <2>4, <2>5, Zenon DEF Operations
    <2>7. /\ pending' \in [OpSlots -> Operations] /\ pending'[s] = new
          /\ \A r \in OpSlots \ {s} : pending'[r] = pending[r]
      BY <1>1, <2>2, <2>4, <2>6, Zenon DEF ConsoleTypeOK
    <2>8. cache' \in [Keys -> Queries] /\ \A k \in Keys \ keys : cache'[k] = cache[k]
      BY <1>1, <2>2, OutdateFacts, Zenon
    <2>9. keys \subseteq Keys /\ AnswerRefreshes(pending[s].op, ViewContent[view].details)
      BY <1>1, <2>1, ChangedKeys, Zenon
    <2>10. ConsoleTypeOK'
      <3>1. late' \subseteq Keys
        BY <1>1, <2>2, <2>9, Zenon DEF ConsoleTypeOK
      <3> QED
        BY <1>1, <1>2, <2>3, <2>7, <2>8, <3>1, Zenon DEF ConsoleTypeOK, Queries
    <2>11. CallsOfView'
      BY <1>1, <2>6, <2>7, Zenon DEF CallsOfView, NewNamed
    <2>12. \A k : Awaiting(k) => Awaiting(k)'
      BY <1>1, <1>2, <2>7, Zenon DEF Awaiting, Refreshes
    <2>13. ASSUME NEW k \in keys, k \notin late', k.kind \notin NeverRefreshed PROVE Awaiting(k)'
      <3>1. PICK kind \in pending[s].op.changes : k = QueryKey(kind, pending[s].app, pending[s].item)
        BY <2>1, Zenon DEF ChangedBy
      <3>2. k.kind = kind /\ (kind \in ViewContent[view].details => k.item = pending[s].item)
        <4>1. PICK a, item : a = pending[s].app /\ item = pending[s].item
          BY Zenon
        <4> QED
          BY <3>1, <4>1, KeyFields
      <3>3. kind \in pending[s].op.invalidates
        BY <2>2, <2>9, <2>13, <3>1, <3>2, Zenon DEF AnswerRefreshes
      <3>4. Refreshes(s, k)'
        BY <1>2, <2>6, <2>7, <3>1, <3>3, Zenon DEF Refreshes
      <3> QED
        BY <3>4, Zenon DEF Awaiting
    <2>14. AllWillBeCurrent'
      <3>1. ASSUME NEW k \in Keys PROVE WillBeCurrent(k)'
        <4>1. CASE k \in keys
          BY <2>13, <4>1, Zenon DEF WillBeCurrent
        <4>2. CASE k \notin keys
          <5>1. WillBeCurrent(k) /\ cache'[k] = cache[k] /\ (k \notin late' => k \notin late)
            BY <1>1, <2>2, <2>8, <4>2, Zenon DEF AllWillBeCurrent
          <5> QED
            BY <2>12, <5>1, Zenon DEF WillBeCurrent
        <4> QED
          BY <4>1, <4>2, Zenon
      <3> QED
        BY <1>2, <3>1, Zenon DEF AllWillBeCurrent
    <2> QED
      BY <2>10, <2>11, <2>14, Zenon DEF ListsInv
  <1> QED
    BY <1>3, <1>4, Zenon

\* The queries invalidated are marked so; the others stay.
LEMMA InvalidateFacts ==
    ASSUME ConsoleTypeOK, NEW keys, Invalidate(keys)
    PROVE  /\ cache' \in [Keys -> Queries]
           /\ \A k \in Keys : k \notin keys \/ cache[k] = NoQuery => cache'[k] = cache[k]
           /\ \A k \in Keys : k \in keys /\ cache[k] # NoQuery =>
                 /\ cache'[k].invalid = TRUE
                 /\ cache'[k].fetch = IF k \in Mounted /\ cache[k].data # "none" THEN "asked" ELSE cache[k].fetch
  <1>1. cache' = [k \in Keys |->
                    IF k \notin keys \/ cache[k] = NoQuery THEN cache[k]
                    ELSE [cache[k] EXCEPT !.invalid = TRUE,
                            !.fetch = IF k \in Mounted /\ cache[k].data # "none" THEN "asked" ELSE @]]
    BY Zenon DEF Invalidate, ConsoleTypeOK
  <1>2. ASSUME NEW k \in Keys
        PROVE  /\ cache'[k] \in Queries
               /\ k \notin keys \/ cache[k] = NoQuery => cache'[k] = cache[k]
               /\ k \in keys /\ cache[k] # NoQuery =>
                    /\ cache'[k].invalid = TRUE
                    /\ cache'[k].fetch = IF k \in Mounted /\ cache[k].data # "none" THEN "asked" ELSE cache[k].fetch
    <2>1. cache[k] \in Queries
      BY Zenon DEF ConsoleTypeOK
    <2>2. PICK fetch : fetch = IF k \in Mounted /\ cache[k].data # "none" THEN "asked" ELSE cache[k].fetch
      BY Zenon
    <2>3. fetch \in {"idle", "asked", "old", "current"}
      BY <2>1, <2>2, Zenon DEF Queries
    <2>4. PICK new : new = [cache[k] EXCEPT !.invalid = TRUE, !.fetch = fetch]
      BY Zenon
    <2>5. new \in Queries /\ new.invalid = TRUE /\ new.fetch = fetch
      BY <2>1, <2>3, <2>4, Zenon DEF Queries
    <2>6. cache'[k] = IF k \notin keys \/ cache[k] = NoQuery THEN cache[k] ELSE new
      BY <1>1, <2>2, <2>4, Zenon
    <2> QED
      BY <2>1, <2>2, <2>5, <2>6, Zenon
  <1> QED
    BY <1>1, <1>2, Zenon

LEMMA SuccessLists ==
    ASSUME ListsInv, NEW s \in OpSlots, OnSuccess(s)
    PROVE  ListsInv'
  <1>1. /\ ConsoleTypeOK /\ CallsOfView /\ AllWillBeCurrent /\ pending[s].pc = "done"
        /\ UNCHANGED <<view, away, app, exists, made, turns>>
        /\ pending' = [pending EXCEPT ![s] = NoCall]
    BY Zenon DEF ListsInv, OnSuccess, countVars
  <1>2. Keys' = Keys /\ Operations' = Operations /\ \A kind, a, i : QueryKey(kind, a, i)' = QueryKey(kind, a, i)
    BY <1>1, SameView, Zenon
  <1>3. PICK changed : changed = ChangedBy(s)
    BY Zenon
  <1>4. PICK to \in Closures(pending[s]) :
           LET Target == {QueryKey(kind, to[1], to[2]) : kind \in pending[s].op.invalidates} \cap DOMAIN cache
               Kept == {k \in Target : /\ cache[k].fetch \in {"old", "current"}
                                       /\ k \notin Mounted \/ cache[k].data = "none"}
           IN  /\ Invalidate(Target)
               /\ late' = late \cup Kept \cup (IF to = <<pending[s].app, pending[s].item>> THEN {}
                                               ELSE changed \ Target)
    BY <1>3, Zenon DEF OnSuccess, ChangedBy
  <1>5. PICK target : target = {QueryKey(kind, to[1], to[2]) : kind \in pending[s].op.invalidates} \cap DOMAIN cache
    BY Zenon
  <1>6. /\ Invalidate(target) /\ target \subseteq Keys
        /\ late' = late \cup {k \in target : /\ cache[k].fetch \in {"old", "current"}
                                             /\ k \notin Mounted \/ cache[k].data = "none"}
                        \cup (IF to = <<pending[s].app, pending[s].item>> THEN {} ELSE changed \ target)
    BY <1>1, <1>4, <1>5, Zenon DEF ConsoleTypeOK
  <1>7. /\ cache' \in [Keys -> Queries]
        /\ \A k \in Keys : k \notin target \/ cache[k] = NoQuery => cache'[k] = cache[k]
        /\ \A k \in Keys : k \in target /\ cache[k] # NoQuery =>
              /\ cache'[k].invalid = TRUE
              /\ cache'[k].fetch = IF k \in Mounted /\ cache[k].data # "none" THEN "asked" ELSE cache[k].fetch
    BY <1>1, <1>6, InvalidateFacts, Zenon
  <1>8. changed \subseteq Keys
    BY <1>1, <1>3, ChangedKeys, Zenon
  <1>9. /\ pending' \in [OpSlots -> Operations] /\ pending'[s] = NoCall
        /\ \A r \in OpSlots \ {s} : pending'[r] = pending[r]
    BY <1>1, NoCallType, Zenon DEF ConsoleTypeOK
  <1>10. ConsoleTypeOK'
    <2>1. late' \subseteq Keys
      BY <1>1, <1>6, <1>8, Zenon DEF ConsoleTypeOK
    <2>2. selection' \in Items \cup {NoItem}
      <3>1. pending[s].item \in Items \cup {NoItem} /\ selection \in Items \cup {NoItem}
        BY <1>1, Zenon DEF ConsoleTypeOK, Operations
      <3> QED
        BY <3>1, Zenon DEF OnSuccess
    <2> QED
      BY <1>1, <1>2, <1>7, <1>9, <2>1, <2>2, Zenon DEF ConsoleTypeOK, Queries
  <1>11. CallsOfView'
    BY <1>1, <1>9, NoCallType, Zenon DEF CallsOfView, NewNamed
  <1>12. ASSUME NEW k \in Keys, k \notin late', k \notin target, Awaiting(k) PROVE Awaiting(k)'
    <2>1. PICK r \in OpSlots : Refreshes(r, k)
      BY <1>12, Zenon DEF Awaiting
    <2>2. r # s
      <3>1. SUFFICES ASSUME Refreshes(s, k) PROVE FALSE
        BY <2>1, Zenon
      <3>2. PICK kind \in pending[s].op.changes \cap pending[s].op.invalidates :
               k = QueryKey(kind, pending[s].app, pending[s].item)
        BY <3>1, Zenon DEF Refreshes
      <3>3. k \in changed
        BY <1>3, <3>2, Zenon DEF ChangedBy
      <3>4. to = <<pending[s].app, pending[s].item>>
        BY <1>6, <1>12, <3>3, Zenon
      <3>5. to[1] = pending[s].app /\ to[2] = pending[s].item
        BY <3>4, Zenon
      <3>6. k \in {QueryKey(kk, to[1], to[2]) : kk \in pending[s].op.invalidates}
        BY <3>2, <3>5, Zenon
      <3> QED
        BY <1>1, <1>5, <1>12, <3>6, Zenon DEF ConsoleTypeOK
    <2>3. Refreshes(r, k)'
      BY <1>2, <1>9, <2>1, <2>2, Zenon DEF Refreshes
    <2> QED
      BY <2>3, Zenon DEF Awaiting
  <1>13. AllWillBeCurrent'
    <2>1. ASSUME NEW k \in Keys PROVE WillBeCurrent(k)'
      <3>1. WillBeCurrent(k) /\ (k \notin late' => k \notin late)
        BY <1>1, <1>6, Zenon DEF AllWillBeCurrent
      <3>2. CASE cache[k] = NoQuery
        BY <1>7, <3>2 DEF WillBeCurrent, NoQuery
      <3>3. CASE k \in target /\ cache[k] # NoQuery
        <4>1. cache'[k].invalid
          BY <1>7, <3>3, Zenon
        <4>2. k \notin late' => cache'[k].fetch # "old"
          BY <1>6, <1>7, <3>3, Zenon
        <4> QED
          BY <4>1, <4>2, Zenon DEF WillBeCurrent
      <3>4. CASE k \notin target
        BY <1>7, <1>12, <3>1, <3>4, Zenon DEF WillBeCurrent
      <3> QED
        BY <3>2, <3>3, <3>4, Zenon
    <2> QED
      BY <1>2, <2>1, Zenon DEF AllWillBeCurrent
  <1> QED
    BY <1>10, <1>11, <1>13, Zenon DEF ListsInv

LEMMA FailLists ==
    ASSUME ListsInv, NEW s \in OpSlots, Fail(s)
    PROVE  ListsInv'
  <1>1. /\ ConsoleTypeOK /\ CallsOfView /\ AllWillBeCurrent /\ pending[s].pc # "idle"
        /\ UNCHANGED <<view, away, app, selection, exists, cache>>
        /\ pending' = [pending EXCEPT ![s] = NoCall]
        /\ late' = IF pending[s].pc = "sent" THEN late ELSE late \cup ChangedBy(s)
        /\ made' \in 0 .. MaxOps /\ turns' \in 0 .. MaxTurns
    BY CountsType, Zenon DEF ListsInv, Fail, ChangedBy, viewVars
  <1>2. Keys' = Keys /\ Operations' = Operations /\ \A kind, a, i : QueryKey(kind, a, i)' = QueryKey(kind, a, i)
    BY <1>1, SameView, Zenon
  <1>3. /\ pending' \in [OpSlots -> Operations] /\ pending'[s] = NoCall
        /\ \A r \in OpSlots \ {s} : pending'[r] = pending[r]
    BY <1>1, NoCallType, Zenon DEF ConsoleTypeOK
  <1>4. ConsoleTypeOK'
    <2>1. late' \subseteq Keys
      BY <1>1, ChangedKeys, Zenon DEF ConsoleTypeOK
    <2> QED
      BY <1>1, <1>2, <1>3, <2>1, Zenon DEF ConsoleTypeOK, Queries
  <1>5. CallsOfView'
    BY <1>1, <1>3, NoCallType, Zenon DEF CallsOfView, NewNamed
  <1>6. ASSUME NEW k \in Keys, k \notin late', Awaiting(k) PROVE Awaiting(k)'
    <2>1. PICK r \in OpSlots : Refreshes(r, k)
      BY <1>6, Zenon DEF Awaiting
    <2>2. r # s
      BY <1>1, <1>6, <2>1, Zenon DEF Refreshes, ChangedBy
    <2> QED
      BY <1>2, <1>3, <2>1, <2>2, Zenon DEF Awaiting, Refreshes
  <1>7. AllWillBeCurrent'
    <2>1. \A k \in Keys : k \notin late' => k \notin late
      BY <1>1, Zenon
    <2> QED
      BY <1>1, <1>2, <1>6, <2>1, Zenon DEF AllWillBeCurrent, WillBeCurrent
  <1> QED
    BY <1>4, <1>5, <1>7, Zenon DEF ListsInv

LEMMA OthersLists ==
    ASSUME ListsInv, NEW k \in DOMAIN cache, ChangedByOthers(k)
    PROVE  ListsInv'
  <1>1. /\ ConsoleTypeOK /\ CallsOfView /\ AllWillBeCurrent
        /\ UNCHANGED <<view, away, app, selection, exists, pending>> /\ late' = late \cup {k}
        /\ made' \in 0 .. MaxOps /\ turns' \in 0 .. MaxTurns
    BY CountsType, Zenon DEF ListsInv, ChangedByOthers, viewVars
  <1>2. Keys' = Keys /\ Operations' = Operations /\ \A q : Awaiting(q)' = Awaiting(q)
    BY <1>1, SameView, SameAwaits, Zenon
  <1>3. cache' \in [Keys -> Queries] /\ \A j \in Keys \ {k} : cache'[j] = cache[j]
    BY <1>1, OutdateFacts, Zenon DEF ChangedByOthers
  <1>4. ConsoleTypeOK'
    BY <1>1, <1>2, <1>3, Zenon DEF ConsoleTypeOK, Queries
  <1>5. AllWillBeCurrent'
    BY <1>1, <1>2, <1>3, Zenon DEF AllWillBeCurrent, WillBeCurrent
  <1> QED
    BY <1>1, <1>4, <1>5, Zenon DEF ListsInv, CallsOfView, NewNamed

-----------------------------------------------------------------------------
LEMMA ListsInitInv == ConsoleInit => ListsInv
  <1> SUFFICES ASSUME ConsoleInit PROVE ListsInv
    BY Zenon
  <1>1. app \in Apps
    BY ConsoleAssumption, Zenon DEF ConsoleInit
  <1>2. cache \in [Keys -> Queries]
    BY Zenon DEF ConsoleInit, Queries, NoQuery
  <1>3. pending \in [OpSlots -> Operations] /\ \A s \in OpSlots : pending[s].pc = "idle"
    BY NoCallType, Zenon DEF ConsoleInit
  <1>4. ConsoleTypeOK
    <2>1. made \in 0 .. MaxOps /\ turns \in 0 .. MaxTurns
      BY ConsoleAssumption DEF ConsoleInit
    <2>2. exists \in [Scopes -> SUBSET Items]
      BY Zenon DEF ConsoleInit
    <2>3. away \in BOOLEAN /\ selection \in Items \cup {NoItem} /\ late \subseteq Keys /\ view \in DOMAIN ViewContent
      BY Zenon DEF ConsoleInit
    <2> QED
      BY <1>1, <1>2, <1>3, <2>1, <2>2, <2>3, Zenon DEF ConsoleTypeOK
  <1>5. AllWillBeCurrent
    BY Zenon DEF ConsoleInit, AllWillBeCurrent, WillBeCurrent, NoQuery
  <1> QED
    BY <1>3, <1>4, <1>5, Zenon DEF ListsInv, CallsOfView

LEMMA ListsNextInv == ListsInv /\ [ConsoleNext]_consoleVars => ListsInv'
  <1> SUFFICES ASSUME ListsInv, [ConsoleNext]_consoleVars PROVE ListsInv'
    BY Zenon
  <1>1. CASE \/ \E a \in Apps : SwitchApp(a)
             \/ \E item \in Items : SelectItem(item)
             \/ Leave \/ Return
    BY <1>1, MoveLists, Zenon
  <1>2. CASE \E k \in DOMAIN cache : StartFetch(k) \/ Read(k) \/ Receive(k) \/ LoseFetch(k) \/ ChangedByOthers(k)
    BY <1>2, FetchLists, OthersLists, Zenon
  <1>3. CASE \E s \in OpSlots :
                \/ \E op \in ViewContent[view].ops, item \in Items \cup {NoItem} : Make(s, op, item)
                \/ ServerExecutes(s) \/ OnSuccess(s) \/ Fail(s)
    BY <1>3, MakeLists, ExecuteLists, SuccessLists, FailLists, Zenon
  <1>4. CASE UNCHANGED consoleVars
    <2>1. UNCHANGED <<view, away, app, selection, exists, cache, pending, made, turns, late>>
      BY <1>4, Zenon DEF consoleVars, viewVars, countVars
    <2>2. Keys' = Keys /\ Operations' = Operations /\ \A q : Awaiting(q)' = Awaiting(q)
      BY <2>1, SameView, SameAwaits, Zenon
    <2> QED
      BY <2>1, <2>2, Zenon DEF ListsInv, ConsoleTypeOK, CallsOfView, NewNamed, AllWillBeCurrent, WillBeCurrent, Queries
  <1> QED
    BY <1>1, <1>2, <1>3, <1>4, Zenon DEF ConsoleNext

\* ListsInv is inductive for every view of the console: a list out of date is
\* invalid or being fetched, or the answer to an operation will invalidate it.
THEOREM ListsInvariance == ConsoleSpec => []ListsInv
  BY ListsInitInv, ListsNextInv, PTL DEF ConsoleSpec

\* What rests on the screen is what the server has, once the operations that
\* changed it were answered.
THEOREM ListsAreCurrent == ConsoleSpec => []ShownIsCurrent
  <1>1. ListsInv => ShownIsCurrent
    <2> SUFFICES ASSUME ListsInv, NEW k \in Mounted \ late, k.kind \notin NeverRefreshed,
                        cache[k].fetch = "idle", ~cache[k].invalid,
                        \A s \in OpSlots : pending[s].pc = "done" =>
                           k \notin {QueryKey(kind, pending[s].app, pending[s].item) : kind \in pending[s].op.changes}
                 PROVE  cache[k].data # "old"
      BY Zenon DEF ShownIsCurrent
    <2>1. k \in Keys /\ WillBeCurrent(k)
      BY MountedKeys, Zenon DEF ListsInv, AllWillBeCurrent
    <2>2. ~Awaiting(k)
      BY Zenon DEF Awaiting, Refreshes
    <2> QED
      BY <2>1, <2>2, Zenon DEF WillBeCurrent
  <1> QED
    BY <1>1, ListsInvariance, PTL
=============================================================================
