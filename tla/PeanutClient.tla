---------------------------- MODULE PeanutClient ----------------------------
(***************************************************************************)
(* The request layer of the JavaScript SDK (sdks/js/src/index.ts): several *)
(* calls of one PeanutClient in flight at a time, the access token they    *)
(* share, the retries and the timeout of fetchWithRetry.  An attempt that  *)
(* the client gave up may still be executed by the server.                 *)
(*                                                                         *)
(* A session is known by the number of its newest pair of tokens: login    *)
(* and refresh return pair n, whose access token is n and whose refresh    *)
(* token is n.  Of the other requests, "write" and "put" take effect       *)
(* whenever they are executed, "keyed" (an enqueue with an idempotency     *)
(* key) and "delete" once; a repeated delete is refused.  The server       *)
(* executes a request in one step; its own races are the subject of other  *)
(* modules.                                                                *)
(*                                                                         *)
(* Auxiliary: done counts the executions of a call by the server; known is *)
(* what the application was given; signedOut says that a logout resolved   *)
(* and nobody signed in since; crossed that a logout resolved while a      *)
(* login or a refresh was in flight.                                       *)
(***************************************************************************)
EXTENDS Naturals, FiniteSets

CONSTANTS
    MaxCalls,    \* bound: calls made, numbered in their order
    MaxPlain,    \* bound: those that are no login, refresh or logout
    MaxRetries,  \* retry.maxRetries
    MaxPairs,    \* bound: token pairs issued
    MaxFaults    \* bound: lost or replaced answers and broken bodies

ASSUME ClientAssumption ==
    /\ MaxCalls \in Nat /\ MaxPlain \in Nat /\ MaxRetries \in Nat /\ MaxPairs \in Nat /\ MaxFaults \in Nat

VARIABLES
    accessToken,  \* this.accessToken, 0 when undefined
    call,         \* per call: its request and the attempt being made
    wire,         \* per call: attempts on their way to the server
    live,         \* server: refresh tokens not revoked
    issued,       \* server: pairs issued
    done, known, signedOut, crossed, faults

clientVars == <<accessToken, call, wire, live, issued, done, known, signedOut, crossed, faults>>

Calls == 1 .. MaxCalls
Pairs == 1 .. MaxPairs
Attempts == 0 .. MaxRetries
AuthOps == {"login", "refresh", "logout"}
Ops == AuthOps \cup {"write", "put", "keyed", "delete"}

\* The answer to an attempt: a status class, with the pair it carries.
Answers == [status : {"none", "ok", "transient", "refused"}, pair : 0 .. MaxPairs]
NoAnswer == [status |-> "none", pair |-> 0]
Ok(n) == [status |-> "ok", pair |-> n]
Refused == [status |-> "refused", pair |-> 0]
Transient == [status |-> "transient", pair |-> 0]

\* arg is the refresh token in the body.
CallRecord == [op : Ops, pc : {"idle", "fetch", "delay", "body", "stalled", "resolved", "rejected"},
               attempt : Attempts, arg : 0 .. MaxPairs, answer : Answers]

ClientTypeOK ==
    /\ accessToken \in 0 .. MaxPairs
    /\ call \in [Calls -> CallRecord]
    /\ wire \in [Calls -> SUBSET Attempts]
    /\ live \subseteq Pairs /\ known \subseteq Pairs
    /\ issued \in 0 .. MaxPairs
    /\ done \in [Calls -> Nat]
    /\ signedOut \in BOOLEAN /\ crossed \in BOOLEAN
    /\ faults \in 0 .. MaxFaults

ClientInit ==
    /\ accessToken = 0
    /\ call = [c \in Calls |-> [op |-> "write", pc |-> "idle", attempt |-> 0,
                                arg |-> 0, answer |-> NoAnswer]]
    /\ wire = [c \in Calls |-> {}]
    /\ live = {} /\ issued = 0
    /\ done = [c \in Calls |-> 0]
    /\ known = {} /\ signedOut = FALSE /\ crossed = FALSE /\ faults = 0

-----------------------------------------------------------------------------
Settled(c) == call[c].pc \in {"resolved", "rejected"}

InFlight(c) == ~Settled(c) /\ call[c].pc # "idle"

\* request builds headers and body once and hands them to fetchWithRetry.
Request(c, op, arg) ==
    /\ call[c].pc = "idle" /\ \A d \in 1 .. c - 1 : call[d].pc # "idle"
    /\ call' = [call EXCEPT ![c] = [op |-> op, pc |-> "fetch", attempt |-> 0,
                                    arg |-> arg, answer |-> NoAnswer]]
    /\ wire' = [wire EXCEPT ![c] = {0}]
    /\ signedOut' = (signedOut /\ op \notin {"login", "refresh"})
    /\ UNCHANGED <<accessToken, live, issued, done, known, crossed, faults>>

Login(c) == Request(c, "login", 0)
Refresh(c, t) == t \in known /\ Request(c, "refresh", t)
Logout(c, t) == t \in known /\ Request(c, "logout", t)

\* createRow, updateRow and deleteRow; putObject and deleteObject; the
\* subscriptions and the messages; invoke.
Plain(c, op) ==
    /\ Cardinality({d \in Calls : call[d].pc # "idle" /\ call[d].op \notin AuthOps}) < MaxPlain
    /\ Request(c, op, 0)
DataCall(c) == Plain(c, "write") \/ Plain(c, "delete")
StorageCall(c) == Plain(c, "put") \/ Plain(c, "delete")
PushCall(c) == \E op \in {"write", "keyed", "delete"} : Plain(c, op)
Invoke(c) == Plain(c, "write")

Applied(answer) == [live |-> live, issued |-> issued, answer |-> answer, applied |-> 1]
NotApplied(answer) == [live |-> live, issued |-> issued, answer |-> answer, applied |-> 0]

\* Mutant: signing in revokes every other session.
NewPairAlone(kept) ==
    [live |-> {issued + 1}, issued |-> issued + 1, answer |-> Ok(issued + 1), applied |-> 1]

\* issue_login_response and rotate_refresh_token: a new pair, kept stay live.
NewPair(kept) ==
    [live |-> kept \cup {issued + 1}, issued |-> issued + 1, answer |-> Ok(issued + 1), applied |-> 1]

\* refresh_session_for_app: a live token is replaced.
RefreshSession(arg) == IF arg \in live THEN NewPair(live \ {arg}) ELSE NotApplied(Refused)

\* What the server does with a request, and its answer.
Effect(c) ==
    LET op == call[c].op  arg == call[c].arg  again == done[c] > 0
    IN  CASE op = "login" -> NewPair(live)
          [] op = "refresh" -> RefreshSession(arg)
          [] op = "logout" -> [Applied(Ok(0)) EXCEPT !.live = live \ {arg}]
          [] op \in {"write", "put"} -> Applied(Ok(0))
          [] op = "keyed" -> IF again THEN NotApplied(Ok(0)) ELSE Applied(Ok(0))
          [] op = "delete" -> IF again THEN NotApplied(Refused) ELSE Applied(Ok(0))

\* The client still waits for this attempt.
Awaits(c, a) == call[c].pc = "fetch" /\ call[c].attempt = a /\ call[c].answer = NoAnswer

AnswerArrives(c, a, answer) ==
    call' = IF Awaits(c, a) THEN [call EXCEPT ![c].answer = answer] ELSE call

\* The server executes an attempt.  The answer can get lost, or be replaced
\* by a gateway's 5xx.
Execute(c, a) ==
    /\ a \in wire[c]
    /\ Effect(c).issued \in 0 .. MaxPairs
    /\ wire' = [wire EXCEPT ![c] = @ \ {a}]
    /\ live' = Effect(c).live
    /\ issued' = Effect(c).issued
    /\ done' = [done EXCEPT ![c] = @ + Effect(c).applied]
    /\ \/ AnswerArrives(c, a, Effect(c).answer) /\ UNCHANGED faults
       \/ /\ faults < MaxFaults
          /\ faults' = faults + 1
          /\ \/ AnswerArrives(c, a, Transient)
             \/ UNCHANGED call
    /\ UNCHANGED <<accessToken, known, signedOut, crossed>>

\* The request is lost, or turned away unexecuted with 408, 429 or 503.
Lose(c, a) ==
    /\ a \in wire[c]
    /\ faults < MaxFaults
    /\ faults' = faults + 1
    /\ wire' = [wire EXCEPT ![c] = @ \ {a}]
    /\ AnswerArrives(c, a, Transient) \/ UNCHANGED call
    /\ UNCHANGED <<accessToken, live, issued, done, known, signedOut, crossed>>

-----------------------------------------------------------------------------
(* fetchWithRetry.                                                         *)
\* Mutant: the attempts are counted from one.
LastAttemptOfOne(c) == call[c].attempt > MaxRetries

LastAttempt(c) == call[c].attempt = MaxRetries

isTransientStatus(answer) == answer.status = "transient"

\* The headers arrive: the timer is cleared before the body is read.
Headers(c) ==
    /\ call[c].pc = "fetch"
    /\ call[c].answer # NoAnswer
    /\ call' = [call EXCEPT ![c].pc =
                  IF isTransientStatus(call[c].answer) /\ ~LastAttempt(c) THEN "delay" ELSE "body"]
    /\ UNCHANGED <<accessToken, wire, live, issued, done, known, signedOut, crossed, faults>>

\* Mutant: one timer for all attempts, cleared with the first.
FetchThrowsOnce(c) ==
    /\ call[c].pc = "fetch"
    /\ call[c].answer = NoAnswer
    /\ call[c].attempt = 0
    /\ call' = [call EXCEPT ![c].pc = IF LastAttempt(c) THEN "rejected" ELSE "delay"]
    /\ UNCHANGED <<accessToken, wire, live, issued, done, known, signedOut, crossed, faults>>

\* fetch throws: the timer aborted it, or the connection failed.
FetchThrows(c) ==
    /\ call[c].pc = "fetch"
    /\ call[c].answer = NoAnswer
    /\ call' = [call EXCEPT ![c].pc = IF LastAttempt(c) THEN "rejected" ELSE "delay"]
    /\ UNCHANGED <<accessToken, wire, live, issued, done, known, signedOut, crossed, faults>>

Retry(c) ==
    /\ call[c].pc = "delay"
    /\ call' = [call EXCEPT ![c].pc = "fetch", ![c].attempt = @ + 1, ![c].answer = NoAnswer]
    /\ wire' = [wire EXCEPT ![c] = @ \cup {call[c].attempt + 1}]
    /\ UNCHANGED <<accessToken, live, issued, done, known, signedOut, crossed, faults>>

-----------------------------------------------------------------------------
(* The rest of request, login, refresh and logout: the body is read, an    *)
(* error status throws, and the token is replaced.                         *)
SigningIn(c) == InFlight(c) /\ call[c].op \in {"login", "refresh"}

\* Mutant: logout leaves the token in place.
TokenAfterKept(c) == IF call[c].op \in {"login", "refresh"} THEN call[c].answer.pair ELSE accessToken

\* setAccessToken at the end of login, refresh and logout.
TokenAfter(c) == IF call[c].op \in AuthOps THEN call[c].answer.pair ELSE accessToken

Body(c) ==
    /\ call[c].pc = "body"
    /\ IF call[c].answer.status # "ok"
       THEN /\ call' = [call EXCEPT ![c].pc = "rejected"]
            /\ UNCHANGED <<accessToken, known, signedOut, crossed>>
       ELSE /\ call' = [call EXCEPT ![c].pc = "resolved"]
            /\ accessToken' = TokenAfter(c)
            /\ known' = known \cup ({call[c].answer.pair} \ {0})
            /\ signedOut' = (signedOut \/ call[c].op = "logout")
            /\ crossed' = (crossed \/ (call[c].op = "logout" /\ \E d \in Calls : SigningIn(d)))
    /\ UNCHANGED <<wire, live, issued, done, faults>>

\* requestBinaryWithBody hands the response over with its body unread.
ReadsBody(c) == call[c].op # "put" \/ call[c].answer.status # "ok"

\* The connection breaks while the body is read, or delivers nothing more:
\* the timer was cleared, so nothing ends the wait.
BodyFails(c) ==
    /\ call[c].pc = "body" /\ ReadsBody(c)
    /\ faults < MaxFaults
    /\ faults' = faults + 1
    /\ \E pc \in {"rejected", "stalled"} : call' = [call EXCEPT ![c].pc = pc]
    /\ UNCHANGED <<accessToken, wire, live, issued, done, known, signedOut, crossed>>

\* setAccessToken, called by the application.
SetAccessToken(t) ==
    /\ t \in (known \cup {0}) \ {accessToken}
    /\ accessToken' = t
    /\ signedOut' = (signedOut /\ t = 0)
    /\ UNCHANGED <<call, wire, live, issued, done, known, crossed, faults>>

\* The call goes on: a timer fires or a promise is settled.
Advance(c) == Headers(c) \/ FetchThrows(c) \/ Retry(c) \/ Body(c)

ClientNext ==
    \/ \E c \in Calls :
          \/ Login(c) \/ DataCall(c) \/ StorageCall(c) \/ PushCall(c) \/ Invoke(c)
          \/ \E t \in Pairs : Refresh(c, t) \/ Logout(c, t)
          \/ \E a \in wire[c] : Execute(c, a) \/ Lose(c, a)
          \/ Advance(c) \/ BodyFails(c)
    \/ \E t \in 0 .. MaxPairs : SetAccessToken(t)

ClientSpec == ClientInit /\ [][ClientNext]_clientVars

\* Timers fire and promise callbacks run; the network promises nothing.
ClientFairness == \A c \in Calls : WF_clientVars(Advance(c))

-----------------------------------------------------------------------------
(* fetchWithRetry repeats requests of every method: a call takes effect at *)
(* most once per attempt, however late an abandoned attempt arrives, and   *)
(* a call that resolves took effect.                                       *)
ExecutionsBounded ==
    \A c \in Calls :
        /\ done[c] <= MaxRetries + 1
        /\ call[c].pc = "resolved" => done[c] >= 1

(* A refresh with a token that no other call used, and a delete, are       *)
(* refused only to a call of which an earlier attempt was executed: the    *)
(* retry of a refresh whose answer was lost presents a spent token, the    *)
(* retry of a delete finds nothing.                                        *)
RefusedOnlyIfDone ==
    \A c \in Calls :
        (/\ call[c].answer = Refused
         /\ call[c].op = "delete" \/ \A d \in Calls \ {c} : call[d].arg # call[c].arg)
        => done[c] >= 1

(* After a logout the client sends no token until somebody signs in, if no *)
(* login or refresh was in flight when the logout was answered.            *)
SignedOutStays == signedOut /\ ~crossed => accessToken = 0

(* The timer bounds every attempt up to its headers and the attempts are   *)
(* bounded, so the client comes to rest: no call stays open, unless a body *)
(* stops arriving.                                                         *)
CallsSettle == []<>(\A c \in Calls : InFlight(c) => call[c].pc = "stalled")
=============================================================================
