--------------------------- MODULE ConsoleSession ---------------------------
(***************************************************************************)
(* The administrator's session in one tab of the web console: the tokens   *)
(* in the two browser storages (lib/api/session.ts), the requests that     *)
(* refresh them when answered 401 (lib/api/client.ts), the sign-in screen, *)
(* and ConsoleApp, whose effect answers a failed "me" query by refreshing  *)
(* the session or discarding it.  Requests of all of these are in flight   *)
(* together, and read the stored tokens when they are sent.                *)
(*                                                                         *)
(* Pair n is an access token and a refresh token issued together.  A slot  *)
(* holds one apiFetch: kind says who awaits it ("call": any other request, *)
(* or a "me" query that was dropped; "left": nobody, the page was left),   *)
(* pc the request it made last.                                            *)
(*                                                                         *)
(* Auxiliary: owner[n] is the sign-in that pair n descends from, signedAs  *)
(* the one last signed in here (0: signed out), placed its choice of       *)
(* storage; crossed says that the session was replaced or dropped while a  *)
(* refresh was in flight; disturbed, that expiry alone did not cause what  *)
(* happened; failed, that a request or the session was lost.               *)
(***************************************************************************)
EXTENDS Naturals, FiniteSets

CONSTANTS
    Slots,        \* bound: requests in flight
    MaxPairs,     \* bound: pairs issued
    MaxExpiries,  \* bound: access tokens that expire
    MaxFaults     \* bound: lost requests or answers, revocations by others

ASSUME SessionAssumption ==
    IsFiniteSet(Slots) /\ MaxPairs \in Nat /\ MaxExpiries \in Nat /\ MaxFaults \in Nat

VARIABLES
    local, session,         \* localStorage and sessionStorage: a pair or 0
    user,                   \* the state of ConsoleApp: user # null
    meData, effectDue,      \* the "me" query has data; it failed and the effect has not run
    flow,                   \* the requests in flight
    live, expired, issued,  \* the server's tokens
    owner, signedAs, placed, crossed, disturbed, failed, faults

vars == <<local, session, user, meData, effectDue, flow, live, expired, issued,
          owner, signedAs, placed, crossed, disturbed, failed, faults>>

storage == <<local, session>>
react == <<user, meData, effectDue>>
server == <<live, expired, issued, owner>>
aux == <<signedAs, placed, crossed, disturbed, failed>>

Pairs == 1 .. MaxPairs
Kinds == {"me", "call", "effect", "login", "logout", "left"}
NoAnswer == [status |-> "none", pair |-> 0]
Flows == [kind : Kinds, pc : {"sent", "refresh", "resent", "login", "logout"}, token : 0 .. MaxPairs, as : 0 .. MaxPairs,
          answer : [status : {"none", "ok", "401", "error"}, pair : 0 .. MaxPairs]]
NoFlow == [kind |-> "none"]

TypeOK ==
    /\ local \in 0 .. MaxPairs /\ session \in 0 .. MaxPairs
    /\ flow \in [Slots -> Flows \cup {NoFlow}]
    /\ live \subseteq Pairs /\ expired \subseteq Pairs /\ issued \in 0 .. MaxPairs
    /\ owner \in [Pairs -> 0 .. MaxPairs] /\ signedAs \in 0 .. MaxPairs
    /\ {user, meData, effectDue, placed, crossed, disturbed, failed} \subseteq BOOLEAN
    /\ faults \in 0 .. MaxFaults

Init ==
    /\ local = 0 /\ session = 0
    /\ user = FALSE /\ meData = FALSE /\ effectDue = FALSE
    /\ flow = [s \in Slots |-> NoFlow]
    /\ live = {} /\ expired = {} /\ issued = 0
    /\ owner = [n \in Pairs |-> 0] /\ signedAs = 0 /\ placed = FALSE
    /\ crossed = FALSE /\ disturbed = FALSE /\ failed = FALSE /\ faults = 0

-----------------------------------------------------------------------------
(* lib/api/session.ts.                                                     *)
readToken == IF session # 0 THEN session ELSE local

remembers == local # 0

\* Mutant: a refreshed session always goes to localStorage.
storeSessionLocal(n, remember) == local' = n /\ session' = 0

storeSession(n, remember) ==
    IF remember THEN local' = n /\ session' = 0 ELSE session' = n /\ local' = 0

clearSession == local' = 0 /\ session' = 0

-----------------------------------------------------------------------------
Busy(s) == flow[s] # NoFlow
Awaited(s) == Busy(s) /\ flow[s].kind # "left"
Refreshing(s) == Awaited(s) /\ flow[s].pc = "refresh"
Rival(s) == \E r \in Slots \ {s} : Refreshing(r)
Free(s) == flow' = [flow EXCEPT ![s] = NoFlow]

Request(s, kind, pc, token) ==
    /\ ~Busy(s)
    /\ flow' = [flow EXCEPT ![s] = [kind |-> kind, pc |-> pc, token |-> token, as |-> signedAs,
                                    answer |-> NoAnswer]]

Respond(s, status, pair) ==
    flow' = [flow EXCEPT ![s] = IF flow[s].kind = "left" THEN NoFlow
                                ELSE [flow[s] EXCEPT !.answer = [status |-> status, pair |-> pair]]]

\* The server's handlers: an access token is checked, a refresh token
\* replaced, a sign-in starts a session, a logout revokes.
Serve(s) ==
    LET f == flow[s]  n == issued + 1
    IN  /\ Busy(s) /\ f.answer = NoAnswer
        /\ IF f.pc = "login" \/ (f.pc = "refresh" /\ f.token \in live)
           THEN /\ issued < MaxPairs
                /\ issued' = n
                /\ live' = (live \ {f.token}) \cup {n}
                /\ owner' = [owner EXCEPT ![n] = IF f.pc = "login" THEN n ELSE owner[f.token]]
                /\ Respond(s, "ok", n)
           ELSE /\ live' = IF f.pc = "logout" THEN live \ {f.token} ELSE live
                /\ Respond(s, IF f.pc = "refresh" \/ (f.pc # "logout" /\ f.token \in expired \cup {0})
                             THEN "401" ELSE "ok", 0)
                /\ UNCHANGED <<issued, owner>>
        /\ UNCHANGED <<storage, react, expired, aux, faults>>

\* A request or its answer is lost, or answered 5xx.
LoseRequest(s) ==
    /\ Awaited(s) /\ flow[s].answer.status # "error"
    /\ faults < MaxFaults
    /\ faults' = faults + 1
    /\ Respond(s, "error", 0)
    /\ disturbed' = TRUE
    /\ UNCHANGED <<storage, react, server, signedAs, placed, crossed, failed>>

\* Pair n is in the answer to a refresh, or in the request repeated after it.
OnItsWay(s, n) == flow[s].answer.pair = n \/ (flow[s].pc = "resent" /\ flow[s].token = n)

\* Fifteen minutes pass: an access token expires.
Expire(n) ==
    /\ n \in (1 .. issued) \ expired
    /\ Cardinality(expired) < MaxExpiries
    /\ expired' = expired \cup {n}
    /\ disturbed' = (disturbed \/ \E s \in Slots : Awaited(s) /\ OnItsWay(s, n))
    /\ UNCHANGED <<storage, react, flow, live, issued, owner, signedAs, placed, crossed, failed, faults>>

\* Someone else revokes the session.
Revoke(n) ==
    /\ n \in live
    /\ faults < MaxFaults
    /\ faults' = faults + 1
    /\ live' = live \ {n}
    /\ disturbed' = TRUE
    /\ UNCHANGED <<storage, react, flow, expired, issued, owner, signedAs, placed, crossed, failed>>

-----------------------------------------------------------------------------
(* lib/api/client.ts: apiFetch with refreshStoredSession.                  *)
Answered(s, kinds) == Busy(s) /\ flow[s].kind \in kinds /\ flow[s].answer # NoAnswer

\* The request is one of the session in use, which nobody is signing out.
Ours(s) ==
    /\ user /\ signedAs # 0 /\ flow[s].as = signedAs
    /\ \A r \in Slots : flow[r].kind # "logout"

\* The promise is settled: "me" gets data, or an error for the effect.
Succeed(s) ==
    /\ Free(s)
    /\ meData' = (meData \/ flow[s].kind = "me")
    /\ UNCHANGED <<storage, user, effectDue, aux>>

Throw(s) ==
    /\ Free(s)
    /\ effectDue' = (effectDue \/ flow[s].kind = "me")
    /\ failed' = (failed \/ Ours(s))
    /\ UNCHANGED <<storage, user, meData, signedAs, placed, crossed, disturbed>>

\* Mutant: the request is repeated with the session's first token.
ResendUnchanged(s) == [flow[s] EXCEPT !.pc = "resent", !.token = flow[s].as, !.answer = NoAnswer]

\* fetchWithAuth reads the stored token again.
Resend(s) == [flow[s] EXCEPT !.pc = "resent", !.token = flow[s].answer.pair, !.answer = NoAnswer]

refreshStoredSession(s) ==
    /\ flow' = [flow EXCEPT ![s].pc = "refresh", ![s].token = readToken, ![s].answer = NoAnswer]
    /\ disturbed' = (disturbed \/ Rival(s))
    /\ UNCHANGED <<storage, react, signedAs, placed, crossed, failed>>

\* The second half of refreshStoredSession, and the request repeated.
StoreAndResend(s) ==
    /\ storeSession(flow[s].answer.pair, remembers)
    /\ flow' = [flow EXCEPT ![s] = Resend(s)]
    /\ UNCHANGED <<react, aux>>

apiFetch(s) ==
    LET f == flow[s]
    IN  /\ Answered(s, {"me", "call"})
        /\ CASE f.pc # "refresh" /\ f.answer.status = "ok" -> Succeed(s)
             [] f.pc = "sent" /\ f.answer.status = "401" /\ readToken # 0 -> refreshStoredSession(s)
             [] f.pc = "refresh" /\ f.answer.status = "ok" -> StoreAndResend(s)
             [] OTHER -> Throw(s)
        /\ UNCHANGED <<server, faults>>

-----------------------------------------------------------------------------
(* ConsoleApp and AuthScreen.                                              *)
Shown == user \/ meData

\* Any view's query or mutation.
Call(s) ==
    /\ Shown
    /\ Request(s, "call", "sent", readToken)
    /\ UNCHANGED <<storage, react, server, aux, faults>>

\* The query runs when it is enabled, invalidated or stale.
FetchMe(s) ==
    /\ user /\ ~effectDue
    /\ \A r \in Slots : flow[r].kind # "me"
    /\ Request(s, "me", "sent", readToken)
    /\ UNCHANGED <<storage, react, server, aux, faults>>

\* Queries in flight are dropped: their requests go on, unheeded.
Drop(s) ==
    flow' = [r \in Slots |-> IF r = s THEN NoFlow
                             ELSE IF flow[r].kind = "me" THEN [flow[r] EXCEPT !.kind = "call"]
                             ELSE flow[r]]

\* invalidateQueries cancels a refetch, and joins a first fetch.
InvalidateQueries(s) == IF meData THEN Drop(s) ELSE Free(s)

\* The session is cleared and user set to null; s is the request that ended.
SignOut(s) ==
    /\ clearSession
    /\ user' = FALSE
    /\ signedAs' = 0
    /\ placed' = FALSE
    /\ crossed' = Rival(s)

\* lib/api/auth.ts.
loginAdmin(s) == Request(s, "login", "login", 0)
refreshAdminSession(s) == Request(s, "effect", "refresh", readToken)
logoutAdmin(s) == Request(s, "logout", "logout", readToken)

\* The effect after a failed "me".
RunEffect(s) ==
    /\ effectDue /\ ~Busy(s)
    /\ effectDue' = FALSE
    /\ IF readToken = 0
       THEN SignOut(s) /\ UNCHANGED <<flow, disturbed>>
       ELSE /\ refreshAdminSession(s)
            /\ disturbed' = (disturbed \/ Rival(s))
            /\ UNCHANGED <<storage, user, signedAs, placed, crossed>>
    /\ UNCHANGED <<meData, server, failed, faults>>

EffectRefreshed(s) ==
    /\ Answered(s, {"effect"}) /\ flow[s].answer.status = "ok"
    /\ storeSession(flow[s].answer.pair, remembers)
    /\ user' = TRUE
    /\ InvalidateQueries(s)
    /\ UNCHANGED <<meData, effectDue, server, aux, faults>>

EffectFailed(s) ==
    /\ Answered(s, {"effect"}) /\ flow[s].answer.status # "ok"
    /\ SignOut(s)
    /\ Free(s)
    /\ failed' = (failed \/ Ours(s))
    /\ UNCHANGED <<meData, effectDue, server, disturbed, faults>>

\* AuthScreen's form, for an administrator or for the first one.
SignIn(s) ==
    /\ ~Shown
    /\ \A r \in Slots : flow[r].kind # "login"
    /\ loginAdmin(s)
    /\ UNCHANGED <<storage, react, server, aux, faults>>

SignedIn(s, rememberMe) ==
    /\ Answered(s, {"login"}) /\ flow[s].answer.status = "ok"
    /\ storeSession(flow[s].answer.pair, rememberMe)
    /\ user' = TRUE
    /\ InvalidateQueries(s)
    /\ signedAs' = flow[s].answer.pair
    /\ placed' = rememberMe
    /\ crossed' = Rival(s)
    /\ UNCHANGED <<meData, effectDue, server, disturbed, failed, faults>>

SignInFailed(s) ==
    /\ Answered(s, {"login"}) /\ flow[s].answer.status # "ok"
    /\ Free(s)
    /\ UNCHANGED <<storage, react, server, aux, faults>>

Logout(s) ==
    /\ Shown /\ readToken # 0
    /\ logoutAdmin(s)
    /\ UNCHANGED <<storage, react, server, aux, faults>>

\* onLogout after logoutAdmin, which returns at once without a token and
\* whose failure is ignored.
LoggedOut(s) ==
    /\ Answered(s, {"logout"}) \/ (~Busy(s) /\ Shown /\ readToken = 0)
    /\ SignOut(s)
    /\ meData' = FALSE /\ effectDue' = FALSE
    /\ Drop(s)
    /\ UNCHANGED <<server, disturbed, failed, faults>>

\* The page is loaded again in the same tab, or in a new one.  Requests
\* that change tokens may still reach the server.
Load(newTab) ==
    /\ Shown
    /\ session' = IF newTab THEN 0 ELSE session
    /\ user' = (session' # 0 \/ local # 0)
    /\ meData' = FALSE /\ effectDue' = FALSE
    /\ flow' = [s \in Slots |->
                   IF Busy(s) /\ flow[s].pc \in {"refresh", "logout"} /\ flow[s].answer = NoAnswer
                   THEN [flow[s] EXCEPT !.kind = "left"] ELSE NoFlow]
    /\ signedAs' = IF newTab /\ ~placed THEN 0 ELSE signedAs
    /\ disturbed' = (disturbed \/ \E s \in Slots : Refreshing(s) \/ (Busy(s) /\ flow[s].pc = "logout"))
    /\ placed' = (placed /\ signedAs' # 0)
    /\ UNCHANGED <<local, server, crossed, failed, faults>>

Next ==
    \/ \E s \in Slots :
          \/ Serve(s) \/ LoseRequest(s) \/ apiFetch(s)
          \/ Call(s) \/ FetchMe(s)
          \/ RunEffect(s) \/ EffectRefreshed(s) \/ EffectFailed(s)
          \/ SignIn(s) \/ SignInFailed(s) \/ \E r \in BOOLEAN : SignedIn(s, r)
          \/ Logout(s) \/ LoggedOut(s)
    \/ \E n \in Pairs : Expire(n) \/ Revoke(n)
    \/ \E newTab \in BOOLEAN : Load(newTab)

Spec == Init /\ [][Next]_vars

-----------------------------------------------------------------------------
(* Unless a refresh was in flight while the session was replaced, the      *)
(* storages hold a pair of the last sign-in, in the storage chosen there,  *)
(* also after refreshes and in a new tab; nothing after a sign-out; and    *)
(* the console counts as signed in exactly while they do.                  *)
StoreFollowsUser ==
    ~crossed =>
        /\ local = 0 \/ session = 0
        /\ user = (readToken # 0)
        /\ (readToken # 0) = (signedAs # 0)
        /\ readToken # 0 => owner[readToken] = signedAs /\ remembers = placed

(* Expired access tokens alone cost neither a request nor the session: it  *)
(* takes a fault, a revocation, two refreshes in flight together, or a     *)
(* page left in the middle of one.                                         *)
ExpiryIsHidden == failed => disturbed
=============================================================================
