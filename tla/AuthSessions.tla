---------------------------- MODULE AuthSessions ----------------------------
(***************************************************************************)
(* Login sessions, refresh tokens and password resets of one user          *)
(* (src/api/auth.rs, auth/public.rs, auth/password.rs, auth/sessions.rs,   *)
(* auth/admin_users.rs).  Every request is a process that executes one SQL *)
(* statement per step; the statements of different requests interleave.    *)
(* A row of refresh_tokens keeps its session, revoked_at (revoked),        *)
(* replaced_by_token (by, 0 for NULL) and whether expires_at has passed.   *)
(*                                                                         *)
(* Auxiliary: a row's pw is the password version that the login of its     *)
(* session verified; late says that the row, or one it was rotated from,   *)
(* was inserted by a request that did its checks before a revocation of    *)
(* all tokens and its INSERT after it.  uses counts the passwords set with *)
(* each reset token.                                                       *)
(***************************************************************************)
EXTENDS Naturals, FiniteSets

CONSTANTS
    Clients,       \* concurrent requests of the user and of administrators
    MaxTokens,     \* bound: rows ever inserted into refresh_tokens
    MaxResets,     \* bound: rows ever inserted into password_reset_tokens
    MaxPasswords,  \* bound: password changes
    MaxFaults      \* bound: database errors and crashes

ASSUME AuthAssumption ==
    /\ IsFiniteSet(Clients) /\ Clients # {}
    /\ MaxTokens \in Nat /\ MaxResets \in Nat
    /\ MaxPasswords \in Nat /\ MaxFaults \in Nat

VARIABLES
    user,       \* "active", "inactive" or "deleted"
    password,   \* version of users.password_hash
    tokens,     \* refresh_tokens: token -> row
    nextToken,  \* the token the next INSERT will generate
    resets,     \* password_reset_tokens: token -> "live" or "dead"
    uses,       \* passwords set with each reset token
    req,        \* per client: the request being served
    faults

vars == <<user, password, tokens, nextToken, resets, uses, req, faults>>

TokenIds == 1 .. MaxTokens
ResetIds == 1 .. MaxResets

Row == [session : TokenIds, revoked : BOOLEAN, expired : BOOLEAN,
        by : 0 .. MaxTokens, pw : 0 .. MaxPasswords, late : BOOLEAN]

Steps == {"idle", "issue", "load_user", "rotate", "retire", "refuse", "logout",
          "change", "reset", "consume", "revoke_all", "create_reset"}

\* A request: its next statement, the token it was given and the one it
\* inserted, the password version it saw, and whether all tokens were revoked
\* since its checks.
Request == [pc : Steps, tok : 0 .. MaxTokens, new : 0 .. MaxTokens,
            reset : 0 .. MaxResets, pw : 0 .. MaxPasswords, late : BOOLEAN]

Idle == [pc |-> "idle", tok |-> 0, new |-> 0, reset |-> 0, pw |-> 0, late |-> FALSE]

TypeOK ==
    /\ user \in {"active", "inactive", "deleted"}
    /\ password \in 0 .. MaxPasswords
    /\ DOMAIN tokens \subseteq TokenIds
    /\ \A t \in DOMAIN tokens : tokens[t] \in Row
    /\ nextToken \in 1 .. MaxTokens + 1
    /\ DOMAIN resets \subseteq ResetIds
    /\ \A r \in DOMAIN resets : resets[r] \in {"live", "dead"}
    /\ uses \in [ResetIds -> Nat]
    /\ req \in [Clients -> Request]
    /\ faults \in 0 .. MaxFaults

Init ==
    /\ user = "active"
    /\ password = 0
    /\ tokens = << >>
    /\ nextToken = 1
    /\ resets = << >>
    /\ uses = [r \in ResetIds |-> 0]
    /\ req = [c \in Clients |-> Idle]
    /\ faults = 0

-----------------------------------------------------------------------------
At(c, step) == req[c].pc = step

Goto(c, step) == req' = [req EXCEPT ![c].pc = step]

Finish(c) == req' = [req EXCEPT ![c] = Idle]

\* load_active_refresh_token, load_active_password_reset_token.
Active(t) == t \in DOMAIN tokens /\ ~tokens[t].revoked /\ ~tokens[t].expired

LiveResets == {r \in DOMAIN resets : resets[r] = "live"}

\* The foreign key of both tables: an INSERT for a deleted user fails.
UserRowExists == user # "deleted"

\* The INSERT shared by issue_refresh_token and rotate_refresh_token.
InsertToken(session, pw, late) ==
    /\ nextToken \in TokenIds
    /\ tokens' = [t \in DOMAIN tokens \cup {nextToken} |->
                    IF t = nextToken
                    THEN [session |-> session, revoked |-> FALSE, expired |-> FALSE,
                          by |-> 0, pw |-> pw, late |-> late]
                    ELSE tokens[t]]
    /\ nextToken' = nextToken + 1

Revoke(S) ==
    tokens' = [t \in DOMAIN tokens |->
                 IF t \in S THEN [tokens[t] EXCEPT !.revoked = TRUE] ELSE tokens[t]]

-----------------------------------------------------------------------------
(* login_for_app: load the user, verify the password, INSERT a token.      *)
Login(c) ==
    /\ At(c, "idle")
    /\ user = "active"
    /\ req' = [req EXCEPT ![c] = [Idle EXCEPT !.pc = "issue", !.pw = password]]
    /\ UNCHANGED <<user, password, tokens, nextToken, resets, uses, faults>>

IssueRefreshToken(c) ==
    /\ At(c, "issue")
    /\ Finish(c)
    /\ IF UserRowExists
       THEN InsertToken(nextToken, req[c].pw, req[c].late)
       ELSE UNCHANGED <<tokens, nextToken>>
    /\ UNCHANGED <<user, password, resets, uses, faults>>

(* refresh_session_for_app: load the token, load the user, then rotate or, *)
(* for an inactive user, revoke the token.                                 *)
Refresh(c, t) ==
    /\ At(c, "idle")
    /\ Active(t)
    /\ req' = [req EXCEPT ![c] = [Idle EXCEPT !.pc = "load_user", !.tok = t,
                                     !.pw = tokens[t].pw, !.late = tokens[t].late]]
    /\ UNCHANGED <<user, password, tokens, nextToken, resets, uses, faults>>

LoadUser(c) ==
    /\ At(c, "load_user")
    /\ CASE user = "active"   -> Goto(c, "rotate")
         [] user = "inactive" -> Goto(c, "refuse")
         [] user = "deleted"  -> Finish(c)
    /\ UNCHANGED <<user, password, tokens, nextToken, resets, uses, faults>>

\* The UPDATEs name the token and nothing else: a row deleted since is not
\* updated, a row revoked since is revoked again.
Refuse(c) ==
    /\ At(c, "refuse")
    /\ Finish(c)
    /\ Revoke({req[c].tok})
    /\ UNCHANGED <<user, password, nextToken, resets, uses, faults>>

\* Mutant: the old token is retired before its successor is inserted.
RetireThenInsert(c) ==
    /\ At(c, "rotate")
    /\ nextToken \in TokenIds
    /\ tokens' = [t \in DOMAIN tokens |->
                    IF t = req[c].tok THEN [tokens[t] EXCEPT !.revoked = TRUE, !.by = nextToken]
                    ELSE tokens[t]]
    /\ req' = [req EXCEPT ![c].pc = "issue"]
    /\ UNCHANGED <<user, password, nextToken, resets, uses, faults>>

\* The session id was copied from the row when it was loaded; rows never
\* change their session, and a deleted row implies a deleted user.
InsertNext(c) ==
    /\ At(c, "rotate")
    /\ IF UserRowExists
       THEN /\ InsertToken(tokens[req[c].tok].session, req[c].pw, req[c].late)
            /\ req' = [req EXCEPT ![c].pc = "retire", ![c].new = nextToken]
       ELSE /\ Finish(c)
            /\ UNCHANGED <<tokens, nextToken>>
    /\ UNCHANGED <<user, password, resets, uses, faults>>

RetirePrevious(c) ==
    /\ At(c, "retire")
    /\ Finish(c)
    /\ tokens' = [t \in DOMAIN tokens |->
                    IF t = req[c].tok
                    THEN [tokens[t] EXCEPT !.revoked = TRUE, !.by = req[c].new]
                    ELSE tokens[t]]
    /\ UNCHANGED <<user, password, nextToken, resets, uses, faults>>

(* logout_for_app: the token is loaded only for the audit event.           *)
Logout(c, t) ==
    /\ At(c, "idle")
    /\ t \in DOMAIN tokens
    /\ Revoke({t})
    /\ UNCHANGED <<user, password, nextToken, resets, uses, req, faults>>

(* revoke_session, and revoke_admin_user_session for an administrator.     *)
RevokeSession(c, s) ==
    /\ At(c, "idle")
    /\ \E t \in DOMAIN tokens : tokens[t].session = s /\ ~tokens[t].revoked
    /\ Revoke({t \in DOMAIN tokens : tokens[t].session = s})
    /\ UNCHANGED <<user, password, nextToken, resets, uses, req, faults>>

\* revoke_all_refresh_tokens_for_user, as revoke_all_sessions and as the last
\* statement of change_password and reset_password_for_app.  Requests past
\* their checks and before their INSERT are now late.
RevokeAll(c) ==
    /\ req[c].pc \in {"idle", "revoke_all"}
    /\ Revoke(DOMAIN tokens)
    /\ req' = [d \in Clients |->
                 IF d = c THEN Idle
                 ELSE [req[d] EXCEPT !.late = @ \/ req[d].pc \in {"issue", "load_user", "rotate"}]]
    /\ UNCHANGED <<user, password, nextToken, resets, uses, faults>>

(* change_password: load the user and verify, UPDATE the hash, revoke all. *)
ChangePassword(c) ==
    /\ At(c, "idle")
    /\ user # "deleted"
    /\ Goto(c, "change")
    /\ UNCHANGED <<user, password, tokens, nextToken, resets, uses, faults>>

\* UPDATE users SET password_hash: no row matches once the user is deleted.
SetPassword ==
    /\ password < MaxPasswords
    /\ password' = IF user = "deleted" THEN password ELSE password + 1

\* Mutant: the tokens are revoked before the password is replaced.
RevokeThenChange(c) ==
    /\ At(c, "change")
    /\ SetPassword
    /\ Finish(c)
    /\ UNCHANGED <<user, tokens, nextToken, resets, uses, faults>>

UpdatePassword(c) ==
    /\ At(c, "change")
    /\ SetPassword
    /\ Goto(c, "revoke_all")
    /\ UNCHANGED <<user, tokens, nextToken, resets, uses, faults>>

(* forgot_password_for_app: consume the previous tokens, INSERT a new one. *)
ForgotPassword(c) ==
    /\ At(c, "idle")
    /\ user # "deleted"
    /\ resets' = [r \in DOMAIN resets |-> "dead"]
    /\ Goto(c, "create_reset")
    /\ UNCHANGED <<user, password, tokens, nextToken, uses, faults>>

CreateReset(c) ==
    /\ At(c, "create_reset")
    /\ Finish(c)
    /\ IF UserRowExists
       THEN LET r == Cardinality(DOMAIN resets) + 1
            IN  /\ r \in ResetIds
                /\ resets' = [q \in DOMAIN resets \cup {r} |->
                                IF q = r THEN "live" ELSE resets[q]]
       ELSE UNCHANGED resets
    /\ UNCHANGED <<user, password, tokens, nextToken, uses, faults>>

(* reset_password_for_app: load the token, UPDATE the hash, consume the    *)
(* token, revoke all.                                                      *)
ResetPassword(c, r) ==
    /\ At(c, "idle")
    /\ r \in LiveResets
    /\ req' = [req EXCEPT ![c].pc = "reset", ![c].reset = r]
    /\ UNCHANGED <<user, password, tokens, nextToken, resets, uses, faults>>

ApplyReset(c) ==
    /\ At(c, "reset")
    /\ SetPassword
    /\ uses' = [uses EXCEPT ![req[c].reset] = @ + 1]
    /\ Goto(c, "consume")
    /\ UNCHANGED <<user, tokens, nextToken, resets, faults>>

\* Mutant: the token stays valid after its use.
ConsumeNothing(c) ==
    /\ At(c, "consume")
    /\ Goto(c, "revoke_all")
    /\ UNCHANGED <<user, password, tokens, nextToken, resets, uses, faults>>

ConsumeReset(c) ==
    /\ At(c, "consume")
    /\ resets' = [r \in DOMAIN resets |-> IF r = req[c].reset THEN "dead" ELSE resets[r]]
    /\ Goto(c, "revoke_all")
    /\ UNCHANGED <<user, password, tokens, nextToken, uses, faults>>

-----------------------------------------------------------------------------
(* update_admin_user_active: one UPDATE; the tokens are left alone.        *)
SetActive(status) ==
    /\ user # "deleted"
    /\ user' = status
    /\ UNCHANGED <<password, tokens, nextToken, resets, uses, req, faults>>

(* delete_admin_user: one transaction deletes the user and the tokens.     *)
DeleteUser ==
    /\ user # "deleted"
    /\ user' = "deleted"
    /\ tokens' = << >>
    /\ resets' = << >>
    /\ UNCHANGED <<password, nextToken, uses, req, faults>>

\* expires_at passes: 30 days for a refresh token, 30 minutes for a reset.
ExpireToken(t) ==
    /\ Active(t)
    /\ tokens' = [tokens EXCEPT ![t].expired = TRUE]
    /\ UNCHANGED <<user, password, nextToken, resets, uses, req, faults>>

ExpireReset(r) ==
    /\ r \in LiveResets
    /\ resets' = [resets EXCEPT ![r] = "dead"]
    /\ UNCHANGED <<user, password, tokens, nextToken, uses, req, faults>>

\* A statement fails.  The error ends the request, except where it is
\* discarded ("let _ ="): consume goes on to revoke, and the rest was last.
StatementFails(c) ==
    /\ ~At(c, "idle")
    /\ faults < MaxFaults
    /\ faults' = faults + 1
    /\ IF At(c, "consume") THEN Goto(c, "revoke_all") ELSE Finish(c)
    /\ UNCHANGED <<user, password, tokens, nextToken, resets, uses>>

\* The server process stops: every request in flight is lost.
Crash ==
    /\ \E c \in Clients : ~At(c, "idle")
    /\ faults < MaxFaults
    /\ faults' = faults + 1
    /\ req' = [c \in Clients |-> Idle]
    /\ UNCHANGED <<user, password, tokens, nextToken, resets, uses>>

Next ==
    \/ \E c \in Clients :
          \/ Login(c) \/ IssueRefreshToken(c)
          \/ LoadUser(c) \/ Refuse(c) \/ InsertNext(c) \/ RetirePrevious(c)
          \/ RevokeAll(c)
          \/ ChangePassword(c) \/ UpdatePassword(c)
          \/ ForgotPassword(c) \/ CreateReset(c) \/ ApplyReset(c) \/ ConsumeReset(c)
          \/ StatementFails(c)
          \/ \E t \in TokenIds : Refresh(c, t) \/ Logout(c, t) \/ RevokeSession(c, t)
          \/ \E r \in ResetIds : ResetPassword(c, r)
    \/ \E status \in {"active", "inactive"} : SetActive(status)
    \/ \E t \in TokenIds : ExpireToken(t)
    \/ \E r \in ResetIds : ExpireReset(r)
    \/ DeleteUser
    \/ Crash

Spec == Init /\ [][Next]_vars

-----------------------------------------------------------------------------
(* A replaced token is revoked, and what replaced it is a later row of the *)
(* same session: rotate_refresh_token inserts the successor before it      *)
(* retires the old token, so no crash, error or race between the two       *)
(* statements ends a session that nobody ended.                            *)
ReplacedBySuccessor ==
    \A t \in DOMAIN tokens :
        tokens[t].by # 0 =>
            /\ tokens[t].revoked
            /\ tokens[t].by \in DOMAIN tokens
            /\ tokens[t].by > t
            /\ tokens[tokens[t].by].session = tokens[t].session

(* Once a password change has run to its end without a failed statement,   *)
(* the only active tokens of earlier passwords are those whose INSERT came *)
(* after the revocation and whose checks came before it.  This is why      *)
(* change_password and reset_password_for_app revoke after the UPDATE.     *)
OldPasswordsRevoked ==
    (faults = 0 /\ \A c \in Clients : ~(req[c].pc \in {"consume", "revoke_all"})) =>
        \A t \in DOMAIN tokens :
            Active(t) => tokens[t].pw = password \/ tokens[t].late

(* A reset token sets at most one password per request in flight, and as   *)
(* many again for every failed statement or crash that keeps it from being *)
(* consumed.                                                               *)
ResetUsesBounded ==
    \A r \in ResetIds : uses[r] <= (1 + faults) * Cardinality(Clients)
=============================================================================
