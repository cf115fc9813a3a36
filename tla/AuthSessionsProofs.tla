------------------------- MODULE AuthSessionsProofs -------------------------
(***************************************************************************)
(* Invariance proofs for AuthSessions, for any number of concurrent        *)
(* requests, tokens, passwords and faults.                                 *)
(***************************************************************************)
EXTENDS AuthSessions, FiniteSetTheorems, TLAPS

(* In the table T, n is a later token of the same session as t.            *)
Successor(T, t, n) ==
    n \in DOMAIN T /\ n > t /\ T[n].session = T[t].session

(* The rows of refresh_tokens go with their user; a refresh in progress    *)
(* holds a row, and its successor once that is inserted.                   *)
Rotation ==
    /\ user = "deleted" => DOMAIN tokens = {}
    /\ \A t \in DOMAIN tokens : t < nextToken
    /\ user # "deleted" =>
          \A c \in Clients :
             /\ req[c].pc \in {"load_user", "rotate", "retire"} => req[c].tok \in DOMAIN tokens
             /\ req[c].pc = "retire" => Successor(tokens, req[c].tok, req[c].new)
    /\ \A t \in DOMAIN tokens : tokens[t].by # 0 => tokens[t].revoked /\ Successor(tokens, t, tokens[t].by)

(* Unless a password was just set and its revocation is still to come, the *)
(* tokens in use, and those about to be inserted, are of the current       *)
(* password or late.                                                       *)
Revoking == \E c \in Clients : req[c].pc \in {"consume", "revoke_all"}

Current(pw, late) == pw = password \/ late

Passwords ==
    faults = 0 /\ ~Revoking =>
        /\ \A t \in DOMAIN tokens : Active(t) => Current(tokens[t].pw, tokens[t].late)
        /\ \A c \in Clients : req[c].pc \in {"issue", "load_user", "rotate"}
                => Current(req[c].pw, req[c].late)

(* Requests that will set a password with reset token r, and those that    *)
(* have and are to consume it.                                             *)
Resetting(r) == {c \in Clients : req[c].pc = "reset" /\ req[c].reset = r}
Consuming(r) == {c \in Clients : req[c].pc = "consume" /\ req[c].reset = r}

(* A token that may still be loaded, or is not issued yet, was used by the *)
(* requests about to consume it and by those that a fault kept from it;    *)
(* one that may not, by one more round of requests, counting those that    *)
(* still hold it.                                                          *)
Open(r) == user # "deleted" /\ (r \in LiveResets \/ r \notin DOMAIN resets)

UsesOf(r) ==
    IF Open(r)
    THEN uses[r] <= faults * Cardinality(Clients) + Cardinality(Consuming(r))
    ELSE uses[r] + Cardinality(Resetting(r)) <= faults * Cardinality(Clients) + Cardinality(Clients)

ResetUses ==
    /\ user = "deleted" => DOMAIN resets = {}
    /\ user # "deleted" =>
          /\ \E n \in 0 .. MaxResets : DOMAIN resets = 1 .. n
          /\ \A c \in Clients : req[c].pc \in {"reset", "consume"} => req[c].reset \in DOMAIN resets
    /\ \A r \in ResetIds : UsesOf(r)

Inv == TypeOK /\ Rotation /\ Passwords /\ ResetUses
-----------------------------------------------------------------------------
(* What the updates of a request do to it.                                 *)
LEMMA IdleType == Idle \in Request
  BY AuthAssumption DEF Idle, Request, Steps

(* A request goes on to another statement.                                 *)
LEMMA Goes ==
    ASSUME TypeOK, NEW c \in Clients, NEW step \in Steps, Goto(c, step)
    PROVE  /\ req' \in [Clients -> Request]
           /\ \A d \in Clients : d # c => req'[d] = req[d]
           /\ req'[c].pc = step /\ req'[c].tok = req[c].tok /\ req'[c].new = req[c].new
           /\ req'[c].reset = req[c].reset /\ req'[c].pw = req[c].pw
           /\ req'[c].late = req[c].late
  BY Zenon DEF TypeOK, Goto, Request

(* A request has loaded a reset token.                                     *)
LEMMA Loads ==
    ASSUME TypeOK, NEW c \in Clients, NEW r \in 0 .. MaxResets,
           req' = [req EXCEPT ![c].pc = "reset", ![c].reset = r]
    PROVE  /\ req' \in [Clients -> Request]
           /\ \A d \in Clients : d # c => req'[d] = req[d]
           /\ req'[c].pc = "reset" /\ req'[c].reset = r
  <1> DEFINE moved == [req EXCEPT ![c].pc = "reset"]
  <1>1. moved \in [Clients -> Request] /\ moved[c].pc = "reset" /\ \A d \in Clients : d # c => moved[d] = req[d]
    BY DEF TypeOK, Request, Steps
  <1>2. req' = [moved EXCEPT ![c] = [moved[c] EXCEPT !.reset = r]]
    BY Zenon
  <1> HIDE DEF moved
  <1>3. PICK new : new = [moved[c] EXCEPT !.reset = r]
    BY Zenon
  <1>4. moved[c] \in Request
    BY <1>1, Zenon
  <1>5. new \in Request /\ new.pc = moved[c].pc /\ new.reset = r
    BY <1>3, <1>4, Zenon DEF Request
  <1> QED
    BY <1>1, <1>2, <1>3, <1>5, Zenon

(* A request is answered.                                                  *)
LEMMA Finishes ==
    ASSUME TypeOK, NEW c \in Clients, Finish(c)
    PROVE  /\ req' \in [Clients -> Request]
           /\ \A d \in Clients : d # c => req'[d] = req[d]
           /\ req'[c] = Idle /\ req'[c].pc = "idle"
  BY IdleType, Zenon DEF TypeOK, Finish, Idle

(* An UPDATE of revoked_at.                                                *)
LEMMA Revokes ==
    ASSUME TypeOK, NEW S, Revoke(S)
    PROVE  /\ DOMAIN tokens' = DOMAIN tokens
           /\ \A t \in DOMAIN tokens :
                 /\ tokens'[t] \in Row
                 /\ tokens'[t].session = tokens[t].session /\ tokens'[t].by = tokens[t].by
                 /\ tokens'[t].pw = tokens[t].pw /\ tokens'[t].late = tokens[t].late
                 /\ tokens'[t].expired = tokens[t].expired
                 /\ tokens'[t].revoked = (tokens[t].revoked \/ t \in S)
  BY Zenon DEF TypeOK, Revoke, Row

(* An INSERT into refresh_tokens.                                          *)
LEMMA Inserts ==
    ASSUME TypeOK, Rotation, NEW s \in TokenIds, NEW p \in 0 .. MaxPasswords, NEW l \in BOOLEAN,
           InsertToken(s, p, l)
    PROVE  /\ nextToken \in TokenIds /\ nextToken \notin DOMAIN tokens /\ nextToken' = nextToken + 1
           /\ nextToken' \in 1 .. MaxTokens + 1
           /\ DOMAIN tokens' = DOMAIN tokens \cup {nextToken}
           /\ \A t \in DOMAIN tokens : tokens'[t] = tokens[t]
           /\ tokens'[nextToken] \in Row
           /\ tokens'[nextToken].session = s /\ tokens'[nextToken].pw = p
           /\ tokens'[nextToken].late = l /\ tokens'[nextToken].by = 0
           /\ tokens'[nextToken].revoked = FALSE
  <1>1. nextToken \in TokenIds /\ nextToken' = nextToken + 1 /\ nextToken \in Nat
    BY AuthAssumption DEF InsertToken, TokenIds
  <1>2. nextToken \notin DOMAIN tokens
    BY <1>1 DEF Rotation
  <1>3. [session |-> s, revoked |-> FALSE, expired |-> FALSE, by |-> 0, pw |-> p, late |-> l] \in Row
    BY AuthAssumption DEF Row
  <1>4. nextToken' \in 1 .. MaxTokens + 1
    BY <1>1, AuthAssumption DEF TokenIds
  <1> QED
    BY <1>1, <1>2, <1>3, <1>4, Zenon DEF InsertToken

-----------------------------------------------------------------------------
(* Types.  Requests that only go on or are answered.                       *)
LEMMA TypeRequests ==
    ASSUME TypeOK, NEW c \in Clients,
           \/ LoadUser(c) \/ ChangePassword(c)
           \/ \E t \in TokenIds : Logout(c, t) \/ RevokeSession(c, t)
           \/ Refuse(c)
    PROVE  TypeOK'
  <1>1. CASE LoadUser(c)
    <2>1. req' \in [Clients -> Request]
      BY <1>1, Goes, Finishes, Zenon DEF LoadUser, TypeOK, Steps
    <2> QED
      BY <1>1, <2>1, Zenon DEF LoadUser, TypeOK
  <1>2. CASE ChangePassword(c)
    <2>1. req' \in [Clients -> Request]
      BY <1>2, Goes, Zenon DEF ChangePassword, Steps
    <2> QED
      BY <1>2, <2>1, Zenon DEF ChangePassword, TypeOK
  <1>3. CASE \E t \in TokenIds : Logout(c, t) \/ RevokeSession(c, t)
    <2>1. DOMAIN tokens' = DOMAIN tokens /\ \A t \in DOMAIN tokens : tokens'[t] \in Row
      BY <1>3, Revokes, Zenon DEF Logout, RevokeSession
    <2> QED
      BY <1>3, <2>1, Zenon DEF Logout, RevokeSession, TypeOK
  <1>4. CASE Refuse(c)
    <2>1. DOMAIN tokens' = DOMAIN tokens /\ \A t \in DOMAIN tokens : tokens'[t] \in Row
      BY <1>4, Revokes, Zenon DEF Refuse
    <2>2. req' \in [Clients -> Request]
      BY <1>4, Finishes, Zenon DEF Refuse
    <2> QED
      BY <1>4, <2>1, <2>2, Zenon DEF Refuse, TypeOK
  <1> QED
    BY <1>1, <1>2, <1>3, <1>4, Zenon

(* Types.  Logins and refreshes.                                           *)
LEMMA TypeTokens ==
    ASSUME TypeOK, Rotation, NEW c \in Clients,
           \/ Login(c) \/ IssueRefreshToken(c) \/ InsertNext(c) \/ RetirePrevious(c) \/ RevokeAll(c)
           \/ \E t \in TokenIds : Refresh(c, t)
    PROVE  TypeOK'
  <1>0. /\ req[c] \in Request /\ req[c].pw \in 0 .. MaxPasswords /\ req[c].late \in BOOLEAN
        /\ req[c].new \in 0 .. MaxTokens
    BY Zenon DEF TypeOK, Request
  <1>1. CASE Login(c)
    <2>1. [Idle EXCEPT !.pc = "issue", !.pw = password] \in Request
      BY IdleType, Zenon DEF TypeOK, Request, Steps
    <2> QED
      BY <1>1, <2>1, Zenon DEF Login, TypeOK
  <1>2. CASE IssueRefreshToken(c)
    <2>1. req' \in [Clients -> Request]
      BY <1>2, Finishes, Zenon DEF IssueRefreshToken
    <2>2. CASE UserRowExists
      <3>1. InsertToken(nextToken, req[c].pw, req[c].late) /\ nextToken \in TokenIds
        BY <1>2, <2>2, Zenon DEF IssueRefreshToken, InsertToken
      <3>2. /\ DOMAIN tokens' = DOMAIN tokens \cup {nextToken} /\ nextToken' \in 1 .. MaxTokens + 1
            /\ \A t \in DOMAIN tokens' : tokens'[t] \in Row
        BY <1>0, <3>1, Inserts, ZenonT(30) DEF TypeOK
      <3> QED
        BY <1>2, <2>1, <3>1, <3>2, Zenon DEF IssueRefreshToken, TypeOK
    <2>3. CASE ~UserRowExists
      BY <1>2, <2>1, <2>3, Zenon DEF IssueRefreshToken, TypeOK
    <2> QED
      BY <2>2, <2>3, Zenon
  <1>3. CASE InsertNext(c)
    <2>1. CASE UserRowExists
      <3>0. req[c].tok \in DOMAIN tokens /\ tokens[req[c].tok].session \in TokenIds
        BY <1>3, <2>1, Zenon DEF InsertNext, At, UserRowExists, Rotation, TypeOK, Row
      <3>1. InsertToken(tokens[req[c].tok].session, req[c].pw, req[c].late) /\ nextToken \in TokenIds
        BY <1>3, <2>1, Zenon DEF InsertNext, InsertToken
      <3>2. /\ DOMAIN tokens' = DOMAIN tokens \cup {nextToken} /\ nextToken' \in 1 .. MaxTokens + 1
            /\ \A t \in DOMAIN tokens' : tokens'[t] \in Row
        BY <1>0, <3>0, <3>1, Inserts, ZenonT(30) DEF TypeOK
      <3>3. req' \in [Clients -> Request]
        BY <1>0, <1>3, <2>1, <3>1, AuthAssumption DEF InsertNext, TypeOK, Request, Steps, TokenIds
      <3> QED
        BY <1>3, <3>1, <3>2, <3>3, Zenon DEF InsertNext, TypeOK
    <2>2. CASE ~UserRowExists
      <3>1. req' \in [Clients -> Request]
        BY <1>3, <2>2, Finishes, Zenon DEF InsertNext
      <3> QED
        BY <1>3, <2>2, <3>1, Zenon DEF InsertNext, TypeOK
    <2> QED
      BY <2>1, <2>2, Zenon
  <1>4. CASE RetirePrevious(c)
    <2>1. req' \in [Clients -> Request]
      BY <1>4, Finishes, ZenonT(30) DEF RetirePrevious
    <2>2. DOMAIN tokens' = DOMAIN tokens /\ \A t \in DOMAIN tokens : tokens'[t] \in Row
      BY <1>0, <1>4, ZenonT(30) DEF RetirePrevious, TypeOK, Row
    <2> QED
      BY <1>4, <2>1, <2>2, ZenonT(30) DEF RetirePrevious, TypeOK
  <1>5. CASE RevokeAll(c)
    <2>1. \A d \in Clients : \A l \in BOOLEAN : [req[d] EXCEPT !.late = l] \in Request
      BY Zenon DEF TypeOK, Request
    <2>2. \A d \in Clients : (req[d].late \/ req[d].pc \in {"issue", "load_user", "rotate"}) \in BOOLEAN
      BY Zenon
    <2>3. req' \in [Clients -> Request]
      BY <1>5, <2>1, <2>2, IdleType, Zenon DEF RevokeAll
    <2>4. DOMAIN tokens' = DOMAIN tokens /\ \A t \in DOMAIN tokens : tokens'[t] \in Row
      BY <1>5, Revokes, Zenon DEF RevokeAll
    <2> QED
      BY <1>5, <2>3, <2>4, Zenon DEF RevokeAll, TypeOK
  <1>6. CASE \E t \in TokenIds : Refresh(c, t)
    <2>1. PICK t \in TokenIds : Refresh(c, t)
      BY <1>6, Zenon
    <2>2. tokens[t].pw \in 0 .. MaxPasswords /\ tokens[t].late \in BOOLEAN /\ t \in 0 .. MaxTokens
      <3>1. tokens[t] \in Row
        BY <2>1, Zenon DEF Refresh, Active, TypeOK
      <3>2. t \in 0 .. MaxTokens
        BY AuthAssumption DEF TokenIds
      <3> QED
        BY <3>1, <3>2, SMTT(30) DEF Row
    <2>3. [Idle EXCEPT !.pc = "load_user", !.tok = t, !.pw = tokens[t].pw, !.late = tokens[t].late] \in Request
      BY <2>2, IdleType, Zenon DEF Request, Steps
    <2> QED
      BY <2>1, <2>3, Zenon DEF Refresh, TypeOK
  <1> QED
    BY <1>1, <1>2, <1>3, <1>4, <1>5, <1>6, Zenon

(* The ids of reset tokens are those given so far.                         *)
LEMMA NewReset ==
    ASSUME TypeOK, ResetUses, UserRowExists
    PROVE  /\ Cardinality(DOMAIN resets) + 1 \notin DOMAIN resets
           /\ Cardinality(DOMAIN resets) + 1 \in ResetIds =>
                 \E n \in 0 .. MaxResets :
                    DOMAIN resets \cup {Cardinality(DOMAIN resets) + 1} = 1 .. n
  <1>1. PICK n \in 0 .. MaxResets : DOMAIN resets = 1 .. n
    BY Zenon DEF ResetUses, UserRowExists
  <1>2. Cardinality(DOMAIN resets) = n /\ n \in Nat
    BY <1>1, FS_Interval, AuthAssumption
  <1>3. n + 1 \notin DOMAIN resets /\ DOMAIN resets \cup {n + 1} = 1 .. (n + 1)
    BY <1>1, <1>2
  <1> QED
    BY <1>2, <1>3, AuthAssumption DEF ResetIds

(* Types.  Passwords.                                                      *)
LEMMA TypePasswords ==
    ASSUME TypeOK, ResetUses, NEW c \in Clients,
           \/ UpdatePassword(c) \/ ForgotPassword(c) \/ CreateReset(c) \/ ApplyReset(c)
           \/ ConsumeReset(c)
           \/ \E r \in ResetIds : ResetPassword(c, r)
    PROVE  TypeOK'
  <1>0. SetPassword => password' \in 0 .. MaxPasswords
    BY AuthAssumption DEF SetPassword, TypeOK
  <1>1. CASE UpdatePassword(c)
    <2>1. req' \in [Clients -> Request]
      BY <1>1, Goes, Zenon DEF UpdatePassword, Steps
    <2> QED
      BY <1>0, <1>1, <2>1, Zenon DEF UpdatePassword, TypeOK
  <1>2. CASE ForgotPassword(c)
    <2>1. req' \in [Clients -> Request]
      BY <1>2, Goes, Zenon DEF ForgotPassword, Steps
    <2> QED
      BY <1>2, <2>1, Zenon DEF ForgotPassword, TypeOK
  <1>3. CASE CreateReset(c)
    <2>1. req' \in [Clients -> Request]
      BY <1>3, Finishes, Zenon DEF CreateReset
    <2>2. DOMAIN resets' \subseteq ResetIds /\ \A r \in DOMAIN resets' : resets'[r] \in {"live", "dead"}
      BY <1>3 DEF CreateReset, TypeOK
    <2> QED
      BY <1>3, <2>1, <2>2, Zenon DEF CreateReset, TypeOK
  <1>4. CASE ApplyReset(c)
    <2>1. req' \in [Clients -> Request]
      BY <1>4, Goes, Zenon DEF ApplyReset, Steps
    <2>2. uses' \in [ResetIds -> Nat]
      <3>1. \A n \in Nat : n + 1 \in Nat
        OBVIOUS
      <3> QED
        BY <1>4, <3>1, Zenon DEF ApplyReset, TypeOK
    <2> QED
      BY <1>0, <1>4, <2>1, <2>2, Zenon DEF ApplyReset, TypeOK
  <1>5. CASE ConsumeReset(c)
    <2>1. req' \in [Clients -> Request]
      BY <1>5, Goes, Zenon DEF ConsumeReset, Steps
    <2> QED
      BY <1>5, <2>1, Zenon DEF ConsumeReset, TypeOK
  <1>6. CASE \E r \in ResetIds : ResetPassword(c, r)
    <2>1. PICK r \in ResetIds : ResetPassword(c, r)
      BY <1>6, Zenon
    <2>2. r \in 0 .. MaxResets
      BY AuthAssumption DEF ResetIds
    <2>3. req' \in [Clients -> Request]
      BY <2>1, <2>2, Loads, Zenon DEF ResetPassword
    <2> QED
      BY <2>1, <2>3, Zenon DEF ResetPassword, TypeOK
  <1> QED
    BY <1>1, <1>2, <1>3, <1>4, <1>5, <1>6, Zenon

(* Types.  Administrators, time and faults.                                *)
LEMMA TypeOthers ==
    ASSUME TypeOK,
           \/ \E status \in {"active", "inactive"} : SetActive(status)
           \/ DeleteUser \/ Crash
           \/ \E t \in TokenIds : ExpireToken(t)
           \/ \E r \in ResetIds : ExpireReset(r)
           \/ \E c \in Clients : StatementFails(c)
    PROVE  TypeOK'
  <1>0. faults < MaxFaults => faults + 1 \in 0 .. MaxFaults
    BY AuthAssumption DEF TypeOK
  <1>1. CASE \E status \in {"active", "inactive"} : SetActive(status)
    BY <1>1, Zenon DEF SetActive, TypeOK
  <1>2. CASE DeleteUser
    BY <1>2 DEF DeleteUser, TypeOK
  <1>3. CASE Crash
    BY <1>0, <1>3, IdleType, Zenon DEF Crash, TypeOK
  <1>4. CASE \E t \in TokenIds : ExpireToken(t)
    <2>1. PICK t \in TokenIds : ExpireToken(t)
      BY <1>4, Zenon
    <2>2. DOMAIN tokens' = DOMAIN tokens /\ \A u \in DOMAIN tokens : tokens'[u] \in Row
      BY <2>1, Zenon DEF ExpireToken, Active, TypeOK, Row
    <2> QED
      BY <2>1, <2>2, Zenon DEF ExpireToken, TypeOK
  <1>5. CASE \E r \in ResetIds : ExpireReset(r)
    BY <1>5, Zenon DEF ExpireReset, LiveResets, TypeOK
  <1>6. CASE \E c \in Clients : StatementFails(c)
    <2>1. req' \in [Clients -> Request]
      BY <1>6, Goes, Finishes, Zenon DEF StatementFails, Steps
    <2> QED
      BY <1>0, <1>6, <2>1, Zenon DEF StatementFails, TypeOK
  <1> QED
    BY <1>1, <1>2, <1>3, <1>4, <1>5, <1>6, Zenon

(* Every step keeps the types.                                             *)
LEMMA TypeStep == ASSUME Inv, [Next]_vars PROVE TypeOK'
  <1>0. TypeOK /\ Rotation /\ ResetUses
    BY Zenon DEF Inv
  <1>1. CASE UNCHANGED vars
    BY <1>0, <1>1, Zenon DEF vars, TypeOK
  <1>2. CASE Next
    BY <1>0, <1>2, TypeRequests, TypeTokens, TypePasswords, TypeOthers, Zenon DEF Next
  <1> QED
    BY <1>1, <1>2, Zenon

-----------------------------------------------------------------------------
(* Rotation.  A step that keeps the rows, but for revocations and expiry,  *)
(* and takes no request to a statement it is not prepared for.             *)
LEMMA RotationKept ==
    ASSUME TypeOK, TypeOK', Rotation, nextToken' = nextToken,
           user' = "deleted" <=> user = "deleted",
           DOMAIN tokens' = DOMAIN tokens,
           \A t \in DOMAIN tokens :
              /\ tokens'[t].session = tokens[t].session /\ tokens'[t].by = tokens[t].by
              /\ tokens[t].revoked => tokens'[t].revoked,
           \A c \in Clients :
              \/ req'[c].pc \notin {"load_user", "rotate", "retire"}
              \/ req'[c].pc = req[c].pc /\ req'[c].tok = req[c].tok /\ req'[c].new = req[c].new
              \/ req'[c].pc \in {"load_user", "rotate"} /\ req'[c].tok \in DOMAIN tokens
    PROVE  Rotation'
  <1>1. \A t, n : Successor(tokens, t, n) /\ t \in DOMAIN tokens => Successor(tokens', t, n)
    BY Zenon DEF Successor
  <1>2. ASSUME user # "deleted", NEW c \in Clients
        PROVE  /\ req'[c].pc \in {"load_user", "rotate", "retire"} => req'[c].tok \in DOMAIN tokens'
               /\ req'[c].pc = "retire" => Successor(tokens', req'[c].tok, req'[c].new)
    <2>1. req[c].pc = "retire" => req[c].tok \in DOMAIN tokens' /\ Successor(tokens', req[c].tok, req[c].new)
      BY <1>1, <1>2, Zenon DEF Rotation
    <2> QED
      BY <1>2, <2>1, Zenon DEF Rotation, Successor
  <1>3. \A t \in DOMAIN tokens' :
          tokens'[t].by # 0 => tokens'[t].revoked /\ Successor(tokens', t, tokens[t].by) /\ tokens'[t].by = tokens[t].by
    BY <1>1, Zenon DEF Rotation
  <1> QED
    BY <1>2, <1>3, Zenon DEF Rotation, Successor

(* Rotation.  Requests that write no row.                                  *)
LEMMA RotationRequests ==
    ASSUME TypeOK, TypeOK', Rotation, NEW c \in Clients,
           \/ Login(c) \/ LoadUser(c) \/ ChangePassword(c) \/ UpdatePassword(c)
           \/ ForgotPassword(c) \/ CreateReset(c) \/ ApplyReset(c) \/ ConsumeReset(c)
           \/ StatementFails(c)
           \/ \E t \in TokenIds : Refresh(c, t)
           \/ \E r \in ResetIds : ResetPassword(c, r)
    PROVE  Rotation'
  <1>0. UNCHANGED <<user, tokens, nextToken>>
    BY Zenon DEF Login, LoadUser, ChangePassword, UpdatePassword, ForgotPassword, CreateReset,
           ApplyReset, ConsumeReset, StatementFails, Refresh, ResetPassword
  <1>1. CASE Login(c) \/ \E t \in TokenIds : Refresh(c, t)
    <2>1. /\ \A d \in Clients : d # c => req'[d] = req[d]
          /\ \/ req'[c].pc = "issue"
             \/ req'[c].pc = "load_user" /\ req'[c].tok \in DOMAIN tokens
      BY <1>1, ZenonT(30) DEF Login, Refresh, Active, Idle, TypeOK
    <2> QED
      BY <1>0, <2>1, RotationKept, SMTT(30)
  <1>2. CASE LoadUser(c)
    <2>1. /\ \A d \in Clients : d # c => req'[d] = req[d]
          /\ \/ req'[c].pc \in {"refuse", "idle"}
             \/ user = "active" /\ req'[c].pc = "rotate" /\ req'[c].tok = req[c].tok
      BY <1>2, Goes, Finishes, Zenon DEF LoadUser, TypeOK, Steps
    <2>2. user = "active" => req[c].tok \in DOMAIN tokens
      BY <1>2, Zenon DEF LoadUser, At, Rotation
    <2> QED
      BY <1>0, <2>1, <2>2, RotationKept, Zenon
  <1>3. CASE ChangePassword(c) \/ UpdatePassword(c) \/ ForgotPassword(c) \/ ApplyReset(c)
             \/ ConsumeReset(c)
    <2>1. /\ \A d \in Clients : d # c => req'[d] = req[d]
          /\ req'[c].pc \notin {"load_user", "rotate", "retire"}
      BY <1>3, Goes, Zenon DEF ChangePassword, UpdatePassword, ForgotPassword, ApplyReset, ConsumeReset, Steps
    <2> QED
      BY <1>0, <2>1, RotationKept, Zenon
  <1>4. CASE CreateReset(c) \/ StatementFails(c)
    <2>1. /\ \A d \in Clients : d # c => req'[d] = req[d]
          /\ req'[c].pc \notin {"load_user", "rotate", "retire"}
      BY <1>4, Goes, Finishes, Zenon DEF CreateReset, StatementFails, Steps
    <2> QED
      BY <1>0, <2>1, RotationKept, Zenon
  <1>5. CASE \E r \in ResetIds : ResetPassword(c, r)
    <2>1. \A r \in ResetIds : r \in 0 .. MaxResets
      BY AuthAssumption DEF ResetIds
    <2>2. /\ \A d \in Clients : d # c => req'[d] = req[d]
          /\ req'[c].pc \notin {"load_user", "rotate", "retire"}
      BY <1>5, <2>1, Loads, Zenon DEF ResetPassword
    <2> QED
      BY <1>0, <2>2, RotationKept, Zenon
  <1> QED
    BY <1>1, <1>2, <1>3, <1>4, <1>5, SMTT(30)

(* Rotation.  Revocations, expiry, administrators and crashes.             *)
LEMMA RotationRevocations ==
    ASSUME TypeOK, TypeOK', Rotation,
           \/ \E c \in Clients : Refuse(c) \/ RevokeAll(c)
           \/ \E c \in Clients, t \in TokenIds : Logout(c, t) \/ RevokeSession(c, t)
           \/ \E t \in TokenIds : ExpireToken(t)
           \/ \E r \in ResetIds : ExpireReset(r)
           \/ \E status \in {"active", "inactive"} : SetActive(status)
           \/ Crash
    PROVE  Rotation'
  <1>1. CASE \E c \in Clients : Refuse(c)
    BY <1>1, Revokes, Finishes, RotationKept, Zenon DEF Refuse
  <1>2. CASE \E c \in Clients : RevokeAll(c)
    <2>1. PICK c \in Clients : RevokeAll(c)
      BY <1>2, Zenon
    <2>2. \A d \in Clients : \/ req'[d].pc = "idle"
                             \/ /\ req'[d].pc = req[d].pc /\ req'[d].tok = req[d].tok
                                /\ req'[d].new = req[d].new
      BY <2>1 DEF RevokeAll, Idle, TypeOK, Request
    <2>3. Revoke(DOMAIN tokens) /\ UNCHANGED <<user, nextToken>>
      BY <2>1, Zenon DEF RevokeAll
    <2> QED
      BY <2>2, <2>3, Revokes, RotationKept, Zenon
  <1>3. CASE \E c \in Clients, t \in TokenIds : Logout(c, t) \/ RevokeSession(c, t)
    BY <1>3, Revokes, RotationKept, Zenon DEF Logout, RevokeSession
  <1>4. CASE \E t \in TokenIds : ExpireToken(t)
    <2>1. /\ DOMAIN tokens' = DOMAIN tokens
          /\ \A u \in DOMAIN tokens :
                /\ tokens'[u].session = tokens[u].session /\ tokens'[u].by = tokens[u].by
                /\ tokens'[u].revoked = tokens[u].revoked
      BY <1>4 DEF ExpireToken, Active, TypeOK, Row
    <2> QED
      BY <1>4, <2>1, RotationKept, Zenon DEF ExpireToken
  <1>5. CASE (\E r \in ResetIds : ExpireReset(r)) \/ \E status \in {"active", "inactive"} : SetActive(status)
    BY <1>5, RotationKept, Zenon DEF ExpireReset, SetActive
  <1>6. CASE Crash
    BY <1>6, RotationKept, Zenon DEF Crash, Idle
  <1> QED
    BY <1>1, <1>2, <1>3, <1>4, <1>5, <1>6, Zenon

(* Rotation.  An INSERT, after which its request is done or retires the    *)
(* token it was given.                                                     *)
LEMMA RotationInserted ==
    ASSUME TypeOK, TypeOK', Rotation, NEW c \in Clients, NEW s \in TokenIds,
           InsertToken(s, req[c].pw, req[c].late), user # "deleted", user' = user,
           \A d \in Clients : d # c => req'[d] = req[d],
           \/ req'[c].pc = "idle"
           \/ /\ req'[c].tok \in DOMAIN tokens /\ req'[c].new = nextToken
              /\ s = tokens[req'[c].tok].session
    PROVE  Rotation'
  <1>0. /\ req[c].pw \in 0 .. MaxPasswords /\ req[c].late \in BOOLEAN
        /\ nextToken \in Nat /\ \A t \in DOMAIN tokens : t \in Nat /\ t < nextToken
    <2>1. req[c] \in Request
      BY Zenon DEF TypeOK
    <2>2. nextToken \in Nat /\ \A t \in DOMAIN tokens : t \in Nat
      BY AuthAssumption DEF TypeOK, TokenIds
    <2> QED
      BY <2>1, <2>2, Zenon DEF Request, Rotation
  <1>1. /\ nextToken' = nextToken + 1
        /\ DOMAIN tokens' = DOMAIN tokens \cup {nextToken}
        /\ \A t \in DOMAIN tokens : tokens'[t] = tokens[t]
        /\ tokens'[nextToken].by = 0 /\ tokens'[nextToken].session = s
    BY <1>0, Inserts, Zenon
  <1>2. \A t, n : Successor(tokens, t, n) /\ t \in DOMAIN tokens => Successor(tokens', t, n)
    BY <1>1, Zenon DEF Successor
  <1>3. \A t \in DOMAIN tokens' : t < nextToken'
    BY <1>0, <1>1
  <1>4. \A t \in DOMAIN tokens' :
          tokens'[t].by # 0 => tokens'[t].revoked /\ Successor(tokens', t, tokens'[t].by)
    <2>1. \A t \in DOMAIN tokens :
             tokens[t].by # 0 => tokens'[t].revoked /\ Successor(tokens', t, tokens[t].by)
      BY <1>1, <1>2, Zenon DEF Rotation
    <2> QED
      BY <1>1, <2>1, Zenon DEF Successor
  <1>5. ASSUME NEW d \in Clients, d # c
        PROVE  /\ req'[d].pc \in {"load_user", "rotate", "retire"} => req'[d].tok \in DOMAIN tokens'
               /\ req'[d].pc = "retire" => Successor(tokens', req'[d].tok, req'[d].new)
    <2>1. req[d].pc = "retire" => Successor(tokens', req[d].tok, req[d].new)
      BY <1>2, <1>5, Zenon DEF Rotation
    <2> QED
      BY <1>1, <1>5, <2>1, Zenon DEF Rotation, Successor
  <1>6. req'[c].pc # "idle" => req'[c].tok \in DOMAIN tokens' /\ Successor(tokens', req'[c].tok, req'[c].new)
    BY <1>0, <1>1, Zenon DEF Successor
  <1> QED
    BY <1>3, <1>4, <1>5, <1>6, Zenon DEF Rotation, Successor

(* Rotation.  The successor is inserted before the old token is retired.   *)
LEMMA RotationInserts ==
    ASSUME TypeOK, TypeOK', Rotation, NEW c \in Clients,
           IssueRefreshToken(c) \/ InsertNext(c) \/ RetirePrevious(c)
    PROVE  Rotation'
  <1>1. CASE IssueRefreshToken(c)
    <2>0. (\A d \in Clients : d # c => req'[d] = req[d]) /\ req'[c].pc = "idle" /\ user' = user
      BY <1>1, Finishes, Zenon DEF IssueRefreshToken
    <2>1. CASE ~UserRowExists
      BY <1>1, <2>0, <2>1, RotationKept, Zenon DEF IssueRefreshToken
    <2>2. CASE UserRowExists
      <3>1. InsertToken(nextToken, req[c].pw, req[c].late) /\ nextToken \in TokenIds
        BY <1>1, <2>2, Zenon DEF IssueRefreshToken, InsertToken
      <3> QED
        BY <2>0, <2>2, <3>1, RotationInserted, Zenon DEF UserRowExists
    <2> QED
      BY <2>1, <2>2, Zenon
  <1>2. CASE InsertNext(c)
    <2>0. user' = user
      BY <1>2, Zenon DEF InsertNext
    <2>1. CASE ~UserRowExists
      <3>1. (\A d \in Clients : d # c => req'[d] = req[d]) /\ req'[c].pc = "idle"
        BY <1>2, <2>1, Finishes, Zenon DEF InsertNext
      <3> QED
        BY <1>2, <2>0, <2>1, <3>1, RotationKept, Zenon DEF InsertNext
    <2>2. CASE UserRowExists
      <3>1. req[c].tok \in DOMAIN tokens /\ tokens[req[c].tok].session \in TokenIds
        BY <1>2, <2>2, Zenon DEF InsertNext, At, UserRowExists, Rotation, TypeOK, Row
      <3>2. InsertToken(tokens[req[c].tok].session, req[c].pw, req[c].late)
        BY <1>2, <2>2, Zenon DEF InsertNext
      <3>3. (\A d \in Clients : d # c => req'[d] = req[d])
            /\ req'[c].tok = req[c].tok /\ req'[c].new = nextToken
        <4> DEFINE moved == [req EXCEPT ![c].pc = "retire"]
        <4>1. moved \in [Clients -> Request] /\ moved[c].tok = req[c].tok
              /\ \A d \in Clients : d # c => moved[d] = req[d]
          BY DEF TypeOK, Request, Steps
        <4>2. req' = [moved EXCEPT ![c] = [moved[c] EXCEPT !.new = nextToken]]
          BY <1>2, <2>2, Zenon DEF InsertNext
        <4> HIDE DEF moved
        <4>3. PICK new : new = [moved[c] EXCEPT !.new = nextToken]
          BY ZenonT(30)
        <4>4. new.tok = moved[c].tok /\ new.new = nextToken
          BY <4>1, <4>3, Zenon DEF Request
        <4> QED
          BY <4>1, <4>2, <4>3, <4>4, Zenon
      <3> QED
        BY <2>0, <2>2, <3>1, <3>2, <3>3, RotationInserted, Zenon DEF UserRowExists
    <2> QED
      BY <2>1, <2>2, Zenon
  <1>3. CASE RetirePrevious(c)
    <2>0. (\A d \in Clients : d # c => req'[d] = req[d]) /\ req'[c].pc = "idle" /\ user' = user
          /\ nextToken' = nextToken
      BY <1>3, Finishes, Zenon DEF RetirePrevious
    <2>1. DOMAIN tokens' = DOMAIN tokens
          /\ \A t \in DOMAIN tokens :
                /\ tokens'[t].session = tokens[t].session
                /\ t # req[c].tok => tokens'[t] = tokens[t]
                /\ t = req[c].tok => tokens'[t].revoked /\ tokens'[t].by = req[c].new
      BY <1>3, ZenonT(30) DEF RetirePrevious, TypeOK, Row
    <2>2. \A t, n : Successor(tokens, t, n) /\ t \in DOMAIN tokens => Successor(tokens', t, n)
      BY <2>1, Zenon DEF Successor
    <2>3. req[c].tok \in DOMAIN tokens => Successor(tokens', req[c].tok, req[c].new)
      BY <1>3, <2>2, Zenon DEF RetirePrevious, At, Rotation
    <2>4. \A t \in DOMAIN tokens' :
             tokens'[t].by # 0 => tokens'[t].revoked /\ Successor(tokens', t, tokens'[t].by)
      <3>1. \A t \in DOMAIN tokens : t # req[c].tok =>
               (tokens[t].by # 0 => tokens'[t].revoked /\ Successor(tokens', t, tokens[t].by))
        BY <2>1, <2>2, Zenon DEF Rotation
      <3> QED
        BY <2>1, <2>3, <3>1, Zenon DEF Successor
    <2>5. ASSUME user # "deleted", NEW d \in Clients
          PROVE  /\ req'[d].pc \in {"load_user", "rotate", "retire"} => req'[d].tok \in DOMAIN tokens'
                 /\ req'[d].pc = "retire" => Successor(tokens', req'[d].tok, req'[d].new)
      <3>1. req[d].pc = "retire" => req[d].tok \in DOMAIN tokens' /\ Successor(tokens', req[d].tok, req[d].new)
        BY <2>1, <2>2, <2>5, Zenon DEF Rotation
      <3> QED
        BY <2>0, <2>1, <2>5, <3>1, Zenon DEF Rotation, Successor
    <2> QED
      BY <2>0, <2>1, <2>4, <2>5, Zenon DEF Rotation, Successor
  <1> QED
    BY <1>1, <1>2, <1>3, Zenon

(* Every step keeps Rotation.                                              *)
LEMMA RotationStep == ASSUME Inv, TypeOK', [Next]_vars PROVE Rotation'
  <1>0. TypeOK /\ Rotation
    BY Zenon DEF Inv
  <1>1. CASE UNCHANGED vars
    BY <1>0, <1>1, Zenon DEF vars, Rotation, Successor
  <1>2. CASE DeleteUser
    BY <1>0, <1>2 DEF DeleteUser, Rotation
  <1>3. CASE Next /\ ~DeleteUser
    BY <1>0, <1>3, RotationRequests, RotationRevocations, RotationInserts, Zenon DEF Next
  <1> QED
    BY <1>1, <1>2, <1>3, Zenon

-----------------------------------------------------------------------------
(* Passwords.  The password version p and lateness l are the current       *)
(* version's, or are of a token in use or of a request about to insert.    *)
Inserting == {"issue", "load_user", "rotate"}

Source(p, l) ==
    \/ Current(p, l)
    \/ \E t \in DOMAIN tokens : Active(t) /\ tokens[t].pw = p /\ tokens[t].late = l
    \/ \E d \in Clients : req[d].pc \in Inserting /\ req[d].pw = p /\ req[d].late = l

(* Passwords.  A step that sets no password and ends no revocation, whose  *)
(* tokens and requests take their versions from others.                    *)
LEMMA PasswordsKept ==
    ASSUME Passwords, password' = password, faults' = faults, Revoking => Revoking',
           \A t \in DOMAIN tokens' : Active(t)' => Source(tokens'[t].pw, tokens'[t].late),
           \A d \in Clients : req'[d].pc \in Inserting => Source(req'[d].pw, req'[d].late)
    PROVE  Passwords'
  <1> SUFFICES ASSUME faults = 0, ~Revoking, ~Revoking'
               PROVE  /\ \A t \in DOMAIN tokens' : Active(t)' => Current(tokens'[t].pw, tokens'[t].late)
                      /\ \A d \in Clients : req'[d].pc \in Inserting => Current(req'[d].pw, req'[d].late)
    BY Zenon DEF Passwords, Current, Inserting
  <1>1. \A p, l : Source(p, l) => Current(p, l)
    BY Zenon DEF Passwords, Source, Inserting
  <1> QED
    BY <1>1, Zenon

(* Passwords.  The same where one request moves.                           *)
LEMMA PasswordsMoved ==
    ASSUME Passwords, password' = password, faults' = faults, NEW c \in Clients,
           req[c].pc \notin {"consume", "revoke_all"},
           \A d \in Clients : d # c => req'[d] = req[d],
           req'[c].pc \in Inserting => Source(req'[c].pw, req'[c].late),
           \A t \in DOMAIN tokens' : Active(t)' => Source(tokens'[t].pw, tokens'[t].late)
    PROVE  Passwords'
  <1>1. Revoking => Revoking'
    BY Zenon DEF Revoking
  <1>2. \A d \in Clients : req'[d].pc \in Inserting => Source(req'[d].pw, req'[d].late)
    BY Zenon DEF Source
  <1> QED
    BY <1>1, <1>2, PasswordsKept, Zenon

(* Passwords.  Requests that write no token and set no password.           *)
LEMMA PasswordsRequests ==
    ASSUME TypeOK, Passwords, NEW c \in Clients,
           \/ Login(c) \/ LoadUser(c) \/ ChangePassword(c)
           \/ ForgotPassword(c) \/ CreateReset(c)
           \/ \E t \in TokenIds : Refresh(c, t)
           \/ \E r \in ResetIds : ResetPassword(c, r)
    PROVE  Passwords'
  <1>0. UNCHANGED <<password, tokens, faults>> /\ req[c].pc \notin {"consume", "revoke_all"}
    BY Zenon DEF Login, LoadUser, ChangePassword, ForgotPassword, CreateReset, Refresh, ResetPassword, At
  <1>1. \A t \in DOMAIN tokens' : Active(t)' => Source(tokens'[t].pw, tokens'[t].late)
    BY <1>0, Zenon DEF Active, Source
  <1>2. (\A d \in Clients : d # c => req'[d] = req[d])
        /\ (req'[c].pc \in Inserting => Source(req'[c].pw, req'[c].late))
    <2>1. CASE Login(c)
      BY <2>1, Zenon DEF Login, Idle, TypeOK, Source, Current
    <2>2. CASE LoadUser(c)
      <3>1. /\ \A d \in Clients : d # c => req'[d] = req[d]
            /\ \/ req'[c].pc \in {"refuse", "idle"}
               \/ req'[c].pw = req[c].pw /\ req'[c].late = req[c].late
        BY <2>2, Goes, Finishes, ZenonT(30) DEF LoadUser, TypeOK, Steps
      <3> QED
        BY <2>2, <3>1, Zenon DEF LoadUser, At, Source, Inserting
    <2>3. CASE ChangePassword(c) \/ ForgotPassword(c)
      BY <2>3, Goes, Zenon DEF ChangePassword, ForgotPassword, Steps, Inserting
    <2>4. CASE CreateReset(c)
      BY <2>4, Finishes, Zenon DEF CreateReset, Inserting
    <2>5. CASE \E t \in TokenIds : Refresh(c, t)
      <3>1. PICK t \in TokenIds : Refresh(c, t)
        BY <2>5, Zenon
      <3>2. /\ \A d \in Clients : d # c => req'[d] = req[d]
            /\ req'[c].pw = tokens[t].pw /\ req'[c].late = tokens[t].late /\ Active(t)
        BY <3>1, Zenon DEF Refresh, Idle, TypeOK
      <3> QED
        BY <3>2, Zenon DEF Source, Active
    <2>6. CASE \E r \in ResetIds : ResetPassword(c, r)
      <3>1. \A r \in ResetIds : r \in 0 .. MaxResets
        BY AuthAssumption DEF ResetIds
      <3> QED
        BY <2>6, <3>1, Loads, Zenon DEF ResetPassword, Inserting
    <2> QED
      BY <2>1, <2>2, <2>3, <2>4, <2>5, <2>6, Zenon
  <1> QED
    BY <1>0, <1>1, <1>2, PasswordsMoved, SMTT(30)

(* Passwords.  Inserted tokens take the version of their request.          *)
LEMMA PasswordsInserts ==
    ASSUME TypeOK, Rotation, Passwords, NEW c \in Clients,
           IssueRefreshToken(c) \/ InsertNext(c) \/ RetirePrevious(c)
    PROVE  Passwords'
  <1>0. UNCHANGED <<user, password, faults>> /\ req[c].pc \in {"issue", "rotate", "retire"}
    BY Zenon DEF IssueRefreshToken, InsertNext, RetirePrevious, At
  <1>1. (\A d \in Clients : d # c => req'[d] = req[d]) /\ req'[c].pc \notin Inserting
    <2>1. CASE IssueRefreshToken(c) \/ RetirePrevious(c)
      BY <2>1, Finishes, Zenon DEF IssueRefreshToken, RetirePrevious, Inserting
    <2>2. CASE InsertNext(c) /\ ~UserRowExists
      BY <2>2, Finishes, Zenon DEF InsertNext, Inserting
    <2>3. CASE InsertNext(c) /\ UserRowExists
      <3> DEFINE moved == [req EXCEPT ![c].pc = "retire"]
      <3>1. moved \in [Clients -> Request] /\ moved[c].pc = "retire"
            /\ \A d \in Clients : d # c => moved[d] = req[d]
        BY DEF TypeOK, Request, Steps
      <3>2. req' = [moved EXCEPT ![c] = [moved[c] EXCEPT !.new = nextToken]]
        BY <2>3, Zenon DEF InsertNext
      <3> HIDE DEF moved
      <3>3. PICK new : new = [moved[c] EXCEPT !.new = nextToken]
        BY Zenon
      <3>4. new.pc = "retire"
        BY <3>1, <3>3, Zenon DEF Request
      <3> QED
        BY <3>1, <3>2, <3>3, <3>4, Zenon DEF Inserting
    <2> QED
      BY <2>1, <2>2, <2>3, SMTT(30)
  <1>2. \A t \in DOMAIN tokens' : Active(t)' => Source(tokens'[t].pw, tokens'[t].late)
    <2>0. req[c].pw \in 0 .. MaxPasswords /\ req[c].late \in BOOLEAN
      BY Zenon DEF TypeOK, Request
    <2>1. ASSUME NEW s \in TokenIds, InsertToken(s, req[c].pw, req[c].late), req[c].pc \in Inserting
          PROVE  \A t \in DOMAIN tokens' : Active(t)' => Source(tokens'[t].pw, tokens'[t].late)
      <3>1. /\ DOMAIN tokens' = DOMAIN tokens \cup {nextToken}
            /\ \A t \in DOMAIN tokens : tokens'[t] = tokens[t]
            /\ tokens'[nextToken].pw = req[c].pw /\ tokens'[nextToken].late = req[c].late
        BY <2>0, <2>1, Inserts, Zenon
      <3> QED
        BY <2>1, <3>1, Zenon DEF Active, Source
    <2>2. CASE IssueRefreshToken(c) /\ UserRowExists
      <3>1. InsertToken(nextToken, req[c].pw, req[c].late) /\ nextToken \in TokenIds
        BY <2>2, Zenon DEF IssueRefreshToken, InsertToken
      <3> QED
        BY <2>1, <2>2, <3>1, Zenon DEF IssueRefreshToken, At, Inserting
    <2>3. CASE InsertNext(c) /\ UserRowExists
      <3>1. tokens[req[c].tok].session \in TokenIds
        BY <2>3, Zenon DEF InsertNext, At, UserRowExists, Rotation, TypeOK, Row
      <3>2. InsertToken(tokens[req[c].tok].session, req[c].pw, req[c].late)
        BY <2>3, Zenon DEF InsertNext
      <3> QED
        BY <2>1, <2>3, <3>1, <3>2, Zenon DEF InsertNext, At, Inserting
    <2>4. CASE (IssueRefreshToken(c) \/ InsertNext(c)) /\ ~UserRowExists
      BY <2>4, Zenon DEF IssueRefreshToken, InsertNext, Active, Source
    <2>5. CASE RetirePrevious(c)
      <3>1. /\ DOMAIN tokens' = DOMAIN tokens
            /\ \A t \in DOMAIN tokens : t # req[c].tok => tokens'[t] = tokens[t]
            /\ req[c].tok \in DOMAIN tokens => tokens'[req[c].tok].revoked
        BY <2>5, Zenon DEF RetirePrevious, TypeOK, Row
      <3> QED
        BY <3>1, SMTT(30) DEF Active, Source
    <2> QED
      BY <2>2, <2>3, <2>4, <2>5, Zenon
  <1> QED
    BY <1>0, <1>1, <1>2, PasswordsMoved, Zenon
(* Passwords.  Steps that end tokens or leave them alone.                  *)
LEMMA PasswordsOthers ==
    ASSUME TypeOK, Passwords,
           \/ \E c \in Clients : Refuse(c)
           \/ \E c \in Clients, t \in TokenIds : Logout(c, t) \/ RevokeSession(c, t)
           \/ \E t \in TokenIds : ExpireToken(t)
           \/ \E r \in ResetIds : ExpireReset(r)
           \/ \E status \in {"active", "inactive"} : SetActive(status)
           \/ DeleteUser
    PROVE  Passwords'
  <1>0. ASSUME NEW S, Revoke(S)
        PROVE  \A t \in DOMAIN tokens' : Active(t)' => Source(tokens'[t].pw, tokens'[t].late)
    <2>1. /\ DOMAIN tokens' = DOMAIN tokens
          /\ \A t \in DOMAIN tokens :
                /\ tokens'[t].pw = tokens[t].pw /\ tokens'[t].late = tokens[t].late
                /\ tokens'[t].expired = tokens[t].expired
                /\ tokens'[t].revoked = (tokens[t].revoked \/ t \in S)
      BY <1>0, Revokes, Zenon
    <2> QED
      BY <2>1, Zenon DEF Active, Source
  <1>1. CASE \E c \in Clients : Refuse(c)
    <2>1. PICK c \in Clients : Refuse(c)
      BY <1>1, Zenon
    <2>2. /\ password' = password /\ faults' = faults /\ req[c].pc = "refuse"
          /\ \A d \in Clients : d # c => req'[d] = req[d]
          /\ req'[c].pc = "idle" /\ Revoke({req[c].tok})
      BY <2>1, Finishes, Zenon DEF Refuse, At
    <2> QED
      BY <1>0, <2>2, PasswordsMoved, Zenon DEF Inserting
  <1>2. ASSUME UNCHANGED <<password, req, faults>>,
               \A t \in DOMAIN tokens' : Active(t)' => Source(tokens'[t].pw, tokens'[t].late)
        PROVE  Passwords'
    BY <1>2, PasswordsKept, SMTT(30) DEF Revoking, Source
  <1>3. CASE \E c \in Clients, t \in TokenIds : Logout(c, t) \/ RevokeSession(c, t)
    BY <1>0, <1>2, <1>3, Zenon DEF Logout, RevokeSession
  <1>4. CASE \E t \in TokenIds : ExpireToken(t)
    <2>1. PICK u \in TokenIds : ExpireToken(u)
      BY <1>4, Zenon
    <2>2. \A t \in DOMAIN tokens' : Active(t)' => Source(tokens'[t].pw, tokens'[t].late)
      <3>1. /\ DOMAIN tokens' = DOMAIN tokens
            /\ \A t \in DOMAIN tokens : t # u => tokens'[t] = tokens[t]
            /\ u \in DOMAIN tokens /\ tokens'[u].expired
        BY <2>1, Zenon DEF ExpireToken, Active, TypeOK, Row
      <3> QED
        BY <3>1, Zenon DEF Active, Source
    <2> QED
      BY <1>2, <2>1, <2>2, Zenon DEF ExpireToken
  <1>5. CASE (\E r \in ResetIds : ExpireReset(r)) \/ \E status \in {"active", "inactive"} : SetActive(status)
    <2>1. UNCHANGED <<password, tokens, req, faults>>
      BY <1>5, Zenon DEF ExpireReset, SetActive
    <2>2. \A t \in DOMAIN tokens' : Active(t)' => Source(tokens'[t].pw, tokens'[t].late)
      BY <2>1, Zenon DEF Active, Source
    <2> QED
      BY <1>2, <2>1, <2>2, Zenon
  <1>6. CASE DeleteUser
    BY <1>2, <1>6 DEF DeleteUser
  <1> QED
    BY <1>1, <1>3, <1>4, <1>5, <1>6, Zenon

(* Passwords.  Once a password is set its revocation is to come, and after *)
(* the revocation no token is left and every request about to insert is    *)
(* late.                                                                   *)
LEMMA PasswordsChanges ==
    ASSUME TypeOK, Passwords, NEW c \in Clients,
           \/ UpdatePassword(c) \/ ApplyReset(c) \/ ConsumeReset(c) \/ RevokeAll(c)
           \/ StatementFails(c) \/ Crash
    PROVE  Passwords'
  <1>1. CASE UpdatePassword(c) \/ ApplyReset(c) \/ ConsumeReset(c)
    <2>1. req'[c].pc \in {"consume", "revoke_all"}
      BY <1>1, Goes, SMTT(30) DEF UpdatePassword, ApplyReset, ConsumeReset, Steps
    <2> QED
      BY <2>1, Zenon DEF Passwords, Revoking
  <1>2. CASE RevokeAll(c)
    <2>1. \A t \in DOMAIN tokens' : ~Active(t)'
      <3>1. DOMAIN tokens' = DOMAIN tokens /\ \A t \in DOMAIN tokens : tokens'[t].revoked = TRUE
        BY <1>2, Revokes, Zenon DEF RevokeAll
      <3> QED
        BY <3>1, Zenon DEF Active
    <2>2. \A d \in Clients : req'[d].pc \in {"issue", "load_user", "rotate"} => req'[d].late
      BY <1>2, Zenon DEF RevokeAll, Idle, TypeOK, Request
    <2> QED
      BY <2>1, <2>2, Zenon DEF Passwords, Current
  <1>3. CASE StatementFails(c) \/ Crash
    <2>1. faults' # 0
      BY <1>3, AuthAssumption DEF StatementFails, Crash, TypeOK
    <2> QED
      BY <2>1, Zenon DEF Passwords
  <1> QED
    BY <1>1, <1>2, <1>3, Zenon

(* Every step keeps Passwords.                                             *)
LEMMA PasswordsStep == ASSUME Inv, [Next]_vars PROVE Passwords'
  <1>0. TypeOK /\ Rotation /\ Passwords /\ \E c : c \in Clients
    BY AuthAssumption, Zenon DEF Inv
  <1>1. CASE UNCHANGED vars
    BY <1>0, <1>1, Zenon DEF vars, Passwords, Revoking, Active, Current
  <1>2. CASE Next
    BY <1>0, <1>2, PasswordsRequests, PasswordsInserts, PasswordsOthers, PasswordsChanges, Zenon DEF Next
  <1> QED
    BY <1>1, <1>2, Zenon
-----------------------------------------------------------------------------
(* Uses of reset tokens.  Two groups of requests that have none in common  *)
(* are together no more than all requests.                                 *)
LEMMA Counting ==
    ASSUME NEW A \in SUBSET Clients, NEW B \in SUBSET Clients, A \cap B = {}
    PROVE  /\ Cardinality(A) \in Nat /\ Cardinality(B) \in Nat /\ Cardinality(Clients) \in Nat
           /\ Cardinality(A) + Cardinality(B) <= Cardinality(Clients)
  <1>1. IsFiniteSet(Clients) /\ IsFiniteSet(A) /\ IsFiniteSet(B) /\ IsFiniteSet(A \cup B)
    BY AuthAssumption, FS_Subset, Zenon
  <1>2. Cardinality(A \cup B) = Cardinality(A) + Cardinality(B) - Cardinality(A \cap B)
    BY <1>1, FS_Union, Zenon
  <1>3. Cardinality(A \cup B) <= Cardinality(Clients)
    BY <1>1, FS_Subset, Zenon
  <1>4. Cardinality(A \cap B) = 0
    BY FS_EmptySet, Zenon
  <1> QED
    BY <1>1, <1>2, <1>3, <1>4, FS_CardinalityType

(* Uses of reset tokens.  What the counts of one token are.                *)
LEMMA Counts ==
    ASSUME TypeOK, NEW r \in ResetIds
    PROVE  /\ uses[r] \in Nat /\ faults * Cardinality(Clients) \in Nat
           /\ Cardinality(Clients) \in Nat
           /\ Cardinality(Resetting(r)) \in Nat /\ Cardinality(Consuming(r)) \in Nat
           /\ Cardinality(Resetting(r)) + Cardinality(Consuming(r)) <= Cardinality(Clients)
  <1>1. Resetting(r) \in SUBSET Clients /\ Consuming(r) \in SUBSET Clients
        /\ Resetting(r) \cap Consuming(r) = {}
    BY Zenon DEF Resetting, Consuming
  <1>2. uses[r] \in Nat /\ faults \in Nat
    BY AuthAssumption DEF TypeOK
  <1>3. Cardinality(Clients) \in Nat
    BY <1>1, Counting, Zenon
  <1>4. faults * Cardinality(Clients) \in Nat
    BY <1>2, <1>3
  <1> QED
    BY <1>1, <1>2, <1>3, <1>4, Counting, Zenon

(* Uses of reset tokens.  A step that at most ends reset tokens: requests  *)
(* keep their place, but for those that have consumed their token.         *)
LEMMA UsesKept ==
    ASSUME TypeOK, ResetUses, uses' = uses, faults' = faults,
           user' = "deleted" <=> user = "deleted",
           DOMAIN resets' = DOMAIN resets,
           \A r \in DOMAIN resets : resets'[r] = "live" => resets[r] = "live",
           \A d \in Clients : req'[d].pc \in {"reset", "consume"} =>
                                req'[d].pc = req[d].pc /\ req'[d].reset = req[d].reset,
           \A d \in Clients : req[d].pc = "reset" => req'[d].pc = "reset",
           \A d \in Clients, r \in ResetIds :
              req[d].pc = "consume" /\ req[d].reset = r /\ Open(r)' => req'[d].pc = "consume"
    PROVE  ResetUses'
  <1>1. ASSUME NEW r \in ResetIds PROVE UsesOf(r)'
    <2>1. UsesOf(r)
      BY Zenon DEF ResetUses
    <2>2. Resetting(r)' = Resetting(r)
      BY Zenon DEF Resetting
    <2>3. CASE Open(r)'
      <3>1. Open(r)
        BY <2>3, Zenon DEF Open, LiveResets
      <3>2. Consuming(r)' = Consuming(r)
        BY <2>3, Zenon DEF Consuming
      <3> QED
        BY <2>1, <2>3, <3>1, <3>2, Zenon DEF UsesOf
    <2>4. CASE ~Open(r)'
      BY <2>1, <2>2, <2>4, Counts DEF UsesOf
    <2> QED
      BY <2>3, <2>4, Zenon
  <1> QED
    BY <1>1, Zenon DEF ResetUses
(* Uses of reset tokens.  Requests that neither load nor use one.          *)
LEMMA UsesRequests ==
    ASSUME TypeOK, ResetUses, NEW c \in Clients,
           \/ Login(c) \/ IssueRefreshToken(c) \/ LoadUser(c) \/ Refuse(c) \/ InsertNext(c)
           \/ RetirePrevious(c) \/ RevokeAll(c) \/ ChangePassword(c) \/ UpdatePassword(c)
           \/ \E t \in TokenIds : Refresh(c, t) \/ Logout(c, t) \/ RevokeSession(c, t)
    PROVE  ResetUses'
  <1>0. UNCHANGED <<user, resets, uses, faults>>
    BY Zenon DEF Login, IssueRefreshToken, LoadUser, Refuse, InsertNext, RetirePrevious, RevokeAll,
           ChangePassword, UpdatePassword, Refresh, Logout, RevokeSession
  <1>1. ASSUME req[c].pc \notin {"reset", "consume"}, req'[c].pc \notin {"reset", "consume"},
               \A d \in Clients : d # c => req'[d].pc = req[d].pc /\ req'[d].reset = req[d].reset
        PROVE  ResetUses'
    BY <1>0, <1>1, UsesKept, SMTT(30)
  <1>2. req[c].pc \notin {"reset", "consume"}
    BY ZenonT(30) DEF Login, IssueRefreshToken, LoadUser, Refuse, InsertNext, RetirePrevious, RevokeAll,
           ChangePassword, UpdatePassword, Refresh, Logout, RevokeSession, At
  <1>3. CASE Login(c) \/ \E t \in TokenIds : Refresh(c, t)
    <2>1. (\A d \in Clients : d # c => req'[d] = req[d]) /\ req'[c].pc \in {"issue", "load_user"}
      BY <1>3, ZenonT(30) DEF Login, Refresh, Idle, TypeOK
    <2> QED
      BY <1>1, <1>2, <2>1, SMTT(30)
  <1>4. CASE IssueRefreshToken(c) \/ Refuse(c) \/ RetirePrevious(c)
    BY <1>1, <1>2, <1>4, Finishes, ZenonT(30) DEF IssueRefreshToken, Refuse, RetirePrevious
  <1>5. CASE LoadUser(c)
    <2>1. (\A d \in Clients : d # c => req'[d] = req[d]) /\ req'[c].pc \in {"rotate", "refuse", "idle"}
      BY <1>5, Goes, Finishes, Zenon DEF LoadUser, TypeOK, Steps
    <2> QED
      BY <1>1, <1>2, <2>1, Zenon
  <1>6. CASE InsertNext(c)
    <2>1. CASE ~UserRowExists
      BY <1>1, <1>2, <1>6, <2>1, Finishes, Zenon DEF InsertNext
    <2>2. CASE UserRowExists
      <3> DEFINE moved == [req EXCEPT ![c].pc = "retire"]
      <3>1. moved \in [Clients -> Request] /\ moved[c].pc = "retire"
            /\ \A d \in Clients : d # c => moved[d] = req[d]
        BY DEF TypeOK, Request, Steps
      <3>2. req' = [moved EXCEPT ![c] = [moved[c] EXCEPT !.new = nextToken]]
        BY <1>6, <2>2, Zenon DEF InsertNext
      <3> HIDE DEF moved
      <3>3. PICK new : new = [moved[c] EXCEPT !.new = nextToken]
        BY ZenonT(30)
      <3>4. new.pc = "retire"
        BY <3>1, <3>3, Zenon DEF Request
      <3>5. (\A d \in Clients : d # c => req'[d] = req[d]) /\ req'[c].pc = "retire"
        BY <3>1, <3>2, <3>3, <3>4, Zenon
      <3> QED
        BY <1>1, <1>2, <3>5, Zenon
    <2> QED
      BY <2>1, <2>2, Zenon
  <1>7. CASE RevokeAll(c)
    <2>1. \A d \in Clients : IF d = c THEN req'[d].pc = "idle"
                             ELSE req'[d].pc = req[d].pc /\ req'[d].reset = req[d].reset
      BY <1>7 DEF RevokeAll, Idle, TypeOK, Request
    <2> QED
      BY <1>1, <1>2, <2>1, Zenon
  <1>8. CASE ChangePassword(c) \/ UpdatePassword(c)
    BY <1>1, <1>2, <1>8, Goes, SMTT(30) DEF ChangePassword, UpdatePassword, Steps
  <1>9. CASE \E t \in TokenIds : Logout(c, t) \/ RevokeSession(c, t)
    BY <1>1, <1>2, <1>9, Zenon DEF Logout, RevokeSession
  <1> QED
    BY <1>3, <1>4, <1>5, <1>6, <1>7, <1>8, <1>9, SMTT(30)

(* Uses of reset tokens.  Steps that end them.                             *)
LEMMA UsesEnds ==
    ASSUME TypeOK, TypeOK', ResetUses,
           \/ \E c \in Clients : ForgotPassword(c) \/ ConsumeReset(c)
           \/ \E r \in ResetIds : ExpireReset(r)
           \/ \E t \in TokenIds : ExpireToken(t)
           \/ \E status \in {"active", "inactive"} : SetActive(status)
    PROVE  ResetUses'
  <1>1. CASE \E c \in Clients : ForgotPassword(c)
    <2>1. PICK c \in Clients : ForgotPassword(c)
      BY <1>1, Zenon
    <2>2. /\ \A d \in Clients : d # c => req'[d] = req[d]
          /\ req[c].pc = "idle" /\ req'[c].pc = "create_reset"
      BY <2>1, Goes, Zenon DEF ForgotPassword, At, Steps
    <2>3. /\ UNCHANGED <<user, uses, faults>> /\ DOMAIN resets' = DOMAIN resets
          /\ \A r \in DOMAIN resets : resets'[r] = "dead"
      BY <2>1, Zenon DEF ForgotPassword
    <2> QED
      BY <2>2, <2>3, UsesKept, Zenon
  <1>2. CASE \E c \in Clients : ConsumeReset(c)
    <2>1. PICK c \in Clients : ConsumeReset(c)
      BY <1>2, Zenon
    <2>2. /\ \A d \in Clients : d # c => req'[d] = req[d]
          /\ req[c].pc = "consume" /\ req'[c].pc = "revoke_all"
      BY <2>1, Goes, Zenon DEF ConsumeReset, At, Steps
    <2>3. /\ UNCHANGED <<user, uses, faults>> /\ DOMAIN resets' = DOMAIN resets
          /\ \A r \in DOMAIN resets : resets'[r] = "live" => resets[r] = "live" /\ r # req[c].reset
      BY <2>1, Zenon DEF ConsumeReset
    <2>4. \A r \in ResetIds : req[c].reset = r => ~Open(r)'
      BY <2>2, <2>3, Zenon DEF Open, LiveResets, ResetUses
    <2> QED
      BY <2>2, <2>3, <2>4, UsesKept, Zenon
  <1>3. CASE \E r \in ResetIds : ExpireReset(r)
    <2>1. /\ UNCHANGED <<user, uses, faults, req>> /\ DOMAIN resets' = DOMAIN resets
          /\ \A r \in DOMAIN resets : resets'[r] = "live" => resets[r] = "live"
      BY <1>3, Zenon DEF ExpireReset
    <2> QED
      BY <2>1, UsesKept, Zenon
  <1>4. CASE (\E t \in TokenIds : ExpireToken(t)) \/ \E status \in {"active", "inactive"} : SetActive(status)
    BY <1>4, UsesKept, Zenon DEF ExpireToken, SetActive
  <1> QED
    BY <1>1, <1>2, <1>3, <1>4, Zenon
(* Uses of reset tokens.  A token is issued, or loaded.                    *)
LEMMA UsesLoads ==
    ASSUME TypeOK, TypeOK', ResetUses, NEW c \in Clients,
           CreateReset(c) \/ \E r \in ResetIds : ResetPassword(c, r)
    PROVE  ResetUses'
  <1>1. CASE CreateReset(c)
    <2>1. /\ \A d \in Clients : d # c => req'[d] = req[d]
          /\ req[c].pc = "create_reset" /\ req'[c].pc = "idle" /\ UNCHANGED <<user, uses, faults>>
      BY <1>1, Finishes, Zenon DEF CreateReset, At
    <2>2. CASE ~UserRowExists
      <3>1. resets' = resets
        BY <1>1, <2>2, Zenon DEF CreateReset
      <3> QED
        BY <2>1, <3>1, UsesKept, Zenon
    <2>3. CASE UserRowExists
      <3>1. PICK r \in ResetIds :
               /\ r \notin DOMAIN resets /\ \E n \in 0 .. MaxResets : DOMAIN resets \cup {r} = 1 .. n
               /\ DOMAIN resets' = DOMAIN resets \cup {r} /\ resets'[r] = "live"
               /\ \A q \in DOMAIN resets : resets'[q] = resets[q]
        BY <1>1, <2>3, NewReset, Zenon DEF CreateReset
      <3>2. ASSUME NEW q \in ResetIds PROVE UsesOf(q)'
        <4>1. Open(q)' = Open(q)
          BY <2>1, <2>3, <3>1, Zenon DEF Open, LiveResets, UserRowExists
        <4>2. Resetting(q)' = Resetting(q) /\ Consuming(q)' = Consuming(q)
          BY <2>1, Zenon DEF Resetting, Consuming
        <4> QED
          BY <2>1, <4>1, <4>2, Zenon DEF ResetUses, UsesOf
      <3>3. \A d \in Clients : req'[d].pc \in {"reset", "consume"} => req'[d].reset \in DOMAIN resets'
        BY <2>1, <2>3, <3>1, Zenon DEF ResetUses, UserRowExists
      <3> QED
        BY <2>1, <2>3, <3>1, <3>2, <3>3 DEF ResetUses, UserRowExists
    <2> QED
      BY <2>2, <2>3, Zenon
  <1>2. CASE \E r \in ResetIds : ResetPassword(c, r)
    <2>1. PICK r \in ResetIds : ResetPassword(c, r)
      BY <1>2, Zenon
    <2>2. /\ \A d \in Clients : d # c => req'[d] = req[d]
          /\ req[c].pc = "idle" /\ req'[c].pc = "reset" /\ req'[c].reset = r
          /\ UNCHANGED <<user, uses, faults, resets>> /\ r \in LiveResets
      <3>1. r \in 0 .. MaxResets
        BY AuthAssumption DEF ResetIds
      <3> QED
        BY <2>1, <3>1, Loads, ZenonT(30) DEF ResetPassword, At
    <2>3. user # "deleted"
      BY <2>2, Zenon DEF LiveResets, ResetUses
    <2>4. ASSUME NEW q \in ResetIds PROVE UsesOf(q)'
      <3>1. Open(q)' = Open(q) /\ Open(r)
        BY <2>2, <2>3, Zenon DEF Open, LiveResets
      <3>2. Consuming(q)' = Consuming(q) /\ (q # r => Resetting(q)' = Resetting(q))
        BY <2>2, Zenon DEF Resetting, Consuming
      <3> QED
        BY <2>2, <3>1, <3>2, Zenon DEF ResetUses, UsesOf
    <2>5. \A d \in Clients : req'[d].pc \in {"reset", "consume"} => req'[d].reset \in DOMAIN resets'
      BY <2>2, <2>3, Zenon DEF ResetUses, LiveResets
    <2> QED
      BY <2>2, <2>3, <2>4, <2>5, Zenon DEF ResetUses
  <1> QED
    BY <1>1, <1>2, Zenon

(* Uses of reset tokens.  A password is set: a use more, by a request that *)
(* no longer is to use the token and now is to consume it.                 *)
LEMMA UsesApplied ==
    ASSUME TypeOK, TypeOK', ResetUses, NEW c \in Clients, ApplyReset(c)
    PROVE  ResetUses'
  <1>1. /\ \A d \in Clients : d # c => req'[d] = req[d]
        /\ req[c].pc = "reset" /\ req'[c].pc = "consume" /\ req'[c].reset = req[c].reset
        /\ UNCHANGED <<user, faults, resets>>
    BY Goes, Zenon DEF ApplyReset, At, Steps
  <1>2. ASSUME NEW q \in ResetIds PROVE UsesOf(q)'
    <2>0. UsesOf(q) /\ Open(q)' = Open(q)
      BY <1>1, Zenon DEF ResetUses, Open, LiveResets
    <2>1. CASE q # req[c].reset
      <3>1. Resetting(q)' = Resetting(q) /\ Consuming(q)' = Consuming(q) /\ uses'[q] = uses[q]
        BY <1>1, <2>1 DEF Resetting, Consuming, ApplyReset, TypeOK
      <3> QED
        BY <1>1, <2>0, <3>1, Zenon DEF UsesOf
    <2>2. CASE q = req[c].reset
      <3>1. /\ c \in Resetting(q) /\ Resetting(q)' = Resetting(q) \ {c}
            /\ c \notin Consuming(q) /\ Consuming(q)' = Consuming(q) \cup {c}
        BY <1>1, <2>2, SMTT(30) DEF Resetting, Consuming
      <3>2. uses'[q] = uses[q] + 1
        BY <2>2, Zenon DEF ApplyReset, TypeOK
      <3>3. IsFiniteSet(Resetting(q)) /\ IsFiniteSet(Consuming(q))
        BY AuthAssumption, FS_Subset, Zenon DEF Resetting, Consuming
      <3>4. /\ Cardinality(Resetting(q) \ {c}) = Cardinality(Resetting(q)) - 1
            /\ Cardinality(Consuming(q) \cup {c}) = Cardinality(Consuming(q)) + 1
        BY <3>1, <3>3, FS_AddElement, FS_RemoveElement, Zenon
      <3>5. /\ Cardinality(Resetting(q)') = Cardinality(Resetting(q)) - 1
            /\ Cardinality(Consuming(q)') = Cardinality(Consuming(q)) + 1
        BY <3>1, <3>4, Zenon
      <3>6. CASE Open(q)
        <4>1. uses[q] <= faults * Cardinality(Clients) + Cardinality(Consuming(q))
          BY <2>0, <3>6, Zenon DEF UsesOf
        <4>2. uses'[q] <= faults * Cardinality(Clients) + Cardinality(Consuming(q)')
          BY <3>2, <3>5, <4>1, Counts
        <4> QED
          BY <1>1, <2>0, <3>6, <4>2, Zenon DEF UsesOf
      <3>7. CASE ~Open(q)
        <4>1. uses[q] + Cardinality(Resetting(q)) <= faults * Cardinality(Clients) + Cardinality(Clients)
          BY <2>0, <3>7, Zenon DEF UsesOf
        <4>2. uses'[q] + Cardinality(Resetting(q)') <= faults * Cardinality(Clients) + Cardinality(Clients)
          BY <3>2, <3>5, <4>1, Counts
        <4> QED
          BY <1>1, <2>0, <3>7, <4>2, Zenon DEF UsesOf
      <3> QED
        BY <3>6, <3>7, Zenon
    <2> QED
      BY <2>1, <2>2, Zenon
  <1>3. user # "deleted" =>
           \A d \in Clients : req'[d].pc \in {"reset", "consume"} => req'[d].reset \in DOMAIN resets'
    BY <1>1, Zenon DEF ResetUses
  <1> QED
    BY <1>1, <1>2, <1>3, Zenon DEF ResetUses
(* Uses of reset tokens.  A fault allows another round of requests.        *)
LEMMA UsesFaults ==
    ASSUME TypeOK, TypeOK', ResetUses, (\E c \in Clients : StatementFails(c)) \/ Crash
    PROVE  ResetUses'
  <1>1. UNCHANGED <<user, resets, uses>> /\ faults' = faults + 1
    BY Zenon DEF StatementFails, Crash
  <1>2. \A d \in Clients : req'[d].pc \in {"reset", "consume"} =>
                             req'[d].pc = req[d].pc /\ req'[d].reset = req[d].reset
    <2>1. CASE \E c \in Clients : StatementFails(c)
      <3>1. PICK c \in Clients : StatementFails(c)
        BY <2>1, Zenon
      <3>2. (\A d \in Clients : d # c => req'[d] = req[d]) /\ req'[c].pc \in {"idle", "revoke_all"}
        BY <3>1, Goes, Finishes, Zenon DEF StatementFails, Steps
      <3> QED
        BY <3>2, Zenon
    <2>2. CASE Crash
      BY <2>2, Zenon DEF Crash, Idle
    <2> QED
      BY <2>1, <2>2, Zenon
  <1>3. ASSUME NEW q \in ResetIds PROVE UsesOf(q)'
    <2> DEFINE N == Cardinality(Clients)
    <2>1. /\ UsesOf(q) /\ Open(q)' = Open(q)
      BY <1>1, Zenon DEF ResetUses, Open, LiveResets
    <2>2. faults \in Nat /\ N \in Nat /\ faults' * N = faults * N + N
      <3>1. faults \in Nat /\ N \in Nat
        BY AuthAssumption, Counts DEF TypeOK
      <3>2. \A f, n \in Nat : (f + 1) * n = f * n + n
        OBVIOUS
      <3> QED
        BY <1>1, <3>1, <3>2, Zenon
    <2>3. /\ Cardinality(Resetting(q)') \in Nat /\ Cardinality(Consuming(q)') \in Nat
          /\ Cardinality(Resetting(q)') <= Cardinality(Resetting(q))
      <3>1. Resetting(q)' \subseteq Resetting(q) /\ Consuming(q)' \subseteq Clients
        BY <1>2, Zenon DEF Resetting, Consuming
      <3>2. IsFiniteSet(Resetting(q)) /\ IsFiniteSet(Clients)
        BY AuthAssumption, FS_Subset, Zenon DEF Resetting
      <3>3. IsFiniteSet(Resetting(q)') /\ IsFiniteSet(Consuming(q)')
            /\ Cardinality(Resetting(q)') <= Cardinality(Resetting(q))
        BY <3>1, <3>2, FS_Subset, Zenon
      <3> QED
        BY <3>3, FS_CardinalityType, Zenon
    <2>4. CASE Open(q)
      <3>1. uses[q] <= faults * N + Cardinality(Consuming(q))
        BY <2>1, <2>4, Zenon DEF UsesOf
      <3>2. uses[q] <= faults' * N + Cardinality(Consuming(q)')
        BY <2>2, <2>3, <3>1, Counts
      <3> QED
        BY <1>1, <2>1, <2>4, <3>2, Zenon DEF UsesOf
    <2>5. CASE ~Open(q)
      <3>1. uses[q] + Cardinality(Resetting(q)) <= faults * N + N
        BY <2>1, <2>5, Zenon DEF UsesOf
      <3>2. uses[q] + Cardinality(Resetting(q)') <= faults' * N + N
        BY <2>2, <2>3, <3>1, Counts
      <3> QED
        BY <1>1, <2>1, <2>5, <3>2, Zenon DEF UsesOf
    <2> QED
      BY <2>4, <2>5, Zenon
  <1>4. user # "deleted" =>
           \A d \in Clients : req'[d].pc \in {"reset", "consume"} => req'[d].reset \in DOMAIN resets'
    BY <1>1, <1>2, Zenon DEF ResetUses
  <1> QED
    BY <1>1, <1>3, <1>4, Zenon DEF ResetUses

(* Uses of reset tokens.  The user is deleted, and the tokens with it.     *)
LEMMA UsesDeleted == ASSUME TypeOK, ResetUses, DeleteUser PROVE ResetUses'
  <1>1. UNCHANGED <<uses, req, faults>> /\ user' = "deleted" /\ DOMAIN resets' = {}
    BY DEF DeleteUser
  <1>2. ASSUME NEW q \in ResetIds PROVE UsesOf(q)'
    <2>1. uses[q] + Cardinality(Resetting(q)) <= faults * Cardinality(Clients) + Cardinality(Clients)
      BY Counts DEF ResetUses, UsesOf
    <2>2. ~Open(q)' /\ Resetting(q)' = Resetting(q)
      BY <1>1, Zenon DEF Open, Resetting
    <2> QED
      BY <1>1, <2>1, <2>2, Zenon DEF UsesOf
  <1> QED
    BY <1>1, <1>2, Zenon DEF ResetUses

(* Every step keeps ResetUses.                                             *)
LEMMA UsesStep == ASSUME Inv, TypeOK', [Next]_vars PROVE ResetUses'
  <1>0. TypeOK /\ ResetUses
    BY Zenon DEF Inv
  <1>1. CASE UNCHANGED vars
    BY <1>0, <1>1, UsesKept, Zenon DEF vars
  <1>2. CASE Next
    BY <1>0, <1>2, UsesRequests, UsesEnds, UsesLoads, UsesApplied, UsesFaults, UsesDeleted DEF Next
  <1> QED
    BY <1>1, <1>2, Zenon

-----------------------------------------------------------------------------
(* Nothing is stored and no request is in progress at first.               *)
LEMMA InitInv == ASSUME Init PROVE Inv
  <1>1. TypeOK
    BY AuthAssumption, IdleType DEF Init, TypeOK
  <1>2. Rotation /\ Passwords
    BY DEF Init, Rotation, Passwords, Idle
  <1>3. ResetUses
    <2>1. DOMAIN resets = {} /\ DOMAIN resets = 1 .. 0 /\ 0 \in 0 .. MaxResets
      BY AuthAssumption DEF Init
    <2>2. ASSUME NEW r \in ResetIds PROVE UsesOf(r)
      BY <1>1, <2>1, Counts DEF Init, UsesOf, Open
    <2> QED
      BY <2>1, <2>2, Zenon DEF Init, ResetUses, Idle
  <1> QED
    BY <1>1, <1>2, <1>3, Zenon DEF Inv

(* Inv is inductive: rotation, revocation and resets, whatever the order   *)
(* of their statements, keep it, and so do failed statements and crashes.  *)
THEOREM Invariance == Spec => []Inv
  <1>1. ASSUME Inv, [Next]_vars PROVE Inv'
    <2>1. TypeOK'
      BY <1>1, TypeStep, Zenon
    <2> QED
      BY <1>1, <2>1, RotationStep, PasswordsStep, UsesStep, Zenon DEF Inv
  <1> QED
    BY <1>1, InitInv, PTL DEF Spec

(* rotate_refresh_token never ends a session: a replaced token has a later *)
(* row of its session, whichever of its statements fail or race.           *)
THEOREM RotationKeepsSessions == Spec => []ReplacedBySuccessor
  <1>1. Inv => ReplacedBySuccessor
    BY Zenon DEF Inv, Rotation, ReplacedBySuccessor, Successor
  <1> QED
    BY <1>1, Invariance, PTL

(* After a password change or reset without faults, active tokens are of   *)
(* the new password or of a request that was past its checks when          *)
(* revoke_all_refresh_tokens_for_user ran.                                 *)
THEOREM ChangesRevoke == Spec => []OldPasswordsRevoked
  <1>1. Inv => OldPasswordsRevoked
    BY Zenon DEF Inv, Passwords, Revoking, Current, OldPasswordsRevoked
  <1> QED
    BY <1>1, Invariance, PTL

(* reset_password_for_app sets at most one password per concurrent request *)
(* with one reset token, and one more round of them per fault.             *)
THEOREM ResetsBounded == Spec => []ResetUsesBounded
  <1>1. ASSUME Inv PROVE ResetUsesBounded
    <2>1. ASSUME NEW r \in ResetIds PROVE uses[r] <= (1 + faults) * Cardinality(Clients)
      <3>0. TypeOK /\ UsesOf(r)
        BY <1>1, Zenon DEF Inv, ResetUses
      <3>1. uses[r] <= faults * Cardinality(Clients) + Cardinality(Clients)
        BY <3>0, Counts DEF UsesOf
      <3>2. faults \in Nat /\ Cardinality(Clients) \in Nat
        BY <3>0, AuthAssumption, Counts DEF TypeOK
      <3>3. \A f, n \in Nat : (1 + f) * n = f * n + n
        OBVIOUS
      <3> QED
        BY <3>1, <3>2, <3>3, Zenon
    <2> QED
      BY <2>1, Zenon DEF ResetUsesBounded
  <1> QED
    BY <1>1, Invariance, PTL
=============================================================================
