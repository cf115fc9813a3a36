------------------------ MODULE ConsoleSessionProofs ------------------------
(***************************************************************************)
(* The inductive invariant of ConsoleSession, that the requests of the     *)
(* console, the server that answers them and what the console stores,      *)
(* shows and forgets keep it, and what follows from it, for any number of  *)
(* requests in flight, token pairs, expiries and faults.                   *)
(***************************************************************************)
EXTENDS ConsoleSession, TLAPS

(* The time a leaf may take. *)
USE SMTT(30)

\* What is known of a request in flight, by who awaits it and how far it is.
FlowOK(s) ==
    LET f == flow[s] IN
        /\ f.pc = "login" <=> f.kind = "login"
        /\ f.pc = "login" => f.token = 0
        /\ f.kind \in {"me", "call"} => f.pc \in {"sent", "refresh", "resent"}
        /\ f.kind = "effect" => f.pc = "refresh"
        /\ f.kind = "logout" => f.pc = "logout"
        /\ f.kind = "left" => f.answer = NoAnswer
        /\ f.token <= issued /\ f.as <= issued /\ f.answer.pair <= issued
        /\ f.answer.pair # 0 <=> f.answer.status = "ok" /\ f.pc \in {"login", "refresh"}
        /\ f.pc = "login" /\ f.answer.status = "ok" => owner[f.answer.pair] = f.answer.pair

\* A pair that is still in the answer that carries it is nowhere else.
PairIsNew(s) ==
    LET n == flow[s].answer.pair IN
    n # 0 =>
        /\ n \notin {local, session, signedAs}
        /\ \A r \in Slots : Busy(r) => /\ n # flow[r].token /\ n # flow[r].as
                                       /\ r # s => n # flow[r].answer.pair

\* One storage holds the session, the one chosen when it began.
StorageOK ==
    /\ local <= issued /\ session <= issued /\ signedAs <= issued
    /\ \A n \in live \cup expired : n <= issued
    /\ local = 0 \/ session = 0
    /\ signedAs # 0 => readToken # 0 /\ remembers = placed

\* Unless crossed, what is stored, and what a refresh will store, descends
\* from the sign-in.
StoredDescends ==
    ~crossed =>
        /\ user = (readToken # 0)
        /\ (readToken # 0) = (signedAs # 0)
        /\ readToken # 0 => owner[readToken] = signedAs
        /\ \A s \in Slots : Refreshing(s) =>
              /\ signedAs # 0 /\ flow[s].token # 0 /\ owner[flow[s].token] = signedAs
              /\ flow[s].answer.pair # 0 => owner[flow[s].answer.pair] = signedAs

NoLogout == \A r \in Slots : flow[r].kind # "logout"

\* Unless disturbed, a refresh comes alone, finds its token live, and the
\* request repeated with the new one finds that fresh.
OnTime(s) ==
    LET f == flow[s] IN
        /\ f.kind # "left" /\ f.answer.status # "error"
        /\ f.answer.pair # 0 => f.answer.pair \in live
        /\ f.pc = "refresh" => f.answer.pair \notin expired
        /\ f.pc = "resent" => f.token \notin expired \cup {0} /\ f.answer.status # "401"

RefreshesAlone ==
    /\ \A s, r \in Slots : Refreshing(s) /\ Refreshing(r) => s = r
    /\ \A s \in Slots : Busy(s) => OnTime(s)

TokenIsLive ==
    signedAs # 0 /\ NoLogout =>
        /\ (\A s \in Slots : Refreshing(s) => flow[s].answer.pair = 0) => readToken \in live
        /\ \A s \in Slots : Refreshing(s) /\ flow[s].as = signedAs =>
              /\ flow[s].answer.status # "401"
              /\ flow[s].answer = NoAnswer => flow[s].token = readToken

Undisturbed == ~disturbed => RefreshesAlone /\ TokenIsLive /\ ~failed

FlowsOK == \A s \in Slots : Busy(s) => FlowOK(s)
PairsNew == \A s \in Slots : Busy(s) => PairIsNew(s)

SessionInv ==
    TypeOK /\ FlowsOK /\ PairsNew /\ StorageOK /\ StoredDescends /\ Undisturbed

-----------------------------------------------------------------------------
(* A step moves one request; the others stay as they are, but for a "me"   *)
(* query that is dropped.                                                  *)
Kept(r) ==
    \/ flow'[r] = flow[r]
    \/ flow[r].kind = "me" /\ flow'[r] = [flow[r] EXCEPT !.kind = "call"]

Moves(s, new) ==
    /\ flow' \in [Slots -> Flows \cup {NoFlow}]
    /\ flow'[s] = new
    /\ \A r \in Slots \ {s} : Kept(r)

\* A slot holds a request or is free.
LEMMA FlowTypes ==
    ASSUME TypeOK, NEW r \in Slots
    PROVE  /\ flow[r] \in Flows \cup {NoFlow}
           /\ Busy(r) => /\ flow[r] \in Flows
                         /\ flow[r].kind \in Kinds
                         /\ flow[r].pc \in {"sent", "refresh", "resent", "login", "logout"}
                         /\ flow[r].token \in 0 .. MaxPairs /\ flow[r].as \in 0 .. MaxPairs
                         /\ flow[r].answer \in [status : {"none", "ok", "401", "error"}, pair : 0 .. MaxPairs]
                         /\ flow[r].answer.status \in {"none", "ok", "401", "error"}
                         /\ flow[r].answer.pair \in 0 .. MaxPairs
           /\ ~Busy(r) => flow[r].kind = "none"
  <1>1. flow[r] \in Flows \cup {NoFlow}
    BY Zenon DEF TypeOK
  <1>2. Busy(r) => flow[r] \in Flows
    BY <1>1, Zenon DEF Busy
  <1> QED
    BY <1>1, <1>2 DEF Flows, Busy, NoFlow

\* No answer is a status of its own.
LEMMA AnswerIsNone ==
    ASSUME TypeOK, NEW r \in Slots, Busy(r)
    PROVE  flow[r].answer = NoAnswer <=> flow[r].answer.status = "none" /\ flow[r].answer.pair = 0
  BY FlowTypes DEF NoAnswer

\* What a kept request keeps.
LEMMA KeptFields ==
    ASSUME TypeOK, NEW r \in Slots, Kept(r)
    PROVE  /\ flow'[r] \in Flows \cup {NoFlow}
           /\ Busy(r)' = Busy(r) /\ Awaited(r)' = Awaited(r) /\ Refreshing(r)' = Refreshing(r)
           /\ \A k \in {"effect", "login", "logout", "left", "none"} : flow'[r].kind = k <=> flow[r].kind = k
           /\ flow'[r].kind \in {"me", "call"} <=> flow[r].kind \in {"me", "call"}
           /\ Busy(r) => /\ flow'[r].pc = flow[r].pc /\ flow'[r].token = flow[r].token
                         /\ flow'[r].as = flow[r].as /\ flow'[r].answer = flow[r].answer
  <1>1. CASE flow'[r] = flow[r]
    BY <1>1, FlowTypes, Zenon DEF Busy, Awaited, Refreshing
  <1>2. CASE flow[r].kind = "me" /\ flow'[r] = [flow[r] EXCEPT !.kind = "call"]
    <2>1. Busy(r) /\ flow[r] \in Flows
      BY <1>2, FlowTypes, Zenon DEF Busy, NoFlow
    <2>2. /\ flow'[r] \in Flows /\ flow'[r].kind = "call"
          /\ flow'[r].pc = flow[r].pc /\ flow'[r].token = flow[r].token
          /\ flow'[r].as = flow[r].as /\ flow'[r].answer = flow[r].answer
      BY <1>2, <2>1, Zenon DEF Flows, Kinds
    <2>3. Busy(r)'
      BY <2>2 DEF Busy, NoFlow
    <2> QED
      BY <1>2, <2>1, <2>2, <2>3, Zenon DEF Awaited, Refreshing
  <1> QED
    BY <1>1, <1>2, Zenon DEF Kept

\* The ways a step replaces one request.
LEMMA OneMoves ==
    ASSUME TypeOK, NEW s \in Slots, NEW new \in Flows \cup {NoFlow}, flow' = [flow EXCEPT ![s] = new]
    PROVE  Moves(s, new)
  BY Zenon DEF TypeOK, Moves, Kept

LEMMA DropMoves ==
    ASSUME TypeOK, NEW s \in Slots, Drop(s) \/ Free(s) \/ InvalidateQueries(s)
    PROVE  Moves(s, NoFlow)
  <1>1. ASSUME Free(s) PROVE Moves(s, NoFlow)
    BY <1>1, OneMoves, Zenon DEF Free
  <1>2. ASSUME Drop(s) PROVE Moves(s, NoFlow)
    <2>1. flow'[s] = NoFlow /\ \A r \in Slots \ {s} : Kept(r)
      BY <1>2, Zenon DEF TypeOK, Kept, Drop
    <2>2. \A r \in Slots : flow'[r] \in Flows \cup {NoFlow}
      BY <2>1, KeptFields, Zenon
    <2> QED
      BY <1>2, <2>1, <2>2, Zenon DEF Drop, Moves
  <1> QED
    BY <1>1, <1>2, Zenon DEF InvalidateQueries

LEMMA OthersFields ==
    ASSUME TypeOK, NEW s \in Slots, NEW new, Moves(s, new)
    PROVE  /\ flow'[s] = new
           /\ \A r \in Slots \ {s} :
                 /\ Busy(r)' = Busy(r) /\ Awaited(r)' = Awaited(r) /\ Refreshing(r)' = Refreshing(r)
                 /\ flow'[r].kind = "logout" <=> flow[r].kind = "logout"
                 /\ flow'[r].kind = "left" <=> flow[r].kind = "left"
                 /\ Busy(r) => /\ flow'[r].pc = flow[r].pc /\ flow'[r].token = flow[r].token
                               /\ flow'[r].as = flow[r].as /\ flow'[r].answer = flow[r].answer
  BY KeptFields, Zenon DEF Moves

\* The invariant of the requests that a step keeps.
LEMMA OthersOK ==
    ASSUME TypeOK, NEW s \in Slots, NEW new, Moves(s, new), NEW r \in Slots \ {s},
           Busy(r), FlowOK(r), issued \in Nat, issued' \in Nat, issued <= issued',
           \A n \in 1 .. issued : owner'[n] = owner[n]
    PROVE  FlowOK(r)'
  <1>1. Kept(r)
    BY Zenon DEF Moves
  <1>2. /\ flow[r].answer.pair \in 0 .. MaxPairs /\ flow[r].token \in Nat /\ flow[r].as \in Nat
        /\ flow[r].kind \in Kinds /\ flow'[r].kind \in Kinds
    BY <1>1, FlowTypes, KeptFields DEF Flows, Busy
  <1>3. PICK p : p = flow[r].answer.pair
    BY Zenon
  <1>4. p # 0 => p \in 1 .. issued /\ owner'[p] = owner[p]
    BY <1>2, <1>3 DEF FlowOK
  <1> QED
    BY <1>1, <1>2, <1>3, <1>4, KeptFields DEF FlowOK, Kinds

\* A request just sent: nothing has been answered.
Sent(f) == f \in Flows /\ f.answer = NoAnswer

\* The stored session and the server are as they were, but for failures.
Quiet ==
    /\ UNCHANGED <<storage, user, server, signedAs, placed, crossed>>
    /\ TypeOK'

LEMMA QuietStorage ==
    ASSUME StorageOK, Quiet
    PROVE  StorageOK' /\ readToken' = readToken /\ remembers' = remembers
  BY Zenon DEF StorageOK, Quiet, storage, server, readToken, remembers

\* The same, in a step that issues no tokens.
LEMMA OthersStay ==
    ASSUME TypeOK, NEW s \in Slots, NEW new, Moves(s, new), NEW r \in Slots \ {s},
           Busy(r), FlowOK(r), issued \in Nat, issued' = issued, owner' = owner
    PROVE  FlowOK(r)'
  <1>1. issued <= issued'
    OBVIOUS
  <1> QED
    BY <1>1, OthersOK, Zenon

\* What the step does to slot s does not touch a pair still in an answer.
LEMMA OthersNew ==
    ASSUME TypeOK, PairsNew, NEW s \in Slots, NEW new, Moves(s, new), NEW r \in Slots \ {s}, Busy(r),
           flow[r].answer.pair # 0 =>
               /\ flow[r].answer.pair \notin {local', session', signedAs'}
               /\ Busy(s)' => flow[r].answer.pair \notin {new.token, new.as, new.answer.pair}
    PROVE  PairIsNew(r)'
  <1>1. \A q \in Slots \ {s} : /\ Busy(q)' = Busy(q)
                               /\ Busy(q) => /\ flow'[q].token = flow[q].token
                                             /\ flow'[q].as = flow[q].as /\ flow'[q].answer = flow[q].answer
    BY OthersFields
  <1>2. PairIsNew(r) /\ flow'[s] = new /\ flow'[r].answer = flow[r].answer
    BY <1>1, Zenon DEF PairsNew, Moves
  <1> QED
    BY <1>1, <1>2, Zenon DEF PairIsNew

\* Requests are sent, by a request that begins or one that refreshes.
Sends(s, new) ==
    /\ Moves(s, new) /\ Quiet
    /\ ~Busy(s) \/ (flow[s].kind \in {"me", "call"} /\ flow[s].pc = "sent" /\ new.pc = "refresh")
    /\ Sent(new)
    /\ IF Busy(s) THEN new.as = flow[s].as ELSE new.as = signedAs
    /\ new.token = IF new.pc = "login" THEN 0 ELSE readToken
    /\ <<new.kind, new.pc>> \in {<<"me", "sent">>, <<"call", "sent">>, <<"login", "login">>, <<"logout", "logout">>,
                                 <<"effect", "refresh">>, <<"me", "refresh">>, <<"call", "refresh">>}
    /\ IF new.pc = "refresh"
       THEN readToken # 0 /\ disturbed' = (disturbed \/ Rival(s))
       ELSE disturbed' = disturbed
    /\ failed' = failed

LEMMA SendsKeeps ==
    ASSUME SessionInv, NEW s \in Slots, NEW new, Sends(s, new)
    PROVE  SessionInv'
  <1> USE DEF SessionInv
  <1>1. /\ Moves(s, new) /\ Quiet /\ TypeOK' /\ flow'[s] = new /\ Busy(s)' /\ ~Refreshing(s)
        /\ new.answer.status = "none" /\ new.answer.pair = 0 /\ new.token \in Nat /\ new.as \in Nat
        /\ readToken \in Nat /\ readToken <= issued /\ issued \in Nat
        /\ new.kind # "left" /\ new.pc # "resent"
    BY DEF Sends, Sent, Moves, Busy, NoFlow, NoAnswer, Flows, Kinds, Refreshing, Awaited, Quiet, TypeOK, readToken,
           StorageOK
  <1>2. UNCHANGED <<local, session, user, live, expired, issued, owner, signedAs, placed, crossed>>
    BY Zenon DEF Sends, Quiet, storage, server
  <1>3. StorageOK' /\ readToken' = readToken /\ remembers' = remembers
    BY <1>1, QuietStorage, Zenon
  <1>4. \A r \in Slots \ {s} :
           /\ Busy(r)' = Busy(r) /\ Awaited(r)' = Awaited(r) /\ Refreshing(r)' = Refreshing(r)
           /\ flow'[r].kind = "logout" <=> flow[r].kind = "logout"
           /\ flow'[r].kind = "left" <=> flow[r].kind = "left"
           /\ Busy(r) => /\ flow'[r].pc = flow[r].pc /\ flow'[r].token = flow[r].token
                         /\ flow'[r].as = flow[r].as /\ flow'[r].answer = flow[r].answer
    BY <1>1, OthersFields, Zenon
  <1>5. new.as <= issued /\ new.token <= issued
    BY <1>1, Zenon DEF Sends, FlowsOK, FlowOK, StorageOK
  <1>6. FlowsOK'
    <2>1. ASSUME NEW r \in Slots \ {s}, Busy(r)' PROVE FlowOK(r)'
      BY <1>1, <1>2, <1>4, <2>1, OthersStay, Zenon DEF FlowsOK
    <2>2. FlowOK(s)'
      BY <1>1, <1>2, <1>5 DEF FlowOK, Sends, Sent
    <2> QED
      BY <2>1, <2>2, Zenon DEF FlowsOK
  <1>7. PairsNew'
    <2>1. ASSUME NEW r \in Slots \ {s}, Busy(r)' PROVE PairIsNew(r)'
      <3>1. Busy(r) /\ PairIsNew(r)
        BY <1>4, <2>1, Zenon DEF PairsNew
      <3>2. flow[r].answer.pair # 0 =>
               /\ flow[r].answer.pair \notin {local', session', signedAs'}
               /\ flow[r].answer.pair \notin {new.token, new.as, new.answer.pair}
        BY <1>1, <1>2, <3>1, Zenon DEF PairIsNew, Sends, readToken
      <3> QED
        BY <1>1, <3>1, <3>2, OthersNew, Zenon
    <2>2. PairIsNew(s)'
      BY <1>1, Zenon DEF PairIsNew
    <2> QED
      BY <2>1, <2>2, Zenon DEF PairsNew
  <1>8. StoredDescends'
    <2>1. SUFFICES ASSUME ~crossed, NEW r \in Slots, Refreshing(r)'
                   PROVE  /\ signedAs # 0 /\ flow'[r].token # 0 /\ owner[flow'[r].token] = signedAs
                          /\ flow'[r].answer.pair # 0 => owner[flow'[r].answer.pair] = signedAs
      BY <1>2, <1>3, Zenon DEF StoredDescends
    <2>2. CASE r = s
      BY <1>1, <2>1, <2>2, Zenon DEF Sends, StoredDescends, Refreshing, Awaited
    <2>3. CASE r # s
      BY <1>4, <2>1, <2>3, Zenon DEF StoredDescends, Refreshing, Awaited
    <2> QED
      BY <2>2, <2>3, Zenon
  <1>9. ASSUME ~disturbed' PROVE RefreshesAlone' /\ TokenIsLive' /\ ~failed'
    <2>1. ~disturbed /\ RefreshesAlone /\ TokenIsLive /\ ~failed /\ ~failed'
      BY <1>9, Zenon DEF Sends, Undisturbed
    <2>2. \A r \in Slots \ {s} : new.pc = "refresh" => ~Refreshing(r)
      BY <1>9, Zenon DEF Sends, Rival
    <2>3. RefreshesAlone'
      <3>1. ASSUME NEW q \in Slots, NEW r \in Slots, Refreshing(q)', Refreshing(r)' PROVE q = r
        BY <1>1, <1>4, <2>1, <2>2, <3>1, Zenon DEF RefreshesAlone, Refreshing, Awaited
      <3>2. OnTime(s)'
        BY <1>1 DEF OnTime, TypeOK, Pairs
      <3>3. ASSUME NEW r \in Slots \ {s}, Busy(r)' PROVE OnTime(r)'
        BY <1>2, <1>4, <2>1, <3>3, Zenon DEF RefreshesAlone, OnTime
      <3> QED
        BY <3>1, <3>2, <3>3, Zenon DEF RefreshesAlone
    <2>4. TokenIsLive'
      <3>1. SUFFICES ASSUME signedAs # 0, NoLogout'
                     PROVE  /\ (\A r \in Slots : Refreshing(r)' => flow'[r].answer.pair = 0) => readToken \in live
                            /\ \A r \in Slots : Refreshing(r)' /\ flow'[r].as = signedAs =>
                                  /\ flow'[r].answer.status # "401"
                                  /\ flow'[r].answer = NoAnswer => flow'[r].token = readToken
        BY <1>2, <1>3, Zenon DEF TokenIsLive
      <3>2. NoLogout
        BY <1>1, <1>4, <3>1, FlowTypes, Zenon DEF NoLogout, Sends
      <3>3. ASSUME \A r \in Slots : Refreshing(r)' => flow'[r].answer.pair = 0 PROVE readToken \in live
        BY <1>1, <1>4, <2>1, <3>1, <3>2, <3>3, Zenon DEF TokenIsLive, Refreshing, Awaited
      <3>4. ASSUME NEW r \in Slots, Refreshing(r)', flow'[r].as = signedAs
            PROVE  /\ flow'[r].answer.status # "401"
                   /\ flow'[r].answer = NoAnswer => flow'[r].token = readToken
        BY <1>1, <1>4, <2>1, <3>1, <3>2, <3>4, Zenon DEF TokenIsLive, Refreshing, Awaited, Sends
      <3> QED
        BY <3>3, <3>4, Zenon
    <2> QED
      BY <2>1, <2>3, <2>4, Zenon
  <1> QED
    BY <1>1, <1>3, <1>6, <1>7, <1>8, <1>9, Zenon DEF Undisturbed

\* A request ends, and nothing it brought is kept.
Ends(s) ==
    /\ Moves(s, NoFlow) /\ Quiet
    /\ flow[s].kind # "logout" /\ (Refreshing(s) => flow[s].answer.pair = 0)
    /\ disturbed' = disturbed /\ (failed' => failed \/ disturbed)

LEMMA EndsKeeps ==
    ASSUME SessionInv, NEW s \in Slots, Ends(s)
    PROVE  SessionInv'
  <1> USE DEF SessionInv
  <1>1. Moves(s, NoFlow) /\ Quiet /\ TypeOK' /\ ~Busy(s)' /\ ~Refreshing(s)' /\ issued \in Nat
    BY DEF Ends, Moves, Quiet, Busy, Awaited, Refreshing, TypeOK
  <1>2. UNCHANGED <<local, session, user, live, expired, issued, owner, signedAs, placed, crossed, disturbed>>
    BY Zenon DEF Ends, Quiet, storage, server
  <1>3. StorageOK' /\ readToken' = readToken /\ remembers' = remembers
    BY <1>1, QuietStorage, Zenon
  <1>4. \A r \in Slots \ {s} :
           /\ Busy(r)' = Busy(r) /\ Awaited(r)' = Awaited(r) /\ Refreshing(r)' = Refreshing(r)
           /\ flow'[r].kind = "logout" <=> flow[r].kind = "logout"
           /\ flow'[r].kind = "left" <=> flow[r].kind = "left"
           /\ Busy(r) => /\ flow'[r].pc = flow[r].pc /\ flow'[r].token = flow[r].token
                         /\ flow'[r].as = flow[r].as /\ flow'[r].answer = flow[r].answer
    BY <1>1, OthersFields, Zenon
  <1>5. FlowsOK'
    <2>1. ASSUME NEW r \in Slots \ {s}, Busy(r)' PROVE FlowOK(r)'
      BY <1>1, <1>2, <1>4, <2>1, OthersStay, Zenon DEF FlowsOK
    <2> QED
      BY <1>1, <2>1, Zenon DEF FlowsOK
  <1>6. PairsNew'
    <2>1. ASSUME NEW r \in Slots \ {s}, Busy(r)' PROVE PairIsNew(r)'
      <3>1. Busy(r) /\ PairIsNew(r)
        BY <1>1, <1>2, <1>4, <2>1, Zenon DEF PairsNew
      <3> QED
        BY <1>1, <1>2, <1>4, <2>1, <3>1, OthersNew, Zenon DEF PairIsNew
    <2> QED
      BY <1>1, <2>1, Zenon DEF PairsNew
  <1>7. StoredDescends'
    <2>1. \A r \in Slots : Refreshing(r)' => r # s /\ Refreshing(r) /\ Busy(r)
      BY <1>1, <1>4, Zenon DEF Refreshing, Awaited
    <2> QED
      BY <1>2, <1>3, <1>4, <2>1, Zenon DEF StoredDescends
  <1>8. ASSUME ~disturbed PROVE RefreshesAlone' /\ TokenIsLive' /\ ~failed'
    <2>1. RefreshesAlone /\ TokenIsLive /\ ~failed'
      BY <1>8, Zenon DEF Ends, Undisturbed
    <2>2. RefreshesAlone'
      <3>1. ASSUME NEW r \in Slots \ {s}, Busy(r)' PROVE OnTime(r)'
        BY <1>2, <1>4, <2>1, <3>1, Zenon DEF RefreshesAlone, OnTime
      <3> QED
        BY <1>1, <1>4, <2>1, <3>1 DEF RefreshesAlone
    <2>3. NoLogout' => NoLogout
      BY <1>4, Zenon DEF NoLogout, Ends
    <2>4. \A r \in Slots : Refreshing(r)' => r # s /\ Refreshing(r) /\ Busy(r)
      BY <1>1, <1>4, Zenon DEF Refreshing, Awaited
    <2>5. \A r \in Slots : Refreshing(r) /\ flow[r].answer.pair # 0 => r # s /\ Refreshing(r)' /\ Busy(r)
      BY <1>4, Zenon DEF Ends, Refreshing, Awaited
    <2>6. TokenIsLive'
      BY <1>2, <1>3, <1>4, <2>1, <2>3, <2>4, <2>5, Zenon DEF TokenIsLive
    <2> QED
      BY <2>1, <2>2, <2>6, Zenon
  <1> QED
    BY <1>1, <1>2, <1>3, <1>5, <1>6, <1>7, <1>8, Zenon DEF Undisturbed

\* An answer arrives, or nobody awaits it.
Responds(s, new, status, pair) ==
    /\ Moves(s, new)
    /\ Busy(s) /\ flow[s].answer.status = "none" /\ flow[s].answer.pair = 0
    /\ IF flow[s].kind = "left" THEN new = NoFlow
       ELSE /\ new \in Flows /\ new.kind = flow[s].kind /\ new.pc = flow[s].pc
            /\ new.token = flow[s].token /\ new.as = flow[s].as
            /\ new.answer.status = status /\ new.answer.pair = pair
    /\ UNCHANGED <<storage, react, expired, aux, faults>>

LEMMA RespondMoves ==
    ASSUME TypeOK, NEW s \in Slots, Busy(s), NEW st \in {"ok", "401", "error"}, NEW pair \in 0 .. MaxPairs, Respond(s, st, pair)
    PROVE  \E new \in Flows \cup {NoFlow} :
              /\ Moves(s, new)
              /\ IF flow[s].kind = "left" THEN new = NoFlow
                 ELSE /\ new \in Flows /\ new.kind = flow[s].kind /\ new.pc = flow[s].pc
                      /\ new.token = flow[s].token /\ new.as = flow[s].as
                      /\ new.answer.status = st /\ new.answer.pair = pair
  <1>1. PICK new : new = IF flow[s].kind = "left" THEN NoFlow
                         ELSE [flow[s] EXCEPT !.answer = [status |-> st, pair |-> pair]]
    BY Zenon
  <1>2. flow[s] \in Flows
    BY FlowTypes, Zenon
  <1>3. IF flow[s].kind = "left" THEN new = NoFlow
        ELSE /\ new \in Flows /\ new.kind = flow[s].kind /\ new.pc = flow[s].pc
             /\ new.token = flow[s].token /\ new.as = flow[s].as
             /\ new.answer.status = st /\ new.answer.pair = pair
    BY <1>1, <1>2, Zenon DEF Flows
  <1>4. flow' = [flow EXCEPT ![s] = new]
    BY <1>1, Zenon DEF Respond
  <1>5. new \in Flows \cup {NoFlow}
    BY <1>3, Zenon
  <1> QED
    BY <1>3, <1>4, <1>5, OneMoves, Zenon

\* What holds of an answer, whatever it says.
LEMMA RespondsFacts ==
    ASSUME SessionInv, NEW s \in Slots, NEW new, NEW st, NEW pair, Responds(s, new, st, pair)
    PROVE  /\ UNCHANGED <<local, session, user, expired, signedAs, placed, crossed, disturbed, failed>>
           /\ readToken' = readToken /\ remembers' = remembers
           /\ \A r \in Slots : Busy(r)' => Busy(r)
           /\ \A r \in Slots : Refreshing(r)' = Refreshing(r)
           /\ NoLogout' = NoLogout
           /\ FlowOK(s) /\ issued \in Nat /\ local \in Nat /\ session \in Nat /\ signedAs \in Nat
           /\ ~disturbed => flow[s].kind # "left" /\ Busy(s)'
  <1> USE DEF SessionInv
  <1>1. /\ UNCHANGED <<local, session, user, expired, signedAs, placed, crossed, disturbed, failed>>
        /\ readToken' = readToken /\ remembers' = remembers
    BY Zenon DEF Responds, storage, react, aux, readToken, remembers
  <1>2. FlowOK(s) /\ issued \in Nat /\ local \in Nat /\ session \in Nat /\ signedAs \in Nat
    BY DEF Responds, FlowsOK, TypeOK
  <1>3. flow'[s] = new /\ \A r \in Slots \ {s} : Busy(r)' = Busy(r) /\ Refreshing(r)' = Refreshing(r)
    BY OthersFields, Zenon DEF Responds
  <1>4. Busy(s)' => Busy(s)
    BY Zenon DEF Responds
  <1>5. Refreshing(s)' = Refreshing(s)
    BY <1>3 DEF Responds, Refreshing, Awaited, Busy, Flows, NoFlow, Kinds
  <1>6. NoLogout' = NoLogout
    <2>1. \A r \in Slots \ {s} : flow'[r].kind = "logout" <=> flow[r].kind = "logout"
      BY OthersFields, Zenon DEF Responds
    <2>2. flow'[s].kind = "logout" <=> flow[s].kind = "logout"
      BY <1>3 DEF Responds, NoFlow
    <2> QED
      BY <2>1, <2>2, Zenon DEF NoLogout
  <1>7. ~disturbed => flow[s].kind # "left" /\ Busy(s)'
    BY <1>3 DEF Responds, Undisturbed, RefreshesAlone, OnTime, Busy, NoFlow, Flows, Kinds
  <1> QED
    BY <1>1, <1>2, <1>3, <1>4, <1>5, <1>6, <1>7, Zenon DEF Responds

\* A sign-in or a refresh is answered with the next pair.
LEMMA IssueKeeps ==
    ASSUME SessionInv, NEW s \in Slots, NEW new, NEW n, n = issued + 1, issued < MaxPairs,
           Responds(s, new, "ok", n), TypeOK',
           flow[s].pc = "login" \/ (flow[s].pc = "refresh" /\ flow[s].token \in live),
           issued' = n, live' = (live \ {flow[s].token}) \cup {n},
           owner' = [owner EXCEPT ![n] = IF flow[s].pc = "login" THEN n ELSE owner[flow[s].token]]
    PROVE  SessionInv'
  <1>1. /\ TypeOK /\ FlowsOK /\ PairsNew /\ StorageOK /\ StoredDescends /\ Undisturbed
        /\ Moves(s, new) /\ Busy(s)
    BY Zenon DEF SessionInv, Responds
  <1>2. /\ UNCHANGED <<local, session, user, expired, signedAs, placed, crossed, disturbed, failed>>
        /\ readToken' = readToken /\ remembers' = remembers
        /\ \A r \in Slots : Busy(r)' => Busy(r)
        /\ \A r \in Slots : Refreshing(r)' = Refreshing(r)
        /\ NoLogout' = NoLogout
        /\ FlowOK(s) /\ issued \in Nat /\ local \in Nat /\ session \in Nat /\ signedAs \in Nat
        /\ ~disturbed => flow[s].kind # "left" /\ Busy(s)'
    BY RespondsFacts, Zenon
  <1>3. /\ flow'[s] = new
        /\ \A r \in Slots \ {s} :
              /\ Busy(r)' = Busy(r) /\ Awaited(r)' = Awaited(r) /\ Refreshing(r)' = Refreshing(r)
              /\ flow'[r].kind = "logout" <=> flow[r].kind = "logout"
              /\ flow'[r].kind = "left" <=> flow[r].kind = "left"
              /\ Busy(r) => /\ flow'[r].pc = flow[r].pc /\ flow'[r].token = flow[r].token
                            /\ flow'[r].as = flow[r].as /\ flow'[r].answer = flow[r].answer
    BY OthersFields, Zenon DEF SessionInv, Responds
  <1>4. n \in Nat /\ n > issued /\ n # 0 /\ n \in Pairs /\ MaxPairs \in Nat
    BY <1>2, SessionAssumption DEF Pairs
  <1>5. /\ owner'[n] = IF flow[s].pc = "login" THEN n ELSE owner[flow[s].token]
        /\ \A m \in 1 .. issued : owner'[m] = owner[m]
    BY <1>1, <1>4 DEF TypeOK, Pairs
  <1>6. \A r \in Slots : Busy(r) => /\ flow[r].token \in 0 .. issued /\ flow[r].as \in 0 .. issued
                                    /\ flow[r].answer.pair \in 0 .. issued
    BY <1>1, FlowTypes DEF FlowsOK, FlowOK
  <1>7. Busy(s)' => /\ new.kind = flow[s].kind /\ new.pc = flow[s].pc /\ new.kind # "left"
                    /\ new.token = flow[s].token /\ new.as = flow[s].as
                    /\ new.answer.status = "ok" /\ new.answer.pair = n
    BY <1>3, Zenon DEF Responds, Busy
  <1>8. FlowsOK'
    <2>1. ASSUME NEW r \in Slots \ {s}, Busy(r)' PROVE FlowOK(r)'
      <3>1. Busy(r) /\ FlowOK(r) /\ issued <= issued' /\ issued' \in Nat
        BY <1>1, <1>2, <1>4, <2>1 DEF FlowsOK
      <3> QED
        BY <1>1, <1>2, <1>5, <3>1, OthersOK, Zenon
    <2>2. ASSUME Busy(s)' PROVE FlowOK(s)'
      BY <1>2, <1>3, <1>4, <1>5, <1>6, <1>7, <2>2, <1>1 DEF FlowOK
    <2> QED
      BY <2>1, <2>2, Zenon DEF FlowsOK
  <1>9. PairsNew'
    <2>1. ASSUME NEW r \in Slots \ {s}, Busy(r)' PROVE PairIsNew(r)'
      <3>1. Busy(r) /\ PairIsNew(r)
        BY <1>1, <1>2, <2>1, Zenon DEF PairsNew
      <3>2. Busy(s)' => flow[r].answer.pair # n
        BY <1>2, <1>4, <1>6, <3>1
      <3> QED
        <4>1. flow[r].answer.pair # 0 => flow[r].answer.pair \notin {local', session', signedAs'}
          BY <1>1, <1>2, <1>7, <3>1 DEF PairIsNew
        <4>2. flow[r].answer.pair # 0 /\ Busy(s)' => flow[r].answer.pair \notin {new.token, new.as, new.answer.pair}
          BY <1>1, <1>2, <1>7, <3>1, <3>2 DEF PairIsNew
        <4> QED
          BY <1>1, <1>2, <3>1, <4>1, <4>2, OthersNew, Zenon
    <2>2. ASSUME Busy(s)' PROVE PairIsNew(s)'
      <3>1. n \notin {local', session', signedAs'}
        BY <1>1, <1>2, <1>4 DEF StorageOK
      <3>2. ASSUME NEW r \in Slots, Busy(r)'
            PROVE  n # flow'[r].token /\ n # flow'[r].as /\ (r # s => n # flow'[r].answer.pair)
        BY <1>1, <1>2, <1>3, <1>4, <1>6, <1>7, <2>2, <3>2
      <3> QED
        BY <1>3, <1>7, <2>2, <3>1, <3>2, Zenon DEF PairIsNew
    <2> QED
      BY <2>1, <2>2, Zenon DEF PairsNew
  <1>10. StorageOK'
    <2>1. \A m \in live' \cup expired' : m <= issued'
      BY <1>1, <1>2, <1>4 DEF StorageOK, TypeOK, Pairs
    <2> QED
      BY <1>1, <1>2, <1>4, <2>1 DEF StorageOK
  <1>11. StoredDescends'
    <2>1. SUFFICES ASSUME ~crossed
                   PROVE  /\ readToken # 0 => owner'[readToken] = signedAs
                          /\ \A r \in Slots : Refreshing(r) =>
                                /\ signedAs # 0 /\ flow'[r].token # 0 /\ owner'[flow'[r].token] = signedAs
                                /\ flow'[r].answer.pair # 0 => owner'[flow'[r].answer.pair] = signedAs
      BY <1>1, <1>2, Zenon DEF StoredDescends
    <2>2. readToken # 0 => owner'[readToken] = signedAs
      <3>1. readToken \in 0 .. issued
        BY <1>1, <1>2 DEF StorageOK, readToken
      <3> QED
        BY <1>1, <1>2, <1>5, <2>1, <3>1 DEF StoredDescends
    <2>3. ASSUME NEW r \in Slots, Refreshing(r)
          PROVE  /\ signedAs # 0 /\ flow'[r].token # 0 /\ owner'[flow'[r].token] = signedAs
                 /\ flow'[r].answer.pair # 0 => owner'[flow'[r].answer.pair] = signedAs
      <3>1. /\ Busy(r) /\ Busy(r)' /\ signedAs # 0 /\ flow[r].token # 0 /\ owner[flow[r].token] = signedAs
            /\ flow[r].answer.pair # 0 => owner[flow[r].answer.pair] = signedAs
            /\ flow[r].pc = "refresh"
        BY <1>1, <1>2, <2>1, <2>3, Zenon DEF StoredDescends, Refreshing, Awaited
      <3>2. owner'[flow[r].token] = signedAs
        BY <1>5, <1>6, <1>2, <3>1
      <3>3. flow[r].answer.pair # 0 => owner'[flow[r].answer.pair] = signedAs
        BY <1>5, <1>6, <1>2, <3>1
      <3> QED
        BY <1>3, <1>5, <1>7, <3>1, <3>2, <3>3
    <2> QED
      BY <2>2, <2>3, Zenon
  <1>12. ASSUME ~disturbed PROVE RefreshesAlone' /\ TokenIsLive' /\ ~failed'
    <2>1. RefreshesAlone /\ TokenIsLive /\ ~failed' /\ Busy(s)' /\ flow[s].kind # "left"
      BY <1>1, <1>2, <1>12, Zenon DEF Undisturbed
    <2>2. OnTime(s)'
      <3>1. n \in live' /\ n \notin expired'
        BY <1>1, <1>2, <1>4 DEF StorageOK, TypeOK, Pairs
      <3> QED
        BY <1>3, <1>7, <2>1, <3>1, Zenon DEF OnTime
    <2>3. ASSUME NEW r \in Slots \ {s}, Busy(r)' PROVE OnTime(r)'
      <3>1. Busy(r) /\ OnTime(r) /\ (flow[r].answer.pair # 0 => flow[r].answer.pair # flow[s].token)
        BY <1>1, <1>2, <2>1, <2>3, Zenon DEF RefreshesAlone, PairsNew, PairIsNew
      <3> QED
        BY <1>2, <1>3, <3>1, Zenon DEF OnTime
    <2>4. RefreshesAlone'
      BY <1>2, <2>1, <2>2, <2>3, Zenon DEF RefreshesAlone
    <2>5. TokenIsLive'
      <3>1. CASE flow[s].pc = "refresh"
        <4>1. Refreshing(s) /\ \A r \in Slots : Refreshing(r) => r = s
          BY <1>1, <2>1, <3>1, Zenon DEF Refreshing, Awaited, RefreshesAlone
        <4> QED
          BY <1>2, <1>3, <1>4, <1>7, <2>1, <4>1 DEF TokenIsLive, NoAnswer
      <3>2. CASE flow[s].pc = "login"
        <4>1. ~Refreshing(s) /\ live \subseteq live'
          BY <1>1, <1>2, <3>2 DEF Refreshing, FlowOK, TypeOK, Pairs
        <4>2. \A r \in Slots : Refreshing(r) => r # s /\ Busy(r)
          BY <4>1, Zenon DEF Refreshing, Awaited
        <4> QED
          BY <1>2, <1>3, <2>1, <4>1, <4>2, Zenon DEF TokenIsLive
      <3> QED
        BY <3>1, <3>2, Zenon
    <2> QED
      BY <2>1, <2>4, <2>5, Zenon
  <1> QED
    BY <1>2, <1>8, <1>9, <1>10, <1>11, <1>12, Zenon DEF SessionInv, Undisturbed

\* Any other answer: no pair is issued, and a logout revokes one.
LEMMA AnswerKeeps ==
    ASSUME SessionInv, NEW s \in Slots, NEW new, NEW st, Responds(s, new, st, 0), TypeOK',
           ~(flow[s].pc = "login" \/ (flow[s].pc = "refresh" /\ flow[s].token \in live)),
           live' = IF flow[s].pc = "logout" THEN live \ {flow[s].token} ELSE live,
           st = IF flow[s].pc = "refresh" \/ (flow[s].pc # "logout" /\ flow[s].token \in expired \cup {0})
                THEN "401" ELSE "ok",
           UNCHANGED <<issued, owner>>
    PROVE  SessionInv'
  <1>1. /\ TypeOK /\ FlowsOK /\ PairsNew /\ StorageOK /\ StoredDescends /\ Undisturbed
        /\ Moves(s, new) /\ Busy(s)
    BY Zenon DEF SessionInv, Responds
  <1>2. /\ UNCHANGED <<local, session, user, expired, signedAs, placed, crossed, disturbed, failed>>
        /\ readToken' = readToken /\ remembers' = remembers
        /\ \A r \in Slots : Busy(r)' => Busy(r)
        /\ \A r \in Slots : Refreshing(r)' = Refreshing(r)
        /\ NoLogout' = NoLogout
        /\ FlowOK(s) /\ issued \in Nat /\ local \in Nat /\ session \in Nat /\ signedAs \in Nat
        /\ ~disturbed => flow[s].kind # "left" /\ Busy(s)'
    BY RespondsFacts, Zenon
  <1>3. /\ flow'[s] = new
        /\ \A r \in Slots \ {s} :
              /\ Busy(r)' = Busy(r) /\ Awaited(r)' = Awaited(r) /\ Refreshing(r)' = Refreshing(r)
              /\ flow'[r].kind = "logout" <=> flow[r].kind = "logout"
              /\ flow'[r].kind = "left" <=> flow[r].kind = "left"
              /\ Busy(r) => /\ flow'[r].pc = flow[r].pc /\ flow'[r].token = flow[r].token
                            /\ flow'[r].as = flow[r].as /\ flow'[r].answer = flow[r].answer
    BY OthersFields, Zenon DEF SessionInv, Responds
  <1>4. Busy(s)' => /\ new.kind = flow[s].kind /\ new.pc = flow[s].pc /\ new.kind # "left"
                    /\ new.token = flow[s].token /\ new.as = flow[s].as
                    /\ new.answer.status = st /\ new.answer.pair = 0
    BY <1>3, Zenon DEF Responds, Busy
  <1>5. FlowsOK'
    <2>1. ASSUME NEW r \in Slots \ {s}, Busy(r)' PROVE FlowOK(r)'
      BY <1>1, <1>2, <2>1, OthersStay, Zenon DEF FlowsOK
    <2>2. ASSUME Busy(s)' PROVE FlowOK(s)'
      BY <1>2, <1>3, <1>4, <2>2 DEF FlowOK
    <2> QED
      BY <2>1, <2>2, Zenon DEF FlowsOK
  <1>6. PairsNew'
    <2>1. ASSUME NEW r \in Slots \ {s}, Busy(r)' PROVE PairIsNew(r)'
      <3>1. Busy(r) /\ PairIsNew(r)
        BY <1>1, <1>2, <2>1, Zenon DEF PairsNew
      <3> QED
        <4>1. flow[r].answer.pair # 0 => flow[r].answer.pair \notin {local', session', signedAs'}
          BY <1>1, <1>2, <1>4, <3>1 DEF PairIsNew
        <4>2. flow[r].answer.pair # 0 /\ Busy(s)' => flow[r].answer.pair \notin {new.token, new.as, new.answer.pair}
          BY <1>1, <1>2, <1>4, <3>1 DEF PairIsNew
        <4> QED
          BY <1>1, <1>2, <3>1, <4>1, <4>2, OthersNew, Zenon
    <2>2. ASSUME Busy(s)' PROVE PairIsNew(s)'
      BY <1>3, <1>4, <2>2, Zenon DEF PairIsNew
    <2> QED
      BY <2>1, <2>2, Zenon DEF PairsNew
  <1>7. StorageOK'
    BY <1>1, <1>2, Zenon DEF StorageOK
  <1>8. StoredDescends'
    <2>1. \A r \in Slots : Refreshing(r) => Busy(r) /\ Busy(r)'
      BY <1>2, Zenon DEF Refreshing, Awaited
    <2> QED
      BY <1>1, <1>2, <1>3, <1>4, <2>1 DEF StoredDescends
  <1>9. ASSUME ~disturbed PROVE RefreshesAlone' /\ TokenIsLive' /\ ~failed'
    <2>1. RefreshesAlone /\ TokenIsLive /\ ~failed' /\ Busy(s)' /\ flow[s].kind # "left" /\ OnTime(s)
      BY <1>1, <1>2, <1>9, Zenon DEF Undisturbed, RefreshesAlone
    <2>2. OnTime(s)'
      BY <1>1, <1>2, <1>3, <1>4, <2>1 DEF OnTime, TypeOK, Pairs
    <2>3. ASSUME NEW r \in Slots \ {s}, Busy(r)' PROVE OnTime(r)'
      <3>1. Busy(r) /\ OnTime(r) /\ (flow[r].answer.pair # 0 => flow[r].answer.pair # flow[s].token)
        BY <1>1, <1>2, <2>1, <2>3, Zenon DEF RefreshesAlone, PairsNew, PairIsNew
      <3> QED
        BY <1>2, <1>3, <3>1, Zenon DEF OnTime
    <2>4. RefreshesAlone'
      BY <1>2, <2>1, <2>2, <2>3, Zenon DEF RefreshesAlone
    <2>5. TokenIsLive'
      <3>1. SUFFICES ASSUME signedAs # 0, NoLogout
                     PROVE  /\ (\A r \in Slots : Refreshing(r) => flow'[r].answer.pair = 0) => readToken \in live'
                            /\ \A r \in Slots : Refreshing(r) /\ flow'[r].as = signedAs =>
                                  /\ flow'[r].answer.status # "401"
                                  /\ flow'[r].answer = NoAnswer => flow'[r].token = readToken
        BY <1>2, Zenon DEF TokenIsLive
      <3>2. live' = live
        BY <1>1, <1>2, <2>1, <3>1, FlowTypes, Zenon DEF NoLogout, FlowOK, Kinds
      <3>3. \A r \in Slots : Refreshing(r) => Busy(r)
        BY Zenon DEF Refreshing, Awaited
      <3>4. ASSUME \A r \in Slots : Refreshing(r) => flow'[r].answer.pair = 0 PROVE readToken \in live'
        <4>1. \A r \in Slots : Refreshing(r) => flow[r].answer.pair = 0
          BY <1>3, <3>3, <3>4, Zenon DEF Responds
        <4> QED
          BY <2>1, <3>1, <3>2, <4>1, Zenon DEF TokenIsLive
      <3>5. ASSUME NEW r \in Slots, Refreshing(r), flow'[r].as = signedAs
            PROVE  /\ flow'[r].answer.status # "401"
                   /\ flow'[r].answer = NoAnswer => flow'[r].token = readToken
        <4>1. CASE r # s
          BY <1>3, <2>1, <3>1, <3>3, <3>5, <4>1, Zenon DEF TokenIsLive
        <4>2. CASE r = s
          <5>1. \A q \in Slots : Refreshing(q) => flow[q].answer.pair = 0
            BY <2>1, <3>5, <4>2, Zenon DEF RefreshesAlone, Responds
          <5>2. readToken \in live /\ flow[s].token = readToken
            <6>1. flow[s].answer = NoAnswer /\ flow[s].as = signedAs
              BY <1>1, <1>3, <1>4, <2>1, <3>5, <4>2, AnswerIsNone, Zenon DEF Responds
            <6> QED
              BY <2>1, <3>1, <3>5, <4>2, <5>1, <6>1, Zenon DEF TokenIsLive
          <5> QED
            BY <3>5, <4>2, <5>2, Zenon DEF Refreshing
        <4> QED
          BY <4>1, <4>2, Zenon
      <3> QED
        BY <3>4, <3>5, Zenon
    <2> QED
      BY <2>1, <2>4, <2>5, Zenon
  <1> QED
    BY <1>2, <1>5, <1>6, <1>7, <1>8, <1>9, Zenon DEF SessionInv, Undisturbed

LEMMA ServeKeeps ==
    ASSUME SessionInv, NEW s \in Slots, Serve(s)
    PROVE  SessionInv'
  <1>1. /\ TypeOK /\ Busy(s) /\ flow[s].answer = NoAnswer /\ FlowOK(s) /\ issued \in Nat /\ MaxPairs \in Nat
        /\ flow[s].answer.status = "none" /\ flow[s].answer.pair = 0
        /\ UNCHANGED <<storage, react, expired, aux, faults>>
        /\ UNCHANGED <<local, session, user, meData, effectDue, signedAs, placed, crossed, disturbed, failed>>
    BY SessionAssumption DEF Serve, SessionInv, FlowsOK, NoAnswer, TypeOK, storage, react, aux
  <1>2. CASE flow[s].pc = "login" \/ (flow[s].pc = "refresh" /\ flow[s].token \in live)
    <2>1. PICK n : n = issued + 1
      BY Zenon
    <2>2. /\ issued < MaxPairs /\ issued' = n /\ live' = (live \ {flow[s].token}) \cup {n}
          /\ owner' = [owner EXCEPT ![n] = IF flow[s].pc = "login" THEN n ELSE owner[flow[s].token]]
          /\ Respond(s, "ok", n)
      BY <1>2, <2>1, Zenon DEF Serve
    <2>3. n \in Pairs /\ n \in 0 .. MaxPairs
      BY <1>1, <2>1, <2>2 DEF Pairs
    <2>4. PICK new \in Flows \cup {NoFlow} : Responds(s, new, "ok", n)
      BY <1>1, <2>2, <2>3, RespondMoves DEF Responds
    <2>5. TypeOK'
      <3>1. flow' \in [Slots -> Flows \cup {NoFlow}]
        BY <2>4, Zenon DEF Responds, Moves
      <3>2. live' \subseteq Pairs /\ issued' \in 0 .. MaxPairs
        BY <1>1, <2>2, <2>3, Zenon DEF TypeOK, Pairs
      <3>3. flow[s].token \in live => owner[flow[s].token] \in 0 .. MaxPairs
        BY <1>1, Zenon DEF TypeOK
      <3>4. owner' \in [Pairs -> 0 .. MaxPairs]
        BY <1>1, <1>2, <2>2, <2>3, <3>3, Zenon DEF TypeOK
      <3> QED
        BY <1>1, <3>1, <3>2, <3>4, Zenon DEF TypeOK
    <2> QED
      BY <1>2, <2>1, <2>2, <2>4, <2>5, IssueKeeps, Zenon
  <1>3. CASE ~(flow[s].pc = "login" \/ (flow[s].pc = "refresh" /\ flow[s].token \in live))
    <2>1. PICK st : st = IF flow[s].pc = "refresh" \/ (flow[s].pc # "logout" /\ flow[s].token \in expired \cup {0})
                         THEN "401" ELSE "ok"
      BY Zenon
    <2>2. /\ live' = IF flow[s].pc = "logout" THEN live \ {flow[s].token} ELSE live
          /\ Respond(s, st, 0) /\ UNCHANGED <<issued, owner>> /\ st \in {"ok", "401", "error"} /\ 0 \in 0 .. MaxPairs
      BY <1>1, <1>3, <2>1 DEF Serve
    <2>3. PICK new \in Flows \cup {NoFlow} : Responds(s, new, st, 0)
      BY <1>1, <2>2, RespondMoves DEF Responds
    <2>4. TypeOK'
      <3>1. flow' \in [Slots -> Flows \cup {NoFlow}]
        BY <2>3, Zenon DEF Responds, Moves
      <3> QED
        BY <1>1, <2>2, <3>1, Zenon DEF TypeOK
    <2> QED
      BY <1>3, <2>1, <2>2, <2>3, <2>4, AnswerKeeps, Zenon
  <1> QED
    BY <1>2, <1>3, Zenon

\* A refreshed pair is stored where the session was.
Stores(s, new, n) ==
    /\ Moves(s, new) /\ TypeOK'
    /\ Refreshing(s) /\ flow[s].kind \in {"me", "call", "effect"}
    /\ flow[s].answer.status = "ok" /\ n = flow[s].answer.pair
    /\ storeSession(n, remembers)
    /\ \/ new = NoFlow /\ user' = TRUE
       \/ /\ new \in Flows /\ new.kind = flow[s].kind /\ flow[s].kind \in {"me", "call"} /\ new.pc = "resent"
          /\ new.token = n /\ new.as = flow[s].as
          /\ new.answer.status = "none" /\ new.answer.pair = 0
          /\ user' = user
    /\ UNCHANGED <<live, expired, issued, owner, signedAs, placed, crossed, disturbed, failed>>

\* A lost request answers nothing, and from then on more than expiry is at work.
LEMMA LoseKeeps ==
    ASSUME SessionInv, NEW s \in Slots, LoseRequest(s)
    PROVE  SessionInv'
  <1>1. /\ TypeOK /\ FlowsOK /\ PairsNew /\ StorageOK /\ StoredDescends
        /\ Busy(s) /\ flow[s].kind # "left" /\ FlowOK(s) /\ issued \in Nat /\ MaxPairs \in Nat
        /\ Respond(s, "error", 0) /\ disturbed' = TRUE /\ faults' \in 0 .. MaxFaults
        /\ UNCHANGED <<local, session, user, meData, effectDue, live, expired, issued, owner,
                       signedAs, placed, crossed, failed>>
    BY SessionAssumption DEF SessionInv, LoseRequest, Awaited, FlowsOK, TypeOK, storage, react, server
  <1>2. PICK new \in Flows \cup {NoFlow} :
           /\ Moves(s, new) /\ new \in Flows /\ new.kind = flow[s].kind /\ new.pc = flow[s].pc
           /\ new.token = flow[s].token /\ new.as = flow[s].as
           /\ new.answer.status = "error" /\ new.answer.pair = 0
    BY <1>1, RespondMoves
  <1>3. TypeOK'
    BY <1>1, <1>2, Zenon DEF TypeOK, Moves
  <1>4. readToken' = readToken /\ remembers' = remembers /\ flow'[s] = new
    BY <1>1, <1>2, Zenon DEF readToken, remembers, Moves
  <1>5. \A r \in Slots \ {s} :
           /\ Busy(r)' = Busy(r) /\ Awaited(r)' = Awaited(r) /\ Refreshing(r)' = Refreshing(r)
           /\ flow'[r].kind = "logout" <=> flow[r].kind = "logout"
           /\ flow'[r].kind = "left" <=> flow[r].kind = "left"
           /\ Busy(r) => /\ flow'[r].pc = flow[r].pc /\ flow'[r].token = flow[r].token
                         /\ flow'[r].as = flow[r].as /\ flow'[r].answer = flow[r].answer
    BY <1>1, <1>2, OthersFields, Zenon
  <1>6. FlowsOK'
    <2>1. ASSUME NEW r \in Slots \ {s}, Busy(r)' PROVE FlowOK(r)'
      BY <1>1, <1>2, <1>5, <2>1, OthersStay, Zenon DEF FlowsOK
    <2>2. FlowOK(s)'
      BY <1>1, <1>2, <1>4 DEF FlowOK
    <2> QED
      BY <2>1, <2>2, Zenon DEF FlowsOK
  <1>7. PairsNew'
    <2>1. ASSUME NEW r \in Slots \ {s}, Busy(r)' PROVE PairIsNew(r)'
      <3>1. Busy(r) /\ PairIsNew(r)
        BY <1>1, <1>2, <1>5, <2>1, Zenon DEF PairsNew
      <3> QED
        <4>1. flow[r].answer.pair # 0 => flow[r].answer.pair \notin {local', session', signedAs'}
          BY <1>1, <1>2, <1>5, <3>1 DEF PairIsNew
        <4>2. flow[r].answer.pair # 0 /\ Busy(s)' => flow[r].answer.pair \notin {new.token, new.as, new.answer.pair}
          BY <1>1, <1>2, <1>5, <3>1 DEF PairIsNew
        <4> QED
          BY <1>1, <1>2, <3>1, <4>1, <4>2, OthersNew, Zenon
    <2>2. PairIsNew(s)'
      BY <1>2, <1>4, Zenon DEF PairIsNew
    <2> QED
      BY <2>1, <2>2, Zenon DEF PairsNew
  <1>8. StorageOK'
    BY <1>1, <1>4, Zenon DEF StorageOK
  <1>9. StoredDescends'
    <2>1. Refreshing(s)' => Refreshing(s)
      BY <1>1, <1>2, <1>4, Zenon DEF Refreshing, Awaited
    <2>2. \A r \in Slots : Refreshing(r) => Busy(r)
      BY Zenon DEF Refreshing, Awaited
    <2> QED
      BY <1>1, <1>2, <1>4, <1>5, <2>1, <2>2 DEF StoredDescends
  <1> QED
    BY <1>1, <1>3, <1>6, <1>7, <1>8, <1>9, Zenon DEF SessionInv, Undisturbed

\* Steps of the server alone leave the requests as they are.
LEMMA FlowUnchanged ==
    ASSUME flow' = flow
    PROVE  /\ \A r \in Slots : Busy(r)' = Busy(r) /\ Awaited(r)' = Awaited(r) /\ Refreshing(r)' = Refreshing(r)
           /\ NoLogout' = NoLogout
  BY Zenon DEF Busy, Awaited, Refreshing, NoLogout

LEMMA ServerKeeps ==
    ASSUME SessionInv, NEW n \in Pairs, Expire(n) \/ Revoke(n)
    PROVE  SessionInv'
  <1>1. /\ TypeOK /\ FlowsOK /\ PairsNew /\ StorageOK /\ StoredDescends /\ Undisturbed /\ issued \in Nat
        /\ UNCHANGED <<local, session, user, meData, effectDue, flow, issued, owner, signedAs, placed, crossed, failed>>
    BY DEF SessionInv, Expire, Revoke, TypeOK, storage, react
  <1>2. /\ live' \subseteq live /\ expired' \subseteq expired \cup {n} /\ faults' \in 0 .. MaxFaults
        /\ expired' # expired => n \in 1 .. issued
    BY <1>1, SessionAssumption DEF Expire, Revoke, TypeOK
  <1>3. disturbed' \in BOOLEAN
    BY Zenon DEF Expire, Revoke
  <1>4. TypeOK'
    BY <1>1, <1>2, <1>3, Zenon DEF TypeOK
  <1>5. /\ readToken' = readToken /\ remembers' = remembers
        /\ \A r \in Slots : Busy(r)' = Busy(r) /\ Awaited(r)' = Awaited(r) /\ Refreshing(r)' = Refreshing(r)
        /\ NoLogout' = NoLogout
    BY <1>1, FlowUnchanged, Zenon DEF readToken, remembers
  <1>6. FlowsOK' /\ PairsNew'
    BY <1>1, <1>5, Zenon DEF FlowsOK, FlowOK, PairsNew, PairIsNew
  <1>7. StorageOK'
    <2>1. \A m \in live' \cup expired' : m <= issued
      BY <1>1, <1>2 DEF StorageOK
    <2> QED
      BY <1>1, <1>5, <2>1, Zenon DEF StorageOK
  <1>8. StoredDescends'
    BY <1>1, <1>5, Zenon DEF StoredDescends
  <1>9. ASSUME ~disturbed' PROVE RefreshesAlone' /\ TokenIsLive' /\ ~failed'
    <2>1. /\ ~disturbed /\ live' = live /\ expired' = expired \cup {n}
          /\ \A r \in Slots : ~(Awaited(r) /\ OnItsWay(r, n))
      BY <1>9, Zenon DEF Expire, Revoke
    <2>2. RefreshesAlone /\ TokenIsLive /\ ~failed'
      BY <1>1, <2>1, Zenon DEF Undisturbed
    <2>3. ASSUME NEW r \in Slots, Busy(r)' PROVE OnTime(r)'
      <3>1. OnTime(r) /\ Awaited(r)
        BY <1>5, <2>2, <2>3, Zenon DEF RefreshesAlone, OnTime, Awaited
      <3> QED
        BY <1>1, <2>1, <3>1, Zenon DEF OnTime, OnItsWay
    <2>4. RefreshesAlone'
      BY <1>5, <2>2, <2>3, Zenon DEF RefreshesAlone
    <2>5. TokenIsLive'
      BY <1>1, <1>5, <2>1, <2>2, Zenon DEF TokenIsLive
    <2> QED
      BY <2>2, <2>4, <2>5, Zenon
  <1> QED
    BY <1>4, <1>6, <1>7, <1>8, <1>9, Zenon DEF SessionInv, Undisturbed

-----------------------------------------------------------------------------
LEMMA StoresKeeps ==
    ASSUME SessionInv, NEW s \in Slots, NEW new, NEW n, Stores(s, new, n)
    PROVE  SessionInv'
  <1>1. /\ TypeOK /\ FlowsOK /\ PairsNew /\ StorageOK /\ StoredDescends /\ Undisturbed
        /\ Moves(s, new) /\ Busy(s) /\ TypeOK' /\ FlowOK(s) /\ PairIsNew(s) /\ n = flow[s].answer.pair
        /\ UNCHANGED <<live, expired, issued, owner, signedAs, placed, crossed, disturbed, failed>>
        /\ issued \in Nat /\ flow'[s] = new
    BY DEF SessionInv, Stores, Refreshing, Awaited, FlowsOK, PairsNew, TypeOK, Moves
  <1>2. n # 0 /\ n <= issued /\ n \in Nat
    BY <1>1, FlowTypes DEF FlowOK, Stores, Refreshing
  <1>3. /\ readToken' = n /\ remembers' = remembers /\ local' \in {0, n} /\ session' \in {0, n}
        /\ local' = 0 \/ session' = 0
    BY <1>2, Zenon DEF Stores, storeSession, readToken, remembers
  <1>4. \A r \in Slots \ {s} :
           /\ Busy(r)' = Busy(r) /\ Awaited(r)' = Awaited(r) /\ Refreshing(r)' = Refreshing(r)
           /\ flow'[r].kind = "logout" <=> flow[r].kind = "logout"
           /\ flow'[r].kind = "left" <=> flow[r].kind = "left"
           /\ Busy(r) => /\ flow'[r].pc = flow[r].pc /\ flow'[r].token = flow[r].token
                         /\ flow'[r].as = flow[r].as /\ flow'[r].answer = flow[r].answer
    BY <1>1, OthersFields, Zenon
  <1>5. Busy(s)' => /\ new.kind = flow[s].kind /\ new.pc = "resent" /\ new.token = n /\ new.as = flow[s].as
                    /\ new.kind \in {"me", "call"} /\ new.answer.status = "none" /\ new.answer.pair = 0
    BY <1>1, Zenon DEF Busy, Stores
  <1>6. ~Refreshing(s)'
    BY <1>1, <1>5, Zenon DEF Refreshing, Awaited
  <1>7. FlowsOK'
    <2>1. ASSUME NEW r \in Slots \ {s}, Busy(r)' PROVE FlowOK(r)'
      BY <1>1, <1>4, <2>1, OthersStay, Zenon DEF FlowsOK
    <2>2. ASSUME Busy(s)' PROVE FlowOK(s)'
      BY <1>1, <1>2, <1>5, <2>2 DEF FlowOK
    <2> QED
      BY <2>1, <2>2, Zenon DEF FlowsOK
  <1>8. PairsNew'
    <2>1. ASSUME NEW r \in Slots \ {s}, Busy(r)' PROVE PairIsNew(r)'
      <3>1. Busy(r) /\ PairIsNew(r) /\ (flow[r].answer.pair # 0 => flow[r].answer.pair # n)
        BY <1>1, <1>4, <2>1, Zenon DEF PairsNew, PairIsNew
      <3> QED
        <4>1. flow[r].answer.pair # 0 => flow[r].answer.pair \notin {local', session', signedAs'}
          BY <1>1, <1>3, <3>1 DEF PairIsNew
        <4>2. flow[r].answer.pair # 0 /\ Busy(s)' => flow[r].answer.pair \notin {new.token, new.as, new.answer.pair}
          BY <1>1, <1>5, <3>1 DEF PairIsNew
        <4> QED
          BY <1>1, <3>1, <4>1, <4>2, OthersNew, Zenon
    <2>2. ASSUME Busy(s)' PROVE PairIsNew(s)'
      BY <1>1, <1>5, <2>2, Zenon DEF PairIsNew
    <2> QED
      BY <2>1, <2>2, Zenon DEF PairsNew
  <1>9. StorageOK'
    BY <1>1, <1>2, <1>3, Zenon DEF StorageOK
  <1>10. StoredDescends'
    <2>1. SUFFICES ASSUME ~crossed
                   PROVE  /\ user' = (readToken # 0)'
                          /\ (readToken # 0)' = (signedAs # 0)
                          /\ owner[n] = signedAs
                          /\ \A r \in Slots : Refreshing(r)' =>
                                /\ signedAs # 0 /\ flow'[r].token # 0 /\ owner[flow'[r].token] = signedAs
                                /\ flow'[r].answer.pair # 0 => owner[flow'[r].answer.pair] = signedAs
      BY <1>1, <1>3, Zenon DEF StoredDescends
    <2>2. signedAs # 0 /\ owner[n] = signedAs
      BY <1>1, <1>2, <2>1, Zenon DEF StoredDescends, Stores
    <2>3. user' = TRUE
      BY <1>1, <2>1, <2>2, Zenon DEF StoredDescends, Stores
    <2>4. \A r \in Slots : Refreshing(r)' => r # s /\ Refreshing(r) /\ Busy(r)
      BY <1>4, <1>6, Zenon DEF Refreshing, Awaited
    <2>5. (readToken # 0)' /\ signedAs # 0
      BY <1>2, <1>3, <2>2, Zenon
    <2>6. \A r \in Slots : Refreshing(r)' =>
                                /\ signedAs # 0 /\ flow'[r].token # 0 /\ owner[flow'[r].token] = signedAs
                                /\ flow'[r].answer.pair # 0 => owner[flow'[r].answer.pair] = signedAs
      BY <1>1, <1>4, <2>1, <2>4, Zenon DEF StoredDescends
    <2> QED
      BY <2>2, <2>3, <2>5, <2>6, Zenon
  <1>11. ASSUME ~disturbed PROVE RefreshesAlone' /\ TokenIsLive' /\ ~failed'
    <2>1. RefreshesAlone /\ ~failed' /\ OnTime(s)
      BY <1>1, <1>11, Zenon DEF Undisturbed, RefreshesAlone
    <2>2. n \in live /\ n \notin expired
      BY <1>1, <1>2, <2>1, Zenon DEF OnTime, Stores, Refreshing
    <2>3. ASSUME Busy(s)' PROVE OnTime(s)'
      BY <1>1, <1>2, <1>5, <2>2, <2>3, Zenon DEF OnTime
    <2>4. ASSUME NEW r \in Slots \ {s}, Busy(r)' PROVE OnTime(r)'
      BY <1>1, <1>4, <2>1, <2>4, Zenon DEF RefreshesAlone, OnTime
    <2>5. \A r \in Slots : ~Refreshing(r)'
      BY <1>4, <1>6, <2>1, Zenon DEF RefreshesAlone, Stores
    <2>6. RefreshesAlone'
      BY <2>3, <2>4, <2>5, Zenon DEF RefreshesAlone
    <2>7. TokenIsLive'
      BY <1>1, <1>3, <2>2, <2>5, Zenon DEF TokenIsLive
    <2> QED
      BY <2>1, <2>6, <2>7, Zenon
  <1> QED
    BY <1>1, <1>7, <1>8, <1>9, <1>10, <1>11, Zenon DEF SessionInv, Undisturbed

\* The session is dropped.
LEMMA SignOutKeeps ==
    ASSUME SessionInv, NEW s \in Slots, SignOut(s), Moves(s, NoFlow), TypeOK',
           UNCHANGED <<live, expired, issued, owner, disturbed>>, failed' => failed \/ disturbed
    PROVE  SessionInv'
  <1>1. /\ TypeOK /\ FlowsOK /\ PairsNew /\ StorageOK /\ Undisturbed
        /\ local' = 0 /\ session' = 0 /\ user' = FALSE /\ signedAs' = 0 /\ crossed' = Rival(s)
        /\ issued \in Nat /\ ~Busy(s)' /\ ~Refreshing(s)'
    BY DEF SessionInv, SignOut, clearSession, TypeOK, Moves, Busy, Refreshing, Awaited
  <1>2. readToken' = 0
    BY <1>1, Zenon DEF readToken
  <1>3. \A r \in Slots \ {s} :
           /\ Busy(r)' = Busy(r) /\ Awaited(r)' = Awaited(r) /\ Refreshing(r)' = Refreshing(r)
           /\ flow'[r].kind = "logout" <=> flow[r].kind = "logout"
           /\ flow'[r].kind = "left" <=> flow[r].kind = "left"
           /\ Busy(r) => /\ flow'[r].pc = flow[r].pc /\ flow'[r].token = flow[r].token
                         /\ flow'[r].as = flow[r].as /\ flow'[r].answer = flow[r].answer
    BY <1>1, OthersFields, Zenon
  <1>4. FlowsOK'
    <2>1. ASSUME NEW r \in Slots \ {s}, Busy(r)' PROVE FlowOK(r)'
      BY <1>1, <1>3, <2>1, OthersStay, Zenon DEF FlowsOK
    <2> QED
      BY <1>1, <2>1, Zenon DEF FlowsOK
  <1>5. PairsNew'
    <2>1. ASSUME NEW r \in Slots \ {s}, Busy(r)' PROVE PairIsNew(r)'
      BY <1>1, <1>3, <2>1, OthersNew, Zenon
    <2> QED
      BY <1>1, <2>1, Zenon DEF PairsNew
  <1>6. StorageOK'
    BY <1>1, Zenon DEF StorageOK
  <1>7. StoredDescends'
    <2>1. ~crossed' => \A r \in Slots : ~Refreshing(r)'
      BY <1>1, <1>3, Zenon DEF Rival
    <2> QED
      BY <1>1, <1>2, <2>1, Zenon DEF StoredDescends
  <1>8. ASSUME ~disturbed PROVE RefreshesAlone' /\ TokenIsLive' /\ ~failed'
    <2>1. RefreshesAlone /\ ~failed'
      BY <1>1, <1>8, Zenon DEF Undisturbed
    <2>2. ASSUME NEW r \in Slots \ {s}, Busy(r)' PROVE OnTime(r)'
      BY <1>1, <1>3, <2>1, <2>2, Zenon DEF RefreshesAlone, OnTime
    <2>3. RefreshesAlone'
      BY <1>1, <1>3, <2>1, <2>2 DEF RefreshesAlone
    <2> QED
      BY <1>1, <2>1, <2>3, Zenon DEF TokenIsLive
  <1> QED
    BY <1>1, <1>4, <1>5, <1>6, <1>7, <1>8, Zenon DEF SessionInv, Undisturbed

\* A sign-in replaces whatever session there was.
LEMMA SignedInKeeps ==
    ASSUME SessionInv, NEW s \in Slots, NEW rememberMe \in BOOLEAN, SignedIn(s, rememberMe), TypeOK'
    PROVE  SessionInv'
  <1>1. PICK n : n = flow[s].answer.pair
    BY Zenon
  <1>2. /\ TypeOK /\ FlowsOK /\ PairsNew /\ StorageOK /\ Undisturbed
        /\ Busy(s) /\ FlowOK(s) /\ PairIsNew(s) /\ flow[s].kind = "login" /\ flow[s].answer.status = "ok"
        /\ user' = TRUE /\ signedAs' = n /\ placed' = rememberMe /\ crossed' = Rival(s)
        /\ UNCHANGED <<live, expired, issued, owner, disturbed, failed>>
        /\ storeSession(n, rememberMe) /\ issued \in Nat
    <2>1. issued \in Nat
      BY DEF SessionInv, TypeOK
    <2> QED
      BY <1>1, <2>1, Zenon DEF SessionInv, SignedIn, Answered, FlowsOK, PairsNew, server
  <1>3. n # 0 /\ n \in Nat /\ n <= issued /\ owner[n] = n
    BY <1>1, <1>2, FlowTypes DEF FlowOK
  <1>4. Moves(s, NoFlow) /\ ~Busy(s)' /\ ~Refreshing(s)'
    BY <1>2, DropMoves, Zenon DEF SignedIn, Moves, Busy, Refreshing, Awaited
  <1>5. /\ readToken' = n /\ local' \in {0, n} /\ session' \in {0, n}
        /\ local' = 0 \/ session' = 0
    BY <1>2, <1>3, Zenon DEF storeSession, readToken
  <1>6. remembers' = placed'
    BY <1>2, <1>3, Zenon DEF storeSession, remembers
  <1>7. \A r \in Slots \ {s} :
           /\ Busy(r)' = Busy(r) /\ Awaited(r)' = Awaited(r) /\ Refreshing(r)' = Refreshing(r)
           /\ flow'[r].kind = "logout" <=> flow[r].kind = "logout"
           /\ flow'[r].kind = "left" <=> flow[r].kind = "left"
           /\ Busy(r) => /\ flow'[r].pc = flow[r].pc /\ flow'[r].token = flow[r].token
                         /\ flow'[r].as = flow[r].as /\ flow'[r].answer = flow[r].answer
    BY <1>2, <1>4, OthersFields, Zenon
  <1>8. FlowsOK'
    <2>1. ASSUME NEW r \in Slots \ {s}, Busy(r)' PROVE FlowOK(r)'
      BY <1>2, <1>4, <1>7, <2>1, OthersStay, Zenon DEF FlowsOK
    <2> QED
      BY <1>4, <2>1, Zenon DEF FlowsOK
  <1>9. PairsNew'
    <2>1. ASSUME NEW r \in Slots \ {s}, Busy(r)' PROVE PairIsNew(r)'
      <3>1. Busy(r) /\ (flow[r].answer.pair # 0 => flow[r].answer.pair # n)
        BY <1>1, <1>2, <1>7, <2>1, Zenon DEF PairsNew, PairIsNew
      <3> QED
        BY <1>2, <1>4, <1>5, <3>1, OthersNew, Zenon
    <2> QED
      BY <1>4, <2>1, Zenon DEF PairsNew
  <1>10. StorageOK'
    BY <1>2, <1>3, <1>5, <1>6, Zenon DEF StorageOK
  <1>11. StoredDescends'
    <2>1. ~crossed' => \A r \in Slots : ~Refreshing(r)'
      BY <1>2, <1>4, <1>7, Zenon DEF Rival
    <2> QED
      BY <1>2, <1>3, <1>5, <2>1, Zenon DEF StoredDescends
  <1>12. ASSUME ~disturbed PROVE RefreshesAlone' /\ TokenIsLive' /\ ~failed'
    <2>1. RefreshesAlone /\ ~failed' /\ OnTime(s)
      BY <1>2, <1>12, Zenon DEF Undisturbed, RefreshesAlone
    <2>2. ASSUME NEW r \in Slots \ {s}, Busy(r)' PROVE OnTime(r)'
      BY <1>2, <1>7, <2>1, <2>2, Zenon DEF RefreshesAlone, OnTime
    <2>3. RefreshesAlone'
      BY <1>4, <1>7, <2>1, <2>2 DEF RefreshesAlone
    <2>4. n \in live
      BY <1>1, <1>3, <2>1, Zenon DEF OnTime
    <2>5. \A r \in Slots : Refreshing(r)' => flow'[r].as # n
      BY <1>1, <1>2, <1>3, <1>4, <1>7, Zenon DEF PairIsNew, Refreshing, Awaited
    <2>6. TokenIsLive'
      BY <1>2, <1>5, <2>4, <2>5, Zenon DEF TokenIsLive
    <2> QED
      BY <2>1, <2>3, <2>6, Zenon
  <1> QED
    BY <1>2, <1>8, <1>9, <1>10, <1>11, <1>12, Zenon DEF SessionInv, Undisturbed

\* The page is loaded: a session goes on exactly when its storage does.
LEMMA LoadKeeps ==
    ASSUME SessionInv, NEW newTab \in BOOLEAN, Load(newTab)
    PROVE  SessionInv'
  <1>1. /\ TypeOK /\ FlowsOK /\ PairsNew /\ StorageOK /\ StoredDescends /\ Undisturbed /\ issued \in Nat
        /\ session' = IF newTab THEN 0 ELSE session
        /\ user' = (session' # 0 \/ local # 0) /\ placed' = (placed /\ signedAs' # 0)
        /\ signedAs' = IF newTab /\ ~placed THEN 0 ELSE signedAs
        /\ UNCHANGED <<local, live, expired, issued, owner, crossed, failed>>
        /\ {user, placed, crossed, disturbed, failed} \subseteq BOOLEAN
    BY DEF SessionInv, Load, TypeOK, server
  <1>2. \A r \in Slots :
           \/ flow'[r] = NoFlow
           \/ /\ Busy(r) /\ flow[r].pc \in {"refresh", "logout"} /\ flow[r].answer = NoAnswer
              /\ flow'[r] = [flow[r] EXCEPT !.kind = "left"]
    BY Zenon DEF Load
  <1>3. \A r \in Slots : flow'[r] \in Flows \cup {NoFlow}
    <2>1. SUFFICES ASSUME NEW r \in Slots, flow'[r] # NoFlow PROVE flow'[r] \in Flows
      BY Zenon
    <2>2. flow[r] \in Flows /\ flow'[r] = [flow[r] EXCEPT !.kind = "left"]
      BY <1>1, <1>2, <2>1, FlowTypes, Zenon
    <2> QED
      BY <2>2, Zenon DEF Flows, Kinds
  <1>4. ASSUME NEW r \in Slots, Busy(r)'
        PROVE  /\ Busy(r) /\ flow[r].pc \in {"refresh", "logout"}
               /\ flow'[r].kind = "left" /\ flow'[r].pc = flow[r].pc /\ flow'[r].token = flow[r].token
               /\ flow'[r].as = flow[r].as /\ flow'[r].answer = NoAnswer
    <2>1. /\ Busy(r) /\ flow[r].pc \in {"refresh", "logout"} /\ flow[r].answer = NoAnswer
          /\ flow'[r] = [flow[r] EXCEPT !.kind = "left"]
      BY <1>2, <1>4, Zenon DEF Busy
    <2>2. flow[r] \in Flows
      BY <1>1, <2>1, FlowTypes, Zenon
    <2> QED
      BY <2>1, <2>2, Zenon DEF Flows
  <1>5. \A r \in Slots : ~Refreshing(r)'
    BY <1>4, Zenon DEF Refreshing, Awaited
  <1>6. TypeOK'
    <2>1. flow' \in [Slots -> Flows \cup {NoFlow}]
      BY <1>3, Zenon DEF Load
    <2>2. {user', meData', effectDue', placed', crossed', disturbed', failed'} \subseteq BOOLEAN
      BY <1>1, Zenon DEF Load
    <2>3. UNCHANGED faults
      BY Zenon DEF Load
    <2>4. session' \in 0 .. MaxPairs /\ signedAs' \in 0 .. MaxPairs
      BY <1>1, SessionAssumption DEF TypeOK
    <2> QED
      BY <1>1, <2>1, <2>2, <2>3, <2>4, Zenon DEF TypeOK
  <1>7. FlowsOK' /\ PairsNew'
    <2>1. ASSUME NEW r \in Slots, Busy(r)' PROVE FlowOK(r)' /\ PairIsNew(r)'
      <3>1. FlowOK(r) /\ flow'[r].answer.pair = 0 /\ flow'[r].answer.status = "none"
        BY <1>1, <1>4, <2>1 DEF FlowsOK, NoAnswer
      <3> QED
        BY <1>1, <1>4, <2>1, <3>1 DEF FlowOK, PairIsNew
    <2> QED
      BY <2>1, Zenon DEF FlowsOK, PairsNew
  <1>8. signedAs' # 0 => /\ signedAs' = signedAs /\ readToken' = readToken /\ readToken # 0
                         /\ remembers' = remembers /\ placed' = placed /\ remembers = placed
    BY <1>1, Zenon DEF StorageOK, readToken, remembers
  <1>9. StorageOK'
    BY <1>1, <1>8, Zenon DEF StorageOK
  <1>10. StoredDescends'
    <2>1. SUFFICES ASSUME ~crossed
                   PROVE  /\ user' = (readToken # 0)' /\ (readToken # 0)' = (signedAs # 0)'
                          /\ readToken' # 0 => owner[readToken'] = signedAs'
      BY <1>1, <1>5, Zenon DEF StoredDescends
    <2>2. user' = (readToken' # 0)
      BY <1>1, Zenon DEF readToken
    <2>3. signedAs' = 0 => readToken' = 0
      BY <1>1, <2>1, Zenon DEF StoredDescends, StorageOK, readToken, remembers
    <2>4. signedAs' # 0 => owner[readToken'] = signedAs'
      BY <1>1, <1>8, <2>1, Zenon DEF StoredDescends
    <2> QED
      BY <1>8, <2>2, <2>3, <2>4, Zenon
  <1>11. ASSUME ~disturbed' PROVE RefreshesAlone' /\ TokenIsLive' /\ ~failed'
    <2>1. ~disturbed /\ \A r \in Slots : ~Refreshing(r) /\ ~(Busy(r) /\ flow[r].pc = "logout")
      BY <1>11, Zenon DEF Load
    <2>2. RefreshesAlone /\ TokenIsLive /\ ~failed'
      BY <1>1, <2>1, Zenon DEF Undisturbed
    <2>3. \A r \in Slots : ~Busy(r)'
      BY <1>4, <2>1, <2>2, Zenon DEF RefreshesAlone, OnTime, Refreshing, Awaited
    <2>4. NoLogout
      BY <1>1, <2>1, FlowTypes, Zenon DEF NoLogout, FlowsOK, FlowOK
    <2>5. TokenIsLive'
      BY <1>1, <1>5, <1>8, <2>1, <2>2, <2>4, Zenon DEF TokenIsLive
    <2> QED
      BY <1>5, <2>2, <2>3, <2>5, Zenon DEF RefreshesAlone
  <1> QED
    BY <1>6, <1>7, <1>9, <1>10, <1>11, Zenon DEF SessionInv, Undisturbed

\* An expired token alone makes no request of the session in use fail.
LEMMA NoneFails ==
    ASSUME SessionInv, NEW s \in Slots, Busy(s), Ours(s), ~disturbed,
           flow[s].kind \in {"me", "call", "effect"}, flow[s].answer # NoAnswer,
           ~(flow[s].answer.status = "ok" /\ flow[s].pc # "refresh"),
           ~(flow[s].answer.status = "401" /\ flow[s].pc = "sent" /\ readToken # 0),
           ~(flow[s].answer.status = "ok" /\ flow[s].pc = "refresh")
    PROVE  FALSE
  <1>1. TypeOK /\ FlowOK(s) /\ OnTime(s) /\ TokenIsLive /\ StorageOK
    BY Zenon DEF SessionInv, FlowsOK, Undisturbed, RefreshesAlone
  <1>2. signedAs # 0 /\ flow[s].as = signedAs /\ NoLogout /\ readToken # 0
    BY <1>1, Zenon DEF Ours, NoLogout, StorageOK
  <1>3. flow[s].answer.status = "401"
    BY <1>1, FlowTypes, AnswerIsNone, Zenon DEF OnTime, FlowOK
  <1>4. flow[s].pc # "refresh"
    BY <1>1, <1>2, <1>3, Zenon DEF TokenIsLive, Refreshing, Awaited
  <1> QED
    BY <1>1, <1>2, <1>3, <1>4, Zenon DEF OnTime, FlowOK

LEMMA FetchKeeps ==
    ASSUME SessionInv, NEW s \in Slots, apiFetch(s)
    PROVE  SessionInv'
  <1>1. /\ TypeOK /\ StorageOK /\ Busy(s) /\ flow[s].kind \in {"me", "call"} /\ flow[s].answer # NoAnswer
        /\ FlowOK(s) /\ flow[s] \in Flows /\ UNCHANGED <<live, expired, issued, owner, faults>>
        /\ UNCHANGED server
    BY FlowTypes, Zenon DEF SessionInv, apiFetch, Answered, FlowsOK, server
  <1>2. CASE Succeed(s) /\ flow[s].pc # "refresh"
    <2>1. /\ Moves(s, NoFlow) /\ meData' \in BOOLEAN
          /\ UNCHANGED <<local, session, user, effectDue, signedAs, placed, crossed, disturbed, failed>>
      BY <1>1, <1>2, DropMoves, Zenon DEF Succeed, storage, aux, TypeOK
    <2>2. TypeOK'
      BY <1>1, <2>1, Zenon DEF TypeOK, Moves
    <2>3. Ends(s)
      BY <1>1, <1>2, <2>1, <2>2, Zenon DEF Ends, Quiet, storage, Refreshing
    <2> QED
      BY <2>3, EndsKeeps, Zenon
  <1>3. CASE refreshStoredSession(s) /\ flow[s].pc = "sent" /\ readToken # 0
    <2>1. PICK new : new = [flow[s] EXCEPT !.pc = "refresh", !.token = readToken, !.answer = NoAnswer]
      BY Zenon
    <2>2. readToken \in 0 .. MaxPairs
      BY <1>1, Zenon DEF TypeOK, readToken
    <2>3. NoAnswer \in [status : {"none", "ok", "401", "error"}, pair : 0 .. MaxPairs]
      BY SessionAssumption DEF NoAnswer
    <2>4. /\ new \in Flows /\ new.kind = flow[s].kind /\ new.pc = "refresh" /\ new.token = readToken
          /\ new.as = flow[s].as /\ new.answer = NoAnswer
      BY <1>1, <2>1, <2>2, <2>3, Zenon DEF Flows
    <2>5. flow' = [flow EXCEPT ![s] = new]
      BY <1>1, <1>3, <2>1, Zenon DEF refreshStoredSession, TypeOK
    <2>6. /\ Moves(s, new) /\ disturbed' = (disturbed \/ Rival(s))
          /\ UNCHANGED <<local, session, user, meData, effectDue, signedAs, placed, crossed, failed>>
      BY <1>1, <1>3, <2>4, <2>5, OneMoves, Zenon DEF refreshStoredSession, storage, react
    <2>7. TypeOK'
      BY <1>1, <2>6, Zenon DEF TypeOK, Moves
    <2>8. Sends(s, new)
      BY <1>1, <1>3, <2>4, <2>6, <2>7, Zenon DEF Sends, Sent, Quiet, storage
    <2> QED
      BY <2>8, SendsKeeps, Zenon
  <1>4. CASE StoreAndResend(s) /\ flow[s].pc = "refresh" /\ flow[s].answer.status = "ok"
    <2>1. PICK new : new = Resend(s)
      BY Zenon
    <2>2. PICK n : n = flow[s].answer.pair
      BY Zenon
    <2>3. NoAnswer \in [status : {"none", "ok", "401", "error"}, pair : 0 .. MaxPairs]
      BY SessionAssumption DEF NoAnswer
    <2>4. /\ new \in Flows /\ new.kind = flow[s].kind /\ new.pc = "resent" /\ new.token = n
          /\ new.as = flow[s].as /\ new.answer.status = "none" /\ new.answer.pair = 0
      BY <1>1, <2>1, <2>2, <2>3, Zenon DEF Flows, Resend, NoAnswer
    <2>5. flow' = [flow EXCEPT ![s] = new] /\ storeSession(n, remembers)
      BY <1>4, <2>1, <2>2, Zenon DEF StoreAndResend
    <2>6. /\ Moves(s, new)
          /\ UNCHANGED <<user, meData, effectDue, signedAs, placed, crossed, disturbed, failed>>
      BY <1>1, <1>4, <2>4, <2>5, OneMoves, Zenon DEF StoreAndResend, react, aux
    <2>7. local' \in 0 .. MaxPairs /\ session' \in 0 .. MaxPairs
      BY <1>1, <2>2, <2>5, FlowTypes, SessionAssumption DEF storeSession
    <2>8. TypeOK'
      BY <1>1, <2>6, <2>7, Zenon DEF TypeOK, Moves
    <2>9. Stores(s, new, n)
      BY <1>1, <1>4, <2>2, <2>4, <2>5, <2>6, <2>8, Zenon DEF Stores, Refreshing, Awaited
    <2> QED
      BY <2>9, StoresKeeps, Zenon
  <1>5. CASE /\ Throw(s)
             /\ ~(flow[s].answer.status = "ok" /\ flow[s].pc # "refresh")
             /\ ~(flow[s].answer.status = "401" /\ flow[s].pc = "sent" /\ readToken # 0)
             /\ ~(flow[s].answer.status = "ok" /\ flow[s].pc = "refresh")
    <2>1. Ours(s) => disturbed
      BY <1>1, <1>5, NoneFails, Zenon
    <2>2. /\ Moves(s, NoFlow) /\ effectDue' \in BOOLEAN /\ failed' \in BOOLEAN
          /\ UNCHANGED <<local, session, user, meData, signedAs, placed, crossed, disturbed>>
      BY <1>1, <1>5, DropMoves, Zenon DEF Throw, storage
    <2>3. failed' => failed \/ disturbed
      BY <1>5, <2>1, Zenon DEF Throw
    <2>4. TypeOK'
      BY <1>1, <2>2, Zenon DEF TypeOK, Moves
    <2>5. flow[s].answer.pair = 0
      BY <1>1, <1>5, Zenon DEF FlowOK
    <2>6. Ends(s)
      BY <1>1, <2>2, <2>3, <2>4, <2>5, Zenon DEF Ends, Quiet, storage
    <2> QED
      BY <2>6, EndsKeeps, Zenon
  <1> QED
    BY <1>2, <1>3, <1>4, <1>5, Zenon DEF apiFetch

\* A request that begins.
LEMMA RequestKeeps ==
    ASSUME SessionInv, NEW s \in Slots, NEW kind, NEW pc, NEW token, Request(s, kind, pc, token),
           token = IF pc = "login" THEN 0 ELSE readToken,
           <<kind, pc>> \in {<<"me", "sent">>, <<"call", "sent">>, <<"login", "login">>, <<"logout", "logout">>,
                             <<"effect", "refresh">>},
           pc = "refresh" => readToken # 0,
           disturbed' = IF pc = "refresh" THEN disturbed \/ Rival(s) ELSE disturbed,
           effectDue' \in BOOLEAN,
           UNCHANGED <<local, session, user, meData, live, expired, issued, owner, signedAs, placed, crossed, failed, faults>>
    PROVE  SessionInv'
  <1>1. PICK new : new = [kind |-> kind, pc |-> pc, token |-> token, as |-> signedAs, answer |-> NoAnswer]
    BY Zenon
  <1>2. TypeOK /\ ~Busy(s) /\ flow' = [flow EXCEPT ![s] = new]
    BY <1>1, Zenon DEF SessionInv, Request
  <1>3. NoAnswer \in [status : {"none", "ok", "401", "error"}, pair : 0 .. MaxPairs] /\ token \in 0 .. MaxPairs
    BY <1>2, SessionAssumption DEF NoAnswer, TypeOK, readToken
  <1>4. /\ new \in Flows /\ new.kind = kind /\ new.pc = pc /\ new.token = token
        /\ new.as = signedAs /\ new.answer = NoAnswer
    BY <1>1, <1>2, <1>3, Zenon DEF Flows, Kinds, TypeOK
  <1>5. Moves(s, new)
    BY <1>2, <1>4, OneMoves, Zenon
  <1>6. disturbed' \in BOOLEAN
    BY <1>2, Zenon DEF TypeOK
  <1>7. TypeOK'
    BY <1>2, <1>5, <1>6, Zenon DEF TypeOK, Moves
  <1>8. Sends(s, new)
    BY <1>2, <1>4, <1>5, <1>7, Zenon DEF Sends, Sent, Quiet, storage, server
  <1> QED
    BY <1>8, SendsKeeps, Zenon

LEMMA SignOutType ==
    ASSUME TypeOK, NEW s \in Slots, SignOut(s), Moves(s, NoFlow),
           meData' \in BOOLEAN, effectDue' \in BOOLEAN, failed' \in BOOLEAN,
           UNCHANGED <<live, expired, issued, owner, disturbed, faults>>
    PROVE  TypeOK'
  <1>1. local' \in 0 .. MaxPairs /\ session' \in 0 .. MaxPairs /\ signedAs' \in 0 .. MaxPairs
    BY SessionAssumption DEF SignOut, clearSession
  <1>2. user' \in BOOLEAN /\ placed' \in BOOLEAN
    BY Zenon DEF SignOut
  <1>3. crossed' \in BOOLEAN
    BY Zenon DEF SignOut, Rival
  <1> QED
    BY <1>1, <1>2, <1>3, Zenon DEF TypeOK, Moves

LEMMA EffectKeeps ==
    ASSUME SessionInv, NEW s \in Slots, RunEffect(s) \/ EffectRefreshed(s) \/ EffectFailed(s)
    PROVE  SessionInv'
  <1>1. TypeOK /\ FlowsOK /\ PairsNew
    BY Zenon DEF SessionInv
  <1>2. CASE RunEffect(s) /\ readToken = 0
    <2>1. /\ SignOut(s) /\ flow' = flow /\ ~Busy(s) /\ effectDue' = FALSE
          /\ UNCHANGED <<meData, live, expired, issued, owner, disturbed, failed, faults>>
      BY <1>2, Zenon DEF RunEffect, server
    <2>2. Moves(s, NoFlow)
      BY <1>1, <2>1, Zenon DEF Moves, Kept, Busy, TypeOK
    <2>3. TypeOK'
      <3>1. meData' \in BOOLEAN /\ effectDue' \in BOOLEAN /\ failed' \in BOOLEAN
        BY <1>1, <2>1, Zenon DEF TypeOK
      <3> QED
        BY <1>1, <2>1, <2>2, <3>1, SignOutType, Zenon
    <2> QED
      BY <2>1, <2>2, <2>3, SignOutKeeps, Zenon
  <1>3. CASE RunEffect(s) /\ readToken # 0
    <2>1. PICK token : token = readToken
      BY Zenon
    <2>2. /\ Request(s, "effect", "refresh", token) /\ disturbed' = (disturbed \/ Rival(s)) /\ effectDue' \in BOOLEAN
          /\ UNCHANGED <<local, session, user, meData, live, expired, issued, owner, signedAs, placed, crossed, failed, faults>>
      BY <1>3, <2>1, Zenon DEF RunEffect, refreshAdminSession, server, storage
    <2> QED
      BY <1>3, <2>1, <2>2, RequestKeeps, Zenon
  <1>4. CASE EffectRefreshed(s)
    <2>1. PICK n : n = flow[s].answer.pair
      BY Zenon
    <2>2. /\ Busy(s) /\ flow[s].kind = "effect" /\ flow[s].answer.status = "ok" /\ FlowOK(s)
          /\ storeSession(n, remembers) /\ user' = TRUE /\ Moves(s, NoFlow)
          /\ UNCHANGED <<meData, effectDue, live, expired, issued, owner, signedAs, placed, crossed, disturbed, failed, faults>>
      BY <1>1, <1>4, <2>1, DropMoves, Zenon DEF EffectRefreshed, Answered, FlowsOK, server, aux
    <2>3. local' \in 0 .. MaxPairs /\ session' \in 0 .. MaxPairs
      BY <1>1, <2>1, <2>2, FlowTypes, SessionAssumption DEF storeSession
    <2>4. TypeOK'
      BY <1>1, <2>2, <2>3, Zenon DEF TypeOK, Moves
    <2>5. Stores(s, NoFlow, n)
      BY <2>1, <2>2, <2>4, Zenon DEF Stores, Refreshing, Awaited, FlowOK
    <2> QED
      BY <2>5, StoresKeeps, Zenon
  <1>5. CASE EffectFailed(s)
    <2>1. /\ Busy(s) /\ flow[s].kind = "effect" /\ flow[s].answer # NoAnswer /\ flow[s].answer.status # "ok"
          /\ FlowOK(s) /\ SignOut(s) /\ Moves(s, NoFlow) /\ failed' = (failed \/ Ours(s))
          /\ UNCHANGED <<meData, effectDue, live, expired, issued, owner, disturbed, faults>>
      BY <1>1, <1>5, DropMoves, Zenon DEF EffectFailed, Answered, FlowsOK, server
    <2>2. Ours(s) => disturbed
      BY <2>1, NoneFails, Zenon DEF FlowOK
    <2>3. failed' \in BOOLEAN
      BY <2>1, Zenon
    <2>4. TypeOK'
      <3>1. meData' \in BOOLEAN /\ effectDue' \in BOOLEAN
        BY <1>1, <2>1, Zenon DEF TypeOK
      <3> QED
        BY <1>1, <2>1, <2>3, <3>1, SignOutType, Zenon
    <2> QED
      BY <2>1, <2>2, <2>4, SignOutKeeps, Zenon
  <1> QED
    BY <1>2, <1>3, <1>4, <1>5, Zenon

LEMMA ScreenKeeps ==
    ASSUME SessionInv, NEW s \in Slots,
           \/ Call(s) \/ FetchMe(s) \/ SignIn(s) \/ Logout(s)
           \/ SignInFailed(s) \/ LoggedOut(s) \/ \E r \in BOOLEAN : SignedIn(s, r)
    PROVE  SessionInv'
  <1>1. TypeOK /\ FlowsOK /\ PairsNew
    BY Zenon DEF SessionInv
  <1>2. CASE Call(s) \/ FetchMe(s) \/ SignIn(s) \/ Logout(s)
    <2>1. PICK token : token = readToken
      BY Zenon
    <2>2. /\ UNCHANGED <<local, session, user, meData, live, expired, issued, owner, signedAs, placed, crossed, failed, faults>>
          /\ effectDue' \in BOOLEAN /\ disturbed' = disturbed
      BY <1>1, <1>2, Zenon DEF Call, FetchMe, SignIn, Logout, storage, react, server, aux, TypeOK
    <2>3. \/ Request(s, "call", "sent", token) \/ Request(s, "me", "sent", token)
          \/ Request(s, "login", "login", 0) \/ Request(s, "logout", "logout", token)
      BY <1>2, <2>1, Zenon DEF Call, FetchMe, SignIn, Logout, loginAdmin, logoutAdmin
    <2>4. CASE Request(s, "call", "sent", token)
      BY <2>1, <2>2, <2>4, RequestKeeps, Zenon
    <2>5. CASE Request(s, "me", "sent", token)
      BY <2>1, <2>2, <2>5, RequestKeeps, Zenon
    <2>6. CASE Request(s, "login", "login", 0)
      BY <2>2, <2>6, RequestKeeps, Zenon
    <2>7. CASE Request(s, "logout", "logout", token)
      BY <2>1, <2>2, <2>7, RequestKeeps, Zenon
    <2> QED
      BY <2>3, <2>4, <2>5, <2>6, <2>7, Zenon
  <1>3. CASE SignInFailed(s)
    <2>1. /\ Busy(s) /\ flow[s].kind = "login" /\ FlowOK(s) /\ Moves(s, NoFlow)
          /\ UNCHANGED <<local, session, user, meData, effectDue, live, expired, issued, owner,
                         signedAs, placed, crossed, disturbed, failed, faults>>
      BY <1>1, <1>3, DropMoves, Zenon DEF SignInFailed, Answered, FlowsOK, storage, react, server, aux
    <2>2. TypeOK'
      BY <1>1, <2>1, Zenon DEF TypeOK, Moves
    <2>3. Ends(s)
      BY <2>1, <2>2, Zenon DEF Ends, Quiet, storage, server, Refreshing, FlowOK
    <2> QED
      BY <2>3, EndsKeeps, Zenon
  <1>4. CASE LoggedOut(s)
    <2>1. /\ SignOut(s) /\ Moves(s, NoFlow) /\ meData' = FALSE /\ effectDue' = FALSE
          /\ UNCHANGED <<live, expired, issued, owner, disturbed, failed, faults>>
      BY <1>1, <1>4, DropMoves, Zenon DEF LoggedOut, server
    <2>2. TypeOK'
      <3>1. meData' \in BOOLEAN /\ effectDue' \in BOOLEAN /\ failed' \in BOOLEAN
        BY <1>1, <2>1, Zenon DEF TypeOK
      <3> QED
        BY <1>1, <2>1, <3>1, SignOutType, Zenon
    <2> QED
      BY <2>1, <2>2, SignOutKeeps, Zenon
  <1>5. ASSUME NEW r \in BOOLEAN, SignedIn(s, r) PROVE SessionInv'
    <2>1. PICK n : n = flow[s].answer.pair
      BY Zenon
    <2>2. /\ Moves(s, NoFlow) /\ n \in 0 .. MaxPairs /\ storeSession(n, r) /\ signedAs' = n /\ placed' = r
          /\ user' = TRUE /\ crossed' = Rival(s)
          /\ UNCHANGED <<meData, effectDue, live, expired, issued, owner, disturbed, failed, faults>>
      BY <1>1, <1>5, <2>1, DropMoves, FlowTypes, Zenon DEF SignedIn, Answered, server
    <2>3. local' \in 0 .. MaxPairs /\ session' \in 0 .. MaxPairs
      BY <2>2, SessionAssumption DEF storeSession
    <2>4. TypeOK'
      BY <1>1, <2>2, <2>3, Zenon DEF TypeOK, Moves, Rival
    <2> QED
      BY <1>5, <2>4, SignedInKeeps, Zenon
  <1> QED
    BY <1>2, <1>3, <1>4, <1>5, Zenon

-----------------------------------------------------------------------------
LEMMA SessionInitInv == Init => SessionInv
  <1> SUFFICES ASSUME Init PROVE SessionInv
    BY Zenon
  <1>1. TypeOK
    <2>1. 0 \in 0 .. MaxPairs /\ 0 \in 0 .. MaxFaults
      BY SessionAssumption
    <2>2. flow \in [Slots -> Flows \cup {NoFlow}]
      BY Zenon DEF Init
    <2>3. owner \in [Pairs -> 0 .. MaxPairs]
      BY <2>1, Zenon DEF Init
    <2> QED
      BY <2>1, <2>2, <2>3, Zenon DEF Init, TypeOK
  <1>2. \A s \in Slots : ~Busy(s) /\ ~Refreshing(s)
    BY Zenon DEF Init, Busy, Refreshing, Awaited
  <1>3. readToken = 0
    BY Zenon DEF Init, readToken
  <1>4. StorageOK
    BY DEF Init, StorageOK
  <1>5. StoredDescends
    BY <1>2, <1>3, Zenon DEF Init, StoredDescends
  <1> QED
    BY <1>1, <1>2, <1>4, <1>5, Zenon DEF Init, SessionInv, FlowsOK, PairsNew, Undisturbed, RefreshesAlone, TokenIsLive

LEMMA SessionNextInv == SessionInv /\ [Next]_vars => SessionInv'
  <1> SUFFICES ASSUME SessionInv, [Next]_vars PROVE SessionInv'
    BY Zenon
  <1>1. ASSUME NEW s \in Slots, Serve(s) \/ LoseRequest(s) \/ apiFetch(s) PROVE SessionInv'
    BY <1>1, ServeKeeps, LoseKeeps, FetchKeeps, Zenon
  <1>2. ASSUME NEW s \in Slots, RunEffect(s) \/ EffectRefreshed(s) \/ EffectFailed(s) PROVE SessionInv'
    BY <1>2, EffectKeeps, Zenon
  <1>3. ASSUME NEW s \in Slots,
               \/ Call(s) \/ FetchMe(s) \/ SignIn(s) \/ Logout(s)
               \/ SignInFailed(s) \/ LoggedOut(s) \/ \E r \in BOOLEAN : SignedIn(s, r)
        PROVE  SessionInv'
    BY <1>3, ScreenKeeps, Zenon
  <1>4. ASSUME NEW n \in Pairs, Expire(n) \/ Revoke(n) PROVE SessionInv'
    BY <1>4, ServerKeeps, Zenon
  <1>5. ASSUME NEW newTab \in BOOLEAN, Load(newTab) PROVE SessionInv'
    BY <1>5, LoadKeeps, Zenon
  <1>6. CASE UNCHANGED vars
    <2>1. /\ readToken' = readToken /\ remembers' = remembers
          /\ \A r \in Slots : Busy(r)' = Busy(r) /\ Refreshing(r)' = Refreshing(r)
          /\ NoLogout' = NoLogout
      BY <1>6, FlowUnchanged, Zenon DEF vars, readToken, remembers
    <2>2. TypeOK'
      BY <1>6, Zenon DEF SessionInv, vars, TypeOK
    <2>3. FlowsOK' /\ PairsNew' /\ StorageOK' /\ StoredDescends'
      BY <1>6, <2>1 DEF SessionInv, vars, FlowsOK, FlowOK, PairsNew, PairIsNew, StorageOK, StoredDescends
    <2>4. Undisturbed'
      BY <1>6, <2>1, Zenon DEF SessionInv, vars, Undisturbed, RefreshesAlone, OnTime, TokenIsLive
    <2> QED
      BY <2>2, <2>3, <2>4, Zenon DEF SessionInv
  <1> QED
    BY <1>1, <1>2, <1>3, <1>4, <1>5, <1>6, Zenon DEF Next

\* SessionInv is inductive: apiFetch and its refresh, the sign-in screen,
\* sign-out, reloads and new tabs keep it in any order of the answers.
THEOREM SessionInvariance == Spec => []SessionInv
  BY SessionInitInv, SessionNextInv, PTL DEF Spec

\* The storages hold the last sign-in's pair, in the storage chosen there,
\* unless a refresh was in flight when the session changed.
THEOREM StorageFollowsUser == Spec => []StoreFollowsUser
  <1>1. SessionInv => StoreFollowsUser
    <2> SUFFICES ASSUME SessionInv, ~crossed PROVE StoreFollowsUser
      BY Zenon DEF StoreFollowsUser
    <2> QED
      BY Zenon DEF SessionInv, StorageOK, StoredDescends, StoreFollowsUser
  <1> QED
    BY <1>1, SessionInvariance, PTL

\* Expired access tokens alone cost neither a request nor the session: apiFetch
\* refreshes and repeats.
THEOREM ExpiriesAreHidden == Spec => []ExpiryIsHidden
  <1>1. SessionInv => ExpiryIsHidden
    BY Zenon DEF SessionInv, Undisturbed, ExpiryIsHidden
  <1> QED
    BY <1>1, SessionInvariance, PTL
=============================================================================
