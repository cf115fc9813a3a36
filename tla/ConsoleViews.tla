---------------------------- MODULE ConsoleViews ----------------------------
(***************************************************************************)
(* The lists of the console and the operations that change them            *)
(* (components/console/views/).  A view is the queries it mounts and the   *)
(* operations of its buttons; an operation changes lists on the server and *)
(* invalidates queries when it is answered.  What is typed in forms and    *)
(* dialogs is not told apart: any operation may be made whenever its       *)
(* button is enabled.  The query cache is that of react-query, external,   *)
(* with the defaults of providers.tsx.                                     *)
(***************************************************************************)
EXTENDS Naturals, FiniteSets

CONSTANTS
    Apps,        \* apps
    Items,       \* names of tables, buckets, users or functions, in every app
    NoApp,       \* the scope of lists that belong to no app
    NoItem,      \* the scope of lists that belong to no item
    OpSlots,     \* bound: operations in flight at once
    MaxOps,      \* bound: operations made
    MaxTurns     \* bound: moves of the user, requests lost and changes made by others

ASSUME ConsoleAssumption ==
    /\ Apps # {} /\ NoApp \notin Apps
    /\ Items # {} /\ NoItem \notin Items
    /\ MaxOps \in Nat /\ MaxTurns \in Nat

-----------------------------------------------------------------------------
(* Operations.  "by" says what the operation is about: the view, a new     *)
(* item, the active item, the item of the row its button is in, or the one *)
(* typed in a form (the endpoint of a function) beside the active item.    *)
(* "closure" says which app and item the callback of an answer has: those  *)
(* of the latest rendering of the view ("view"); those of its row, which   *)
(* stays for another app or item that has a row of the same name ("name"); *)
(* or those of a row that has no namesake ("id").                          *)
Op(name, by, closure, changes, invalidates) ==
    [name |-> name, by |-> by, closure |-> closure, changes |-> changes, invalidates |-> invalidates,
     select |-> "keep"]

\* The operation selects its item when it is answered, or selects none.
Selecting(what, op) == [op EXCEPT !.select = what]

AppsView == {Op("create", "new", "view", {"apps"}, {"apps"})}

AppRowActions ==
    {Op("update", "row", "id", {"apps"}, {"apps"}),
     Op("delete", "row", "id", {"apps"}, {"apps"})}

KeysView == {Op("createKey", "view", "view", {"keys"}, {"keys"})}

KeyRowActions ==
    {Op("revokeKey", "view", "id", {"keys"}, {"keys"}),
     Op("rotateKey", "view", "id", {"keys"}, {"keys"})}

AuthView == {Op("create", "new", "view", {"users"}, {"users"})}

AuthUserActions ==
    {Op("toggleUser", "row", "id", {"users"}, {"users", "sessions"}),
     Op("delete", "row", "id", {"users", "sessions"}, {"users", "sessions"})}

SessionActions == {Op("revokeSession", "active", "id", {"sessions"}, {"sessions"})}

DataView ==
    {Op("create", "new", "view", {"tables"}, {"tables"}),
     Op("createRow", "active", "view", {"rows"}, {"rows"})}

DataTableActions ==
    {Op("update", "row", "name", {"tables"}, {"tables"}),
     Op("delete", "row", "name", {"tables", "rows"}, {"tables"})}

\* Mutant: changes of a row refresh the tables.
DataRowActionsTables ==
    {Op("updateRow", "active", "id", {"rows"}, {"tables"}),
     Op("deleteRow", "active", "id", {"rows"}, {"tables"})}

DataRowActions ==
    {Op("updateRow", "active", "id", {"rows"}, {"rows"}),
     Op("deleteRow", "active", "id", {"rows"}, {"rows"})}

StorageView ==
    {Op("create", "new", "view", {"buckets"}, {"buckets"}),
     Op("uploadObject", "active", "view", {"objects"}, {"objects"})}

BucketActions ==
    {Op("update", "row", "name", {"buckets"}, {"buckets"}),
     Op("delete", "row", "name", {"buckets", "objects"}, {"buckets"})}

ObjectActions == {Op("deleteObject", "active", "name", {"objects"}, {"objects"})}

FunctionOperations ==
    {Selecting("item", Op("create", "new", "view", {"functions"}, {"functions"})),
     Selecting("item", Op("updateFunction", "active", "view",
                          {"functions", "versions"}, {"functions", "versions"})),
     Selecting("none", Op("delete", "active", "view", {"functions", "versions"}, {"functions"}))}

InvokeFunction == {Op("invoke", "typed", "view", {"invocations"}, {"invocations"})}

RollbackVersion ==
    {Op("rollback", "active", "view", {"functions", "versions"}, {"functions", "versions"})}

RetryInvocation == {Op("retry", "active", "view", {"invocations"}, {"invocations"})}

PushView == {Op("sendTest", "view", "view", {"queue", "diagnostics"}, {"queue"})}

OpsView ==
    {Op("createBackup", "view", "view", {"backups", "metrics"}, {"backups", "metrics"}),
     Op("scheduleRestore", "view", "view", {"backups", "metrics"}, {"backups", "metrics"}),
     Op("clearRestore", "view", "view", {"backups", "metrics"}, {"backups", "metrics"})}

\* ViewContent: the operations of each view, the lists of an app or of all
\* apps that it shows, and the lists of its active item.  The items are named
\* by one of the lists.  The functions view is in two parts, which share the
\* list of functions only; detail is fetched and invalidated as versions are,
\* and the statistics of the push queue as the queue is.
View(ops, items, lists, details) ==
    [ops |-> ops, items |-> items, lists |-> lists, details |-> details]

ViewContent ==
    [apps      |-> View(AppsView \cup AppRowActions, {"apps"}, {"apps"}, {}),
     keys      |-> View(KeysView \cup KeyRowActions, {}, {"keys"}, {}),
     auth      |-> View(AuthView \cup AuthUserActions \cup SessionActions,
                        {"users"}, {"users"}, {"sessions"}),
     data      |-> View(DataView \cup DataTableActions \cup DataRowActions,
                        {"tables"}, {"tables"}, {"rows"}),
     storage   |-> View(StorageView \cup BucketActions \cup ObjectActions,
                        {"buckets"}, {"buckets"}, {"objects"}),
     functions |-> View(FunctionOperations \cup RollbackVersion,
                        {"functions"}, {"functions"}, {"versions"}),
     history   |-> View(InvokeFunction \cup RetryInvocation,
                        {"functions"}, {"functions"}, {"invocations"}),
     push      |-> View(PushView, {}, {"queue", "diagnostics"}, {}),
     ops       |-> View(OpsView, {}, {"backups", "metrics"}, {})]

Global == {"apps", "backups", "metrics"}

-----------------------------------------------------------------------------
VARIABLES
    view,      \* the view of the console that is used
    away,      \* another view is open
    app,       \* selectedApp
    selection, \* selectedTable, selectedBucket, selectedUserId, selectedName
    exists,    \* the server: the items of each app
    cache,     \* the query cache: per query key, its data and its fetch
    pending,   \* operations in flight
    made,      \* auxiliary: operations made
    turns,     \* auxiliary: moves of the user, requests lost, changes by others
    late       \* auxiliary: queries that no operation refreshes for the changes made

viewVars == <<view, away, app, selection>>
countVars == <<made, turns>>
consoleVars == <<viewVars, exists, cache, pending, countVars, late>>

Scopes == Apps \cup {NoApp}
ScopeOf(kind, a) == IF kind \in Global THEN NoApp ELSE a

QueryKey(kind, a, item) ==
    [kind |-> kind, app |-> ScopeOf(kind, a),
     item |-> IF kind \in ViewContent[view].details THEN item ELSE NoItem]

Keys == {QueryKey(kind, a, item) : kind \in ViewContent[view].lists \cup ViewContent[view].details,
                                   a \in Apps, item \in Items}

\* A query: data is none, old or current with the server; names are the items
\* that a list shows.  A fetch is idle, asked, or answered with what it read.
NoQuery == [data |-> "none", names |-> {}, invalid |-> FALSE, fetch |-> "idle", read |-> {}]

\* The item shown: the one selected, or the first of the list.
ActiveItem(a, sel) ==
    LET names == UNION {cache[QueryKey(kind, a, NoItem)].names : kind \in ViewContent[view].items}
    IN IF sel # NoItem THEN sel ELSE IF names = {} THEN NoItem ELSE CHOOSE i \in names : TRUE

Active == ActiveItem(app, selection)

Mounted ==
    IF away THEN {}
    ELSE {QueryKey(kind, app, NoItem) : kind \in ViewContent[view].lists}
         \cup {QueryKey(kind, app, Active) : kind \in IF Active = NoItem THEN {}
                                                       ELSE ViewContent[view].details}

NoCall == [pc |-> "idle", op |-> Op("none", "view", "view", {}, {}),
           app |-> NoApp, item |-> NoItem, frozen |-> FALSE, toApp |-> NoApp, toItem |-> NoItem]

Queries ==
    [data : {"none", "old", "current"}, names : SUBSET Items, invalid : BOOLEAN,
     fetch : {"idle", "asked", "old", "current"}, read : SUBSET Items]

Operations ==
    [pc : {"idle", "sent", "done"}, op : ViewContent[view].ops \cup {NoCall.op},
     app : Scopes, item : Items \cup {NoItem}, frozen : BOOLEAN,
     toApp : Scopes, toItem : Items \cup {NoItem}]

ConsoleTypeOK ==
    /\ view \in DOMAIN ViewContent /\ away \in BOOLEAN
    /\ app \in Apps /\ selection \in Items \cup {NoItem}
    /\ exists \in [Scopes -> SUBSET Items]
    /\ cache \in [Keys -> Queries]
    /\ pending \in [OpSlots -> Operations]
    /\ made \in 0 .. MaxOps /\ turns \in 0 .. MaxTurns
    /\ late \subseteq Keys

ConsoleInit ==
    /\ view \in DOMAIN ViewContent
    /\ away = FALSE
    /\ app = CHOOSE a \in Apps : TRUE
    /\ selection = NoItem
    /\ exists = [a \in Scopes |-> IF a \in {app, NoApp} THEN Items ELSE {}]
    /\ cache = [k \in Keys |-> NoQuery]
    /\ pending = [s \in OpSlots |-> NoCall]
    /\ made = 0 /\ turns = 0
    /\ late = {}

-----------------------------------------------------------------------------
(* Moves of the user.  A view keeps what is selected when the app changes, *)
(* and loses it when another view is opened.                               *)
Turn ==
    /\ turns < MaxTurns
    /\ turns' = turns + 1
    /\ UNCHANGED made

SwitchApp(a) ==
    /\ ~away /\ a # app
    /\ app' = a
    /\ Turn
    /\ UNCHANGED <<view, away, selection, exists, cache, pending, late>>

SelectItem(item) ==
    /\ ~away
    /\ item # selection
    /\ \E kind \in ViewContent[view].items : item \in cache[QueryKey(kind, app, NoItem)].names
    /\ selection' = item
    /\ Turn
    /\ UNCHANGED <<view, away, app, exists, cache, pending, late>>

\* The callbacks of operations in flight keep their last rendering.
Leave ==
    /\ ~away
    /\ away' = TRUE
    /\ selection' = NoItem
    /\ Turn
    /\ pending' = [s \in OpSlots |->
                     IF pending[s].pc = "idle" \/ pending[s].frozen THEN pending[s]
                     ELSE [pending[s] EXCEPT !.frozen = TRUE, !.toApp = app, !.toItem = Active]]
    /\ UNCHANGED <<view, app, exists, cache, late>>

Return ==
    /\ away
    /\ away' = FALSE
    /\ UNCHANGED <<view, app, selection, exists, cache, pending, countVars, late>>

-----------------------------------------------------------------------------
(* Fetches.  A mounted query fetches when it has no data or is invalid,    *)
(* and otherwise when its data is 20 s old and the window is focussed or   *)
(* the view is opened.  A fetch outlives the view that started it.         *)
StartFetch(k) ==
    /\ k \in Mounted
    /\ cache[k].fetch = "idle"
    /\ IF cache[k].data = "none" \/ cache[k].invalid THEN UNCHANGED countVars ELSE Turn
    /\ cache' = [cache EXCEPT ![k].fetch = "asked"]
    /\ UNCHANGED <<viewVars, exists, pending, late>>

\* The fetch ends with an error: data that is there is kept, as invalid.
FetchError(k) == cache' = [cache EXCEPT ![k].fetch = "idle", ![k].invalid = (cache[k].data # "none")]

\* The lists of an item that does not exist are answered with 404.
Read(k) ==
    /\ cache[k].fetch = "asked"
    /\ IF k.item \in {NoItem} \cup exists[k.app]
       THEN cache' = [cache EXCEPT ![k].fetch = "current", ![k].read = exists[k.app]]
       ELSE FetchError(k)
    /\ late' = late \ {k}
    /\ UNCHANGED <<viewVars, exists, pending, countVars>>

Receive(k) ==
    /\ cache[k].fetch \in {"old", "current"}
    /\ cache' = [cache EXCEPT ![k] =
                   [NoQuery EXCEPT !.data = cache[k].fetch,
                                   !.names = IF k.kind \in ViewContent[view].items THEN cache[k].read ELSE {}]]
    /\ UNCHANGED <<viewVars, exists, pending, countVars, late>>

LoseFetch(k) ==
    /\ cache[k].fetch # "idle"
    /\ FetchError(k)
    /\ Turn
    /\ UNCHANGED <<viewVars, exists, pending, late>>

-----------------------------------------------------------------------------
(* Operations.  The button is disabled while its operation is pending.     *)
Make(s, op, item) ==
    /\ ~away
    /\ pending[s].pc = "idle" /\ made < MaxOps
    /\ \A other \in OpSlots : pending[other].op # op
    /\ \/ op.by = "view" /\ item = NoItem
       \/ op.by = "new" /\ item \in Items
       \/ op.by = "active" /\ item # NoItem /\ item = Active
       \/ op.by = "typed" /\ item \in Items /\ Active # NoItem
       \/ op.by = "row" /\ \E kind \in ViewContent[view].items :
                              item \in cache[QueryKey(kind, app, NoItem)].names
    /\ made' = made + 1
    /\ pending' = [pending EXCEPT ![s] = [NoCall EXCEPT !.pc = "sent", !.op = op,
                                                        !.app = app, !.item = item]]
    /\ UNCHANGED <<viewVars, exists, cache, turns, late>>

\* What was read of these queries is out of date.
Outdate(keys) ==
    cache' = [k \in DOMAIN cache |->
                IF k \notin keys THEN cache[k]
                ELSE [cache[k] EXCEPT !.data = IF @ = "current" THEN "old" ELSE @,
                                      !.fetch = IF @ = "current" THEN "old" ELSE @]]

\* The handler refuses an item that exists already, or that does not exist.
\* The lists of a deleted item go with it, and nobody asks for them again.
ServerExecutes(s) ==
    LET c == pending[s]
        scope == IF "apps" \in c.op.changes THEN NoApp ELSE c.app
        Changed == {QueryKey(kind, c.app, c.item) : kind \in c.op.changes}
        Exists == c.op.by = "view" \/ (c.item \in exists[scope]) = (c.op.by # "new")
    IN /\ c.pc = "sent"
       /\ IF Exists
          THEN /\ exists' = [exists EXCEPT ![scope] = IF c.op.by = "new" THEN @ \cup {c.item}
                                                      ELSE IF c.op.name = "delete" THEN @ \ {c.item}
                                                      ELSE @]
               /\ Outdate(Changed)
               /\ late' = IF c.op.name = "delete"
                          THEN late \cup {k \in Changed : k.item = c.item} ELSE late
               /\ pending' = [pending EXCEPT ![s].pc = "done"]
          ELSE /\ pending' = [pending EXCEPT ![s] = NoCall]
               /\ UNCHANGED <<exists, cache, late>>
       /\ UNCHANGED <<viewVars, countVars>>

\* invalidateQueries: a mounted query with data asks again.  A fetch under way
\* is kept if there is no data yet, or if the query is not mounted.
Invalidate(keys) ==
    cache' = [k \in DOMAIN cache |->
                IF k \notin keys \/ cache[k] = NoQuery THEN cache[k]
                ELSE [cache[k] EXCEPT !.invalid = TRUE,
                        !.fetch = IF k \in Mounted /\ cache[k].data # "none" THEN "asked" ELSE @]]

\* The app and the item that a callback may have: a row is rendered again for
\* another app if one of the same name is at its place, and else unmounted.
Closures(c) ==
    LET Shown == IF c.frozen THEN <<c.toApp, c.toItem>> ELSE <<app, Active>>
    IN CASE c.op.closure = "view" -> {Shown}
         [] c.op.closure = "name" -> {<<c.app, c.item>>, <<Shown[1], c.item>>}
         [] OTHER -> {<<c.app, c.item>>}

\* onSuccess, with the app and the item of its closure.
OnSuccess(s) ==
    LET c == pending[s] IN
    /\ c.pc = "done"
    /\ \E to \in Closures(c) :
          LET Changed == {QueryKey(kind, c.app, c.item) : kind \in c.op.changes}
              Target == {QueryKey(kind, to[1], to[2]) : kind \in c.op.invalidates} \cap DOMAIN cache
              Kept == {k \in Target : /\ cache[k].fetch \in {"old", "current"}
                                      /\ k \notin Mounted \/ cache[k].data = "none"}
          IN /\ Invalidate(Target)
             /\ late' = late \cup Kept \cup (IF to = <<c.app, c.item>> THEN {}
                                         ELSE Changed \ Target)
    /\ selection' = IF c.frozen \/ c.op.select = "keep" THEN selection
                    ELSE IF c.op.select = "item" THEN c.item ELSE NoItem
    /\ pending' = [pending EXCEPT ![s] = NoCall]
    /\ UNCHANGED <<view, away, app, exists, countVars>>

\* The request was lost on its way or after it was served: onError.
Fail(s) ==
    LET c == pending[s] IN
    /\ c.pc # "idle"
    /\ late' = IF c.pc = "sent" THEN late
               ELSE late \cup {QueryKey(kind, c.app, c.item) : kind \in c.op.changes}
    /\ pending' = [pending EXCEPT ![s] = NoCall]
    /\ Turn
    /\ UNCHANGED <<viewVars, exists, cache>>

\* Somebody else, or the server itself, changes a list.
ChangedByOthers(k) ==
    /\ Turn
    /\ Outdate({k})
    /\ late' = late \cup {k}
    /\ UNCHANGED <<viewVars, exists, pending>>

ConsoleNext ==
    \/ \E a \in Apps : SwitchApp(a)
    \/ \E item \in Items : SelectItem(item)
    \/ Leave \/ Return
    \/ \E k \in DOMAIN cache : StartFetch(k) \/ Read(k) \/ Receive(k) \/ LoseFetch(k)
                        \/ ChangedByOthers(k)
    \/ \E s \in OpSlots :
          \/ \E op \in ViewContent[view].ops, item \in Items \cup {NoItem} : Make(s, op, item)
          \/ ServerExecutes(s) \/ OnSuccess(s) \/ Fail(s)

ConsoleSpec == ConsoleInit /\ [][ConsoleNext]_consoleVars

-----------------------------------------------------------------------------
\* The diagnostics of the push view count the rows of the queue, and sending a
\* test message refreshes the queue alone.
NeverRefreshed == {"diagnostics"}

(* A list at rest on the screen shows what the server has, once the        *)
(* operations that changed it were answered: their callbacks invalidate    *)
(* every query they changed, whatever was fetching.  The exceptions are in *)
(* late: changes by others, answers that were lost, an app or item left    *)
(* before the answer, a fetch that no refetch replaces, and the lists of a *)
(* deleted item.                                                           *)
ShownIsCurrent ==
    \A k \in Mounted \ late :
        /\ k.kind \notin NeverRefreshed
        /\ cache[k].fetch = "idle" /\ ~cache[k].invalid
        /\ \A s \in OpSlots : pending[s].pc = "done" =>
                k \notin {QueryKey(kind, pending[s].app, pending[s].item) : kind \in pending[s].op.changes}
        => cache[k].data # "old"
=============================================================================
