------------------------- MODULE FunctionInvocations -------------------------
(***************************************************************************)
(* The invocations of one function (src/api/functions/invoke.rs,           *)
(* invocations.rs, src/functions/runtime.rs): admission against the rate   *)
(* limit and the monthly limit, the invocation log, the semaphore, the     *)
(* Deno process and the final status.  A synchronous invocation runs in    *)
(* the request's own task, which ends when its client disconnects; an      *)
(* asynchronous one runs in a task of its own.  Nothing resumes an         *)
(* invocation whose task has ended.                                        *)
(*                                                                         *)
(* The loads before the rate limit is counted only read the function and   *)
(* its version, which is never rewritten; they are one step.  Input,       *)
(* output, logs and the realtime events are left out.                      *)
(***************************************************************************)
EXTENDS Naturals, FiniteSets

CONSTANTS
    Invocations,   \* requests to invoke or to retry
    NoParent,      \* parent_invocation_id of an invocation that is no retry
    Permits,       \* FUNCTIONS_MAX_CONCURRENT
    RateLimit,     \* rate_limit_per_minute
    MonthlyLimit,  \* function_invocations_month of the workspace
    MaxVersion,    \* bound: versions activated
    MaxFaults,     \* bound: crashes, panics and failing statements
    MaxDisconnects \* bound: clients that disconnect

ASSUME InvocationsAssumption ==
    /\ IsFiniteSet(Invocations)
    /\ NoParent \notin Invocations
    /\ Permits \in Nat \ {0}
    /\ RateLimit \in Nat /\ MonthlyLimit \in Nat
    /\ MaxVersion \in Nat \ {0}
    /\ MaxFaults \in Nat /\ MaxDisconnects \in Nat

VARIABLES
    target,   \* the row of functions: exists, active version
    inv,        \* per invocation: its task, its row and its process
    free,       \* permits of the semaphore that are free
    used,       \* usage counter of the month
    before,     \* auxiliary: what the counter held at the start
    window,     \* rows created in the last 60 seconds
    lost,       \* auxiliary: invocations whose task ended without a result stored
    unbilled,   \* auxiliary: rows whose usage was not recorded
    overlapped, \* auxiliary: two admissions have overlapped
    faults, disconnects

invocationVars == <<target, inv, free, used, before, window, lost, unbilled, overlapped, faults, disconnects>>

Versions == 1 .. MaxVersion

\* Steps before the task waits for a permit, and steps that hold one.
Admission == {"count", "quota", "insert", "record"}
Holding == {"secrets", "run", "drain", "ok", "err"}
Steps == {"new", "start", "wait", "end"} \cup Admission \cup Holding
Pending == {"queued", "running"}
Settled == {"succeeded", "failed"}

NotInvoked == [pc |-> "new", mode |-> "sync", status |-> "none", version |-> 1,
               parent |-> NoParent, retry |-> 0, process |-> FALSE]

InvocationsTypeOK ==
    /\ target \in [exists : BOOLEAN, active : Versions]
    /\ inv \in [Invocations ->
          [pc : Steps, mode : {"sync", "async"},
           status : {"none", "deleted"} \cup Pending \cup Settled,
           version : Versions, parent : Invocations \cup {NoParent},
           retry : 0 .. Cardinality(Invocations), process : BOOLEAN]]
    /\ free \in 0 .. Permits
    /\ before \in 0 .. MonthlyLimit
    /\ used \in before .. before + Cardinality(Invocations)
    /\ window \subseteq Invocations /\ lost \subseteq Invocations
    /\ unbilled \subseteq Invocations
    /\ overlapped \in BOOLEAN
    /\ faults \in 0 .. MaxFaults /\ disconnects \in 0 .. MaxDisconnects

InvocationsInit ==
    /\ target = [exists |-> TRUE, active |-> 1]
    /\ inv = [i \in Invocations |-> NotInvoked]
    /\ free = Permits
    /\ before \in 0 .. MonthlyLimit /\ used = before
    /\ window = {} /\ lost = {} /\ unbilled = {}
    /\ overlapped = FALSE
    /\ faults = 0 /\ disconnects = 0

-----------------------------------------------------------------------------
At(i, pc) == inv[i].pc = pc
Goto(i, pc) == inv' = [inv EXCEPT ![i].pc = pc]
IsRetry(i) == inv[i].parent # NoParent
Rows == {i \in Invocations : inv[i].status \in Pending \cup Settled}
Processes == {i \in Invocations : inv[i].process}

\* The rows stay, with the last status stored, when the task ends.
Lose(S) == lost' = lost \cup {i \in S : inv[i].status \in Pending}
Unbill(S) == unbilled' = unbilled \cup {i \in S : At(i, "record")}

Fault == faults < MaxFaults /\ faults' = faults + 1

BeginAdmission(i) ==
    overlapped' = (overlapped \/ \E j \in Invocations \ {i} : inv[j].pc \in Admission)

(* invoke_function: the function and its active version.                   *)
Invoke(i, mode) ==
    /\ At(i, "new")
    /\ target.exists
    /\ BeginAdmission(i)
    /\ inv' = [inv EXCEPT ![i].pc = "count", ![i].mode = mode,
                          ![i].version = target.active]
    /\ UNCHANGED <<target, free, used, window, lost, unbilled, faults, disconnects>>

\* retry_function_invocation: any invocation of the function, whatever its
\* status, in a new row; the rate limit is not counted.
Retry(i, p) ==
    /\ At(i, "new")
    /\ target.exists
    /\ inv[p].status \in Pending \cup Settled
    /\ BeginAdmission(i)
    /\ inv' = [inv EXCEPT ![i].pc = "quota", ![i].parent = p,
                          ![i].retry = inv[p].retry + 1, ![i].version = inv[p].version]
    /\ UNCHANGED <<target, free, used, window, lost, unbilled, faults, disconnects>>

\* Mutant: one invocation more than the rate limit.
UnderRateInclusive == Cardinality(window) <= RateLimit

UnderRate == Cardinality(window) < RateLimit

\* require_rate_limit, then the load of the version.
CountRate(i) ==
    /\ At(i, "count")
    /\ Goto(i, IF UnderRate /\ target.exists THEN "quota" ELSE "end")
    /\ UNCHANGED <<target, free, used, window, lost, unbilled, overlapped, faults,
                   disconnects>>

\* require_app_resource_available.
CheckQuota(i) ==
    /\ At(i, "quota")
    /\ Goto(i, IF used + 1 <= MonthlyLimit THEN "insert" ELSE "end")
    /\ UNCHANGED <<target, free, used, window, lost, unbilled, overlapped, faults,
                   disconnects>>

\* INSERT INTO function_invocations; its foreign key fails once the function is gone.
InsertInvocation(i) ==
    /\ At(i, "insert")
    /\ IF target.exists
       THEN /\ inv' = [inv EXCEPT ![i].pc = "record",
                          ![i].status = IF inv[i].mode = "async" THEN "queued" ELSE "running"]
            /\ window' = window \cup {i}
       ELSE Goto(i, "end") /\ UNCHANGED window
    /\ UNCHANGED <<target, free, used, lost, unbilled, overlapped, faults, disconnects>>

\* record_usage; its error is ignored.
RecordUsage(i) ==
    /\ At(i, "record")
    /\ Goto(i, IF inv[i].mode = "async" THEN "start" ELSE "wait")
    /\ \/ used' = used + 1 /\ UNCHANGED <<unbilled, faults>>
       \/ Fault /\ Unbill({i}) /\ UNCHANGED used
    /\ UNCHANGED <<target, free, window, lost, overlapped, disconnects>>

Store(i, pc, status) ==
    inv' = [inv EXCEPT ![i].pc = pc,
                       ![i].status = IF @ = "deleted" THEN @ ELSE status]

\* The spawned task of an asynchronous invocation; its error is ignored.
StartAsync(i) ==
    /\ At(i, "start")
    /\ \/ Store(i, "wait", "running") /\ UNCHANGED faults
       \/ Fault /\ Goto(i, "wait")
    /\ UNCHANGED <<target, free, used, window, lost, unbilled, overlapped, disconnects>>

\* execute_and_finalize_invocation: the permit is held until the function returns.
AcquirePermit(i) ==
    /\ At(i, "wait")
    /\ free > 0
    /\ free' = free - 1
    /\ Goto(i, "secrets")
    /\ UNCHANGED <<target, used, window, lost, unbilled, overlapped, faults, disconnects>>

\* load_function_secrets; an error returns without a status.
LoadSecrets(i) ==
    /\ At(i, "secrets")
    /\ \/ Goto(i, "run") /\ UNCHANGED <<free, lost, faults>>
       \/ Fault /\ Goto(i, "end") /\ free' = free + 1 /\ Lose({i})
    /\ UNCHANGED <<target, used, window, unbilled, overlapped, disconnects>>

(* execute_in_sandbox.                                                     *)
SpawnProcess(i) ==
    /\ At(i, "run") /\ ~inv[i].process
    /\ inv' = [inv EXCEPT ![i].process = TRUE]
    /\ UNCHANGED <<target, free, used, window, lost, unbilled, overlapped, faults,
                   disconnects>>

\* The source is refused, or no directory or process can be created.
SpawnFails(i) ==
    /\ At(i, "run") /\ ~inv[i].process
    /\ Goto(i, "err")
    /\ UNCHANGED <<target, free, used, window, lost, unbilled, overlapped, faults,
                   disconnects>>

\* The process answered and exited within the timeout.
ProcessAnswers(i) ==
    /\ At(i, "run") /\ inv[i].process
    /\ \E pc \in {"ok", "err"} : inv' = [inv EXCEPT ![i].pc = pc, ![i].process = FALSE]
    /\ UNCHANGED <<target, free, used, window, lost, unbilled, overlapped, faults,
                   disconnects>>

\* Mutant: a process that timed out is not killed.
TimeoutWithoutKill(i) ==
    /\ At(i, "run") /\ inv[i].process
    /\ Goto(i, "err")
    /\ UNCHANGED <<target, free, used, window, lost, unbilled, overlapped, faults,
                   disconnects>>

\* The timeout elapsed: the process is killed and waited for.
TimeoutKills(i) ==
    /\ At(i, "run") /\ inv[i].process
    /\ inv' = [inv EXCEPT ![i].pc = "err", ![i].process = FALSE]
    /\ UNCHANGED <<target, free, used, window, lost, unbilled, overlapped, faults,
                   disconnects>>

\* A message that cannot be read ends the protocol, not the process; the end of
\* its stderr is waited for, without a timeout.
ProtocolError(i) ==
    /\ At(i, "run") /\ inv[i].process
    /\ Goto(i, "drain")
    /\ UNCHANGED <<target, free, used, window, lost, unbilled, overlapped, faults,
                   disconnects>>

\* The process exits by itself, attended or not.
ProcessExits(i) ==
    /\ inv[i].process /\ ~At(i, "run")
    /\ inv' = [inv EXCEPT ![i].process = FALSE, ![i].pc = IF @ = "drain" THEN "err" ELSE @]
    /\ UNCHANGED <<target, free, used, window, lost, unbilled, overlapped, faults,
                   disconnects>>

\* The process exited and truncate_output cuts its logs inside a character: the
\* task panics.
TruncatePanics(i) ==
    /\ inv[i].pc \in {"run", "drain"} /\ inv[i].process
    /\ Fault
    /\ inv' = [inv EXCEPT ![i].pc = "end", ![i].process = FALSE]
    /\ free' = free + 1 /\ Lose({i})
    /\ UNCHANGED <<target, used, window, unbilled, overlapped, disconnects>>

\* Mutant: the permit is not given back.
FinalizeKeepingPermit(i) ==
    /\ At(i, "ok") \/ At(i, "err")
    /\ Store(i, "end", IF At(i, "ok") THEN "succeeded" ELSE "failed")
    /\ UNCHANGED <<target, free, used, window, lost, unbilled, overlapped, faults,
                   disconnects>>

\* The final UPDATE, whose error is ignored, and the release of the permit.
Finalize(i) ==
    /\ At(i, "ok") \/ At(i, "err")
    /\ free' = free + 1
    /\ \/ /\ Store(i, "end", IF At(i, "ok") THEN "succeeded" ELSE "failed")
          /\ UNCHANGED <<lost, faults>>
       \/ Fault /\ Goto(i, "end") /\ Lose({i})
    /\ UNCHANGED <<target, used, window, unbilled, overlapped, disconnects>>

-----------------------------------------------------------------------------
Ended(S) == [i \in Invocations |-> IF i \in S THEN [inv[i] EXCEPT !.pc = "end"] ELSE inv[i]]

\* The request's task is dropped, and its permit with it; a process it started
\* is not killed.  An asynchronous invocation has left the request's task.
Disconnect(i) ==
    /\ inv[i].pc \in Admission \/ (inv[i].mode = "sync" /\ inv[i].pc \in {"wait"} \cup Holding)
    /\ disconnects < MaxDisconnects
    /\ disconnects' = disconnects + 1
    /\ inv' = Ended({i})
    /\ free' = IF inv[i].pc \in Holding THEN free + 1 ELSE free
    /\ Lose({i}) /\ Unbill({i})
    /\ UNCHANGED <<target, used, window, overlapped, faults>>

\* All tasks end; the processes do or do not survive the server.
Crash ==
    /\ Fault
    /\ \E survive \in BOOLEAN :
          inv' = [i \in Invocations |->
                    IF At(i, "new") THEN inv[i]
                    ELSE [inv[i] EXCEPT !.pc = "end", !.process = @ /\ survive]]
    /\ free' = Permits
    /\ LET tasks == {i \in Invocations : inv[i].pc \notin {"new", "end"}} IN
       Lose(tasks) /\ Unbill(tasks)
    /\ UNCHANGED <<target, used, window, overlapped, disconnects>>

\* An update or a rollback of the function (FunctionVersions).
VersionActivated(v) ==
    /\ target.exists /\ v # target.active
    /\ target' = [target EXCEPT !.active = v]
    /\ UNCHANGED <<inv, free, used, window, lost, unbilled, overlapped, faults, disconnects>>

\* delete_function: the log goes with it (ON DELETE CASCADE).
FunctionDeleted ==
    /\ target.exists
    /\ target' = [target EXCEPT !.exists = FALSE]
    /\ inv' = [i \in Invocations |->
                 IF i \in Rows THEN [inv[i] EXCEPT !.status = "deleted"] ELSE inv[i]]
    /\ window' = {}
    /\ UNCHANGED <<free, used, lost, unbilled, overlapped, faults, disconnects>>

\* Sixty seconds have passed since the row was created.
LeaveWindow(i) ==
    /\ i \in window
    /\ window' = window \ {i}
    /\ UNCHANGED <<target, inv, free, used, lost, unbilled, overlapped, faults, disconnects>>

\* The steps of the server's tasks and of the processes they wait for.
Task(i) ==
    \/ CountRate(i) \/ CheckQuota(i) \/ InsertInvocation(i) \/ RecordUsage(i)
    \/ StartAsync(i) \/ AcquirePermit(i) \/ LoadSecrets(i)
    \/ SpawnProcess(i) \/ SpawnFails(i) \/ ProcessAnswers(i) \/ TimeoutKills(i)
    \/ Finalize(i)

Step ==
    \/ \E i \in Invocations :
          \/ \E mode \in {"sync", "async"} : Invoke(i, mode)
          \/ \E p \in Invocations \ {i} : Retry(i, p)
          \/ Task(i)
          \/ ProtocolError(i) \/ ProcessExits(i) \/ TruncatePanics(i)
          \/ Disconnect(i) \/ LeaveWindow(i)
    \/ Crash \/ FunctionDeleted
    \/ \E v \in Versions : VersionActivated(v)

InvocationsNext == Step /\ UNCHANGED before

InvocationsSpec == InvocationsInit /\ [][InvocationsNext]_invocationVars

\* Tokio runs every task that can run and the timeout bounds the process; a
\* process that broke the protocol is assumed to exit by itself.
InvocationsFairness ==
    \A i \in Invocations : /\ WF_invocationVars(Task(i) /\ UNCHANGED before)
                           /\ WF_invocationVars(ProcessExits(i) /\ UNCHANGED before)

-----------------------------------------------------------------------------
(* The processes that a task attends never outnumber the permits, and none *)
(* is left running by a task that ended by itself.                         *)
AttendedProcessesBounded ==
    /\ Cardinality({i \in Processes : inv[i].pc # "end"}) <= Permits
    /\ \A i \in Processes :
          inv[i].pc \in {"run", "drain"} \/ i \in lost \/ inv[i].status = "deleted"

(* Admissions that do not overlap respect both limits exactly when the row *)
(* is inserted, rows whose usage was not recorded aside.                   *)
AdmissionExact ==
    ~overlapped => \A i \in Invocations : At(i, "insert") =>
        /\ ~IsRetry(i) => Cardinality(window) < RateLimit
        /\ before + Cardinality({j \in Invocations : inv[j].status # "none"} \ unbilled)
              < MonthlyLimit

(* An invocation that was logged ends with an outcome, unless its task was *)
(* cut short or its function is deleted.                                   *)
InvocationSettles ==
    \A i \in Invocations :
        inv[i].status \in Pending ~> inv[i].status \in Settled \cup {"deleted"} \/ i \in lost

(* FUNCTIONS_MAX_CONCURRENT caps the function processes running at once.   *)
ProcessesCapped == Cardinality(Processes) <= Permits
=============================================================================
