----------------------------- MODULE Automation -----------------------------
(***************************************************************************)
(* Functions invoked by the clock and by row changes                       *)
(* (src/jobs/scheduler.rs, src/jobs/triggers.rs).  The scheduler reads the *)
(* jobs, stores last_run_at of each one that is due and only then spawns   *)
(* its invocation.  A committed row change spawns a task that invokes the  *)
(* functions of its triggers one after the other.                          *)
(*                                                                         *)
(* The clock counts seconds.  A cron expression is the set of the seconds  *)
(* it names, all expressions being valid; rows of both tables are written  *)
(* by the operator, there is no route for them.                            *)
(***************************************************************************)
EXTENDS Integers, FiniteSets

CONSTANTS
    Jobs,       \* rows of scheduled_jobs
    Triggers,   \* rows of data_function_triggers for the event of the changes
    Changes,    \* committed row changes
    Ticks,      \* the seconds that the cron expression names
    MaxClock,   \* bound: the clock
    MaxJobFaults,  \* bound: crashes and failing statements
    MaxToggles  \* bound: rows switched on or off by the operator

ASSUME AutomationAssumption ==
    /\ IsFiniteSet(Jobs) /\ IsFiniteSet(Triggers) /\ IsFiniteSet(Changes)
    /\ MaxClock \in Nat /\ Ticks \subseteq 1 .. MaxClock
    /\ MaxJobFaults \in Nat /\ MaxToggles \in Nat

VARIABLES
    clock,
    job,        \* per job: enabled, last_run_at
    scheduler,  \* the loop of start_job_scheduler
    fired,      \* per job: invocations spawned
    running,    \* per job: spawned invocations that have not ended
    trigger,    \* per trigger: enabled
    change,     \* per change: the task of fire_data_triggers
    attempts,   \* per change: the triggers whose function was invoked
    failed,     \* whether invoke_function_by_id has returned an error
    jobFaults, toggles

automationVars == <<clock, job, scheduler, fired, running, trigger, change, attempts, failed,
          jobFaults, toggles>>

Never == -1
Times == 0 .. MaxClock
Asleep == [pc |-> "sleep", now |-> 0, todo |-> {}]

AutomationTypeOK ==
    /\ clock \in Times
    /\ job \in [Jobs -> [enabled : BOOLEAN, last : Times \cup {Never}]]
    /\ scheduler.pc \in {"sleep", "loop"} /\ scheduler.now \in 0 .. clock
    /\ scheduler.todo \subseteq [id : Jobs, last : Times \cup {Never}]
    /\ fired \in [Jobs -> Nat]
    /\ \A j \in Jobs : running[j] \in 0 .. fired[j]
    /\ trigger \in [Triggers -> BOOLEAN]
    /\ change \in [Changes -> [pc : {"none", "select", "invoke", "end"}, todo : SUBSET Triggers]]
    /\ attempts \in [Changes -> SUBSET Triggers]
    /\ failed \in BOOLEAN
    /\ jobFaults \in 0 .. MaxJobFaults /\ toggles \in 0 .. MaxToggles

AutomationInit ==
    /\ clock = 0
    /\ job = [j \in Jobs |-> [enabled |-> TRUE, last |-> Never]]
    /\ scheduler = Asleep
    /\ fired = [j \in Jobs |-> 0] /\ running = [j \in Jobs |-> 0]
    /\ trigger = [t \in Triggers |-> TRUE]
    /\ change = [c \in Changes |-> [pc |-> "none", todo |-> {}]]
    /\ attempts = [c \in Changes |-> {}]
    /\ failed = FALSE
    /\ jobFaults = 0 /\ toggles = 0

Fault == jobFaults < MaxJobFaults /\ jobFaults' = jobFaults + 1
DataUnchanged == UNCHANGED <<trigger, change, attempts>>
JobsUnchanged == UNCHANGED <<job, scheduler, fired, running>>

-----------------------------------------------------------------------------
\* Mutant: only jobs that never ran are read.
BeginPassOfNewJobs ==
    /\ scheduler.pc = "sleep"
    /\ scheduler' = [pc |-> "loop", now |-> clock,
                     todo |-> {[id |-> j, last |-> job[j].last] :
                                  j \in {k \in Jobs : job[k].enabled /\ job[k].last = Never}}]
    /\ DataUnchanged /\ UNCHANGED <<clock, job, fired, running, failed, jobFaults, toggles>>

(* process_scheduled_jobs: the enabled jobs, then the time of this pass.   *)
BeginPass ==
    /\ scheduler.pc = "sleep"
    /\ scheduler' = [pc |-> "loop", now |-> clock,
                     todo |-> {[id |-> j, last |-> job[j].last] :
                                  j \in {k \in Jobs : job[k].enabled}}]
    /\ DataUnchanged /\ UNCHANGED <<clock, job, fired, running, failed, jobFaults, toggles>>

\* Mutant: a tick at the second of the last run counts again.
DueInclusive(last, now) == last = Never \/ \E t \in Ticks : last <= t /\ t <= now

\* A job that never ran looks ten years back: it is due at once.
Due(last, now) == last = Never \/ \E t \in Ticks : last < t /\ t <= now

NotDue(row) ==
    /\ scheduler.pc = "loop" /\ row \in scheduler.todo
    /\ ~Due(row.last, scheduler.now)
    /\ scheduler' = [scheduler EXCEPT !.todo = @ \ {row}]
    /\ DataUnchanged /\ UNCHANGED <<clock, job, fired, running, failed, jobFaults, toggles>>

\* last_run_at is the current time, not the time of the pass; a job that was
\* switched off meanwhile still runs.
Fire(row) ==
    /\ scheduler.pc = "loop" /\ row \in scheduler.todo
    /\ Due(row.last, scheduler.now)
    /\ scheduler' = [scheduler EXCEPT !.todo = @ \ {row}]
    /\ job' = [job EXCEPT ![row.id].last = clock]
    /\ fired' = [fired EXCEPT ![row.id] = @ + 1]
    /\ running' = [running EXCEPT ![row.id] = @ + 1]
    /\ DataUnchanged /\ UNCHANGED <<clock, failed, jobFaults, toggles>>

\* The UPDATE fails: the job is tried again in the next pass.
UpdateFails(row) ==
    /\ scheduler.pc = "loop" /\ row \in scheduler.todo
    /\ Due(row.last, scheduler.now)
    /\ Fault
    /\ scheduler' = [scheduler EXCEPT !.todo = @ \ {row}]
    /\ DataUnchanged /\ UNCHANGED <<clock, job, fired, running, failed, toggles>>

EndPass ==
    /\ scheduler.pc = "loop" /\ scheduler.todo = {}
    /\ scheduler' = Asleep
    /\ DataUnchanged /\ UNCHANGED <<clock, job, fired, running, failed, jobFaults, toggles>>

-----------------------------------------------------------------------------
(* invoke_function_by_id, for a function that exists and is enabled.       *)
SelectedColumns == {"id", "function_id", "version_number", "runtime", "source_code",
                    "env_json", "timeout_ms", "created_at"}
RequiredColumns == {"id", "version_number", "runtime", "source_code", "invoke_policy",
                    "env_json", "api_key_hash", "allowed_origins_json",
                    "rate_limit_per_minute", "timeout_ms", "secret_key_count"}

\* The version can be decoded only if every field of LoadedFunctionVersion is a
\* column of the query.
VersionLoads == RequiredColumns \subseteq SelectedColumns

InvokeFunctionById == failed' = (failed \/ ~VersionLoads)

\* The spawned invocation of a job ends.
RunJob(j) ==
    /\ running[j] > 0
    /\ running' = [running EXCEPT ![j] = @ - 1]
    /\ InvokeFunctionById
    /\ DataUnchanged /\ UNCHANGED <<clock, job, scheduler, fired, jobFaults, toggles>>

(* fire_data_triggers, after a row was created, updated or deleted.        *)
CommitChange(c) ==
    /\ change[c].pc = "none"
    /\ change' = [change EXCEPT ![c].pc = "select"]
    /\ JobsUnchanged /\ UNCHANGED <<clock, trigger, attempts, failed, jobFaults, toggles>>

SelectTriggers(c) ==
    /\ change[c].pc = "select"
    /\ \/ /\ change' = [change EXCEPT ![c] = [pc |-> "invoke",
                                              todo |-> {t \in Triggers : trigger[t]}]]
          /\ UNCHANGED jobFaults
       \/ Fault /\ change' = [change EXCEPT ![c].pc = "end"]
    /\ JobsUnchanged /\ UNCHANGED <<clock, trigger, attempts, failed, toggles>>

\* Mutant: the task ends at the first trigger whose function fails.
InvokeFirstTrigger(c, t) ==
    /\ change[c].pc = "invoke" /\ t \in change[c].todo
    /\ attempts' = [attempts EXCEPT ![c] = @ \cup {t}]
    /\ InvokeFunctionById
    /\ change' = [change EXCEPT ![c].pc = IF failed' THEN "end" ELSE @, ![c].todo = @ \ {t}]
    /\ JobsUnchanged /\ UNCHANGED <<clock, trigger, jobFaults, toggles>>

\* An error is logged and the next trigger is invoked.
InvokeTrigger(c, t) ==
    /\ change[c].pc = "invoke" /\ t \in change[c].todo
    /\ attempts' = [attempts EXCEPT ![c] = @ \cup {t}]
    /\ InvokeFunctionById
    /\ change' = [change EXCEPT ![c].todo = @ \ {t}]
    /\ JobsUnchanged /\ UNCHANGED <<clock, trigger, jobFaults, toggles>>

EndTriggers(c) ==
    /\ change[c].pc = "invoke" /\ change[c].todo = {}
    /\ change' = [change EXCEPT ![c].pc = "end"]
    /\ JobsUnchanged /\ UNCHANGED <<clock, trigger, attempts, failed, jobFaults, toggles>>

-----------------------------------------------------------------------------
ClockTick ==
    /\ clock < MaxClock
    /\ clock' = clock + 1
    /\ JobsUnchanged /\ DataUnchanged /\ UNCHANGED <<failed, jobFaults, toggles>>

\* The operator switches a row on or off.
Toggle ==
    /\ toggles < MaxToggles
    /\ toggles' = toggles + 1
    /\ \/ \E j \in Jobs : job' = [job EXCEPT ![j].enabled = ~@] /\ UNCHANGED trigger
       \/ \E t \in Triggers : trigger' = [trigger EXCEPT ![t] = ~@] /\ UNCHANGED job
    /\ UNCHANGED <<clock, scheduler, fired, running, change, attempts, failed, jobFaults>>

\* The tasks are gone; the scheduler starts over.
Crash ==
    /\ Fault
    /\ scheduler' = Asleep
    /\ running' = [j \in Jobs |-> 0]
    /\ change' = [c \in Changes |->
                    IF change[c].pc = "none" THEN change[c] ELSE [pc |-> "end", todo |-> {}]]
    /\ UNCHANGED <<clock, job, fired, trigger, attempts, failed, toggles>>

SchedulerStep ==
    \/ BeginPass
    \/ \E row \in scheduler.todo : NotDue(row) \/ Fire(row) \/ UpdateFails(row)
    \/ EndPass

ChangeStep(c) ==
    \/ SelectTriggers(c)
    \/ \E t \in Triggers : InvokeTrigger(c, t)
    \/ EndTriggers(c)

AutomationNext ==
    \/ SchedulerStep
    \/ \E j \in Jobs : RunJob(j)
    \/ \E c \in Changes : CommitChange(c) \/ ChangeStep(c)
    \/ ClockTick \/ Toggle \/ Crash

AutomationSpec == AutomationInit /\ [][AutomationNext]_automationVars

\* The loops and the spawned tasks keep running.
Fairness ==
    /\ WF_automationVars(SchedulerStep)
    /\ \A j \in Jobs : WF_automationVars(RunJob(j))
    /\ \A c \in Changes : WF_automationVars(ChangeStep(c))

AutomationFairSpec == AutomationSpec /\ Fairness

-----------------------------------------------------------------------------
(* No tick runs a job twice, across restarts, failing statements and jobs  *)
(* switched off and on: a job runs once when it is first seen and at most  *)
(* once per tick that has passed.                                          *)
RunsBoundedByTicks ==
    \A j \in Jobs : fired[j] <= 1 + Cardinality({t \in Ticks : t <= clock})

(* Ticks are coalesced, never forgotten: once a tick has passed, an        *)
(* enabled job is run by a pass that ends after it.                        *)
TickIsServed ==
    \A j \in Jobs, t \in Ticks : clock >= t ~> job[j].last >= t \/ ~job[j].enabled

(* A change invokes every trigger that its task has read, although earlier *)
(* ones fail; only a stopped server prevents it.                           *)
AllTriggersInvoked ==
    \A c \in Changes, t \in Triggers :
        t \in change[c].todo ~> t \in attempts[c] \/ jobFaults > 0

(* A due job and a trigger of a change invoke their function.              *)
AutomationInvokes == ~failed
=============================================================================
