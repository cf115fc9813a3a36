-------------------------- MODULE BackgroundProofs --------------------------
(***************************************************************************)
(* Proofs about the tasks that run beside the requests: backup and restore *)
(* (BackupRestore) and the functions invoked by the clock and by row       *)
(* changes (Automation).                                                   *)
(***************************************************************************)
EXTENDS BackupRestore, Automation, FiniteSetTheorems, NaturalsInduction, TLAPS

(* The time a leaf may take. *)
USE SMTT(30)

-----------------------------------------------------------------------------
(* Automation, for any number of jobs, triggers, changes and faults, and   *)
(* for any cron expression.  What makes the bound on the runs inductive is *)
(* that only the scheduler writes last_run_at: a row of the pass under way *)
(* is still what the table holds.                                          *)

\* The ticks up to a second.
TicksUpTo(time) == {t \in Ticks : t <= time}

\* last_run_at accounts for every invocation that was spawned.
RunsCounted ==
    \A j \in Jobs :
        /\ job[j].last <= clock
        /\ IF job[j].last = Never THEN fired[j] = 0
           ELSE fired[j] <= 1 + Cardinality(TicksUpTo(job[j].last))

\* The rows of a pass that are still to be handled are up to date.
PassIsCurrent == \A row \in scheduler.todo : row.last = job[row.id].last

AutomationInv == AutomationTypeOK /\ RunsCounted /\ PassIsCurrent

-----------------------------------------------------------------------------
(* The ticks up to a later second are no fewer.                            *)
LEMMA TicksGrow ==
    ASSUME NEW t1 \in Times, NEW t2 \in Times, t1 <= t2
    PROVE  /\ Cardinality(TicksUpTo(t1)) \in Nat /\ Cardinality(TicksUpTo(t2)) \in Nat
           /\ Cardinality(TicksUpTo(t1)) <= Cardinality(TicksUpTo(t2))
<1>1. IsFiniteSet(1 .. MaxClock)
  BY AutomationAssumption, FS_Interval
<1>2. TicksUpTo(t2) \subseteq 1 .. MaxClock
  BY AutomationAssumption, Zenon DEF TicksUpTo
<1>3. IsFiniteSet(TicksUpTo(t2))
  BY <1>1, <1>2, FS_Subset, Zenon
<1>4. t1 \in Int /\ t2 \in Int /\ \A x \in Ticks : x \in Int
  BY AutomationAssumption DEF Times
<1>5. TicksUpTo(t1) \subseteq TicksUpTo(t2)
  BY <1>4 DEF TicksUpTo
<1> QED
  BY <1>3, <1>5, FS_Subset, FS_CardinalityType, Zenon

(* A tick in between makes them more: what Due looks for.                  *)
LEMMA TickCounts ==
    ASSUME NEW t1 \in Times, NEW t2 \in Times, NEW t \in Ticks, t1 < t, t <= t2
    PROVE  Cardinality(TicksUpTo(t1)) + 1 <= Cardinality(TicksUpTo(t2))
<1>1. IsFiniteSet(1 .. MaxClock)
  BY AutomationAssumption, FS_Interval
<1>2. TicksUpTo(t2) \subseteq 1 .. MaxClock
  BY AutomationAssumption, Zenon DEF TicksUpTo
<1>3. IsFiniteSet(TicksUpTo(t2))
  BY <1>1, <1>2, FS_Subset, Zenon
<1>4. t1 \in Int /\ t2 \in Int /\ \A x \in Ticks : x \in Int
  BY AutomationAssumption DEF Times
<1>5. TicksUpTo(t1) \subseteq TicksUpTo(t2) /\ TicksUpTo(t1) # TicksUpTo(t2)
  <2>1. t \in TicksUpTo(t2) /\ t \notin TicksUpTo(t1)
    BY <1>4 DEF TicksUpTo
  <2>2. TicksUpTo(t1) \subseteq TicksUpTo(t2)
    BY <1>4 DEF TicksUpTo
  <2> QED
    BY <2>1, <2>2, Zenon
<1>6. /\ Cardinality(TicksUpTo(t1)) <= Cardinality(TicksUpTo(t2))
      /\ Cardinality(TicksUpTo(t1)) # Cardinality(TicksUpTo(t2))
      /\ IsFiniteSet(TicksUpTo(t1))
  BY <1>3, <1>5, FS_Subset, Zenon
<1>7. Cardinality(TicksUpTo(t1)) \in Nat /\ Cardinality(TicksUpTo(t2)) \in Nat
  BY <1>3, <1>6, FS_CardinalityType, Zenon
<1> QED
  BY <1>6, <1>7

-----------------------------------------------------------------------------
(* Steps of the scheduler that run no job.                                 *)
LEMMA PassInv ==
    ASSUME AutomationInv,
           \/ BeginPass \/ EndPass
           \/ \E row \in scheduler.todo : NotDue(row) \/ UpdateFails(row)
    PROVE  AutomationInv'
<1> USE DEF AutomationInv
<1>1. /\ UNCHANGED <<clock, job, fired, running, trigger, change, attempts, failed, toggles>>
      /\ jobFaults' \in 0 .. MaxJobFaults
  BY AutomationAssumption DEF BeginPass, EndPass, NotDue, UpdateFails, DataUnchanged, Fault, AutomationTypeOK
<1>2. /\ scheduler'.pc \in {"sleep", "loop"} /\ scheduler'.now \in 0 .. clock
      /\ scheduler'.todo \subseteq [id : Jobs, last : Times \cup {Never}]
      /\ \A row \in scheduler'.todo : row.last = job[row.id].last
  <2>1. CASE BeginPass
    <3>1. scheduler' = [pc |-> "loop", now |-> clock,
                        todo |-> {[id |-> j, last |-> job[j].last] : j \in {k \in Jobs : job[k].enabled}}]
      BY <2>1, Zenon DEF BeginPass
    <3>2. \A j \in Jobs : job[j].last \in Times \cup {Never}
      BY Zenon DEF AutomationTypeOK
    <3>3. clock \in 0 .. clock
      BY AutomationAssumption DEF AutomationTypeOK, Times
    <3> QED
      BY <3>1, <3>2, <3>3
  <2>2. CASE EndPass
    <3>1. scheduler' = [pc |-> "sleep", now |-> 0, todo |-> {}] /\ 0 \in 0 .. clock
      BY <2>2, AutomationAssumption DEF EndPass, Asleep, AutomationTypeOK, Times
    <3> QED
      BY <3>1, Zenon
  <2>3. ASSUME NEW row \in scheduler.todo, NotDue(row) \/ UpdateFails(row)
        PROVE  /\ scheduler'.pc = scheduler.pc /\ scheduler'.now = scheduler.now
               /\ scheduler'.todo \subseteq scheduler.todo
    <3>1. scheduler' = [scheduler EXCEPT !.todo = @ \ {row}]
      BY <2>3, Zenon DEF NotDue, UpdateFails
    <3> QED
      BY <3>1
  <2> QED
    BY <2>1, <2>2, <2>3, Zenon DEF AutomationTypeOK, PassIsCurrent
<1>3. AutomationTypeOK'
  BY <1>1, <1>2, Zenon DEF AutomationTypeOK
<1> QED
  BY <1>1, <1>2, <1>3, Zenon DEF RunsCounted, TicksUpTo, PassIsCurrent

(* A due job is run: it never ran, or a tick passed since last_run_at.     *)
LEMMA FireInv ==
    ASSUME AutomationInv, NEW row \in scheduler.todo, Fire(row)
    PROVE  AutomationInv'
<1> USE DEF AutomationInv
<1> DEFINE i == row.id
<1>1. /\ scheduler' = [scheduler EXCEPT !.todo = @ \ {row}]
      /\ job' = [job EXCEPT ![i].last = clock]
      /\ fired' = [fired EXCEPT ![i] = @ + 1]
      /\ running' = [running EXCEPT ![i] = @ + 1]
      /\ UNCHANGED <<trigger, change, attempts, clock, failed, jobFaults, toggles>>
      /\ Due(row.last, scheduler.now)
  BY Zenon DEF Fire, DataUnchanged
<1>2. i \in Jobs /\ row = [id |-> i, last |-> row.last]
  BY Zenon DEF AutomationTypeOK
<1>3. row.last = job[i].last
  BY Zenon DEF PassIsCurrent
<1>4. clock \in Times /\ clock \in Int /\ scheduler.now <= clock /\ scheduler.now \in Int
  BY AutomationAssumption DEF AutomationTypeOK, Times
<1>5. /\ \A j \in Jobs : fired[j] \in Nat /\ running[j] \in 0 .. fired[j]
      /\ \A j \in Jobs : job[j].last \in Times \cup {Never} /\ job[j].last \in Int
  BY AutomationAssumption DEF AutomationTypeOK, Times, Never
<1>6. AutomationTypeOK'
  <2>1. job' \in [Jobs -> [enabled : BOOLEAN, last : Times \cup {Never}]]
    BY <1>1, <1>2, <1>4 DEF AutomationTypeOK
  <2>2. /\ scheduler'.pc = scheduler.pc /\ scheduler'.now = scheduler.now
        /\ scheduler'.todo \subseteq scheduler.todo
    BY <1>1
  <2>3. fired' \in [Jobs -> Nat]
    BY <1>1, <1>2, <1>5 DEF AutomationTypeOK
  <2>4. \A j \in Jobs : running'[j] \in 0 .. fired'[j]
    <3> SUFFICES ASSUME NEW j \in Jobs PROVE running'[j] \in 0 .. fired'[j]
      BY Zenon
    <3>1. CASE j = i
      <4>1. fired'[j] = fired[j] + 1 /\ (j \in DOMAIN running => running'[j] = running[j] + 1)
        BY <1>1, <1>2, <3>1, Zenon DEF AutomationTypeOK
      <4>2. j \notin DOMAIN running => running'[j] = running[j]
        BY <1>1
      <4> QED
        BY <1>5, <4>1, <4>2
    <3>2. CASE j # i
      BY <1>1, <1>5, <3>2 DEF AutomationTypeOK
    <3> QED
      BY <3>1, <3>2, Zenon
  <2> QED
    BY <1>1, <2>1, <2>2, <2>3, <2>4, Zenon DEF AutomationTypeOK
<1>7. RunsCounted'
  <2> SUFFICES ASSUME NEW j \in Jobs
               PROVE  /\ job'[j].last <= clock
                      /\ IF job'[j].last = Never THEN fired'[j] = 0
                         ELSE fired'[j] <= 1 + Cardinality(TicksUpTo(job'[j].last))
    BY <1>1, Zenon DEF RunsCounted, TicksUpTo
  <2>1. CASE j # i
    <3>1. job'[j] = job[j] /\ fired'[j] = fired[j]
      BY <1>1, <2>1, Zenon DEF AutomationTypeOK
    <3> QED
      BY <3>1, Zenon DEF RunsCounted
  <2>2. CASE j = i
    <3>1. job'[j].last = clock /\ fired'[j] = fired[j] + 1 /\ clock # Never
      BY <1>1, <1>2, <1>4, <2>2, AutomationAssumption DEF AutomationTypeOK, Times, Never
    <3>2. Cardinality(TicksUpTo(clock)) \in Nat
      BY <1>4, TicksGrow
    <3>3. CASE job[j].last = Never
      <4>1. fired[j] = 0
        BY <3>3, Zenon DEF RunsCounted
      <4> QED
        BY <1>4, <3>1, <3>2, <4>1
    <3>4. CASE job[j].last # Never
      <4>1. fired[j] <= 1 + Cardinality(TicksUpTo(job[j].last)) /\ job[j].last \in Times
        BY <1>5, <3>4, Zenon DEF RunsCounted
      <4>2. PICK t \in Ticks : job[j].last < t /\ t <= scheduler.now
        BY <1>1, <1>3, <2>2, <3>4, Zenon DEF Due
      <4>3. t <= clock
        BY <1>4, <4>2, AutomationAssumption
      <4>4. Cardinality(TicksUpTo(job[j].last)) + 1 <= Cardinality(TicksUpTo(clock))
        BY <1>4, <4>1, <4>2, <4>3, TickCounts, Zenon
      <4>5. Cardinality(TicksUpTo(job[j].last)) \in Nat
        BY <4>1, TicksGrow, AutomationAssumption DEF Times
      <4> QED
        BY <1>4, <1>5, <3>1, <3>2, <4>1, <4>4, <4>5
    <3> QED
      BY <3>3, <3>4, Zenon
  <2> QED
    BY <2>1, <2>2, Zenon
<1>8. PassIsCurrent'
  <2> SUFFICES ASSUME NEW other \in scheduler'.todo PROVE other.last = job'[other.id].last
    BY Zenon DEF PassIsCurrent
  <2>1. other \in scheduler.todo /\ other # row
    BY <1>1
  <2>2. other = [id |-> other.id, last |-> other.last] /\ other.id \in Jobs
    BY <2>1, Zenon DEF AutomationTypeOK
  <2>3. other.last = job[other.id].last
    BY <2>1, Zenon DEF PassIsCurrent
  <2>4. other.id # i
    BY <1>2, <1>3, <2>1, <2>2, <2>3, Zenon
  <2>5. job'[other.id] = job[other.id]
    BY <1>1, <2>2, <2>4, Zenon DEF AutomationTypeOK
  <2> QED
    BY <2>3, <2>5, Zenon
<1> QED
  BY <1>6, <1>7, <1>8, Zenon

(* Steps that leave the jobs' rows, the pass and the clock alone.          *)
LEMMA KeptInv ==
    ASSUME AutomationInv, UNCHANGED <<clock, scheduler, fired>>,
           \A j \in Jobs : job'[j].last = job[j].last,
           AutomationTypeOK'
    PROVE  AutomationInv'
BY Zenon DEF AutomationInv, RunsCounted, PassIsCurrent, TicksUpTo, AutomationTypeOK

(* The spawned invocations and the tasks of the changes.                   *)
LEMMA TasksInv ==
    ASSUME AutomationInv,
           \/ \E j \in Jobs : RunJob(j)
           \/ \E c \in Changes : CommitChange(c) \/ ChangeStep(c)
           \/ Toggle
    PROVE  AutomationInv'
<1> USE DEF AutomationInv
<1>1. ASSUME NEW j \in Jobs, RunJob(j) PROVE AutomationInv'
  <2>1. /\ running' = [running EXCEPT ![j] = @ - 1] /\ running[j] > 0
        /\ UNCHANGED <<trigger, change, attempts, clock, job, scheduler, fired, jobFaults, toggles>>
        /\ failed' \in BOOLEAN
    BY <1>1, Zenon DEF RunJob, DataUnchanged, InvokeFunctionById
  <2>2. \A k \in Jobs : running'[k] \in 0 .. fired[k]
    <3>1. \A k \in Jobs : running[k] \in 0 .. fired[k] /\ fired[k] \in Nat
      BY Zenon DEF AutomationTypeOK
    <3>2. \A k \in Jobs : running'[k] = running[k] \/ (k = j /\ running'[k] = running[k] - 1)
      BY <2>1
    <3> QED
      BY <2>1, <3>1, <3>2
  <2>3. AutomationTypeOK'
    BY <2>1, <2>2, Zenon DEF AutomationTypeOK
  <2> QED
    BY <2>1, <2>3, KeptInv, Zenon
<1>2. ASSUME NEW c \in Changes, CommitChange(c) \/ ChangeStep(c) PROVE AutomationInv'
  <2>1. /\ UNCHANGED <<job, scheduler, fired, running, clock, trigger, toggles>>
        /\ failed' \in BOOLEAN
    BY <1>2, Zenon DEF CommitChange, ChangeStep, SelectTriggers, InvokeTrigger, EndTriggers, JobsUnchanged,
                InvokeFunctionById, AutomationTypeOK
  <2>2. jobFaults' \in 0 .. MaxJobFaults
    BY <1>2, AutomationAssumption
    DEF CommitChange, ChangeStep, SelectTriggers, InvokeTrigger, EndTriggers, Fault, AutomationTypeOK
  <2>3. change' \in [Changes -> [pc : {"none", "select", "invoke", "end"}, todo : SUBSET Triggers]]
    <3> DEFINE Rows == [pc : {"none", "select", "invoke", "end"}, todo : SUBSET Triggers]
    <3>1. change \in [Changes -> Rows]
      BY Zenon DEF AutomationTypeOK
    <3>2. PICK row \in Rows : change' = [change EXCEPT ![c] = row]
      <4>1. ASSUME NEW pc \in {"none", "select", "invoke", "end"}, change' = [change EXCEPT ![c].pc = pc]
            PROVE  \E row \in Rows : change' = [change EXCEPT ![c] = row]
        <5>1. [change[c] EXCEPT !.pc = pc] \in Rows
          BY <3>1, Zenon
        <5>2. change' = [change EXCEPT ![c] = [change[c] EXCEPT !.pc = pc]]
          BY <4>1, Zenon
        <5> QED
          BY <5>1, <5>2, Zenon
      <4>2. ASSUME NEW t \in Triggers, change' = [change EXCEPT ![c].todo = @ \ {t}]
            PROVE  \E row \in Rows : change' = [change EXCEPT ![c] = row]
        <5>1. [change[c] EXCEPT !.todo = @ \ {t}] \in Rows
          BY <3>1, Zenon
        <5>2. change' = [change EXCEPT ![c] = [change[c] EXCEPT !.todo = @ \ {t}]]
          BY <4>2, Zenon
        <5> QED
          BY <5>1, <5>2, Zenon
      <4>3. [pc |-> "invoke", todo |-> {t \in Triggers : trigger[t]}] \in Rows
        BY Zenon
      <4>4. CASE CommitChange(c)
        BY <4>1, <4>4, Zenon DEF CommitChange
      <4>5. CASE SelectTriggers(c)
        BY <4>1, <4>3, <4>5, Zenon DEF SelectTriggers
      <4>6. CASE \E t \in Triggers : InvokeTrigger(c, t)
        BY <4>2, <4>6, Zenon DEF InvokeTrigger
      <4>7. CASE EndTriggers(c)
        BY <4>1, <4>7, Zenon DEF EndTriggers
      <4> QED
        BY <1>2, <4>4, <4>5, <4>6, <4>7, Zenon DEF ChangeStep
    <3> HIDE DEF Rows
    <3>3. change' \in [Changes -> Rows]
      BY <3>1, <3>2, Zenon
    <3> QED
      BY <3>3, Zenon DEF Rows
  <2>4. attempts' \in [Changes -> SUBSET Triggers]
    BY <1>2 DEF CommitChange, ChangeStep, SelectTriggers, InvokeTrigger, EndTriggers, AutomationTypeOK
  <2>5. AutomationTypeOK'
    BY <2>1, <2>2, <2>3, <2>4, Zenon DEF AutomationTypeOK
  <2> QED
    BY <2>1, <2>5, KeptInv, Zenon
<1>3. CASE Toggle
  <2>1. /\ UNCHANGED <<clock, scheduler, fired, running, change, attempts, failed, jobFaults>>
        /\ toggles' \in 0 .. MaxToggles
    BY <1>3, AutomationAssumption DEF Toggle, AutomationTypeOK
  <2>2. /\ job' \in [Jobs -> [enabled : BOOLEAN, last : Times \cup {Never}]]
        /\ \A j \in Jobs : job'[j].last = job[j].last
    <3>1. CASE job' = job
      BY <3>1, Zenon DEF AutomationTypeOK
    <3>2. ASSUME NEW j \in Jobs, job' = [job EXCEPT ![j].enabled = ~@]
          PROVE  /\ job' \in [Jobs -> [enabled : BOOLEAN, last : Times \cup {Never}]]
                 /\ \A k \in Jobs : job'[k].last = job[k].last
      <4>1. PICK new : new = [job[j] EXCEPT !.enabled = ~@]
        BY Zenon
      <4>2. new \in [enabled : BOOLEAN, last : Times \cup {Never}] /\ new.last = job[j].last
        BY <4>1, Zenon DEF AutomationTypeOK
      <4>3. job' = [job EXCEPT ![j] = new]
        BY <3>2, <4>1, Zenon
      <4> QED
        BY <4>2, <4>3, Zenon DEF AutomationTypeOK
    <3> QED
      BY <1>3, <3>1, <3>2, Zenon DEF Toggle
  <2>3. trigger' \in [Triggers -> BOOLEAN]
    BY <1>3, Zenon DEF Toggle, AutomationTypeOK
  <2>4. AutomationTypeOK'
    BY <2>1, <2>2, <2>3, Zenon DEF AutomationTypeOK
  <2> QED
    BY <2>1, <2>2, <2>4, KeptInv, Zenon
<1> QED
  BY <1>1, <1>2, <1>3, Zenon

(* A second passes, or the server is started again: last_run_at stays.     *)
LEMMA ClockInv ==
    ASSUME AutomationInv, ClockTick \/ Crash
    PROVE  AutomationInv'
<1> USE DEF AutomationInv
<1>1. CASE ClockTick
  <2>1. clock' = clock + 1 /\ clock \in Times /\ clock' \in Times
    BY <1>1, AutomationAssumption DEF ClockTick, AutomationTypeOK, Times
  <2>2. UNCHANGED <<job, scheduler, fired, running, trigger, change, attempts, failed, jobFaults, toggles>>
    BY <1>1, Zenon DEF ClockTick, JobsUnchanged, DataUnchanged
  <2>3. scheduler.now \in 0 .. clock'
    BY <2>1 DEF AutomationTypeOK, Times
  <2>4. AutomationTypeOK'
    BY <2>1, <2>2, <2>3, Zenon DEF AutomationTypeOK
  <2>5. \A j \in Jobs : job[j].last \in Int
    BY DEF AutomationTypeOK, Times, Never
  <2>6. RunsCounted'
    BY <2>1, <2>2, <2>5 DEF RunsCounted, TicksUpTo, Times
  <2> QED
    BY <2>2, <2>4, <2>6, Zenon DEF PassIsCurrent
<1>2. CASE Crash
  <2>1. /\ UNCHANGED <<clock, job, fired, trigger, attempts, failed, toggles>>
        /\ jobFaults' \in 0 .. MaxJobFaults
    BY <1>2, AutomationAssumption DEF Crash, Fault, AutomationTypeOK
  <2>2. /\ scheduler'.pc = "sleep" /\ scheduler'.now = 0 /\ scheduler'.todo = {}
        /\ running' = [j \in Jobs |-> 0]
    BY <1>2, Zenon DEF Crash, Asleep
  <2>3. 0 \in 0 .. clock /\ \A j \in Jobs : 0 \in 0 .. fired[j]
    BY AutomationAssumption DEF AutomationTypeOK, Times
  <2>4. change' \in [Changes -> [pc : {"none", "select", "invoke", "end"}, todo : SUBSET Triggers]]
    BY <1>2, Zenon DEF Crash, AutomationTypeOK
  <2>5. AutomationTypeOK'
    BY <2>1, <2>2, <2>3, <2>4, Zenon DEF AutomationTypeOK
  <2> QED
    BY <2>1, <2>2, <2>5, Zenon DEF RunsCounted, TicksUpTo, PassIsCurrent
<1> QED
  BY <1>1, <1>2, Zenon

-----------------------------------------------------------------------------
(* Nothing ran yet.                                                        *)
LEMMA AutomationInitInv == AutomationInit => AutomationInv
<1> SUFFICES ASSUME AutomationInit PROVE AutomationInv
  BY Zenon
<1>1. 0 \in Times /\ 0 \in 0 .. clock /\ clock = 0 /\ 0 \in 0 .. MaxJobFaults /\ 0 \in 0 .. MaxToggles
  BY AutomationAssumption DEF AutomationInit, Times
<1>2. scheduler.pc = "sleep" /\ scheduler.now = 0 /\ scheduler.todo = {}
  BY Zenon DEF AutomationInit, Asleep
<1>3. AutomationTypeOK
  BY <1>1, <1>2, Zenon DEF AutomationInit, AutomationTypeOK
<1>4. \A j \in Jobs : job[j].last = Never /\ fired[j] = 0
  BY Zenon DEF AutomationInit
<1>5. RunsCounted
  BY <1>1, <1>4 DEF RunsCounted, Never
<1> QED
  BY <1>2, <1>3, <1>5, Zenon DEF AutomationInv, PassIsCurrent

(* Every step keeps the invariant.                                         *)
LEMMA AutomationStepInv == AutomationInv /\ [AutomationNext]_automationVars => AutomationInv'
<1> SUFFICES ASSUME AutomationInv, [AutomationNext]_automationVars PROVE AutomationInv'
  BY Zenon
<1>1. CASE UNCHANGED automationVars
  BY <1>1, Zenon DEF automationVars, AutomationInv, AutomationTypeOK, RunsCounted, TicksUpTo, PassIsCurrent
<1> QED
  BY <1>1, PassInv, FireInv, TasksInv, ClockInv, Zenon DEF AutomationNext, SchedulerStep

(* The types and the account that last_run_at keeps hold in every          *)
(* reachable state of the scheduler and the triggers.                      *)
THEOREM AutomationInvariance == AutomationSpec => [](AutomationInv /\ AutomationTypeOK)
<1>1. AutomationInv => AutomationTypeOK
  BY Zenon DEF AutomationInv
<1> QED
  BY <1>1, AutomationInitInv, AutomationStepInv, PTL DEF AutomationSpec

(* No tick runs a job twice, for any cron expression and however often the *)
(* server stops between storing last_run_at and the end of the run.        *)
THEOREM RunsAreBounded == AutomationSpec => []RunsBoundedByTicks
<1>1. AutomationInv => RunsBoundedByTicks
  <2> SUFFICES ASSUME AutomationInv, NEW j \in Jobs
               PROVE  fired[j] <= 1 + Cardinality(TicksUpTo(clock))
    BY Zenon DEF RunsBoundedByTicks, TicksUpTo
  <2>1. clock \in Times /\ Cardinality(TicksUpTo(clock)) \in Nat /\ fired[j] \in Nat
    BY TicksGrow, AutomationAssumption DEF AutomationInv, AutomationTypeOK, Times
  <2>2. CASE job[j].last = Never
    BY <2>1, <2>2 DEF AutomationInv, RunsCounted
  <2>3. CASE job[j].last # Never
    <3>1. job[j].last \in Times /\ job[j].last <= clock
          /\ fired[j] <= 1 + Cardinality(TicksUpTo(job[j].last))
      BY <2>3, Zenon DEF AutomationInv, RunsCounted, AutomationTypeOK
    <3> QED
      BY <2>1, <3>1, TicksGrow
  <2> QED
    BY <2>2, <2>3, Zenon
<1> QED
  BY <1>1, AutomationInvariance, PTL

-----------------------------------------------------------------------------
(* BackupRestore, for any number of callers of backup_db, of backups kept, *)
(* of commits, restores, stops and failed removals.                        *)

RunnerStates == [pc : {"idle", "vacuum", "list", "rotate", "bundle"},
                 full : BOOLEAN, name : Seconds, todo : SUBSET Seconds]

(* Backups are written by a running server only; files that are newer are  *)
(* named later.                                                            *)
Backups ==
    /\ \A n \in DOMAIN backups : n <= now
    /\ \A r \in Runners : runner[r].pc # "idle" => phase = "running"

(* A partial copy is only ever the main file, and the marker that makes    *)
(* the next start copy again is still there.                               *)
CopiesComplete ==
    /\ wal # Partial
    /\ \A n \in DOMAIN backups : backups[n] # Partial
    /\ file = Partial => marker # None /\ phase \in {"stopped", "preserve", "copy", "copying", "panicked"}
    /\ phase \in {"preserve", "copy", "copying"} => marker # None /\ Restorable

(* A marker whose restore was not applied is one that was scheduled, or    *)
(* that outlived its restore.                                              *)
RestoresPending ==
    /\ applied + (IF marker # None /\ phase # "unmark" THEN 1 ELSE 0) <= scheduled + outlived
    /\ outlived <= faults

Newer(n) == {k \in DOMAIN backups : k > n}

(* The list a rotation works from may be outdated, but it holds all that   *)
(* is older than any file on it, and such a file has Keep newer ones.      *)
RotationsSafe ==
    \A r \in Runners : runner[r].pc = "rotate" =>
        \A n \in runner[r].todo :
            /\ n < now
            /\ \A m \in DOMAIN backups : m < n => m \in runner[r].todo
            /\ n \in DOMAIN backups => Cardinality(Newer(n)) >= Keep

BackupInv == TypeOK /\ Backups /\ CopiesComplete /\ RestoresPending /\ RotationsSafe

-----------------------------------------------------------------------------
(* A set of seconds that is not empty has a least element, and Min is it.  *)
LEMMA OldestFirst ==
    ASSUME NEW S \in SUBSET Nat, S # {}
    PROVE  Min(S) \in S /\ \A y \in S : Min(S) <= y
<1>1. PICK x \in S : \A y \in S : ~(<<y, x>> \in OpToRel(<, Nat))
  BY NatLessThanWellFounded, WFMin, Zenon
<1>2. \A y \in S : x <= y
  <2> SUFFICES ASSUME NEW y \in S PROVE x <= y
    BY Zenon
  <2>1. ~(y < x)
    BY <1>1, Zenon DEF OpToRel
  <2> QED
    BY <2>1
<1> QED
  BY <1>2, Zenon DEF Min

(* The files of the backup directory are finitely many.                    *)
LEMMA CountingBackups ==
    ASSUME NEW S \in SUBSET Seconds
    PROVE  /\ Cardinality(S) \in Nat
           /\ \A T \in SUBSET S : Cardinality(T) \in Nat /\ Cardinality(T) <= Cardinality(S)
<1>1. IsFiniteSet(Seconds)
  BY BackupAssumption, FS_Interval DEF Seconds
<1>2. IsFiniteSet(S)
  BY <1>1, FS_Subset, Zenon
<1>3. \A T \in SUBSET S : IsFiniteSet(T) /\ Cardinality(T) <= Cardinality(S)
  BY <1>2, FS_Subset, Zenon
<1> QED
  BY <1>2, <1>3, FS_CardinalityType, Zenon

(* A step that writes no backup keeps what is known of the rotations.      *)
LEMMA NoBackupWritten ==
    ASSUME RotationsSafe, UNCHANGED <<backups, runner, now>>
    PROVE  RotationsSafe'
BY Zenon DEF RotationsSafe, Newer

(* No caller of backup_db outlives the server.                             *)
LEMMA RestingIsIdle == Resting \in RunnerStates /\ Resting.pc = "idle"
BY BackupAssumption DEF Resting, RunnerStates, Seconds

-----------------------------------------------------------------------------
(* Startup: the marker decides, the main file is preserved, and the copy   *)
(* begins with a truncated file while the marker is in place.              *)
LEMMA StartInv ==
    ASSUME BackupInv, Start \/ PreserveCurrent
    PROVE  BackupInv'
<1> USE DEF BackupInv
<1>1. /\ UNCHANGED <<backups, runner, now>>
      /\ UNCHANGED <<file, wal, foreign, bundles, marker, restored, scheduled, applied, outlived, faults>>
      /\ phase \notin {"unmark", "running"} /\ phase' \notin {"unmark", "running"}
  BY Zenon DEF Start, PreserveCurrent, disk, history
<1>2. TypeOK'
  BY <1>1, Zenon DEF Start, PreserveCurrent, TypeOK, history
<1>3. Backups'
  BY <1>1, Zenon DEF Backups
<1>4. CopiesComplete'
  BY <1>1, Zenon DEF Start, PreserveCurrent, CopiesComplete, Restorable
<1>5. RestoresPending'
  BY <1>1, Zenon DEF RestoresPending
<1> QED
  BY <1>1, <1>2, <1>3, <1>4, <1>5, NoBackupWritten, Zenon

(* The copy of the backup, in its two steps.                               *)
LEMMA CopyInv ==
    ASSUME BackupInv, CopyBackup
    PROVE  BackupInv'
<1> USE DEF BackupInv
<1>1. /\ UNCHANGED <<backups, runner, now>>
      /\ UNCHANGED <<wal, bundles, marker, preserved, scheduled, outlived, faults>>
      /\ phase # "running"
  BY Zenon DEF CopyBackup, history
<1>2. RotationsSafe' /\ Backups'
  BY <1>1, NoBackupWritten, Zenon DEF Backups
<1>3. CASE phase = "copy"
  <2>1. phase' = "copying" /\ file' = Partial /\ UNCHANGED <<foreign, restored, applied>>
    BY <1>3, Zenon DEF CopyBackup, history
  <2>2. TypeOK'
    BY <1>1, <2>1, Zenon DEF TypeOK, Content
  <2>3. CopiesComplete' /\ RestoresPending'
    BY <1>1, <1>3, <2>1, Zenon DEF CopiesComplete, Restorable, RestoresPending
  <2> QED
    BY <1>2, <2>2, <2>3, Zenon
<1>4. CASE phase = "copying"
  <2>1. /\ phase' = "unmark" /\ file' = backups[marker[2]] /\ foreign' \in BOOLEAN
        /\ restored' = backups[marker[2]] /\ applied' = applied + 1
    BY <1>4, Zenon DEF CopyBackup
  <2>2. marker # None /\ marker[2] \in DOMAIN backups
    BY <1>4, Zenon DEF CopiesComplete, Restorable
  <2>3. backups[marker[2]] \in Content /\ backups[marker[2]] # Partial
    BY <2>2, Zenon DEF TypeOK, CopiesComplete
  <2>4. TypeOK'
    BY <1>1, <2>1, <2>3 DEF TypeOK
  <2>5. CopiesComplete'
    BY <1>1, <2>1, <2>3, Zenon DEF CopiesComplete
  <2>6. RestoresPending'
    <3>1. applied + 1 <= scheduled + outlived /\ outlived <= faults
      BY <1>4, <2>2, Zenon DEF RestoresPending
    <3>2. applied' + 0 = applied + 1
      BY <2>1 DEF TypeOK
    <3> QED
      BY <1>1, <2>1, <3>1, <3>2, Zenon DEF RestoresPending
  <2> QED
    BY <1>2, <2>4, <2>5, <2>6, Zenon
<1> QED
  BY <1>3, <1>4, Zenon DEF CopyBackup

(* The marker is removed, or outlives its restore.                         *)
LEMMA RemoveMarkerInv ==
    ASSUME BackupInv, RemoveMarker
    PROVE  BackupInv'
<1> USE DEF BackupInv
<1>1. /\ UNCHANGED <<backups, runner, now>>
      /\ UNCHANGED <<file, wal, foreign, bundles, preserved, restored, scheduled, applied>>
      /\ phase = "unmark" /\ phase' = "open"
  BY Zenon DEF RemoveMarker
<1>2. RotationsSafe' /\ Backups'
  BY <1>1, NoBackupWritten, Zenon DEF Backups
<1>3. applied <= scheduled + outlived /\ outlived <= faults
  BY <1>1 DEF RestoresPending, TypeOK
<1>4. CASE marker' = None /\ UNCHANGED <<outlived, faults>>
  <2>1. TypeOK'
    BY <1>1, <1>4, Zenon DEF TypeOK
  <2>2. CopiesComplete'
    BY <1>1, <1>4, Zenon DEF CopiesComplete
  <2>3. RestoresPending'
    BY <1>1, <1>3, <1>4, Zenon DEF RestoresPending, TypeOK
  <2> QED
    BY <1>2, <2>1, <2>2, <2>3, Zenon
<1>5. CASE faults < MaxFaults /\ faults' = faults + 1 /\ outlived' = outlived + 1 /\ marker' = marker
  <2>1. faults' \in 0 .. MaxFaults /\ outlived' \in 0 .. MaxFaults /\ outlived' <= faults'
    BY <1>3, <1>5, BackupAssumption DEF TypeOK
  <2>2. TypeOK'
    BY <1>1, <1>5, <2>1, Zenon DEF TypeOK
  <2>3. CopiesComplete'
    BY <1>1, <1>5, Zenon DEF CopiesComplete
  <2>4. applied' + 1 <= scheduled' + outlived' /\ applied' \in Nat /\ scheduled' + outlived' \in Nat
    BY <1>1, <1>3, <1>5 DEF TypeOK
  <2>5. RestoresPending'
    BY <2>1, <2>4 DEF RestoresPending
  <2> QED
    BY <1>2, <2>2, <2>3, <2>5, Zenon
<1> QED
  BY <1>4, <1>5, Zenon DEF RemoveMarker

(* The database is opened: what is served is the main file or a -wal file. *)
LEMMA OpenInv ==
    ASSUME BackupInv, OpenDatabase
    PROVE  BackupInv'
<1> USE DEF BackupInv
<1>1. /\ UNCHANGED <<backups, runner, now>>
      /\ UNCHANGED <<file, bundles, marker, preserved, restored, scheduled, applied, outlived, faults>>
      /\ phase = "open" /\ phase' = "running" /\ foreign' = FALSE
      /\ wal' = wal \/ wal' = Torn
  BY Zenon DEF OpenDatabase, history
<1>2. TypeOK'
  BY <1>1, Zenon DEF TypeOK, Content
<1>3. Backups' /\ RotationsSafe'
  BY <1>1, NoBackupWritten, Zenon DEF Backups
<1>4. CopiesComplete' /\ RestoresPending'
  BY <1>1, BackupAssumption, Zenon DEF CopiesComplete, RestoresPending
<1> QED
  BY <1>2, <1>3, <1>4, Zenon

(* The process stops at any point; a marker that was not yet removed after *)
(* its restore outlives it.                                                *)
LEMMA StopInv ==
    ASSUME BackupInv, Stop
    PROVE  BackupInv'
<1> USE DEF BackupInv
<1>1. /\ UNCHANGED <<file, wal, foreign, backups, bundles, marker, now, preserved, restored, scheduled, applied>>
      /\ phase' = "stopped" /\ faults < MaxFaults /\ faults' = faults + 1
      /\ outlived' = IF phase = "unmark" THEN outlived + 1 ELSE outlived
      /\ runner' = [r \in Runners |-> Resting]
  BY Zenon DEF Stop, disk
<1>2. faults' \in 0 .. MaxFaults /\ outlived' \in 0 .. MaxFaults /\ outlived' <= faults'
  BY <1>1, BackupAssumption DEF RestoresPending, TypeOK
<1>3. runner' \in [Runners -> RunnerStates] /\ \A r \in Runners : runner'[r].pc = "idle"
  BY <1>1, RestingIsIdle, Zenon
<1>4. TypeOK'
  BY <1>1, <1>2, <1>3, Zenon DEF TypeOK, RunnerStates
<1>5. Backups' /\ RotationsSafe'
  BY <1>1, <1>3, Zenon DEF Backups, RotationsSafe
<1>6. CopiesComplete'
  <2>1. file = Partial => marker # None
    BY Zenon DEF CopiesComplete
  <2> QED
    BY <1>1, <2>1, Zenon DEF CopiesComplete
<1>7. RestoresPending'
  <2>1. applied \in Nat /\ scheduled \in Nat /\ outlived \in Nat
    BY DEF TypeOK
  <2>2. applied + (IF marker # None THEN 1 ELSE 0) <= scheduled + outlived'
    BY <1>1, <2>1 DEF RestoresPending
  <2> QED
    BY <1>1, <1>2, <2>2, Zenon DEF RestoresPending
<1> QED
  BY <1>4, <1>5, <1>6, <1>7, Zenon

(* A commit and a checkpoint: neither file becomes a partial one.          *)
LEMMA WriteInv ==
    ASSUME BackupInv, Commit \/ Checkpoint
    PROVE  BackupInv'
<1> USE DEF BackupInv
<1>1. /\ UNCHANGED <<backups, runner, now>> /\ phase = "running" /\ phase' = "running"
      /\ UNCHANGED <<foreign, bundles, marker, preserved, scheduled, applied, outlived, faults>>
      /\ restored' \in {None, restored}
  BY Zenon DEF Commit, Checkpoint, history
<1>2. file \in Content /\ file # Partial /\ wal \in Content \cup {None} /\ wal # Partial
  BY <1>1, Zenon DEF TypeOK, CopiesComplete
<1>3. Served \in Content /\ Served # Partial
  BY <1>2, Zenon DEF Served
<1>4. file' \in Content /\ file' # Partial /\ wal' \in Content \cup {None} /\ wal' # Partial
  <2>1. CASE Commit
    <3>1. file' = file
      BY <2>1, Zenon DEF Commit
    <3>2. CASE Served \in Nat
      <4>1. Served < MaxCommits /\ wal' = Served + 1
        BY <2>1, <3>2, Zenon DEF Commit
      <4>2. Served + 1 \in 0 .. MaxCommits /\ Served + 1 \in Nat
        BY <3>2, <4>1, BackupAssumption
      <4> QED
        BY <1>2, <3>1, <4>1, <4>2, BackupAssumption, Zenon DEF Content
    <3>3. CASE Served \notin Nat
      BY <1>2, <1>3, <2>1, <3>1, <3>3, Zenon DEF Commit
    <3> QED
      BY <3>2, <3>3, Zenon
  <2>2. CASE Checkpoint
    BY <1>2, <2>2, Zenon DEF Checkpoint
  <2> QED
    BY <2>1, <2>2, Zenon
<1>5. TypeOK'
  BY <1>1, <1>4, Zenon DEF TypeOK
<1>6. Backups' /\ RotationsSafe'
  BY <1>1, NoBackupWritten, Zenon DEF Backups
<1>7. CopiesComplete' /\ RestoresPending'
  BY <1>1, <1>4, Zenon DEF CopiesComplete, RestoresPending
<1> QED
  BY <1>5, <1>6, <1>7, Zenon

(* A restore is scheduled, or a scheduled one withdrawn; time passes.      *)
LEMMA RequestInv ==
    ASSUME BackupInv, (\E name \in Names : ScheduleRestore(name)) \/ ClearRestore \/ Tick
    PROVE  BackupInv'
<1> USE DEF BackupInv
<1>1. ASSUME NEW name \in Names, ScheduleRestore(name) PROVE BackupInv'
  <2>1. /\ UNCHANGED <<backups, runner, now>> /\ phase = "running" /\ phase' = "running"
        /\ UNCHANGED <<file, wal, foreign, bundles, preserved, restored, applied, outlived, faults>>
        /\ marker' = name /\ scheduled < MaxRequests /\ scheduled' = scheduled + 1
    BY <1>1, Zenon DEF ScheduleRestore
  <2>2. scheduled' \in 0 .. MaxRequests
    BY <2>1, BackupAssumption DEF TypeOK
  <2>3. TypeOK'
    BY <2>1, <2>2, Zenon DEF TypeOK
  <2>4. Backups' /\ RotationsSafe' /\ CopiesComplete'
    BY <2>1, NoBackupWritten, Zenon DEF Backups, CopiesComplete
  <2>5. RestoresPending'
    <3>1. applied \in Nat /\ scheduled \in Nat /\ outlived \in Nat
      BY DEF TypeOK
    <3>2. applied <= scheduled + outlived /\ outlived <= faults
      BY <3>1 DEF RestoresPending
    <3>3. applied + 1 <= scheduled' + outlived /\ applied + 0 <= scheduled' + outlived
      BY <2>1, <3>1, <3>2
    <3> QED
      BY <2>1, <3>2, <3>3, Zenon DEF RestoresPending
  <2> QED
    BY <2>3, <2>4, <2>5, Zenon
<1>2. CASE ClearRestore
  <2>1. /\ UNCHANGED <<backups, runner, now>> /\ phase = "running" /\ phase' = "running"
        /\ UNCHANGED <<file, wal, foreign, bundles, preserved, restored, scheduled, applied, outlived, faults>>
        /\ marker' = None
    BY <1>2, Zenon DEF ClearRestore, history
  <2>2. TypeOK'
    BY <2>1, Zenon DEF TypeOK
  <2>3. Backups' /\ RotationsSafe' /\ CopiesComplete'
    BY <2>1, NoBackupWritten, Zenon DEF Backups, CopiesComplete
  <2>4. RestoresPending'
    BY <2>1 DEF RestoresPending, TypeOK
  <2> QED
    BY <2>2, <2>3, <2>4, Zenon
<1>3. CASE Tick
  <2>1. /\ UNCHANGED <<phase, file, wal, foreign, backups, bundles, marker, runner>>
        /\ UNCHANGED <<preserved, restored, scheduled, applied, outlived, faults>>
        /\ now < MaxTime /\ now' = now + 1
    BY <1>3, Zenon DEF Tick, disk, history
  <2>2. now \in Nat /\ now' \in Seconds
    BY <2>1, BackupAssumption DEF TypeOK, Seconds
  <2>3. TypeOK'
    BY <2>1, <2>2, Zenon DEF TypeOK
  <2>4. \A n \in Seconds : (n <= now => n <= now') /\ (n < now => n < now')
    BY <2>1, <2>2 DEF Seconds
  <2>5. Backups'
    BY <2>1, <2>4, Zenon DEF Backups, TypeOK
  <2>6. CopiesComplete' /\ RestoresPending'
    BY <2>1, Zenon DEF CopiesComplete, Restorable, RestoresPending
  <2>7. RotationsSafe'
    BY <2>1, <2>4, Zenon DEF RotationsSafe, Newer, TypeOK
  <2> QED
    BY <2>3, <2>5, <2>6, <2>7, Zenon
<1> QED
  BY <1>1, <1>2, <1>3, Zenon

-----------------------------------------------------------------------------
(* A caller of backup_db steps: the others are where they were.            *)
LEMMA RunnerSteps ==
    ASSUME TypeOK, NEW r \in Runners, NEW new \in RunnerStates, runner' = [runner EXCEPT ![r] = new]
    PROVE  /\ runner' \in [Runners -> RunnerStates] /\ runner'[r] = new
           /\ \A q \in Runners \ {r} : runner'[q] = runner[q]
BY Zenon DEF TypeOK, RunnerStates

(* VACUUM INTO begins a file that is newer than all others.                *)
LEMMA VacuumIntoInv ==
    ASSUME BackupInv, NEW r \in Runners, NEW full \in BOOLEAN, VacuumInto(r, full)
    PROVE  BackupInv'
<1> USE DEF BackupInv
<1>1. /\ UNCHANGED <<phase, file, wal, foreign, bundles, marker, now, preserved, restored>>
      /\ UNCHANGED <<scheduled, applied, outlived, faults>>
      /\ phase = "running" /\ now \notin DOMAIN backups /\ backups' = Put(backups, now, Broken)
  BY Zenon DEF VacuumInto, history
<1>2. PICK new : new = [Resting EXCEPT !.pc = "vacuum", !.full = full, !.name = now]
  BY Zenon
<1>3. runner' = [runner EXCEPT ![r] = new]
  BY <1>2, Zenon DEF VacuumInto
<1>4. new \in RunnerStates /\ new.pc = "vacuum"
  BY <1>2, RestingIsIdle, Zenon DEF RunnerStates, TypeOK
<1>5. /\ runner' \in [Runners -> RunnerStates] /\ runner'[r] = new
      /\ \A q \in Runners \ {r} : runner'[q] = runner[q]
  BY <1>3, <1>4, RunnerSteps, Zenon
<1>6. /\ DOMAIN backups' = DOMAIN backups \cup {now}
      /\ \A n \in DOMAIN backups : backups'[n] = backups[n]
      /\ backups'[now] = Broken
  BY <1>1, Zenon DEF Put
<1>7. TypeOK'
  BY <1>1, <1>5, <1>6 DEF TypeOK, RunnerStates, Content
<1>8. Backups'
  BY <1>1, <1>6 DEF Backups, TypeOK, Seconds
<1>9. CopiesComplete' /\ RestoresPending'
  BY <1>1, <1>6, BackupAssumption, Zenon DEF CopiesComplete, RestoresPending
<1>10. RotationsSafe'
  <2> SUFFICES ASSUME NEW q \in Runners, runner'[q].pc = "rotate", NEW n \in runner'[q].todo
               PROVE  /\ n < now'
                      /\ \A m \in DOMAIN backups' : m < n => m \in runner'[q].todo
                      /\ n \in DOMAIN backups' => Cardinality(Newer(n)') >= Keep
    BY Zenon DEF RotationsSafe
  <2>1. runner'[q] = runner[q]
    BY <1>4, <1>5, Zenon
  <2>2. /\ n < now /\ n \in Seconds /\ now \in Seconds
        /\ \A m \in DOMAIN backups : m < n => m \in runner[q].todo
        /\ n \in DOMAIN backups => Cardinality(Newer(n)) >= Keep
    BY <2>1, Zenon DEF RotationsSafe, TypeOK
  <2>3. n # now /\ ~(now < n)
    BY <2>2, BackupAssumption DEF Seconds
  <2>4. Newer(n) \in SUBSET Newer(n)' /\ Newer(n)' \in SUBSET Seconds
    BY <1>6, <1>7, Zenon DEF Newer, TypeOK
  <2>5. /\ Cardinality(Newer(n)) \in Nat /\ Cardinality(Newer(n)') \in Nat
        /\ Cardinality(Newer(n)) <= Cardinality(Newer(n)')
    BY <2>4, CountingBackups, Zenon
  <2> QED
    BY <1>1, <1>6, <2>1, <2>2, <2>3, <2>5, BackupAssumption
<1> QED
  BY <1>7, <1>8, <1>9, <1>10, Zenon

(* The file is complete, if it is still there.                             *)
LEMMA VacuumDoneInv ==
    ASSUME BackupInv, NEW r \in Runners, VacuumDone(r)
    PROVE  BackupInv'
<1> USE DEF BackupInv
<1>1. /\ UNCHANGED <<phase, file, wal, foreign, bundles, marker, now, preserved, restored>>
      /\ UNCHANGED <<scheduled, applied, outlived, faults>>
      /\ runner[r].pc = "vacuum" /\ runner' = [runner EXCEPT ![r].pc = "list"]
  BY Zenon DEF VacuumDone, history
<1>2. phase = "running"
  BY <1>1, Zenon DEF Backups
<1>3. Served \in Content /\ Served # Partial
  BY <1>2, Zenon DEF Served, TypeOK, CopiesComplete
<1>4. /\ DOMAIN backups' = DOMAIN backups
      /\ \A n \in DOMAIN backups : backups'[n] \in Content /\ backups'[n] # Partial
  <2>1. \A n \in DOMAIN backups : backups[n] \in Content /\ backups[n] # Partial
    BY Zenon DEF TypeOK, CopiesComplete
  <2> QED
    BY <1>3, <2>1, Zenon DEF VacuumDone
<1>5. PICK new : new = [runner[r] EXCEPT !.pc = "list"]
  BY Zenon
<1>6. new \in RunnerStates /\ new.pc = "list" /\ runner' = [runner EXCEPT ![r] = new]
  BY <1>1, <1>5, Zenon DEF TypeOK, RunnerStates
<1>7. /\ runner' \in [Runners -> RunnerStates] /\ runner'[r] = new
      /\ \A q \in Runners \ {r} : runner'[q] = runner[q]
  BY <1>6, RunnerSteps, Zenon
<1>8. TypeOK'
  BY <1>1, <1>4, <1>7, Zenon DEF TypeOK, RunnerStates
<1>9. Backups' /\ CopiesComplete' /\ RestoresPending'
  BY <1>1, <1>2, <1>4, Zenon DEF Backups, CopiesComplete, RestoresPending
<1>10. RotationsSafe'
  <2>1. ASSUME NEW n PROVE Newer(n)' = Newer(n)
    BY <1>4, Zenon DEF Newer
  <2> QED
    BY <1>1, <1>4, <1>6, <1>7, <2>1, Zenon DEF RotationsSafe
<1> QED
  BY <1>8, <1>9, <1>10, Zenon

(* The list is drawn up: it holds what has Keep newer files.               *)
LEMMA ListInv ==
    ASSUME BackupInv, NEW r \in Runners, ListBackups(r)
    PROVE  BackupInv'
<1> USE DEF BackupInv
<1>1. /\ UNCHANGED <<phase, file, wal, foreign, backups, bundles, marker, now, preserved, restored>>
      /\ UNCHANGED <<scheduled, applied, outlived, faults>>
      /\ runner[r].pc = "list" /\ runner' = [runner EXCEPT ![r].pc = "rotate", ![r].todo = Excess]
  BY Zenon DEF ListBackups, disk, history
<1>2. phase = "running"
  BY <1>1, Zenon DEF Backups
<1>3. Excess \in SUBSET Seconds /\ DOMAIN backups \in SUBSET Seconds
  BY Zenon DEF Excess, TypeOK
<1>4. PICK new : new = [runner[r] EXCEPT !.pc = "rotate", !.todo = Excess]
  BY Zenon
<1>5. runner' = [runner EXCEPT ![r] = new]
  BY <1>1, <1>4, Zenon DEF TypeOK
<1>6. new \in RunnerStates /\ new.pc = "rotate" /\ new.todo = Excess
  <2>1. runner[r] \in RunnerStates
    BY Zenon DEF TypeOK, RunnerStates
  <2> QED
    BY <1>3, <1>4, <2>1, Zenon DEF RunnerStates
<1>7. /\ runner' \in [Runners -> RunnerStates] /\ runner'[r] = new
      /\ \A q \in Runners \ {r} : runner'[q] = runner[q]
  BY <1>5, <1>6, RunnerSteps, Zenon
<1>8. TypeOK'
  BY <1>1, <1>7, Zenon DEF TypeOK, RunnerStates
<1>9. Backups' /\ CopiesComplete' /\ RestoresPending'
  BY <1>1, <1>2, Zenon DEF Backups, CopiesComplete, RestoresPending
<1>10. ASSUME NEW n \in Excess
       PROVE  /\ n < now
              /\ \A m \in DOMAIN backups : m < n => m \in Excess
              /\ Cardinality(Newer(n)) >= Keep
  <2>1. Newer(n) \in SUBSET Seconds /\ Cardinality(Newer(n)) >= Keep /\ n \in DOMAIN backups
    BY <1>3, <1>10, Zenon DEF Newer, Excess
  <2>2. Newer(n) # {}
    BY <2>1, FS_EmptySet, BackupAssumption
  <2>3. PICK k \in DOMAIN backups : k > n
    BY <2>2, Zenon DEF Newer
  <2>4. n < now
    BY <1>3, <2>1, <2>3, BackupAssumption DEF Backups, Seconds, TypeOK
  <2>5. ASSUME NEW m \in DOMAIN backups, m < n PROVE m \in Excess
    <3>1. Newer(n) \in SUBSET Newer(m) /\ Newer(m) \in SUBSET Seconds
      BY <1>3, <2>1, <2>5, BackupAssumption DEF Newer, Seconds
    <3>2. /\ Cardinality(Newer(n)) \in Nat /\ Cardinality(Newer(m)) \in Nat
          /\ Cardinality(Newer(n)) <= Cardinality(Newer(m))
      BY <3>1, CountingBackups, Zenon
    <3>3. Cardinality(Newer(m)) >= Keep
      BY <2>1, <3>2, BackupAssumption
    <3> QED
      BY <3>3, Zenon DEF Excess, Newer
  <2> QED
    BY <2>1, <2>4, <2>5, Zenon
<1>11. RotationsSafe'
  <2> SUFFICES ASSUME NEW q \in Runners, runner'[q].pc = "rotate", NEW n \in runner'[q].todo
               PROVE  /\ n < now'
                      /\ \A m \in DOMAIN backups' : m < n => m \in runner'[q].todo
                      /\ n \in DOMAIN backups' => Cardinality(Newer(n)') >= Keep
    BY Zenon DEF RotationsSafe
  <2>1. Newer(n)' = Newer(n)
    BY <1>1, Zenon DEF Newer
  <2>2. CASE q = r
    BY <1>1, <1>6, <1>7, <1>10, <2>1, <2>2, Zenon
  <2>3. CASE q # r
    BY <1>1, <1>7, <2>1, <2>3, Zenon DEF RotationsSafe
  <2> QED
    BY <2>2, <2>3, Zenon
<1> QED
  BY <1>8, <1>9, <1>11, Zenon

(* A file that a rotation removes is the oldest there is, whatever others  *)
(* removed since the list was drawn up, and Keep newer ones stay.          *)
LEMMA OldestRemoved ==
    ASSUME BackupInv, NEW r \in Runners, RotateOne(r)
    PROVE  \/ /\ backups' = backups
              /\ runner' = [runner EXCEPT ![r] = Resting]
           \/ \E n \in DOMAIN backups :
                 /\ n \in Seconds /\ \A m \in DOMAIN backups : n <= m
                 /\ Cardinality(Newer(n)) >= Keep
                 /\ backups' = [k \in DOMAIN backups \ {n} |-> backups[k]]
                 /\ runner' = [runner EXCEPT ![r].todo = @ \ {n}]
<1> USE DEF BackupInv
<1>1. runner[r].pc = "rotate" /\ runner[r].todo # {}
  BY Zenon DEF RotateOne
<1>2. runner[r].todo \in SUBSET Nat /\ runner[r].todo \in SUBSET Seconds
  BY BackupAssumption DEF TypeOK, Seconds
<1>3. PICK n : n = Min(runner[r].todo)
  BY Zenon
<1>4. n \in runner[r].todo /\ \A y \in runner[r].todo : n <= y
  BY <1>1, <1>2, <1>3, OldestFirst, Zenon
<1>5. CASE n \in DOMAIN backups
  <2>1. /\ backups' = [k \in DOMAIN backups \ {n} |-> backups[k]]
        /\ runner' = [runner EXCEPT ![r].todo = @ \ {n}]
    BY <1>3, <1>5, Zenon DEF RotateOne
  <2>2. /\ \A m \in DOMAIN backups : m < n => m \in runner[r].todo
        /\ Cardinality(Newer(n)) >= Keep
    BY <1>1, <1>4, <1>5, Zenon DEF RotationsSafe
  <2>3. \A m \in DOMAIN backups : n <= m
    <3>1. \A m \in DOMAIN backups : m \in Nat /\ n \in Nat
      BY <1>2, <1>4, BackupAssumption DEF TypeOK, Seconds
    <3> QED
      BY <1>4, <2>2, <3>1
  <2> QED
    BY <1>2, <1>4, <1>5, <2>1, <2>2, <2>3, Zenon
<1>6. CASE n \notin DOMAIN backups
  BY <1>3, <1>6, Zenon DEF RotateOne
<1> QED
  BY <1>5, <1>6, Zenon

(* The rotation removes a file, or ends because another caller did.        *)
LEMMA RotateInv ==
    ASSUME BackupInv, NEW r \in Runners, RotateOne(r)
    PROVE  BackupInv'
<1> USE DEF BackupInv
<1>1. /\ UNCHANGED <<phase, file, wal, foreign, bundles, marker, now, preserved, restored>>
      /\ UNCHANGED <<scheduled, applied, outlived, faults>> /\ runner[r].pc = "rotate"
  BY Zenon DEF RotateOne, history
<1>2. phase = "running"
  BY <1>1, Zenon DEF Backups
<1>3. CASE backups' = backups /\ runner' = [runner EXCEPT ![r] = Resting]
  <2>1. /\ runner' \in [Runners -> RunnerStates] /\ runner'[r] = Resting
        /\ \A q \in Runners \ {r} : runner'[q] = runner[q]
    BY <1>3, RunnerSteps, RestingIsIdle, Zenon
  <2>2. TypeOK'
    BY <1>1, <1>3, <2>1, Zenon DEF TypeOK, RunnerStates
  <2>3. Backups' /\ CopiesComplete' /\ RestoresPending'
    BY <1>1, <1>2, <1>3, Zenon DEF Backups, CopiesComplete, RestoresPending
  <2>4. RotationsSafe'
    BY <1>1, <1>3, <2>1, RestingIsIdle, Zenon DEF RotationsSafe, Newer
  <2> QED
    BY <2>2, <2>3, <2>4, Zenon
<1>4. ASSUME NEW n \in DOMAIN backups, n \in Seconds, \A m \in DOMAIN backups : n <= m,
             backups' = [k \in DOMAIN backups \ {n} |-> backups[k]],
             runner' = [runner EXCEPT ![r].todo = @ \ {n}]
      PROVE  BackupInv'
  <2>1. PICK new : new = [runner[r] EXCEPT !.todo = @ \ {n}]
    BY Zenon
  <2>2. /\ new \in RunnerStates /\ new.pc = "rotate" /\ new.todo = runner[r].todo \ {n}
        /\ runner' = [runner EXCEPT ![r] = new]
    <3>1. runner[r] \in RunnerStates
      BY Zenon DEF TypeOK, RunnerStates
    <3> QED
      BY <1>1, <1>4, <2>1, <3>1, Zenon DEF RunnerStates, TypeOK
  <2>3. /\ runner' \in [Runners -> RunnerStates] /\ runner'[r] = new
        /\ \A q \in Runners \ {r} : runner'[q] = runner[q]
    BY <2>2, RunnerSteps, Zenon
  <2>4. DOMAIN backups' = DOMAIN backups \ {n} /\ \A k \in DOMAIN backups' : backups'[k] = backups[k]
    BY <1>4, Zenon
  <2>5. TypeOK'
    BY <1>1, <2>3, <2>4, Zenon DEF TypeOK, RunnerStates
  <2>6. Backups' /\ CopiesComplete' /\ RestoresPending'
    BY <1>1, <1>2, <2>4, Zenon DEF Backups, CopiesComplete, RestoresPending
  <2>7. ASSUME NEW k \in DOMAIN backups' PROVE Newer(k)' = Newer(k)
    <3>1. ~(n > k) /\ n # k
      BY <1>4, <2>4, <2>5, BackupAssumption DEF TypeOK, Seconds
    <3> QED
      BY <2>4, <3>1, Zenon DEF Newer
  <2>8. RotationsSafe'
    <3> SUFFICES ASSUME NEW q \in Runners, runner'[q].pc = "rotate", NEW k \in runner'[q].todo
                 PROVE  /\ k < now'
                        /\ \A m \in DOMAIN backups' : m < k => m \in runner'[q].todo
                        /\ k \in DOMAIN backups' => Cardinality(Newer(k)') >= Keep
      BY Zenon DEF RotationsSafe
    <3>1. runner[q].pc = "rotate" /\ k \in runner[q].todo
      BY <1>1, <2>2, <2>3, Zenon
    <3>2. /\ k < now /\ \A m \in DOMAIN backups : m < k => m \in runner[q].todo
          /\ k \in DOMAIN backups => Cardinality(Newer(k)) >= Keep
      BY <3>1, Zenon DEF RotationsSafe
    <3>3. \A m \in DOMAIN backups' : m \in DOMAIN backups /\ m # n
      BY <2>4, Zenon
    <3>4. \A m \in DOMAIN backups' : m < k => m \in runner'[q].todo
      BY <2>2, <2>3, <3>2, <3>3, Zenon
    <3> QED
      BY <1>1, <2>7, <3>2, <3>3, <3>4, Zenon
  <2> QED
    BY <2>5, <2>6, <2>8, Zenon
<1> QED
  BY <1>3, <1>4, OldestRemoved, Zenon

(* The backup is done, and with it a bundle.                               *)
LEMMA BundleInv ==
    ASSUME BackupInv, NEW r \in Runners, RotationDone(r) \/ PackBundle(r)
    PROVE  BackupInv'
<1> USE DEF BackupInv
<1>1. /\ UNCHANGED <<phase, file, wal, foreign, backups, marker, now, preserved, restored>>
      /\ UNCHANGED <<scheduled, applied, outlived, faults>>
      /\ runner[r].pc \in {"rotate", "bundle"} /\ bundles' \subseteq bundles \cup {now}
  BY Zenon DEF RotationDone, PackBundle, disk, history
<1>2. phase = "running"
  BY <1>1, Zenon DEF Backups
<1>3. \E new \in RunnerStates : new.pc \in {"idle", "bundle"} /\ runner' = [runner EXCEPT ![r] = new]
  <2>1. runner[r] \in RunnerStates
    BY Zenon DEF TypeOK, RunnerStates
  <2>2. [runner[r] EXCEPT !.pc = "bundle"] \in RunnerStates /\ [runner[r] EXCEPT !.pc = "bundle"].pc = "bundle"
    BY <2>1, Zenon DEF RunnerStates
  <2>3. CASE RotationDone(r) /\ runner[r].full
    <3>1. runner' = [runner EXCEPT ![r] = [runner[r] EXCEPT !.pc = "bundle"]]
      BY <2>3, Zenon DEF RotationDone
    <3> QED
      BY <2>2, <3>1, Zenon
  <2>4. CASE PackBundle(r) \/ ~runner[r].full
    BY <2>4, RestingIsIdle, Zenon DEF RotationDone, PackBundle
  <2> QED
    BY <2>3, <2>4, Zenon
<1>4. PICK new \in RunnerStates : new.pc \in {"idle", "bundle"} /\ runner' = [runner EXCEPT ![r] = new]
  BY <1>3, Zenon
<1>5. /\ runner' \in [Runners -> RunnerStates] /\ runner'[r] = new
      /\ \A q \in Runners \ {r} : runner'[q] = runner[q]
  BY <1>4, RunnerSteps, Zenon
<1>6. TypeOK'
  BY <1>1, <1>5, Zenon DEF TypeOK, RunnerStates
<1>7. Backups' /\ CopiesComplete' /\ RestoresPending'
  BY <1>1, <1>2, Zenon DEF Backups, CopiesComplete, RestoresPending
<1>8. RotationsSafe'
  BY <1>1, <1>4, <1>5, Zenon DEF RotationsSafe, Newer
<1> QED
  BY <1>6, <1>7, <1>8, Zenon

-----------------------------------------------------------------------------
(* A fresh installation: no backup, no marker.                             *)
LEMMA InitInv == Init => BackupInv
<1> SUFFICES ASSUME Init PROVE BackupInv
  BY Zenon
<1>1. DOMAIN backups = {}
  BY DEF Init
<1>2. runner \in [Runners -> RunnerStates] /\ \A r \in Runners : runner[r].pc = "idle"
  BY RestingIsIdle, Zenon DEF Init
<1>3. 0 \in Content /\ 0 \in Seconds /\ 0 # Partial /\ None # Partial
  BY BackupAssumption DEF Content, Seconds
<1>4. TypeOK
  <2>1. /\ phase = "stopped" /\ file = 0 /\ wal = None /\ foreign = FALSE /\ bundles = {} /\ marker = None
        /\ now = 0 /\ preserved = None /\ restored = None
        /\ scheduled = 0 /\ applied = 0 /\ outlived = 0 /\ faults = 0
    BY Zenon DEF Init
  <2>2. 0 \in 0 .. MaxRequests /\ 0 \in 0 .. MaxFaults
    BY BackupAssumption
  <2> QED
    BY <1>1, <1>2, <1>3, <2>1, <2>2, Zenon DEF TypeOK, RunnerStates
<1>5. Backups /\ CopiesComplete /\ RestoresPending /\ RotationsSafe
  BY <1>1, <1>2, <1>3 DEF Init, Backups, CopiesComplete, RestoresPending, RotationsSafe
<1> QED
  BY <1>4, <1>5, Zenon DEF BackupInv

(* Every step keeps the invariant.                                         *)
LEMMA StepInv == BackupInv /\ [Next]_vars => BackupInv'
<1> SUFFICES ASSUME BackupInv, [Next]_vars PROVE BackupInv'
  BY Zenon
<1>1. ASSUME NEW r \in Runners,
             \/ \E full \in BOOLEAN : VacuumInto(r, full)
             \/ VacuumDone(r) \/ ListBackups(r) \/ RotateOne(r) \/ RotationDone(r) \/ PackBundle(r)
      PROVE  BackupInv'
  BY <1>1, VacuumIntoInv, VacuumDoneInv, ListInv, RotateInv, BundleInv, Zenon
<1>2. CASE UNCHANGED vars
  BY <1>2 DEF vars, BackupInv, TypeOK, Backups, CopiesComplete, Restorable, RestoresPending,
              RotationsSafe, Newer
<1> QED
  BY <1>1, <1>2, StartInv, CopyInv, RemoveMarkerInv, OpenInv, StopInv, WriteInv, RequestInv, Zenon DEF Next

(* BackupInv is inductive: commits, backups, scheduled restores, startups  *)
(* and stops between any two of their file operations keep it.             *)
THEOREM BackupInvariance == Spec => [](BackupInv /\ TypeOK)
<1>1. BackupInv => TypeOK
  BY Zenon DEF BackupInv
<1> QED
  BY <1>1, InitInv, StepInv, PTL DEF Spec

(* No interrupted copy is ever opened: wherever a stop cuts a restore      *)
(* short, the marker is still there and the next start copies again.       *)
THEOREM InterruptedCopyIsRepeated == Spec => []ServedFileComplete
<1>1. BackupInv => ServedFileComplete
  BY Zenon DEF BackupInv, CopiesComplete, ServedFileComplete
<1> QED
  BY <1>1, BackupInvariance, PTL

(* Restores are applied no more often than they were scheduled or their    *)
(* marker outlived them.                                                   *)
THEOREM RestoresAreBounded == Spec => []RestoresBounded
<1>1. BackupInv => RestoresBounded
  BY DEF BackupInv, RestoresPending, RestoresBounded, TypeOK
<1> QED
  BY <1>1, BackupInvariance, PTL

(* The rotation leaves the newest Keep backups alone, for any number of    *)
(* concurrent callers working from outdated lists.                         *)
THEOREM RotationKeepsNewest == Spec => NewestBackupsKept
<1> DEFINE Kept == \A n \in DOMAIN backups \ DOMAIN backups' :
                      Cardinality({k \in DOMAIN backups' : k > n}) >= Keep
<1>1. BackupInv /\ [Next]_vars => [Kept]_vars
  <2> SUFFICES ASSUME BackupInv, Next PROVE Kept
    BY Zenon
  <2>1. ASSUME NEW r \in Runners, RotateOne(r) PROVE Kept
    <3>1. CASE backups' = backups
      BY <3>1, Zenon
    <3>2. ASSUME NEW n \in DOMAIN backups, n \in Seconds, Cardinality(Newer(n)) >= Keep,
                 backups' = [k \in DOMAIN backups \ {n} |-> backups[k]]
          PROVE  Kept
      <4>1. DOMAIN backups' = DOMAIN backups \ {n}
        BY <3>2, Zenon
      <4>2. {k \in DOMAIN backups' : k > n} = Newer(n)
        BY <3>2, <4>1, BackupAssumption DEF Newer, Seconds
      <4> QED
        BY <3>2, <4>1, <4>2, Zenon
    <3> QED
      BY <2>1, <3>1, <3>2, OldestRemoved, Zenon
  <2>2. ASSUME NEW r \in Runners,
               \/ \E full \in BOOLEAN : VacuumInto(r, full)
               \/ VacuumDone(r) \/ ListBackups(r) \/ RotationDone(r) \/ PackBundle(r)
        PROVE  DOMAIN backups \subseteq DOMAIN backups'
    BY <2>2, Zenon DEF VacuumInto, VacuumDone, ListBackups, RotationDone, PackBundle, Put, disk
  <2>3. ASSUME \/ Start \/ PreserveCurrent \/ CopyBackup \/ RemoveMarker \/ OpenDatabase \/ Stop
               \/ Commit \/ Checkpoint \/ (\E name \in Names : ScheduleRestore(name))
               \/ ClearRestore \/ Tick
        PROVE  backups' = backups
    BY <2>3, Zenon DEF Start, PreserveCurrent, CopyBackup, RemoveMarker, OpenDatabase, Stop, Commit, Checkpoint,
                ScheduleRestore, ClearRestore, Tick, disk
  <2> QED
    BY <2>1, <2>2, <2>3, Zenon DEF Next
<1> QED
  BY <1>1, BackupInvariance, PTL DEF Spec, NewestBackupsKept
=============================================================================
