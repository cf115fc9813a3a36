---------------------- MODULE FunctionInvocationsProofs ----------------------
(***************************************************************************)
(* Proofs about FunctionInvocations for any number of invocations, permits,*)
(* faults and disconnecting clients and any limits.                        *)
(***************************************************************************)
EXTENDS FunctionInvocations, FiniteSetTheorems, TLAPS

(* The time a leaf may take. *)
USE SMTT(30)

InvocationStates ==
    [pc : Steps, mode : {"sync", "async"},
     status : {"none", "deleted"} \cup Pending \cup Settled,
     version : Versions, parent : Invocations \cup {NoParent},
     retry : 0 .. Cardinality(Invocations), process : BOOLEAN]

Unlogged == {"new", "count", "quota", "insert"}
Started == {i \in Invocations : inv[i].pc # "new"}
Holders == {i \in Invocations : inv[i].pc \in Holding}
Billed == {i \in Invocations : inv[i].status # "none" /\ inv[i].pc # "record"} \ unbilled

(* A row exists from its insertion on, and it is pending while a task has  *)
(* it; a process is attended, or its task was cut short.                   *)
TaskOK(i) ==
    /\ inv[i].pc \in Unlogged => inv[i].status = "none"
    /\ inv[i].pc \in Unlogged \cup {"record"} => i \notin unbilled
    /\ inv[i].pc \in {"record", "start", "wait"} \cup Holding => inv[i].status \in Pending \cup {"deleted"}
    /\ inv[i].process => \/ inv[i].pc \in {"run", "drain"}
                         \/ inv[i].pc = "end" /\ (i \in lost \/ inv[i].status = "deleted")

TasksOK == \A i \in Invocations : TaskOK(i)

(* A chain of retries is no longer than the invocations begun.             *)
RetriesBounded ==
    \A i \in Invocations :
        IF inv[i].pc = "new" THEN inv[i].retry = 0 ELSE inv[i].retry < Cardinality(Started)

(* Every permit is free or held by one task.                               *)
PermitsCounted == free + Cardinality(Holders) = Permits

(* The counter holds what was recorded, for each row at most once.         *)
UsageCounted == used = before + Cardinality(Billed)

(* While admissions do not overlap, what an admission has checked stays    *)
(* true until its row is inserted.                                         *)
AdmissionsExclusive ==
    ~overlapped => \A i \in Invocations : inv[i].pc \in Admission =>
        /\ \A j \in Invocations : inv[j].pc \in Admission => j = i
        /\ inv[i].pc \in {"quota", "insert"} /\ inv[i].parent = NoParent => Cardinality(window) < RateLimit
        /\ inv[i].pc = "insert" => used + 1 <= MonthlyLimit

InvocationsInv ==
    /\ InvocationsTypeOK
    /\ TasksOK
    /\ RetriesBounded
    /\ PermitsCounted
    /\ UsageCounted
    /\ AdmissionsExclusive

-----------------------------------------------------------------------------
(* Counting a set of invocations that one invocation joins or leaves.      *)
LEMMA CountingInvocations ==
    ASSUME NEW S \in SUBSET Invocations
    PROVE  /\ IsFiniteSet(S)
           /\ Cardinality(S) \in Nat /\ Cardinality(S) <= Cardinality(Invocations)
           /\ Cardinality(Invocations) \in Nat
           /\ \A i \in Invocations :
                /\ Cardinality(S \cup {i}) = IF i \in S THEN Cardinality(S) ELSE Cardinality(S) + 1
                /\ Cardinality(S \ {i}) = IF i \in S THEN Cardinality(S) - 1 ELSE Cardinality(S)
           /\ \A T \in SUBSET S : Cardinality(T) <= Cardinality(S)
<1>1. IsFiniteSet(Invocations) /\ IsFiniteSet(S)
  BY InvocationsAssumption, FS_Subset, Zenon
<1>2. Cardinality(S) \in Nat /\ Cardinality(Invocations) \in Nat
  BY <1>1, FS_CardinalityType, Zenon
<1>3. \A T \in SUBSET S : Cardinality(T) <= Cardinality(S)
  BY <1>1, FS_Subset, Zenon
<1>4. ASSUME NEW i \in Invocations
      PROVE  /\ Cardinality(S \cup {i}) = IF i \in S THEN Cardinality(S) ELSE Cardinality(S) + 1
             /\ Cardinality(S \ {i}) = IF i \in S THEN Cardinality(S) - 1 ELSE Cardinality(S)
  BY <1>1, FS_AddElement, FS_RemoveElement, Zenon
<1> QED
  BY <1>1, <1>2, <1>3, <1>4, FS_Subset, Zenon

(* A step that changes the task, the row or the process of i only.         *)
OnlyChanges(i) ==
    /\ inv' \in [Invocations -> InvocationStates]
    /\ \A j \in Invocations \ {i} : inv'[j] = inv[j]

(* The sets that are counted, after such a step.                           *)
LEMMA CountedSets ==
    ASSUME NEW i \in Invocations, OnlyChanges(i),
           unbilled \subseteq unbilled', unbilled' \subseteq unbilled \cup {i}
    PROVE  /\ Started' = IF inv'[i].pc # "new" THEN Started \cup {i} ELSE Started \ {i}
           /\ Holders' = IF inv'[i].pc \in Holding THEN Holders \cup {i} ELSE Holders \ {i}
           /\ Billed' = IF /\ inv'[i].status # "none" /\ inv'[i].pc # "record"
                           /\ i \notin unbilled'
                        THEN Billed \cup {i} ELSE Billed \ {i}
<1>1. Started' = IF inv'[i].pc # "new" THEN Started \cup {i} ELSE Started \ {i}
  BY Zenon DEF OnlyChanges, Started
<1>2. Holders' = IF inv'[i].pc \in Holding THEN Holders \cup {i} ELSE Holders \ {i}
  BY DEF OnlyChanges, Holders
<1>3. Billed' = IF /\ inv'[i].status # "none" /\ inv'[i].pc # "record"
                   /\ i \notin unbilled'
                THEN Billed \cup {i} ELSE Billed \ {i}
  BY Zenon DEF OnlyChanges, Billed
<1> QED
  BY <1>1, <1>2, <1>3, Zenon

(* One task steps: what it must show of its own state for the invariant to *)
(* be kept for all.                                                        *)
StepOf(i) ==
    /\ OnlyChanges(i)
    /\ target' \in [exists : BOOLEAN, active : Versions] /\ before' = before
    /\ unbilled \subseteq unbilled' /\ unbilled' \subseteq unbilled \cup {i}
    /\ lost \subseteq lost' /\ lost' \subseteq Invocations
    /\ window' \subseteq window \cup {i} /\ (i \in window' \ window => inv[i].pc = "insert")
    /\ faults' \in 0 .. MaxFaults /\ disconnects' \in 0 .. MaxDisconnects
    /\ TaskOK(i)'
    /\ inv[i].pc # "new" => inv'[i].pc # "new"
    /\ inv'[i].parent = inv[i].parent /\ inv'[i].retry = inv[i].retry
    /\ inv'[i].pc \in Admission => inv[i].pc \in Admission
    /\ overlapped' = overlapped

(* The permit goes with the task's step.                                   *)
PermitOf(i) ==
    \/ free' = free /\ (inv[i].pc \in Holding <=> inv'[i].pc \in Holding)
    \/ free' = free + 1 /\ inv[i].pc \in Holding /\ inv'[i].pc \notin Holding
    \/ free > 0 /\ free' = free - 1 /\ inv[i].pc \notin Holding /\ inv'[i].pc \in Holding

(* Usage is recorded at "record" only.                                     *)
UsageOf(i) ==
    /\ i \in Billed => inv'[i].status # "none" /\ inv'[i].pc # "record" /\ i \notin unbilled'
    /\ IF i \notin Billed /\ inv'[i].status # "none" /\ inv'[i].pc # "record" /\ i \notin unbilled'
       THEN inv[i].pc = "record" /\ used' = used + 1
       ELSE used' = used

(* What an admission has checked when it goes on.                          *)
ChecksOf(i) ==
    ~overlapped =>
        /\ inv'[i].pc \in {"quota", "insert"} /\ inv[i].parent = NoParent => Cardinality(window') < RateLimit
        /\ inv'[i].pc = "insert" => used' + 1 <= MonthlyLimit

(* The permits and the counter follow the sets they count.                 *)
LEMMA CountersFollow ==
    ASSUME InvocationsInv, NEW i \in Invocations, StepOf(i), PermitOf(i), UsageOf(i)
    PROVE  /\ PermitsCounted' /\ UsageCounted'
           /\ free' \in 0 .. Permits /\ used' \in before' .. before' + Cardinality(Invocations)
<1>1. /\ Holders \in SUBSET Invocations /\ Billed \in SUBSET Invocations
      /\ Holders' \in SUBSET Invocations /\ Billed' \in SUBSET Invocations
  BY Zenon DEF Holders, Billed
<1>2. /\ Cardinality(Holders) \in Nat /\ Cardinality(Billed) \in Nat
      /\ Cardinality(Holders') \in Nat
      /\ Cardinality(Billed') \in Nat /\ Cardinality(Billed') <= Cardinality(Invocations)
      /\ Cardinality(Invocations) \in Nat
  BY <1>1, CountingInvocations, Zenon
<1>3. /\ Cardinality(Holders \cup {i}) = IF i \in Holders THEN Cardinality(Holders) ELSE Cardinality(Holders) + 1
      /\ Cardinality(Holders \ {i}) = IF i \in Holders THEN Cardinality(Holders) - 1 ELSE Cardinality(Holders)
      /\ Cardinality(Billed \cup {i}) = IF i \in Billed THEN Cardinality(Billed) ELSE Cardinality(Billed) + 1
      /\ Cardinality(Billed \ {i}) = IF i \in Billed THEN Cardinality(Billed) - 1 ELSE Cardinality(Billed)
  BY <1>1, CountingInvocations, Zenon
<1>4. /\ Holders' = IF inv'[i].pc \in Holding THEN Holders \cup {i} ELSE Holders \ {i}
      /\ Billed' = IF /\ inv'[i].status # "none" /\ inv'[i].pc # "record"
                      /\ i \notin unbilled'
                   THEN Billed \cup {i} ELSE Billed \ {i}
  BY CountedSets, Zenon DEF StepOf
<1>5. free \in Nat /\ Permits \in Nat /\ free + Cardinality(Holders) = Permits
  BY InvocationsAssumption DEF InvocationsInv, InvocationsTypeOK, PermitsCounted
<1>6. i \in Holders <=> inv[i].pc \in Holding
  BY Zenon DEF Holders
<1>7. free' + Cardinality(Holders') = Permits
  BY <1>2, <1>3, <1>4, <1>5, <1>6 DEF PermitOf
<1>8. free' \in Nat
  BY <1>5 DEF PermitOf
<1>9. free' \in 0 .. Permits
  BY <1>2, <1>5, <1>7, <1>8
<1>10. /\ before' = before /\ before \in Nat /\ used = before + Cardinality(Billed)
  BY InvocationsAssumption DEF InvocationsInv, InvocationsTypeOK, UsageCounted, StepOf
<1>11. i \in Billed => inv'[i].status # "none" /\ inv'[i].pc # "record" /\ i \notin unbilled'
  BY Zenon DEF UsageOf
<1>12. used' = before' + Cardinality(Billed')
  BY <1>2, <1>3, <1>4, <1>10, <1>11 DEF UsageOf
<1>13. used' \in before' .. before' + Cardinality(Invocations)
  BY <1>2, <1>10, <1>12
<1> QED
  BY <1>7, <1>9, <1>12, <1>13, Zenon DEF PermitsCounted, UsageCounted

(* Chains of retries grow with the invocations begun.                      *)
LEMMA RetriesFollow ==
    ASSUME InvocationsInv, NEW i \in Invocations, StepOf(i), inv[i].pc # "new" \/ inv'[i].pc = "new"
    PROVE  RetriesBounded'
<1>1. Started' = Started
  BY CountedSets DEF StepOf, Started
<1>2. \A j \in Invocations : inv'[j].pc = "new" <=> inv[j].pc = "new"
  BY Zenon DEF StepOf, OnlyChanges
<1>3. \A j \in Invocations : inv'[j].retry = inv[j].retry
  BY Zenon DEF StepOf, OnlyChanges
<1> QED
  BY <1>1, <1>2, <1>3, Zenon DEF InvocationsInv, RetriesBounded

(* The tasks of the others are as they were.                               *)
LEMMA OthersFollow ==
    ASSUME InvocationsInv, NEW i \in Invocations, StepOf(i)
    PROVE  TasksOK'
<1> SUFFICES ASSUME NEW j \in Invocations PROVE TaskOK(j)'
  BY Zenon DEF TasksOK
<1>1. CASE j = i
  BY <1>1, Zenon DEF StepOf
<1>2. CASE j # i
  <2>1. inv'[j] = inv[j] /\ (j \in unbilled' <=> j \in unbilled) /\ (j \in lost => j \in lost')
    BY <1>2, Zenon DEF StepOf, OnlyChanges
  <2> QED
    BY <2>1, Zenon DEF InvocationsInv, TasksOK, TaskOK
<1> QED
  BY <1>1, <1>2, Zenon

(* An admission goes on alone, or not at all.                              *)
LEMMA AdmissionFollows ==
    ASSUME InvocationsInv, NEW i \in Invocations, StepOf(i), UsageOf(i), ChecksOf(i)
    PROVE  AdmissionsExclusive'
<1> SUFFICES ASSUME ~overlapped, NEW j \in Invocations, inv'[j].pc \in Admission
             PROVE  /\ \A k \in Invocations : inv'[k].pc \in Admission => k = j
                    /\ inv'[j].pc \in {"quota", "insert"} /\ inv'[j].parent = NoParent
                         => Cardinality(window') < RateLimit
                    /\ inv'[j].pc = "insert" => used' + 1 <= MonthlyLimit
  BY Zenon DEF AdmissionsExclusive, StepOf
<1>1. \A k \in Invocations : inv'[k].pc \in Admission => inv[k].pc \in Admission
  BY Zenon DEF StepOf, OnlyChanges
<1>2. \A k \in Invocations : inv'[k].pc \in Admission => k = j
  BY <1>1, Zenon DEF InvocationsInv, AdmissionsExclusive
<1>3. CASE j = i
  BY <1>2, <1>3, Zenon DEF ChecksOf, StepOf
<1>4. CASE j # i
  <2>1. inv'[j] = inv[j] /\ inv[i].pc \notin Admission
    BY <1>1, <1>4, Zenon DEF StepOf, OnlyChanges, InvocationsInv, AdmissionsExclusive
  <2>2. window' \subseteq window /\ used' = used
    BY <2>1, Zenon DEF StepOf, UsageOf, Admission
  <2>3. Cardinality(window') <= Cardinality(window) /\ Cardinality(window) \in Nat /\ Cardinality(window') \in Nat
    BY <2>2, CountingInvocations, Zenon DEF InvocationsInv, InvocationsTypeOK
  <2> QED
    BY <1>2, <2>1, <2>2, <2>3, InvocationsAssumption DEF InvocationsInv, AdmissionsExclusive
<1> QED
  BY <1>3, <1>4, Zenon

(* A step of one task that shows all this keeps the invariant.             *)
LEMMA TaskStep ==
    ASSUME InvocationsInv, NEW i \in Invocations, StepOf(i), PermitOf(i), UsageOf(i), ChecksOf(i),
           inv[i].pc # "new" \/ inv'[i].pc = "new"
    PROVE  InvocationsInv'
<1>1. /\ PermitsCounted' /\ UsageCounted'
      /\ free' \in 0 .. Permits /\ used' \in before' .. before' + Cardinality(Invocations)
  BY CountersFollow, Zenon
<1>2. InvocationsTypeOK'
  BY <1>1, Zenon DEF InvocationsInv, InvocationsTypeOK, StepOf, OnlyChanges, InvocationStates
<1> QED
  BY <1>1, <1>2, RetriesFollow, OthersFollow, AdmissionFollows, Zenon DEF InvocationsInv

-----------------------------------------------------------------------------
(* What the updates of one invocation change and what they keep.           *)
Keeps(i) ==
    /\ OnlyChanges(i)
    /\ inv'[i].mode = inv[i].mode /\ inv'[i].version = inv[i].version
    /\ inv'[i].parent = inv[i].parent /\ inv'[i].retry = inv[i].retry

(* Goto changes the step of the task.                                      *)
LEMMA Goes ==
    ASSUME InvocationsTypeOK, NEW i \in Invocations, NEW pc \in Steps, Goto(i, pc)
    PROVE  /\ Keeps(i)
           /\ inv'[i].pc = pc /\ inv'[i].status = inv[i].status /\ inv'[i].process = inv[i].process
<1>1. inv \in [Invocations -> InvocationStates]
  BY Zenon DEF InvocationsTypeOK, InvocationStates
<1>2. inv' = [inv EXCEPT ![i].pc = pc]
  BY Zenon DEF Goto
<1>3. inv[i] \in InvocationStates
  BY <1>1, Zenon
<1>4. PICK new : new = [inv[i] EXCEPT !.pc = pc]
  BY Zenon
<1>5. inv' = [inv EXCEPT ![i] = new]
  BY <1>2, <1>4, Zenon
<1>6. new \in InvocationStates
  BY <1>3, <1>4, Zenon DEF InvocationStates
<1> QED
  BY <1>1, <1>3, <1>4, <1>5, <1>6, Zenon DEF Keeps, OnlyChanges, InvocationStates

(* Store changes the step and, unless the row is gone, the status.         *)
LEMMA Stores ==
    ASSUME InvocationsTypeOK, NEW i \in Invocations, NEW pc \in Steps,
           NEW status \in Pending \cup Settled, Store(i, pc, status)
    PROVE  /\ Keeps(i)
           /\ inv'[i].pc = pc /\ inv'[i].process = inv[i].process
           /\ inv'[i].status = IF inv[i].status = "deleted" THEN "deleted" ELSE status
<1>1. inv \in [Invocations -> InvocationStates]
  BY Zenon DEF InvocationsTypeOK, InvocationStates
<1>2. inv[i] \in InvocationStates
  BY <1>1, Zenon
<1>3. PICK new : new = [inv[i] EXCEPT !.pc = pc, !.status = IF @ = "deleted" THEN @ ELSE status]
  BY Zenon
<1>4. inv' = [inv EXCEPT ![i] = new]
  BY <1>1, <1>3, Zenon DEF Store
<1>5. new \in InvocationStates
  BY <1>2, <1>3, Zenon DEF InvocationStates
<1>6. /\ new.pc = pc /\ new.process = inv[i].process /\ new.mode = inv[i].mode
      /\ new.version = inv[i].version /\ new.parent = inv[i].parent /\ new.retry = inv[i].retry
      /\ new.status = IF inv[i].status = "deleted" THEN "deleted" ELSE status
  BY <1>2, <1>3, Zenon DEF InvocationStates
<1> QED
  BY <1>1, <1>4, <1>5, <1>6, Zenon DEF Keeps, OnlyChanges

(* The process of an invocation starts or ends.                            *)
LEMMA Runs ==
    ASSUME InvocationsTypeOK, NEW i \in Invocations, NEW pc \in Steps, NEW process \in BOOLEAN,
           inv' = [inv EXCEPT ![i].pc = pc, ![i].process = process]
    PROVE  /\ Keeps(i)
           /\ inv'[i].pc = pc /\ inv'[i].status = inv[i].status /\ inv'[i].process = process
<1>1. inv \in [Invocations -> InvocationStates]
  BY Zenon DEF InvocationsTypeOK, InvocationStates
<1>2. inv[i] \in InvocationStates
  BY <1>1, Zenon
<1>3. PICK new : new = [inv[i] EXCEPT !.pc = pc, !.process = process]
  BY Zenon
<1>4. inv' = [inv EXCEPT ![i] = new]
  BY <1>1, <1>3, Zenon
<1>5. new \in InvocationStates
  BY <1>2, <1>3, Zenon DEF InvocationStates
<1>6. /\ new.pc = pc /\ new.process = process /\ new.mode = inv[i].mode /\ new.status = inv[i].status
      /\ new.version = inv[i].version /\ new.parent = inv[i].parent /\ new.retry = inv[i].retry
  BY <1>2, <1>3, Zenon DEF InvocationStates
<1> QED
  BY <1>1, <1>4, <1>5, <1>6, Zenon DEF Keeps, OnlyChanges

-----------------------------------------------------------------------------
(* The rate limit and the quota are checked.                               *)
LEMMA CheckInv ==
    ASSUME InvocationsInv, NEW i \in Invocations, CountRate(i) \/ CheckQuota(i), before' = before
    PROVE  InvocationsInv'
<1> USE DEF InvocationsInv
<1>1. CASE CountRate(i)
  <2>1. PICK pc \in {"quota", "end"} : Goto(i, pc) /\ (pc = "quota" => Cardinality(window) < RateLimit)
    BY <1>1, Zenon DEF CountRate, UnderRate
  <2>2. /\ Keeps(i)
        /\ inv'[i].pc = pc /\ inv'[i].status = inv[i].status /\ inv'[i].process = inv[i].process
    BY <2>1, Goes, Zenon DEF Steps, Admission
  <2>3. inv[i].pc = "count" /\ UNCHANGED <<target, free, used, window, lost, unbilled, overlapped, faults, disconnects>>
    BY <1>1, Zenon DEF CountRate, At
  <2>4. StepOf(i)
    BY <2>1, <2>2, <2>3, Zenon DEF StepOf, Keeps, InvocationsTypeOK, TasksOK, TaskOK, Unlogged, Admission, Holding
  <2>5. PermitOf(i) /\ UsageOf(i)
    BY <2>1, <2>2, <2>3, Zenon DEF PermitOf, UsageOf, Holding, TasksOK, TaskOK, Unlogged, Billed
  <2>6. ChecksOf(i)
    BY <2>1, <2>2, <2>3, Zenon DEF ChecksOf
  <2> QED
    BY <2>3, <2>4, <2>5, <2>6, TaskStep, Zenon
<1>2. CASE CheckQuota(i)
  <2>1. PICK pc \in {"insert", "end"} : Goto(i, pc) /\ (pc = "insert" => used + 1 <= MonthlyLimit)
    BY <1>2, Zenon DEF CheckQuota
  <2>2. /\ Keeps(i)
        /\ inv'[i].pc = pc /\ inv'[i].status = inv[i].status /\ inv'[i].process = inv[i].process
    BY <2>1, Goes, Zenon DEF Steps, Admission
  <2>3. inv[i].pc = "quota" /\ UNCHANGED <<target, free, used, window, lost, unbilled, overlapped, faults, disconnects>>
    BY <1>2, Zenon DEF CheckQuota, At
  <2>4. StepOf(i)
    BY <2>1, <2>2, <2>3, Zenon DEF StepOf, Keeps, InvocationsTypeOK, TasksOK, TaskOK, Unlogged, Admission, Holding
  <2>5. PermitOf(i) /\ UsageOf(i)
    BY <2>1, <2>2, <2>3, Zenon DEF PermitOf, UsageOf, Holding, TasksOK, TaskOK, Unlogged, Billed
  <2>6. ChecksOf(i)
    BY <2>1, <2>2, <2>3, Zenon DEF ChecksOf, AdmissionsExclusive, Admission
  <2> QED
    BY <2>3, <2>4, <2>5, <2>6, TaskStep, Zenon
<1> QED
  BY <1>1, <1>2, Zenon

(* The row is inserted: it is in the window and its usage not yet counted. *)
LEMMA InsertInv ==
    ASSUME InvocationsInv, NEW i \in Invocations, InsertInvocation(i), before' = before
    PROVE  InvocationsInv'
<1> USE DEF InvocationsInv
<1>1. inv[i].pc = "insert" /\ UNCHANGED <<target, free, used, lost, unbilled, overlapped, faults, disconnects>>
  BY Zenon DEF InsertInvocation, At
<1>2. CASE target.exists
  <2>1. PICK status \in Pending : inv' = [inv EXCEPT ![i].pc = "record", ![i].status = status]
    BY <1>2, Zenon DEF InsertInvocation, Pending
  <2>2. inv[i].status = "none"
    BY <1>1, Zenon DEF TasksOK, TaskOK, Unlogged
  <2>3. Store(i, "record", status)
    BY <2>1, <2>2, Zenon DEF Store, InvocationsTypeOK
  <2>4. Keeps(i) /\ inv'[i].pc = "record" /\ inv'[i].process = inv[i].process /\ inv'[i].status = status
    BY <2>2, <2>3, Stores, Zenon DEF Steps, Admission
  <2>5. window' = window \cup {i}
    BY <1>2, Zenon DEF InsertInvocation
  <2>6. StepOf(i)
    BY <1>1, <2>4, <2>5, Zenon DEF StepOf, Keeps, InvocationsTypeOK, TasksOK, TaskOK, Unlogged, Admission, Holding
  <2>7. PermitOf(i) /\ UsageOf(i) /\ ChecksOf(i)
    BY <1>1, <2>2, <2>4, Zenon DEF PermitOf, UsageOf, ChecksOf, Holding, Billed
  <2> QED
    BY <1>1, <2>6, <2>7, TaskStep, Zenon
<1>3. CASE ~target.exists
  <2>1. Goto(i, "end") /\ window' = window
    BY <1>3, Zenon DEF InsertInvocation
  <2>2. Keeps(i) /\ inv'[i].pc = "end" /\ inv'[i].status = inv[i].status /\ inv'[i].process = inv[i].process
    BY <2>1, Goes, Zenon DEF Steps
  <2>3. StepOf(i)
    BY <1>1, <2>1, <2>2, Zenon DEF StepOf, Keeps, InvocationsTypeOK, TasksOK, TaskOK, Unlogged, Admission, Holding
  <2>4. PermitOf(i) /\ UsageOf(i) /\ ChecksOf(i)
    BY <1>1, <2>2, Zenon DEF PermitOf, UsageOf, ChecksOf, Holding, TasksOK, TaskOK, Unlogged, Billed
  <2> QED
    BY <1>1, <2>3, <2>4, TaskStep, Zenon
<1> QED
  BY <1>2, <1>3, Zenon

(* The usage is recorded, or the row is unbilled.                          *)
LEMMA RecordInv ==
    ASSUME InvocationsInv, NEW i \in Invocations, RecordUsage(i), before' = before
    PROVE  InvocationsInv'
<1> USE DEF InvocationsInv
<1>1. inv[i].pc = "record" /\ UNCHANGED <<target, free, window, lost, overlapped, disconnects>>
  BY Zenon DEF RecordUsage, At
<1>2. PICK pc \in {"start", "wait"} : Goto(i, pc)
  BY Zenon DEF RecordUsage
<1>3. Keeps(i) /\ inv'[i].pc = pc /\ inv'[i].status = inv[i].status /\ inv'[i].process = inv[i].process
  BY <1>2, Goes, Zenon DEF Steps
<1>4. \/ used' = used + 1 /\ UNCHANGED <<unbilled, faults>>
      \/ faults' \in 0 .. MaxFaults /\ unbilled' = unbilled \cup {i} /\ used' = used
  <2>1. faults \in Nat /\ MaxFaults \in Nat
    BY InvocationsAssumption DEF InvocationsTypeOK
  <2> QED
    BY <1>1, <2>1 DEF RecordUsage, Fault, Unbill, At
<1>5. i \notin unbilled /\ inv[i].status # "none" /\ ~inv[i].process
  BY <1>1, Zenon DEF TasksOK, TaskOK, Unlogged, Pending
<1>6. StepOf(i)
  BY <1>1, <1>2, <1>3, <1>4, <1>5, Zenon DEF StepOf, Keeps, InvocationsTypeOK, TasksOK, TaskOK, Unlogged, Admission, Holding
<1>7. PermitOf(i) /\ UsageOf(i) /\ ChecksOf(i)
  BY <1>1, <1>2, <1>3, <1>4, <1>5, Zenon DEF PermitOf, UsageOf, ChecksOf, Holding, Billed
<1> QED
  BY <1>1, <1>6, <1>7, TaskStep, Zenon

-----------------------------------------------------------------------------
AfterRecord == {"start", "wait", "end"} \cup Holding

(* A step of an invocation whose admission is over.                        *)
LEMMA AdmittedStep ==
    ASSUME InvocationsInv, NEW i \in Invocations, Keeps(i), PermitOf(i), TaskOK(i)',
           inv[i].pc \in AfterRecord, inv'[i].pc \in AfterRecord,
           inv'[i].status = "none" <=> inv[i].status = "none",
           UNCHANGED <<target, used, before, window, unbilled, overlapped>>,
           lost \subseteq lost', lost' \subseteq Invocations,
           faults' \in 0 .. MaxFaults, disconnects' \in 0 .. MaxDisconnects
    PROVE  InvocationsInv'
<1>1. /\ inv[i].pc \notin {"new", "record"} \cup Admission
      /\ inv'[i].pc \notin {"new", "record"} \cup Admission
  BY Zenon DEF AfterRecord, Admission, Holding
<1>2. StepOf(i)
  BY <1>1, Zenon DEF StepOf, Keeps, InvocationsInv, InvocationsTypeOK
<1>3. UsageOf(i) /\ ChecksOf(i)
  BY <1>1, Zenon DEF UsageOf, ChecksOf, Billed, Admission
<1> QED
  BY <1>1, <1>2, <1>3, TaskStep, Zenon

(* A fault is one of the bounded number.                                   *)
LEMMA FaultCounted ==
    ASSUME InvocationsTypeOK, Fault
    PROVE  faults' \in 0 .. MaxFaults
BY InvocationsAssumption DEF InvocationsTypeOK, Fault

(* The spawned task starts, waits for a permit and takes it.               *)
LEMMA StartInv ==
    ASSUME InvocationsInv, NEW i \in Invocations, StartAsync(i) \/ AcquirePermit(i), before' = before
    PROVE  InvocationsInv'
<1> USE DEF InvocationsInv
<1>1. CASE StartAsync(i)
  <2>1. inv[i].pc = "start" /\ UNCHANGED <<target, free, used, window, lost, unbilled, overlapped, disconnects>>
    BY <1>1, Zenon DEF StartAsync, At
  <2>2. \/ Store(i, "wait", "running") /\ UNCHANGED faults
        \/ Fault /\ Goto(i, "wait")
    BY <1>1, Zenon DEF StartAsync
  <2>3. inv[i].status \in Pending \cup {"deleted"} /\ ~inv[i].process
    BY <2>1, Zenon DEF TasksOK, TaskOK
  <2>4. /\ Keeps(i) /\ inv'[i].pc = "wait" /\ inv'[i].process = inv[i].process
        /\ inv'[i].status \in Pending \cup {"deleted"} /\ faults' \in 0 .. MaxFaults
    <3>1. CASE Store(i, "wait", "running") /\ UNCHANGED faults
      BY <2>3, <3>1, Stores, Zenon DEF Steps, Pending, InvocationsTypeOK
    <3>2. CASE Fault /\ Goto(i, "wait")
      BY <2>3, <3>2, Goes, FaultCounted, Zenon DEF Steps
    <3> QED
      BY <2>2, <3>1, <3>2, Zenon
  <2>5. PermitOf(i) /\ inv[i].pc \in AfterRecord /\ inv'[i].pc \in AfterRecord
    BY <2>1, <2>4, Zenon DEF PermitOf, AfterRecord, Holding
  <2>6. TaskOK(i)' /\ (inv'[i].status = "none" <=> inv[i].status = "none")
    BY <2>3, <2>4, Zenon DEF TaskOK, Unlogged, Pending
  <2> QED
    BY <2>1, <2>4, <2>5, <2>6, AdmittedStep, Zenon DEF InvocationsTypeOK
<1>2. CASE AcquirePermit(i)
  <2>1. /\ inv[i].pc = "wait" /\ free > 0 /\ free' = free - 1 /\ Goto(i, "secrets")
        /\ UNCHANGED <<target, used, window, lost, unbilled, overlapped, faults, disconnects>>
    BY <1>2, Zenon DEF AcquirePermit, At
  <2>2. Keeps(i) /\ inv'[i].pc = "secrets" /\ inv'[i].status = inv[i].status /\ inv'[i].process = inv[i].process
    BY <2>1, Goes, Zenon DEF Steps, Holding
  <2>3. PermitOf(i) /\ inv[i].pc \in AfterRecord /\ inv'[i].pc \in AfterRecord
    BY <2>1, <2>2, Zenon DEF PermitOf, AfterRecord, Holding
  <2>4. TaskOK(i)'
    BY <2>1, <2>2, Zenon DEF TasksOK, TaskOK, Unlogged, Holding
  <2> QED
    BY <2>1, <2>2, <2>3, <2>4, AdmittedStep, Zenon DEF InvocationsTypeOK
<1> QED
  BY <1>1, <1>2, Zenon

(* A task that is cut short leaves a lost row behind.                      *)
LEMMA Loses ==
    ASSUME InvocationsTypeOK, NEW i \in Invocations, Lose({i})
    PROVE  /\ lost \subseteq lost' /\ lost' \subseteq Invocations
           /\ inv[i].status \in Pending => i \in lost'
BY Zenon DEF InvocationsTypeOK, Lose

(* The secrets are loaded, or the task ends with its row pending.          *)
LEMMA SecretsInv ==
    ASSUME InvocationsInv, NEW i \in Invocations, LoadSecrets(i), before' = before
    PROVE  InvocationsInv'
<1> USE DEF InvocationsInv
<1>1. inv[i].pc = "secrets" /\ UNCHANGED <<target, used, window, unbilled, overlapped, disconnects>>
  BY Zenon DEF LoadSecrets, At
<1>2. CASE Goto(i, "run") /\ UNCHANGED <<free, lost, faults>>
  <2>1. Keeps(i) /\ inv'[i].pc = "run" /\ inv'[i].status = inv[i].status /\ inv'[i].process = inv[i].process
    BY <1>2, Goes, Zenon DEF Steps, Holding
  <2>2. PermitOf(i) /\ inv[i].pc \in AfterRecord /\ inv'[i].pc \in AfterRecord
    BY <1>1, <1>2, <2>1, Zenon DEF PermitOf, AfterRecord, Holding
  <2>3. TaskOK(i)'
    BY <1>1, <2>1, Zenon DEF TasksOK, TaskOK, Unlogged, Holding
  <2> QED
    BY <1>1, <1>2, <2>1, <2>2, <2>3, AdmittedStep, Zenon DEF InvocationsTypeOK
<1>3. CASE Fault /\ Goto(i, "end") /\ free' = free + 1 /\ Lose({i})
  <2>1. Keeps(i) /\ inv'[i].pc = "end" /\ inv'[i].status = inv[i].status /\ inv'[i].process = inv[i].process
    BY <1>3, Goes, Zenon DEF Steps
  <2>2. PermitOf(i) /\ inv[i].pc \in AfterRecord /\ inv'[i].pc \in AfterRecord
    BY <1>1, <1>3, <2>1, Zenon DEF PermitOf, AfterRecord, Holding
  <2>3. TaskOK(i)'
    BY <1>1, <2>1, Zenon DEF TasksOK, TaskOK, Unlogged, Holding
  <2> QED
    BY <1>1, <1>3, <2>1, <2>2, <2>3, AdmittedStep, Loses, FaultCounted, Zenon DEF InvocationsTypeOK
<1> QED
  BY <1>2, <1>3, Zenon DEF LoadSecrets

(* The process is spawned, answers, is killed or breaks the protocol: the  *)
(* task keeps its permit.                                                  *)
LEMMA ProcessInv ==
    ASSUME InvocationsInv, NEW i \in Invocations, before' = before,
           \/ SpawnProcess(i) \/ SpawnFails(i) \/ ProcessAnswers(i) \/ TimeoutKills(i)
           \/ ProtocolError(i)
    PROVE  InvocationsInv'
<1> USE DEF InvocationsInv
<1>1. /\ inv[i].pc = "run"
      /\ UNCHANGED <<target, free, used, window, lost, unbilled, overlapped, faults, disconnects>>
  BY Zenon DEF SpawnProcess, SpawnFails, ProcessAnswers, TimeoutKills, ProtocolError, At
<1>2. inv \in [Invocations -> InvocationStates] /\ inv[i] \in InvocationStates
  BY Zenon DEF InvocationsTypeOK, InvocationStates
<1>3. /\ Keeps(i) /\ inv'[i].pc \in Holding /\ inv'[i].status = inv[i].status
      /\ inv'[i].process => inv'[i].pc \in {"run", "drain"}
  <2>1. CASE SpawnProcess(i)
    <3>1. inv' = [inv EXCEPT ![i].pc = "run", ![i].process = TRUE]
      BY <1>1, <1>2, <2>1, Zenon DEF SpawnProcess, InvocationStates
    <3> QED
      BY <3>1, Runs, Zenon DEF Steps, Holding
  <2>2. CASE SpawnFails(i)
    BY <2>2, Goes, Zenon DEF SpawnFails, Steps, Holding
  <2>3. CASE ProcessAnswers(i) \/ TimeoutKills(i)
    <3>1. PICK pc \in {"ok", "err"} : inv' = [inv EXCEPT ![i].pc = pc, ![i].process = FALSE]
      BY <2>3, Zenon DEF ProcessAnswers, TimeoutKills
    <3> QED
      BY <3>1, Runs, Zenon DEF Steps, Holding
  <2>4. CASE ProtocolError(i)
    BY <2>4, Goes, Zenon DEF ProtocolError, Steps, Holding
  <2> QED
    BY <2>1, <2>2, <2>3, <2>4, Zenon
<1>4. PermitOf(i) /\ inv[i].pc \in AfterRecord /\ inv'[i].pc \in AfterRecord
  BY <1>1, <1>3, Zenon DEF PermitOf, AfterRecord, Holding
<1>5. inv[i].status \in Pending \cup {"deleted"}
  BY <1>1, Zenon DEF TasksOK, TaskOK, Holding
<1>6. TaskOK(i)'
  BY <1>3, <1>5, Zenon DEF TaskOK, Unlogged, Holding
<1> QED
  BY <1>1, <1>3, <1>4, <1>6, AdmittedStep, Zenon DEF InvocationsTypeOK

(* A process exits by itself, attended or not.                             *)
LEMMA ExitsInv ==
    ASSUME InvocationsInv, NEW i \in Invocations, ProcessExits(i), before' = before
    PROVE  InvocationsInv'
<1> USE DEF InvocationsInv
<1>1. /\ inv[i].process /\ inv[i].pc # "run"
      /\ UNCHANGED <<target, free, used, window, lost, unbilled, overlapped, faults, disconnects>>
  BY Zenon DEF ProcessExits, At
<1>2. inv \in [Invocations -> InvocationStates] /\ inv[i] \in InvocationStates
  BY Zenon DEF InvocationsTypeOK, InvocationStates
<1>3. inv[i].pc \in {"drain", "end"}
  BY <1>1, Zenon DEF TasksOK, TaskOK
<1>4. PICK pc : pc = IF inv[i].pc = "drain" THEN "err" ELSE inv[i].pc
  BY Zenon
<1>5. inv' = [inv EXCEPT ![i].pc = pc, ![i].process = FALSE]
  <2>1. [inv[i] EXCEPT !.process = FALSE, !.pc = IF @ = "drain" THEN "err" ELSE @]
          = [inv[i] EXCEPT !.pc = pc, !.process = FALSE]
    BY <1>2, <1>4, Zenon DEF InvocationStates
  <2> QED
    BY <1>2, <2>1, Zenon DEF ProcessExits
<1>6. /\ Keeps(i) /\ inv'[i].pc = pc /\ inv'[i].status = inv[i].status /\ ~inv'[i].process
  <2>1. pc \in Steps
    BY <1>3, <1>4, Zenon DEF Steps, Holding
  <2> QED
    BY <1>5, <2>1, Runs, Zenon
<1>7. PermitOf(i) /\ inv[i].pc \in AfterRecord /\ inv'[i].pc \in AfterRecord
  BY <1>1, <1>3, <1>4, <1>6, Zenon DEF PermitOf, AfterRecord, Holding
<1>8. TaskOK(i)'
  BY <1>1, <1>3, <1>4, <1>6, Zenon DEF TasksOK, TaskOK, Unlogged, Holding
<1> QED
  BY <1>1, <1>6, <1>7, <1>8, AdmittedStep, Zenon DEF InvocationsTypeOK

(* The task panics after its process exited: the permit is given back.     *)
LEMMA PanicInv ==
    ASSUME InvocationsInv, NEW i \in Invocations, TruncatePanics(i), before' = before
    PROVE  InvocationsInv'
<1> USE DEF InvocationsInv
<1>1. /\ inv[i].pc \in {"run", "drain"} /\ Fault /\ free' = free + 1 /\ Lose({i})
      /\ inv' = [inv EXCEPT ![i].pc = "end", ![i].process = FALSE]
      /\ UNCHANGED <<target, used, window, unbilled, overlapped, disconnects>>
  BY Zenon DEF TruncatePanics
<1>2. Keeps(i) /\ inv'[i].pc = "end" /\ inv'[i].status = inv[i].status /\ ~inv'[i].process
  BY <1>1, Runs, Zenon DEF Steps
<1>3. PermitOf(i) /\ inv[i].pc \in AfterRecord /\ inv'[i].pc \in AfterRecord
  BY <1>1, <1>2, Zenon DEF PermitOf, AfterRecord, Holding
<1>4. TaskOK(i)'
  BY <1>1, <1>2, Zenon DEF TasksOK, TaskOK, Unlogged, Holding
<1> QED
  BY <1>1, <1>2, <1>3, <1>4, AdmittedStep, Loses, FaultCounted, Zenon DEF InvocationsTypeOK

(* The outcome is stored, or lost, and the permit given back.              *)
LEMMA FinalizeInv ==
    ASSUME InvocationsInv, NEW i \in Invocations, Finalize(i), before' = before
    PROVE  InvocationsInv'
<1> USE DEF InvocationsInv
<1>1. /\ inv[i].pc \in {"ok", "err"} /\ free' = free + 1
      /\ UNCHANGED <<target, used, window, unbilled, overlapped, disconnects>>
  BY Zenon DEF Finalize, At
<1>2. inv[i].status \in Pending \cup {"deleted"} /\ ~inv[i].process
  BY <1>1, Zenon DEF TasksOK, TaskOK, Holding
<1>3. \/ /\ \E status \in Settled : Store(i, "end", status)
         /\ UNCHANGED <<lost, faults>>
      \/ Fault /\ Goto(i, "end") /\ Lose({i})
  BY Zenon DEF Finalize, Settled
<1>4. /\ Keeps(i) /\ inv'[i].pc = "end" /\ ~inv'[i].process /\ inv'[i].status # "none"
      /\ lost \subseteq lost' /\ lost' \subseteq Invocations /\ faults' \in 0 .. MaxFaults
  <2>1. CASE Fault /\ Goto(i, "end") /\ Lose({i})
    BY <1>2, <2>1, Goes, Loses, FaultCounted, Zenon DEF Steps, Pending
  <2>2. ASSUME NEW status \in Settled, Store(i, "end", status), UNCHANGED <<lost, faults>>
        PROVE  <1>4!1 /\ <1>4!2
    BY <1>2, <2>2, Stores DEF Steps, Settled, InvocationsTypeOK
  <2> QED
    BY <1>3, <2>1, <2>2, Zenon
<1>5. PermitOf(i) /\ inv[i].pc \in AfterRecord /\ inv'[i].pc \in AfterRecord
  BY <1>1, <1>4, Zenon DEF PermitOf, AfterRecord, Holding
<1>6. TaskOK(i)'
  BY <1>1, <1>4, Zenon DEF TasksOK, TaskOK, Unlogged, Holding
<1> QED
  BY <1>1, <1>2, <1>4, <1>5, <1>6, AdmittedStep, Zenon DEF InvocationsTypeOK, Pending

(* The client of a synchronous invocation disconnects, at any step.        *)
LEMMA DisconnectInv ==
    ASSUME InvocationsInv, NEW i \in Invocations, Disconnect(i), before' = before
    PROVE  InvocationsInv'
<1> USE DEF InvocationsInv
<1>1. /\ inv[i].pc \in Admission \cup {"wait"} \cup Holding
      /\ disconnects' = disconnects + 1 /\ disconnects < MaxDisconnects
      /\ free' = IF inv[i].pc \in Holding THEN free + 1 ELSE free
      /\ Lose({i}) /\ unbilled' = unbilled \cup (IF inv[i].pc = "record" THEN {i} ELSE {})
      /\ UNCHANGED <<target, used, window, overlapped, faults>>
  BY Zenon DEF Disconnect, Unbill, At
<1>2. inv \in [Invocations -> InvocationStates] /\ inv[i] \in InvocationStates
  BY Zenon DEF InvocationsTypeOK, InvocationStates
<1>3. Goto(i, "end")
  BY <1>2, Zenon DEF Disconnect, Ended, Goto
<1>4. Keeps(i) /\ inv'[i].pc = "end" /\ inv'[i].status = inv[i].status /\ inv'[i].process = inv[i].process
  BY <1>3, Goes, Zenon DEF Steps
<1>5. disconnects' \in 0 .. MaxDisconnects
  BY <1>1, InvocationsAssumption DEF InvocationsTypeOK
<1>6. lost \subseteq lost' /\ lost' \subseteq Invocations /\ (inv[i].status \in Pending => i \in lost')
  BY <1>1, Loses, Zenon
<1>7. StepOf(i)
  <2>1. TaskOK(i)'
    BY <1>1, <1>4, <1>6, Zenon DEF TasksOK, TaskOK, Unlogged, Holding, Admission
  <2> QED
    BY <1>1, <1>4, <1>5, <1>6, <2>1, Zenon DEF StepOf, Keeps, InvocationsTypeOK, Admission, Holding
<1>8. PermitOf(i)
  BY <1>1, <1>4, Zenon DEF PermitOf, Holding
<1>9. UsageOf(i)
  BY <1>1, <1>4, Zenon DEF UsageOf, Billed, TasksOK, TaskOK, Unlogged, Admission, Holding
<1>10. ChecksOf(i) /\ inv[i].pc # "new"
  BY <1>1, <1>4, Zenon DEF ChecksOf, Admission, Holding
<1> QED
  BY <1>7, <1>8, <1>9, <1>10, TaskStep, Zenon

(* An admission begins: it is alone, or overlapping is recorded.           *)
LEMMA BeginStep ==
    ASSUME InvocationsInv, NEW i \in Invocations, OnlyChanges(i), BeginAdmission(i),
           inv[i].pc = "new", inv'[i].pc \in {"count", "quota"},
           inv'[i].pc = "quota" => inv'[i].parent # NoParent,
           inv'[i].status = inv[i].status, inv'[i].process = inv[i].process,
           inv'[i].retry \in Nat, inv'[i].retry <= Cardinality(Started),
           UNCHANGED <<target, free, used, before, window, lost, unbilled, faults, disconnects>>
    PROVE  InvocationsInv'
<1> USE DEF InvocationsInv
<1>1. inv[i].status = "none" /\ ~inv[i].process /\ i \notin unbilled
  BY Zenon DEF TasksOK, TaskOK, Unlogged
<1>2. TasksOK'
  <2> SUFFICES ASSUME NEW j \in Invocations PROVE TaskOK(j)'
    BY Zenon DEF TasksOK
  <2>1. CASE j = i
    BY <1>1, <2>1, Zenon DEF TaskOK, Unlogged, Holding
  <2>2. CASE j # i
    BY <2>2, Zenon DEF OnlyChanges, TasksOK, TaskOK
  <2> QED
    BY <2>1, <2>2, Zenon
<1>3. /\ Started' = Started \cup {i} /\ i \notin Started
      /\ Holders' = Holders \ {i} /\ i \notin Holders
      /\ Billed' = Billed \ {i} /\ i \notin Billed
  <2>1. i \notin Started /\ i \notin Holders /\ i \notin Billed
    BY <1>1, Zenon DEF Started, Holders, Billed, Holding
  <2> QED
    BY <1>1, <2>1, CountedSets, Zenon DEF Holding
<1>4. Holders' = Holders /\ Billed' = Billed
  BY <1>3, Zenon
<1>5. PermitsCounted' /\ UsageCounted'
  BY <1>4, Zenon DEF PermitsCounted, UsageCounted
<1>6. RetriesBounded'
  <2>1. Started \in SUBSET Invocations
    BY Zenon DEF Started
  <2>2. Cardinality(Started) \in Nat /\ Cardinality(Started') = Cardinality(Started) + 1
    BY <1>3, <2>1, CountingInvocations, Zenon
  <2> SUFFICES ASSUME NEW j \in Invocations
               PROVE  IF inv'[j].pc = "new" THEN inv'[j].retry = 0 ELSE inv'[j].retry < Cardinality(Started')
    BY Zenon DEF RetriesBounded
  <2>3. CASE j = i
    BY <2>2, <2>3
  <2>4. CASE j # i
    <3>1. inv'[j] = inv[j] /\ inv[j].retry \in Nat
      BY <2>4 DEF OnlyChanges, InvocationsTypeOK
    <3> QED
      BY <2>2, <3>1 DEF RetriesBounded
  <2> QED
    BY <2>3, <2>4, Zenon
<1>7. AdmissionsExclusive'
  <2> SUFFICES ASSUME ~overlapped', NEW j \in Invocations, inv'[j].pc \in Admission
               PROVE  /\ \A k \in Invocations : inv'[k].pc \in Admission => k = j
                      /\ inv'[j].pc \in {"quota", "insert"} /\ inv'[j].parent = NoParent
                           => Cardinality(window') < RateLimit
                      /\ inv'[j].pc = "insert" => used' + 1 <= MonthlyLimit
    BY Zenon DEF AdmissionsExclusive
  <2>1. ~overlapped /\ \A k \in Invocations \ {i} : inv[k].pc \notin Admission
    BY Zenon DEF BeginAdmission
  <2>2. \A k \in Invocations : inv'[k].pc \in Admission => k = i
    BY <2>1, Zenon DEF OnlyChanges
  <2> QED
    BY <2>2, Zenon
<1>8. InvocationsTypeOK'
  <2>1. overlapped' \in BOOLEAN
    BY Zenon DEF BeginAdmission
  <2> QED
    BY <2>1, Zenon DEF InvocationsTypeOK, OnlyChanges, InvocationStates
<1> QED
  BY <1>2, <1>5, <1>6, <1>7, <1>8, Zenon

(* A request to invoke, or to retry an invocation that has a row.          *)
LEMMA BeginInv ==
    ASSUME InvocationsInv, NEW i \in Invocations, before' = before,
           \/ \E mode \in {"sync", "async"} : Invoke(i, mode)
           \/ \E p \in Invocations \ {i} : Retry(i, p)
    PROVE  InvocationsInv'
<1> USE DEF InvocationsInv
<1>1. inv \in [Invocations -> InvocationStates] /\ inv[i] \in InvocationStates
  BY Zenon DEF InvocationsTypeOK, InvocationStates
<1>2. Started \in SUBSET Invocations
  BY Zenon DEF Started
<1>3. Cardinality(Started) \in Nat /\ Cardinality(Started) <= Cardinality(Invocations)
      /\ Cardinality(Invocations) \in Nat
  BY <1>2, CountingInvocations, Zenon
<1>4. ASSUME NEW mode \in {"sync", "async"}, Invoke(i, mode) PROVE InvocationsInv'
  <2>1. PICK new : new = [inv[i] EXCEPT !.pc = "count", !.mode = mode, !.version = target.active]
    BY Zenon
  <2>2. inv' = [inv EXCEPT ![i] = new]
    BY <1>1, <1>4, <2>1, Zenon DEF Invoke
  <2>3. /\ new \in InvocationStates /\ new.pc = "count" /\ new.status = inv[i].status
        /\ new.process = inv[i].process /\ new.retry = inv[i].retry
    BY <1>1, <2>1, Zenon DEF InvocationStates, InvocationsTypeOK, Steps, Admission
  <2>4. /\ inv[i].pc = "new" /\ BeginAdmission(i)
        /\ UNCHANGED <<target, free, used, window, lost, unbilled, faults, disconnects>>
    BY <1>4, Zenon DEF Invoke, At
  <2>5. inv[i].retry = 0
    BY <2>4, Zenon DEF RetriesBounded
  <2>6. OnlyChanges(i) /\ inv'[i] = new
    BY <1>1, <2>2, <2>3, Zenon DEF OnlyChanges
  <2> QED
    BY <1>3, <2>3, <2>4, <2>5, <2>6, BeginStep
<1>5. ASSUME NEW p \in Invocations \ {i}, Retry(i, p) PROVE InvocationsInv'
  <2>1. PICK new : new = [inv[i] EXCEPT !.pc = "quota", !.parent = p, !.retry = inv[p].retry + 1,
                                        !.version = inv[p].version]
    BY Zenon
  <2>2. inv' = [inv EXCEPT ![i] = new]
    BY <1>1, <1>5, <2>1, Zenon DEF Retry
  <2>3. /\ inv[i].pc = "new" /\ BeginAdmission(i) /\ inv[p].status \in Pending \cup Settled
        /\ UNCHANGED <<target, free, used, window, lost, unbilled, faults, disconnects>>
    BY <1>5, Zenon DEF Retry, At
  <2>4. inv[p].pc # "new"
    BY <2>3, Zenon DEF TasksOK, TaskOK, Unlogged, Pending, Settled
  <2>5. inv[p] \in InvocationStates
    BY <1>1, Zenon
  <2>6. inv[p].retry + 1 \in Nat /\ inv[p].retry + 1 <= Cardinality(Started)
    BY <1>3, <2>4, <2>5 DEF RetriesBounded, InvocationStates
  <2>7. inv[p].retry + 1 \in 0 .. Cardinality(Invocations)
    BY <1>3, <2>6
  <2>8. /\ new \in InvocationStates /\ new.pc = "quota" /\ new.status = inv[i].status
        /\ new.process = inv[i].process /\ new.retry = inv[p].retry + 1 /\ new.parent = p
    BY <1>1, <2>1, <2>5, <2>7, Zenon DEF InvocationStates, Steps, Admission
  <2>9. OnlyChanges(i) /\ inv'[i] = new
    BY <1>1, <2>2, <2>8, Zenon DEF OnlyChanges
  <2>10. p # NoParent
    BY InvocationsAssumption, Zenon
  <2> QED
    BY <2>3, <2>6, <2>8, <2>9, <2>10, BeginStep, Zenon
<1> QED
  BY <1>4, <1>5, Zenon

(* A row leaves the window of the rate limit.                              *)
LEMMA WindowInv ==
    ASSUME InvocationsInv, NEW i \in Invocations, LeaveWindow(i), before' = before
    PROVE  InvocationsInv'
<1> USE DEF InvocationsInv
<1>1. /\ window' = window \ {i}
      /\ UNCHANGED <<target, inv, free, used, lost, unbilled, overlapped, faults, disconnects>>
  BY Zenon DEF LeaveWindow
<1>2. Cardinality(window') <= Cardinality(window) /\ Cardinality(window) \in Nat /\ Cardinality(window') \in Nat
  BY <1>1, CountingInvocations, Zenon DEF InvocationsTypeOK
<1>3. StepOf(i)
  BY <1>1, Zenon DEF StepOf, OnlyChanges, InvocationsTypeOK, InvocationStates, TasksOK, TaskOK
<1>4. PermitOf(i) /\ UsageOf(i)
  BY <1>1, Zenon DEF PermitOf, UsageOf, Billed
<1>5. ChecksOf(i)
  BY <1>1, <1>2, InvocationsAssumption DEF ChecksOf, AdmissionsExclusive, Admission
<1> QED
  BY <1>1, <1>3, <1>4, <1>5, TaskStep, Zenon

(* The server stops: all permits are free again, nobody is admitted.       *)
LEMMA CrashInv ==
    ASSUME InvocationsInv, Crash, before' = before
    PROVE  InvocationsInv'
<1> USE DEF InvocationsInv
<1>1. PICK survive \in BOOLEAN :
          inv' = [i \in Invocations |->
                    IF At(i, "new") THEN inv[i]
                    ELSE [inv[i] EXCEPT !.pc = "end", !.process = @ /\ survive]]
  BY Zenon DEF Crash
<1>2. /\ free' = Permits /\ Fault
      /\ lost' = lost \cup {i \in {j \in Invocations : inv[j].pc \notin {"new", "end"}} :
                              inv[i].status \in Pending}
      /\ unbilled' = unbilled \cup {i \in {j \in Invocations : inv[j].pc \notin {"new", "end"}} :
                              inv[i].pc = "record"}
      /\ UNCHANGED <<target, used, window, overlapped, disconnects>>
  BY Zenon DEF Crash, Lose, Unbill, At
<1>3. ASSUME NEW i \in Invocations
      PROVE  /\ inv'[i] \in InvocationStates
             /\ inv'[i].status = inv[i].status /\ inv'[i].retry = inv[i].retry
             /\ inv'[i].pc = IF inv[i].pc = "new" THEN "new" ELSE "end"
             /\ inv'[i].process => inv[i].process
  <2>1. inv[i] \in InvocationStates
    BY Zenon DEF InvocationsTypeOK, InvocationStates
  <2>2. CASE inv[i].pc = "new"
    BY <1>1, <2>1, <2>2, Zenon DEF At
  <2>3. CASE inv[i].pc # "new"
    <3>1. PICK process \in BOOLEAN : process = (inv[i].process /\ survive)
      BY Zenon
    <3>2. PICK new : new = [inv[i] EXCEPT !.pc = "end", !.process = process]
      BY Zenon
    <3>3. inv'[i] = new
      BY <1>1, <2>3, <3>1, <3>2, Zenon DEF At
    <3>4. /\ new \in InvocationStates /\ new.status = inv[i].status /\ new.retry = inv[i].retry
          /\ new.pc = "end" /\ new.process = process
      BY <2>1, <3>2, Zenon DEF InvocationStates, Steps
    <3> QED
      BY <2>3, <3>1, <3>3, <3>4, Zenon
  <2> QED
    BY <2>2, <2>3, Zenon
<1>4. TasksOK'
  <2> SUFFICES ASSUME NEW i \in Invocations PROVE TaskOK(i)'
    BY Zenon DEF TasksOK
  <2>1. TaskOK(i)
    BY Zenon DEF TasksOK
  <2> QED
    BY <1>2, <1>3, <2>1, Zenon DEF TaskOK, Unlogged, Holding
<1>5. Started' = Started /\ Holders' = {} /\ Billed' = Billed
  <2>1. Started' = Started
    BY <1>3, Zenon DEF Started
  <2>2. Holders' = {}
    BY <1>3, Zenon DEF Holders, Holding
  <2>3. ASSUME NEW i \in Invocations PROVE i \in Billed' <=> i \in Billed
    BY <1>2, <1>3, <2>3, Zenon DEF Billed, TasksOK, TaskOK, Unlogged
  <2> QED
    BY <2>1, <2>2, <2>3, Zenon DEF Billed
<1>6. PermitsCounted' /\ UsageCounted' /\ RetriesBounded'
  BY <1>2, <1>3, <1>5, FS_EmptySet, InvocationsAssumption DEF PermitsCounted, UsageCounted, RetriesBounded
<1>7. AdmissionsExclusive'
  BY <1>3, Zenon DEF AdmissionsExclusive, Admission
<1>8. InvocationsTypeOK'
  <2>1. inv' \in [Invocations -> InvocationStates]
    BY <1>1, <1>3, Zenon
  <2>2. faults' \in 0 .. MaxFaults /\ free' \in 0 .. Permits
    BY <1>2, FaultCounted, InvocationsAssumption
  <2> QED
    BY <1>2, <2>1, <2>2, Zenon DEF InvocationsTypeOK, InvocationStates
<1> QED
  BY <1>4, <1>6, <1>7, <1>8, Zenon

(* The function is deleted with its log, or another version is activated.  *)
LEMMA TargetInv ==
    ASSUME InvocationsInv, FunctionDeleted \/ (\E v \in Versions : VersionActivated(v)), before' = before
    PROVE  InvocationsInv'
<1> USE DEF InvocationsInv
<1>1. CASE FunctionDeleted
  <2>1. /\ window' = {} /\ target' = [target EXCEPT !.exists = FALSE]
        /\ UNCHANGED <<free, used, lost, unbilled, overlapped, faults, disconnects>>
    BY <1>1, Zenon DEF FunctionDeleted
  <2>2. ASSUME NEW i \in Invocations
        PROVE  /\ inv'[i] \in InvocationStates
               /\ inv'[i].status = IF inv[i].status \in Pending \cup Settled THEN "deleted" ELSE inv[i].status
               /\ inv'[i].pc = inv[i].pc /\ inv'[i].process = inv[i].process
               /\ inv'[i].retry = inv[i].retry /\ inv'[i].parent = inv[i].parent
    BY <1>1 DEF FunctionDeleted, Rows, InvocationsTypeOK, InvocationStates
  <2>3. TasksOK'
    BY <2>1, <2>2 DEF TasksOK, TaskOK, Unlogged, Pending, Settled
  <2>4. Started' = Started /\ Holders' = Holders /\ Billed' = Billed
    BY <2>1, <2>2, Zenon DEF Started, Holders, Billed, Pending, Settled
  <2>5. PermitsCounted' /\ UsageCounted' /\ RetriesBounded'
    BY <2>1, <2>2, <2>4, Zenon DEF PermitsCounted, UsageCounted, RetriesBounded
  <2>6. AdmissionsExclusive'
    <3>1. Cardinality(window') = 0
      BY <2>1, FS_EmptySet, Zenon
    <3>2. Cardinality(window) \in Nat
      BY CountingInvocations, Zenon DEF InvocationsTypeOK
    <3> QED
      BY <2>1, <2>2, <3>1, <3>2, InvocationsAssumption DEF AdmissionsExclusive
  <2>7. InvocationsTypeOK'
    <3>1. inv' \in [Invocations -> InvocationStates]
      BY <1>1, <2>2, Zenon DEF FunctionDeleted
    <3> QED
      BY <2>1, <3>1, Zenon DEF InvocationsTypeOK, InvocationStates
  <2> QED
    BY <2>3, <2>5, <2>6, <2>7, Zenon
<1>2. ASSUME NEW v \in Versions, VersionActivated(v) PROVE InvocationsInv'
  BY <1>2 DEF VersionActivated, InvocationsTypeOK, TasksOK, TaskOK, RetriesBounded, PermitsCounted,
              UsageCounted, AdmissionsExclusive, Started, Holders, Billed
<1> QED
  BY <1>1, <1>2, Zenon

-----------------------------------------------------------------------------
(* Nothing is invoked at first.                                            *)
LEMMA InvocationsInitInv == InvocationsInit => InvocationsInv
<1> SUFFICES ASSUME InvocationsInit PROVE InvocationsInv
  BY Zenon
<1>1. Cardinality(Invocations) \in Nat
  BY InvocationsAssumption, FS_CardinalityType, Zenon
<1>2. NotInvoked \in InvocationStates
  BY <1>1, InvocationsAssumption DEF NotInvoked, InvocationStates, Steps, Versions
<1>3. InvocationsTypeOK
  <2>1. inv \in [Invocations -> InvocationStates]
    BY <1>2, Zenon DEF InvocationsInit
  <2>2. used \in before .. before + Cardinality(Invocations) /\ before \in 0 .. MonthlyLimit
    BY <1>1, InvocationsAssumption DEF InvocationsInit
  <2>3. target \in [exists : BOOLEAN, active : Versions] /\ free \in 0 .. Permits
    BY InvocationsAssumption DEF InvocationsInit, Versions
  <2>4. /\ window \subseteq Invocations /\ lost \subseteq Invocations /\ unbilled \subseteq Invocations
        /\ overlapped \in BOOLEAN
    BY Zenon DEF InvocationsInit
  <2>5. faults \in 0 .. MaxFaults /\ disconnects \in 0 .. MaxDisconnects
    <3>1. faults = 0 /\ disconnects = 0
      BY Zenon DEF InvocationsInit
    <3> QED
      BY <3>1, InvocationsAssumption
  <2> QED
    BY <2>1, <2>2, <2>3, <2>4, <2>5, Zenon DEF InvocationsTypeOK, InvocationStates
<1>4. \A i \in Invocations : inv[i].pc = "new" /\ inv[i].status = "none" /\ inv[i].retry = 0 /\ ~inv[i].process
  BY Zenon DEF InvocationsInit, NotInvoked
<1>5. TasksOK /\ RetriesBounded /\ AdmissionsExclusive
  BY <1>4, Zenon DEF InvocationsInit, TasksOK, TaskOK, RetriesBounded, AdmissionsExclusive, Unlogged, Admission, Holding
<1>6. Holders = {} /\ Billed = {}
  BY <1>4, Zenon DEF Holders, Billed, Holding
<1>7. PermitsCounted /\ UsageCounted
  BY <1>3, <1>6, FS_EmptySet, InvocationsAssumption
  DEF InvocationsInit, PermitsCounted, UsageCounted, InvocationsTypeOK
<1> QED
  BY <1>3, <1>5, <1>7, Zenon DEF InvocationsInv

(* Every step keeps the invariant.                                         *)
LEMMA InvocationsStepInv == InvocationsInv /\ [InvocationsNext]_invocationVars => InvocationsInv'
<1> SUFFICES ASSUME InvocationsInv, [InvocationsNext]_invocationVars PROVE InvocationsInv'
  BY Zenon
<1>1. CASE InvocationsNext
  <2>1. before' = before /\ Step
    BY <1>1, Zenon DEF InvocationsNext
  <2>2. ASSUME NEW i \in Invocations,
               \/ \E mode \in {"sync", "async"} : Invoke(i, mode)
               \/ \E p \in Invocations \ {i} : Retry(i, p)
        PROVE  InvocationsInv'
    BY <2>1, <2>2, BeginInv, Zenon
  <2>3. ASSUME NEW i \in Invocations, Task(i) PROVE InvocationsInv'
    BY <2>1, <2>3, CheckInv, InsertInv, RecordInv, StartInv, SecretsInv, ProcessInv, FinalizeInv, Zenon DEF Task
  <2>4. ASSUME NEW i \in Invocations,
               ProtocolError(i) \/ ProcessExits(i) \/ TruncatePanics(i) \/ Disconnect(i) \/ LeaveWindow(i)
        PROVE  InvocationsInv'
    BY <2>1, <2>4, ProcessInv, ExitsInv, PanicInv, DisconnectInv, WindowInv, Zenon
  <2> QED
    BY <2>1, <2>2, <2>3, <2>4, CrashInv, TargetInv, Zenon DEF Step
<1>2. CASE UNCHANGED invocationVars
  BY <1>2, Zenon DEF invocationVars, InvocationsInv, InvocationsTypeOK, TasksOK, TaskOK, RetriesBounded,
              PermitsCounted, UsageCounted, AdmissionsExclusive, Started, Holders, Billed
<1> QED
  BY <1>1, <1>2, Zenon

(* The inductive invariant holds in every reachable state, for any number  *)
(* of invocations and permits and any limits; with it, the types.          *)
THEOREM InvocationsInvariance == InvocationsSpec => [](InvocationsInv /\ InvocationsTypeOK)
<1>1. InvocationsInv => InvocationsTypeOK
  BY Zenon DEF InvocationsInv
<1> QED
  BY <1>1, InvocationsInitInv, InvocationsStepInv, PTL DEF InvocationsSpec

(* Attended processes stay within the permits, and none is left behind by  *)
(* a task that ended by itself: a process needs its task at a step that    *)
(* holds a permit, and permits held and free add up.                       *)
THEOREM ProcessesAttended == InvocationsSpec => []AttendedProcessesBounded
<1>1. InvocationsInv => AttendedProcessesBounded
  <2> SUFFICES ASSUME InvocationsInv PROVE AttendedProcessesBounded
    BY Zenon
  <2>1. {i \in Processes : inv[i].pc # "end"} \in SUBSET Holders /\ Holders \in SUBSET Invocations
    BY Zenon DEF InvocationsInv, TasksOK, TaskOK, Processes, Holders, Holding
  <2>2. /\ Cardinality({i \in Processes : inv[i].pc # "end"}) <= Cardinality(Holders)
        /\ Cardinality({i \in Processes : inv[i].pc # "end"}) \in Nat /\ Cardinality(Holders) \in Nat
    BY <2>1, CountingInvocations, Zenon
  <2>3. free \in Nat /\ Permits \in Nat /\ free + Cardinality(Holders) = Permits
    BY InvocationsAssumption DEF InvocationsInv, InvocationsTypeOK, PermitsCounted
  <2>4. Cardinality({i \in Processes : inv[i].pc # "end"}) <= Permits
    BY <2>2, <2>3
  <2>5. \A i \in Processes : inv[i].pc \in {"run", "drain"} \/ i \in lost \/ inv[i].status = "deleted"
    BY Zenon DEF InvocationsInv, TasksOK, TaskOK, Processes
  <2> QED
    BY <2>4, <2>5, Zenon DEF AttendedProcessesBounded
<1> QED
  BY <1>1, InvocationsInvariance, PTL

(* Admissions that do not overlap respect the rate limit and the monthly   *)
(* limit exactly: between the check and the insertion nobody else is       *)
(* admitted, and the counter holds every row that was billed.              *)
THEOREM AdmissionsExact == InvocationsSpec => []AdmissionExact
<1>1. InvocationsInv => AdmissionExact
  <2> SUFFICES ASSUME InvocationsInv, ~overlapped, NEW i \in Invocations, inv[i].pc = "insert"
               PROVE  /\ ~IsRetry(i) => Cardinality(window) < RateLimit
                      /\ before + Cardinality({j \in Invocations : inv[j].status # "none"} \ unbilled)
                            < MonthlyLimit
    BY Zenon DEF AdmissionExact, At
  <2>1. /\ \A j \in Invocations : inv[j].pc \in Admission => j = i
        /\ inv[i].parent = NoParent => Cardinality(window) < RateLimit
        /\ used + 1 <= MonthlyLimit
    BY Zenon DEF InvocationsInv, AdmissionsExclusive, Admission
  <2>2. {j \in Invocations : inv[j].status # "none"} \ unbilled = Billed
    BY <2>1, Zenon DEF Billed, Admission
  <2>3. used = before + Cardinality(Billed) /\ used \in Nat
    BY InvocationsAssumption DEF InvocationsInv, UsageCounted, InvocationsTypeOK
  <2>4. Billed \in SUBSET Invocations
    BY Zenon DEF Billed
  <2>5. Cardinality(Billed) \in Nat /\ before \in Nat
    BY <2>4, CountingInvocations DEF InvocationsInv, InvocationsTypeOK
  <2>6. ~IsRetry(i) => Cardinality(window) < RateLimit
    BY <2>1, Zenon DEF IsRetry
  <2>7. before + Cardinality(Billed) < MonthlyLimit
    BY <2>1, <2>3, <2>5, InvocationsAssumption
  <2> QED
    BY <2>2, <2>6, <2>7, Zenon
<1> QED
  BY <1>1, InvocationsInvariance, PTL
=============================================================================
