----------------------- MODULE ScheduledActions_proofs -----------------------
(***************************************************************************)
(* Scheduled jobs under any number of overlapping, late and dying          *)
(* invocations, recovery sweeps and admins.                                *)
(*                                                                         *)
(* No lock lasts from a job's claim to its outcome, so several workers may *)
(* have a job at once and write its row in any order. What survives is the *)
(* count of attempts, raised under the row's lock: it gives every claim a  *)
(* number of its own (EveryAttemptIsOwn). The two bounds follow from       *)
(* counting who may still do harm: the attempts in some worker's memory    *)
(* that can still put the job back (Late, in PutBackBudget), and the       *)
(* workers already past the same-rule guard (PastGuard, in RowBudget).     *)
(***************************************************************************)
EXTENDS ScheduledActions, FiniteSetTheorems, TLAPS

\* A worker has a job at the stages that use one.
StagesTyped == \A w \in Workers : pc[w] \in Holding => job[w] \in Jobs

-----------------------------------------------------------------------------
(* Types *)

LEMMA InitTypes == Init => TypeOK /\ StagesTyped
  BY ScheduledActionsAssumption
     DEF Init, TypeOK, StagesTyped, Stages, Holding, Statuses, Terminal,
         Slots!Init

\* Every step keeps the types and gives a stage the job it uses.
LEMMA TypeStep ==
  ASSUME TypeOK, StagesTyped, [Next]_vars
  PROVE  TypeOK' /\ StagesTyped'
<1> USE ScheduledActionsAssumption
    DEF TypeOK, StagesTyped, Stages, Holding, Statuses, Terminal, rows,
        audit, memory, Goto, SetStatus
<1> DEFINE Goal == TypeOK' /\ StagesTyped'
<1>1. ASSUME UNCHANGED vars PROVE Goal
  BY <1>1 DEF vars
<1>2. ASSUME NEW j \in Jobs, NEW d \in Delays, Schedule(j, d) PROVE Goal
  BY <1>2 DEF Schedule
<1>3. ASSUME NEW S \in SUBSET Jobs, CancelPending(S) PROVE Goal
  BY <1>3 DEF CancelPending
<1>4. ASSUME NEW a \in Admins, NEW j \in Jobs, AdminRead(a, j) PROVE Goal
  BY <1>4 DEF AdminRead
<1>5. ASSUME NEW a \in Admins, AdminSave(a) PROVE Goal
  BY <1>5 DEF AdminSave
<1>6. ASSUME NEW w \in Workers, StartRun(w) PROVE Goal
  BY <1>6 DEF StartRun
<1>7. ASSUME NEW w \in Workers, ScanStale(w) PROVE Goal
  BY <1>7 DEF ScanStale
<1>8. ASSUME NEW w \in Workers, NEW j \in Jobs, RecoverOne(w, j) PROVE Goal
  BY <1>8 DEF RecoverOne, RetryOrFail, RecoveredAttempts
<1>9. ASSUME NEW w \in Workers, ScanDue(w) PROVE Goal
  BY <1>9 DEF ScanDue, Due
<1>10. ASSUME NEW w \in Workers, NEW j \in Jobs, Claim(w, j) PROVE Goal
  BY <1>10 DEF Claim
<1>11. ASSUME NEW w \in Workers, NEW j \in Jobs, PassOver(w, j) PROVE Goal
  BY <1>11 DEF PassOver
<1>12. ASSUME NEW w \in Workers, EndRun(w) \/ Guard(w) \/ Execute(w)
       PROVE  Goal
  BY <1>12 DEF EndRun, Guard, Execute
<1>13. ASSUME NEW w \in Workers, ReserveSlot(w) PROVE Goal
  BY <1>13 DEF ReserveSlot, Slots!Grant, Slots!Reenter, Slots!Refuse
<1>14. ASSUME NEW w \in Workers, RecordSuccess(w) PROVE Goal
  BY <1>14 DEF RecordSuccess
<1>15. ASSUME NEW w \in Workers, Finish(w) \/ Skip(w) \/ Fail(w) PROVE Goal
  BY <1>15 DEF Finish, Skip, Fail, LetGo, RetryOrFailTries, RetryOrFail
<1>16. ASSUME NEW w \in Workers, Crash(w) PROVE Goal
  BY <1>16 DEF Crash
<1>17. ASSUME Tick PROVE Goal
  BY <1>17 DEF Tick
<1>. QED
  <2> HIDE DEF Goal
  <2>1. Goal
    BY <1>1, <1>2, <1>3, <1>4, <1>5, <1>6, <1>7, <1>8, <1>9, <1>10, <1>11,
       <1>12, <1>13, <1>14, <1>15, <1>16, <1>17 DEF Next, RunStep
  <2>. QED
    BY <2>1 DEF Goal

\* The variables keep their types.
THEOREM TypeCorrect == Spec => []TypeOK
<1> DEFINE Inv == TypeOK /\ StagesTyped
<1>1. Inv /\ [Next]_vars => Inv'
  BY TypeStep
<1>2. Inv => TypeOK
  OBVIOUS
<1>. QED
  BY InitTypes, <1>1, <1>2, PTL DEF Spec

-----------------------------------------------------------------------------
(* What a step does to a worker, to a row and to the records *)

Outcome(w) == Finish(w) \/ Skip(w) \/ Fail(w)

HolderStep(w) ==
  \/ \E j \in Jobs : Claim(w, j)
  \/ /\ pc[w] \in Holding
     /\ job'[w] = job[w]
     /\ tries'[w] = tries[w]
     /\ \/ pc'[w] = pc[w]
        \/ Guard(w) \/ ReserveSlot(w) \/ Execute(w) \/ RecordSuccess(w)

RowStep(j) ==
  \/ attempts'[j] = attempts[j] /\ status'[j] = status[j]
  \/ /\ attempts'[j] = attempts[j]
     /\ \/ status[j] = "ABSENT" /\ status'[j] = "PENDING"
        \/ status'[j] = "CANCELLED"
  \/ \E w \in Workers : RecoverOne(w, j) \/ Claim(w, j)
  \/ \E w \in Workers : Outcome(w) /\ job[w] = j

RecordStep ==
  /\ succeeded' = succeeded \/ \E w \in Workers : RecordSuccess(w)
  /\ granted' = granted \/ \E w \in Workers : Slots!Grant(job[w])

\* Every step is of these shapes.
LEMMA StepShapes ==
  ASSUME TypeOK, StagesTyped, [Next]_vars
  PROVE  /\ \A w \in Workers : pc'[w] \in Holding => HolderStep(w)
         /\ \A j \in Jobs : RowStep(j)
         /\ RecordStep
<1> USE DEF TypeOK, StagesTyped, rows, audit, memory, Goto, SetStatus
<1> DEFINE Goal == /\ \A w \in Workers : pc'[w] \in Holding => HolderStep(w)
                   /\ \A j \in Jobs : RowStep(j)
                   /\ RecordStep
<1> USE DEF HolderStep, RowStep, RecordStep
<1>1. ASSUME UNCHANGED vars PROVE Goal
  BY <1>1 DEF vars
<1>2. ASSUME NEW j \in Jobs, NEW d \in Delays, Schedule(j, d) PROVE Goal
  BY <1>2 DEF Schedule, Schedulable
<1>3. ASSUME NEW S \in SUBSET Jobs, CancelPending(S) PROVE Goal
  BY <1>3 DEF CancelPending
<1>4. ASSUME NEW a \in Admins, NEW j \in Jobs, AdminRead(a, j) PROVE Goal
  BY <1>4 DEF AdminRead
<1>5. ASSUME NEW a \in Admins, AdminSave(a) PROVE Goal
  BY <1>5 DEF AdminSave
<1>6. ASSUME NEW w \in Workers, StartRun(w) \/ ScanStale(w) \/ ScanDue(w) \/ EndRun(w)
      PROVE  Goal
  BY <1>6 DEF StartRun, ScanStale, ScanDue, EndRun, Holding
<1>7. ASSUME NEW w \in Workers, NEW j \in Jobs, RecoverOne(w, j) PROVE Goal
  <2>1. \A i \in Jobs : i # j => attempts'[i] = attempts[i] /\ status'[i] = status[i]
    BY <1>7 DEF RecoverOne
  <2>2. UNCHANGED <<pc, job, tries, succeeded, granted>>
    BY <1>7 DEF RecoverOne
  <2>. QED
    BY <1>7, <2>1, <2>2
<1>8. ASSUME NEW w \in Workers, NEW j \in Jobs, Claim(w, j) PROVE Goal
  <2>1. \A i \in Jobs : i # j => attempts'[i] = attempts[i] /\ status'[i] = status[i]
    BY <1>8 DEF Claim
  <2>2. \A v \in Workers : v # w => pc'[v] = pc[v] /\ job'[v] = job[v] /\ tries'[v] = tries[v]
    BY <1>8 DEF Claim
  <2>3. UNCHANGED <<succeeded, granted>>
    BY <1>8 DEF Claim
  <2>. QED
    BY <1>8, <2>1, <2>2, <2>3
<1>9. ASSUME NEW w \in Workers, NEW j \in Jobs, PassOver(w, j) PROVE Goal
  BY <1>9 DEF PassOver
<1>10. ASSUME NEW w \in Workers,
              Guard(w) \/ ReserveSlot(w) \/ Execute(w) \/ RecordSuccess(w)
       PROVE  Goal
  <2>1. /\ UNCHANGED <<attempts, status, job, tries>>
        /\ \A v \in Workers : v # w => pc'[v] = pc[v]
        /\ pc[w] \in Holding
    BY <1>10 DEF Guard, ReserveSlot, Execute, RecordSuccess, Holding
  <2>2. RecordStep
    BY <1>10 DEF Guard, ReserveSlot, Execute, RecordSuccess, Slots!Reenter,
                 Slots!Refuse
  <2>. QED
    BY <1>10, <2>1, <2>2
<1>11. ASSUME NEW w \in Workers, Outcome(w) PROVE Goal
  <2>1. /\ UNCHANGED <<attempts, succeeded, granted>>
        /\ \A v \in Workers : v # w => pc'[v] = pc[v] /\ job'[v] = job[v] /\ tries'[v] = tries[v]
        /\ pc'[w] \notin Holding
        /\ \A i \in Jobs : i # job[w] => status'[i] = status[i]
    BY <1>11 DEF Outcome, Finish, Skip, Fail, LetGo, Holding
  <2>. QED
    BY <1>11, <2>1
<1>12. ASSUME NEW w \in Workers, Crash(w) PROVE Goal
  BY <1>12 DEF Crash, Holding
<1>13. ASSUME Tick PROVE Goal
  BY <1>13 DEF Tick
<1>. QED
  <2> HIDE DEF Goal
  <2>1. Goal
    BY <1>1, <1>2, <1>3, <1>4, <1>5, <1>6, <1>7, <1>8, <1>9, <1>10, <1>11,
       <1>12, <1>13 DEF Next, RunStep, Outcome
  <2>. QED
    BY <2>1 DEF Goal

-----------------------------------------------------------------------------
(* Attempts *)

\* An attempt in a worker's memory, or on record, was counted on the row.
AttemptsCounted ==
  /\ \A w \in Workers :
       pc[w] \in Holding => tries[w] \in 1..attempts[job[w]]
  /\ \A e \in succeeded : e[2] <= attempts[e[1]]
  /\ \A j \in Jobs : status[j] = "ABSENT" => attempts[j] = 0

AttemptsInv == TypeOK /\ StagesTyped /\ AttemptsCounted /\ EveryAttemptIsOwn

LEMMA InitAttemptsInv == Init => AttemptsInv
  BY InitTypes
     DEF Init, AttemptsInv, AttemptsCounted, EveryAttemptIsOwn, Holding, TypeOK

\* Attempts only grow, and a row once made stays made.
LEMMA RowsGrow ==
  ASSUME AttemptsInv, [Next]_vars, NEW j \in Jobs
  PROVE  /\ attempts'[j] \in Nat /\ attempts'[j] >= attempts[j]
         /\ status'[j] = "ABSENT" => status[j] = "ABSENT" /\ attempts'[j] = attempts[j]
         /\ ~(\E w \in Workers : Claim(w, j)) => attempts'[j] = attempts[j]
<1>0. TypeOK /\ RowStep(j)
  BY StepShapes DEF AttemptsInv
<1>1. ASSUME NEW w \in Workers, RecoverOne(w, j)
      PROVE  attempts'[j] = attempts[j] /\ (status'[j] = "ABSENT" => status[j] = "ABSENT")
  BY <1>0, <1>1 DEF RecoverOne, RecoveredAttempts, RetryOrFail, SetStatus, TypeOK
<1>2. ASSUME NEW w \in Workers, Claim(w, j)
      PROVE  attempts'[j] = attempts[j] + 1 /\ status'[j] # "ABSENT"
  BY <1>0, <1>2 DEF Claim, SetStatus, TypeOK
<1>3. ASSUME NEW w \in Workers, Outcome(w), job[w] = j
      PROVE  attempts'[j] = attempts[j] /\ status'[j] # "ABSENT"
  BY <1>0, <1>3 DEF Outcome, Finish, Skip, Fail, LetGo, RetryOrFailTries,
                    RetryOrFail, SetStatus, TypeOK
<1>. QED
  BY <1>0, <1>1, <1>2, <1>3 DEF RowStep, TypeOK

LEMMA AttemptsStep == AttemptsInv /\ [Next]_vars => AttemptsInv'
<1> SUFFICES ASSUME AttemptsInv, [Next]_vars PROVE AttemptsInv'
  OBVIOUS
<1>0. TypeOK' /\ StagesTyped'
  BY TypeStep DEF AttemptsInv
<1>1. \A w \in Workers : pc'[w] \in Holding => HolderStep(w)
  BY StepShapes DEF AttemptsInv
<1>2. RecordStep
  BY StepShapes DEF AttemptsInv
<1>3. \A j \in Jobs : /\ attempts[j] \in Nat /\ attempts'[j] \in Nat
                     /\ attempts'[j] >= attempts[j]
  BY RowsGrow DEF AttemptsInv, TypeOK
<1>4. ASSUME NEW w \in Workers, NEW j \in Jobs, Claim(w, j)
      PROVE  /\ job'[w] = j /\ tries'[w] = attempts[j] + 1
             /\ attempts'[j] = attempts[j] + 1 /\ succeeded' = succeeded
             /\ \A v \in Workers \ {w} : /\ pc'[v] = pc[v] /\ job'[v] = job[v]
                                         /\ tries'[v] = tries[v]
  BY <1>4 DEF Claim, Goto, audit, AttemptsInv, TypeOK
\* A worker that has a job either had it, with the same attempt, or claims it.
<1>5. ASSUME NEW w \in Workers, pc'[w] \in Holding
      PROVE  \/ pc[w] \in Holding /\ job'[w] = job[w] /\ tries'[w] = tries[w]
             \/ \E j \in Jobs : Claim(w, j)
  BY <1>1, <1>5 DEF HolderStep
<1>6. ASSUME NEW w \in Workers, RecordSuccess(w)
      PROVE  /\ pc[w] \in Holding /\ pc'[w] = "finish" /\ job[w] \in Jobs
             /\ succeeded' = succeeded \cup {<<job[w], tries[w]>>}
  BY <1>6 DEF RecordSuccess, Goto, Holding, AttemptsInv, TypeOK, StagesTyped
<1>7. AttemptsCounted'
  <2>1. ASSUME NEW w \in Workers, pc'[w] \in Holding
        PROVE  tries'[w] \in 1..attempts'[job'[w]]
    <3>1. CASE pc[w] \in Holding /\ job'[w] = job[w] /\ tries'[w] = tries[w]
      <4>1. job[w] \in Jobs /\ tries[w] \in 1..attempts[job[w]]
        BY <3>1 DEF AttemptsInv, AttemptsCounted, StagesTyped
      <4>. QED
        BY <3>1, <4>1, <1>3
    <3>2. CASE \E j \in Jobs : Claim(w, j)
      BY <3>2, <1>3, <1>4
    <3>. QED
      BY <2>1, <1>5, <3>1, <3>2
  <2>2. ASSUME NEW e \in succeeded' PROVE e[2] <= attempts'[e[1]]
    <3>1. CASE e \in succeeded
      <4>1. e[1] \in Jobs /\ e[2] \in Nat /\ e[2] <= attempts[e[1]]
        BY <3>1 DEF AttemptsInv, AttemptsCounted, TypeOK
      <4>. QED
        BY <4>1, <1>3
    <3>2. CASE e \notin succeeded
      <4>1. PICK w \in Workers : RecordSuccess(w)
        BY <1>2, <2>2, <3>2 DEF RecordStep
      <4>2. /\ e = <<job[w], tries[w]>> /\ job[w] \in Jobs
            /\ tries[w] \in 1..attempts[job[w]]
        BY <1>6, <2>2, <3>2, <4>1 DEF AttemptsInv, AttemptsCounted
      <4>. QED
        BY <4>2, <1>3
    <3>. QED
      BY <3>1, <3>2
  <2>3. \A j \in Jobs : status'[j] = "ABSENT" => attempts'[j] = 0
    BY RowsGrow DEF AttemptsInv, AttemptsCounted
  <2>. QED
    BY <2>1, <2>2, <2>3 DEF AttemptsCounted
<1>8. EveryAttemptIsOwn'
  <2>1. SUFFICES ASSUME NEW w \in Workers, pc'[w] \in Holding
        PROVE  /\ \A v \in Workers \ {w} :
                    pc'[v] \in Holding /\ job'[v] = job'[w] => tries'[v] # tries'[w]
               /\ pc'[w] \in {"guard", "reserve", "execute", "record"} =>
                    <<job'[w], tries'[w]>> \notin succeeded'
    BY DEF EveryAttemptIsOwn
  <2>2. CASE \E u \in Workers, j \in Jobs : Claim(u, j)
    <3>1. PICK u \in Workers, j \in Jobs : Claim(u, j)
      BY <2>2
    <3>2. \A v \in Workers \ {u} : pc[v] \in Holding /\ job[v] = j => tries[v] <= attempts[j]
      BY <1>3 DEF AttemptsInv, AttemptsCounted
    <3>3. <<j, attempts[j] + 1>> \notin succeeded
      <4>1. SUFFICES ASSUME <<j, attempts[j] + 1>> \in succeeded PROVE FALSE
        OBVIOUS
      <4>2. attempts[j] + 1 <= attempts[j]
        BY <4>1 DEF AttemptsInv, AttemptsCounted
      <4>. QED
        BY <4>2, <1>3
    <3>4. \A v \in Workers \ {u} : pc[v] \in Holding => tries[v] \in Nat
      BY DEF AttemptsInv, TypeOK
    <3>5. /\ job'[u] = j /\ tries'[u] = attempts[j] + 1 /\ succeeded' = succeeded
          /\ \A v \in Workers \ {u} : /\ pc'[v] = pc[v] /\ job'[v] = job[v]
                                      /\ tries'[v] = tries[v]
      BY <1>4, <3>1
    <3>6. CASE w = u
      BY <1>3, <3>2, <3>3, <3>4, <3>5, <3>6
    <3>7. CASE w # u
      <4>1. pc[w] \in Holding
        BY <2>1, <3>5, <3>7
      <4>2. \A v \in Workers \ {w} :
              pc'[v] \in Holding /\ job'[v] = job'[w] => tries'[v] # tries'[w]
        <5>1. ASSUME NEW v \in Workers \ {w}, pc'[v] \in Holding, job'[v] = job'[w]
              PROVE  tries'[v] # tries'[w]
          <6>1. CASE v = u
            BY <1>3, <3>2, <3>4, <3>5, <3>7, <4>1, <5>1, <6>1
          <6>2. CASE v # u
            BY <3>5, <3>7, <4>1, <5>1, <6>2 DEF AttemptsInv, EveryAttemptIsOwn
          <6>. QED
            BY <6>1, <6>2
        <5>. QED
          BY <5>1
      <4>3. pc'[w] \in {"guard", "reserve", "execute", "record"} =>
              <<job'[w], tries'[w]>> \notin succeeded'
        BY <3>5, <3>7, <4>1 DEF AttemptsInv, EveryAttemptIsOwn
      <4>. QED
        BY <4>2, <4>3
    <3>. QED
      BY <3>6, <3>7
  <2>3. CASE ~\E u \in Workers, j \in Jobs : Claim(u, j)
    <3>1. \A v \in Workers :
            pc'[v] \in Holding =>
              pc[v] \in Holding /\ job'[v] = job[v] /\ tries'[v] = tries[v]
      BY <1>5, <2>3
    <3>2. \A v \in Workers \ {w} :
            pc'[v] \in Holding /\ job'[v] = job'[w] => tries'[v] # tries'[w]
      BY <2>1, <3>1 DEF AttemptsInv, EveryAttemptIsOwn
    <3>3. ASSUME pc'[w] \in {"guard", "reserve", "execute", "record"}
          PROVE  <<job'[w], tries'[w]>> \notin succeeded'
      <4>1. pc[w] \in {"guard", "reserve", "execute", "record"}
        BY <1>1, <2>1, <2>3, <3>3
           DEF HolderStep, Guard, ReserveSlot, Execute, RecordSuccess
      <4>2. <<job[w], tries[w]>> \notin succeeded
        BY <4>1 DEF AttemptsInv, EveryAttemptIsOwn, Holding
      <4>3. ASSUME NEW v \in Workers, RecordSuccess(v)
            PROVE  v # w /\ <<job[v], tries[v]>> # <<job[w], tries[w]>>
        <5>1. v # w
          BY <1>6, <3>3, <4>3
        <5>. QED
          BY <1>6, <2>1, <3>1, <4>3, <5>1 DEF AttemptsInv, EveryAttemptIsOwn
      <4>. QED
        BY <1>2, <1>6, <2>1, <3>1, <4>2, <4>3 DEF RecordStep
    <3>. QED
      BY <3>2, <3>3
  <2>. QED
    BY <2>2, <2>3
<1>. QED
  BY <1>0, <1>7, <1>8 DEF AttemptsInv

\* However late the workers and however many the sweeps, no two workers have
\* the same attempt of a job, and none has one that already succeeded.
THEOREM AttemptsAreOwn == Spec => []EveryAttemptIsOwn
<1>1. AttemptsInv => EveryAttemptIsOwn
  BY DEF AttemptsInv
<1>. QED
  BY InitAttemptsInv, AttemptsStep, <1>1, PTL DEF Spec

-----------------------------------------------------------------------------
(* The bound on attempts *)

\* The attempts of a job below the maximum that some worker still has in its
\* memory: each of them may yet put the job back to PENDING, once.
Late(j) ==
  {n \in 1..(MaxAttempts - 1) :
     \E w \in Workers : pc[w] \in Holding /\ job[w] = j /\ tries[w] = n}

Waiting(j) == IF status[j] = "PENDING" THEN 1 ELSE 0

\* Once a job has used its attempts, what is left is one for each late worker.
PutBackBudget ==
  \A j \in Jobs :
    attempts[j] >= MaxAttempts =>
      attempts[j] + Waiting(j) + Cardinality(Late(j)) <= 2 * MaxAttempts - 1

LEMMA LateFinite ==
  ASSUME NEW S \in SUBSET (1..(MaxAttempts - 1))
  PROVE  IsFiniteSet(S) /\ Cardinality(S) \in Nat /\ Cardinality(S) <= MaxAttempts - 1
<1>1. MaxAttempts \in Nat \ {0}
  BY ScheduledActionsAssumption
<1>2. /\ IsFiniteSet(1..(MaxAttempts - 1))
      /\ Cardinality(1..(MaxAttempts - 1)) <= MaxAttempts - 1
  BY <1>1, FS_Interval
<1>3. IsFiniteSet(S) /\ Cardinality(S) <= Cardinality(1..(MaxAttempts - 1))
  BY <1>2, FS_Subset
<1>4. Cardinality(S) \in Nat /\ Cardinality(1..(MaxAttempts - 1)) \in Nat
  BY <1>2, <1>3, FS_CardinalityType
<1>. QED
  BY <1>1, <1>2, <1>3, <1>4

\* Without a claim of the job no attempt of it gets into anybody's memory, and
\* the worker that ends its attempt is the only one that had it.
LEMMA LateShrinks ==
  ASSUME AttemptsInv, [Next]_vars, NEW j \in Jobs,
         ~\E w \in Workers : Claim(w, j)
  PROVE  /\ Late(j)' \subseteq Late(j)
         /\ \A w \in Workers :
              Outcome(w) /\ job[w] = j => tries[w] \notin Late(j)'
<1>1. ASSUME NEW w \in Workers, pc'[w] \in Holding, job'[w] = j
      PROVE  pc[w] \in Holding /\ job[w] = j /\ tries'[w] = tries[w]
  <2>1. HolderStep(w)
    BY <1>1, StepShapes DEF AttemptsInv
  <2>2. \A i \in Jobs : Claim(w, i) => i = j
    BY <1>1 DEF Claim, AttemptsInv, TypeOK
  <2>. QED
    BY <1>1, <2>1, <2>2 DEF HolderStep
<1>2. Late(j)' \subseteq Late(j)
  BY <1>1 DEF Late
<1>3. ASSUME NEW w \in Workers, Outcome(w), job[w] = j,
             NEW v \in Workers, pc'[v] \in Holding, job'[v] = j
      PROVE  tries'[v] # tries[w]
  <2>1. v # w /\ pc[w] \in Holding
    BY <1>3 DEF Outcome, Finish, Skip, Fail, LetGo, Goto, Holding, AttemptsInv, TypeOK
  <2>. QED
    BY <1>1, <1>3, <2>1 DEF AttemptsInv, EveryAttemptIsOwn
<1>. QED
  BY <1>2, <1>3 DEF Late

LEMMA BudgetStep ==
  ASSUME AttemptsInv, PutBackBudget, [Next]_vars
  PROVE  PutBackBudget'
<1> SUFFICES ASSUME NEW j \in Jobs, attempts'[j] >= MaxAttempts
             PROVE  attempts'[j] + Waiting(j)' + Cardinality(Late(j)')
                      <= 2 * MaxAttempts - 1
  BY DEF PutBackBudget
<1>1. /\ MaxAttempts \in Nat \ {0}
      /\ attempts[j] \in Nat /\ attempts'[j] \in Nat
  BY ScheduledActionsAssumption, RowsGrow DEF AttemptsInv, TypeOK
<1>2. /\ IsFiniteSet(Late(j)) /\ Cardinality(Late(j)) \in Nat
      /\ IsFiniteSet(Late(j)') /\ Cardinality(Late(j)') \in Nat
      /\ Cardinality(Late(j)') <= MaxAttempts - 1
  <2>1. Late(j) \in SUBSET (1..(MaxAttempts - 1)) /\ Late(j)' \in SUBSET (1..(MaxAttempts - 1))
    BY DEF Late
  <2>. QED
    BY <2>1, LateFinite
<1>3. Waiting(j) \in {0, 1} /\ Waiting(j)' \in {0, 1}
  BY DEF Waiting
<1>4. CASE \E w \in Workers : Claim(w, j)
  <2>1. PICK w \in Workers : Claim(w, j)
    BY <1>4
  <2>2. /\ attempts'[j] = attempts[j] + 1
        /\ Waiting(j) = 1 /\ Waiting(j)' = 0
        /\ tries'[w] = attempts[j] + 1
        /\ \A v \in Workers \ {w} : pc'[v] = pc[v] /\ job'[v] = job[v] /\ tries'[v] = tries[v]
    BY <2>1 DEF Claim, Claimable, SetStatus, Goto, Waiting, AttemptsInv, TypeOK
  <2>3. CASE attempts[j] < MaxAttempts
    BY <1>1, <1>2, <2>2, <2>3
  <2>4. CASE attempts[j] >= MaxAttempts
    <3>1. Late(j)' \subseteq Late(j)
      BY <1>1, <2>2, <2>4 DEF Late
    <3>2. Cardinality(Late(j)') <= Cardinality(Late(j))
      BY <1>2, <3>1, FS_Subset
    <3>3. attempts[j] + 1 + Cardinality(Late(j)) <= 2 * MaxAttempts - 1
      BY <2>2, <2>4 DEF PutBackBudget
    <3>. QED
      BY <1>1, <1>2, <2>2, <3>2, <3>3
  <2>. QED
    BY <1>1, <2>3, <2>4
<1>5. CASE ~\E w \in Workers : Claim(w, j)
  <2>1. attempts'[j] = attempts[j]
    BY <1>5, RowsGrow
  <2>2. /\ attempts[j] >= MaxAttempts
        /\ attempts[j] + Waiting(j) + Cardinality(Late(j)) <= 2 * MaxAttempts - 1
    BY <2>1 DEF PutBackBudget
  <2>3. Late(j)' \subseteq Late(j)
    BY <1>5, LateShrinks
  <2>4. Cardinality(Late(j)') <= Cardinality(Late(j))
    BY <1>2, <2>3, FS_Subset
  <2>5. CASE Waiting(j)' <= Waiting(j)
    BY <1>1, <1>2, <1>3, <2>1, <2>2, <2>4, <2>5
  <2>6. CASE \E w \in Workers : Fail(w) /\ job[w] = j /\ tries[w] < MaxAttempts
    <3>1. PICK w \in Workers : Fail(w) /\ job[w] = j /\ tries[w] < MaxAttempts
      BY <2>6
    <3>2. tries[w] \in Late(j)
      BY <1>1, <3>1 DEF Late, Fail, Holding, AttemptsInv, AttemptsCounted
    <3>3. Late(j)' \subseteq Late(j) \ {tries[w]}
      BY <1>5, <2>3, <3>1, LateShrinks DEF Outcome
    <3>4. /\ IsFiniteSet(Late(j) \ {tries[w]})
          /\ Cardinality(Late(j) \ {tries[w]}) = Cardinality(Late(j)) - 1
      BY <1>2, <3>2, FS_RemoveElement
    <3>5. Cardinality(Late(j)') <= Cardinality(Late(j)) - 1
      BY <3>3, <3>4, FS_Subset
    <3>. QED
      BY <1>1, <1>2, <1>3, <2>1, <2>2, <3>5
  <2>7. \/ Waiting(j)' <= Waiting(j)
        \/ \E w \in Workers : Fail(w) /\ job[w] = j /\ tries[w] < MaxAttempts
    <3>1. RowStep(j)
      BY StepShapes DEF AttemptsInv
    <3>2. CASE attempts'[j] = attempts[j] /\ status'[j] = status[j]
      BY <3>2 DEF Waiting
    <3>3. CASE status[j] = "ABSENT"
      BY <1>1, <2>2, <3>3 DEF AttemptsInv, AttemptsCounted
    <3>4. CASE status'[j] = "CANCELLED"
      BY <3>4 DEF Waiting
    <3>5. ASSUME NEW w \in Workers, RecoverOne(w, j)
          PROVE  Waiting(j)' <= Waiting(j)
      BY <2>2, <3>5 DEF RecoverOne, RetryOrFail, SetStatus, Waiting, AttemptsInv, TypeOK
    <3>6. ASSUME NEW w \in Workers, Outcome(w), job[w] = j
          PROVE  \/ Waiting(j)' <= Waiting(j)
                 \/ Fail(w) /\ tries[w] < MaxAttempts
      <4>1. CASE Finish(w) \/ Skip(w)
        BY <3>6, <4>1 DEF Finish, Skip, SetStatus, Waiting, AttemptsInv, TypeOK
      <4>2. CASE Fail(w) /\ ~(tries[w] < MaxAttempts)
        <5>1. tries[w] >= MaxAttempts
          BY <1>1, <4>2 DEF AttemptsInv, TypeOK
        <5>2. status'[j] = "FAILED"
          BY <3>6, <4>2, <5>1 DEF Fail, RetryOrFailTries, RetryOrFail, SetStatus, AttemptsInv, TypeOK
        <5>. QED
          BY <5>2 DEF Waiting
      <4>. QED
        BY <3>6, <4>1, <4>2 DEF Outcome
    <3>. QED
      BY <1>5, <3>1, <3>2, <3>3, <3>4, <3>5, <3>6 DEF RowStep
  <2>. QED
    BY <2>5, <2>6, <2>7
<1>. QED
  BY <1>4, <1>5

\* Late workers and sweeps included, a job is claimed less than twice as often
\* as it may be.
THEOREM AttemptsStayBounded == Spec => []AttemptsBounded
<1> DEFINE Inv == AttemptsInv /\ PutBackBudget
<1>1. Init => Inv
  BY InitAttemptsInv, ScheduledActionsAssumption DEF Init, PutBackBudget
<1>2. Inv /\ [Next]_vars => Inv'
  BY AttemptsStep, BudgetStep
<1>3. Inv => AttemptsBounded
  <2> SUFFICES ASSUME Inv, NEW j \in Jobs
               PROVE  attempts[j] <= 2 * MaxAttempts - 1
    BY DEF AttemptsBounded
  <2>1. Late(j) \in SUBSET (1..(MaxAttempts - 1))
    BY DEF Late
  <2>2. Cardinality(Late(j)) \in Nat /\ Waiting(j) \in Nat
    BY <2>1, LateFinite DEF Waiting
  <2>3. attempts[j] \in Nat /\ MaxAttempts \in Nat \ {0}
    BY ScheduledActionsAssumption DEF AttemptsInv, TypeOK
  <2>4. attempts[j] >= MaxAttempts =>
          attempts[j] + Waiting(j) + Cardinality(Late(j)) <= 2 * MaxAttempts - 1
    BY DEF PutBackBudget
  <2>. QED
    BY <2>2, <2>3, <2>4
<1>. QED
  BY <1>1, <1>2, <1>3, PTL DEF Spec

-----------------------------------------------------------------------------
(* The bound on the successes of a rule *)

\* The workers that have passed the same-rule guard with a sibling of the job
\* and have not yet recorded how it went.
PastGuard(j) ==
  {w \in Workers :
     pc[w] \in {"reserve", "execute", "record"} /\ job[w] \in Siblings(j)}

Rows(j) == {e \in succeeded : e[1] \in Siblings(j)}

\* From the first success on, further ones are left to those past the guard.
RowBudget ==
  /\ IsFiniteSet(succeeded)
  /\ \A j \in Jobs :
       RuleOf[j] # NoRule /\ Rows(j) # {} =>
         Cardinality(Rows(j)) + Cardinality(PastGuard(j)) <= Cardinality(Workers)

LEMMA RowBudgetStep ==
  ASSUME AttemptsInv, RowBudget, [Next]_vars
  PROVE  RowBudget'
<1>1. IsFiniteSet(Workers) /\ Cardinality(Workers) \in Nat
  BY ScheduledActionsAssumption, FS_CardinalityType
<1>2. /\ IsFiniteSet(succeeded')
      /\ \/ succeeded' = succeeded
         \/ \E w \in Workers :
              RecordSuccess(w) /\ succeeded' = succeeded \cup {<<job[w], tries[w]>>}
  <2>1. CASE succeeded' = succeeded
    BY <2>1 DEF RowBudget
  <2>2. ASSUME NEW w \in Workers, RecordSuccess(w)
        PROVE  /\ succeeded' = succeeded \cup {<<job[w], tries[w]>>}
               /\ IsFiniteSet(succeeded')
    <3>1. succeeded' = succeeded \cup {<<job[w], tries[w]>>}
      BY <2>2 DEF RecordSuccess
    <3>. QED
      BY <3>1, FS_AddElement DEF RowBudget
  <2>. QED
    BY <2>1, <2>2, StepShapes DEF RecordStep, AttemptsInv
<1>3. SUFFICES ASSUME NEW j \in Jobs, RuleOf[j] # NoRule, Rows(j)' # {}
               PROVE  Cardinality(Rows(j)') + Cardinality(PastGuard(j)')
                        <= Cardinality(Workers)
  BY <1>2 DEF RowBudget
<1>4. /\ IsFiniteSet(Rows(j)) /\ Cardinality(Rows(j)) \in Nat
      /\ IsFiniteSet(Rows(j)') /\ Cardinality(Rows(j)') \in Nat
  <2>1. Rows(j) \in SUBSET succeeded /\ Rows(j)' \in SUBSET succeeded'
    BY DEF Rows
  <2>2. IsFiniteSet(Rows(j)) /\ IsFiniteSet(Rows(j)')
    BY <1>2, <2>1, FS_Subset DEF RowBudget
  <2>. QED
    BY <2>2, FS_CardinalityType
<1>5. /\ IsFiniteSet(PastGuard(j)) /\ Cardinality(PastGuard(j)) \in Nat
      /\ IsFiniteSet(PastGuard(j)') /\ Cardinality(PastGuard(j)') \in Nat
  <2>1. PastGuard(j) \in SUBSET Workers /\ PastGuard(j)' \in SUBSET Workers
    BY DEF PastGuard
  <2>2. IsFiniteSet(PastGuard(j)) /\ IsFiniteSet(PastGuard(j)')
    BY <1>1, <2>1, FS_Subset
  <2>. QED
    BY <2>2, FS_CardinalityType
\* Past the guard one gets through it only: with a success on record, never.
<1>6. ASSUME NEW w \in PastGuard(j)'
      PROVE  /\ w \in Workers /\ job'[w] = job[w] /\ job[w] \in Siblings(j)
             /\ w \in PastGuard(j) \/ (Guard(w) /\ ~AlreadyRan(job[w]))
  <2>1. /\ w \in Workers /\ pc'[w] \in {"reserve", "execute", "record"}
        /\ job'[w] \in Siblings(j)
    BY <1>6 DEF PastGuard
  <2>2. HolderStep(w)
    BY <2>1, StepShapes DEF AttemptsInv, Holding
  <2>3. ~\E i \in Jobs : Claim(w, i)
    BY <2>1 DEF Claim, Goto, AttemptsInv, TypeOK
  <2>4. job'[w] = job[w] /\ job[w] \in Siblings(j)
    BY <2>1, <2>2, <2>3 DEF HolderStep
  <2>5. ~RecordSuccess(w)
    BY <2>1 DEF RecordSuccess, Goto, AttemptsInv, TypeOK
  <2>6. CASE pc'[w] = pc[w]
    BY <2>1, <2>4, <2>6 DEF PastGuard
  <2>7. CASE Guard(w)
    BY <2>1, <2>4, <2>7 DEF Guard, Goto, AttemptsInv, TypeOK
  <2>8. CASE ReserveSlot(w) \/ Execute(w)
    BY <2>1, <2>4, <2>8 DEF ReserveSlot, Execute, PastGuard
  <2>. QED
    BY <2>1, <2>2, <2>3, <2>4, <2>5, <2>6, <2>7, <2>8 DEF HolderStep
<1>7. ASSUME NEW w \in Workers, Guard(w), job[w] \in Siblings(j), ~AlreadyRan(job[w])
      PROVE  Rows(j) = {}
  BY <1>3, <1>7 DEF AlreadyRan, Siblings, Rows
<1>8. CASE \E w \in Workers : /\ RecordSuccess(w) /\ job[w] \in Siblings(j)
                            /\ succeeded' = succeeded \cup {<<job[w], tries[w]>>}
  <2>1. PICK w \in Workers : /\ RecordSuccess(w) /\ job[w] \in Siblings(j)
                            /\ succeeded' = succeeded \cup {<<job[w], tries[w]>>}
    BY <1>8
  <2>2. w \in PastGuard(j) /\ w \notin PastGuard(j)'
    BY <2>1 DEF PastGuard, RecordSuccess, Goto, AttemptsInv, TypeOK
  <2>3. Rows(j)' = Rows(j) \cup {<<job[w], tries[w]>>}
    BY <2>1 DEF Rows
  <2>4. Cardinality(Rows(j)') <= Cardinality(Rows(j)) + 1
    <3>1. Cardinality(Rows(j) \cup {<<job[w], tries[w]>>}) =
            IF <<job[w], tries[w]>> \in Rows(j)
              THEN Cardinality(Rows(j)) ELSE Cardinality(Rows(j)) + 1
      BY <1>4, FS_AddElement
    <3>. QED
      BY <1>4, <2>3, <3>1
  <2>5. \A v \in Workers : ~Guard(v)
    BY <2>1 DEF Guard, RecordSuccess, Goto, AttemptsInv, TypeOK
  <2>6. PastGuard(j)' \subseteq PastGuard(j) \ {w}
    BY <1>6, <2>2, <2>5
  <2>7. /\ IsFiniteSet(PastGuard(j) \ {w})
        /\ Cardinality(PastGuard(j) \ {w}) = Cardinality(PastGuard(j)) - 1
    BY <1>5, <2>2, FS_RemoveElement
  <2>8. Cardinality(PastGuard(j)') <= Cardinality(PastGuard(j)) - 1
    BY <2>6, <2>7, FS_Subset
  <2>9. CASE Rows(j) = {}
    <3>1. Cardinality(Rows(j)) = 0
      BY <2>9, FS_EmptySet
    <3>2. Cardinality(PastGuard(j)) <= Cardinality(Workers)
      BY <1>1, FS_Subset DEF PastGuard
    <3>. QED
      BY <1>1, <1>4, <1>5, <2>4, <2>8, <3>1, <3>2
  <2>10. CASE Rows(j) # {}
    <3>1. Cardinality(Rows(j)) + Cardinality(PastGuard(j)) <= Cardinality(Workers)
      BY <1>3, <2>10 DEF RowBudget
    <3>. QED
      BY <1>1, <1>4, <1>5, <2>4, <2>8, <3>1
  <2>. QED
    BY <2>9, <2>10
<1>9. CASE ~\E w \in Workers : /\ RecordSuccess(w) /\ job[w] \in Siblings(j)
                             /\ succeeded' = succeeded \cup {<<job[w], tries[w]>>}
  <2>1. Rows(j)' = Rows(j)
    BY <1>2, <1>9 DEF Rows
  <2>2. PastGuard(j)' \subseteq PastGuard(j)
    BY <1>3, <1>6, <1>7, <2>1
  <2>3. Cardinality(PastGuard(j)') <= Cardinality(PastGuard(j))
    BY <1>5, <2>2, FS_Subset
  <2>4. Cardinality(Rows(j)) + Cardinality(PastGuard(j)) <= Cardinality(Workers)
    BY <1>3, <2>1 DEF RowBudget
  <2>. QED
    BY <1>1, <1>4, <1>5, <2>1, <2>3, <2>4
<1>. QED
  BY <1>8, <1>9

\* However the workers overlap, a rule's scheduled follow-throughs succeed no
\* more often in a chain than there are workers.
THEOREM RuleSuccessesBounded == Spec => []SuccessesWithinWorkers
<1> DEFINE Inv == AttemptsInv /\ RowBudget
<1>1. Init => Inv
  BY InitAttemptsInv, FS_EmptySet DEF Init, RowBudget, Rows
<1>2. Inv /\ [Next]_vars => Inv'
  BY AttemptsStep, RowBudgetStep
<1>3. Inv => SuccessesWithinWorkers
  <2> SUFFICES ASSUME Inv, NEW j \in Jobs, RuleOf[j] # NoRule
               PROVE  Cardinality(Rows(j)) <= Cardinality(Workers)
    BY DEF SuccessesWithinWorkers, Rows
  <2>1. IsFiniteSet(Workers) /\ Cardinality(Workers) \in Nat
    BY ScheduledActionsAssumption, FS_CardinalityType
  <2>2. Cardinality(PastGuard(j)) \in Nat
    BY <2>1, FS_Subset, FS_CardinalityType DEF PastGuard
  <2>3. Cardinality(Rows(j)) \in Nat
    BY FS_Subset, FS_CardinalityType DEF RowBudget, Rows
  <2>4. CASE Rows(j) = {}
    BY <2>1, <2>4, FS_EmptySet
  <2>5. CASE Rows(j) # {}
    BY <2>1, <2>2, <2>3, <2>5 DEF RowBudget
  <2>. QED
    BY <2>4, <2>5
<1>. QED
  BY <1>1, <1>2, <1>3, PTL DEF Spec

-----------------------------------------------------------------------------
(* Outcomes *)

\* Why a job may end SKIPPED.
Skippable(j) == j \in Unrunnable \/ AlreadyRan(j) \/ SlotsGone(j)

HasSucceeded(j) == \E e \in succeeded : e[1] = j

\* A worker about to write an outcome has earned it already.
AboutToWrite ==
  \A w \in Workers :
    /\ pc[w] = "finish" => HasSucceeded(job[w])
    /\ pc[w] = "skip" => Skippable(job[w])

\* What earns an outcome does not go away.
LEMMA ReasonsLast ==
  ASSUME AttemptsInv, [Next]_vars, NEW j \in Jobs
  PROVE  /\ HasSucceeded(j) => HasSucceeded(j)'
         /\ Skippable(j) => Skippable(j)'
<1>1. RecordStep
  BY StepShapes DEF AttemptsInv
<1>2. succeeded \subseteq succeeded'
  BY <1>1 DEF RecordStep, RecordSuccess
<1>3. ASSUME SlotsGone(j) PROVE SlotsGone(j)'
  <2>1. CASE granted' = granted
    BY <1>3, <2>1 DEF SlotsGone, Slots!Full, Slots!HeldBy
  <2>2. ASSUME NEW w \in Workers, Slots!Grant(job[w])
        PROVE  SlotsGone(j)'
    <3>1. /\ ~Slots!Full(CorrelationOf[job[w]])
          /\ granted' = granted \cup {job[w]}
      BY <2>2 DEF Slots!Grant
    <3>2. CorrelationOf[job[w]] # CorrelationOf[j] /\ job[w] # j
      BY <1>3, <3>1 DEF SlotsGone
    <3>3. Slots!HeldBy(CorrelationOf[j])' = Slots!HeldBy(CorrelationOf[j])
      BY <3>1, <3>2 DEF Slots!HeldBy
    <3>. QED
      BY <1>3, <3>1, <3>2, <3>3 DEF SlotsGone, Slots!Full
  <2>. QED
    BY <1>1, <2>1, <2>2 DEF RecordStep
<1>4. AlreadyRan(j) => AlreadyRan(j)'
  BY <1>2 DEF AlreadyRan, Siblings
<1>. QED
  BY <1>2, <1>3, <1>4 DEF HasSucceeded, Skippable

LEMMA OutcomesStep ==
  ASSUME AttemptsInv, AboutToWrite, OutcomesEarned, [Next]_vars
  PROVE  AboutToWrite' /\ OutcomesEarned'
<1>1. ASSUME NEW w \in Workers, pc'[w] \in {"finish", "skip"}
      PROVE  /\ pc'[w] = "finish" => HasSucceeded(job[w])' /\ job'[w] = job[w]
             /\ pc'[w] = "skip" => Skippable(job[w])' /\ job'[w] = job[w]
  <2>1. HolderStep(w) /\ ~\E j \in Jobs : Claim(w, j)
    BY <1>1, StepShapes DEF Claim, Goto, Holding, AttemptsInv, TypeOK
  <2>2. pc[w] \in Holding /\ job[w] \in Jobs /\ job'[w] = job[w]
    BY <2>1 DEF HolderStep, AttemptsInv, StagesTyped
  <2>3. CASE pc'[w] = pc[w]
    BY <1>1, <2>2, <2>3, ReasonsLast DEF AboutToWrite
  <2>4. CASE Guard(w)
    <3>1. pc'[w] = "skip" /\ (job[w] \in Unrunnable \/ AlreadyRan(job[w]))
      BY <1>1, <2>4 DEF Guard, Goto, AttemptsInv, TypeOK
    <3>2. Skippable(job[w])
      BY <3>1 DEF Skippable
    <3>. QED
      BY <2>2, <3>1, <3>2, ReasonsLast
  <2>5. CASE ReserveSlot(w)
    <3>1. pc'[w] = "skip" /\ Slots!Refuse(job[w])
      BY <1>1, <2>5 DEF ReserveSlot, Goto, AttemptsInv, TypeOK
    <3>2. Skippable(job[w])
      BY <3>1 DEF Skippable, SlotsGone, Slots!Refuse
    <3>. QED
      BY <2>2, <3>1, <3>2, ReasonsLast
  <2>6. CASE Execute(w)
    BY <1>1, <2>6 DEF Execute, Goto, AttemptsInv, TypeOK
  <2>7. CASE RecordSuccess(w)
    <3>1. /\ pc'[w] = "finish"
          /\ <<job[w], tries[w]>> \in succeeded'
      BY <2>7 DEF RecordSuccess, Goto, AttemptsInv, TypeOK
    <3>2. job'[w] = job[w] /\ <<job[w], tries[w]>>[1] = job[w]
      BY <2>2
    <3>3. \E e \in succeeded' : e[1] = job[w]
      BY <3>1, <3>2
    <3>4. job[w]' = job[w]
      BY <3>2
    <3>. QED
      BY <3>1, <3>3, <3>4 DEF HasSucceeded
  <2>. QED
    BY <2>1, <2>3, <2>4, <2>5, <2>6, <2>7 DEF HolderStep
<1>2. AboutToWrite'
  <2>1. \A w \in Workers : pc'[w] = "finish" => HasSucceeded(job[w])' /\ job'[w] = job[w]
    BY <1>1
  <2>2. \A w \in Workers : pc'[w] = "skip" => Skippable(job[w])' /\ job'[w] = job[w]
    BY <1>1
  <2>. QED
    BY <2>1, <2>2
       DEF AboutToWrite, HasSucceeded, Skippable, AlreadyRan, Siblings, SlotsGone,
           Slots!Full, Slots!HeldBy
\* An outcome that is new on a row was written by its worker or by a sweep.
<1>3. ASSUME NEW j \in Jobs
      PROVE  \/ status'[j] = status[j]
             \/ status'[j] \in {"PENDING", "RUNNING", "CANCELLED"}
             \/ status'[j] = "FAILED" /\ attempts'[j] >= MaxAttempts
             \/ status'[j] = "SUCCEEDED" /\ HasSucceeded(j)
             \/ status'[j] = "SKIPPED" /\ Skippable(j)
  <2>1. RowStep(j) /\ attempts[j] \in Nat /\ MaxAttempts \in Nat
    BY StepShapes, ScheduledActionsAssumption DEF AttemptsInv, TypeOK
  <2>2. ASSUME NEW w \in Workers, RecoverOne(w, j)
        PROVE  \/ status'[j] \in {status[j], "PENDING"}
               \/ status'[j] = "FAILED" /\ attempts'[j] >= MaxAttempts
    BY <2>1, <2>2
       DEF RecoverOne, RecoveredAttempts, RetryOrFail, SetStatus, AttemptsInv, TypeOK
  <2>3. ASSUME NEW w \in Workers, Claim(w, j) PROVE status'[j] = "RUNNING"
    BY <2>3 DEF Claim, SetStatus, AttemptsInv, TypeOK
  <2>4. ASSUME NEW w \in Workers, Finish(w), job[w] = j
        PROVE  status'[j] = "SUCCEEDED" /\ HasSucceeded(j)
    BY <2>4 DEF Finish, SetStatus, AboutToWrite, AttemptsInv, TypeOK
  <2>5. ASSUME NEW w \in Workers, Skip(w), job[w] = j
        PROVE  status'[j] = "SKIPPED" /\ Skippable(j)
    BY <2>5 DEF Skip, SetStatus, AboutToWrite, AttemptsInv, TypeOK
  <2>6. ASSUME NEW w \in Workers, Fail(w), job[w] = j
        PROVE  \/ status'[j] = "PENDING"
               \/ status'[j] = "FAILED" /\ attempts'[j] >= MaxAttempts
    <3>1. /\ status'[j] = RetryOrFail(tries[w]) /\ attempts' = attempts
          /\ tries[w] \in 1..attempts[j]
      BY <2>6 DEF Fail, LetGo, RetryOrFailTries, SetStatus, Holding, AttemptsInv,
                  AttemptsCounted, TypeOK
    <3>. QED
      BY <2>1, <3>1 DEF RetryOrFail
  <2>. QED
    BY <2>1, <2>2, <2>3, <2>4, <2>5, <2>6 DEF RowStep, Outcome
<1>4. OutcomesEarned'
  <2>1. SUFFICES ASSUME NEW j \in Jobs
                 PROVE  /\ status'[j] = "SUCCEEDED" => HasSucceeded(j)'
                        /\ status'[j] = "FAILED" => attempts'[j] >= MaxAttempts
                        /\ status'[j] = "SKIPPED" => Skippable(j)'
    BY DEF OutcomesEarned, HasSucceeded, Skippable
  <2>2. /\ status[j] = "SUCCEEDED" => HasSucceeded(j)
        /\ status[j] = "FAILED" => attempts[j] >= MaxAttempts
        /\ status[j] = "SKIPPED" => Skippable(j)
    BY DEF OutcomesEarned, HasSucceeded, Skippable
  <2>3. /\ HasSucceeded(j) => HasSucceeded(j)'
        /\ Skippable(j) => Skippable(j)'
    BY ReasonsLast
  <2>4. /\ MaxAttempts \in Nat /\ attempts[j] \in Nat /\ attempts'[j] \in Nat
        /\ attempts'[j] >= attempts[j]
    BY RowsGrow, ScheduledActionsAssumption DEF AttemptsInv, TypeOK
  <2>. QED
    BY <1>3, <2>2, <2>3, <2>4
<1>. QED
  BY <1>2, <1>4

\* No outcome on a row is made up, whoever wrote it and however late.
THEOREM OutcomesAreEarned == Spec => []OutcomesEarned
<1> DEFINE Inv == AttemptsInv /\ AboutToWrite /\ OutcomesEarned
<1>1. Init => Inv
  BY InitAttemptsInv DEF Init, AboutToWrite, OutcomesEarned
<1>2. Inv /\ [Next]_vars => Inv'
  BY AttemptsStep, OutcomesStep
<1>. QED
  BY <1>1, <1>2, PTL DEF Spec

=============================================================================
