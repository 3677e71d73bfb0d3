-------------------------- MODULE ScheduledActions --------------------------
(***************************************************************************)
(* The life of ScheduledAction rows: created by SCHEDULE_ACTION            *)
(* (automations/scheduling.py), cancelled by an admin or by an automation, *)
(* and executed by invocations of process_automation_jobs that overlap,    *)
(* stall and die.                                                          *)
(*                                                                         *)
(* One step is one database transaction or one autocommitted statement of  *)
(* the command. A row lock taken with SKIP LOCKED is never seen held here, *)
(* and loses nothing by it: a transaction that would have skipped the row  *)
(* finds it, once the lock holder has committed, in a status it does not   *)
(* select either, and returns None in both cases.                          *)
(*                                                                         *)
(* Abstracted: what an action does (its repetition is the subject of       *)
(* SideEffectLedger), audit rows nothing reads, error texts. Taking an     *)
(* action slot is one step of BoundedSlots, which ActionSlots implements.  *)
(***************************************************************************)
EXTENDS Integers, FiniteSets

CONSTANTS
  Workers,        \* processes running process_automation_jobs
  Recoverers,     \* those run with --recover-stale (the default)
  Admins,         \* workspace admins using the cancel endpoint
  Jobs,           \* logical delayed actions, by idempotency_key
  NoJob,
  Rules, NoRule,
  RuleOf,         \* the rule that scheduled a job, NoRule once it is deleted
  Correlations,
  CorrelationOf,
  Unrunnable,     \* no conversation, another workspace's, or depth > 5
  Limit,          \* MAX_ACTIONS_PER_CORRELATION
  MaxAttempts,    \* ScheduledAction.max_attempts
  BatchSize,      \* --batch-size
  StaleAfter,     \* --stale-after-seconds, in clock ticks
  Delays,         \* delay_minutes an action may ask for, in clock ticks
  MaxTime,        \* bound: the last tick of the clock
  MaxCrashes      \* bound: worker crashes

ASSUME ScheduledActionsAssumption ==
  /\ IsFiniteSet(Workers)
  /\ Recoverers \subseteq Workers
  /\ NoJob \notin Jobs
  /\ NoRule \notin Rules
  /\ RuleOf \in [Jobs -> Rules \cup {NoRule}]
  /\ CorrelationOf \in [Jobs -> Correlations]
  /\ Unrunnable \subseteq Jobs
  /\ Limit \in Nat
  /\ MaxAttempts \in Nat \ {0}
  /\ BatchSize \in Nat \ {0}
  /\ StaleAfter \in Nat
  /\ Delays \subseteq Nat
  /\ MaxTime \in Nat
  /\ MaxCrashes \in Nat

VARIABLES
  now,            \* the wall clock
  status,         \* ScheduledAction.status; "ABSENT" before the row exists
  attempts,       \* ScheduledAction.attempts
  executeAt,      \* ScheduledAction.execute_at
  lockedAt,       \* ScheduledAction.locked_at, meaningful while RUNNING
  succeeded,      \* SUCCEEDED executions on record: <<job, its attempt>>
  granted,        \* jobs that hold an action slot of their correlation
  pc,             \* where each worker is in handle()
  runNow,         \* handle()'s `now`, taken once per invocation
  stale,          \* ids the recovery scan returned, not yet looked at
  batch,          \* ids the due scan returned, not yet looked at
  job,            \* the claimed job, NoJob between jobs
  tries,          \* attempts of the job object in the worker's memory
  adminJob,       \* the row a cancel request has read as PENDING
  crashes

rows == <<status, attempts, executeAt, lockedAt>>
audit == <<succeeded, granted>>
memory == <<runNow, stale, batch, job, tries>>
vars == <<now, rows, audit, pc, memory, adminJob, crashes>>

Terminal == {"SUCCEEDED", "FAILED", "CANCELLED", "SKIPPED"}
Statuses == Terminal \cup {"ABSENT", "PENDING", "RUNNING"}

\* The stages of _run_job, from the claim to _finish() or _fail().
Holding == {"guard", "reserve", "execute", "record", "finish", "fail", "skip"}
Stages == Holding \cup {"idle", "sweep", "recover", "claim"}

Slots == INSTANCE BoundedSlots WITH Keys <- Jobs

Init ==
  /\ now = 0
  /\ status = [j \in Jobs |-> "ABSENT"]
  /\ attempts = [j \in Jobs |-> 0]
  /\ executeAt = [j \in Jobs |-> 0]
  /\ lockedAt = [j \in Jobs |-> 0]
  /\ succeeded = {}
  /\ Slots!Init
  /\ pc = [w \in Workers |-> "idle"]
  /\ runNow = [w \in Workers |-> 0]
  /\ stale = [w \in Workers |-> {}]
  /\ batch = [w \in Workers |-> {}]
  /\ job = [w \in Workers |-> NoJob]
  /\ tries = [w \in Workers |-> 0]
  /\ adminJob = [a \in Admins |-> NoJob]
  /\ crashes = 0

Goto(w, stage) == pc' = [pc EXCEPT ![w] = stage]

SetStatus(j, s) == status' = [status EXCEPT ![j] = s]

-----------------------------------------------------------------------------
(* Creation and cancellation *)

\* get_or_create() by idempotency key: only the first request makes a row,
\* whatever the row's status is when the request is repeated.
Schedulable(j) == status[j] = "ABSENT"

Schedule(j, d) ==
  /\ Schedulable(j)
  /\ now + d <= MaxTime
  /\ SetStatus(j, "PENDING")
  /\ executeAt' = [executeAt EXCEPT ![j] = now + d]
  /\ UNCHANGED <<now, attempts, lockedAt, audit, pc, memory, adminJob, crashes>>

Cancellable(j) == status[j] = "PENDING"

\* The CANCEL_SCHEDULED_ACTION action: one UPDATE over the pending rows of a
\* conversation, or over the one row its idempotency key names.
CancelPending(S) ==
  /\ S # {}
  /\ \A j \in S : Cancellable(j)
  /\ status' = [j \in Jobs |-> IF j \in S THEN "CANCELLED" ELSE status[j]]
  /\ UNCHANGED <<now, attempts, executeAt, lockedAt, audit, pc, memory,
                 adminJob, crashes>>

\* The cancel endpoint reads the row and turns down any that is not PENDING.
AdminRead(a, j) ==
  /\ adminJob[a] = NoJob
  /\ status[j] = "PENDING"
  /\ adminJob' = [adminJob EXCEPT ![a] = j]
  /\ UNCHANGED <<now, rows, audit, pc, memory, crashes>>

\* ... and then saves CANCELLED, without having locked the row.
AdminSave(a) ==
  /\ adminJob[a] # NoJob
  /\ SetStatus(adminJob[a], "CANCELLED")
  /\ adminJob' = [adminJob EXCEPT ![a] = NoJob]
  /\ UNCHANGED <<now, attempts, executeAt, lockedAt, audit, pc, memory, crashes>>

-----------------------------------------------------------------------------
(* One invocation of the command: recovery sweep, due scan, jobs in turn *)

StartRun(w) ==
  /\ pc[w] = "idle"
  /\ runNow' = [runNow EXCEPT ![w] = now]
  /\ Goto(w, IF w \in Recoverers THEN "sweep" ELSE "recover")
  /\ UNCHANGED <<now, rows, audit, stale, batch, job, tries,
                 adminJob, crashes>>

\* Mutant: recovery never finds anything.
NeverStale(w, j) == FALSE

\* RUNNING with a lock older than the cutoff of this invocation.
IsStale(w, j) ==
  status[j] = "RUNNING" /\ lockedAt[j] < runNow[w] - StaleAfter

ScanStale(w) ==
  /\ pc[w] = "sweep"
  /\ stale' = [stale EXCEPT ![w] = {j \in Jobs : IsStale(w, j)}]
  /\ Goto(w, "recover")
  /\ UNCHANGED <<now, rows, audit, runNow, batch, job, tries,
                 adminJob, crashes>>

\* Back to PENDING for another attempt, or FAILED for good.
RetryOrFail(n) == IF n >= MaxAttempts THEN "FAILED" ELSE "PENDING"

\* Mutant: recovery gives the attempt it breaks off back.
GivenBack(n) == n - 1

\* Recovery leaves the count alone: the claim that took the lock raised it.
RecoveredAttempts(n) == n

\* _recover_one: under the row's lock, but only its status is looked at again.
RecoverOne(w, j) ==
  /\ pc[w] = "recover"
  /\ j \in stale[w]
  /\ stale' = [stale EXCEPT ![w] = @ \ {j}]
  /\ IF status[j] = "RUNNING"
     THEN /\ SetStatus(j, RetryOrFail(attempts[j]))
          /\ attempts' = [attempts EXCEPT ![j] = RecoveredAttempts(@)]
     ELSE UNCHANGED <<status, attempts>>
  /\ UNCHANGED <<now, executeAt, lockedAt, audit, pc, runNow,
                 batch, job, tries, adminJob, crashes>>

Due(w) == {j \in Jobs : status[j] = "PENDING" /\ executeAt[j] <= runNow[w]}

\* A batch: the BatchSize earliest due jobs, or all of them.
IsBatch(S, D) ==
  /\ S \subseteq D
  /\ Cardinality(S) <= BatchSize
  /\ Cardinality(S) < BatchSize => S = D
  /\ \A i \in S, j \in D \ S : executeAt[i] <= executeAt[j]

ScanDue(w) ==
  /\ pc[w] = "recover"
  /\ stale[w] = {}
  /\ \E S \in SUBSET Due(w) :
       IsBatch(S, Due(w)) /\ batch' = [batch EXCEPT ![w] = S]
  /\ Goto(w, "claim")
  /\ UNCHANGED <<now, rows, audit, runNow, stale, job, tries,
                 adminJob, crashes>>

\* Jobs are taken in execute_at order.
NextInBatch(w, j) ==
  j \in batch[w] /\ \A i \in batch[w] : executeAt[j] <= executeAt[i]

Claimable(j) == status[j] = "PENDING"

\* _claim: the row must still be PENDING under its lock; locked_at is the
\* invocation's start, not the moment of the claim.
Claim(w, j) ==
  /\ pc[w] = "claim"
  /\ NextInBatch(w, j)
  /\ Claimable(j)
  /\ batch' = [batch EXCEPT ![w] = @ \ {j}]
  /\ SetStatus(j, "RUNNING")
  /\ lockedAt' = [lockedAt EXCEPT ![j] = runNow[w]]
  /\ attempts' = [attempts EXCEPT ![j] = @ + 1]
  /\ job' = [job EXCEPT ![w] = j]
  /\ tries' = [tries EXCEPT ![w] = attempts[j] + 1]
  /\ Goto(w, "guard")
  /\ UNCHANGED <<now, executeAt, audit, runNow, stale, adminJob, crashes>>

\* Claimed by someone else since the scan, or cancelled: on to the next.
PassOver(w, j) ==
  /\ pc[w] = "claim"
  /\ NextInBatch(w, j)
  /\ ~Claimable(j)
  /\ batch' = [batch EXCEPT ![w] = @ \ {j}]
  /\ UNCHANGED <<now, rows, audit, pc, runNow, stale, job, tries,
                 adminJob, crashes>>

EndRun(w) ==
  /\ pc[w] = "claim"
  /\ batch[w] = {}
  /\ Goto(w, "idle")
  /\ runNow' = [runNow EXCEPT ![w] = 0]
  /\ UNCHANGED <<now, rows, audit, stale, batch, job, tries, adminJob, crashes>>

-----------------------------------------------------------------------------
(* _run_job *)

\* Jobs whose scheduled follow-through counts as the same rule's in a chain.
Siblings(j) ==
  {i \in Jobs : RuleOf[i] = RuleOf[j] /\ CorrelationOf[i] = CorrelationOf[j]}

\* Mutant: the guard looks for the job's own success only.
OwnSuccess(j) == \E e \in succeeded : e[1] = j

\* The same-rule re-entry guard of _loop_guard_reason.
AlreadyRan(j) ==
  RuleOf[j] # NoRule /\ \E e \in succeeded : e[1] \in Siblings(j)

\* Conversation, workspace, depth and same-rule guards, before any slot.
Guard(w) ==
  /\ pc[w] = "guard"
  /\ Goto(w, IF job[w] \in Unrunnable \/ AlreadyRan(job[w])
             THEN "skip" ELSE "reserve")
  /\ UNCHANGED <<now, rows, audit, memory, adminJob, crashes>>

\* The slots of the correlation are taken, none of them by the job.
SlotsGone(j) == j \notin granted /\ Slots!Full(CorrelationOf[j])

\* reserve_action_slot with the job's id as reservation key.
ReserveSlot(w) ==
  /\ pc[w] = "reserve"
  /\ \/ /\ Slots!Grant(job[w]) \/ Slots!Reenter(job[w])
        /\ Goto(w, "execute")
     \/ /\ Slots!Refuse(job[w])
        /\ Goto(w, "skip")
  /\ UNCHANGED <<now, rows, succeeded, memory, adminJob, crashes>>

\* execute_action returns, or raises for any reason.
Execute(w) ==
  /\ pc[w] = "execute"
  /\ Goto(w, "record") \/ Goto(w, "fail")
  /\ UNCHANGED <<now, rows, audit, memory, adminJob, crashes>>

\* The execution row becomes SUCCEEDED before the job row does.
RecordSuccess(w) ==
  /\ pc[w] = "record"
  /\ succeeded' = succeeded \cup {<<job[w], tries[w]>>}
  /\ Goto(w, "finish")
  /\ UNCHANGED <<now, rows, granted, memory, adminJob, crashes>>

\* The worker is done with its job and goes on with its batch.
LetGo(w) ==
  /\ job' = [job EXCEPT ![w] = NoJob]
  /\ tries' = [tries EXCEPT ![w] = 0]
  /\ Goto(w, "claim")
  /\ UNCHANGED <<now, attempts, executeAt, lockedAt, audit, runNow,
                 stale, batch, adminJob, crashes>>

\* _finish(SUCCEEDED): an UPDATE by primary key, whatever the row says now.
Finish(w) ==
  /\ pc[w] = "finish"
  /\ SetStatus(job[w], "SUCCEEDED")
  /\ LetGo(w)

\* _finish(SKIPPED), likewise.
Skip(w) ==
  /\ pc[w] = "skip"
  /\ SetStatus(job[w], "SKIPPED")
  /\ LetGo(w)

\* Mutants: off by one, a job gets one attempt too many, or one too few.
GivesUpEarly(n) == IF n >= MaxAttempts - 1 THEN "FAILED" ELSE "PENDING"
RetryOncePast(n) == IF n > MaxAttempts THEN "FAILED" ELSE "PENDING"

\* Mutant: a status that is not one of the model's choices.
RetryUnknown(n) == "RETRY"

RetryOrFailTries(n) == RetryOrFail(n)

\* _fail: decided on the attempts in memory, written by primary key.
Fail(w) ==
  /\ pc[w] = "fail"
  /\ SetStatus(job[w], RetryOrFailTries(tries[w]))
  /\ LetGo(w)

-----------------------------------------------------------------------------
(* The environment *)

\* A worker is killed; the next scheduled invocation starts afresh. Crashes
\* come early enough for the bounded clock to show their locks stale.
Crash(w) ==
  /\ pc[w] # "idle"
  /\ crashes < MaxCrashes
  /\ now + StaleAfter + 1 <= MaxTime
  /\ crashes' = crashes + 1
  /\ Goto(w, "idle")
  /\ runNow' = [runNow EXCEPT ![w] = 0]
  /\ stale' = [stale EXCEPT ![w] = {}]
  /\ batch' = [batch EXCEPT ![w] = {}]
  /\ job' = [job EXCEPT ![w] = NoJob]
  /\ tries' = [tries EXCEPT ![w] = 0]
  /\ UNCHANGED <<now, rows, audit, adminJob>>

Tick ==
  /\ now < MaxTime
  /\ now' = now + 1
  /\ UNCHANGED <<rows, audit, pc, memory, adminJob, crashes>>

\* The steps of a running invocation.
RunStep(w) ==
  \/ ScanStale(w)
  \/ \E j \in Jobs : RecoverOne(w, j) \/ Claim(w, j) \/ PassOver(w, j)
  \/ ScanDue(w)
  \/ EndRun(w)
  \/ Guard(w)
  \/ ReserveSlot(w)
  \/ Execute(w)
  \/ RecordSuccess(w)
  \/ Finish(w)
  \/ Skip(w)
  \/ Fail(w)

Next ==
  \/ \E j \in Jobs, d \in Delays : Schedule(j, d)
  \/ \E S \in SUBSET Jobs : CancelPending(S)
  \/ \E a \in Admins : AdminSave(a) \/ \E j \in Jobs : AdminRead(a, j)
  \/ \E w \in Workers : StartRun(w) \/ RunStep(w) \/ Crash(w)
  \/ Tick

Spec == Init /\ [][Next]_vars

\* Cron keeps starting the command, an invocation that is not killed keeps
\* going, and time passes. Nothing makes anyone schedule or cancel.
Fairness ==
  /\ \A w \in Workers : WF_vars(StartRun(w)) /\ WF_vars(RunStep(w))
  /\ WF_vars(Tick)

FairSpec == Spec /\ Fairness

-----------------------------------------------------------------------------
(* Properties *)

\* Every variable keeps its type.
TypeOK ==
  /\ now \in 0..MaxTime
  /\ status \in [Jobs -> Statuses]
  /\ attempts \in [Jobs -> Nat]
  /\ executeAt \in [Jobs -> Nat]
  /\ lockedAt \in [Jobs -> Nat]
  /\ succeeded \subseteq Jobs \X Nat
  /\ granted \subseteq Jobs
  /\ pc \in [Workers -> Stages]
  /\ runNow \in [Workers -> Nat]
  /\ stale \in [Workers -> SUBSET Jobs]
  /\ batch \in [Workers -> SUBSET Jobs]
  /\ job \in [Workers -> Jobs \cup {NoJob}]
  /\ tries \in [Workers -> Nat]
  /\ adminJob \in [Admins -> Jobs \cup {NoJob}]
  /\ crashes \in 0..MaxCrashes

\* Claims of one job are told apart by the attempt they count, and so are its
\* recorded successes: however late a worker is, and however often its lock
\* was broken, nobody else has its attempt, and it has not succeeded in it.
EveryAttemptIsOwn ==
  \A w \in Workers :
    pc[w] \in Holding =>
      /\ \A v \in Workers \ {w} :
           pc[v] \in Holding /\ job[v] = job[w] => tries[v] # tries[w]
      /\ pc[w] \in {"guard", "reserve", "execute", "record"} =>
           <<job[w], tries[w]>> \notin succeeded

\* What the decision on the attempts in memory costs at worst: every attempt
\* below the maximum can put the job back to PENDING once more, late, when it
\* was given up already. Nothing can keep a job alive beyond that.
AttemptsBounded == \A j \in Jobs : attempts[j] <= 2 * MaxAttempts - 1

\* What the unlocked same-rule guard costs at worst: of the jobs a rule
\* scheduled in one chain, no more attempts succeed than there are processes
\* to pass the guard together.
SuccessesWithinWorkers ==
  \A j \in Jobs :
    RuleOf[j] # NoRule =>
      Cardinality({e \in succeeded : e[1] \in Siblings(j)})
        <= Cardinality(Workers)

\* No outcome on a row is made up, whichever worker or sweep wrote it last: a
\* success is on record, a job that failed for good has used its attempts, and
\* what was skipped could not run, had a sibling that ran, or found the slots
\* of its correlation taken.
OutcomesEarned ==
  \A j \in Jobs :
    /\ status[j] = "SUCCEEDED" => \E e \in succeeded : e[1] = j
    /\ status[j] = "FAILED" => attempts[j] >= MaxAttempts
    /\ status[j] = "SKIPPED" =>
         j \in Unrunnable \/ AlreadyRan(j) \/ SlotsGone(j)

\* A pending job is eventually settled, although workers crash while they
\* hold it.
JobsSettled ==
  \A j \in Jobs : status[j] = "PENDING" ~> status[j] \in Terminal

-----------------------------------------------------------------------------
(* What the repository says of the command, and the code does not keep *)

\* "Two overlapping worker processes can never claim - and therefore never
\* execute - the same job twice": no two workers have the same job.
OneWorkerPerJob ==
  \A v, w \in Workers :
    pc[v] \in Holding /\ pc[w] \in Holding /\ job[v] = job[w] => v = w

\* "Until max_attempts is reached, at which point it is permanently FAILED":
\* no job is claimed more often than that.
AttemptsWithinMax == \A j \in Jobs : attempts[j] <= MaxAttempts

\* "Two recovery sweeps racing each other can't both reclaim the same stale
\* row": a row leaves RUNNING only by the worker that holds it, or once its
\* lock is past the stale window.
OnlyStaleLocksBroken ==
  [][\A j \in Jobs :
       status[j] = "RUNNING" /\ status'[j] # "RUNNING" =>
         \/ \E w \in Workers : job[w] = j /\ job'[w] # j
         \/ lockedAt[j] + StaleAfter < now]_vars

\* "Confirm it stays cancelled and never executes".
CancelledStays ==
  [][\A j \in Jobs : status[j] = "CANCELLED" => status'[j] = "CANCELLED"]_status

\* The guard is against "the same rule's deferred, scheduled follow-through
\* firing more than once in one correlation chain": at most one success among
\* the jobs a rule scheduled in one chain.
OneSuccessPerRule ==
  \A d, e \in succeeded :
    RuleOf[e[1]] # NoRule /\ d[1] \in Siblings(e[1]) => d = e

=============================================================================
