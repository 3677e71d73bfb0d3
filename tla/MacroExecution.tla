--------------------------- MODULE MacroExecution ---------------------------
(***************************************************************************)
(* One execution of a macro: the row a client's idempotency_key names, one *)
(* record per action of its snapshot, and the requests that run it         *)
(* (macros/services.py).                                                   *)
(*                                                                         *)
(* A request that executes, resumes or retries reads once which actions    *)
(* have succeeded, runs the others in order, records each, then computes   *)
(* the outcome from a fresh read of all the records. No lock is taken and  *)
(* every statement commits by itself, so requests overlap and die anywhere.*)
(*                                                                         *)
(* A message action (SEND_REPLY, SEND_ARTICLE, notes, REQUEST_RATING)      *)
(* looks for its client_message_id before it inserts, under a unique       *)
(* constraint (SEND_ARTICLE looks for the article before that); any other  *)
(* calls a conversation service. What the action does inside a service is  *)
(* one step that takes effect or not, and that may raise after it took     *)
(* effect: services broadcast after their commit.                          *)
(***************************************************************************)
EXTENDS Naturals, FiniteSets

CONSTANTS
  Callers,      \* requests: each executes or retries once (the bound of a run)
  Last,         \* actions_snapshot holds the actions 1..Last
  Messages,     \* those that create a message
  Articles      \* those of them that share an article

ASSUME MacroAssumption ==
  /\ Last \in Nat \ {0} /\ Messages \subseteq 1..Last /\ Articles \subseteq Messages
  /\ IsFiniteSet(Callers)

VARIABLES
  active,       \* Macro.is_active
  status,       \* MacroExecution.status, "none" before the row exists
  rec,          \* MacroActionExecution.status of each action, or "none"
  acts,         \* how many times each action took effect
  count,        \* Macro.execution_count
  run,          \* per request: where it is, what it read, its verdict
  lost,         \* (ghost) effects of a service that no record of success followed
  overlaps      \* (ghost) requests that began while another ran actions
vars == <<active, status, rec, acts, count, run, lost, overlaps>>
ghosts == <<lost, overlaps>>

Actions == 1..Last
Failures == {"FAILED", "PARTIALLY_SUCCEEDED"}
Verdicts == Failures \cup {"SUCCEEDED"}
Working == {"act", "insert", "succeeded", "failed"}
Places == Working \cup {"idle", "begin", "aggregate", "save", "tally", "done", "dead"}

Idle == [at |-> "idle", skip |-> {}, next |-> 0, verdict |-> "FAILED"]

Init ==
  /\ active \in BOOLEAN
  /\ status = "none"
  /\ rec = [i \in Actions |-> "none"]
  /\ acts = [i \in Actions |-> 0]
  /\ count = 0
  /\ run = [c \in Callers |-> Idle]
  /\ lost = [i \in Actions |-> 0]
  /\ overlaps = 0

Goto(c, place) == run' = [run EXCEPT ![c].at = place]

-----------------------------------------------------------------------------
(* execute_macro and retry_macro_execution                                 *)

Create(c) ==
  /\ run[c].at = "idle" /\ active /\ status = "none"
  /\ status' = "PENDING"
  /\ Goto(c, "begin")
  /\ UNCHANGED <<active, rec, acts, count, ghosts>>

\* The unique constraint refused the insert: a pending execution is resumed,
\* any other is returned as it is.
FindExisting(c) ==
  /\ run[c].at = "idle" /\ active /\ status # "none"
  /\ Goto(c, IF status = "PENDING" THEN "begin" ELSE "done")
  /\ UNCHANGED <<active, status, rec, acts, count, ghosts>>

Retry(c) ==
  /\ run[c].at = "idle" /\ active /\ status \in Failures
  /\ Goto(c, "begin")
  /\ UNCHANGED <<active, status, rec, acts, count, ghosts>>

-----------------------------------------------------------------------------
(* _run_pending_actions                                                    *)

NoneSkipped == {}

AlreadySucceeded == {i \in Actions : rec[i] = "SUCCEEDED"}

\* The request goes on to the first action after i that it does not skip.
Advance(c, i, skip) ==
  LET left == {j \in Actions \ skip : j > i}
      MoveTo(place, j) ==
        run' = [run EXCEPT ![c].at = place, ![c].next = j, ![c].skip = skip]
  IN  \/ left = {} /\ MoveTo("aggregate", i)
      \/ \E j \in left : (\A k \in left : j <= k) /\ MoveTo("act", j)

Begin(c) ==
  /\ run[c].at = "begin"
  /\ Advance(c, 0, AlreadySucceeded)
  /\ overlaps' = overlaps + (IF \E d \in Callers : run[d].at \in Working THEN 1 ELSE 0)
  /\ UNCHANGED <<active, status, rec, acts, count, lost>>

TakesEffect(c, times) ==
  /\ acts' = [acts EXCEPT ![run[c].next] = @ + times]
  /\ UNCHANGED <<active, status, rec, count, overlaps>>

Loses(c) == lost' = [lost EXCEPT ![run[c].next] = @ + 1]

\* Mutant: the duplicate is looked for among the records of the execution.
SentOnRecord(i) == rec[i] = "SUCCEEDED"

Sent(i) == acts[i] > 0

\* The client_message_id is looked up. The handler may also raise before it
\* creates anything (a template, a missing visitor), and one that shares an
\* article even before the lookup: the article is gone.
CheckMessage(c) ==
  /\ run[c].at = "act" /\ run[c].next \in Messages
  /\ \/ Sent(run[c].next) /\ Goto(c, "succeeded")
     \/ ~Sent(run[c].next) /\ \E place \in {"insert", "failed"} : Goto(c, place)
     \/ run[c].next \in Articles /\ Goto(c, "failed")
  /\ UNCHANGED <<active, status, rec, acts, count, ghosts>>

\* The insert commits, and the broadcast after it may raise; or another
\* request was first and the unique constraint refuses it.
InsertMessage(c) ==
  /\ run[c].at = "insert"
  /\ UNCHANGED lost
  /\ IF Sent(run[c].next)
       THEN Goto(c, "failed") /\ TakesEffect(c, 0)
       ELSE /\ \E place \in {"succeeded", "failed"} : Goto(c, place)
            /\ TakesEffect(c, 1)

\* A conversation service or a tag row. Finding nothing to do counts as the
\* effect: the handler returns a result for it.
CallService(c) ==
  /\ run[c].at = "act" /\ run[c].next \notin Messages
  /\ \/ Goto(c, "succeeded") /\ TakesEffect(c, 1) /\ UNCHANGED lost
     \/ Goto(c, "failed") /\ TakesEffect(c, 1) /\ Loses(c)
     \/ Goto(c, "failed") /\ TakesEffect(c, 0) /\ UNCHANGED lost

Outcome(c) == IF run[c].at = "succeeded" THEN "SUCCEEDED" ELSE "FAILED"

\* update_or_create on (execution, action_index): the last writer wins.
Record(c) ==
  /\ run[c].at \in {"succeeded", "failed"}
  /\ rec' = [rec EXCEPT ![run[c].next] = Outcome(c)]
  /\ Advance(c, run[c].next, run[c].skip)
  /\ UNCHANGED <<active, status, acts, count, ghosts>>

Has(outcome) == \E i \in Actions : rec[i] = outcome

PartialAsSucceeded ==
  IF Has("SUCCEEDED") THEN "SUCCEEDED" ELSE IF Has("FAILED") THEN "FAILED" ELSE "SUCCEEDED"

FinalStatus ==
  IF ~Has("FAILED") THEN "SUCCEEDED"
  ELSE IF Has("SUCCEEDED") THEN "PARTIALLY_SUCCEEDED"
  ELSE "FAILED"

Aggregate(c) ==
  /\ run[c].at = "aggregate"
  /\ run' = [run EXCEPT ![c].at = "save", ![c].verdict = FinalStatus]
  /\ UNCHANGED <<active, status, rec, acts, count, ghosts>>

SaveStatus(c) ==
  /\ run[c].at = "save"
  /\ status' = run[c].verdict
  /\ Goto(c, "tally")
  /\ UNCHANGED <<active, rec, acts, count, ghosts>>

Tally(c) ==
  /\ run[c].at = "tally"
  /\ count' = count + 1
  /\ Goto(c, "done")
  /\ UNCHANGED <<active, status, rec, acts, ghosts>>

Crash(c) ==
  /\ run[c].at \notin {"idle", "done", "dead"}
  /\ Goto(c, "dead")
  /\ IF run[c].at = "succeeded" /\ run[c].next \notin Messages
       THEN Loses(c) ELSE UNCHANGED lost
  /\ UNCHANGED <<active, status, rec, acts, count, overlaps>>

\* The activate and deactivate endpoints.
SetActive ==
  /\ active' = ~active
  /\ UNCHANGED <<status, rec, acts, count, run, ghosts>>

Next ==
  \/ SetActive
  \/ \E c \in Callers :
       \/ Create(c) \/ FindExisting(c) \/ Retry(c) \/ Begin(c)
       \/ CheckMessage(c) \/ InsertMessage(c) \/ CallService(c) \/ Record(c)
       \/ Aggregate(c) \/ SaveStatus(c) \/ Tally(c) \/ Crash(c)

Spec == Init /\ [][Next]_vars

-----------------------------------------------------------------------------
TypeOK ==
  /\ active \in BOOLEAN
  /\ status \in Verdicts \cup {"none", "PENDING"}
  /\ rec \in [Actions -> {"none", "SUCCEEDED", "FAILED"}]
  /\ acts \in [Actions -> Nat] /\ lost \in [Actions -> Nat] /\ overlaps \in Nat
  /\ count \in Nat
  /\ run \in [Callers -> [at : Places, skip : SUBSET Actions, next : 0..Last,
                          verdict : Verdicts]]
  /\ \A c \in Callers : run[c].at \in Working => run[c].next \in Actions

\* An execution is reported as SUCCEEDED, to whoever asks again with its key,
\* only once every action of its snapshot took effect, however many requests
\* ran it, died on the way or overwrote each other's records.
SucceededIsDone ==
  status = "SUCCEEDED" => \A i \in Actions : acts[i] > 0

\* A message is never sent twice, however many requests run its action side by
\* side, die, or find its record missing, lost or overwritten.
MessagesOnce == \A i \in Messages : acts[i] <= 1

\* Any other action takes effect once, and once more only for an effect whose
\* record was lost (the process died before it, or the handler raised after
\* its commit) or a request that began while another was at work: a retry of
\* a finished run repeats nothing, whatever the runs before it overwrote.
ServicesAccounted ==
  \A i \in Actions \ Messages : acts[i] <= 1 + lost[i] + overlaps

\* _run_pending_actions() "never re-runs an already-SUCCEEDED action"
\* (macros/services.py:148-150). Refuted by a second request with the key that
\* comes while the first is still at work.
RecordedNeverRerun ==
  [][\A i \in Actions : rec[i] = "SUCCEEDED" => acts'[i] = acts[i]]_vars

=============================================================================
