------------------------------ MODULE SlaClock ------------------------------
(***************************************************************************)
(* The service clocks of one conversation: the ConversationSLA row, the    *)
(* lifecycle calls of sla/services.py that start, answer, restart and      *)
(* settle its clocks, and the periodic evaluate_sla command that announces *)
(* clocks running out.                                                     *)
(*                                                                         *)
(* The lifecycle calls read conversation.sla through the conversation      *)
(* object at hand, which keeps the row it once read: a REST request loads  *)
(* the conversation anew, a WebSocket consumer keeps one object from       *)
(* connect to disconnect. They then update the few fields they decided on, *)
(* without a lock. The evaluator locks the row (and, through               *)
(* select_related, the conversation), and holds it until it has saved.     *)
(*                                                                         *)
(* An announcement pushes its notifications and broadcasts at once, and    *)
(* stores the notifications, the audit row and the clock's mark with the   *)
(* transaction of the row, which a death of the process takes back.        *)
(*                                                                         *)
(* Abstracted: times of an answer or a settlement are the fact of it; what *)
(* one announcement pushes, and what it stores, is one alert each;         *)
(* assignment and priority, which a breach may change, are                 *)
(* ConversationAssignment's.                                               *)
(***************************************************************************)
EXTENDS Integers, Sequences, FiniteSets

CONSTANTS
  VisitorSockets,   \* WidgetChatConsumers of the conversation
  OperatorSockets,  \* its DashboardChatConsumers
  Requests,         \* REST requests and automation actions
  Evaluators,       \* overlapping runs of evaluate_sla
  Target,           \* minutes allowed for each clock
  Deadline,         \* Deadline[c][t]: what add_business_minutes gives at t
  LeadDivisor,      \* 1 / APPROACHING_FRACTION
  MaxLead,          \* APPROACHING_MAX_LEAD
  Never,            \* NULL in a date column
  MaxTime,          \* bound: the last tick of the clock
  MaxAsked,         \* bound: messages, replies and changes of status
  MaxCrashes        \* bound: processes that die

Clocks == {"first", "next", "resolution"}
Callers == VisitorSockets \cup OperatorSockets \cup Requests

ASSUME SlaClockAssumption ==
  /\ MaxTime \in Nat /\ MaxAsked \in Nat /\ MaxCrashes \in Nat
  /\ LeadDivisor \in Nat \ {0} /\ MaxLead \in Nat
  /\ Target \in [Clocks -> Nat]
  /\ Deadline \in [Clocks -> [0..MaxTime -> Nat]]
  /\ \A t \in 0..MaxTime, c \in Clocks : Deadline[c][t] > t
  /\ Never \notin Int \cup Evaluators

VARIABLES
  now,         \* the wall clock
  status,      \* the conversation: "active", "RESOLVED" or "CLOSED"
  row,         \* its ConversationSLA row
  locker,      \* the evaluator that holds the row, or Never
  todo,        \* the lifecycle calls each caller has still to make
  patch,       \* the update it has decided on
  cached,      \* conversation.sla of its conversation object, or Unread
  evaluating,  \* where each evaluator is: "idle", "listed", "holds"
  runAt,       \* its `now`, taken once
  seen,        \* the row as it read it under the lock
  told,        \* the clocks it has announced since
  pushed, stored, undone,  \* history: alerts of a clock since its deadline
               \* was last set: pushed to open pages, stored by a commit,
               \* pushed by an evaluator that died before its commit
  asked, crashes

vars == <<now, status, row, locker, todo, patch, cached, evaluating, runAt,
          seen, told, pushed, stored, undone, asked, crashes>>
alerts == <<pushed, stored, undone>>
callerVars == <<todo, patch, cached>>
evaluatorVars == <<locker, evaluating, runAt, seen, told>>

Statuses == {"active", "RESOLVED", "CLOSED"}
Calls == {"mark_first_response", "recalculate_next_response",
          "clear_next_response", "mark_resolved", "mark_reopened"}
NoAlerts == [approaching |-> 0, breached |-> 0]

Unread == [read |-> FALSE]
NoPatch == [call |-> "none", due |-> Never]

\* apply_sla() when the conversation starts: deadlines for the first
\* response and the resolution.
Init ==
  /\ now = 0
  /\ status = "active"
  /\ row = [due |-> [c \in Clocks |->
                       IF c = "next" THEN Never ELSE Deadline[c][0]],
            breached |-> [c \in Clocks |-> Never],
            notified |-> [c \in Clocks |-> FALSE],
            responded |-> FALSE, resolved |-> FALSE]
  /\ locker = Never
  /\ todo = [w \in Callers |-> <<>>]
  /\ patch = [w \in Callers |-> NoPatch]
  /\ cached = [w \in Callers |-> Unread]
  /\ evaluating = [e \in Evaluators |-> "idle"]
  /\ runAt = [e \in Evaluators |-> 0]
  /\ seen = [e \in Evaluators |-> Unread]
  /\ told = [e \in Evaluators |-> {}]
  /\ pushed = [c \in Clocks |-> NoAlerts]
  /\ stored = [c \in Clocks |-> NoAlerts]
  /\ undone = [c \in Clocks |-> NoAlerts]
  /\ asked = 0 /\ crashes = 0

-----------------------------------------------------------------------------
(* What the callers do                                                     *)

Free(w) == todo[w] = <<>>

Ask == asked < MaxAsked /\ asked' = asked + 1

\* A visitor's message is stored, and its consumer goes on to the clock.
VisitorMessage(w) ==
  /\ w \in VisitorSockets /\ Free(w) /\ Ask
  /\ todo' = [todo EXCEPT ![w] = <<"recalculate_next_response">>]
  /\ UNCHANGED <<now, status, row, patch, cached, alerts, crashes, evaluatorVars>>

\* An operator's reply, over the dashboard socket or the REST endpoint.
OperatorReply(w) ==
  /\ w \in OperatorSockets \cup Requests /\ Free(w) /\ Ask
  /\ todo' = [todo EXCEPT ![w] = <<"mark_first_response", "clear_next_response">>]
  /\ UNCHANGED <<now, status, row, patch, cached, alerts, crashes, evaluatorVars>>

\* close_conversation(): the status first, in a transaction of its own.
Close(w) ==
  /\ w \in Requests /\ Free(w) /\ Ask
  /\ locker = Never
  /\ status' = "CLOSED"
  /\ todo' = [todo EXCEPT ![w] = <<"mark_resolved">>]
  /\ UNCHANGED <<now, row, patch, cached, alerts, crashes, evaluatorVars>>

\* reopen_conversation(), only of a closed one.
Reopen(w) ==
  /\ w \in Requests /\ Free(w) /\ Ask
  /\ locker = Never /\ status = "CLOSED"
  /\ status' = "active"
  /\ todo' = [todo EXCEPT ![w] = <<"mark_reopened">>]
  /\ UNCHANGED <<now, row, patch, cached, alerts, crashes, evaluatorVars>>

\* set_status(): the intermediate statuses, which leave the clocks alone.
SetStatus(to) ==
  /\ locker = Never /\ status # to /\ Ask
  /\ status' = to
  /\ UNCHANGED <<now, row, alerts, crashes, callerVars, evaluatorVars>>

\* A consumer's socket closes and its page connects again: a new object.
Reconnect(w) ==
  /\ w \notin Requests /\ Free(w) /\ Ask /\ cached[w] # Unread
  /\ cached' = [cached EXCEPT ![w] = Unread]
  /\ UNCHANGED <<now, status, row, todo, patch, alerts, crashes, evaluatorVars>>

-----------------------------------------------------------------------------
(* The lifecycle calls                                                     *)

\* Whether a call has something to write, by the row it sees.
Concerned(call, sla) ==
  CASE call = "mark_first_response" -> ~sla.responded
    [] call = "recalculate_next_response" -> sla.responded /\ ~sla.resolved
    [] call = "clear_next_response" -> sla.due["next"] # Never
    [] call = "mark_resolved" -> ~sla.resolved
    [] call = "mark_reopened" -> TRUE

\* Mutant: a restarted clock keeps its breach.
RestartedInBreach(sla, clock, due) ==
  [sla EXCEPT !.due[clock] = due, !.notified[clock] = FALSE]

\* A clock set to a new deadline forgets its breach and its warning.
Restarted(sla, clock, due) ==
  [sla EXCEPT !.due[clock] = due, !.breached[clock] = Never,
              !.notified[clock] = FALSE]

\* The fields a call assigns and saves, by call.
Patched(sla, p) ==
  CASE p.call = "mark_first_response" -> [sla EXCEPT !.responded = TRUE]
    [] p.call = "recalculate_next_response" -> Restarted(sla, "next", p.due)
    [] p.call = "clear_next_response" ->
         [sla EXCEPT !.due["next"] = Never, !.breached["next"] = Never]
    [] p.call = "mark_resolved" -> [sla EXCEPT !.resolved = TRUE]
    [] p.call = "mark_reopened" ->
         [Restarted(sla, "resolution", p.due) EXCEPT !.resolved = FALSE]

\* The deadline a call computes, from the wall clock.
NewDue(call) ==
  CASE call = "recalculate_next_response" -> Deadline["next"][now]
    [] call = "mark_reopened" -> Deadline["resolution"][now]
    [] OTHER -> Never

SlaOf(w) == IF cached[w] = Unread THEN row ELSE cached[w]

\* A request's conversation object goes away with it.
Kept(w, sla) == IF w \in Requests /\ Len(todo[w]) = 1 THEN Unread ELSE sla

\* A call looks at conversation.sla and has nothing to do.
PassOver(w) ==
  /\ ~Free(w) /\ patch[w] = NoPatch
  /\ ~Concerned(Head(todo[w]), SlaOf(w))
  /\ todo' = [todo EXCEPT ![w] = Tail(@)]
  /\ cached' = [cached EXCEPT ![w] = Kept(w, SlaOf(w))]
  /\ UNCHANGED <<now, status, row, patch, alerts, asked, crashes, evaluatorVars>>

\* Or it decides what to write, and assigns it to the object.
Decide(w) ==
  LET p == [call |-> Head(todo[w]), due |-> NewDue(Head(todo[w]))]
  IN /\ ~Free(w) /\ patch[w] = NoPatch
     /\ Concerned(Head(todo[w]), SlaOf(w))
     /\ patch' = [patch EXCEPT ![w] = p]
     /\ cached' = [cached EXCEPT ![w] = Kept(w, Patched(SlaOf(w), p))]
     /\ UNCHANGED <<now, status, row, todo, alerts, asked, crashes, evaluatorVars>>

\* The clock whose deadline a call sets.
SetsDeadline(call) ==
  CASE call \in {"recalculate_next_response", "clear_next_response"} -> {"next"}
    [] call = "mark_reopened" -> {"resolution"}
    [] OTHER -> {}

Reset(count, clocks) == [c \in Clocks |-> IF c \in clocks THEN NoAlerts ELSE count[c]]

\* save(update_fields=...): it waits while an evaluator holds the row.
Save(w) ==
  /\ patch[w] # NoPatch /\ locker = Never
  /\ row' = Patched(row, patch[w])
  /\ pushed' = Reset(pushed, SetsDeadline(patch[w].call))
  /\ stored' = Reset(stored, SetsDeadline(patch[w].call))
  /\ undone' = Reset(undone, SetsDeadline(patch[w].call))
  /\ patch' = [patch EXCEPT ![w] = NoPatch]
  /\ todo' = [todo EXCEPT ![w] = Tail(@)]
  /\ cached' = [cached EXCEPT ![w] = Kept(w, @)]
  /\ UNCHANGED <<now, status, asked, crashes, evaluatorVars>>

-----------------------------------------------------------------------------
(* The evaluator                                                           *)

\* The run takes its time and lists the rows of open conversations.
List(e) ==
  /\ evaluating[e] = "idle"
  /\ status = "active"
  /\ evaluating' = [evaluating EXCEPT ![e] = "listed"]
  /\ runAt' = [runAt EXCEPT ![e] = now]
  /\ UNCHANGED <<now, status, row, locker, seen, told, alerts, asked, crashes,
                 callerVars>>

\* Mutant: the row is read without select_for_update.
Unlocked(e) == TRUE

RowFree(e) == locker = Never

LockRow(e) ==
  /\ evaluating[e] = "listed" /\ RowFree(e)
  /\ locker' = e
  /\ seen' = [seen EXCEPT ![e] = row]
  /\ evaluating' = [evaluating EXCEPT ![e] = "holds"]
  /\ UNCHANGED <<now, status, row, runAt, told, alerts, asked, crashes, callerVars>>

\* The clocks that still run: one that was answered or settled is left alone.
Running(sla, clock) ==
  CASE clock = "first" -> ~sla.responded
    [] clock = "next" -> sla.due["next"] # Never /\ ~sla.resolved
    [] clock = "resolution" -> ~sla.resolved

\* _is_approaching(): a fraction of the target, at most MaxLead, remains.
Lead(clock) ==
  IF Target[clock] \div LeadDivisor < MaxLead
  THEN Target[clock] \div LeadDivisor ELSE MaxLead

PastDue(due, at) == due # Never /\ at >= due
IsApproaching(sla, clock, at) ==
  /\ sla.due[clock] # Never
  /\ at < sla.due[clock]
  /\ sla.due[clock] - at <= Lead(clock)

\* Mutant: the warning guards the breach too.
BreachesUnwarned(sla, clock, at) ==
  /\ Running(sla, clock) /\ PastDue(sla.due[clock], at)
  /\ ~sla.notified[clock] /\ sla.breached[clock] = Never

\* _evaluate_clock(): a clock is announced late once, and as approaching
\* once and only while it is not late.
Breaches(sla, clock, at) ==
  /\ Running(sla, clock) /\ PastDue(sla.due[clock], at)
  /\ sla.breached[clock] = Never

Approaches(sla, clock, at) ==
  /\ Running(sla, clock) /\ ~sla.notified[clock]
  /\ IsApproaching(sla, clock, at)

Late(e, c) == Breaches(seen[e], c, runAt[e])
Soon(e, c) == Approaches(seen[e], c, runAt[e])

\* An alert more of every clock of a set that an evaluator announces.
Counting(count, clocks, e) ==
  [c \in Clocks |->
    [approaching |-> count[c].approaching + (IF c \in clocks /\ Soon(e, c) THEN 1 ELSE 0),
     breached |-> count[c].breached + (IF c \in clocks /\ Late(e, c) THEN 1 ELSE 0)]]

Order == [first |-> 1, next |-> 2, resolution |-> 3]
Untold(e) == {c \in Clocks \ told[e] : Late(e, c) \/ Soon(e, c)}

\* _on_breach(), _on_approaching(): the alert of one clock after the other
\* reaches the open pages while the transaction of the row is open.
Announce(e) ==
  /\ evaluating[e] = "holds"
  /\ \E c \in Untold(e) :
       /\ \A d \in Untold(e) : Order[c] <= Order[d]
       /\ pushed' = Counting(pushed, {c}, e)
       /\ told' = [told EXCEPT ![e] = @ \cup {c}]
  /\ UNCHANGED <<now, status, row, locker, evaluating, runAt, seen, stored,
                 undone, asked, crashes, callerVars>>

\* One save of the fields of the clocks announced, and the commit.
Commit(e) ==
  /\ evaluating[e] = "holds" /\ Untold(e) = {}
  /\ row' = [row EXCEPT
       !.breached = [c \in Clocks |->
          IF Late(e, c) THEN runAt[e]
          ELSE IF Soon(e, c) THEN seen[e].breached[c] ELSE row.breached[c]],
       !.notified = [c \in Clocks |->
          IF Soon(e, c) THEN TRUE
          ELSE IF Late(e, c) THEN seen[e].notified[c] ELSE row.notified[c]]]
  /\ stored' = Counting(stored, Clocks, e)
  /\ locker' = Never
  /\ evaluating' = [evaluating EXCEPT ![e] = "idle"]
  /\ runAt' = [runAt EXCEPT ![e] = 0]
  /\ seen' = [seen EXCEPT ![e] = Unread]
  /\ told' = [told EXCEPT ![e] = {}]
  /\ UNCHANGED <<now, status, pushed, undone, asked, crashes, callerVars>>

-----------------------------------------------------------------------------
\* A process dies; its uncommitted work with it, but not what it pushed.
CrashEvaluator(e) ==
  /\ crashes < MaxCrashes /\ evaluating[e] # "idle"
  /\ crashes' = crashes + 1
  /\ evaluating' = [evaluating EXCEPT ![e] = "idle"]
  /\ runAt' = [runAt EXCEPT ![e] = 0]
  /\ locker' = IF locker = e THEN Never ELSE locker
  /\ seen' = [seen EXCEPT ![e] = Unread]
  /\ undone' = Counting(undone, told[e], e)
  /\ told' = [told EXCEPT ![e] = {}]
  /\ UNCHANGED <<now, status, row, pushed, stored, asked, callerVars>>

CrashCaller(w) ==
  /\ crashes < MaxCrashes /\ ~Free(w)
  /\ crashes' = crashes + 1
  /\ todo' = [todo EXCEPT ![w] = <<>>]
  /\ patch' = [patch EXCEPT ![w] = NoPatch]
  /\ cached' = [cached EXCEPT ![w] = Unread]
  /\ UNCHANGED <<now, status, row, alerts, asked, evaluatorVars>>

Tick ==
  /\ now < MaxTime
  /\ now' = now + 1
  /\ UNCHANGED <<status, row, alerts, asked, crashes, callerVars, evaluatorVars>>

Chat(w) == \/ VisitorMessage(w) \/ OperatorReply(w) \/ Close(w) \/ Reopen(w)
           \/ Reconnect(w)
Serve(w) == PassOver(w) \/ Decide(w) \/ Save(w)
Run(e) == List(e) \/ LockRow(e) \/ Announce(e) \/ Commit(e)

Next ==
  \/ \E w \in Callers : Chat(w) \/ Serve(w) \/ CrashCaller(w)
  \/ \E to \in {"active", "RESOLVED"} : SetStatus(to)
  \/ \E e \in Evaluators : Run(e) \/ CrashEvaluator(e)
  \/ Tick

\* cron runs the evaluator again and again, and the database grants its lock
\* in the end (SF: another evaluator may hold it in between). Time passes.
\* Nobody has to write, to close or to finish a request.
Fairness == (\A e \in Evaluators : SF_vars(Run(e))) /\ WF_vars(Tick)

Spec == Init /\ [][Next]_vars /\ Fairness

-----------------------------------------------------------------------------
(* Properties                                                              *)

Times == Nat \cup {Never}
Slas == [due : [Clocks -> Times], breached : [Clocks -> Times],
         notified : [Clocks -> BOOLEAN],
         responded : BOOLEAN, resolved : BOOLEAN]

Counts == [Clocks -> [approaching : Nat, breached : Nat]]

\* Every variable has its type; one evaluator at a time holds the row, and
\* has read it.
TypeOK ==
  /\ now \in 0..MaxTime
  /\ status \in Statuses
  /\ row \in Slas
  /\ locker \in Evaluators \cup {Never}
  /\ todo \in [Callers -> Seq(Calls)]
  /\ patch \in [Callers -> [call : Calls \cup {"none"}, due : Times]]
  /\ cached \in [Callers -> Slas \cup {Unread}]
  /\ evaluating \in [Evaluators -> {"idle", "listed", "holds"}]
  /\ runAt \in [Evaluators -> 0..MaxTime]
  /\ seen \in [Evaluators -> Slas \cup {Unread}]
  /\ told \in [Evaluators -> SUBSET Clocks]
  /\ pushed \in Counts /\ stored \in Counts /\ undone \in Counts
  /\ \A e \in Evaluators :
       /\ (evaluating[e] = "holds") <=> (locker = e)
       /\ (evaluating[e] = "holds") <=> (seen[e] # Unread)
       /\ told[e] # {} => evaluating[e] = "holds"
  /\ asked \in 0..MaxAsked
  /\ crashes \in 0..MaxCrashes

\* A breach on record is one of the deadline on record: an evaluator that
\* decided on an older deadline never marks the new one, although a message,
\* a reply or a reopening may restart or stop the clock at any moment
\* (select_for_update in evaluate_sla against the unlocked saves of
\* services.py).
BreachFitsClock ==
  \A c \in Clocks : row.breached[c] # Never =>
    /\ row.due[c] # Never
    /\ row.breached[c] >= row.due[c]

\* However evaluators overlap, die and lose their transaction: every deadline
\* that was set has at most one alert of each sort on record, with its audit
\* row, and an alert reaches the open pages a second time only for an evaluator
\* that died between its announcement and its commit (evaluate_sla.py:64-105).
AlertsOnce ==
  \A c \in Clocks :
    /\ stored[c].approaching <= 1
    /\ stored[c].breached <= 1
    /\ pushed[c].approaching <= 1 + undone[c].approaching
    /\ pushed[c].breached <= 1 + undone[c].breached

\* "running the command twice in a row, or two overlapping runs, never
\* double-fires a breach/approaching notification" (evaluate_sla.py:11-12).
\* Refuted, for the push to open pages, by a run that dies before its commit.
NeverDoubleFires ==
  \A c \in Clocks : pushed[c].approaching <= 1 /\ pushed[c].breached <= 1

\* A deadline of an open conversation that has passed is announced, or the
\* clock is answered, restarted or settled, or the conversation leaves the
\* open statuses: evaluators that die and rows that are busy do not lose it.
Overdue(c) ==
  /\ status = "active" /\ Running(row, c)
  /\ PastDue(row.due[c], now) /\ row.breached[c] = Never
OverdueAnnounced == \A c \in Clocks : Overdue(c) ~> ~Overdue(c)
=============================================================================
