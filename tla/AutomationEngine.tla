-------------------------- MODULE AutomationEngine --------------------------
(***************************************************************************)
(* The automation engine on one correlation: events that domain services   *)
(* publish (events.py), the rules that each event runs (engine.py), and    *)
(* the events and scheduled jobs that their actions cause in turn.         *)
(*                                                                         *)
(* publish_event() runs the engine on commit, in the thread that published *)
(* it: an action that publishes runs the next event inside itself, before  *)
(* it returns. So a thread is a stack of events, each with the rule and    *)
(* the action it is at. A job that a SCHEDULE_ACTION left behind runs in   *)
(* another process (a worker) and continues the same correlation there.    *)
(*                                                                         *)
(* Abstracted: what conditions say (ConditionRules) and what an action     *)
(* does are choices; the locked slot counter is one step (ActionSlots); a  *)
(* job's own retries and guards besides depth and slot are in              *)
(* ScheduledActions. A conversation that is gone makes a rule one without  *)
(* actions.                                                                *)
(***************************************************************************)
EXTENDS Integers, Sequences, FiniteSets, SequencesExt, Filtering

CONSTANTS
  Threads,      \* requests and sockets, which publish the root event
  Workers,      \* process_automation_jobs runs
  Rules,        \* the workspace's rules ...
  Priority,     \* ... in their order: a sequence of rules
  Trigger,      \* trigger_type of a rule
  Actions,      \* its actions, a sequence
  Stop,         \* its stop_processing
  Publishes,    \* the events an action's services publish, in their order
  Schedules,    \* the action a SCHEDULE_ACTION wraps, or Nothing
  Nothing,
  RootType,     \* the type of the event that starts the correlation
  MaxDepth,     \* MAX_AUTOMATION_DEPTH
  MaxActions,   \* MAX_ACTIONS_PER_CORRELATION
  MaxEvents,    \* bound: events published in the correlation
  MaxEdits,     \* bound: activations and deactivations
  MaxFaults     \* bound: crashes and internal errors

Processes == Threads \cup Workers
ActionNames == UNION {Range(Actions[r]) : r \in Rules}

ASSUME EngineAssumption ==
  /\ MaxDepth \in Nat /\ MaxActions \in Nat /\ MaxEvents \in Nat
  /\ MaxEdits \in Nat /\ MaxFaults \in Nat
  /\ Priority \in Seq(Rules)
  /\ \A i, j \in DOMAIN Priority : Priority[i] = Priority[j] => i = j
  /\ Stop \in [Rules -> BOOLEAN]
  /\ Nothing \notin Rules \cup Processes

VARIABLES
  events,     \* the events published so far: a sequence of [type, depth, hops]
  bounded,    \* those that met a bound: one SKIPPED_LOOP row without a rule
  listed,     \* the rules each event found
  rows,       \* rows[e][r]: the AutomationExecution of an event and a rule
  author,     \* author[e]: the process that ran it
  active,     \* is_active, and within the dates, of each rule
  slots,      \* actions_reserved of the correlation
  jobs,       \* ScheduledActions that wait, or are run by a worker
  stack,      \* the events each process is in
  lost,       \* history: events whose process failed
  edits, faults

vars == <<events, bounded, listed, rows, author, active, slots, jobs, stack,
          lost, edits, faults>>

Ran == {"MATCHED", "SUCCEEDED", "PARTIALLY_SUCCEEDED"}
Final == {"NOT_MATCHED", "FAILED", "SKIPPED_LOOP", "SUCCEEDED", "PARTIALLY_SUCCEEDED"}
RowStatus == Ran \cup Final \cup {"none"}
Ids == 1..MaxEvents

Init ==
  /\ events = <<>> /\ bounded = {} /\ lost = {}
  /\ listed = [e \in Ids |-> <<>>]
  /\ rows = [e \in Ids |-> [r \in Rules |-> "none"]]
  /\ author = [e \in Ids |-> Nothing]
  /\ active \in [Rules -> BOOLEAN]
  /\ slots = 0 /\ jobs = {}
  /\ stack = [p \in Processes |-> <<>>]
  /\ edits = 0 /\ faults = 0

-----------------------------------------------------------------------------
(* Frames                                                                  *)

\* process_event() of one event: the rules still to look at, and within the
\* first of them the action, the place of the last event it published, and
\* what the actions came to so far.
Frame(e) == [event |-> e, at |-> "arrived", left |-> <<>>, index |-> 1,
             told |-> 0, ok |-> FALSE, bad |-> FALSE, limited |-> FALSE]

Busy(p) == stack[p] # <<>>
Top(p) == Last(stack[p])
ReplaceTop(p, f) == [stack EXCEPT ![p] = Append(Front(@), f)]
Pop(p) == [stack EXCEPT ![p] = Front(@)]
At(p, where) == Busy(p) /\ Top(p).at = where
Rule(f) == Head(f.left)
Action(f) == Actions[Rule(f)][f.index]

\* The envelope of a published event: in an action it continues the chain of
\* the action, one deeper.
Envelope(type, depth, hops) == [type |-> type, depth |-> depth, hops |-> hops]

\* Any other rule or the next event: this one's rules are over.
NextRule(p) ==
  ReplaceTop(p, [Frame(Top(p).event) EXCEPT
                   !.at = "rules", !.left = Tail(Top(p).left)])
StopRules(p) == ReplaceTop(p, [Frame(Top(p).event) EXCEPT !.at = "rules"])

PutRow(p, status) ==
  rows' = [rows EXCEPT ![Top(p).event][Rule(Top(p))] = status]

-----------------------------------------------------------------------------
(* Publishing and receiving                                                *)

\* A request changes a conversation, outside any automation, and publishes.
PublishRoot(t) ==
  /\ events = <<>> /\ MaxEvents > 0
  /\ events' = <<Envelope(RootType, 0, 0)>>
  /\ author' = [author EXCEPT ![1] = t]
  /\ stack' = [stack EXCEPT ![t] = <<Frame(1)>>]
  /\ UNCHANGED <<bounded, listed, rows, active, slots, jobs, lost, edits, faults>>

\* The cheap bounds: depth, and an unlocked read of the counter.
OutOfBounds(e) == events[e].depth > MaxDepth \/ slots >= MaxActions

\* The rules of the workspace for this event, in their order.
Listed(e) == Filter(Priority, {r \in Rules : active[r] /\ Trigger[r] = events[e].type})

\* process_event() up to its loop: the event row is inserted (no caller hands
\* in an event twice), the bounds, the rules.
Receive(p) ==
  /\ At(p, "arrived")
  /\ IF OutOfBounds(Top(p).event)
     THEN /\ bounded' = bounded \cup {Top(p).event}
          /\ stack' = Pop(p)
          /\ UNCHANGED listed
     ELSE /\ listed' = [listed EXCEPT ![Top(p).event] = Listed(Top(p).event)]
          /\ stack' = ReplaceTop(p, [Top(p) EXCEPT !.at = "rules",
                                                   !.left = Listed(Top(p).event)])
          /\ UNCHANGED bounded
  /\ UNCHANGED <<events, rows, author, active, slots, jobs, lost, edits, faults>>

\* The loop is over: process_event() returns to whoever published.
Leave(p) ==
  /\ At(p, "rules") /\ Top(p).left = <<>>
  /\ stack' = Pop(p)
  /\ UNCHANGED <<events, bounded, listed, rows, author, active, slots, jobs,
                 lost, edits, faults>>

-----------------------------------------------------------------------------
(* One rule                                                                *)

\* Mutant: a rule whose actions are still running does not count.
AlreadyEnded(rule) ==
  \E e \in Ids : rows[e][rule] \in {"SUCCEEDED", "PARTIALLY_SUCCEEDED"}

\* "already ran" within the correlation.
AlreadyRan(rule) == \E e \in Ids : rows[e][rule] \in Ran

\* The same-rule guard, an exists() before the row is inserted.
Guard(p) ==
  /\ At(p, "rules") /\ Top(p).left # <<>>
  /\ IF AlreadyRan(Rule(Top(p)))
     THEN PutRow(p, "SKIPPED_LOOP") /\ stack' = NextRule(p)
     ELSE stack' = ReplaceTop(p, [Top(p) EXCEPT !.at = "condition"]) /\ UNCHANGED rows
  /\ UNCHANGED <<events, bounded, listed, author, active, slots, jobs, lost,
                 edits, faults>>

\* The condition raises, or says no; or there is nothing to do.
Evaluate(p) ==
  /\ At(p, "condition")
  /\ \/ PutRow(p, "FAILED")
     \/ PutRow(p, "NOT_MATCHED")
     \/ Actions[Rule(Top(p))] = <<>> /\ PutRow(p, "MATCHED")
  /\ stack' = NextRule(p)
  /\ UNCHANGED <<events, bounded, listed, author, active, slots, jobs, lost,
                 edits, faults>>

Match(p) ==
  /\ At(p, "condition") /\ Actions[Rule(Top(p))] # <<>>
  /\ PutRow(p, "MATCHED")
  /\ stack' = ReplaceTop(p, [Top(p) EXCEPT !.at = "action"])
  /\ UNCHANGED <<events, bounded, listed, author, active, slots, jobs, lost,
                 edits, faults>>

-----------------------------------------------------------------------------
(* Its actions                                                             *)

MoreActions(f) == f.index <= Len(Actions[Rule(f)]) /\ ~f.limited

\* Mutant: one action too many.
SlotFreeOffByOne == slots <= MaxActions

SlotFree == slots < MaxActions

\* A slot first, or no further action of this rule.
ReserveSlot(p) ==
  /\ At(p, "action") /\ MoreActions(Top(p))
  /\ IF SlotFree
     THEN /\ slots' = slots + 1
          /\ stack' = ReplaceTop(p, [Top(p) EXCEPT !.at = "granted"])
     ELSE /\ stack' = ReplaceTop(p, [Top(p) EXCEPT !.limited = TRUE])
          /\ UNCHANGED slots
  /\ UNCHANGED <<events, bounded, listed, rows, author, active, jobs, lost,
                 edits, faults>>

Done(f, good) ==
  [f EXCEPT !.at = "action", !.index = @ + 1, !.told = 0,
            !.ok = @ \/ good, !.bad = @ \/ ~good]

\* execute_action() raises before it did anything, or returns having
\* published nothing.
ActQuietly(p, good) ==
  /\ At(p, "granted")
  /\ good => Schedules[Action(Top(p))] = Nothing
  /\ stack' = ReplaceTop(p, Done(Top(p), good))
  /\ UNCHANGED <<events, bounded, listed, rows, author, active, slots, jobs,
                 lost, edits, faults>>

\* The domain services commit and publish: the event runs inside, and the next
\* one, if it comes to that, when the action goes on after it.
ActAndPublish(p) ==
  LET e == Len(events) + 1
  IN /\ At(p, "granted") \/ At(p, "inside")
     /\ e <= MaxEvents
     /\ author' = [author EXCEPT ![e] = p]
     /\ \E k \in DOMAIN Publishes[Action(Top(p))] :
          /\ k > Top(p).told
          /\ events' = Append(events,
               Envelope(Publishes[Action(Top(p))][k], events[Top(p).event].depth + 1,
                        events[Top(p).event].hops + 1))
          /\ stack' = [stack EXCEPT ![p] =
               Append(Append(Front(@), [Top(p) EXCEPT !.at = "inside", !.told = k]),
                      Frame(e))]
     /\ UNCHANGED <<bounded, listed, rows, active, slots, jobs, lost, edits, faults>>

\* Back in the action, which may yet raise.
ActionReturns(p, good) ==
  /\ At(p, "inside")
  /\ stack' = ReplaceTop(p, Done(Top(p), good))
  /\ UNCHANGED <<events, bounded, listed, rows, author, active, slots, jobs,
                 lost, edits, faults>>

\* Mutant: the job is a continuation of the same hop.
SameHop(f) == events[f.event].depth

\* act_schedule_action(): the wrapped action is the next hop.
JobDepth(f) == events[f.event].depth + 1

ActSchedule(p) ==
  LET a == Action(Top(p))
  IN /\ At(p, "granted") /\ Schedules[a] # Nothing
     /\ jobs' = jobs \cup
          {[wraps |-> Schedules[a], depth |-> JobDepth(Top(p)),
            hops |-> events[Top(p).event].hops + 1,
            cause |-> <<Top(p).event, Rule(Top(p)), Top(p).index>>,
            by |-> Nothing, told |-> 0]}
     /\ stack' = ReplaceTop(p, Done(Top(p), TRUE))
     /\ UNCHANGED <<events, bounded, listed, rows, author, active, slots, lost,
                    edits, faults>>

\* What its actions came to.
Outcome(f) ==
  CASE f.bad /\ f.ok -> "PARTIALLY_SUCCEEDED"
    [] f.bad /\ ~f.ok -> "FAILED"
    [] f.limited /\ ~f.bad /\ ~f.ok -> "FAILED"
    [] f.limited /\ ~f.bad /\ f.ok -> "PARTIALLY_SUCCEEDED"
    [] OTHER -> "SUCCEEDED"

\* Mutant: every matched rule with stop_processing ends the event.
StopsAnyway(f) == f.limited \/ Stop[Rule(f)]

\* The remaining rules are not run.
EndsEvent(f) ==
  f.limited \/ (Stop[Rule(f)] /\ Outcome(f) \in {"SUCCEEDED", "PARTIALLY_SUCCEEDED"})

FinishRule(p) ==
  /\ At(p, "action") /\ ~MoreActions(Top(p))
  /\ PutRow(p, Outcome(Top(p)))
  /\ stack' = IF EndsEvent(Top(p)) THEN StopRules(p) ELSE NextRule(p)
  /\ UNCHANGED <<events, bounded, listed, author, active, slots, jobs, lost,
                 edits, faults>>

-----------------------------------------------------------------------------
(* Other processes, faults, and the rules' editor                          *)

RunBy(j, w, k) == [wraps |-> j.wraps, depth |-> j.depth, hops |-> j.hops,
                   cause |-> j.cause, by |-> w, told |-> k]

\* A worker takes a due job. It runs within the bounds, with a slot; or it is
\* skipped, past a bound or by the same-rule guard of jobs (that one, and
\* retries, are ScheduledActions').
TakeJob(w, j) ==
  /\ ~Busy(w) /\ j.by = Nothing /\ \A i \in jobs : i.by # w
  /\ \/ /\ j.depth <= MaxDepth /\ SlotFree
        /\ slots' = slots + 1
        /\ jobs' = (jobs \ {j}) \cup {RunBy(j, w, 0)}
     \/ jobs' = jobs \ {j} /\ UNCHANGED slots
  /\ UNCHANGED <<events, bounded, listed, rows, author, active, stack, lost,
                 edits, faults>>

\* Its action publishes in the context of the job, one event after the other.
JobPublishes(w, j) ==
  LET e == Len(events) + 1
  IN /\ ~Busy(w) /\ j.by = w /\ e <= MaxEvents
     /\ author' = [author EXCEPT ![e] = w]
     /\ stack' = [stack EXCEPT ![w] = <<Frame(e)>>]
     /\ \E k \in DOMAIN Publishes[j.wraps] :
          /\ k > j.told
          /\ jobs' = (jobs \ {j}) \cup {RunBy(j, w, k)}
          /\ events' = Append(events,
               Envelope(Publishes[j.wraps][k], j.depth + 1, j.hops + 1))
     /\ UNCHANGED <<bounded, listed, rows, active, slots, lost, edits, faults>>

\* It returns or raises, or its worker dies.
JobEnds(w, j) ==
  /\ ~Busy(w) /\ j.by = w
  /\ jobs' = jobs \ {j}
  /\ UNCHANGED <<events, bounded, listed, rows, author, active, slots, stack,
                 lost, edits, faults>>

RunJob(w, j) == TakeJob(w, j) \/ JobPublishes(w, j) \/ JobEnds(w, j)

\* An exception in the engine itself: publish_event() swallows it, and the
\* action that published goes on.
InternalError(p) ==
  /\ faults < MaxFaults /\ Busy(p) /\ Top(p).at # "inside"
  /\ faults' = faults + 1
  /\ lost' = lost \cup {Top(p).event}
  /\ stack' = Pop(p)
  /\ UNCHANGED <<events, bounded, listed, rows, author, active, slots, jobs, edits>>

\* A process dies: events between commit and on_commit, and rules half run.
Crash(p) ==
  /\ faults < MaxFaults /\ Busy(p)
  /\ faults' = faults + 1
  /\ lost' = lost \cup {stack[p][i].event : i \in DOMAIN stack[p]}
  /\ stack' = [stack EXCEPT ![p] = <<>>]
  /\ jobs' = {j \in jobs : j.by # p}
  /\ UNCHANGED <<events, bounded, listed, rows, author, active, slots, edits>>

\* An administrator activates or deactivates a rule.
SetActive(r) ==
  /\ edits < MaxEdits
  /\ active' = [active EXCEPT ![r] = ~@]
  /\ edits' = edits + 1
  /\ UNCHANGED <<events, bounded, listed, rows, author, slots, jobs, stack,
                 lost, faults>>

Act(p) ==
  \/ \E good \in BOOLEAN : ActQuietly(p, good) \/ ActionReturns(p, good)
  \/ ActAndPublish(p) \/ ActSchedule(p)
Step(p) ==
  \/ Receive(p) \/ Leave(p) \/ Guard(p) \/ Evaluate(p) \/ Match(p)
  \/ ReserveSlot(p) \/ Act(p) \/ FinishRule(p)

Next ==
  \/ \E t \in Threads : PublishRoot(t)
  \/ \E p \in Processes : Step(p) \/ InternalError(p) \/ Crash(p)
  \/ \E w \in Workers : \E j \in jobs : RunJob(w, j)
  \/ \E r \in Rules : SetActive(r)

\* A thread that is running goes on. Workers, requests and editors need not.
Spec == Init /\ [][Next]_vars /\ \A p \in Processes : WF_vars(Step(p))

-----------------------------------------------------------------------------
(* Properties                                                              *)

Places == {"arrived", "rules", "condition", "action", "granted", "inside"}

\* Every variable has its type; a process is only in events it published,
\* inside an action only below another event, and no more slots are taken
\* than MAX_ACTIONS_PER_CORRELATION.
TypeOK ==
  /\ Len(events) <= MaxEvents
  /\ \A e \in DOMAIN events : events[e].depth \in Nat /\ events[e].hops \in Nat
  /\ bounded \subseteq DOMAIN events /\ lost \subseteq DOMAIN events
  /\ listed \in [Ids -> Seq(Rules)]
  /\ rows \in [Ids -> [Rules -> RowStatus]]
  /\ author \in [Ids -> Processes \cup {Nothing}]
  /\ active \in [Rules -> BOOLEAN]
  /\ slots \in 0..MaxActions
  /\ \A p \in Processes : \A i \in DOMAIN stack[p] :
       /\ stack[p][i].event \in DOMAIN events
       /\ author[stack[p][i].event] = p
       /\ stack[p][i].at \in Places
       /\ i < Len(stack[p]) => stack[p][i].at = "inside"
       /\ stack[p][i].at \in {"condition", "action", "granted", "inside"}
            => stack[p][i].left # <<>>
  /\ edits \in 0..MaxEdits /\ faults \in 0..MaxFaults

\* Within one process a rule that runs, or ran with success, in this
\* correlation is never run again (engine.py: the same-rule policy), however
\* its actions' events come back to it; so the stack of a thread is no deeper
\* than the rules there are. (Two processes of one correlation may both pass
\* the unlocked check.)
SameRuleOnce ==
  \A r \in Rules : \A e, f \in DOMAIN events :
    e # f /\ author[e] = author[f]
      => ~(rows[e][r] \in Ran /\ rows[f][r] \in Ran)

\* "bound an entire causal chain" (events.py): however events and scheduled
\* jobs alternate, and through whichever processes, a rule is only evaluated
\* for an event at most MAX_AUTOMATION_DEPTH links away from its root.
ChainsBounded ==
  \A e \in DOMAIN events :
    events[e].hops > MaxDepth => \A r \in Rules : rows[e][r] = "none"

\* What the rules of an event came to: each has its outcome, in order, up to
\* one that stops the event, or the correlation's actions are used up.
Settled(e) ==
  \/ e \in bounded
  \/ \E n \in 0..Len(listed[e]) :
       /\ \A i \in 1..n :
            \/ rows[e][listed[e][i]] \in Final
            \/ rows[e][listed[e][i]] = "MATCHED" /\ Actions[listed[e][i]] = <<>>
       /\ \/ n = Len(listed[e]) \/ slots = MaxActions
          \/ n > 0 /\ Stop[listed[e][n]]
             /\ rows[e][listed[e][n]] \in {"SUCCEEDED", "PARTIALLY_SUCCEEDED"}

\* Every published event runs to its end, through whatever it causes, unless
\* its process fails: nothing else loses an event or a rule, and no chain goes
\* on for ever.
EventsSettled ==
  \A e \in Ids : e \in DOMAIN events
    ~> e \in lost \/ (Settled(e) /\ \A p \in Processes :
                        \A i \in DOMAIN stack[p] : stack[p][i].event # e)
=============================================================================
