----------------------- MODULE ConversationAssignment -----------------------
(***************************************************************************)
(* Who handles a conversation: conversations/services.py (assign, escalate,*)
(* unassign, return to queue, transfer, close, reopen, set status) and     *)
(* queues/services.py (claim, automatic assignment, routing), called by    *)
(* operators' requests and by automations in any number of processes; and  *)
(* the viewset's own update, which is none of theirs.                      *)
(*                                                                         *)
(* Every service changes the conversation under its row lock; an update    *)
(* saves all columns of a copy it read before, without one. What           *)
(* differs is where the agent's capacity is checked: before the            *)
(* transaction (assign), inside it without a lock on the agent (automatic  *)
(* assignment), or under the lock of the agent's OperatorPresence row      *)
(* (claim, which updates that row, and escalate, which selects it FOR      *)
(* UPDATE). One step is one autocommitted statement, or the part of a      *)
(* transaction between two waits; a transaction that waits for no second   *)
(* lock is one step.                                                       *)
(*                                                                         *)
(* Abstracted: priorities, notifications and events; presence, which makes *)
(* any set of agents available to automatic assignment; and the pick among *)
(* the eligible (random, least active, round robin), which is any of them. *)
(* OPEN stands for every status that is not terminal.                      *)
(***************************************************************************)
EXTENDS Integers, FiniteSets, Sequences

CONSTANTS
  Callers, NoCaller,        \* processes running the services
  Conversations, NoConversation,
  Agents, NoAgent,
  Teams, NoTeam,
  Queues, NoQueue,
  Members,                  \* active members of a team
  Supervisors,              \* its supervisors by membership id, its manager
  TeamOf,                   \* Queue.team
  Fallback,                 \* Queue.fallback_queue
  Automatic,                \* queues whose strategy is not MANUAL
  QueueCapacity,            \* Queue.max_active_per_agent, 0 for none
  MaxCapacity,              \* OperatorPresence.max_capacity
  InitialTeam, InitialQueue,
  Operations                \* the operations callers use

ASSUME ConversationAssignmentAssumption ==
  /\ NoCaller \notin Callers
  /\ NoConversation \notin Conversations
  /\ IsFiniteSet(Conversations)
  /\ NoAgent \notin Agents
  /\ NoTeam \notin Teams
  /\ NoQueue \notin Queues
  /\ Members \in [Teams -> SUBSET Agents]
  /\ Supervisors \in [Teams -> Seq(Agents)]
  /\ TeamOf \in [Queues -> Teams]
  /\ Fallback \in [Queues -> Queues \cup {NoQueue}]
  /\ Automatic \subseteq Queues
  /\ QueueCapacity \in [Queues -> Nat]
  /\ MaxCapacity \in [Agents -> Nat]
  /\ InitialTeam \in [Conversations -> Teams \cup {NoTeam}]
  /\ InitialQueue \in [Conversations -> Queues \cup {NoQueue}]

VARIABLES
  assignee,       \* Conversation.assigned_to
  team,           \* Conversation.team
  queue,          \* Conversation.queue
  status,         \* Conversation.status
  lastRow,        \* the last Assignment row of a conversation
  convLock,       \* the transaction holding a Conversation row
  presenceLock,   \* the transaction holding an OperatorPresence row
  pc,             \* where each caller is
  conv,           \* the conversation it works on
  agent,          \* the agent it means to assign, or an update's assigned_to
  onQueue,        \* the queue it read, or tries automatic assignment with
  depth,          \* fallbacks followed
  loadedTeam,     \* escalate: the conversation's team when it was read
  loadedStatus,   \* update: the conversation's status when it was read
  candidates      \* escalate: its supervisors not yet tried, by position

rows == <<assignee, team, queue, status, lastRow>>
locks == <<convLock, presenceLock>>
request ==
  <<conv, agent, onQueue, depth, loadedTeam, loadedStatus, candidates>>
vars == <<rows, locks, pc, request>>

Statuses == {"OPEN", "RESOLVED", "CLOSED"}
Terminal == {"RESOLVED", "CLOSED"}

Stages == {"idle", "claim", "claimPresence", "claimCommit",
           "assignCheck", "assign",
           "auto", "scan", "autoCommit",
           "escalate", "candidate", "escalateCommit",
           "update"}

RowActions ==
  {"NONE", "CLAIM", "ASSIGN", "REASSIGN", "AUTO_ASSIGN", "RETURN_TO_QUEUE",
   "ESCALATE", "UNASSIGN", "TRANSFER"}

Row(action, to, previous) == [action |-> action, to |-> to, previous |-> previous]
NoRow == Row("NONE", NoAgent, NoAgent)

Init ==
  /\ assignee = [c \in Conversations |-> NoAgent]
  /\ team = InitialTeam
  /\ queue = InitialQueue
  /\ status = [c \in Conversations |-> "OPEN"]
  /\ lastRow = [c \in Conversations |-> NoRow]
  /\ convLock = [c \in Conversations |-> NoCaller]
  /\ presenceLock = [a \in Agents |-> NoCaller]
  /\ pc = [w \in Callers |-> "idle"]
  /\ conv = [w \in Callers |-> NoConversation]
  /\ agent = [w \in Callers |-> NoAgent]
  /\ onQueue = [w \in Callers |-> NoQueue]
  /\ depth = [w \in Callers |-> 0]
  /\ loadedTeam = [w \in Callers |-> NoTeam]
  /\ loadedStatus = [w \in Callers |-> "OPEN"]
  /\ candidates = [w \in Callers |-> {}]

Goto(w, stage) == pc' = [pc EXCEPT ![w] = stage]

\* active_conversation_count(): committed rows only, computed on demand.
Active(a) == {c \in Conversations : assignee[c] = a /\ status[c] \notin Terminal}

\* The queue's override where it has one, else the agent's own capacity.
CapacityIn(q, a) ==
  IF q # NoQueue /\ QueueCapacity[q] # 0 THEN QueueCapacity[q] ELSE MaxCapacity[a]

AtCapacity(a, q) == Cardinality(Active(a)) >= CapacityIn(q, a)

Free(c) == convLock[c] = NoCaller

LockConv(w) ==
  /\ Free(conv[w])
  /\ convLock' = [convLock EXCEPT ![conv[w]] = w]

LockPresence(w, a) ==
  /\ presenceLock[a] \in {NoCaller, w}
  /\ presenceLock' = [presenceLock EXCEPT ![a] = w]

\* Mutant: a transaction is left open when its request ends.
StillHeld(w, f) == f

\* Commit or rollback releases every row of the transaction.
Released(w, f) == [x \in DOMAIN f |-> IF f[x] = w THEN NoCaller ELSE f[x]]

EndRequest(w) ==
  /\ convLock' = Released(w, convLock)
  /\ presenceLock' = Released(w, presenceLock)
  /\ Goto(w, "idle")
  /\ agent' = [agent EXCEPT ![w] = NoAgent]
  /\ onQueue' = [onQueue EXCEPT ![w] = NoQueue]
  /\ depth' = [depth EXCEPT ![w] = 0]
  /\ loadedTeam' = [loadedTeam EXCEPT ![w] = NoTeam]
  /\ loadedStatus' = [loadedStatus EXCEPT ![w] = "OPEN"]
  /\ candidates' = [candidates EXCEPT ![w] = {}]
  /\ conv' = [conv EXCEPT ![w] = NoConversation]

\* The request ends without having changed anything: refused, or rolled back.
Refuse(w) == EndRequest(w) /\ UNCHANGED rows

SetAssignee(c, a) == assignee' = [assignee EXCEPT ![c] = a]

AddRow(c, row) == lastRow' = [lastRow EXCEPT ![c] = row]

\* A caller takes up an operation on c, which the view has loaded.
Begin(w, operation, c, stage) ==
  /\ pc[w] = "idle"
  /\ operation \in Operations
  /\ Goto(w, stage)
  /\ conv' = [conv EXCEPT ![w] = c]

-----------------------------------------------------------------------------
(* claim_conversation *)

BeginClaim(w, c, a) ==
  /\ Begin(w, "claim", c, "claim")
  /\ agent' = [agent EXCEPT ![w] = a]
  /\ UNCHANGED <<rows, locks, onQueue, depth, loadedTeam, loadedStatus, candidates>>

\* Mutant: the check of the loaded row is not repeated under the lock.
AnyAssignee(c) == TRUE

Unassigned(c) == assignee[c] = NoAgent

MayClaim(a, c) == team[c] # NoTeam => a \in Members[team[c]]

\* Under the conversation's lock: already assigned and strangers are refused.
ClaimConversation(w) ==
  /\ pc[w] = "claim"
  /\ Free(conv[w])
  /\ IF Unassigned(conv[w]) /\ MayClaim(agent[w], conv[w])
     THEN /\ LockConv(w)
          /\ Goto(w, "claimPresence")
          /\ UNCHANGED <<rows, presenceLock, request>>
     ELSE Refuse(w)

\* Mutant: touch_presence() runs in a transaction of its own.
TouchOnly(w, a) == UNCHANGED presenceLock

\* touch_presence() updates the agent's presence row, which stays locked.
HoldPresence(w, a) == LockPresence(w, a)

CheckClaimant(w) ==
  /\ pc[w] = "claimPresence"
  /\ presenceLock[agent[w]] = NoCaller
  /\ IF AtCapacity(agent[w], queue[conv[w]])
     THEN Refuse(w)
     ELSE /\ HoldPresence(w, agent[w])
          /\ Goto(w, "claimCommit")
          /\ UNCHANGED <<rows, convLock, request>>

CommitClaim(w) ==
  /\ pc[w] = "claimCommit"
  /\ SetAssignee(conv[w], agent[w])
  /\ status' = [status EXCEPT ![conv[w]] = "OPEN"]
  /\ AddRow(conv[w], Row("CLAIM", agent[w], NoAgent))
  /\ EndRequest(w)
  /\ UNCHANGED <<team, queue>>

-----------------------------------------------------------------------------
(* assign_to_self, assign_to_agent: _reassign *)

BeginAssign(w, c, a) ==
  /\ Begin(w, "assign", c, "assignCheck")
  /\ agent' = [agent EXCEPT ![w] = a]
  /\ onQueue' = [onQueue EXCEPT ![w] = queue[c]]
  /\ UNCHANGED <<rows, locks, depth, loadedTeam, loadedStatus, candidates>>

\* _require_capacity(): before, and outside, the transaction.
RequireCapacity(w) ==
  /\ pc[w] = "assignCheck"
  /\ presenceLock[agent[w]] = NoCaller
  /\ IF AtCapacity(agent[w], onQueue[w])
     THEN Refuse(w)
     ELSE Goto(w, "assign") /\ UNCHANGED <<rows, locks, request>>

Reassign(w) ==
  /\ pc[w] = "assign"
  /\ Free(conv[w])
  /\ LET previous == assignee[conv[w]] IN
       AddRow(conv[w], Row(IF previous = NoAgent THEN "ASSIGN" ELSE "REASSIGN",
                           agent[w], previous))
  /\ SetAssignee(conv[w], agent[w])
  /\ status' = [status EXCEPT ![conv[w]] = "OPEN"]
  /\ EndRequest(w)
  /\ UNCHANGED <<team, queue>>

-----------------------------------------------------------------------------
(* auto_assign, route_to_queue, return_to_queue *)

\* ASSIGN_USING_QUEUE_STRATEGY; a MANUAL queue leaves everything as it is.
BeginAutoAssign(w, c, q) ==
  /\ q \in Automatic
  /\ Begin(w, "auto", c, "auto")
  /\ onQueue' = [onQueue EXCEPT ![w] = q]
  /\ UNCHANGED <<rows, locks, agent, depth, loadedTeam, loadedStatus, candidates>>

\* Someone else already won the assignment race, or the search begins.
AutoConversation(w) ==
  /\ pc[w] = "auto"
  /\ Free(conv[w])
  /\ IF Unassigned(conv[w])
     THEN /\ LockConv(w)
          /\ Goto(w, "scan")
          /\ UNCHANGED <<rows, presenceLock, request>>
     ELSE Refuse(w)

\* _eligible_agents(): available members of the queue's team with capacity.
Eligible(q, available) ==
  {a \in Members[TeamOf[q]] \cap available : ~AtCapacity(a, q)}

\* Mutant: fallbacks are followed for ever.
AnyFallback(q, d) == Fallback[q] \notin {NoQueue, q} /\ Fallback[q] \in Automatic

FollowsFallback(q, d) ==
  Fallback[q] \notin {NoQueue, q} /\ Fallback[q] \in Automatic /\ d < 5

\* The scan picks an eligible agent, goes on to the fallback queue, or gives
\* up: no fallback, a MANUAL one, or more than five of them in a row.
ScanQueue(w, available) ==
  /\ pc[w] = "scan"
  /\ LET q == onQueue[w]
         eligible == Eligible(q, available) IN
     \/ \E a \in eligible :
          /\ agent' = [agent EXCEPT ![w] = a]
          /\ Goto(w, "autoCommit")
          /\ UNCHANGED <<rows, locks, conv, onQueue, depth, loadedTeam,
                         loadedStatus, candidates>>
     \/ /\ eligible = {}
        /\ IF FollowsFallback(q, depth[w])
           THEN /\ onQueue' = [onQueue EXCEPT ![w] = Fallback[q]]
                /\ depth' = [depth EXCEPT ![w] = @ + 1]
                /\ UNCHANGED <<rows, locks, pc, conv, agent, loadedTeam,
                               loadedStatus, candidates>>
           ELSE Refuse(w)

CommitAuto(w) ==
  /\ pc[w] = "autoCommit"
  /\ SetAssignee(conv[w], agent[w])
  /\ team' = [team EXCEPT ![conv[w]] = TeamOf[onQueue[w]]]
  /\ queue' = [queue EXCEPT ![conv[w]] = onQueue[w]]
  /\ status' = [status EXCEPT ![conv[w]] = "OPEN"]
  /\ AddRow(conv[w], Row("AUTO_ASSIGN", agent[w], NoAgent))
  /\ EndRequest(w)

\* The second half of a routing request: automatic assignment, with the queue
\* the first transaction saw, unless that queue is MANUAL.
ThenAutoAssign(w, operation, c, q) ==
  /\ operation \in Operations
  /\ pc[w] = "idle"
  /\ IF q \in Automatic
     THEN /\ Goto(w, "auto")
          /\ conv' = [conv EXCEPT ![w] = c]
          /\ onQueue' = [onQueue EXCEPT ![w] = q]
     ELSE UNCHANGED <<pc, conv, onQueue>>
  /\ UNCHANGED <<locks, agent, depth, loadedTeam, loadedStatus, candidates>>

RouteToQueue(w, c, q) ==
  /\ Free(c)
  /\ queue' = [queue EXCEPT ![c] = q]
  /\ team' = [team EXCEPT ![c] = TeamOf[q]]
  /\ ThenAutoAssign(w, "route", c, q)
  /\ UNCHANGED <<assignee, status, lastRow>>

ReturnToQueue(w, c) ==
  /\ Free(c)
  /\ SetAssignee(c, NoAgent)
  /\ AddRow(c, Row("RETURN_TO_QUEUE", NoAgent, assignee[c]))
  /\ ThenAutoAssign(w, "return", c, queue[c])
  /\ UNCHANGED <<team, queue, status>>

-----------------------------------------------------------------------------
(* escalate *)

\* _eligible_escalation_supervisors(), by position in an order that is the same
\* for every conversation of the team.
EscalationCandidates(c, actor) ==
  IF team[c] = NoTeam THEN {}
  ELSE {i \in DOMAIN Supervisors[team[c]] : Supervisors[team[c]][i] # actor}

\* The candidates of the conversation as loaded; a team without any refuses
\* the request before it changes anything.
BeginEscalate(w, c, actor) ==
  /\ Begin(w, "escalate", c, "escalate")
  /\ team[c] # NoTeam => EscalationCandidates(c, actor) # {}
  /\ candidates' = [candidates EXCEPT ![w] = EscalationCandidates(c, actor)]
  /\ loadedTeam' = [loadedTeam EXCEPT ![w] = team[c]]
  /\ UNCHANGED <<rows, locks, agent, onQueue, depth, loadedStatus>>

EscalateConversation(w) ==
  /\ pc[w] = "escalate"
  /\ LockConv(w)
  /\ Goto(w, "candidate")
  /\ UNCHANGED <<rows, presenceLock, request>>

\* The candidate at position i is the next to try.
IsNext(w, i) == i \in candidates[w] /\ \A n \in candidates[w] : i <= n

\* The next candidate's presence row is locked, and stays locked when the
\* candidate turns out to be at capacity.
TryCandidate(w) ==
  /\ pc[w] = "candidate"
  /\ \E i \in candidates[w] :
       LET a == Supervisors[loadedTeam[w]][i] IN
         /\ IsNext(w, i)
         /\ HoldPresence(w, a)
         /\ IF AtCapacity(a, queue[conv[w]])
            THEN /\ candidates' = [candidates EXCEPT ![w] = @ \ {i}]
                 /\ UNCHANGED <<pc, agent>>
            ELSE /\ agent' = [agent EXCEPT ![w] = a]
                 /\ Goto(w, "escalateCommit")
                 /\ UNCHANGED candidates
  /\ UNCHANGED <<rows, convLock, conv, onQueue, depth, loadedTeam, loadedStatus>>

\* No candidate has room: refused. A conversation loaded without a team only
\* gets its history row (and its priority).
OutOfCandidates(w) ==
  /\ pc[w] = "candidate"
  /\ candidates[w] = {}
  /\ IF loadedTeam[w] # NoTeam
     THEN Refuse(w)
     ELSE /\ AddRow(conv[w], Row("ESCALATE", NoAgent, assignee[conv[w]]))
          /\ EndRequest(w)
          /\ UNCHANGED <<assignee, team, queue, status>>

\* Mutant: save(update_fields=['priority']) forgets the assignee.
PriorityOnly(c, a) == UNCHANGED assignee

SaveSupervisor(c, a) == SetAssignee(c, a)

CommitEscalation(w) ==
  /\ pc[w] = "escalateCommit"
  /\ AddRow(conv[w], Row("ESCALATE", agent[w], assignee[conv[w]]))
  /\ SaveSupervisor(conv[w], agent[w])
  /\ EndRequest(w)
  /\ UNCHANGED <<team, queue, status>>

-----------------------------------------------------------------------------
(* Operations that are one transaction with one lock *)

Unassign(c) ==
  /\ "unassign" \in Operations
  /\ Free(c)
  /\ SetAssignee(c, NoAgent)
  /\ AddRow(c, Row("UNASSIGN", NoAgent, assignee[c]))
  /\ UNCHANGED <<team, queue, status, locks, pc, request>>

TransferTeam(c, t) ==
  /\ "transfer" \in Operations
  /\ Free(c)
  /\ team' = [team EXCEPT ![c] = t]
  /\ queue' = [queue EXCEPT ![c] = NoQueue]
  /\ SetAssignee(c, NoAgent)
  /\ AddRow(c, Row("TRANSFER", NoAgent, assignee[c]))
  /\ UNCHANGED <<status, locks, pc, request>>

SetStatus(c, s) ==
  /\ Free(c)
  /\ status' = [status EXCEPT ![c] = s]
  /\ UNCHANGED <<assignee, team, queue, lastRow, locks, pc, request>>

CloseConversation(c) == "close" \in Operations /\ SetStatus(c, "CLOSED")

ReopenConversation(c) ==
  "reopen" \in Operations /\ status[c] = "CLOSED" /\ SetStatus(c, "OPEN")

\* set_status, which any automation or macro may use with any status.
ChangeStatus(c, s) == "status" \in Operations /\ SetStatus(c, s)

-----------------------------------------------------------------------------
(* PATCH of a conversation: the viewset's own update *)

\* get_object() reads the row.
BeginUpdate(w, c) ==
  /\ Begin(w, "update", c, "update")
  /\ agent' = [agent EXCEPT ![w] = assignee[c]]
  /\ loadedStatus' = [loadedStatus EXCEPT ![w] = status[c]]
  /\ UNCHANGED <<rows, locks, onQueue, depth, loadedTeam, candidates>>

\* save() writes every column: assignee and status as they were read, team and
\* queue those of the request or as they were read. It adds no history row.
CommitUpdate(w) ==
  /\ pc[w] = "update"
  /\ Free(conv[w])
  /\ SetAssignee(conv[w], agent[w])
  /\ status' = [status EXCEPT ![conv[w]] = loadedStatus[w]]
  /\ \E t \in Teams \cup {NoTeam} : team' = [team EXCEPT ![conv[w]] = t]
  /\ \E q \in Queues \cup {NoQueue} : queue' = [queue EXCEPT ![conv[w]] = q]
  /\ EndRequest(w)
  /\ UNCHANGED lastRow

-----------------------------------------------------------------------------
(* The database *)

\* The callers whose lock w waits for: at most one.
WaitsFor(w) ==
  CASE pc[w] \in {"claim", "assign", "auto", "escalate", "update"} ->
         {convLock[conv[w]]}
    [] pc[w] \in {"claimPresence", "assignCheck"} -> {presenceLock[agent[w]]}
    [] pc[w] = "candidate" ->
         {presenceLock[Supervisors[loadedTeam[w]][i]] :
            i \in {n \in candidates[w] : IsNext(w, n)}}
    [] OTHER -> {}

\* Every member of S waits for another one.
IsLockCycle(S) == \A w \in S : WaitsFor(w) \cap (S \ {w}) # {}

\* Postgres aborts a transaction of a deadlock: the request fails with an error.
AbortVictim(w) ==
  /\ \E S \in SUBSET Callers : w \in S /\ IsLockCycle(S)
  /\ Refuse(w)

\* The process dies and its transaction is rolled back.
Crash(w) == pc[w] # "idle" /\ Refuse(w)

Step(w) ==
  \/ ClaimConversation(w) \/ CheckClaimant(w) \/ CommitClaim(w)
  \/ RequireCapacity(w) \/ Reassign(w)
  \/ AutoConversation(w)
  \/ \E available \in SUBSET Agents : ScanQueue(w, available)
  \/ CommitAuto(w)
  \/ EscalateConversation(w) \/ TryCandidate(w) \/ OutOfCandidates(w)
  \/ CommitEscalation(w)
  \/ CommitUpdate(w)
  \/ AbortVictim(w)

Request(w, c) ==
  \/ \E a \in Agents : BeginClaim(w, c, a) \/ BeginAssign(w, c, a)
  \/ \E q \in Queues : BeginAutoAssign(w, c, q) \/ RouteToQueue(w, c, q)
  \/ ReturnToQueue(w, c)
  \/ \E actor \in Agents \cup {NoAgent} : BeginEscalate(w, c, actor)
  \/ BeginUpdate(w, c)

Next ==
  \/ \E w \in Callers :
       Step(w) \/ Crash(w) \/ \E c \in Conversations : Request(w, c)
  \/ \E c \in Conversations :
       \/ Unassign(c)
       \/ \E t \in Teams : TransferTeam(c, t)
       \/ CloseConversation(c)
       \/ ReopenConversation(c)
       \/ \E s \in Statuses : ChangeStatus(c, s)

Spec == Init /\ [][Next]_vars

\* A request goes on unless its process dies, and a row lock is granted to its
\* waiters in turn. Nobody has to make a request.
Fairness == \A w \in Callers : SF_vars(Step(w))

FairSpec == Spec /\ Fairness

-----------------------------------------------------------------------------
(* Properties *)

RowsOK ==
  /\ assignee \in [Conversations -> Agents \cup {NoAgent}]
  /\ team \in [Conversations -> Teams \cup {NoTeam}]
  /\ queue \in [Conversations -> Queues \cup {NoQueue}]
  /\ status \in [Conversations -> Statuses]
  /\ lastRow \in [Conversations -> [action : RowActions,
                                    to : Agents \cup {NoAgent},
                                    previous : Agents \cup {NoAgent}]]

LocksOK ==
  /\ convLock \in [Conversations -> Callers \cup {NoCaller}]
  /\ presenceLock \in [Agents -> Callers \cup {NoCaller}]

RequestsOK ==
  /\ pc \in [Callers -> Stages]
  /\ conv \in [Callers -> Conversations \cup {NoConversation}]
  /\ agent \in [Callers -> Agents \cup {NoAgent}]
  /\ onQueue \in [Callers -> Queues \cup {NoQueue}]
  /\ depth \in [Callers -> 0..5]
  /\ loadedTeam \in [Callers -> Teams \cup {NoTeam}]
  /\ loadedStatus \in [Callers -> Statuses]
  /\ candidates \in [Callers -> SUBSET Nat]

\* Every variable keeps its type.
TypeOK == RowsOK /\ LocksOK /\ RequestsOK

\* An agent never has more active conversations than a capacity that applies
\* to them allows. Claims and escalations keep it between them.
CapacityHolds ==
  \A a \in Agents :
    \E q \in Queues \cup {NoQueue} :
      Cardinality(Active(a)) <= CapacityIn(q, a)

\* "Concurrency-safe: only the first of two simultaneous claimants wins": a
\* claim or an automatic assignment, which checked it a few steps before, takes
\* a conversation from nobody whatever services and updates do meanwhile, and a
\* claim is made by a member of the team the conversation has at that moment.
NothingSnatched ==
  [][\A w \in Callers :
       /\ pc[w] \in {"claimCommit", "autoCommit"}
       /\ assignee'[conv[w]] # assignee[conv[w]]
       => /\ assignee[conv[w]] = NoAgent
          /\ pc[w] = "claimCommit" => MayClaim(agent[w], conv[w])]_vars

\* The assignee a conversation has according to its history.
Told(row) ==
  IF row.action = "ESCALATE" /\ row.to = NoAgent THEN row.previous ELSE row.to

\* "the full history of a conversation's handling is always reconstructable":
\* the last Assignment row tells the present assignee, and names as previous
\* assignee the one the row before it told. (Services keep it; an update that
\* writes an assignee back does not.)
HistoryTellsAssignee ==
  [][\A c \in Conversations :
       /\ Told(lastRow'[c]) = assignee'[c]
       /\ lastRow'[c] # lastRow[c] => lastRow'[c].previous = Told(lastRow[c])]_vars

\* transfer_team: the "receiving team must claim/assign explicitly". Automatic
\* assignment never takes what was transferred and not routed again. (Where only
\* return_to_queue assigns automatically; its second transaction does take it.)
TransfersStick ==
  [][\A c \in Conversations :
       lastRow[c].action = "TRANSFER" => lastRow'[c].action # "AUTO_ASSIGN"]_vars

\* A request that has begun ends: it is never left waiting for a row lock.
RequestsEnd == \A w \in Callers : pc[w] # "idle" ~> pc[w] = "idle"

=============================================================================
