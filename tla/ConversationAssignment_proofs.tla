-------------------- MODULE ConversationAssignment_proofs --------------------
(***************************************************************************)
(* Safety of the assignment services for all teams, queues, agents and     *)
(* callers.                                                                *)
(*                                                                         *)
(* A claim and an automatic assignment read the assignee in one step and   *)
(* overwrite it in a later one. What they read stays true because they     *)
(* hold the conversation's row lock all the while (HoldsConversation), and *)
(* whoever else writes the assignee, the team or the history has that lock *)
(* too, or finds it free.                                                  *)
(*                                                                         *)
(* Capacity is a count over conversations that other callers have locked.  *)
(* Where only claims and escalations give conversations to agents, the     *)
(* agent's presence row serialises those who could add to its count        *)
(* (RoomKept); everybody else can only lower it.                           *)
(***************************************************************************)
EXTENDS ConversationAssignment, FiniteSetTheorems, TLAPS

\* The stages of a transaction that has locked its conversation.
InTransaction == {"claimPresence", "claimCommit", "scan", "autoCommit",
                  "candidate", "escalateCommit"}

\* A request has the conversation, agent, queue or candidates its stage uses.
RequestTyped ==
  \A w \in Callers :
    /\ pc[w] # "idle" => conv[w] \in Conversations
    /\ pc[w] \in {"claim", "claimPresence", "claimCommit", "assignCheck",
                  "assign", "autoCommit", "escalateCommit"}
         => agent[w] \in Agents
    /\ pc[w] \in {"auto", "scan", "autoCommit"} => onQueue[w] \in Queues
    /\ candidates[w] # {} =>
         /\ loadedTeam[w] \in Teams
         /\ candidates[w] \subseteq DOMAIN Supervisors[loadedTeam[w]]
    /\ pc[w] = "update" => "update" \in Operations

HoldsConversation ==
  \A w \in Callers : pc[w] \in InTransaction => convLock[conv[w]] = w

\* A claim or automatic assignment under way is of a conversation nobody has,
\* and a claimant is a member of the team the conversation has.
TakesFromNobody ==
  \A w \in Callers :
    /\ pc[w] \in {"claimPresence", "claimCommit", "scan", "autoCommit"} =>
         assignee[conv[w]] = NoAgent
    /\ pc[w] \in {"claimPresence", "claimCommit"} =>
         MayClaim(agent[w], conv[w])

\* The last history row tells the assignee.
HistoryTrue == \A c \in Conversations : Told(lastRow[c]) = assignee[c]

LockInv == TypeOK /\ RequestTyped /\ HoldsConversation /\ TakesFromNobody

DeskInv == LockInv /\ HistoryTrue

-----------------------------------------------------------------------------
\* A team's supervisors are agents.
LEMMA SupervisorIsAgent ==
  ASSUME NEW t \in Teams, NEW i \in DOMAIN Supervisors[t]
  PROVE  i \in Nat /\ Supervisors[t][i] \in Agents
<1>1. Supervisors[t] \in Seq(Agents)
  BY ConversationAssignmentAssumption
<1>. QED
  BY <1>1

LEMMA InitDeskInv == Init => DeskInv
<1> SUFFICES ASSUME Init PROVE DeskInv
  OBVIOUS
<1>1. TypeOK
  BY ConversationAssignmentAssumption
     DEF Init, TypeOK, RowsOK, LocksOK, RequestsOK, Stages, Statuses,
         RowActions, NoRow, Row
<1>. QED
  BY <1>1 DEF Init, LockInv, DeskInv, RequestTyped, HoldsConversation, InTransaction,
              TakesFromNobody, HistoryTrue, Told, NoRow, Row

\* The end of a request releases its own locks and nobody else's, and leaves
\* nothing of the request behind.
LEMMA EndReleases ==
  ASSUME TypeOK, RequestTyped, NEW w \in Callers, EndRequest(w)
  PROVE  /\ LocksOK' /\ RequestsOK' /\ RequestTyped'
         /\ \A c \in Conversations :
              convLock[c] # w => convLock'[c] = convLock[c]
         /\ \A a \in Agents :
              presenceLock[a] # w => presenceLock'[a] = presenceLock[a]
<1>1. /\ LocksOK'
      /\ \A c \in Conversations :
           convLock[c] # w => convLock'[c] = convLock[c]
      /\ \A a \in Agents :
           presenceLock[a] # w => presenceLock'[a] = presenceLock[a]
  BY DEF TypeOK, LocksOK, EndRequest, Released
<1>2. RequestsOK'
  BY DEF TypeOK, RequestsOK, EndRequest, Goto, Stages, Statuses
<1>3. RequestTyped'
  BY DEF TypeOK, RequestsOK, RequestTyped, EndRequest, Goto
<1>. QED
  BY <1>1, <1>2, <1>3

\* Every step keeps the types, and what the stages rely on.
LEMMA TypeStep ==
  ASSUME TypeOK, RequestTyped, [Next]_vars
  PROVE  TypeOK' /\ RequestTyped'
<1> DEFINE Goal == RowsOK' /\ LocksOK' /\ RequestsOK' /\ RequestTyped'
<1>0. /\ UNCHANGED rows => RowsOK'
      /\ UNCHANGED locks => LocksOK'
      /\ UNCHANGED <<pc, request>> => RequestsOK' /\ RequestTyped'
  <2>1. UNCHANGED rows => RowsOK'
    BY DEF rows, TypeOK, RowsOK
  <2>2. UNCHANGED locks => LocksOK'
    BY DEF locks, TypeOK, LocksOK
  <2>3. UNCHANGED <<pc, request>> => RequestsOK' /\ RequestTyped'
    BY DEF request, TypeOK, RequestsOK, RequestTyped
  <2>. QED
    BY <2>1, <2>2, <2>3
<1>1. ASSUME UNCHANGED vars PROVE Goal
  <2>1. UNCHANGED rows /\ UNCHANGED locks /\ UNCHANGED <<pc, request>>
    BY <1>1 DEF vars
  <2>. QED
    BY <1>0, <2>1
<1>2. ASSUME NEW w \in Callers, Refuse(w) PROVE Goal
  BY <1>0, <1>2, EndReleases DEF Refuse
<1>3. ASSUME NEW w \in Callers, ClaimConversation(w) PROVE Goal
  <2>1. CASE ~Refuse(w)
    <3>1. /\ LockConv(w) /\ Goto(w, "claimPresence") /\ pc[w] = "claim"
          /\ UNCHANGED <<rows, presenceLock, request>>
      BY <1>3, <2>1 DEF ClaimConversation
    <3>2. LocksOK'
      BY <3>1 DEF LockConv, TypeOK, LocksOK
    <3>3. RequestsOK' /\ RequestTyped'
      BY <3>1 DEF Goto, Stages, request, TypeOK, RequestsOK, RequestTyped
    <3>. QED
      BY <1>0, <3>1, <3>2, <3>3
  <2>. QED
    BY <1>2, <2>1
<1>4. ASSUME NEW w \in Callers, CheckClaimant(w) PROVE Goal
  <2>1. CASE ~Refuse(w)
    <3>1. /\ HoldPresence(w, agent[w]) /\ Goto(w, "claimCommit")
          /\ pc[w] = "claimPresence"
          /\ UNCHANGED <<rows, convLock, request>>
      BY <1>4, <2>1 DEF CheckClaimant
    <3>2. LocksOK'
      BY <3>1 DEF HoldPresence, LockPresence, TypeOK, LocksOK
    <3>3. RequestsOK' /\ RequestTyped'
      BY <3>1 DEF Goto, Stages, request, TypeOK, RequestsOK, RequestTyped
    <3>. QED
      BY <1>0, <3>1, <3>2, <3>3
  <2>. QED
    BY <1>2, <2>1
<1>5. ASSUME NEW w \in Callers, CommitClaim(w) PROVE Goal
  <2>1. RowsOK'
    BY <1>5 DEF CommitClaim, SetAssignee, AddRow, Row, RowActions, Statuses,
                TypeOK, RowsOK, RequestsOK
  <2>. QED
    BY <1>5, <2>1, EndReleases DEF CommitClaim
<1>6. ASSUME NEW w \in Callers, RequireCapacity(w) PROVE Goal
  <2>1. CASE ~Refuse(w)
    <3>1. /\ Goto(w, "assign") /\ pc[w] = "assignCheck"
          /\ UNCHANGED <<rows, locks, request>>
      BY <1>6, <2>1 DEF RequireCapacity
    <3>2. RequestsOK' /\ RequestTyped'
      BY <3>1 DEF Goto, Stages, request, TypeOK, RequestsOK, RequestTyped
    <3>. QED
      BY <1>0, <3>1, <3>2
  <2>. QED
    BY <1>2, <2>1
<1>7. ASSUME NEW w \in Callers, Reassign(w) PROVE Goal
  <2>1. RowsOK'
    BY <1>7 DEF Reassign, SetAssignee, AddRow, Row, RowActions, Statuses,
                TypeOK, RowsOK, RequestsOK, RequestTyped
  <2>. QED
    BY <1>7, <2>1, EndReleases DEF Reassign
<1>8. ASSUME NEW w \in Callers, AutoConversation(w) PROVE Goal
  <2>1. CASE ~Refuse(w)
    <3>1. /\ LockConv(w) /\ Goto(w, "scan") /\ pc[w] = "auto"
          /\ UNCHANGED <<rows, presenceLock, request>>
      BY <1>8, <2>1 DEF AutoConversation
    <3>2. LocksOK'
      BY <3>1 DEF LockConv, TypeOK, LocksOK
    <3>3. RequestsOK' /\ RequestTyped'
      BY <3>1 DEF Goto, Stages, request, TypeOK, RequestsOK, RequestTyped
    <3>. QED
      BY <1>0, <3>1, <3>2, <3>3
  <2>. QED
    BY <1>2, <2>1
<1>9. ASSUME NEW w \in Callers, NEW S \in SUBSET Agents, ScanQueue(w, S)
      PROVE  Goal
  <2>1. CASE \E a \in Eligible(onQueue[w], S) :
               /\ agent' = [agent EXCEPT ![w] = a]
               /\ Goto(w, "autoCommit")
               /\ UNCHANGED <<rows, locks, conv, onQueue, depth, loadedTeam,
                              loadedStatus, candidates>>
    <3>1. PICK a \in S :
               /\ agent' = [agent EXCEPT ![w] = a]
               /\ Goto(w, "autoCommit")
               /\ UNCHANGED <<rows, locks, conv, onQueue, depth, loadedTeam,
                              loadedStatus, candidates>>
      BY <2>1 DEF Eligible
    <3>2. RequestsOK'
      BY <1>9, <3>1 DEF Goto, Stages, TypeOK, RequestsOK
    <3>3. RequestTyped'
      BY <1>9, <3>1 DEF ScanQueue, Goto, TypeOK, RequestsOK, RequestTyped
    <3>. QED
      BY <1>0, <3>1, <3>2, <3>3
  <2>2. CASE /\ FollowsFallback(onQueue[w], depth[w])
             /\ onQueue' = [onQueue EXCEPT ![w] = Fallback[onQueue[w]]]
             /\ depth' = [depth EXCEPT ![w] = @ + 1]
             /\ UNCHANGED <<rows, locks, pc, conv, agent, loadedTeam,
                            loadedStatus, candidates>>
    <3>1. pc[w] = "scan" /\ depth[w] + 1 \in 0..5
      BY <1>9, <2>2 DEF ScanQueue, FollowsFallback, TypeOK, RequestsOK
    <3>2. Fallback[onQueue[w]] \in Queues
      BY <2>2, ConversationAssignmentAssumption DEF FollowsFallback
    <3>3. RequestsOK' /\ RequestTyped'
      BY <2>2, <3>1, <3>2 DEF TypeOK, RequestsOK, RequestTyped
    <3>. QED
      BY <1>0, <2>2, <3>3
  <2>3. CASE Refuse(w)
    BY <1>2, <2>3
  <2>. QED
    BY <1>9, <2>1, <2>2, <2>3 DEF ScanQueue
<1>10. ASSUME NEW w \in Callers, CommitAuto(w) PROVE Goal
  <2>1. TeamOf[onQueue[w]] \in Teams
    BY <1>10, ConversationAssignmentAssumption DEF CommitAuto, RequestTyped
  <2>2. RowsOK'
    BY <1>10, <2>1 DEF CommitAuto, SetAssignee, AddRow, Row, RowActions,
                       Statuses, TypeOK, RowsOK, RequestsOK
  <2>. QED
    BY <1>10, <2>2, EndReleases DEF CommitAuto
<1>11. ASSUME NEW w \in Callers, EscalateConversation(w) PROVE Goal
  <2>1. LocksOK'
    BY <1>11 DEF EscalateConversation, LockConv, TypeOK, LocksOK
  <2>2. RequestsOK' /\ RequestTyped'
    BY <1>11 DEF EscalateConversation, Goto, Stages, request, TypeOK,
                 RequestsOK, RequestTyped
  <2>. QED
    BY <1>0, <1>11, <2>1, <2>2 DEF EscalateConversation
<1>12. ASSUME NEW w \in Callers, TryCandidate(w) PROVE Goal
  <2>1. PICK i \in candidates[w] :
          LET a == Supervisors[loadedTeam[w]][i] IN
            /\ HoldPresence(w, a)
            /\ IF AtCapacity(a, queue[conv[w]])
               THEN /\ candidates' = [candidates EXCEPT ![w] = @ \ {i}]
                    /\ UNCHANGED <<pc, agent>>
               ELSE /\ agent' = [agent EXCEPT ![w] = a]
                    /\ Goto(w, "escalateCommit")
                    /\ UNCHANGED candidates
    BY <1>12 DEF TryCandidate
  <2> DEFINE a == Supervisors[loadedTeam[w]][i]
  <2>2. a \in Agents
    BY SupervisorIsAgent DEF RequestTyped
  <2>3. /\ pc[w] = "candidate"
        /\ UNCHANGED <<rows, convLock, conv, onQueue, depth, loadedTeam,
                       loadedStatus>>
    BY <1>12 DEF TryCandidate
  <2>4. LocksOK'
    BY <2>1, <2>3 DEF HoldPresence, LockPresence, TypeOK, LocksOK
  <2>5. CASE /\ candidates' = [candidates EXCEPT ![w] = @ \ {i}]
             /\ UNCHANGED <<pc, agent>>
    BY <1>0, <2>3, <2>4, <2>5 DEF TypeOK, RequestsOK, RequestTyped
  <2>6. CASE /\ agent' = [agent EXCEPT ![w] = a]
             /\ Goto(w, "escalateCommit")
             /\ UNCHANGED candidates
    <3> HIDE DEF a
    <3>1. RequestsOK' /\ RequestTyped'
      BY <2>2, <2>3, <2>6
         DEF Goto, Stages, TypeOK, RequestsOK, RequestTyped
    <3>. QED
      BY <1>0, <2>3, <2>4, <3>1
  <2>. QED
    BY <2>1, <2>5, <2>6
<1>13. ASSUME NEW w \in Callers, OutOfCandidates(w) PROVE Goal
  <2>1. CASE ~Refuse(w)
    <3>1. /\ AddRow(conv[w], Row("ESCALATE", NoAgent, assignee[conv[w]]))
          /\ EndRequest(w) /\ pc[w] = "candidate"
          /\ UNCHANGED <<assignee, team, queue, status>>
      BY <1>13, <2>1 DEF OutOfCandidates
    <3>2. RowsOK'
      BY <3>1 DEF AddRow, Row, RowActions, TypeOK, RowsOK, RequestTyped
    <3>. QED
      BY <3>1, <3>2, EndReleases
  <2>. QED
    BY <1>2, <2>1
<1>14. ASSUME NEW w \in Callers, CommitEscalation(w) PROVE Goal
  <2>1. RowsOK'
    BY <1>14 DEF CommitEscalation, SaveSupervisor, SetAssignee, AddRow, Row,
                 RowActions, TypeOK, RowsOK, RequestsOK, RequestTyped
  <2>. QED
    BY <1>14, <2>1, EndReleases DEF CommitEscalation
<1>15. ASSUME NEW w \in Callers, NEW c \in Conversations, NEW a \in Agents,
              BeginClaim(w, c, a)
       PROVE  Goal
  <2>1. RequestsOK' /\ RequestTyped'
    BY <1>15 DEF BeginClaim, Begin, Goto, Stages, TypeOK, RequestsOK,
                 RequestTyped
  <2>. QED
    BY <1>0, <1>15, <2>1 DEF BeginClaim
<1>16. ASSUME NEW w \in Callers, NEW c \in Conversations, NEW a \in Agents,
              BeginAssign(w, c, a)
       PROVE  Goal
  <2>1. RequestsOK' /\ RequestTyped'
    BY <1>16 DEF BeginAssign, Begin, Goto, Stages, TypeOK, RowsOK,
                 RequestsOK, RequestTyped
  <2>. QED
    BY <1>0, <1>16, <2>1 DEF BeginAssign
<1>17. ASSUME NEW w \in Callers, NEW c \in Conversations, NEW q \in Queues,
              BeginAutoAssign(w, c, q)
       PROVE  Goal
  <2>1. RequestsOK' /\ RequestTyped'
    BY <1>17 DEF BeginAutoAssign, Begin, Goto, Stages, TypeOK, RequestsOK,
                 RequestTyped
  <2>. QED
    BY <1>0, <1>17, <2>1 DEF BeginAutoAssign
<1>18. ASSUME NEW w \in Callers, NEW c \in Conversations,
              NEW q \in Queues \cup {NoQueue}, NEW op,
              ThenAutoAssign(w, op, c, q)
       PROVE  LocksOK' /\ RequestsOK' /\ RequestTyped'
  <2>1. LocksOK'
    BY <1>0, <1>18 DEF ThenAutoAssign
  <2>2. CASE q \in Automatic
    <3>1. q \in Queues
      BY <2>2, ConversationAssignmentAssumption
    <3>. QED
      BY <1>18, <2>1, <2>2, <3>1
         DEF ThenAutoAssign, Goto, Stages, TypeOK, RequestsOK, RequestTyped
  <2>3. CASE q \notin Automatic
    BY <1>0, <1>18, <2>1, <2>3 DEF ThenAutoAssign, request
  <2>. QED
    BY <2>2, <2>3
<1>19. ASSUME NEW w \in Callers, NEW c \in Conversations, NEW q \in Queues,
              RouteToQueue(w, c, q)
       PROVE  Goal
  <2>1. TeamOf[q] \in Teams
    BY ConversationAssignmentAssumption
  <2>2. RowsOK'
    BY <1>19, <2>1 DEF RouteToQueue, TypeOK, RowsOK
  <2>. QED
    BY <1>18, <1>19, <2>2 DEF RouteToQueue
<1>20. ASSUME NEW w \in Callers, NEW c \in Conversations, ReturnToQueue(w, c)
       PROVE  Goal
  <2>1. RowsOK' /\ queue[c] \in Queues \cup {NoQueue}
    BY <1>20 DEF ReturnToQueue, SetAssignee, AddRow, Row, RowActions, TypeOK,
                 RowsOK
  <2>. QED
    BY <1>18, <1>20, <2>1 DEF ReturnToQueue
<1>21. ASSUME NEW w \in Callers, NEW c \in Conversations,
              NEW a \in Agents \cup {NoAgent}, BeginEscalate(w, c, a)
       PROVE  Goal
  <2>1. EscalationCandidates(c, a) \in SUBSET Nat
    BY SupervisorIsAgent DEF EscalationCandidates, TypeOK, RowsOK
  <2>2. EscalationCandidates(c, a) # {} =>
          /\ team[c] \in Teams
          /\ EscalationCandidates(c, a) \subseteq DOMAIN Supervisors[team[c]]
    BY DEF EscalationCandidates, TypeOK, RowsOK
  <2>3. team[c] \in Teams \cup {NoTeam}
    BY DEF TypeOK, RowsOK
  <2>4. RequestsOK' /\ RequestTyped'
    BY <1>21, <2>1, <2>2, <2>3
       DEF BeginEscalate, Begin, Goto, Stages, TypeOK, RequestsOK,
           RequestTyped
  <2>. QED
    BY <1>0, <1>21, <2>4 DEF BeginEscalate
<1>22. ASSUME NEW c \in Conversations, Unassign(c) PROVE Goal
  <2>1. RowsOK'
    BY <1>22 DEF Unassign, SetAssignee, AddRow, Row, RowActions, TypeOK,
                 RowsOK
  <2>. QED
    BY <1>0, <1>22, <2>1 DEF Unassign
<1>23. ASSUME NEW c \in Conversations, NEW t \in Teams, TransferTeam(c, t)
       PROVE  Goal
  <2>1. RowsOK'
    BY <1>23 DEF TransferTeam, SetAssignee, AddRow, Row, RowActions, TypeOK,
                 RowsOK
  <2>. QED
    BY <1>0, <1>23, <2>1 DEF TransferTeam
<1>24. ASSUME NEW c \in Conversations, NEW s \in Statuses, SetStatus(c, s)
       PROVE  Goal
  <2>1. RowsOK'
    BY <1>24 DEF SetStatus, TypeOK, RowsOK
  <2>. QED
    BY <1>0, <1>24, <2>1 DEF SetStatus
<1>25. {"OPEN", "CLOSED"} \subseteq Statuses
  BY DEF Statuses
<1>26. ASSUME NEW w \in Callers, NEW c \in Conversations, BeginUpdate(w, c)
       PROVE  Goal
  <2>1. RequestsOK' /\ RequestTyped'
    BY <1>26 DEF BeginUpdate, Begin, Goto, Stages, TypeOK, RowsOK,
                 RequestsOK, RequestTyped
  <2>. QED
    BY <1>0, <1>26, <2>1 DEF BeginUpdate
<1>27. ASSUME NEW w \in Callers, CommitUpdate(w) PROVE Goal
  <2>1. RowsOK'
    BY <1>27 DEF CommitUpdate, SetAssignee, TypeOK, RowsOK, RequestsOK
  <2>. QED
    BY <1>27, <2>1, EndReleases DEF CommitUpdate
<1>. QED
  <2> HIDE DEF Goal
  <2>1. ASSUME NEW w \in Callers, Step(w) \/ Crash(w) PROVE Goal
    BY <2>1, <1>2, <1>3, <1>4, <1>5, <1>6, <1>7, <1>8, <1>9, <1>10, <1>11,
       <1>12, <1>13, <1>14, <1>27
       DEF Step, Crash, AbortVictim
  <2>2. ASSUME NEW w \in Callers, NEW c \in Conversations, Request(w, c)
        PROVE  Goal
    BY <2>2, <1>15, <1>16, <1>17, <1>19, <1>20, <1>21, <1>26 DEF Request
  <2>3. ASSUME NEW c \in Conversations,
               \/ Unassign(c)
               \/ \E t \in Teams : TransferTeam(c, t)
               \/ CloseConversation(c)
               \/ ReopenConversation(c)
               \/ \E s \in Statuses : ChangeStatus(c, s)
        PROVE  Goal
    BY <2>3, <1>22, <1>23, <1>24, <1>25
       DEF CloseConversation, ReopenConversation, ChangeStatus
  <2>4. Goal
    BY <1>1, <2>1, <2>2, <2>3 DEF Next
  <2>. QED
    BY <2>4 DEF Goal, TypeOK

-----------------------------------------------------------------------------
(* The row lock *)

Claiming == {"claimPresence", "claimCommit"}
AutoAssigning == {"scan", "autoCommit"}

\* The columns of a conversation a transaction relies on.
SameColumns(c) ==
  assignee'[c] = assignee[c] /\ team'[c] = team[c] /\ queue'[c] = queue[c]

\* A caller that goes on with its transaction keeps its lock and finds the
\* conversations it has locked as they were.
GoesOn(v) ==
  /\ pc[v] \in InTransaction
  /\ conv'[v] = conv[v]
  /\ \A c \in Conversations :
       convLock[c] = v => convLock'[c] = v /\ SameColumns(c)
  /\ pc'[v] \in Claiming => pc[v] \in Claiming /\ agent'[v] = agent[v]
  /\ pc'[v] \in AutoAssigning => pc[v] \in AutoAssigning

\* A caller that begins its transaction has checked what it relies on.
Enters(v) ==
  /\ convLock'[conv[v]] = v
  /\ conv'[v] = conv[v]
  /\ pc'[v] \in {"claimPresence", "scan", "candidate"}
  /\ pc'[v] = "candidate" \/ assignee'[conv[v]] = NoAgent
  /\ pc'[v] \in Claiming =>
       agent'[v] = agent[v] /\ team' = team /\ MayClaim(agent[v], conv[v])

TransactionsGoOn ==
  \A v \in Callers : pc'[v] \in InTransaction => GoesOn(v) \/ Enters(v)

\* The end of a request leaves other transactions alone, if it has written
\* no more than a conversation that is free or its own.
LEMMA EndGoesOn ==
  ASSUME TypeOK, NEW w \in Callers, EndRequest(w),
         \A c \in Conversations :
           SameColumns(c) \/ convLock[c] \in {NoCaller, w}
  PROVE  TransactionsGoOn
<1> SUFFICES ASSUME NEW v \in Callers, pc'[v] \in InTransaction
             PROVE  GoesOn(v)
  BY DEF TransactionsGoOn
<1>1. v # w /\ pc'[v] = pc[v] /\ conv'[v] = conv[v] /\ agent'[v] = agent[v]
  BY DEF TypeOK, RequestsOK, EndRequest, Goto, InTransaction
<1>2. \A c \in Conversations :
        convLock[c] = v => convLock'[c] = v /\ SameColumns(c)
  BY <1>1, ConversationAssignmentAssumption
     DEF TypeOK, LocksOK, EndRequest, Released
<1>. QED
  BY <1>1, <1>2 DEF GoesOn

\* So does a step that locks nothing, enters no transaction and writes free
\* conversations only.
LEMMA FreeGoesOn ==
  ASSUME TypeOK, UNCHANGED convLock,
         \A c \in Conversations : SameColumns(c) \/ Free(c),
         \A v \in Callers :
           pc'[v] \in InTransaction =>
             pc'[v] = pc[v] /\ conv'[v] = conv[v] /\ agent'[v] = agent[v]
  PROVE  TransactionsGoOn
  BY ConversationAssignmentAssumption
     DEF TransactionsGoOn, GoesOn, Free

\* So does one that locks a free conversation.
LEMMA LockGoesOn ==
  ASSUME TypeOK, RequestTyped, NEW w \in Callers, LockConv(w),
         pc[w] # "idle", UNCHANGED <<rows, request>>,
         NEW stage \in {"claimPresence", "scan", "candidate"},
         Goto(w, stage),
         stage = "candidate" \/ Unassigned(conv[w]),
         stage \in Claiming => MayClaim(agent[w], conv[w])
  PROVE  TransactionsGoOn
<1> SUFFICES ASSUME NEW v \in Callers, pc'[v] \in InTransaction
             PROVE  GoesOn(v) \/ Enters(v)
  BY DEF TransactionsGoOn
<1>1. CASE v = w
  BY <1>1 DEF Enters, LockConv, Goto, Unassigned, TypeOK, RequestsOK,
              LocksOK, RequestTyped, rows, request
<1>2. CASE v # w
  BY <1>2, ConversationAssignmentAssumption
     DEF GoesOn, SameColumns, LockConv, Free, Goto, TypeOK, RequestsOK,
         LocksOK, rows, request
<1>. QED
  BY <1>1, <1>2

\* Every step lets the transactions under way go on.
LEMMA AllGoOn ==
  ASSUME TypeOK, RequestTyped, HoldsConversation, [Next]_vars
  PROVE  TransactionsGoOn
<1>0. ASSUME UNCHANGED <<rows, convLock>>,
             \A v \in Callers :
               pc'[v] \in InTransaction =>
                 /\ pc[v] \in InTransaction
                 /\ conv'[v] = conv[v]
                 /\ pc'[v] \in Claiming =>
                      pc[v] \in Claiming /\ agent'[v] = agent[v]
                 /\ pc'[v] \in AutoAssigning => pc[v] \in AutoAssigning
      PROVE  TransactionsGoOn
  BY <1>0 DEF TransactionsGoOn, GoesOn, SameColumns, rows
<1>1. ASSUME UNCHANGED vars PROVE TransactionsGoOn
  <2>1. UNCHANGED <<rows, convLock, pc, conv, agent>>
    BY <1>1 DEF vars, locks, request
  <2>. QED
    BY <1>0, <2>1
<1>2. ASSUME NEW w \in Callers, Refuse(w) PROVE TransactionsGoOn
  BY <1>2, EndGoesOn DEF Refuse, SameColumns, rows
<1>3. ASSUME NEW w \in Callers, ClaimConversation(w) PROVE TransactionsGoOn
  BY <1>2, <1>3, LockGoesOn DEF ClaimConversation, Claiming
<1>4. ASSUME NEW w \in Callers, CheckClaimant(w) PROVE TransactionsGoOn
  <2>1. CASE ~Refuse(w)
    <3>1. /\ Goto(w, "claimCommit") /\ pc[w] = "claimPresence"
          /\ UNCHANGED <<rows, convLock, request>>
      BY <1>4, <2>1 DEF CheckClaimant
    <3>2. \A v \in Callers :
            pc'[v] = IF v = w THEN "claimCommit" ELSE pc[v]
      BY <3>1 DEF Goto, TypeOK, RequestsOK
    <3>. QED
      BY <1>0, <3>1, <3>2 DEF InTransaction, Claiming, AutoAssigning, request
  <2>. QED
    BY <1>2, <2>1
<1>5. ASSUME NEW w \in Callers,
             CommitClaim(w) \/ CommitAuto(w) \/ CommitEscalation(w)
      PROVE  TransactionsGoOn
  <2>1. EndRequest(w) /\ pc[w] \in InTransaction
    BY <1>5 DEF CommitClaim, CommitAuto, CommitEscalation, InTransaction
  <2>2. convLock[conv[w]] = w
    BY <2>1 DEF HoldsConversation
  <2>3. \A c \in Conversations : c # conv[w] => SameColumns(c)
    BY <1>5 DEF CommitClaim, CommitAuto, CommitEscalation, SaveSupervisor,
                SetAssignee, SameColumns, TypeOK, RowsOK
  <2>. QED
    BY <2>1, <2>2, <2>3, EndGoesOn
<1>6. ASSUME NEW w \in Callers, RequireCapacity(w) PROVE TransactionsGoOn
  <2>1. CASE ~Refuse(w)
    <3>1. Goto(w, "assign") /\ UNCHANGED <<rows, locks, request>>
      BY <1>6, <2>1 DEF RequireCapacity
    <3>2. \A v \in Callers : pc'[v] = IF v = w THEN "assign" ELSE pc[v]
      BY <3>1 DEF Goto, TypeOK, RequestsOK
    <3>. QED
      BY <1>0, <3>1, <3>2
         DEF InTransaction, Claiming, AutoAssigning, locks, request
  <2>. QED
    BY <1>2, <2>1
<1>7. ASSUME NEW w \in Callers, Reassign(w) \/ CommitUpdate(w)
      PROVE  TransactionsGoOn
  <2>1. EndRequest(w) /\ Free(conv[w])
    BY <1>7 DEF Reassign, CommitUpdate
  <2>2. \A c \in Conversations : c # conv[w] => SameColumns(c)
    BY <1>7 DEF Reassign, CommitUpdate, SetAssignee, SameColumns, TypeOK, RowsOK
  <2>. QED
    BY <2>1, <2>2, EndGoesOn DEF Free
<1>8. ASSUME NEW w \in Callers, AutoConversation(w) PROVE TransactionsGoOn
  BY <1>2, <1>8, LockGoesOn DEF AutoConversation, Claiming
<1>9. ASSUME NEW w \in Callers, NEW S \in SUBSET Agents, ScanQueue(w, S)
      PROVE  TransactionsGoOn
  <2>1. CASE ~Refuse(w)
    <3>1. /\ pc[w] = "scan" /\ UNCHANGED <<rows, locks, conv>>
          /\ Goto(w, "autoCommit") \/ pc' = pc
          /\ \A v \in Callers : v # w => agent'[v] = agent[v]
      BY <1>9, <2>1 DEF ScanQueue, TypeOK, RequestsOK
    <3>2. \A v \in Callers :
            pc'[v] = pc[v] \/ (v = w /\ pc'[v] = "autoCommit")
      BY <3>1 DEF Goto, TypeOK, RequestsOK
    <3>. QED
      BY <1>0, <3>1, <3>2 DEF InTransaction, Claiming, AutoAssigning, locks
  <2>. QED
    BY <1>2, <2>1
<1>10. ASSUME NEW w \in Callers, EscalateConversation(w)
       PROVE  TransactionsGoOn
  BY <1>10, LockGoesOn DEF EscalateConversation, Claiming
<1>11. ASSUME NEW w \in Callers, TryCandidate(w) PROVE TransactionsGoOn
  <2>1. /\ pc[w] = "candidate" /\ UNCHANGED <<rows, convLock, conv>>
        /\ Goto(w, "escalateCommit") \/ pc' = pc
        /\ \A v \in Callers : v # w => agent'[v] = agent[v]
    BY <1>11 DEF TryCandidate, TypeOK, RequestsOK
  <2>2. \A v \in Callers :
          pc'[v] = pc[v] \/ (v = w /\ pc'[v] = "escalateCommit")
    BY <2>1 DEF Goto, TypeOK, RequestsOK
  <2>. QED
    BY <1>0, <2>1, <2>2 DEF InTransaction, Claiming, AutoAssigning
<1>12. ASSUME NEW w \in Callers, OutOfCandidates(w) PROVE TransactionsGoOn
  <2>1. CASE ~Refuse(w)
    BY <1>12, <2>1, EndGoesOn DEF OutOfCandidates, SameColumns
  <2>. QED
    BY <1>2, <2>1
<1>13. ASSUME NEW w \in Callers, NEW op, NEW c \in Conversations, NEW stage,
              Begin(w, op, c, stage), stage \notin InTransaction,
              UNCHANGED <<rows, locks>>,
              \A v \in Callers : v # w => agent'[v] = agent[v]
       PROVE  TransactionsGoOn
  BY <1>13, FreeGoesOn
     DEF Begin, Goto, SameColumns, rows, locks, TypeOK, RequestsOK
<1>14. ASSUME NEW w \in Callers, NEW c \in Conversations, Request(w, c)
       PROVE  TransactionsGoOn
  <2>1. CASE RouteToQueue(w, c, queue'[c]) \/ ReturnToQueue(w, c)
    <3>1. /\ Free(c) /\ UNCHANGED <<convLock, agent>>
          /\ \A v \in Callers :
               pc'[v] # pc[v] \/ conv'[v] # conv[v] =>
                 pc'[v] = "auto"
      BY <2>1 DEF RouteToQueue, ReturnToQueue, ThenAutoAssign, Goto, locks,
                  TypeOK, RequestsOK
    <3>2. \A d \in Conversations : d # c => SameColumns(d)
      BY <2>1 DEF RouteToQueue, ReturnToQueue, SetAssignee, SameColumns,
                  TypeOK, RowsOK
    <3>. QED
      BY <3>1, <3>2, FreeGoesOn DEF InTransaction
  <2>2. ASSUME NEW a \in Agents, BeginClaim(w, c, a) \/ BeginAssign(w, c, a)
        PROVE  TransactionsGoOn
    <3>1. \A v \in Callers : v # w => agent'[v] = agent[v]
      BY <2>2 DEF BeginClaim, BeginAssign, TypeOK, RequestsOK
    <3>2. UNCHANGED <<rows, locks>>
      BY <2>2 DEF BeginClaim, BeginAssign
    <3>. QED
      BY <1>13, <2>2, <3>1, <3>2 DEF BeginClaim, BeginAssign, InTransaction
  <2>3. ASSUME NEW q \in Queues, BeginAutoAssign(w, c, q)
        PROVE  TransactionsGoOn
    BY <1>13, <2>3 DEF BeginAutoAssign, InTransaction
  <2>4. ASSUME NEW a \in Agents \cup {NoAgent}, BeginEscalate(w, c, a)
        PROVE  TransactionsGoOn
    BY <1>13, <2>4 DEF BeginEscalate, InTransaction
  <2>5. ASSUME NEW q \in Queues, RouteToQueue(w, c, q)
        PROVE  TransactionsGoOn
    BY <2>1, <2>5 DEF RouteToQueue, TypeOK, RowsOK
  <2>6. CASE BeginUpdate(w, c)
    <3>1. \A v \in Callers : v # w => agent'[v] = agent[v]
      BY <2>6 DEF BeginUpdate, TypeOK, RequestsOK
    <3>. QED
      BY <1>13, <2>6, <3>1 DEF BeginUpdate, InTransaction
  <2>. QED
    BY <1>14, <2>1, <2>2, <2>3, <2>4, <2>5, <2>6 DEF Request
<1>15. ASSUME NEW c \in Conversations,
              \/ Unassign(c)
              \/ \E t \in Teams : TransferTeam(c, t)
              \/ \E s \in Statuses \cup {"OPEN", "CLOSED"} : SetStatus(c, s)
       PROVE  TransactionsGoOn
  <2>1. Free(c) /\ UNCHANGED <<convLock, pc, conv, agent>>
    BY <1>15 DEF Unassign, TransferTeam, SetStatus, locks, request
  <2>2. \A d \in Conversations : d # c => SameColumns(d)
    BY <1>15 DEF Unassign, TransferTeam, SetStatus, SetAssignee,
                 SameColumns, TypeOK, RowsOK
  <2>. QED
    BY <2>1, <2>2, FreeGoesOn
<1>16. ASSUME NEW w \in Callers, Step(w) \/ Crash(w) PROVE TransactionsGoOn
  BY <1>16, <1>2, <1>3, <1>4, <1>5, <1>6, <1>7, <1>8, <1>9, <1>10, <1>11,
     <1>12 DEF Step, Crash, AbortVictim
<1>. QED
  <2> HIDE DEF TransactionsGoOn
  <2>. QED
    BY <1>1, <1>14, <1>15, <1>16
       DEF Next, CloseConversation, ReopenConversation, ChangeStatus

\* What a claim or automatic assignment relies on stays true.
LEMMA LockStep ==
  ASSUME LockInv, [Next]_vars
  PROVE  HoldsConversation' /\ TakesFromNobody'
<1> USE DEF LockInv
<1> SUFFICES ASSUME NEW v \in Callers, pc'[v] \in InTransaction
             PROVE  /\ convLock'[conv'[v]] = v
                    /\ pc'[v] \in Claiming \cup AutoAssigning =>
                         assignee'[conv'[v]] = NoAgent
                    /\ pc'[v] \in Claiming => MayClaim(agent[v], conv[v])'
  BY DEF HoldsConversation, TakesFromNobody, InTransaction, Claiming,
         AutoAssigning
<1>1. CASE GoesOn(v)
  <2>1. /\ convLock[conv[v]] = v /\ conv[v] \in Conversations
        /\ conv'[v] = conv[v] /\ convLock'[conv[v]] = v
        /\ SameColumns(conv[v])
    BY <1>1 DEF GoesOn, HoldsConversation, RequestTyped, InTransaction
  <2>2. pc'[v] \in Claiming \cup AutoAssigning => assignee[conv[v]] = NoAgent
    BY <1>1 DEF GoesOn, TakesFromNobody, Claiming, AutoAssigning
  <2>3. pc'[v] \in Claiming =>
          MayClaim(agent[v], conv[v]) /\ agent'[v] = agent[v]
    BY <1>1 DEF GoesOn, TakesFromNobody, Claiming
  <2>. QED
    BY <2>1, <2>2, <2>3 DEF SameColumns, MayClaim
<1>2. CASE Enters(v)
  BY <1>2 DEF Enters, MayClaim, Claiming, AutoAssigning
<1>. QED
  BY <1>1, <1>2, AllGoOn DEF TransactionsGoOn

-----------------------------------------------------------------------------
(* The history of conversations that only services change *)

ServicesOnly == "update" \notin Operations

LEMMA NoUpdates ==
  ASSUME ServicesOnly, RequestTyped, NEW w \in Callers
  PROVE  ~CommitUpdate(w) /\ \A c : ~BeginUpdate(w, c)
BY DEF ServicesOnly, RequestTyped, CommitUpdate, BeginUpdate, Begin


\* A step leaves assignee and history of a conversation alone, or adds the row
\* that tells the new assignee and names the old one; a claim or automatic
\* assignment has nobody to name.
Recorded(c) ==
  \/ assignee'[c] = assignee[c] /\ lastRow'[c] = lastRow[c]
  \/ /\ lastRow'[c].previous = assignee[c]
     /\ Told(lastRow'[c]) = assignee'[c]
     /\ lastRow'[c].action \in {"CLAIM", "AUTO_ASSIGN"} =>
          assignee[c] = NoAgent
     /\ lastRow'[c].action = "CLAIM" => MayClaim(assignee'[c], c)

\* One assignment of an assignee together with one history row.
LEMMA WriteRecords ==
  ASSUME TypeOK, NEW c \in Conversations, NEW a \in Agents \cup {NoAgent},
         NEW action \in RowActions,
         AddRow(c, Row(action, a, assignee[c])), SetAssignee(c, a),
         action = "ESCALATE" => a # NoAgent,
         action \in {"CLAIM", "AUTO_ASSIGN"} => assignee[c] = NoAgent,
         action = "CLAIM" => MayClaim(a, c)
  PROVE  \A d \in Conversations : Recorded(d)
<1>1. \A d \in Conversations :
        d # c => assignee'[d] = assignee[d] /\ lastRow'[d] = lastRow[d]
  BY DEF AddRow, SetAssignee, TypeOK, RowsOK
<1>2. assignee'[c] = a /\ lastRow'[c] = Row(action, a, assignee[c])
  BY DEF AddRow, SetAssignee, TypeOK, RowsOK
<1>. QED
  BY <1>1, <1>2 DEF Recorded, Told, Row

\* Every change of an assignee is told by a history row.
LEMMA AllRecorded ==
  ASSUME ServicesOnly, DeskInv, [Next]_vars
  PROVE  \A d \in Conversations : Recorded(d)
<1> DEFINE Goal == \A d \in Conversations : Recorded(d)
<1>0. ASSUME UNCHANGED <<assignee, lastRow>> PROVE Goal
  BY <1>0 DEF Recorded
<1>1. ASSUME NEW w \in Callers, Refuse(w) PROVE Goal
  BY <1>0, <1>1 DEF Refuse, rows
<1> HIDE DEF Goal
<1>2. ASSUME NEW w \in Callers, CommitClaim(w) PROVE Goal
  <2>1. /\ conv[w] \in Conversations /\ agent[w] \in Agents
        /\ assignee[conv[w]] = NoAgent /\ MayClaim(agent[w], conv[w])
    BY <1>2 DEF CommitClaim, LockInv, DeskInv, RequestTyped, TakesFromNobody
  <2>. QED
    BY <1>2, <2>1, WriteRecords DEF CommitClaim, LockInv, DeskInv, RowActions, Goal
<1>3. ASSUME NEW w \in Callers, CommitAuto(w) PROVE Goal
  <2>1. /\ conv[w] \in Conversations /\ agent[w] \in Agents
        /\ assignee[conv[w]] = NoAgent
    BY <1>3 DEF CommitAuto, LockInv, DeskInv, RequestTyped, TakesFromNobody
  <2>. QED
    BY <1>3, <2>1, WriteRecords DEF CommitAuto, LockInv, DeskInv, RowActions, Goal
<1>4. ASSUME NEW w \in Callers, Reassign(w) PROVE Goal
  <2>1. conv[w] \in Conversations /\ agent[w] \in Agents
    BY <1>4 DEF Reassign, LockInv, DeskInv, RequestTyped
  <2>. QED
    BY <1>4, <2>1, WriteRecords DEF Reassign, LockInv, DeskInv, RowActions, Goal
<1>5. ASSUME NEW w \in Callers, CommitEscalation(w) PROVE Goal
  <2>1. conv[w] \in Conversations /\ agent[w] \in Agents
    BY <1>5 DEF CommitEscalation, LockInv, DeskInv, RequestTyped
  <2>2. agent[w] # NoAgent
    BY <2>1, ConversationAssignmentAssumption
  <2>. QED
    BY <1>5, <2>1, <2>2, WriteRecords
       DEF CommitEscalation, SaveSupervisor, LockInv, DeskInv, RowActions, Goal
<1>6. ASSUME NEW w \in Callers, OutOfCandidates(w) PROVE Goal
  <2>1. CASE ~Refuse(w)
    <3>1. /\ lastRow' = [lastRow EXCEPT ![conv[w]] =
                           Row("ESCALATE", NoAgent, assignee[conv[w]])]
          /\ UNCHANGED assignee
      BY <1>6, <2>1 DEF OutOfCandidates, AddRow
    <3>. QED
      BY <3>1 DEF Recorded, Told, Row, LockInv, DeskInv, TypeOK, RowsOK, Goal
  <2>. QED
    BY <1>1, <2>1
<1>7. ASSUME NEW c \in Conversations,
             \/ \E w \in Callers : ReturnToQueue(w, c)
             \/ Unassign(c)
             \/ \E t \in Teams : TransferTeam(c, t)
      PROVE  Goal
  BY <1>7, WriteRecords
     DEF ReturnToQueue, Unassign, TransferTeam, LockInv, DeskInv, RowActions, Goal
<1>8. ASSUME NEW w \in Callers,
             \/ ClaimConversation(w) \/ CheckClaimant(w)
             \/ RequireCapacity(w) \/ AutoConversation(w)
             \/ \E S \in SUBSET Agents : ScanQueue(w, S)
             \/ EscalateConversation(w) \/ TryCandidate(w)
      PROVE  Goal
  <2>1. CASE ~Refuse(w)
    <3>1. UNCHANGED <<assignee, lastRow>>
      BY <1>8, <2>1
         DEF ClaimConversation, CheckClaimant, RequireCapacity,
             AutoConversation, ScanQueue, EscalateConversation,
             TryCandidate, rows
    <3>. QED
      BY <1>0, <3>1
  <2>. QED
    BY <1>1, <2>1
<1>9. ASSUME NEW w \in Callers, Step(w) \/ Crash(w) PROVE Goal
  BY <1>9, <1>1, <1>2, <1>3, <1>4, <1>5, <1>6, <1>8, NoUpdates
     DEF Step, Crash, AbortVictim, LockInv, DeskInv
<1>10. ASSUME NEW w \in Callers, NEW c \in Conversations, Request(w, c)
       PROVE  Goal
  <2>1. CASE ~ReturnToQueue(w, c)
    <3>1. UNCHANGED <<assignee, lastRow>>
      BY <1>10, <2>1, NoUpdates
         DEF Request, BeginClaim, BeginAssign, BeginAutoAssign, RouteToQueue,
             BeginEscalate, rows, LockInv, DeskInv
    <3>. QED
      BY <1>0, <3>1
  <2>. QED
    BY <1>7, <2>1
<1>11. ASSUME NEW c \in Conversations, NEW s, SetStatus(c, s) PROVE Goal
  BY <1>0, <1>11 DEF SetStatus
<1>12. ASSUME UNCHANGED vars PROVE Goal
  BY <1>0, <1>12 DEF vars, rows
<1>. QED
  <2>1. Goal
    BY <1>7, <1>9, <1>10, <1>11, <1>12
       DEF Next, CloseConversation, ReopenConversation, ChangeStatus
  <2>. QED
    BY <2>1 DEF Goal

\* Every step keeps the strengthened invariant.
LEMMA LockInvStep == LockInv /\ [Next]_vars => LockInv'
BY TypeStep, LockStep DEF LockInv

LEMMA DeskStep == ServicesOnly /\ DeskInv /\ [Next]_vars => DeskInv'
<1> SUFFICES ASSUME ServicesOnly, DeskInv, [Next]_vars PROVE HistoryTrue'
  BY LockInvStep DEF DeskInv
<1>. QED
  BY AllRecorded DEF HistoryTrue, Recorded, DeskInv

-----------------------------------------------------------------------------
\* The variables keep their types.
THEOREM TypeCorrect == Spec => []TypeOK
<1>1. Init => LockInv
  BY InitDeskInv DEF DeskInv
<1>2. LockInv => TypeOK
  BY DEF LockInv
<1>. QED
  BY <1>1, <1>2, LockInvStep, PTL DEF Spec

\* A claim or an automatic assignment takes a conversation from nobody, and a
\* claimant belongs to the team the conversation has at that moment, whatever
\* the other callers do, updates of the row included.
THEOREM NothingIsSnatched == Spec => NothingSnatched
<1> DEFINE Step1 == \A w \in Callers :
              /\ pc[w] \in {"claimCommit", "autoCommit"}
              /\ assignee'[conv[w]] # assignee[conv[w]]
              => /\ assignee[conv[w]] = NoAgent
                 /\ pc[w] = "claimCommit" => MayClaim(agent[w], conv[w])
<1>1. Init => LockInv
  BY InitDeskInv DEF DeskInv
<1>2. LockInv /\ [Next]_vars => [Step1]_vars
  BY DEF LockInv, TakesFromNobody
<1>. QED
  BY <1>1, <1>2, LockInvStep, PTL DEF Spec, NothingSnatched

\* The history always tells who has a conversation that only services change.
THEOREM HistoryTells == ServicesOnly => (Spec => HistoryTellsAssignee)
<1> SUFFICES ASSUME ServicesOnly PROVE Spec => HistoryTellsAssignee
  OBVIOUS
<1> DEFINE Step1 == \A c \in Conversations :
              /\ Told(lastRow'[c]) = assignee'[c]
              /\ lastRow'[c] # lastRow[c] =>
                   lastRow'[c].previous = Told(lastRow[c])
<1>1. DeskInv /\ [Next]_vars => [Step1]_vars
  <2> SUFFICES ASSUME DeskInv, [Next]_vars, NEW c \in Conversations
               PROVE  /\ Told(lastRow'[c]) = assignee'[c]
                      /\ lastRow'[c] # lastRow[c] =>
                           lastRow'[c].previous = Told(lastRow[c])
    OBVIOUS
  <2>. QED
    BY AllRecorded DEF Recorded, DeskInv, HistoryTrue
<1>2. DeskInv /\ [Next]_vars => DeskInv'
  BY DeskStep
<1>. QED
  BY InitDeskInv, <1>1, <1>2, PTL DEF Spec, HistoryTellsAssignee

-----------------------------------------------------------------------------
(* Capacity *)

\* Nothing gives an agent a conversation but claims and escalations: queues
\* are MANUAL, and nobody assigns directly, reopens, sets a status or updates
\* the row.
GuardedOnly ==
  /\ Automatic = {}
  /\ Operations \cap {"assign", "reopen", "status", "update"} = {}

Ready == {"claimCommit", "escalateCommit"}

LEMMA GuardedServices == GuardedOnly => ServicesOnly
BY DEF GuardedOnly, ServicesOnly

\* No request is in one of the stages GuardedOnly rules out.
OnlyGuarded ==
  \A w \in Callers :
    pc[w] \notin {"assignCheck", "assign", "auto", "scan", "autoCommit"}

\* A caller about to commit holds its agent's presence row, and the agent
\* still has room.
RoomKept ==
  \A w \in Callers :
    pc[w] \in Ready =>
      /\ agent[w] \in Agents
      /\ presenceLock[agent[w]] = w
      /\ ~AtCapacity(agent[w], queue[conv[w]])

CapacityInv == DeskInv /\ OnlyGuarded /\ RoomKept /\ CapacityHolds

\* A count of active conversations is a number, and so is a capacity.
LEMMA CountsAreNumbers ==
  ASSUME NEW a \in Agents, NEW q \in Queues \cup {NoQueue}
  PROVE  /\ IsFiniteSet(Active(a)) /\ Cardinality(Active(a)) \in Nat
         /\ CapacityIn(q, a) \in Nat
<1>1. IsFiniteSet(Active(a))
  BY FS_Subset, ConversationAssignmentAssumption DEF Active
<1>2. Cardinality(Active(a)) \in Nat
  BY <1>1, FS_CardinalityType
<1>3. CapacityIn(q, a) \in Nat
  BY ConversationAssignmentAssumption DEF CapacityIn
<1>. QED
  BY <1>1, <1>2, <1>3

\* Fewer conversations count less, and one more at most one more.
LEMMA CountOf ==
  ASSUME NEW S, NEW T, NEW c, IsFiniteSet(S), T \subseteq S \cup {c}
  PROVE  /\ Cardinality(T) \in Nat
         /\ Cardinality(T) <= Cardinality(S) + 1
         /\ T \subseteq S => Cardinality(T) <= Cardinality(S)
<1>1. IsFiniteSet(S \cup {c}) /\ Cardinality(S) \in Nat
  BY FS_AddElement, FS_CardinalityType
<1>2. Cardinality(S \cup {c}) <= Cardinality(S) + 1
  BY <1>1, FS_AddElement
<1>3. IsFiniteSet(T) /\ Cardinality(T) <= Cardinality(S \cup {c})
  BY <1>1, FS_Subset
<1>4. Cardinality(T) \in Nat /\ Cardinality(S \cup {c}) \in Nat
  BY <1>1, <1>3, FS_CardinalityType
<1>5. T \subseteq S => Cardinality(T) <= Cardinality(S)
  BY FS_Subset
<1>. QED
  BY <1>1, <1>2, <1>3, <1>4, <1>5

LEMMA InitCapacityInv == Init => CapacityInv
<1> SUFFICES ASSUME Init PROVE CapacityInv
  OBVIOUS
<1>1. CapacityHolds
  <2> SUFFICES ASSUME NEW a \in Agents
               PROVE  Cardinality(Active(a)) <= CapacityIn(NoQueue, a)
    BY DEF CapacityHolds
  <2>1. Active(a) = {}
    BY ConversationAssignmentAssumption DEF Init, Active
  <2>. QED
    BY <2>1, FS_EmptySet, CountsAreNumbers
<1>. QED
  BY <1>1, InitDeskInv DEF Init, CapacityInv, OnlyGuarded, RoomKept, Ready

\* A step takes conversations from agents, or commits one to the agent of a
\* caller that was ready to.
ActiveShrinks == \A a \in Agents : Active(a)' \subseteq Active(a)

CommitsOne ==
  \E w \in Callers, b \in Agents :
    /\ pc[w] \in Ready
    /\ b = agent[w]
    /\ pc'[w] = "idle"
    /\ \A v \in Callers \ {w} : pc'[v] = pc[v] /\ agent'[v] = agent[v]
    /\ queue' = queue
    /\ Active(b)' \subseteq Active(b) \cup {conv[w]}
    /\ \A a \in Agents \ {b} : Active(a)' \subseteq Active(a)

LEMMA CapacityOfStep ==
  ASSUME GuardedOnly, CapacityInv, [Next]_vars
  PROVE  ActiveShrinks \/ CommitsOne
<1> DEFINE Goal == ActiveShrinks \/ CommitsOne
<1> USE DEF CapacityInv, LockInv, DeskInv
<1>0. ASSUME UNCHANGED <<assignee, status>> PROVE Goal
  BY <1>0 DEF ActiveShrinks, Active
<1>1. ASSUME NEW w \in Callers, Refuse(w) PROVE Goal
  BY <1>0, <1>1 DEF Refuse, rows
<1>2. ASSUME NEW w \in Callers, CommitClaim(w) \/ CommitEscalation(w)
      PROVE  Goal
  <2>1. pc[w] \in Ready /\ conv[w] \in Conversations /\ agent[w] \in Agents
    BY <1>2 DEF CommitClaim, CommitEscalation, Ready, RequestTyped
  <2>2. /\ queue' = queue
        /\ assignee' = [assignee EXCEPT ![conv[w]] = agent[w]]
        /\ \A c \in Conversations : c # conv[w] => status'[c] = status[c]
    BY <1>2 DEF CommitClaim, CommitEscalation, SaveSupervisor, SetAssignee,
                TypeOK, RowsOK
  <2>3. /\ pc'[w] = "idle"
        /\ \A v \in Callers \ {w} : pc'[v] = pc[v] /\ agent'[v] = agent[v]
    BY <1>2 DEF CommitClaim, CommitEscalation, EndRequest, Goto, TypeOK,
                RequestsOK
  <2> DEFINE b == agent[w]
             d == conv[w]
  <2>4. \A c \in Conversations :
          assignee'[c] = IF c = d THEN b ELSE assignee[c]
    BY <2>2 DEF TypeOK, RowsOK
  <2>5. \A a \in Agents : Active(a)' \subseteq Active(a) \cup {d}
    BY <2>2, <2>4 DEF Active
  <2>6. \A a \in Agents : a # b => d \notin Active(a)'
    BY <2>4 DEF Active
  <2>. QED
    BY <2>1, <2>2, <2>3, <2>5, <2>6 DEF CommitsOne
<1>3. ASSUME NEW c \in Conversations,
             \/ \E w \in Callers : ReturnToQueue(w, c)
             \/ Unassign(c)
             \/ \E t \in Teams : TransferTeam(c, t)
      PROVE  Goal
  <2>1. assignee' = [assignee EXCEPT ![c] = NoAgent] /\ status' = status
    BY <1>3 DEF ReturnToQueue, Unassign, TransferTeam, SetAssignee
  <2>. QED
    BY <2>1, ConversationAssignmentAssumption
       DEF ActiveShrinks, Active, TypeOK, RowsOK
<1>4. ASSUME NEW c \in Conversations, CloseConversation(c) PROVE Goal
  <2>1. status' = [status EXCEPT ![c] = "CLOSED"] /\ assignee' = assignee
    BY <1>4 DEF CloseConversation, SetStatus
  <2>. QED
    BY <2>1 DEF ActiveShrinks, Active, Terminal, TypeOK, RowsOK
<1>5. ASSUME NEW w \in Callers,
             \/ ClaimConversation(w) \/ CheckClaimant(w)
             \/ RequireCapacity(w) \/ AutoConversation(w)
             \/ \E S \in SUBSET Agents : ScanQueue(w, S)
             \/ EscalateConversation(w) \/ TryCandidate(w)
             \/ OutOfCandidates(w)
      PROVE  Goal
  <2>1. CASE ~Refuse(w)
    <3>1. UNCHANGED <<assignee, status>>
      BY <1>5, <2>1
         DEF ClaimConversation, CheckClaimant, RequireCapacity,
             AutoConversation, ScanQueue, EscalateConversation,
             TryCandidate, OutOfCandidates, rows
    <3>. QED
      BY <1>0, <3>1
  <2>. QED
    BY <1>1, <2>1
<1>6. ASSUME NEW w \in Callers, Step(w) \/ Crash(w) PROVE Goal
  <2>1. ~Reassign(w) /\ ~CommitAuto(w)
    BY DEF OnlyGuarded, Reassign, CommitAuto
  <2>. QED
    BY <1>6, <1>1, <1>2, <1>5, <2>1, NoUpdates, GuardedServices
       DEF Step, Crash, AbortVictim
<1>7. ASSUME NEW w \in Callers, NEW c \in Conversations, Request(w, c)
      PROVE  Goal
  <2>1. CASE ~ReturnToQueue(w, c)
    <3>1. UNCHANGED <<assignee, status>>
      BY <1>7, <2>1, NoUpdates, GuardedServices
         DEF Request, BeginClaim, BeginAssign, BeginAutoAssign, RouteToQueue,
             BeginEscalate, rows
    <3>. QED
      BY <1>0, <3>1
  <2>. QED
    BY <1>3, <2>1
<1>8. ASSUME UNCHANGED vars PROVE Goal
  BY <1>0, <1>8 DEF vars, rows
<1>9. ASSUME NEW c \in Conversations, NEW s,
             ReopenConversation(c) \/ ChangeStatus(c, s)
      PROVE  FALSE
  BY <1>9 DEF ReopenConversation, ChangeStatus, GuardedOnly
<1>. QED
  <2> HIDE DEF Goal
  <2>1. Goal
    BY <1>3, <1>4, <1>6, <1>7, <1>8, <1>9 DEF Next
  <2>. QED
    BY <2>1 DEF Goal

\* GuardedOnly rules the other stages out for good.
LEMMA GuardedStep ==
  ASSUME GuardedOnly, TypeOK, RequestTyped, OnlyGuarded, [Next]_vars
  PROVE  OnlyGuarded'
<1> DEFINE Ruled == {"assignCheck", "assign", "auto", "scan", "autoCommit"}
           Goal == \A v \in Callers : pc'[v] \notin Ruled
<1>1. ASSUME NEW w \in Callers, NEW s, s \notin Ruled, Goto(w, s) PROVE Goal
  BY <1>1 DEF Goto, OnlyGuarded, TypeOK, RequestsOK
<1>2. ASSUME pc' = pc PROVE Goal
  BY <1>2 DEF OnlyGuarded
<1>3. ASSUME NEW w \in Callers, EndRequest(w) PROVE Goal
  BY <1>1, <1>3 DEF EndRequest
<1> HIDE DEF Goal
<1>4. ASSUME NEW w \in Callers, Step(w) \/ Crash(w) PROVE Goal
  <2>1. /\ ~RequireCapacity(w) /\ ~Reassign(w) /\ ~AutoConversation(w)
        /\ ~CommitAuto(w) /\ \A S \in SUBSET Agents : ~ScanQueue(w, S)
    BY DEF OnlyGuarded, RequireCapacity, Reassign, AutoConversation,
           CommitAuto, ScanQueue
  <2>2. CASE ClaimConversation(w) \/ CheckClaimant(w)
    BY <1>1, <1>3, <2>2 DEF ClaimConversation, CheckClaimant, Refuse
  <2>3. CASE EscalateConversation(w) \/ TryCandidate(w)
    BY <1>1, <1>2, <2>3 DEF EscalateConversation, TryCandidate
  <2>4. CASE \/ CommitClaim(w) \/ OutOfCandidates(w)
             \/ CommitEscalation(w) \/ Refuse(w)
    BY <1>3, <2>4 DEF CommitClaim, OutOfCandidates, CommitEscalation, Refuse
  <2>. QED
    BY <1>4, <2>1, <2>2, <2>3, <2>4, NoUpdates, GuardedServices
       DEF Step, Crash, AbortVictim
<1>5. ASSUME NEW w \in Callers, NEW c \in Conversations, Request(w, c)
      PROVE  Goal
  <2>1. \A q : q \notin Automatic
    BY DEF GuardedOnly
  <2>2. ASSUME NEW a \in Agents, BeginClaim(w, c, a) \/ BeginAssign(w, c, a)
        PROVE  Goal
    BY <1>1, <2>2 DEF BeginClaim, BeginAssign, Begin, GuardedOnly
  <2>3. ASSUME NEW a, BeginEscalate(w, c, a) PROVE Goal
    BY <1>1, <2>3 DEF BeginEscalate, Begin
  <2>4. ASSUME NEW q, NEW op, ThenAutoAssign(w, op, c, q) PROVE Goal
    BY <1>2, <2>1, <2>4 DEF ThenAutoAssign
  <2>. QED
    BY <1>5, <2>1, <2>2, <2>3, <2>4, NoUpdates, GuardedServices
       DEF Request, BeginAutoAssign, RouteToQueue, ReturnToQueue
<1>6. ASSUME NEW c \in Conversations,
             \/ Unassign(c)
             \/ \E t \in Teams : TransferTeam(c, t)
             \/ \E s : SetStatus(c, s)
      PROVE  Goal
  BY <1>2, <1>6 DEF Unassign, TransferTeam, SetStatus
<1>7. ASSUME UNCHANGED vars PROVE Goal
  BY <1>2, <1>7 DEF vars
<1>. QED
  <2>1. Goal
    BY <1>4, <1>5, <1>6, <1>7
       DEF Next, CloseConversation, ReopenConversation, ChangeStatus
  <2>. QED
    BY <2>1 DEF Goal, OnlyGuarded

\* A caller about to commit was so before, for the same agent, or has found
\* room in this step; either way it holds the agent's presence row.
StaysReady(v) == pc[v] \in Ready /\ agent'[v] = agent[v]

FoundRoom(v) ==
  /\ UNCHANGED rows
  /\ agent'[v] \in Agents
  /\ ~AtCapacity(agent'[v], queue[conv[v]])

ReadyGoesOn ==
  \A v \in Callers :
    pc'[v] \in Ready =>
      /\ StaysReady(v) \/ FoundRoom(v)
      /\ presenceLock'[agent'[v]] = v

LEMMA ReadyStep ==
  ASSUME GuardedOnly, CapacityInv, [Next]_vars
  PROVE  ReadyGoesOn
<1> USE DEF CapacityInv, LockInv, DeskInv
<1>1. ASSUME UNCHANGED presenceLock,
             \A v \in Callers :
               pc'[v] \in Ready => pc'[v] = pc[v] /\ agent'[v] = agent[v]
      PROVE  ReadyGoesOn
  BY <1>1 DEF ReadyGoesOn, StaysReady, RoomKept
<1>2. ASSUME NEW w \in Callers, EndRequest(w) PROVE ReadyGoesOn
  <2>1. ASSUME NEW v \in Callers, pc'[v] \in Ready
        PROVE  /\ v # w /\ pc[v] \in Ready /\ agent'[v] = agent[v]
    BY <1>2, <2>1 DEF EndRequest, Goto, Ready, TypeOK, RequestsOK
  <2>. QED
    BY <1>2, <2>1, EndReleases DEF ReadyGoesOn, StaysReady, RoomKept
<1>3. ASSUME NEW w \in Callers, NEW s, s \notin Ready, Goto(w, s),
             UNCHANGED presenceLock,
             \A v \in Callers : v # w => agent'[v] = agent[v]
      PROVE  ReadyGoesOn
  BY <1>1, <1>3 DEF Goto, TypeOK, RequestsOK
<1>4. ASSUME NEW w \in Callers, NEW a \in Agents, HoldPresence(w, a),
             UNCHANGED <<rows, conv>>,
             \A v \in Callers : v # w => pc'[v] = pc[v] /\ agent'[v] = agent[v],
             pc'[w] \in Ready =>
               agent'[w] = a /\ ~AtCapacity(a, queue[conv[w]])
      PROVE  ReadyGoesOn
  <2>1. /\ presenceLock'[a] = w
        /\ \A v \in Callers, b \in Agents :
             v # w /\ presenceLock[b] = v => presenceLock'[b] = v
    BY <1>4, ConversationAssignmentAssumption
       DEF HoldPresence, LockPresence, TypeOK, LocksOK
  <2>. QED
    BY <1>4, <2>1 DEF ReadyGoesOn, StaysReady, FoundRoom, RoomKept
<1>5. ASSUME NEW w \in Callers, CheckClaimant(w) PROVE ReadyGoesOn
  <2>1. CASE ~Refuse(w)
    <3>1. /\ HoldPresence(w, agent[w]) /\ Goto(w, "claimCommit")
          /\ ~AtCapacity(agent[w], queue[conv[w]])
          /\ pc[w] = "claimPresence" /\ UNCHANGED <<rows, request>>
      BY <1>5, <2>1 DEF CheckClaimant
    <3>2. /\ agent[w] \in Agents /\ UNCHANGED <<conv, agent>>
          /\ \A v \in Callers : v # w => pc'[v] = pc[v]
      BY <3>1 DEF Goto, request, RequestTyped, TypeOK, RequestsOK
    <3>. QED
      BY <1>4, <3>1, <3>2
  <2>. QED
    BY <1>2, <2>1 DEF Refuse
<1>6. ASSUME NEW w \in Callers, TryCandidate(w) PROVE ReadyGoesOn
  <2>1. PICK i \in candidates[w] :
          LET a == Supervisors[loadedTeam[w]][i] IN
            /\ HoldPresence(w, a)
            /\ IF AtCapacity(a, queue[conv[w]])
               THEN UNCHANGED <<pc, agent>>
               ELSE /\ agent' = [agent EXCEPT ![w] = a]
                    /\ Goto(w, "escalateCommit")
    BY <1>6 DEF TryCandidate
  <2> DEFINE a == Supervisors[loadedTeam[w]][i]
  <2>2. a \in Agents
    BY SupervisorIsAgent DEF RequestTyped
  <2>3. pc[w] = "candidate" /\ UNCHANGED <<rows, conv>>
    BY <1>6 DEF TryCandidate
  <2>4. /\ HoldPresence(w, a)
        /\ \A v \in Callers : v # w => pc'[v] = pc[v] /\ agent'[v] = agent[v]
        /\ pc'[w] \in Ready => agent'[w] = a /\ ~AtCapacity(a, queue[conv[w]])
    BY <2>1, <2>3 DEF Goto, Ready, TypeOK, RequestsOK
  <2> HIDE DEF a
  <2>. QED
    BY <1>4, <2>2, <2>3, <2>4
<1>7. ASSUME NEW w \in Callers, Step(w) \/ Crash(w) PROVE ReadyGoesOn
  <2>1. /\ ~RequireCapacity(w) /\ ~Reassign(w) /\ ~AutoConversation(w)
        /\ ~CommitAuto(w) /\ \A S \in SUBSET Agents : ~ScanQueue(w, S)
    BY DEF OnlyGuarded, RequireCapacity, Reassign, AutoConversation,
           CommitAuto, ScanQueue
  <2>2. CASE ClaimConversation(w) \/ EscalateConversation(w)
    BY <1>2, <1>3, <2>2
       DEF ClaimConversation, EscalateConversation, Refuse, request, Ready
  <2>3. CASE \/ CommitClaim(w) \/ OutOfCandidates(w)
             \/ CommitEscalation(w) \/ Refuse(w)
    BY <1>2, <2>3 DEF CommitClaim, OutOfCandidates, CommitEscalation, Refuse
  <2>. QED
    BY <1>5, <1>6, <1>7, <2>1, <2>2, <2>3, NoUpdates, GuardedServices
       DEF Step, Crash, AbortVictim
<1>8. ASSUME NEW w \in Callers, NEW c \in Conversations, Request(w, c)
      PROVE  ReadyGoesOn
  <2>1. \A q : q \notin Automatic
    BY DEF GuardedOnly
  <2>2. ASSUME NEW a \in Agents, BeginClaim(w, c, a) \/ BeginAssign(w, c, a)
        PROVE  ReadyGoesOn
    BY <1>3, <2>2 DEF BeginClaim, BeginAssign, Begin, GuardedOnly, Ready,
                      locks, TypeOK, RequestsOK
  <2>3. ASSUME NEW a, BeginEscalate(w, c, a) PROVE ReadyGoesOn
    BY <1>3, <2>3 DEF BeginEscalate, Begin, Ready, locks
  <2>4. ASSUME NEW q, NEW op, ThenAutoAssign(w, op, c, q) PROVE ReadyGoesOn
    BY <1>1, <2>1, <2>4 DEF ThenAutoAssign, locks
  <2>. QED
    BY <1>8, <2>1, <2>2, <2>3, <2>4, NoUpdates, GuardedServices
       DEF Request, BeginAutoAssign, RouteToQueue, ReturnToQueue
<1>9. ASSUME NEW c \in Conversations,
             \/ Unassign(c)
             \/ \E t \in Teams : TransferTeam(c, t)
             \/ \E s : SetStatus(c, s)
      PROVE  ReadyGoesOn
  BY <1>1, <1>9 DEF Unassign, TransferTeam, SetStatus, locks, request
<1>10. ASSUME UNCHANGED vars PROVE ReadyGoesOn
  BY <1>1, <1>10 DEF vars, locks, request
<1>. QED
  BY <1>7, <1>8, <1>9, <1>10
     DEF Next, CloseConversation, ReopenConversation, ChangeStatus

\* Every step keeps what capacity rests on.
LEMMA CapacityStep ==
  GuardedOnly /\ CapacityInv /\ [Next]_vars => CapacityInv'
<1> SUFFICES ASSUME GuardedOnly, CapacityInv, [Next]_vars
             PROVE  RoomKept' /\ CapacityHolds'
  BY DeskStep, GuardedStep, GuardedServices DEF CapacityInv, LockInv, DeskInv
<1> USE DEF CapacityInv
<1>1. ASSUME NEW a \in Agents, Active(a)' \subseteq Active(a),
             NEW q \in Queues \cup {NoQueue}
      PROVE  /\ Cardinality(Active(a)) <= CapacityIn(q, a) =>
                  Cardinality(Active(a)') <= CapacityIn(q, a)
             /\ ~AtCapacity(a, q) =>
                  ~(Cardinality(Active(a)') >= CapacityIn(q, a))
  <2> DEFINE new == Active(a)'
  <2>1. /\ IsFiniteSet(Active(a)) /\ Cardinality(Active(a)) \in Nat
        /\ CapacityIn(q, a) \in Nat
    BY CountsAreNumbers
  <2>2. Cardinality(new) \in Nat /\ Cardinality(new) <= Cardinality(Active(a))
    <3>1. new \subseteq Active(a)
      BY <1>1
    <3> HIDE DEF new
    <3>. QED
      BY <2>1, <3>1, CountOf
  <2>. QED
    BY <2>1, <2>2 DEF AtCapacity
<1>2. ASSUME NEW v \in Callers, pc'[v] \in Ready
      PROVE  /\ conv[v] \in Conversations
             /\ conv'[v] = conv[v]
             /\ queue'[conv[v]] = queue[conv[v]]
             /\ queue[conv[v]] \in Queues \cup {NoQueue}
             /\ agent'[v] \in Agents
             /\ presenceLock'[agent'[v]] = v
             /\ ~AtCapacity(agent'[v], queue[conv[v]])
  <2>1. GoesOn(v)
    BY <1>2, AllGoOn, GuardedServices
       DEF LockInv, DeskInv, TransactionsGoOn, Enters, Ready, InTransaction
  <2>2. conv[v] \in Conversations /\ convLock[conv[v]] = v
    BY <2>1 DEF LockInv, DeskInv, GoesOn, RequestTyped, HoldsConversation,
                InTransaction
  <2>3. conv'[v] = conv[v] /\ queue'[conv[v]] = queue[conv[v]]
    BY <2>1, <2>2 DEF GoesOn, SameColumns
  <2>4. queue[conv[v]] \in Queues \cup {NoQueue}
    BY <2>2 DEF LockInv, DeskInv, TypeOK, RowsOK
  <2>. QED
    BY <1>2, <2>2, <2>3, <2>4, ReadyStep
       DEF ReadyGoesOn, StaysReady, FoundRoom, RoomKept
<1>3. CASE ActiveShrinks
  <2>1. RoomKept'
    BY <1>1, <1>2, <1>3 DEF RoomKept, ActiveShrinks, AtCapacity, CapacityIn
  <2>2. CapacityHolds'
    BY <1>1, <1>3 DEF CapacityHolds, ActiveShrinks, CapacityIn
  <2>. QED
    BY <2>1, <2>2
<1>4. CASE CommitsOne
  <2>1. PICK w \in Callers, b \in Agents :
          /\ pc[w] \in Ready
          /\ b = agent[w]
          /\ pc'[w] = "idle"
          /\ \A v \in Callers \ {w} : pc'[v] = pc[v] /\ agent'[v] = agent[v]
          /\ queue' = queue
          /\ Active(b)' \subseteq Active(b) \cup {conv[w]}
          /\ \A a \in Agents \ {b} : Active(a)' \subseteq Active(a)
    BY <1>4 DEF CommitsOne
  <2> DEFINE q == queue[conv[w]]
             new == Active(b)'
  <2>2. q \in Queues \cup {NoQueue} /\ ~AtCapacity(b, q)
    BY <2>1 DEF LockInv, DeskInv, RequestTyped, RoomKept, Ready, TypeOK, RowsOK
  <2>3. /\ IsFiniteSet(Active(b)) /\ Cardinality(Active(b)) \in Nat
        /\ CapacityIn(q, b) \in Nat
    BY <2>2, CountsAreNumbers
  <2>4. /\ Cardinality(new) \in Nat
        /\ Cardinality(new) <= Cardinality(Active(b)) + 1
    <3>1. new \subseteq Active(b) \cup {conv[w]}
      BY <2>1
    <3> HIDE DEF new
    <3>. QED
      BY <2>3, <3>1, CountOf
  <2>5. Cardinality(new) <= CapacityIn(q, b)
    BY <2>2, <2>3, <2>4 DEF AtCapacity
  <2>6. CapacityHolds'
    BY <1>1, <2>1, <2>2, <2>5 DEF CapacityHolds, CapacityIn
  <2>7. ASSUME NEW v \in Callers, pc'[v] \in Ready
        PROVE  agent'[v] # b
    BY <2>1, <2>7 DEF RoomKept, Ready
  <2>8. RoomKept'
    BY <1>1, <1>2, <2>1, <2>7 DEF RoomKept, AtCapacity, CapacityIn
  <2>. QED
    BY <2>6, <2>8
<1>. QED
  BY <1>3, <1>4, CapacityOfStep

\* Claims and escalations keep every agent within a capacity that applies: they
\* check it under the agent's presence row and hold that row until they commit.
THEOREM CapacityKept == GuardedOnly => (Spec => []CapacityHolds)
<1> SUFFICES ASSUME GuardedOnly PROVE Spec => []CapacityHolds
  OBVIOUS
<1>1. CapacityInv => CapacityHolds
  BY DEF CapacityInv
<1>2. CapacityInv /\ [Next]_vars => CapacityInv'
  BY CapacityStep
<1>. QED
  BY InitCapacityInv, <1>1, <1>2, PTL DEF Spec

=============================================================================
