---------------------- MODULE MCConversationAssignment ----------------------
(* Small desks for ConversationAssignment: two agents, one or two teams.    *)
EXTENDS ConversationAssignment, TLC

CONSTANTS w1, w2, c1, c2, a1, a2, t1, t2, q1, q2

\* Teams that both agents belong to, and conversations routed to none yet.
MCMembers == [t \in Teams |-> Agents]
MCNoTeamYet == [c \in Conversations |-> NoTeam]
MCNoQueueYet == [c \in Conversations |-> NoQueue]

\* Conversations that wait in a queue.
MCQueued == [c \in Conversations |-> q1]

\* Two teams with one member each, who is the supervisor of the other's.
MCOwnMembers == [t \in Teams |-> IF t = t1 THEN {a1} ELSE {a2}]
MCOwnSupervisors == [t \in Teams |-> IF t = t1 THEN <<a1>> ELSE <<a2>>]

\* Two teams that share their supervisors in opposite order.
MCCrossedSupervisors == [t \in Teams |-> IF t = t1 THEN <<a1, a2>> ELSE <<a2, a1>>]
MCTeamEach == [c \in Conversations |-> IF c = c1 THEN t1 ELSE t2]

\* Each queue has a team and falls back on the other queue, if there is one.
MCTeamOf == [q \in Queues |-> IF q = q1 \/ t2 \notin Teams THEN t1 ELSE t2]
MCFallback ==
  [q \in Queues |-> IF q2 \notin Queues THEN NoQueue ELSE IF q = q1 THEN q2 ELSE q1]
MCNoOverride == [q \in Queues |-> 0]
MCOneEach == [a \in Agents |-> 1]

\* Callers are alike, and so are conversations that start alike.
MCSymmetry == Permutations(Callers) \cup Permutations(Conversations)

=============================================================================
