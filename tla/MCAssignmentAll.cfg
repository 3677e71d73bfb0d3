SYMMETRY MCSymmetry
CONSTANTS
  w1 = w1  w2 = w2  c1 = c1  c2 = c2  a1 = a1  a2 = a2
  t1 = t1  t2 = t2  q1 = q1  q2 = q2
  Callers = {w1, w2}  NoCaller = NoCaller
  Conversations = {c1}  NoConversation = NoConversation
  Agents = {a1, a2}  NoAgent = NoAgent
  Teams = {t1, t2}  NoTeam = NoTeam
  Queues = {q1, q2}  NoQueue = NoQueue
  Members <- MCOwnMembers
  Supervisors <- MCOwnSupervisors
  TeamOf <- MCTeamOf
  Fallback <- MCFallback
  Automatic = {q1, q2}
  QueueCapacity <- MCNoOverride
  MaxCapacity <- MCOneEach
  InitialTeam <- MCNoTeamYet
  InitialQueue <- MCNoQueueYet
  Operations = {"claim", "assign", "auto", "route", "return", "escalate", "unassign", "transfer", "close", "reopen", "status", "update"}
SPECIFICATION Spec
INVARIANT TypeOK
PROPERTY NothingSnatched
