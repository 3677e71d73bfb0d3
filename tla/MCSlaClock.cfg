SPECIFICATION Spec
CONSTANTS
  VisitorSockets = {v1}
  OperatorSockets = {}
  Requests = {r1}
  Evaluators = {e1, e2}
  Target <- Targets
  Deadline <- ShopDeadline
  LeadDivisor = 2
  MaxLead = 1
  Never = Never
  Unset = Unset
  MaxTime = 2
  MaxAsked = 3
  MaxCrashes = 1
INVARIANTS TypeOK BreachFitsClock AlertsOnce
PROPERTY OverdueAnnounced
CHECK_DEADLOCK FALSE
