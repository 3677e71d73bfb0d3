SPECIFICATION Spec
CONSTANTS
  t1 = t1
  w1 = w1
  w2 = w2
  r1 = r1
  r2 = r2
  r3 = r3
  Nothing = Nothing
  Threads <- MCThreads
  Workers <- MCWorkers
  Rules <- MCRules
  Priority <- MCPriority
  Trigger <- MCTrigger
  Actions <- MCActions
  Stop <- MCStop
  Publishes <- MCPublishes
  Schedules <- MCSchedules
  Space = " "
  Folded <- MCFolded
  RootType = "queued"
  MaxDepth = 2
  MaxActions = 4
  MaxEvents = 4
  MaxEdits = 1
  MaxFaults = 1
INVARIANTS
  TypeOK
  SameRuleOnce
  ChainsBounded
PROPERTY EventsSettled
CHECK_DEADLOCK FALSE
