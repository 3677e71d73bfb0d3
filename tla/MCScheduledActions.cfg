CONSTANTS
  w1 = w1  w2 = w2  a1 = a1
  j1 = j1  j2 = j2  NoJob = NoJob
  r1 = r1  NoRule = NoRule  c1 = c1
  Rules = {r1}
  Correlations = {c1}
  Jobs = {j1, j2}
  RuleOf <- MCOneRule
  CorrelationOf <- MCOneCorrelation
  BatchSize = 1
  Workers = {w1, w2}
  Recoverers = {w1, w2}
  Admins = {a1}
  Unrunnable = {}
  Limit = 2
  MaxAttempts = 2
  StaleAfter = 0
  Delays = {0}
  MaxTime = 1
  MaxCrashes = 1
SPECIFICATION FairSpec
INVARIANTS TypeOK EveryAttemptIsOwn AttemptsBounded SuccessesWithinWorkers OutcomesEarned
PROPERTY JobsSettled
