CONSTANTS
  w1 = w1  w2 = w2  w3 = w3
  k1 = k1  k2 = k2  k3 = k3  c1 = c1
  Workers = {w1, w2, w3}
  NoWorker = NoWorker
  Keys = {k1, k2, k3}
  Correlations = {c1}
  CorrelationOf <- MCCorrelationOf
  Limit = 2
SPECIFICATION FairSpec
INVARIANTS TypeOK SlotsWithinLimit GrantedIsDurable RefusedOnlyWhenFull
PROPERTIES ImplementsBoundedSlots CallsAnswered
