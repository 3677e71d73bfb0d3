SPECIFICATION ChatSpec
CONSTANTS
    c1 = c1
    c2 = c2
    m1 = m1
    m2 = m2
    Calls = {c1, c2}
    Ids = {m1, m2}
    Workloads <- TwoCalls
    None = None
    Blank = Blank
    MaxLoads = 1
    MaxFaults = 1
    MaxSelects = 1
INVARIANTS ChatConsistent LacksOnlyMissed
PROPERTY ShownOrMissed
CHECK_DEADLOCK FALSE
