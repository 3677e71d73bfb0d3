CONSTANTS
  w1 = w1  w2 = w2
  k1 = k1
  Workers = {w1, w2}
  Keys = {k1}
  StaleAfter = 1
  MaxTime = 3
  MaxRows = 6
  MaxCrashes = 2
  MaxLate = 2
  PromptCalls = TRUE
SPECIFICATION FairSpec
INVARIANTS TypeOK RepeatsOnlyAfterLostRecord OneRunner AnsweredIsDone
PROPERTIES RecordIsFinal ReservationsEnd
