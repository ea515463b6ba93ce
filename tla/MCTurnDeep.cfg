\* One turn, long enough for batches, retries, nudges and the call budget.
SPECIFICATION FairSpec
CONSTANTS
  t1 = t1
  t2 = t2
  s1 = s1
  Turns = {t1}
  Sessions = {s1}
  SessionOf <- OneSession
  Sigs = {g1}
  MaxBatch = 2
  MaxIterations = 3
  CallsPerIteration = 1
  RepeatThreshold = 3
  MaxPending = 1
  AnomalyThreshold = 1
  MaxEntries = 3
INVARIANTS TypeOK TranscriptPaired  StruckOutStops BudgetHeld OneDone
PROPERTIES TurnsEnd
