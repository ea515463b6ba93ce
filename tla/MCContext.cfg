\* Entries of 1 or 4 tokens against a budget of 8: compaction is due from 7
\* tokens and does something from 9.
SPECIFICATION Spec
CONSTANTS
  Budget = 8
  MaxSummaryTokens = 500
  SummaryWeights <- MCSummaryWeights
  SystemWeights <- MCSystemWeights
  Weights <- MCWeights
  CallWeights <- MCCallWeights
  ResultWeights <- MCResultWeights
  MaxEntries = 4
  MaxIterations = 2
  MaxBatch = 2
  MaxStored = 4
INVARIANT PairsKept
PROPERTY WindowServes
