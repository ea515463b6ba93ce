\* A ring of two, a flush every two entries, two explicit flushes, one restart.
SPECIFICATION AuditSpec
CONSTANTS
  Calls = {f1, f2}
  Recording = auto
  MaxEntries = 2
  FlushThreshold = 2
  MaxRecords = 4
  MaxBoots = 2
SYMMETRY Symmetry
CHECK_DEADLOCK FALSE
INVARIANT WrittenOnce
INVARIANT NothingForgotten
INVARIANT InOrder
