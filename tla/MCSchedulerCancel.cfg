\* The same instance, for what cancel_schedule tells its caller.
SPECIFICATION SchedulerSpec
CONSTANTS
  Ids = {i1, i2}
  Slots = {r1, r2, r3}
  Wall <- MCWall
  Hour = 2
  Day = 3
  Month = 31
  Year = 12
  Spans <- MCSpans
  Expression <- MCExpression
  MaxVersion = 3
  MaxTriggers = 1
SYMMETRY Symmetry
INVARIANT CancelledStays
