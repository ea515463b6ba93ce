\* Two messages, one per poll, two threads, room for one queue, one failure, one restart.
SPECIFICATION Spec
CONSTANTS
  Threads = {th1, th2}
  Tools = {a, b}
  MaxPerTick = 1
  MaxFiles = 1
  MaxSessions = 1
  MaxMail = 2
  MaxCalls = 2
  MaxFailures = 1
  MaxBoots = 2
CHECK_DEADLOCK FALSE
INVARIANT AnsweredOrGivenUp
INVARIANT OneReplyPerDoubt
PROPERTY FilesServed
PROPERTY Settled
