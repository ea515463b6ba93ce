CONSTANTS
  Jobs <- MCJobs
  Processes = {"p1", "p2"}
  ProcessOf <- MCProcessOf
  Work <- MCWork
  MemoryCap = 2
  TextCap = 1
  FileCap = 2
  MaxSaves = 2
  MaxFaults = 1
  Throttle = 1
  MinGap = 2
  StaleAge = 1
  MaxNow = 3
  Calls <- MCCalls
  Asked <- MCAsked
  Hidden = {".txt"}
  Protected = {"prompts"}
  Apart <- MCApart
  Threshold = 1
  PreviewCap = 1
  Lookups <- MCLookups
  Query <- MCQuery
  Below <- MCBelow
  Pruned = {"in/.git"}
  Built = {"in/dist"}
  Binary = {"x.png"}
  GlobCap = 2
  ListCap = 3
  MaxScan = 3
  Scenes <- MCScenes
  Expiring = {"n1"}
  Home = "p1"
  Errands <- MCErrands
  Errand <- MCErrand
  MaxLists = 2
  MaxTodos = 2
  MaxSteps = 2
  MaxTimers = 1
  MaxSends = 2
  Channels = {"mail", "chat"}
  MaxChildTurns = 2
  Requests <- MCRequests
  Request <- MCRequest
  ConfigTools <- MCConfigTools
  OwnerOnly = {"launch_app"}
  AgentTools = {"file_write", "web_fetch", "launch_app", "browser", "subagent_spawn", "unwritten"}
  Effects <- MCEffects
  Handlers <- MCHandlers
  Secrets = {"K"}
  BeforeTool <- MCBefore
  AfterTool <- MCAfter
  Guards <- MCGuards
  Posts <- MCPosts
SPECIFICATION Spec
INVARIANT Whole
INVARIANT LostOnlyByOverlap
INVARIANT OneDreamer
INVARIANT AloneLosesNothing
INVARIANT PreviewedOnce
INVARIANT RecentKept
 
 
PROPERTY SavesLand
CHECK_DEADLOCK FALSE
