SPECIFICATION Spec
CONSTANTS
  m1 = m1
  m2 = m2
  remote = remote
  nearby = nearby
  free = free
  Messages = {m1, m2}
  Providers = {remote, nearby, free}
  Nobody = Nobody
  Calls <- MCCalls
  Via <- MCVia
  Target <- MCTarget
  Kind <- MCKind
  Local = {nearby}
  Uncensored = {free}
  Order <- MCOrder
  Priority = "api-first"
  CoolTime = 2
  MaxTokens <- MCTokens
  Horizon = 3
  Layer2 = TRUE
  CacheTime = 2
  LeadTokens = 2
  Class <- MCClass
  Allowlist = {"listed"}
  Unclassified = FALSE
  Loads <- MCLoads
CHECK_DEADLOCK FALSE
INVARIANT Woken
