CONSTANTS
  a1 = a1
  a2 = a2
  s1 = s1
  NoRequest = NoRequest
  Requests = {r1, r2}
  AlertIds = {a1, a2}
  Approvers = {o1}
  Sources = {s1}
  Alert <- MCAlert
  Rankings <- MCRankings
  Modifications <- MCModifications
  LlmPlaybooks <- MCLlmPlaybooks
  RateMax = 1
  AuditFails = FALSE
SYMMETRY Symmetric
SPECIFICATION Spec
INVARIANTS IInv PolicyRunsAreVerified TrailIsComplete
CHECK_DEADLOCK FALSE
