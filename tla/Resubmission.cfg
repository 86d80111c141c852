CONSTANTS
  a1 = a1
  a2 = a2
  s1 = s1
  NoRequest = NoRequest
  Requests = {r1, r2, r3}
  AlertIds = {a1}
  Approvers = {o1, o2}
  Sources = {s1}
  Alert <- MCOneAlert
  Rankings <- MCOneRanking
  Modifications <- MCNoModification
  LlmPlaybooks <- MCNoPlaybook
  RateMax = 2
  AuditFails = FALSE
SPECIFICATION FairSpec
INVARIANTS ParkedExactlyOnce RunAtMostOnce ParkedIsListed
PROPERTIES OutcomeIsFinal ImplementsGate ReasoningConcludes ApproverAnswered
CHECK_DEADLOCK FALSE
