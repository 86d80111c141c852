CONSTANTS
  UpgradeAt = 1
  NList = 1
  BulkSizes = {1}
  MaxVectors = 2
  Alerts <- MCAlerts
  r1 = r1
  r2 = r2
  r3 = r3
  RawRequests = {r1, r2, r3}
  Raw <- MCRaw
  Logs <- MCLogs
  Severities = {200}
  Sources = {"s1"}
  Events <- MCEvents
  ParseMax = 1
  MaxCalls = 2
SPECIFICATION Spec
SYMMETRY Identical
INVARIANTS IInv Aligned AnswersAgree OfferedOnce
CHECK_DEADLOCK FALSE
