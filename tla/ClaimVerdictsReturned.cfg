CONSTANTS
  Batches = {b1, b2}
  Submissions <- MCSubmissions
  Logs <- MCLogs
  Unreadable = unreadable
  Keys <- MCKeys
  Sources = {"s1", "s2"}
  Nodes = {n1, n2}
  Primary = n1
  Local = {n1}
  ChunkSize = 1
  GpuSlots = 1
  Slots = 1
  QueueMax = 1
  Nobody = Nobody
SPECIFICATION FairSpec
PROPERTIES VerdictsReturned
CHECK_DEADLOCK FALSE
