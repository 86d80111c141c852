CONSTANTS
  Pipelines = {p1, p2}
  Keys = {k1}
  NoKey = NoKey
  local = local
  remote = remote
  Urls = {local, remote}
  Order <- MCOrder
  Threshold = 2
SPECIFICATION FairSpec
INVARIANTS BreakerCounts OncePerWindow ServedAsListed HalfOpenIsTested IInv
PROPERTIES PipelinesEnd
CHECK_DEADLOCK FALSE
