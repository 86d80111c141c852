CONSTANTS
  Requests = {r1, r2, r3}
  Bodies <- MCBodies
  Chains = {"c1", "c2"}
  Ips = {"a1", "a2"}
  AutoChains <- MCAutoChains
  NoChain = NoChain
  NoRequest = NoRequest
  NoIp = NoIp
  NoBody = NoBody
  LstmLoaded = TRUE
  HmmLoaded = FALSE
  Limit = 2
SPECIFICATION Spec
SYMMETRY Identical
INVARIANTS IInv CountsMatch ObservationsAccounted ProfileIsHighest ChainShowsPrediction
CHECK_DEADLOCK FALSE
