CONSTANTS
  Batches <- MCBatches
  Keys = {1, 2}
  Hashes <- MCHashes
  Bits = {0, 1, 2, 3}
  Bucket = 5
  Window = 1
  Disorder = 1
  Skew = 1
  Day = 3
  Start = 5
  MaxTime = 9
SPECIFICATION Spec
INVARIANTS IInv OncePerWindow SuppressedForACause LateIsBehind
CHECK_DEADLOCK FALSE
