SPECIFICATION Spec
CONSTANTS
  b1 = b1
  b2 = b2
  b3 = b3
  p1 = p1
  p2 = p2
  k1 = k1
  k2 = k2
  Blobs <- MCTwoBlobs
  Procs <- MCProcs
  Size <- MCTwoSizes
  MaxBytes = 3
  Quota = 0
  MaxBlob = 0
  Retains = TRUE
  Keys <- MCKeys
  Allow <- MCAllow
  NoProc = NoProc
INVARIANT ExistingIsWhole
