SPECIFICATION Spec
CONSTANTS
  b1 = b1
  b2 = b2
  b3 = b3
  p1 = p1
  p2 = p2
  k1 = k1
  k2 = k2
  Blobs <- MCBlobs
  Procs <- MCProcs
  Size <- MCSize
  MaxBytes = 3
  Quota = 4
  MaxBlob = 3
  Retains = TRUE
  Keys <- MCKeys
  Allow <- MCAllow
  NoProc = NoProc
SYMMETRY Sym
INVARIANTS TypeOK NeverOvercharged UsedIsStored WithinQuota AcceptedIsWhole
