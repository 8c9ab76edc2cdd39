SPECIFICATION Spec
CONSTANTS
  b1 = b1
  b2 = b2
  b3 = b3
  p1 = p1
  p2 = p2
  Blobs <- MCBlobs
  Procs <- MCProcs
  Size <- MCSize
  MaxBytes = 2
  Quotas <- MCQuotas
  MaxGen = 2
  MaxOrphanBytes = 2
  MaxUsed = 5
  Stubborn <- MCStubborn
  NoFile = NoFile
  Torn = Torn
SYMMETRY Sym
INVARIANTS TypeOK DiskVerified ServedVerified IndexIsDisk
PROPERTIES EvictsLeastRecent ImplementsVerifiedCache
