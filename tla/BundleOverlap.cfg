SPECIFICATION FairSpec
CONSTANTS
  m1 = m1
  m2 = m2
  p1 = p1
  p2 = p2
  Members <- MCMembers
  Procs <- MCProcs
  Archives <- MCArchives
INVARIANTS OnlySoundInstalled BundleComplete
PROPERTY EveryRequestEnds
