SPECIFICATION FairSpec
CONSTANTS
  e1 = e1  e2 = e2  e3 = e3  p1 = p1  p2 = p2  r1 = r1  r2 = r2
  Events = {e1, e2, e3}
  Valid = {e1, e2}
  Relays = {r1, r2}
  Procs = {p1, p2}
  CreatedAt <- MCCreatedAt
  Carries <- MCCarries
  Nil = Nil
INVARIANTS OnlyValidated EndsWithNewest
PROPERTIES ImplementsManifestSource Converges EveryRequestAnswered
