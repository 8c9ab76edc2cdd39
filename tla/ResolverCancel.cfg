SPECIFICATION PublishedSpec
CONSTANTS
  e1 = e1  e2 = e2  e3 = e3  p1 = p1  p2 = p2  r1 = r1  r2 = r2
  Events = {e1}
  Valid = {e1}
  Relays = {r1}
  Procs = {p1, p2}
  CreatedAt <- MCCreatedAt
  Carries <- MCCarriesAll
  Nil = Nil
INVARIANTS NilMeansMissing
