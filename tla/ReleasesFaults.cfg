SPECIFICATION FairSpec
CONSTANTS
  v1 = v1  v2 = v2  v3 = v3  p1 = p1  p2 = p2  r1 = r1  r2 = r2
  Releases = {v1, v2, v3}
  Complete = {v1, v2}
  Old = {v1}
  Carries <- MCCarries
  Revocable = {v2}
  Relays = {r1, r2}
  Procs = {p1, p2}
  CreatedAt <- MCCreatedAt
  Catalogues <- MCCatalogues
  Nil = Nil
PROPERTIES CompleteLookupIsCurrent RevocationTakesEffect EveryReleaseAnswered
