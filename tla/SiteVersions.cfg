SPECIFICATION Spec
CONSTANTS
  c1 = c1  home = home  page = page  t1 = t1  t2 = t2  t3 = t3  t0 = t0
  Clients = {c1}
  Paths = {home, page}
  NotFound = page
  Contents = {t0, t1, t2, t3}
  Empty = {t0}
  Manifests <- MCManifests
  Archives <- MCArchives
  Nil = Nil
  Faulty = TRUE
INVARIANTS HeldBelongsToPath VerifiedWithoutBundles
