SPECIFICATION Spec
CONSTANTS
  p1 = p1  p2 = p2  pub = pub  priv = priv  local = local  other = other  zoned = zoned
  Procs = {p1, p2}
  Public = {pub}
  Private = {priv}
  Loopback = {local, other}
  Zoned = {zoned}
  AllowAddrs = {local}
  MaxBytes = 1
  MaxRedirects = 2
  MaxServers = 2
  Size = 1
  Nowhere = Nowhere
INVARIANTS OnlyPermittedPeers WorkBounded
PROPERTY EveryFetchEnds
