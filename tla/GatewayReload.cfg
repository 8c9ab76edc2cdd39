SPECIFICATION Spec
CONSTANTS
  k1 = k1  k2 = k2  p1 = p1  p2 = p2  d1 = d1  d2 = d2  a1 = a1  a2 = a2
  Procs = {p1}
  Keys = {k1, k2}
  Hosts <- MCHosts
  Configs <- MCConfigs
  Off = Off
INVARIANTS TypeOK ServedWasAllowed AskMatchesPublic BackendsMatchConfig
PROPERTY ReloadTakesEffect
CHECK_DEADLOCK FALSE
