SPECIFICATION Spec
CONSTANTS
  None = None
  Callers = {c1, c2}
  Services = {wsfe, wsfex}
  Keys = {k1, k2}
  Lifetime = 4
  ShortLife = 2
  Margin = 1
  Validity = 3
SYMMETRY Symmetry
INVARIANTS TypeOK NoNeedlessLogin CacheWithinTicket SecretsGoWithUse PairMatches
PROPERTIES KeyIsKept RevokedIsFinal ServedIsLive 
CHECK_DEADLOCK FALSE
