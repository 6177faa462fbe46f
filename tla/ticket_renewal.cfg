SPECIFICATION SpecCalm
CONSTANTS
  None = None
  Callers = {c1, c2}
  Services = {wsfe}
  Keys = {k1}
  Lifetime = 4
  ShortLife = 2
  Margin = 1
  Validity = 12
INVARIANT LoginIsGranted
CHECK_DEADLOCK FALSE
