SPECIFICATION Spec
CONSTANTS
  Certs = {c1, c2}
  Companies = {o1, o2}
  Keys = {k1, k2}
  Codes = {v1}
  Runs = {b1, b2}
  None = None
  MaxActs = 4
SYMMETRY MCSymmetry
INVARIANTS TypeOK SeedIsPinned ActiveCanSign
PROPERTIES NothingOverwritten ReadyIsAccepted
CHECK_DEADLOCK FALSE
