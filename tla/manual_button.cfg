SPECIFICATION SpecManual
CONSTANTS
  m1 = m1
  m2 = m2
  s1 = s1
  c1 = c1
  None = None
  Moves = {m1, m2}
  Attempts = {a1, a2}
  Workers = {w1, w2}
  Sequences = {s1}
  Companies = {c1}
  SeqOf <- MCSeqOf
  NumberOf <- MCNumberOf
  CompanyOf <- MCCompanyOf
INVARIANT VoucherIsTracked
CHECK_DEADLOCK FALSE
