SPECIFICATION FairSpec
CONSTANTS
  m1 = m1
  m2 = m2
  m3 = m3
  s1 = s1
  s2 = s2
  Moves = {m1, m2, m3}
  Sequences = {s1, s2}
  Certificates = {k1, k2}
  SeqOf <- MCSeqOf
  NumberOf <- MCNumberOf
  RankOf <- MCRankOf
  Limit = 2
  MaxUpsets = 1
INVARIANTS TypeOK UnknownIsQueued IssuedIsKnown
PROPERTIES KeepsItsTurn AuthorizedInTurn UnknownIsSettled
CHECK_DEADLOCK FALSE
