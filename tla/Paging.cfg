\* A walk over the pages of three rows, while they are made and committed.
SPECIFICATION FairSpec
CONSTANTS
  m1 = m1
  m2 = m2
  m3 = m3
  Absent = Absent
  Movements = {m1, m2, m3}
  MaxTime = 3
  DefaultLimit = 1
  MaxLimit = 2
  Asked <- MCAsked
INVARIANTS
  TypeOK
  EveryRowMet
  NothingTwice
  NextPageHasRows
  MetaAgrees
PROPERTY WalkEnds
