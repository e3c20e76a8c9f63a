\* One maintenance thread, a document that two customers may get, three writes.
SPECIFICATION FairRollupSpec
CONSTANTS
  l1 = l1
  l2 = l2
  k1 = k1
  k2 = k2
  Record = {d1}
  Link = {l1, l2}
  Key = {k1, k2}
  NoRecord = NoRecord
  NoKey = NoKey
  Amounts = {1, 2}
  ItemKey <- EachItsOwn
  ByHop = TRUE
  Worker = {w1}
  BatchLimit = 2
  MaxWrites = 3
  MaxMoves = 1
  MaxFaults = 1
  MaxResets = 1
  MaxTrims = 1
INVARIANTS NothingLostOrDoubled
PROPERTIES CatchesUp
