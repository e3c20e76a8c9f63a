\* Two threads of one process, one DocType of two fields, every operation, one fault.
SPECIFICATION Spec
CONSTANTS
  r1 = r1
  r2 = r2
  kernel = kernel
  Runner = {r1, r2}
  Doctype = {d1}
  Field = {f1, f2}
  HolderId <- OneProcess
  Name = {kernel}
  NoRunner = NoRunner
  NoName = NoName
  StaleTicks = 0
  Ops = {"reclaim", "update", "revert"}
  MaxEdits = 2
  MaxFaults = 1
SYMMETRY Interchangeable
INVARIANTS HistoryTellsSchema OrphansDontBlock
PROPERTIES LossKnownIsTold
