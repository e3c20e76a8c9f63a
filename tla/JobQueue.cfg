\* Two workers (two processes), one job of three attempts, leases of two ticks, three faults.
SPECIFICATION FairSpec
CONSTANTS
  j1 = j1
  w1 = w1
  w2 = w2
  u1 = u1
  Job = {j1}
  Worker = {w1, w2}
  User = {u1}
  Requester <- OneRequester
  Name = {"resident-0"}
  WorkerId <- SameName
  NoName = NoName
  NoJob = NoJob
  MaxAttempts = 3
  LeaseTicks = 2
  MaxFaults = 3
INVARIANTS SoleHolder
PROPERTIES OnlyHolderOrExpiry RevocationHolds LedgerSpec EveryJobSettles
