\* A server and a one-shot migrate container, three topologies and a contradictory configuration.
SPECIFICATION FairSpec
CONSTANTS
  k1 = k1
  k2 = k2
  k3 = k3
  a = a
  b = b
  frust = frust
  prod = prod
  desk = desk
  pid1 = pid1
  Name = {a, b, frust, prod, desk}
  DefaultNs = frust
  Env = {prod}
  Garbled = Garbled
  Unset = Unset
  Kernel = {k1, k2}
  Server = {k1}
  Holder = {pid1}
  HolderOf <- SamePid
  Binary <- OneVersion
  Accept <- MigrateAccepts
  SlowBoots = TRUE
  Configs <- AllConfigs
  Versions = {0, 1, 3}
  Dir = {d1, d2}
  Nobody = Nobody
  MaxWrites = 1
  MaxOps <- FewForTwo
  MaxFaults = 1
INVARIANTS KeyGuarded SafetyBackupHolds
PROPERTIES OthersUntouched EventuallyServes
CHECK_DEADLOCK FALSE
