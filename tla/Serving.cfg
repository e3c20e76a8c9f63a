\* Two request threads, two tenants; each workload of Mixed is one mix of traffic.
SPECIFICATION FairSpec
CONSTANTS
  t1 = t1
  t2 = t2
  t3 = t3
  u1 = u1
  u2 = u2
  x1 = x1
  x2 = x2
  j1 = j1
  j2 = j2
  j3 = j3
  j4 = j4
  Worker = {w1, w2}
  Client = {w1, w2}
  Caller = {w1, w2}
  NoCaller = NoCaller
  Tenant = {t1, t2}
  Scope = {t1, t2}
  Group = {t1, t2, t3}
  Stranger = Stranger
  NoHint = NoHint
  User = {u1, u2}
  Owner = {u1, u2}
  Managers = {u2}
  Secret = {x1, x2}
  Nobody = Nobody
  MaxRevocations = 1
  MaxLosses = 1
  Sub = {s1, s2, s3}
  NoSub = NoSub
  Budget = 1
  BufferCap = 1
  MaxTokens = 2
  MaxRefusals = 1
  Order <- Queue
  Drainer = {d1, d2}
  Task = {j1, j2, j3, j4}
  GroupOf <- TasksOf
  Rate = 1
  Burst = 2
  Shaped = {t1}
  JobsPerRound <- Shares
  MaxGroups = 2
  HeadPerGroup = 2
  Period = 6
  MaxClock = 3
  Workloads <- Mixed
  Thread = {w1, w2}
  Store = {t1, t2}
  Early = {"before_insert"}
  MaxEdits <- OneEach
  MaxBreaks = 1
  MaxRestarts = 1
INVARIANTS AdmittedAsOwner LogoutIsFinal OverrunBounded WithinBudget RootCallsSurvive WritesFollowMetadata
PROPERTIES GoneIsRefused QuietHidesNothing IdleAreReaped EveryTenantServed
CHECK_DEADLOCK FALSE
