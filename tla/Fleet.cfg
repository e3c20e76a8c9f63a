\* Two operators, two tenants, two tables; three versions of the schema.
SPECIFICATION FairSpec
CONSTANTS
  a = a
  b = b
  n = n
  people = people
  notes = notes
  Column = {a, b, n}
  NoField = NoField
  Table = {people, notes}
  TableOf <- TablesOf
  Tenant = {1, 2}
  Version = {1, 2, 3}
  Shape <- Shapes
  Operator = {"o1", "o2"}
  Nobody = "nobody"
  Environment = "prod"
  Workloads <- Mixed
INVARIANTS PromotableMeansReached DriftTellsTheGap
PROPERTIES RolloutFollowsCanary NoLossUnasked FleetConverges
CHECK_DEADLOCK FALSE
