CONSTANTS
  acct = acct
  crm = crm
  region = region
  inv = inv
  title = title
  note = note
  flow = flow
  row = row
  one = one
  two = two
  None = None
  App = {acct, crm, region}
  Doctype = {inv}
  Field = {title, note}
  Flow = {flow}
  Key = {row}
  Operator = {one, two}
  KeyDoctype <- Keyed
  Workloads <- Everything
  MaxEdits = 2
  MaxFaults = 2

SPECIFICATION FairSpec

PROPERTIES
  OneOwner
  EditsKept
  OthersKept
  FaultsHeal

CHECK_DEADLOCK FALSE
