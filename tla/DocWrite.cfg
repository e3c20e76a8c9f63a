\* Two requests of an owner and a manager on one document, with an approval workflow.
SPECIFICATION Spec
CONSTANTS
  Doc = {d1}
  User = {clerk, manager}
  Request = {q1, q2}
  Managers = {manager}
  NoDoc = NoDoc
  Gone = Gone
  Nobody = Nobody
  Value = {0, 1}
  State = {"Draft", "ForApproval", "Approved", "Rejected"}
  Blank = ""
  Initial = "Draft"
  StatusOf <- ApprovalStatus
  Transitions <- Approval
  Given <- PlainWrites
  Born <- Creates
  Scripts <- ScriptOutcomes
  NoTransition = NoTransition
INVARIANTS EdgeAgreed StateAndStatusAgree SubmitIsTold
PROPERTIES DisjointStayDisjoint
