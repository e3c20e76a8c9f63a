----------------------------- MODULE DocWriteMC -----------------------------
(* Instances of DocWrite for TLC: the workflow of workflow.rs's tests.      *)
EXTENDS DocWrite

Approval ==
  {[from |-> "Draft", to |-> "ForApproval", byManager |-> FALSE],
   [from |-> "ForApproval", to |-> "Approved", byManager |-> TRUE],
   [from |-> "ForApproval", to |-> "Rejected", byManager |-> TRUE],
   [from |-> "Rejected", to |-> "Draft", byManager |-> FALSE]}
ApprovalStatus ==
  [s \in {"Draft", "ForApproval", "Approved", "Rejected"} |-> IF s = "Approved" THEN 1 ELSE 0]

PlainWrites ==
  {[x |-> 1, docstatus |-> 0], [docstatus |-> 1], [docstatus |-> 2], [state |-> "Rejected"]}
Creates == {[x |-> 1], [docstatus |-> 1]}

\* Scripts that leave the document alone, set a column, submit, step out of the workflow's
\* order, or drop a column.
ScriptOutcomes ==
  {[puts |-> Nothing, drops |-> {}], [puts |-> [x |-> 0], drops |-> {}],
   [puts |-> [docstatus |-> 1], drops |-> {}], [puts |-> [state |-> "Draft"], drops |-> {}],
   [puts |-> Nothing, drops |-> {"docstatus"}]}
=============================================================================
