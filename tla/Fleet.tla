-------------------------------- MODULE Fleet --------------------------------
(***************************************************************************)
(* The fan-out of a schema over the tenants of a deployment (fleet.rs):    *)
(* plain runs, and the guarded ones, whose rollout is refused until a      *)
(* canary cohort is recorded as migrated to exactly this target.           *)
(*                                                                         *)
(* An operator is a process that runs the fan-out.  It reads the           *)
(* checkpoints and the active tenants once, decides, and then takes one    *)
(* tenant after the other: the migrator's lock, each table in a            *)
(* transaction of its own behind the two gates (SchemaDiff), and the       *)
(* checkpoint, which is deleted and created by two statements.             *)
(*                                                                         *)
(* A run id is a hash of the target, here the version itself; the id of a  *)
(* cohort is a hash of its members, here the cohort.  Tenants are numbered *)
(* in the order of their short ids.  Abstracted: dry runs (refused or      *)
(* without an effect), the order of the tables, what the migrator does     *)
(* before it has its lock, and the takeover of a lock whose holder is      *)
(* still at work (SchemaSync).                                             *)
(***************************************************************************)
EXTENDS SchemaDiff, FiniteSetsExt

CONSTANTS Table,
          TableOf,      \* [Column -> Table]
          Tenant,       \* numbers
          Version,      \* numbers: the targets, in the order they were written
          Shape,        \* [Version -> Snapshot]
          Operator,
          Nobody,       \* the lock is free
          Environment,  \* of the deployment: "dev", "test" or "prod"
          Workloads     \* what happens in one behaviour; bounds of the model

ASSUME FleetAssumption ==
  /\ Tenant \subseteq Nat /\ Version \subseteq Nat /\ 1 \in Version
  /\ TableOf \in [Column -> Table]
  /\ Shape \in [Version -> Snapshot]
  /\ Nobody \notin Operator
  /\ Workloads \subseteq [operators : SUBSET Operator, stages : SUBSET {"plain", "canary", "rollout"},
                     sizes : SUBSET (Nat \ {0}), approvals : SUBSET BOOLEAN,
                     first : Version, known : SUBSET Table, returns : BOOLEAN, values : SUBSET STRING,
                     stores : Nat, deploys : Nat, statuses : Nat, byHand : Nat, faults : Nat]

VARIABLES deployed,     \* the version the operators are given
          active,       \* tenants that are not suspended, deleting or deleted
          recorded,     \* the newest history row of every column's table
          known,        \* the tables that have a history
          live,         \* the schema in force
          handmade,     \* history: the columns whose definition in force was written by hand
          row,          \* the value a stored document has in each column
          checkpoints,  \* _framework_fleet_checkpoint
          lock,         \* the migrator's lock of each tenant
          op,           \* where an operator stands, and its report
          reached,      \* history: <<v, t>> if a run of v has left t at v
          workload      \* what is left of the behaviour's workload

vars == <<deployed, active, recorded, known, live, handmade, row, checkpoints, lock, op, reached, workload>>
schema == <<recorded, known, live, handmade>>
surroundings == <<deployed, active, row, workload>>

Idle == [pc |-> "idle", stage |-> "plain", run |-> 1, size |-> 0,
         allow |-> FALSE, acknowledge |-> FALSE,
         done |-> {}, evidence |-> {}, cohort |-> {}, targets |-> {}, left |-> {},
         tenant |-> 0, todo |-> {}, ok |-> TRUE, write |-> "done",
         failed |-> FALSE, unsure |-> FALSE]

\* A deployment that has run version 1 for a while; some of its tables may be to come.
Init ==
  /\ workload \in Workloads
  /\ deployed = workload.first
  /\ active = Tenant
  /\ known = [t \in Tenant |-> workload.known]
  /\ recorded = [t \in Tenant |-> [c \in Column |-> IF TableOf[c] \in workload.known THEN Shape[1][c] ELSE NoField]]
  /\ live = recorded
  /\ handmade = [t \in Tenant |-> {}]
  /\ row = [t \in Tenant |-> [c \in Column |-> "none"]]
  /\ checkpoints = {}
  /\ lock = [t \in Tenant |-> Nobody]
  /\ op = [o \in Operator |-> Idle]
  /\ reached = {}

-----------------------------------------------------------------------------
(* Mutated forms of definitions below; no action uses them.                 *)

MarkedEver(run, status) == {p.key : p \in {q \in checkpoints : q.status = status}}
                                           \* the run id is not compared

OutcomeDone(p, ok) ==                      \* a failure leaves "done" as well
  [p EXCEPT !.pc = "delete", !.todo = {}, !.ok = TRUE, !.write = "done", !.failed = @ \/ ~ok]

IsOkAlways(p) == TRUE                      \* the errors of the tables are not looked at

-----------------------------------------------------------------------------
(* Checkpoints.                                                             *)

TenantKey(t) == [cohort |-> FALSE, of |-> {t}]
CohortKey(C) == [cohort |-> TRUE, of |-> C]

\* The rows of a run with this status: load_done_set, load_canary_evidence.
Marked(run, status) == {p.key : p \in {q \in checkpoints : q.run = run /\ q.status = status}}

\* DELETE .. WHERE run_id AND tenant
Without(run, key) == {p \in checkpoints : ~(p.run = run /\ p.key = key)}

-----------------------------------------------------------------------------
(* The plan of a run.                                                       *)

Goes(o, changes) == op' = [op EXCEPT ![o] = changes]
At(o, pc) == op[o].pc = pc
MovesOnly(o) == UNCHANGED <<schema, surroundings, checkpoints, lock, reached>>

Guarded(p) == p.stage # "plain"

\* migrate_fleet_with, migrate_fleet_rollout: the caller passes the target.
Start(o, stage, size, allow, acknowledge) ==
  /\ At(o, "idle") /\ o \in workload.operators /\ stage \in workload.stages
  /\ Goes(o, [Idle EXCEPT !.pc = "done", !.stage = stage, !.size = size, !.run = deployed,
                          !.allow = allow, !.acknowledge = acknowledge])
  /\ MovesOnly(o)

LoadDone(o) ==
  /\ At(o, "done")
  /\ Goes(o, [op[o] EXCEPT !.pc = "evidence",
                           !.done = {t \in Tenant : TenantKey(t) \in Marked(op[o].run, "done")}])
  /\ MovesOnly(o)

LoadEvidence(o) ==
  /\ At(o, "evidence")
  /\ Goes(o, [op[o] EXCEPT !.pc = "tenants", !.evidence = Marked(op[o].run, "canary_done")])
  /\ MovesOnly(o)

\* The first `size` active tenants.
Leading(size) == {t \in active : Cardinality({u \in active : u < t}) < size}

\* plan_rollout, which refuses before any tenant is touched.
PlanRefused(p) ==
  \/ p.size > Cardinality(active)
  \/ /\ p.stage = "rollout"
     /\ CohortKey(Leading(p.size)) \notin p.evidence \/ ~(Leading(p.size) \subseteq p.done)

\* list_active_tenants and the plan.
PlanRun(o) ==
  /\ At(o, "tenants")
  /\ \/ /\ Guarded(op[o]) /\ PlanRefused(op[o])
        /\ Goes(o, Idle)
     \/ /\ ~(Guarded(op[o]) /\ PlanRefused(op[o]))
        /\ LET cohort  == IF Guarded(op[o]) THEN Leading(op[o].size) ELSE {}
               targets == IF op[o].stage = "canary" THEN cohort ELSE active
           IN  Goes(o, [op[o] EXCEPT !.pc = "next", !.cohort = cohort,
                                     !.targets = targets, !.left = targets])
  /\ MovesOnly(o)

-----------------------------------------------------------------------------
(* One tenant.                                                              *)

\* halt_on_failure, which both guarded stages set.
Halted(p) == Guarded(p) /\ p.failed

\* The next target; one that is done already is skipped.
NextTenant(o) ==
  /\ At(o, "next") /\ op[o].left # {} /\ ~Halted(op[o])
  /\ LET t == Min(op[o].left)
     IN  IF t \in op[o].done
         THEN Goes(o, [op[o] EXCEPT !.left = @ \ {t}])
         ELSE Goes(o, [op[o] EXCEPT !.left = @ \ {t}, !.pc = "lock", !.tenant = t])
  /\ MovesOnly(o)

ColumnsOf(b) == {c \in Column : TableOf[c] = b}

\* The result of a tenant is known: what the run will record.
Outcome(p, ok) ==
  [p EXCEPT !.pc = "delete", !.todo = {}, !.ok = TRUE,
            !.write = IF ok THEN "done" ELSE "failed", !.failed = @ \/ ~ok]

\* migrate_scope up to the diff of each table; another holder is an error.
TakeLock(o) ==
  LET t == op[o].tenant
  IN  /\ At(o, "lock")
      /\ \/ /\ lock[t] = Nobody
            /\ lock' = [lock EXCEPT ![t] = o]
            /\ Goes(o, [op[o] EXCEPT !.pc = "apply",
                          !.todo = {b \in Table : ~Same(recorded[t], Shape[op[o].run], ColumnsOf(b))}])
         \/ /\ lock[t] # Nobody
            /\ Goes(o, Outcome(op[o], FALSE))
            /\ UNCHANGED lock
      /\ UNCHANGED <<schema, surroundings, checkpoints, reached>>

Refused(p, b) ==
  GateRefuses(Environment, p, recorded[p.tenant], Shape[p.run], ColumnsOf(b), b \notin known[p.tenant])

\* A refused table is an error of the report; the run goes on with the others.
RefuseTable(o, b) ==
  /\ At(o, "apply") /\ b \in op[o].todo
  /\ Refused(op[o], b)
  /\ Goes(o, [op[o] EXCEPT !.todo = @ \ {b}, !.ok = FALSE])
  /\ MovesOnly(o)

\* apply_resource: the statements and the history row, in one transaction.
Applies(o, b) ==
  LET t    == op[o].tenant
      next == Shape[op[o].run]
  IN  /\ live' = [live EXCEPT ![t] = Applied(live[t], recorded[t], next, ColumnsOf(b))]
      /\ recorded' = [recorded EXCEPT ![t] = [c \in Column |->
                         IF c \in ColumnsOf(b) THEN next[c] ELSE recorded[t][c]]]
      /\ known' = [known EXCEPT ![t] = @ \cup {b}]
      /\ handmade' = [handmade EXCEPT ![t] = @ \ {c \in ColumnsOf(b) : recorded[t][c] # next[c]}]

ApplyTable(o, b) ==
  /\ At(o, "apply") /\ b \in op[o].todo
  /\ ~Refused(op[o], b)
  /\ Applies(o, b)
  /\ Goes(o, [op[o] EXCEPT !.todo = @ \ {b}])
  /\ UNCHANGED <<surroundings, checkpoints, lock, reached>>

\* MigrationReport::is_ok
IsOk(p) == p.ok

\* lock_release, and the report of the tenant.
EndTenant(o) ==
  LET t == op[o].tenant
  IN  /\ At(o, "apply") /\ op[o].todo = {}
      /\ lock' = [lock EXCEPT ![t] = IF @ = o THEN Nobody ELSE @]
      /\ reached' = reached \cup {<<v, t>> : v \in {v \in {op[o].run} : recorded[t] = Shape[v]}}
      /\ Goes(o, Outcome(op[o], IsOk(op[o])))
      /\ UNCHANGED <<schema, surroundings, checkpoints>>

-----------------------------------------------------------------------------
(* record_checkpoint, and the end of a run.                                 *)

Key(p) == IF p.write = "canary_done" THEN CohortKey(p.cohort) ELSE TenantKey(p.tenant)

\* Where a run stands once a checkpoint is written, or given up.
Recorded(p) == [p EXCEPT !.pc = IF p.write = "canary_done" THEN "report" ELSE "next"]

DeleteRow(o) ==
  /\ At(o, "delete")
  /\ checkpoints' = Without(op[o].run, Key(op[o]))
  /\ Goes(o, [op[o] EXCEPT !.pc = "create"])
  /\ UNCHANGED <<schema, surroundings, lock, reached>>

Row(p) == [run |-> p.run, key |-> Key(p), status |-> p.write]

CreateRow(o) ==
  /\ At(o, "create")
  /\ checkpoints' = checkpoints \cup {Row(op[o])}
  /\ Goes(o, Recorded(op[o]))
  /\ UNCHANGED <<schema, surroundings, lock, reached>>

\* FleetReport::is_promotable
IsPromotable(p) == ~p.failed /\ ~p.unsure

\* After the loop: a canary stage without a failure records its cohort.
Finish(o) ==
  /\ At(o, "next")
  /\ op[o].left = {} \/ Halted(op[o])
  /\ IF op[o].stage = "canary" /\ IsPromotable(op[o])
     THEN Goes(o, [op[o] EXCEPT !.pc = "delete", !.write = "canary_done"])
     ELSE Goes(o, [op[o] EXCEPT !.pc = "report"])
  /\ MovesOnly(o)

\* The caller has the report.
Report(o) == At(o, "report") /\ Goes(o, Idle) /\ MovesOnly(o)

-----------------------------------------------------------------------------
(* Faults.                                                                  *)

Spend(what) == workload[what] > 0 /\ workload' = [workload EXCEPT ![what] = @ - 1]

\* A read fails: the call returns an error.  At a tenant the error is the tenant's;
\* its lock may be created and the answer lost.
ReadFails(o) ==
  /\ Spend("faults")
  /\ \/ op[o].pc \in {"done", "evidence", "tenants"} /\ Goes(o, Idle) /\ UNCHANGED lock
     \/ /\ At(o, "lock")
        /\ \/ UNCHANGED lock
           \/ lock[op[o].tenant] = Nobody /\ lock' = [lock EXCEPT ![op[o].tenant] = o]
        /\ Goes(o, Outcome(op[o], FALSE))
  /\ UNCHANGED <<deployed, active, row, schema, checkpoints, reached>>

\* The transaction of a table fails, or its answer is lost.
ApplyFails(o, b) ==
  /\ Spend("faults")
  /\ At(o, "apply") /\ b \in op[o].todo /\ ~Refused(op[o], b)
  /\ Applies(o, b) \/ UNCHANGED schema
  /\ Goes(o, [op[o] EXCEPT !.todo = @ \ {b}, !.ok = FALSE])
  /\ UNCHANGED <<deployed, active, row, checkpoints, lock, reached>>

\* A checkpoint cannot be written, or its answer is lost: a failure's is ignored,
\* a success's is reported, and the run goes on.
RecordFails(o) ==
  /\ Spend("faults")
  /\ \/ At(o, "delete") /\ UNCHANGED checkpoints
     \/ At(o, "create") /\ checkpoints' \in {checkpoints, checkpoints \cup {Row(op[o])}}
  /\ Goes(o, [Recorded(op[o]) EXCEPT !.unsure = @ \/ op[o].write # "failed"])
  /\ UNCHANGED <<deployed, active, row, schema, lock, reached>>

Crash(o) ==
  /\ Spend("faults")
  /\ ~At(o, "idle")
  /\ Goes(o, Idle)
  /\ UNCHANGED <<deployed, active, row, schema, checkpoints, lock, reached>>

\* The lock of a holder that is gone is taken over after LOCK_STALE_SECS.
LockGrowsStale(t) ==
  /\ lock[t] # Nobody
  /\ ~(At(lock[t], "apply") /\ op[lock[t]].tenant = t)
  /\ lock' = [lock EXCEPT ![t] = Nobody]
  /\ UNCHANGED <<schema, surroundings, checkpoints, op, reached>>

-----------------------------------------------------------------------------
(* The surroundings.                                                        *)

Deploy(v) ==
  /\ Spend("deploys")
  /\ v # deployed /\ (v > deployed \/ workload.returns)
  /\ deployed' = v
  /\ UNCHANGED <<active, row, schema, checkpoints, lock, op, reached>>

\* A tenant is suspended, or becomes active.
SetStatus(t) ==
  /\ Spend("statuses")
  /\ active' \in {active \ {t}, active \cup {t}} \ {active}
  /\ UNCHANGED <<deployed, row, schema, checkpoints, lock, op, reached>>

\* DDL by hand: a field is removed, added or redefined.
ChangeByHand(t, c, def) ==
  /\ Spend("byHand")
  /\ def # live[t][c]
  /\ live' = [live EXCEPT ![t][c] = def]
  /\ handmade' = [handmade EXCEPT ![t] = IF def = NoField THEN @ \ {c} ELSE @ \cup {c}]
  /\ UNCHANGED <<deployed, active, row, recorded, known, checkpoints, lock, op, reached>>

\* The application stores a document.
StoreValue(t, c, value) ==
  /\ Spend("stores")
  /\ t \in active /\ row[t][c] = "none"
  /\ Readable(live[t][c], value)
  /\ row' = [row EXCEPT ![t][c] = value]
  /\ UNCHANGED <<deployed, active, schema, checkpoints, lock, op, reached>>

Definitions == {Shape[v][c] : v \in Version, c \in Column}

Work(o) ==
  \/ LoadDone(o) \/ LoadEvidence(o) \/ PlanRun(o) \/ NextTenant(o)
  \/ TakeLock(o) \/ (\E b \in Table : RefuseTable(o, b) \/ ApplyTable(o, b)) \/ EndTenant(o)
  \/ DeleteRow(o) \/ CreateRow(o) \/ Finish(o) \/ Report(o)

Faulty(o) ==
  ReadFails(o) \/ RecordFails(o) \/ Crash(o) \/ \E b \in Table : ApplyFails(o, b)

Starts(o) ==
  \E allow, acknowledge \in workload.approvals :
    \/ Start(o, "plain", 0, allow, acknowledge)
    \/ \E stage \in {"canary", "rollout"}, size \in workload.sizes : Start(o, stage, size, allow, acknowledge)

Around ==
  \/ \E v \in Version : Deploy(v)
  \/ \E t \in Tenant : LockGrowsStale(t) \/ SetStatus(t)
  \/ \E t \in Tenant, c \in Column, def \in Definitions : ChangeByHand(t, c, def)
  \/ \E t \in Tenant, c \in Column, value \in workload.values : StoreValue(t, c, value)

Next == Around \/ \E o \in Operator : Starts(o) \/ Work(o) \/ Faulty(o)

Spec == Init /\ [][Next]_vars

\* Statements return, abandoned locks grow stale, and the operators run the
\* fan-out, with every approval, again and again.
FairSpec ==
  /\ Spec
  /\ \A t \in Tenant : WF_vars(LockGrowsStale(t))
  /\ \A o \in Operator : WF_vars(Work(o)) /\ SF_vars(Start(o, "plain", 0, TRUE, TRUE))

-----------------------------------------------------------------------------
(* Properties.                                                              *)

\* Whatever crashes, checkpoints that are lost or written twice, and tenants that come
\* and go: a guarded rollout changes a tenant outside its canary cohort only when
\* every member of the cohort has been brought to exactly this target (plan_rollout).
Changes(o, t) == At(o, "apply") /\ op[o].tenant = t /\ op'[o] # op[o] /\ recorded'[t] # recorded[t]

RolloutFollowsCanary ==
  [][\A o \in Operator, t \in Tenant :
       Changes(o, t) /\ op[o].stage = "rollout" /\ t \notin op[o].cohort =>
         \A u \in op[o].cohort : <<op[o].run, u>> \in reached]_vars

\* A report that may be promoted is no lie: every target has been at the version, the
\* ones that were skipped as done included (migrate_fleet_inner).
PromotableMeansReached ==
  \A o \in Operator : At(o, "report") /\ IsPromotable(op[o]) =>
    \A t \in op[o].targets : <<op[o].run, t>> \in reached

\* In a strict environment no stored value becomes unreadable unless the operator of
\* that run approved of it (allow_destructive for a drop, acknowledge for the rest),
\* somebody changed the schema by hand, or the run met a definition that a hand had
\* written: the gates go by the history.
Consents(o, t, c) ==
  /\ At(o, "apply") /\ op[o].tenant = t
  /\ IF live'[t][c] = NoField THEN op[o].allow ELSE op[o].acknowledge

NoLossUnasked ==
  [][Environment = "prod" => \A t \in Tenant : \A c \in Column :
       Readable(live[t][c], row[t][c]) /\ ~Readable(live'[t][c], row[t][c]) =>
         \/ op' = op
         \/ c \in handmade[t]
         \/ \E o \in Operator : Consents(o, t, c)]_vars

\* Drift detection looks at the tables that have a history, and at presence alone.  After
\* any runs and faults it names every column where a database is not at what its history
\* says, but for those that a hand has defined and no run has touched since
\* (apply_resource writes the schema and its history together).
KnownColumns(t) == {c \in Column : TableOf[c] \in known[t]}

DriftTellsTheGap ==
  \A t \in Tenant :
    {c \in Column : live[t][c] # recorded[t][c]} \ handmade[t]
      \subseteq Drift(live[t], recorded[t], KnownColumns(t))

\* One operator who runs the fan-out again and again brings every active tenant to the
\* deployed version in the end, whatever crashed or failed on the way, unless an older
\* version is deployed again.
FleetConverges ==
  Cardinality(workload.operators) = 1 /\ "plain" \in workload.stages /\ ~workload.returns =>
    <>[](\A t \in active : recorded[t] = Shape[deployed])

\* fleet.rs: "migrates every non-suspended tenant", and "already-done tenants are
\* skipped" only because a prior run completed them.
ReportedMeansThere ==
  \A o \in Operator : At(o, "report") /\ IsPromotable(op[o]) =>
    \A t \in op[o].targets : recorded[t] = Shape[op[o].run]

=============================================================================
