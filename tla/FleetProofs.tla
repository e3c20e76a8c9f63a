----------------------------- MODULE FleetProofs -----------------------------
(***************************************************************************)
(* Proofs about Fleet, for every number of tenants, tables, versions,      *)
(* operators and faults: what a report and a checkpoint say is true, a     *)
(* guarded rollout follows its canary, drift detection names every gap     *)
(* that is not a definition written by hand, and nothing stored is lost    *)
(* without a consent.                                                      *)
(*                                                                         *)
(* IInv holds of every state.  Its core is that an operator's record is    *)
(* sound: a tenant it skips, its evidence and what it is about to write    *)
(* are all backed by the history `reached`.  That history grows at         *)
(* EndTenant only, and there the tables the operator went through are      *)
(* still at its target because it holds the tenant's lock (HoldsTenant).   *)
(***************************************************************************)
EXTENDS Fleet, WellFoundedInduction, TLAPS

Fetching == {"done", "evidence", "tenants"}
Planned == {"next", "lock", "apply", "delete", "create", "report"}
Writing == {"delete", "create"}
Keys == [cohort : BOOLEAN, of : SUBSET Tenant]
Statuses == {"done", "failed", "canary_done"}
Rows == [run : Version, key : Keys, status : Statuses]
Operation ==
  [pc : {"idle"} \cup Fetching \cup Planned, stage : {"plain", "canary", "rollout"},
   run : Version, size : Nat, allow : BOOLEAN, acknowledge : BOOLEAN,
   done : SUBSET Tenant, evidence : SUBSET Keys, cohort : SUBSET Tenant,
   targets : SUBSET Tenant, left : SUBSET Tenant, tenant : Tenant \cup {0},
   todo : SUBSET Table, ok : BOOLEAN, write : Statuses, failed : BOOLEAN, unsure : BOOLEAN]
Workload ==
  [operators : SUBSET Operator, stages : SUBSET {"plain", "canary", "rollout"},
   sizes : SUBSET (Nat \ {0}), approvals : SUBSET BOOLEAN,
   first : Version, known : SUBSET Table, returns : BOOLEAN, values : SUBSET STRING,
   stores : Nat, deploys : Nat, statuses : Nat, byHand : Nat, faults : Nat]

TypeOK ==
  /\ deployed \in Version
  /\ active \subseteq Tenant
  /\ recorded \in [Tenant -> Snapshot]
  /\ live \in [Tenant -> Snapshot]
  /\ known \in [Tenant -> SUBSET Table]
  /\ handmade \in [Tenant -> SUBSET Column]
  /\ checkpoints \subseteq Rows
  /\ lock \in [Tenant -> Operator \cup {Nobody}]
  /\ op \in [Operator -> Operation]
  /\ reached \subseteq Version \X Tenant
  /\ workload \in Workload

\* What a record of an operation says is backed by the history R.
SkipsReached(p, R) == \A t \in p.done : <<p.run, t>> \in R
EvidenceReached(p, R) == \A k \in p.evidence : \A t \in k.of : <<p.run, t>> \in R
CohortReached(p, R) ==
  p.stage = "rollout" /\ p.pc \in Planned => \A t \in p.cohort : <<p.run, t>> \in R
CanaryTargets(p) == p.stage = "canary" /\ p.pc \in Planned => p.targets = p.cohort
TargetsReached(p, R) ==
  p.pc \in Planned /\ ~p.failed =>
    \A t \in p.targets \ p.left :
      <<p.run, t>> \in R \/ (p.pc \in {"lock", "apply"} /\ t = p.tenant)
ReportsAll(p) == p.pc = "report" /\ ~p.failed => p.left = {}
HasTenant(p) ==
  p.pc \in {"lock", "apply"} \/ (p.pc \in Writing /\ p.write # "canary_done") => p.tenant \in Tenant
WritesTruth(p, R) ==
  p.pc \in Writing =>
    /\ p.write = "done" => <<p.run, p.tenant>> \in R
    /\ p.write = "failed" => p.failed
    /\ p.write = "canary_done" => p.left = {} /\ ~p.failed /\ p.stage = "canary"

\* The tenant an operator is at work on is its own by the locks L, and by the histories H
\* as far as the operator came.
HoldsTenant(o, p, L, H) ==
  p.pc = "apply" =>
    /\ L[p.tenant] = o
    /\ p.ok => \A c \in Column : TableOf[c] \in p.todo \/ H[p.tenant][c] = Shape[p.run][c]

Backed(p, R) ==
  /\ SkipsReached(p, R) /\ EvidenceReached(p, R) /\ CohortReached(p, R)
  /\ CanaryTargets(p) /\ TargetsReached(p, R) /\ ReportsAll(p)
  /\ HasTenant(p) /\ WritesTruth(p, R)
Sound(o, p) == Backed(p, reached) /\ HoldsTenant(o, p, lock, recorded)

CheckpointsTrue ==
  \A c \in checkpoints : c.status # "failed" => \A t \in c.key.of : <<c.run, t>> \in reached

\* Where a schema L is not at what its history H says, a field is missing or the work of a
\* hand (M); what is in the history belongs to a table that has one (K).
Tells(L, H, K, M) ==
  \A c \in Column :
    /\ L[c] # H[c] => L[c] = NoField \/ c \in M
    /\ H[c] # NoField => TableOf[c] \in K

GapsTold == \A t \in Tenant : Tells(live[t], recorded[t], known[t], handmade[t])

IInv ==
  /\ TypeOK
  /\ \A o \in Operator : Sound(o, op[o])
  /\ CheckpointsTrue
  /\ GapsTold

-----------------------------------------------------------------------------
(* One operator moves.                                                      *)

\* The least of some numbers is one of them.
LEMMA LeastIsMember ==
  ASSUME NEW S \in SUBSET Nat, S # {}
  PROVE  Min(S) \in S
<1>1. PICK x \in S : \A y \in S : ~(<<y, x>> \in OpToRel(<, Nat))
  BY NatLessThanWellFounded, WFMin, Zenon
<1>2. \A y \in S : ~(y < x)
  BY <1>1 DEF OpToRel
<1>3. \A y \in S : x =< y
  BY <1>2
<1> QED
  BY <1>3 DEF Min

\* A sound record stays sound while the history grows and, if the operator is at
\* work on a tenant, the tenant's lock and its histories stay.
LEMMA StaysBacked ==
  ASSUME NEW p, NEW R, NEW Q, R \subseteq Q, Backed(p, R)
  PROVE  Backed(p, Q)
<1>1. SkipsReached(p, Q) /\ EvidenceReached(p, Q) /\ CohortReached(p, Q)
  BY DEF Backed, SkipsReached, EvidenceReached, CohortReached
<1>2. TargetsReached(p, Q) /\ WritesTruth(p, Q)
  BY DEF Backed, TargetsReached, WritesTruth
<1> QED
  BY <1>1, <1>2 DEF Backed

LEMMA StaysSound ==
  ASSUME NEW o, NEW p, Sound(o, p), reached \subseteq reached',
         p.pc = "apply" => lock'[p.tenant] = lock[p.tenant] /\ recorded'[p.tenant] = recorded[p.tenant]
  PROVE  Sound(o, p)'
<1>1. Backed(p, reached')
  BY StaysBacked DEF Sound
<1>2. HoldsTenant(o, p, lock', recorded')
  BY DEF Sound, HoldsTenant
<1> QED
  BY <1>1, <1>2 DEF Sound

\* What a step of one operator must show, the others being left alone.
LEMMA OneMoves ==
  ASSUME IInv, NEW o \in Operator, TypeOK', Sound(o, op[o])', CheckpointsTrue', GapsTold',
         reached \subseteq reached',
         \A u \in Operator \ {o} :
           /\ op'[u] = op[u]
           /\ At(u, "apply") => lock'[op[u].tenant] = lock[op[u].tenant]
                                  /\ recorded'[op[u].tenant] = recorded[op[u].tenant]
  PROVE  IInv'
<1>1. ASSUME NEW u \in Operator \ {o} PROVE Sound(u, op[u])'
  <2>1. Sound(u, op[u])
    BY DEF IInv
  <2>2. ASSUME NEW p, p = op[u] PROVE Sound(u, p)'
    BY <2>1, <2>2, StaysSound DEF At
  <2>3. op'[u] = op[u]
    OBVIOUS
  <2> QED
    BY <2>2, <2>3
<1> QED
  BY <1>1 DEF IInv

\* A step that moves an operator and nothing else.
LEMMA PlanKeeps ==
  ASSUME IInv, NEW o \in Operator, NEW q \in Operation, Goes(o, q), MovesOnly(o),
         Sound(o, q)
  PROVE  IInv'
<1>1. op' = [op EXCEPT ![o] = q] /\ op \in [Operator -> Operation]
  BY DEF Goes, IInv, TypeOK
<1>2. op'[o] = q /\ (\A u \in Operator \ {o} : op'[u] = op[u]) /\ op' \in [Operator -> Operation]
  BY <1>1
<1>3. UNCHANGED <<deployed, active, recorded, live, known, handmade, checkpoints, lock, reached, workload>>
  BY DEF MovesOnly, schema, surroundings
<1>4. TypeOK'
  BY <1>2, <1>3 DEF IInv, TypeOK
<1>5. Sound(o, q)'
  BY <1>3, StaysSound
<1>6. CheckpointsTrue' /\ GapsTold'
  BY <1>3 DEF IInv, CheckpointsTrue, GapsTold
<1> QED
  BY <1>2, <1>3, <1>4, <1>5, <1>6, OneMoves

-----------------------------------------------------------------------------
(* The plan of a run.                                                       *)

\* The initial record of an operator.
LEMMA IdleRecord == Idle \in Operation
  BY FleetAssumption DEF FleetAssumption, Idle, Operation, Fetching, Planned, Keys, Statuses

\* Before the plan stands, a record holds nothing but what it has loaded.
LEMMA UnplannedIsSound ==
  ASSUME NEW o, NEW p, p.pc \in {"idle"} \cup Fetching,
         SkipsReached(p, reached), EvidenceReached(p, reached)
  PROVE  Sound(o, p)
  BY DEF Fetching, Planned, Writing, Sound, Backed, CohortReached, CanaryTargets, TargetsReached,
         ReportsAll, HasTenant, WritesTruth, HoldsTenant

\* An operator that has nothing is sound.
LEMMA IdleIsSound == ASSUME NEW o PROVE Sound(o, Idle)
<1>1. SkipsReached(Idle, reached) /\ EvidenceReached(Idle, reached) /\ Idle.pc = "idle"
  BY DEF Idle, SkipsReached, EvidenceReached
<1> QED
  BY <1>1, UnplannedIsSound

\* A run begins with nothing (migrate_fleet_with).
LEMMA StartKeeps ==
  ASSUME IInv, NEW o \in Operator, NEW stage \in {"plain", "canary", "rollout"}, NEW size \in Nat,
         NEW allow \in BOOLEAN, NEW acknowledge \in BOOLEAN,
         Start(o, stage, size, allow, acknowledge)
  PROVE  IInv'
<1> DEFINE q == [Idle EXCEPT !.pc = "done", !.stage = stage, !.size = size, !.run = deployed,
                             !.allow = allow, !.acknowledge = acknowledge]
<1>1. q \in Operation
  BY IdleRecord DEF IInv, TypeOK, Operation, Fetching
<1>2. q.pc = "done" /\ q.done = {} /\ q.evidence = {}
  BY DEF Idle
<1>3. Goes(o, q) /\ MovesOnly(o)
  BY DEF Start
<1> HIDE DEF q
<1>4. Sound(o, q)
  BY <1>2, UnplannedIsSound DEF Fetching, SkipsReached, EvidenceReached
<1> QED
  BY <1>1, <1>3, <1>4, PlanKeeps

\* load_done_set: the "done" rows of this run.
LEMMA LoadDoneKeeps ==
  ASSUME IInv, NEW o \in Operator, LoadDone(o)
  PROVE  IInv'
<1> DEFINE D == {t \in Tenant : TenantKey(t) \in Marked(op[o].run, "done")}
           q == [op[o] EXCEPT !.pc = "evidence", !.done = D]
<1>1. op[o] \in Operation /\ Sound(o, op[o])
  BY DEF IInv, TypeOK
<1>2. ASSUME NEW t \in D PROVE <<op[o].run, t>> \in reached
  <2>1. PICK c \in checkpoints : c.run = op[o].run /\ c.status = "done" /\ c.key = TenantKey(t)
    BY <1>2 DEF Marked
  <2>2. t \in c.key.of
    BY <2>1 DEF TenantKey
  <2> QED
    BY <2>1, <2>2 DEF IInv, CheckpointsTrue
<1> HIDE DEF D
<1>3. D \in SUBSET Tenant
  BY DEF D
<1>4. q \in Operation
  BY <1>1, <1>3 DEF Operation, Fetching
<1>5. q.pc = "evidence" /\ q.done = D /\ q.run = op[o].run /\ q.evidence = op[o].evidence
  BY <1>1 DEF Operation
<1>6. Goes(o, q) /\ MovesOnly(o)
  BY DEF LoadDone, D
<1> HIDE DEF q
<1>7. Sound(o, q)
  BY <1>1, <1>2, <1>5, UnplannedIsSound DEF Fetching, Sound, Backed, SkipsReached, EvidenceReached
<1> QED
  BY <1>4, <1>6, <1>7, PlanKeeps

\* load_canary_evidence: the cohorts recorded for this run.
LEMMA LoadEvidenceKeeps ==
  ASSUME IInv, NEW o \in Operator, LoadEvidence(o)
  PROVE  IInv'
<1> DEFINE E == Marked(op[o].run, "canary_done")
           q == [op[o] EXCEPT !.pc = "tenants", !.evidence = E]
<1>1. op[o] \in Operation /\ Sound(o, op[o])
  BY DEF IInv, TypeOK
<1>2. ASSUME NEW k \in E, NEW t \in k.of PROVE <<op[o].run, t>> \in reached
  <2>1. PICK c \in checkpoints : c.run = op[o].run /\ c.status = "canary_done" /\ c.key = k
    BY <1>2 DEF Marked
  <2> QED
    BY <1>2, <2>1 DEF IInv, CheckpointsTrue
<1>3. E \in SUBSET Keys
  BY DEF IInv, TypeOK, Marked, Rows
<1> HIDE DEF E
<1>4. q \in Operation
  BY <1>1, <1>3 DEF Operation, Fetching
<1>5. q.pc = "tenants" /\ q.evidence = E /\ q.run = op[o].run /\ q.done = op[o].done
  BY <1>1 DEF Operation
<1>6. Goes(o, q) /\ MovesOnly(o)
  BY DEF LoadEvidence, E
<1> HIDE DEF q
<1>7. Sound(o, q)
  BY <1>1, <1>2, <1>5, UnplannedIsSound DEF Fetching, Sound, Backed, SkipsReached, EvidenceReached
<1> QED
  BY <1>4, <1>6, <1>7, PlanKeeps

\* A plan that is not refused has a cohort that was brought to the target (plan_rollout).
LEMMA PlanRunKeeps ==
  ASSUME IInv, NEW o \in Operator, PlanRun(o)
  PROVE  IInv'
<1> DEFINE cohort == IF Guarded(op[o]) THEN Leading(op[o].size) ELSE {}
           targets == IF op[o].stage = "canary" THEN cohort ELSE active
           q == [op[o] EXCEPT !.pc = "next", !.cohort = cohort, !.targets = targets, !.left = targets]
<1>1. op[o] \in Operation /\ Backed(op[o], reached) /\ MovesOnly(o)
  BY DEF IInv, TypeOK, Sound, PlanRun
<1>2. CASE Goes(o, Idle)
  BY <1>1, <1>2, IdleRecord, IdleIsSound, PlanKeeps
<1>3. CASE ~(Guarded(op[o]) /\ PlanRefused(op[o])) /\ Goes(o, q)
  <2>1. cohort \in SUBSET Tenant /\ targets \in SUBSET Tenant
    BY DEF IInv, TypeOK, Leading
  <2>2. op[o].stage = "rollout" => cohort \subseteq op[o].done
    BY <1>3 DEF Guarded, PlanRefused
  <2>3. op[o].stage = "canary" => targets = cohort
    OBVIOUS
  <2> HIDE DEF cohort, targets
  <2>4. q \in Operation
    BY <1>1, <2>1 DEF Operation, Planned
  <2>5. /\ q.pc = "next" /\ q.cohort = cohort /\ q.targets = targets /\ q.left = targets
        /\ q.run = op[o].run /\ q.stage = op[o].stage /\ q.done = op[o].done
        /\ q.evidence = op[o].evidence
    BY <1>1 DEF Operation
  <2>6. Goes(o, q)
    BY <1>3
  <2> HIDE DEF q
  <2>7. SkipsReached(q, reached) /\ EvidenceReached(q, reached) /\ CohortReached(q, reached)
    BY <1>1, <2>2, <2>5 DEF Backed, SkipsReached, EvidenceReached, CohortReached
  <2>8. CanaryTargets(q) /\ TargetsReached(q, reached)
    BY <2>3, <2>5 DEF CanaryTargets, TargetsReached
  <2>9. ReportsAll(q) /\ HasTenant(q) /\ WritesTruth(q, reached) /\ HoldsTenant(o, q, lock, recorded)
    BY <2>5 DEF ReportsAll, HasTenant, WritesTruth, HoldsTenant, Writing
  <2> QED
    BY <1>1, <2>4, <2>6, <2>7, <2>8, <2>9, PlanKeeps DEF Sound, Backed
<1> QED
  BY <1>2, <1>3 DEF PlanRun

-----------------------------------------------------------------------------
(* One tenant.                                                              *)

\* The next target is skipped, or becomes the operator's tenant.
LEMMA NextTenantKeeps ==
  ASSUME IInv, NEW o \in Operator, NextTenant(o)
  PROVE  IInv'
<1> DEFINE t == Min(op[o].left)
           q1 == [op[o] EXCEPT !.left = @ \ {t}]
           q2 == [op[o] EXCEPT !.left = @ \ {t}, !.pc = "lock", !.tenant = t]
<1>1. op[o] \in Operation /\ Backed(op[o], reached) /\ MovesOnly(o) /\ op[o].pc = "next"
  BY DEF IInv, TypeOK, Sound, NextTenant, At
<1>2. op[o].left \in SUBSET Nat /\ op[o].left # {}
  BY <1>1, FleetAssumption DEF FleetAssumption, Operation, NextTenant
<1>3. t \in op[o].left
  BY <1>2, LeastIsMember
<1>4. t \in Tenant
  BY <1>1, <1>3 DEF Operation
<1>5. \/ t \in op[o].done /\ Goes(o, q1)
      \/ t \notin op[o].done /\ Goes(o, q2)
  BY DEF NextTenant
<1> HIDE DEF t
<1>6. q1 \in Operation /\ q2 \in Operation
  BY <1>1, <1>4 DEF Operation, Planned
<1>7. ASSUME NEW q \in {q1, q2}
      PROVE  /\ q.left = op[o].left \ {t} /\ q.targets = op[o].targets /\ q.cohort = op[o].cohort
             /\ q.run = op[o].run /\ q.stage = op[o].stage /\ q.done = op[o].done
             /\ q.evidence = op[o].evidence /\ q.failed = op[o].failed
  <2>1. CASE q = q1
    BY <1>1, <2>1 DEF Operation
  <2>2. CASE q = q2
    BY <1>1, <2>2 DEF Operation
  <2> QED
    BY <2>1, <2>2
<1>8. q1.pc = "next" /\ q2.pc = "lock" /\ q2.tenant = t
  BY <1>1 DEF Operation
<1> HIDE DEF q1, q2
<1>9. ASSUME NEW q \in {q1, q2}, q = q1 => <<op[o].run, t>> \in reached
      PROVE  Sound(o, q)
  <2>1. SkipsReached(q, reached) /\ EvidenceReached(q, reached) /\ CohortReached(q, reached)
    BY <1>1, <1>7, <1>8 DEF Backed, SkipsReached, EvidenceReached, CohortReached, Planned
  <2>2. CanaryTargets(q)
    BY <1>1, <1>7, <1>8 DEF Backed, CanaryTargets, Planned
  <2>3. TargetsReached(q, reached)
    BY <1>1, <1>7, <1>8, <1>9 DEF Backed, TargetsReached, Planned
  <2>4. ReportsAll(q) /\ HasTenant(q) /\ WritesTruth(q, reached) /\ HoldsTenant(o, q, lock, recorded)
    BY <1>4, <1>7, <1>8 DEF ReportsAll, HasTenant, WritesTruth, HoldsTenant, Writing
  <2> QED
    BY <2>1, <2>2, <2>3, <2>4 DEF Sound, Backed
<1>10. CASE t \in op[o].done /\ Goes(o, q1)
  <2>1. <<op[o].run, t>> \in reached
    BY <1>1, <1>10 DEF Backed, SkipsReached
  <2>2. Sound(o, q1)
    BY <1>9, <2>1
  <2> QED
    BY <1>1, <1>6, <1>10, <2>2, PlanKeeps
<1>11. CASE t \notin op[o].done /\ Goes(o, q2)
  <2>1. Sound(o, q2)
    BY <1>8, <1>9
  <2> QED
    BY <1>1, <1>6, <1>11, <2>1, PlanKeeps
<1> QED
  BY <1>5, <1>10, <1>11

\* What is recorded of a tenant is true: "done" needs that it was brought there.
LEMMA OutcomeIsBacked ==
  ASSUME NEW p \in Operation, NEW R, Backed(p, R), p.pc \in {"lock", "apply"},
         NEW ok \in BOOLEAN, ok => <<p.run, p.tenant>> \in R
  PROVE  Outcome(p, ok) \in Operation /\ Backed(Outcome(p, ok), R) /\ Outcome(p, ok).pc = "delete"
<1> DEFINE q == Outcome(p, ok)
<1>1. q \in Operation
  BY DEF Outcome, Operation, Planned, Statuses
<1>2. /\ q.pc = "delete" /\ q.write = (IF ok THEN "done" ELSE "failed") /\ q.failed = (p.failed \/ ~ok)
      /\ q.left = p.left /\ q.targets = p.targets /\ q.cohort = p.cohort /\ q.run = p.run
      /\ q.stage = p.stage /\ q.done = p.done /\ q.evidence = p.evidence /\ q.tenant = p.tenant
  BY DEF Outcome, Operation
<1> HIDE DEF q
<1>3. SkipsReached(q, R) /\ EvidenceReached(q, R) /\ CohortReached(q, R)
  BY <1>2 DEF Backed, SkipsReached, EvidenceReached, CohortReached, Planned
<1>4. CanaryTargets(q)
  BY <1>2 DEF Backed, CanaryTargets, Planned
<1>5. TargetsReached(q, R)
  BY <1>2 DEF Backed, TargetsReached, Planned
<1>6. ReportsAll(q) /\ HasTenant(q)
  BY <1>2 DEF Backed, ReportsAll, HasTenant, Writing
<1>7. WritesTruth(q, R)
  BY <1>2 DEF WritesTruth, Writing
<1>8. q \in Operation /\ Backed(q, R) /\ q.pc = "delete"
  BY <1>1, <1>2, <1>3, <1>4, <1>5, <1>6, <1>7 DEF Backed
<1> QED
  BY <1>8 DEF q

\* The bounds of the workload stay numbers.
LEMMA SpendKeeps ==
  ASSUME workload \in Workload,
         NEW what \in {"stores", "deploys", "statuses", "byHand", "faults"}, Spend(what)
  PROVE  workload' \in Workload
<1>1. CASE what = "stores"
  BY <1>1 DEF Spend, Workload
<1>2. CASE what = "deploys"
  BY <1>2 DEF Spend, Workload
<1>3. CASE what = "statuses"
  BY <1>3 DEF Spend, Workload
<1>4. CASE what = "byHand"
  BY <1>4 DEF Spend, Workload
<1>5. CASE what = "faults"
  BY <1>5 DEF Spend, Workload
<1> QED
  BY <1>1, <1>2, <1>3, <1>4, <1>5

\* A step that moves an operator and the locks, and may add to the history.
LEMMA LockMoves ==
  ASSUME IInv, NEW o \in Operator, NEW q \in Operation, Goes(o, q), workload' \in Workload,
         UNCHANGED <<deployed, active, recorded, live, known, handmade, checkpoints>>,
         reached \subseteq reached', reached' \subseteq Version \X Tenant,
         lock' \in [Tenant -> Operator \cup {Nobody}],
         \A u \in Operator \ {o} : At(u, "apply") => lock'[op[u].tenant] = lock[op[u].tenant],
         Backed(q, reached'), HoldsTenant(o, q, lock', recorded)
  PROVE  IInv'
<1>1. op' = [op EXCEPT ![o] = q] /\ op \in [Operator -> Operation]
  BY DEF Goes, IInv, TypeOK
<1>2. op'[o] = q /\ (\A u \in Operator \ {o} : op'[u] = op[u]) /\ op' \in [Operator -> Operation]
  BY <1>1
<1>3. TypeOK'
  BY <1>2 DEF IInv, TypeOK
<1>4. Sound(o, op[o])'
  BY <1>2 DEF Sound
<1>5. CheckpointsTrue' /\ GapsTold'
  BY DEF IInv, CheckpointsTrue, GapsTold
<1> QED
  BY <1>2, <1>3, <1>4, <1>5, OneMoves

\* The lock of a tenant that nobody has is nobody's work.
LEMMA FreeLocks ==
  ASSUME IInv, NEW u \in Operator, At(u, "apply")
  PROVE  lock[op[u].tenant] = u /\ lock[op[u].tenant] # Nobody
  BY FleetAssumption DEF FleetAssumption, IInv, Sound, HoldsTenant, At

\* The lock is free, or the tenant has failed (migrate_scope).
LEMMA TakeLockKeeps ==
  ASSUME IInv, NEW o \in Operator, TakeLock(o)
  PROVE  IInv'
<1> DEFINE t == op[o].tenant
           T == {b \in Table : ~Same(recorded[t], Shape[op[o].run], ColumnsOf(b))}
           q == [op[o] EXCEPT !.pc = "apply", !.todo = T]
<1>1. op[o] \in Operation /\ Backed(op[o], reached) /\ op[o].pc = "lock" /\ t \in Tenant
  BY DEF IInv, TypeOK, Sound, Backed, HasTenant, TakeLock, At
<1>2. UNCHANGED <<deployed, active, recorded, live, known, handmade, checkpoints, reached, workload>>
  BY DEF TakeLock, schema, surroundings
<1>3. workload \in Workload /\ reached \subseteq Version \X Tenant
      /\ lock \in [Tenant -> Operator \cup {Nobody}]
  BY DEF IInv, TypeOK
<1>4. CASE UNCHANGED lock /\ Goes(o, Outcome(op[o], FALSE))
  <2>1. /\ Outcome(op[o], FALSE) \in Operation /\ Backed(Outcome(op[o], FALSE), reached)
        /\ Outcome(op[o], FALSE).pc = "delete"
    BY <1>1, OutcomeIsBacked
  <2>2. HoldsTenant(o, Outcome(op[o], FALSE), lock', recorded)
    BY <2>1 DEF HoldsTenant
  <2> QED
    BY <1>2, <1>3, <1>4, <2>1, <2>2, LockMoves
<1>5. CASE lock[t] = Nobody /\ lock' = [lock EXCEPT ![t] = o] /\ Goes(o, q)
  <2>1. T \in SUBSET Table
    OBVIOUS
  <2>2. \A c \in Column : TableOf[c] \in T \/ recorded[t][c] = Shape[op[o].run][c]
    BY FleetAssumption DEF FleetAssumption, Same, ColumnsOf
  <2> HIDE DEF T
  <2>3. q \in Operation
    BY <1>1, <2>1 DEF Operation, Planned
  <2>4. /\ q.pc = "apply" /\ q.todo = T /\ q.tenant = t /\ q.failed = op[o].failed
        /\ q.left = op[o].left /\ q.targets = op[o].targets /\ q.cohort = op[o].cohort
        /\ q.run = op[o].run /\ q.stage = op[o].stage /\ q.done = op[o].done
        /\ q.evidence = op[o].evidence
    BY <1>1 DEF Operation
  <2>5. Goes(o, q)
    BY <1>5
  <2> HIDE DEF q
  <2>6. SkipsReached(q, reached) /\ EvidenceReached(q, reached) /\ CohortReached(q, reached)
    BY <1>1, <2>4 DEF Backed, SkipsReached, EvidenceReached, CohortReached, Planned
  <2>7. CanaryTargets(q) /\ TargetsReached(q, reached)
    BY <1>1, <2>4 DEF Backed, CanaryTargets, TargetsReached, Planned
  <2>8. ReportsAll(q) /\ HasTenant(q) /\ WritesTruth(q, reached)
    BY <1>1, <2>4 DEF ReportsAll, HasTenant, WritesTruth, Writing
  <2>9. lock' \in [Tenant -> Operator \cup {Nobody}] /\ lock'[t] = o
        /\ \A u \in Tenant \ {t} : lock'[u] = lock[u]
    BY <1>1, <1>3, <1>5
  <2>10. HoldsTenant(o, q, lock', recorded)
    BY <2>2, <2>4, <2>9 DEF HoldsTenant
  <2>11. ASSUME NEW u \in Operator \ {o}, At(u, "apply")
         PROVE  lock'[op[u].tenant] = lock[op[u].tenant]
    <3>1. op[u].tenant # t
      BY <1>5, <2>11, FreeLocks
    <3>2. op[u].tenant \in Tenant
      BY <2>11 DEF IInv, Sound, Backed, HasTenant, At
    <3> QED
      BY <2>9, <3>1, <3>2
  <2> QED
    BY <1>2, <1>3, <2>3, <2>5, <2>6, <2>7, <2>8, <2>9, <2>10, <2>11, LockMoves DEF Backed
<1> QED
  BY <1>4, <1>5 DEF TakeLock

\* The tables of the tenant are through: if none failed, it is at the target.
LEMMA EndTenantKeeps ==
  ASSUME IInv, NEW o \in Operator, EndTenant(o)
  PROVE  IInv'
<1> DEFINE p == op[o]
           t == op[o].tenant
           ok == IsOk(op[o])
<1>1. p \in Operation /\ Backed(p, reached) /\ p.pc = "apply" /\ p.todo = {}
      /\ HoldsTenant(o, p, lock, recorded)
  BY DEF IInv, TypeOK, Sound, EndTenant, At
<1>2. t \in Tenant /\ p.run \in Version /\ ok \in BOOLEAN
  BY <1>1 DEF Backed, HasTenant, Operation, IsOk
<1>3. UNCHANGED <<deployed, active, recorded, live, known, handmade, checkpoints, workload>>
      /\ Goes(o, Outcome(p, ok)) /\ lock' = [lock EXCEPT ![t] = IF @ = o THEN Nobody ELSE @]
      /\ reached' = reached \cup {<<v, t>> : v \in {v \in {p.run} : recorded[t] = Shape[v]}}
  BY DEF EndTenant, schema, surroundings
<1>4. workload \in Workload /\ reached \subseteq Version \X Tenant
      /\ lock \in [Tenant -> Operator \cup {Nobody}]
      /\ recorded[t] \in Snapshot /\ Shape[p.run] \in Snapshot
  BY <1>2, FleetAssumption DEF FleetAssumption, IInv, TypeOK
<1>5. ok => recorded[t] = Shape[p.run]
  <2>1. ASSUME ok PROVE \A c \in Column : recorded[t][c] = Shape[p.run][c]
    BY <1>1, <2>1 DEF HoldsTenant, IsOk
  <2> QED
    BY <1>4, <2>1 DEF Snapshot
<1>6. reached \subseteq reached' /\ reached' \subseteq Version \X Tenant
      /\ (ok => <<p.run, t>> \in reached')
  BY <1>2, <1>3, <1>4, <1>5
<1>7. Backed(p, reached')
  BY <1>1, <1>6, StaysBacked
<1>8. /\ Outcome(p, ok) \in Operation /\ Backed(Outcome(p, ok), reached')
      /\ Outcome(p, ok).pc = "delete"
  BY <1>1, <1>2, <1>6, <1>7, OutcomeIsBacked
<1>9. lock' \in [Tenant -> Operator \cup {Nobody}] /\ \A u \in Tenant \ {t} : lock'[u] = lock[u]
  BY <1>2, <1>3, <1>4
<1>10. ASSUME NEW u \in Operator \ {o}, At(u, "apply")
       PROVE  lock'[op[u].tenant] = lock[op[u].tenant]
  <2>1. op[u].tenant # t
    BY <1>1, <1>10, FreeLocks DEF At
  <2>2. op[u].tenant \in Tenant
    BY <1>10 DEF IInv, Sound, Backed, HasTenant, At
  <2> QED
    BY <1>9, <2>1, <2>2
<1>11. HoldsTenant(o, Outcome(p, ok), lock', recorded)
  BY <1>8 DEF HoldsTenant
<1> QED
  BY <1>3, <1>4, <1>6, <1>8, <1>9, <1>10, <1>11, LockMoves

-----------------------------------------------------------------------------
(* The tables of a tenant.                                                  *)

Recording(H, N, cols) == [c \in Column |-> IF c \in cols THEN N[c] ELSE H[c]]

\* What a hand has written and the statements leave alone.
Untouched(M, H, N, cols) == M \ {c \in cols : H[c] # N[c]}

\* The statements of one table and its history row together keep that (apply_resource).
LEMMA AppliedTells ==
  ASSUME NEW L, NEW H, NEW K, NEW M, NEW N, NEW b, Tells(L, H, K, M)
  PROVE  Tells(Applied(L, H, N, ColumnsOf(b)), Recording(H, N, ColumnsOf(b)), K \cup {b},
               Untouched(M, H, N, ColumnsOf(b)))
<1> DEFINE cols == ColumnsOf(b)
           L2 == Applied(L, H, N, cols)
           H2 == Recording(H, N, cols)
           M2 == Untouched(M, H, N, cols)
<1>1. ASSUME NEW c \in Column
      PROVE  /\ L2[c] # H2[c] => L2[c] = NoField \/ c \in M2
             /\ H2[c] # NoField => TableOf[c] \in K \cup {b}
  <2>1. H2[c] = IF c \in cols THEN N[c] ELSE H[c]
    BY DEF Recording
  <2>2. L2[c] = CASE c \in Creates(H, N, cols) \cup Alters(H, N, cols) -> N[c]
                  [] c \in Drops(H, N, cols) -> NoField
                  [] OTHER -> L[c]
    BY DEF Applied
  <2>3. /\ L[c] # H[c] => L[c] = NoField \/ c \in M
        /\ H[c] # NoField => TableOf[c] \in K
    BY DEF Tells
  <2>4. c \in M2 <=> c \in M /\ ~(c \in cols /\ H[c] # N[c])
    BY DEF Untouched
  <2>5. c \in cols => TableOf[c] = b
    BY DEF ColumnsOf
  <2> HIDE DEF L2, H2, M2, cols
  <2>6. CASE c \notin cols
    BY <2>1, <2>2, <2>3, <2>4, <2>6 DEF Creates, Alters, Drops
  <2>7. CASE c \in cols /\ H[c] # N[c]
    BY <2>1, <2>2, <2>5, <2>7 DEF Creates, Alters, Drops
  <2>8. CASE c \in cols /\ H[c] = N[c]
    BY <2>1, <2>2, <2>3, <2>4, <2>8 DEF Creates, Alters, Drops
  <2> QED
    BY <2>6, <2>7, <2>8
<1> HIDE DEF L2, H2, M2
<1>2. Tells(L2, H2, K \cup {b}, M2)
  BY <1>1 DEF Tells
<1> QED
  BY <1>2 DEF L2, H2, M2

\* A table that is applied stays a snapshot.
LEMMA AppliedIsSnapshot ==
  ASSUME NEW L \in Snapshot, NEW H \in Snapshot, NEW N \in Snapshot, NEW cols
  PROVE  /\ Applied(L, H, N, cols) \in Snapshot
         /\ Recording(H, N, cols) \in Snapshot
<1>1. ASSUME NEW c \in Column PROVE Applied(L, H, N, cols)[c] \in {N[c], NoField, L[c]}
  BY DEF Applied
<1>2. Applied(L, H, N, cols) = [c \in Column |-> Applied(L, H, N, cols)[c]]
  BY DEF Applied
<1>3. \A c \in Column : {N[c], NoField, L[c]} \subseteq Definition \cup {NoField}
  BY DEF Snapshot
<1>4. Applied(L, H, N, cols) \in Snapshot
  BY <1>1, <1>2, <1>3 DEF Snapshot
<1> QED
  BY <1>4 DEF Snapshot, Recording

\* A table is refused, applied, fails, or is applied and its answer lost; unless the
\* tenant fails with it, it is applied.
LEMMA TableKeeps ==
  ASSUME IInv, NEW o \in Operator, At(o, "apply"), NEW b \in Table, NEW ok \in BOOLEAN,
         Goes(o, [op[o] EXCEPT !.todo = @ \ {b}, !.ok = ok]),
         Applies(o, b) \/ UNCHANGED schema,
         ok => op[o].ok /\ Applies(o, b),
         workload' \in Workload, UNCHANGED <<deployed, active, checkpoints, lock, reached>>
  PROVE  IInv'
<1> DEFINE p == op[o]
           t == op[o].tenant
           q == [op[o] EXCEPT !.todo = @ \ {b}, !.ok = ok]
           N == Shape[op[o].run]
           H2 == Recording(recorded[t], N, ColumnsOf(b))
           L2 == Applied(live[t], recorded[t], N, ColumnsOf(b))
           K2 == known[t] \cup {b}
           M2 == Untouched(handmade[t], recorded[t], N, ColumnsOf(b))
<1>1. p \in Operation /\ Backed(p, reached) /\ HoldsTenant(o, p, lock, recorded) /\ p.pc = "apply"
  BY DEF IInv, TypeOK, Sound, At
<1>2. t \in Tenant /\ p.run \in Version
  BY <1>1 DEF Backed, HasTenant, Operation
<1>3. /\ recorded \in [Tenant -> Snapshot] /\ live \in [Tenant -> Snapshot] /\ N \in Snapshot
      /\ op \in [Operator -> Operation]
      /\ known \in [Tenant -> SUBSET Table] /\ handmade \in [Tenant -> SUBSET Column]
  BY <1>2, FleetAssumption DEF FleetAssumption, IInv, TypeOK
<1>4. /\ recorded[t] \in Snapshot /\ live[t] \in Snapshot /\ H2 \in Snapshot /\ L2 \in Snapshot
      /\ K2 \in SUBSET Table /\ M2 \in SUBSET Column
      /\ Tells(L2, H2, K2, M2)
  <2>1. recorded[t] \in Snapshot /\ live[t] \in Snapshot
    BY <1>2, <1>3
  <2>2. Tells(live[t], recorded[t], known[t], handmade[t])
    BY <1>2 DEF IInv, GapsTold
  <2>3. Tells(L2, H2, K2, M2)
    BY <2>2, AppliedTells
  <2>4. L2 \in Snapshot /\ H2 \in Snapshot
    BY <1>3, <2>1, AppliedIsSnapshot
  <2>5. K2 \in SUBSET Table /\ M2 \in SUBSET Column
    BY <1>2, <1>3 DEF Untouched
  <2> QED
    BY <2>1, <2>3, <2>4, <2>5
<1>5. Applies(o, b) =>
        /\ live' = [live EXCEPT ![t] = L2] /\ recorded' = [recorded EXCEPT ![t] = H2]
        /\ known' = [known EXCEPT ![t] = K2] /\ handmade' = [handmade EXCEPT ![t] = M2]
  BY DEF Applies, Recording, Untouched
<1> HIDE DEF L2, H2, K2, M2
<1>6. \/ UNCHANGED <<recorded, live, known, handmade>>
      \/ /\ live' = [live EXCEPT ![t] = L2] /\ recorded' = [recorded EXCEPT ![t] = H2]
         /\ known' = [known EXCEPT ![t] = K2] /\ handmade' = [handmade EXCEPT ![t] = M2]
  BY <1>5 DEF schema
<1>7. /\ live' \in [Tenant -> Snapshot] /\ recorded' \in [Tenant -> Snapshot]
      /\ known' \in [Tenant -> SUBSET Table] /\ handmade' \in [Tenant -> SUBSET Column]
      /\ \A u \in Tenant \ {t} : recorded'[u] = recorded[u]
  BY <1>2, <1>3, <1>4, <1>6
<1>8. GapsTold'
  <2>1. ASSUME NEW u \in Tenant PROVE Tells(live'[u], recorded'[u], known'[u], handmade'[u])
    <3>1. Tells(live[u], recorded[u], known[u], handmade[u])
      BY DEF IInv, GapsTold
    <3>2. \/ /\ live'[u] = live[u] /\ recorded'[u] = recorded[u]
             /\ known'[u] = known[u] /\ handmade'[u] = handmade[u]
          \/ live'[u] = L2 /\ recorded'[u] = H2 /\ known'[u] = K2 /\ handmade'[u] = M2
      BY <1>2, <1>3, <1>6
    <3> QED
      BY <1>4, <3>1, <3>2
  <2> QED
    BY <2>1 DEF GapsTold
<1>9. q \in Operation
  BY <1>1 DEF Operation
<1>10. /\ q.pc = "apply" /\ q.todo = p.todo \ {b} /\ q.ok = ok /\ q.tenant = t
       /\ q.failed = p.failed /\ q.left = p.left /\ q.targets = p.targets /\ q.cohort = p.cohort
       /\ q.run = p.run /\ q.stage = p.stage /\ q.done = p.done /\ q.evidence = p.evidence
  BY <1>1 DEF Operation
<1>11. op' = [op EXCEPT ![o] = q]
  BY DEF Goes
<1> HIDE DEF q
<1>12. op'[o] = q /\ (\A u \in Operator \ {o} : op'[u] = op[u]) /\ op' \in [Operator -> Operation]
  BY <1>3, <1>9, <1>11
<1>13. Backed(q, reached)
  BY <1>1, <1>10 DEF Backed, SkipsReached, EvidenceReached, CohortReached, CanaryTargets,
                     TargetsReached, ReportsAll, HasTenant, WritesTruth, Planned, Writing
<1>14. HoldsTenant(o, q, lock, recorded')
  <2>1. ASSUME ok, NEW c \in Column PROVE TableOf[c] \in q.todo \/ recorded'[t][c] = N[c]
    <3>1. recorded' = [recorded EXCEPT ![t] = H2]
      BY <1>5, <2>1
    <3>2. recorded'[t][c] = IF c \in ColumnsOf(b) THEN N[c] ELSE recorded[t][c]
      BY <1>2, <1>3, <3>1 DEF H2, Recording
    <3>3. TableOf[c] \in p.todo \/ recorded[t][c] = N[c]
      BY <1>1, <2>1 DEF HoldsTenant
    <3> QED
      BY <1>10, <3>2, <3>3 DEF ColumnsOf
  <2> QED
    BY <1>1, <1>10, <2>1 DEF HoldsTenant
<1>15. Sound(o, op[o])'
  BY <1>12, <1>13, <1>14 DEF Sound
<1>16. ASSUME NEW u \in Operator \ {o}, At(u, "apply")
       PROVE  recorded'[op[u].tenant] = recorded[op[u].tenant]
  <2>1. op[u].tenant # t
    BY <1>1, <1>16, FreeLocks DEF At
  <2>2. op[u].tenant \in Tenant
    BY <1>16 DEF IInv, Sound, Backed, HasTenant, At
  <2> QED
    BY <1>7, <2>1, <2>2
<1>17. TypeOK' /\ CheckpointsTrue'
  BY <1>7, <1>12 DEF IInv, TypeOK, CheckpointsTrue
<1> QED
  BY <1>8, <1>12, <1>15, <1>16, <1>17, OneMoves

\* The steps at a table.
LEMMA RefuseTableKeeps ==
  ASSUME IInv, NEW o \in Operator, NEW b \in Table, RefuseTable(o, b)
  PROVE  IInv'
<1>1. workload' \in Workload
  BY DEF RefuseTable, MovesOnly, surroundings, IInv, TypeOK
<1> QED
  BY <1>1, TableKeeps DEF RefuseTable, MovesOnly, surroundings, schema

LEMMA ApplyTableKeeps ==
  ASSUME IInv, NEW o \in Operator, NEW b \in Table, ApplyTable(o, b)
  PROVE  IInv'
<1>1. workload' \in Workload /\ op[o] \in Operation
  BY DEF ApplyTable, surroundings, IInv, TypeOK
<1>2. [op[o] EXCEPT !.todo = @ \ {b}] = [op[o] EXCEPT !.todo = @ \ {b}, !.ok = op[o].ok]
  BY <1>1 DEF Operation
<1>3. op[o].ok \in BOOLEAN
  BY <1>1 DEF Operation
<1> QED
  BY <1>1, <1>2, <1>3, TableKeeps DEF ApplyTable, surroundings

LEMMA ApplyFailsKeeps ==
  ASSUME IInv, NEW o \in Operator, NEW b \in Table, ApplyFails(o, b)
  PROVE  IInv'
<1>1. workload' \in Workload
  BY SpendKeeps DEF ApplyFails, IInv, TypeOK
<1> QED
  BY <1>1, TableKeeps DEF ApplyFails

-----------------------------------------------------------------------------
(* Checkpoints, and the end of a run.                                       *)

\* A step that moves an operator and the checkpoints: a row that is new says what
\* the operator was to write.
LEMMA CheckpointMoves ==
  ASSUME IInv, NEW o \in Operator, NEW q \in Operation, Goes(o, q), q.pc # "apply",
         Backed(q, reached), workload' \in Workload,
         UNCHANGED <<deployed, active, recorded, live, known, handmade, lock, reached>>,
         \/ checkpoints' \subseteq checkpoints
         \/ op[o].pc = "create" /\ checkpoints' = checkpoints \cup {Row(op[o])}
  PROVE  IInv'
<1> DEFINE p == op[o]
           r == Row(op[o])
<1>1. p \in Operation /\ Backed(p, reached) /\ checkpoints \subseteq Rows
  BY DEF IInv, TypeOK, Sound
<1>2. p.pc = "create" => r \in Rows /\ (r.status # "failed" => \A t \in r.key.of : <<r.run, t>> \in reached)
  <2>1. CASE p.write = "canary_done"
    <3>1. r = [run |-> p.run, key |-> [cohort |-> TRUE, of |-> p.cohort], status |-> p.write]
      BY <2>1 DEF Row, Key, CohortKey
    <3>2. r \in Rows
      BY <1>1, <3>1 DEF Rows, Keys, Operation
    <3>3. p.pc = "create" => \A t \in p.cohort : <<p.run, t>> \in reached
      BY <1>1, <2>1 DEF Backed, WritesTruth, CanaryTargets, TargetsReached, Writing, Planned
    <3> QED
      BY <3>1, <3>2, <3>3
  <2>2. CASE p.write # "canary_done"
    <3>1. r = [run |-> p.run, key |-> [cohort |-> FALSE, of |-> {p.tenant}], status |-> p.write]
      BY <2>2 DEF Row, Key, TenantKey
    <3>2. p.pc = "create" => p.tenant \in Tenant
      BY <1>1, <2>2 DEF Backed, HasTenant, Writing
    <3>3. p.pc = "create" => r \in Rows
      BY <1>1, <3>1, <3>2 DEF Rows, Keys, Operation
    <3>4. p.pc = "create" /\ p.write # "failed" => <<p.run, p.tenant>> \in reached
      BY <1>1, <2>2 DEF Backed, WritesTruth, Writing, Operation, Statuses
    <3> QED
      BY <3>1, <3>3, <3>4
  <2> QED
    BY <2>1, <2>2
<1> HIDE DEF r
<1>3. checkpoints' \subseteq Rows /\ CheckpointsTrue'
  <2>1. checkpoints' \subseteq checkpoints \/ (p.pc = "create" /\ checkpoints' = checkpoints \cup {r})
    BY DEF r
  <2>2. \A c \in checkpoints : c.status # "failed" => \A t \in c.key.of : <<c.run, t>> \in reached
    BY DEF IInv, CheckpointsTrue
  <2> QED
    BY <1>1, <1>2, <2>1, <2>2 DEF CheckpointsTrue
<1>4. op' = [op EXCEPT ![o] = q] /\ op \in [Operator -> Operation]
  BY DEF Goes, IInv, TypeOK
<1>5. op'[o] = q /\ (\A u \in Operator \ {o} : op'[u] = op[u]) /\ op' \in [Operator -> Operation]
  BY <1>4
<1>6. TypeOK'
  BY <1>3, <1>5 DEF IInv, TypeOK
<1>7. Sound(o, op[o])'
  BY <1>5 DEF Sound, HoldsTenant
<1>8. GapsTold'
  BY DEF IInv, GapsTold
<1> QED
  BY <1>3, <1>5, <1>6, <1>7, <1>8, OneMoves

\* Where the run goes on after a checkpoint, its record stays backed.
LEMMA RecordedIsBacked ==
  ASSUME NEW p \in Operation, NEW R, Backed(p, R), p.pc \in Writing, NEW unsure \in BOOLEAN
  PROVE  /\ [Recorded(p) EXCEPT !.unsure = unsure] \in Operation
         /\ Backed([Recorded(p) EXCEPT !.unsure = unsure], R)
         /\ [Recorded(p) EXCEPT !.unsure = unsure].pc # "apply"
<1> DEFINE q == [Recorded(p) EXCEPT !.unsure = unsure]
<1>1. q \in Operation
  BY DEF Recorded, Operation, Planned
<1>2. /\ q.pc = (IF p.write = "canary_done" THEN "report" ELSE "next") /\ q.failed = p.failed
      /\ q.left = p.left /\ q.targets = p.targets /\ q.cohort = p.cohort /\ q.run = p.run
      /\ q.stage = p.stage /\ q.done = p.done /\ q.evidence = p.evidence
  BY DEF Recorded, Operation
<1> HIDE DEF q
<1>3. SkipsReached(q, R) /\ EvidenceReached(q, R) /\ CohortReached(q, R)
  BY <1>2 DEF Backed, SkipsReached, EvidenceReached, CohortReached, Planned, Writing
<1>4. CanaryTargets(q) /\ TargetsReached(q, R)
  BY <1>2 DEF Backed, CanaryTargets, TargetsReached, Planned, Writing
<1>5. ReportsAll(q)
  BY <1>2 DEF Backed, ReportsAll, WritesTruth
<1>6. HasTenant(q) /\ WritesTruth(q, R) /\ q.pc # "apply"
  BY <1>2 DEF HasTenant, WritesTruth, Writing
<1>7. q \in Operation /\ Backed(q, R) /\ q.pc # "apply"
  BY <1>1, <1>3, <1>4, <1>5, <1>6 DEF Backed
<1> QED
  BY <1>7 DEF q

\* record_checkpoint: DELETE.
LEMMA DeleteRowKeeps ==
  ASSUME IInv, NEW o \in Operator, DeleteRow(o)
  PROVE  IInv'
<1> DEFINE q == [op[o] EXCEPT !.pc = "create"]
<1>1. op[o] \in Operation /\ Backed(op[o], reached) /\ op[o].pc = "delete"
  BY DEF IInv, TypeOK, Sound, DeleteRow, At
<1>2. q \in Operation
  BY <1>1 DEF Operation, Planned
<1>3. /\ q.pc = "create" /\ q.failed = op[o].failed /\ q.write = op[o].write
      /\ q.left = op[o].left /\ q.targets = op[o].targets /\ q.cohort = op[o].cohort
      /\ q.run = op[o].run /\ q.stage = op[o].stage /\ q.done = op[o].done
      /\ q.evidence = op[o].evidence /\ q.tenant = op[o].tenant
  BY <1>1 DEF Operation
<1>4. Goes(o, q) /\ checkpoints' \subseteq checkpoints
      /\ UNCHANGED <<deployed, active, recorded, live, known, handmade, lock, reached, workload>>
  BY DEF DeleteRow, Without, schema, surroundings
<1> HIDE DEF q
<1>5. Backed(q, reached)
  BY <1>1, <1>3 DEF Backed, SkipsReached, EvidenceReached, CohortReached, CanaryTargets,
                    TargetsReached, ReportsAll, HasTenant, WritesTruth, Planned, Writing
<1>6. workload' \in Workload
  BY <1>4 DEF IInv, TypeOK
<1> QED
  BY <1>2, <1>3, <1>4, <1>5, <1>6, CheckpointMoves

\* record_checkpoint: CREATE.
LEMMA CreateRowKeeps ==
  ASSUME IInv, NEW o \in Operator, CreateRow(o)
  PROVE  IInv'
<1>1. op[o] \in Operation /\ Backed(op[o], reached) /\ op[o].pc = "create"
      /\ op[o].unsure \in BOOLEAN
  BY DEF IInv, TypeOK, Sound, CreateRow, At, Operation
<1>2. Recorded(op[o]) = [Recorded(op[o]) EXCEPT !.unsure = op[o].unsure]
  BY <1>1 DEF Recorded, Operation
<1>3. UNCHANGED <<deployed, active, recorded, live, known, handmade, lock, reached, workload>>
  BY DEF CreateRow, schema, surroundings
<1>4. workload' \in Workload
  BY <1>3 DEF IInv, TypeOK
<1>5. /\ Recorded(op[o]) \in Operation /\ Backed(Recorded(op[o]), reached)
      /\ Recorded(op[o]).pc # "apply"
  BY <1>1, <1>2, RecordedIsBacked DEF Writing
<1> QED
  BY <1>1, <1>3, <1>4, <1>5, CheckpointMoves DEF CreateRow

\* The checkpoint is lost, or its answer.
LEMMA RecordFailsKeeps ==
  ASSUME IInv, NEW o \in Operator, RecordFails(o)
  PROVE  IInv'
<1> DEFINE q == [Recorded(op[o]) EXCEPT !.unsure = op[o].unsure \/ op[o].write # "failed"]
<1>1. op[o] \in Operation /\ Backed(op[o], reached) /\ op[o].pc \in Writing
      /\ workload \in Workload
  BY DEF IInv, TypeOK, Sound, RecordFails, At, Writing
<1>2. [Recorded(op[o]) EXCEPT !.unsure = @ \/ op[o].write # "failed"] = q
  BY <1>1 DEF Recorded, Operation
<1>3. q \in Operation /\ Backed(q, reached) /\ q.pc # "apply"
  BY <1>1, RecordedIsBacked DEF Operation
<1>4. workload' \in Workload
  BY <1>1, SpendKeeps DEF RecordFails
<1>5. Goes(o, q)
  BY <1>2 DEF RecordFails
<1> HIDE DEF q
<1>6. UNCHANGED <<deployed, active, recorded, live, known, handmade, lock, reached>>
  BY DEF RecordFails, schema
<1>7. \/ checkpoints' \subseteq checkpoints
      \/ op[o].pc = "create" /\ checkpoints' = checkpoints \cup {Row(op[o])}
  BY DEF RecordFails, At
<1> QED
  BY <1>3, <1>4, <1>5, <1>6, <1>7, CheckpointMoves

\* The loop is over: a canary stage without a failure goes on to record its cohort.
LEMMA FinishKeeps ==
  ASSUME IInv, NEW o \in Operator, Finish(o)
  PROVE  IInv'
<1> DEFINE q1 == [op[o] EXCEPT !.pc = "delete", !.write = "canary_done"]
           q2 == [op[o] EXCEPT !.pc = "report"]
<1>1. op[o] \in Operation /\ Backed(op[o], reached) /\ op[o].pc = "next" /\ MovesOnly(o)
      /\ (op[o].left = {} \/ Halted(op[o]))
  BY DEF IInv, TypeOK, Sound, Finish, At
<1>2. \/ op[o].stage = "canary" /\ IsPromotable(op[o]) /\ Goes(o, q1)
      \/ Goes(o, q2)
  BY DEF Finish
<1>3. q1 \in Operation /\ q2 \in Operation
  BY <1>1 DEF Operation, Planned, Statuses
<1>4. ASSUME NEW q \in {q1, q2}
      PROVE  /\ q.left = op[o].left /\ q.targets = op[o].targets /\ q.cohort = op[o].cohort
             /\ q.run = op[o].run /\ q.stage = op[o].stage /\ q.done = op[o].done
             /\ q.evidence = op[o].evidence /\ q.failed = op[o].failed
  <2>1. CASE q = q1
    BY <1>1, <2>1 DEF Operation
  <2>2. CASE q = q2
    BY <1>1, <2>2 DEF Operation
  <2> QED
    BY <2>1, <2>2
<1>5. q1.pc = "delete" /\ q2.pc = "report" /\ q1.write = "canary_done"
  BY <1>1 DEF Operation
<1> HIDE DEF q1, q2
<1>6. ASSUME NEW q \in {q1, q2},
             q = q1 => op[o].stage = "canary" /\ IsPromotable(op[o])
      PROVE  Sound(o, q)
  <2>1. SkipsReached(q, reached) /\ EvidenceReached(q, reached) /\ CohortReached(q, reached)
    BY <1>1, <1>4, <1>5 DEF Backed, SkipsReached, EvidenceReached, CohortReached, Planned
  <2>2. CanaryTargets(q) /\ TargetsReached(q, reached)
    BY <1>1, <1>4, <1>5 DEF Backed, CanaryTargets, TargetsReached, Planned
  <2>3. ReportsAll(q)
    BY <1>1, <1>4, <1>5 DEF ReportsAll, Halted
  <2>4. WritesTruth(q, reached)
    BY <1>1, <1>4, <1>5, <1>6 DEF WritesTruth, Writing, Halted, IsPromotable
  <2>5. HasTenant(q) /\ HoldsTenant(o, q, lock, recorded)
    BY <1>5 DEF HasTenant, HoldsTenant, Writing
  <2> QED
    BY <2>1, <2>2, <2>3, <2>4, <2>5 DEF Sound, Backed
<1>7. CASE op[o].stage = "canary" /\ IsPromotable(op[o]) /\ Goes(o, q1)
  <2>1. Sound(o, q1)
    BY <1>6, <1>7
  <2> QED
    BY <1>1, <1>3, <1>7, <2>1, PlanKeeps
<1>8. CASE Goes(o, q2)
  <2>1. Sound(o, q2)
    BY <1>5, <1>6
  <2> QED
    BY <1>1, <1>3, <1>8, <2>1, PlanKeeps
<1> QED
  BY <1>2, <1>7, <1>8

\* The caller has the report.
LEMMA ReportKeeps == ASSUME IInv, NEW o \in Operator, Report(o) PROVE IInv'
  BY IdleRecord, IdleIsSound, PlanKeeps DEF Report

-----------------------------------------------------------------------------
(* Faults and surroundings.                                                 *)

\* An operator that is gone, or whose plan failed, holds nothing.
LEMMA BecomesIdle ==
  ASSUME IInv, NEW o \in Operator, Goes(o, Idle), workload' \in Workload,
         UNCHANGED <<deployed, active, recorded, live, known, handmade, checkpoints, lock, reached>>
  PROVE  IInv'
<1>1. Idle \in Operation /\ Backed(Idle, reached) /\ HoldsTenant(o, Idle, lock, recorded)
  BY IdleRecord, IdleIsSound DEF Sound
<1>2. reached \subseteq Version \X Tenant /\ lock \in [Tenant -> Operator \cup {Nobody}]
  BY DEF IInv, TypeOK
<1> QED
  BY <1>1, <1>2, LockMoves

LEMMA CrashKeeps == ASSUME IInv, NEW o \in Operator, Crash(o) PROVE IInv'
<1>1. workload' \in Workload
  BY SpendKeeps DEF Crash, IInv, TypeOK
<1> QED
  BY <1>1, BecomesIdle DEF Crash, schema

\* A read fails; at a tenant its lock may have been created.
LEMMA ReadFailsKeeps == ASSUME IInv, NEW o \in Operator, ReadFails(o) PROVE IInv'
<1>1. workload' \in Workload
  BY SpendKeeps DEF ReadFails, IInv, TypeOK
<1>2. UNCHANGED <<deployed, active, recorded, live, known, handmade, checkpoints, reached>>
  BY DEF ReadFails, schema
<1>3. CASE Goes(o, Idle) /\ UNCHANGED lock
  BY <1>1, <1>2, <1>3, BecomesIdle
<1>4. CASE At(o, "lock") /\ Goes(o, Outcome(op[o], FALSE))
           /\ \/ UNCHANGED lock
              \/ lock[op[o].tenant] = Nobody /\ lock' = [lock EXCEPT ![op[o].tenant] = o]
  <2> DEFINE t == op[o].tenant
  <2>1. op[o] \in Operation /\ Backed(op[o], reached) /\ op[o].pc = "lock" /\ t \in Tenant
    BY <1>4 DEF IInv, TypeOK, Sound, Backed, HasTenant, At
  <2>2. reached \subseteq Version \X Tenant /\ lock \in [Tenant -> Operator \cup {Nobody}]
    BY DEF IInv, TypeOK
  <2>3. /\ Outcome(op[o], FALSE) \in Operation /\ Backed(Outcome(op[o], FALSE), reached)
        /\ Outcome(op[o], FALSE).pc = "delete"
    BY <2>1, OutcomeIsBacked
  <2>4. HoldsTenant(o, Outcome(op[o], FALSE), lock', recorded)
    BY <2>3 DEF HoldsTenant
  <2>5. lock' \in [Tenant -> Operator \cup {Nobody}] /\ \A u \in Tenant : lock'[u] = lock[u] \/ lock[u] = Nobody
    BY <1>4, <2>1, <2>2
  <2>6. ASSUME NEW u \in Operator \ {o}, At(u, "apply")
        PROVE  lock'[op[u].tenant] = lock[op[u].tenant]
    <3>1. op[u].tenant \in Tenant
      BY <2>6 DEF IInv, Sound, Backed, HasTenant, At
    <3> QED
      BY <2>5, <2>6, <3>1, FreeLocks
  <2> QED
    BY <1>1, <1>2, <1>4, <2>2, <2>3, <2>4, <2>5, <2>6, LockMoves
<1> QED
  BY <1>3, <1>4 DEF ReadFails

\* Around the operators: nothing they rely on changes.
LEMMA AroundKeeps ==
  ASSUME IInv, TypeOK', GapsTold', UNCHANGED <<checkpoints, op, reached, recorded>>,
         \A u \in Operator : At(u, "apply") => lock'[op[u].tenant] = lock[op[u].tenant]
  PROVE  IInv'
<1>1. ASSUME NEW u \in Operator PROVE Sound(u, op[u])'
  BY DEF IInv, Sound, HoldsTenant, At
<1> QED
  BY <1>1 DEF IInv, CheckpointsTrue

LEMMA StaleKeeps == ASSUME IInv, NEW t \in Tenant, LockGrowsStale(t) PROVE IInv'
<1>1. lock' = [lock EXCEPT ![t] = Nobody] /\ lock \in [Tenant -> Operator \cup {Nobody}]
  BY DEF LockGrowsStale, IInv, TypeOK
<1>2. UNCHANGED <<deployed, active, recorded, live, known, handmade, checkpoints, op, reached, workload>>
  BY DEF LockGrowsStale, schema, surroundings
<1>3. TypeOK' /\ GapsTold'
  BY <1>1, <1>2 DEF IInv, TypeOK, GapsTold
<1>4. ASSUME NEW u \in Operator, At(u, "apply") PROVE lock'[op[u].tenant] = lock[op[u].tenant]
  <2>1. op[u].tenant \in Tenant /\ lock[op[u].tenant] = u
    BY <1>4, FreeLocks DEF IInv, Sound, Backed, HasTenant, At
  <2>2. op[u].tenant # t
    BY <1>4, <2>1 DEF LockGrowsStale
  <2> QED
    BY <1>1, <2>1, <2>2
<1> QED
  BY <1>2, <1>3, <1>4, AroundKeeps

\* DDL by hand writes one field, or removes it.
LEMMA ByHandKeeps ==
  ASSUME IInv, NEW t \in Tenant, NEW c \in Column, NEW def \in Definitions, ChangeByHand(t, c, def)
  PROVE  IInv'
<1> DEFINE M2 == IF def = NoField THEN handmade[t] \ {c} ELSE handmade[t] \cup {c}
<1>1. workload' \in Workload
  BY SpendKeeps DEF ChangeByHand, IInv, TypeOK
<1>2. live' = [live EXCEPT ![t][c] = def] /\ live \in [Tenant -> Snapshot]
      /\ handmade' = [handmade EXCEPT ![t] = M2] /\ handmade \in [Tenant -> SUBSET Column]
      /\ UNCHANGED <<deployed, active, row, recorded, known, checkpoints, lock, op, reached>>
  BY DEF ChangeByHand, IInv, TypeOK
<1>3. def \in Definition \cup {NoField}
  BY FleetAssumption DEF FleetAssumption, Definitions, Snapshot
<1>4. live' \in [Tenant -> Snapshot]
  BY <1>2, <1>3 DEF Snapshot
<1>5. M2 \in SUBSET Column
  BY <1>2
<1>6. def # NoField => c \in M2
  OBVIOUS
<1>7. \A d \in Column : d # c /\ d \in handmade[t] => d \in M2
  OBVIOUS
<1> HIDE DEF M2
<1>8. handmade' \in [Tenant -> SUBSET Column]
  BY <1>2, <1>5
<1>9. GapsTold'
  <2>1. ASSUME NEW u \in Tenant PROVE Tells(live'[u], recorded[u], known[u], handmade'[u])
    <3>1. Tells(live[u], recorded[u], known[u], handmade[u])
      BY DEF IInv, GapsTold
    <3>2. \A d \in Column : live'[u][d] = IF u = t /\ d = c THEN def ELSE live[u][d]
      BY <1>2 DEF Snapshot
    <3>3. handmade'[u] = IF u = t THEN M2 ELSE handmade[u]
      BY <1>2
    <3> QED
      BY <1>6, <1>7, <3>1, <3>2, <3>3 DEF Tells
  <2> QED
    BY <1>2, <2>1 DEF GapsTold
<1>10. TypeOK'
  BY <1>1, <1>2, <1>4, <1>8 DEF IInv, TypeOK
<1> QED
  BY <1>2, <1>9, <1>10, AroundKeeps

\* Deployments, statuses and documents.
LEMMA QuietKeeps ==
  ASSUME IInv, workload' \in Workload, deployed' \in Version, active' \subseteq Tenant,
         UNCHANGED <<recorded, live, known, handmade, checkpoints, lock, op, reached>>
  PROVE  IInv'
<1>1. TypeOK' /\ GapsTold'
  BY DEF IInv, TypeOK, GapsTold
<1> QED
  BY <1>1, AroundKeeps

LEMMA SurroundingsKeep ==
  ASSUME IInv,
         \/ \E v \in Version : Deploy(v)
         \/ \E t \in Tenant : SetStatus(t)
         \/ \E t \in Tenant, c \in Column, value \in workload.values : StoreValue(t, c, value)
  PROVE  IInv'
<1>1. workload \in Workload /\ deployed \in Version /\ active \subseteq Tenant
  BY DEF IInv, TypeOK
<1>2. ASSUME NEW v \in Version, Deploy(v) PROVE IInv'
  <2>1. workload' \in Workload
    BY <1>1, <1>2, SpendKeeps DEF Deploy
  <2> QED
    BY <1>1, <1>2, <2>1, QuietKeeps DEF Deploy, schema
<1>3. ASSUME NEW t \in Tenant, SetStatus(t) PROVE IInv'
  <2>1. workload' \in Workload /\ active' \subseteq Tenant
    BY <1>1, <1>3, SpendKeeps DEF SetStatus
  <2> QED
    BY <1>1, <1>3, <2>1, QuietKeeps DEF SetStatus, schema
<1>4. ASSUME NEW t \in Tenant, NEW c \in Column, NEW value, StoreValue(t, c, value) PROVE IInv'
  <2>1. workload' \in Workload
    BY <1>1, <1>4, SpendKeeps DEF StoreValue
  <2> QED
    BY <1>1, <1>4, <2>1, QuietKeeps DEF StoreValue, schema
<1> QED
  BY <1>2, <1>3, <1>4

-----------------------------------------------------------------------------
(* The invariant.                                                           *)

\* A deployment that has run version 1 for a while.
LEMMA InitHolds == Init => IInv
<1> SUFFICES ASSUME Init PROVE IInv
  OBVIOUS
<1>1. workload \in Workload
  BY FleetAssumption DEF FleetAssumption, Init, Workload
<1>2. Shape[1] \in Snapshot
  BY FleetAssumption DEF FleetAssumption
<1>3. recorded \in [Tenant -> Snapshot] /\ live = recorded
  BY <1>2 DEF Init, Snapshot
<1>4. TypeOK
  <2>1. known \in [Tenant -> SUBSET Table] /\ handmade \in [Tenant -> SUBSET Column]
    BY <1>1 DEF Init, Workload
  <2> QED
    BY <1>1, <1>3, <2>1, IdleRecord DEF Init, TypeOK, Workload
<1>5. \A o \in Operator : Sound(o, op[o])
  BY IdleIsSound DEF Init
<1>6. CheckpointsTrue /\ GapsTold
  <2>1. \A t \in Tenant, c \in Column : recorded[t][c] # NoField => TableOf[c] \in known[t]
    BY DEF Init
  <2> QED
    BY <1>3, <2>1 DEF Init, CheckpointsTrue, GapsTold, Tells
<1> QED
  BY <1>4, <1>5, <1>6 DEF IInv

\* Every step keeps it.
LEMMA NextKeeps == IInv /\ [Next]_vars => IInv'
<1> SUFFICES ASSUME IInv, [Next]_vars PROVE IInv'
  OBVIOUS
<1>1. workload \in Workload
  BY DEF IInv, TypeOK
<1>2. ASSUME NEW o \in Operator, Starts(o) PROVE IInv'
  BY <1>1, <1>2, StartKeeps DEF Starts, Workload
<1>3. ASSUME NEW o \in Operator, Work(o) PROVE IInv'
  BY <1>3, LoadDoneKeeps, LoadEvidenceKeeps, PlanRunKeeps, NextTenantKeeps, TakeLockKeeps,
     RefuseTableKeeps, ApplyTableKeeps, EndTenantKeeps, DeleteRowKeeps, CreateRowKeeps,
     FinishKeeps, ReportKeeps DEF Work
<1>4. ASSUME NEW o \in Operator, Faulty(o) PROVE IInv'
  BY <1>4, ReadFailsKeeps, RecordFailsKeeps, CrashKeeps, ApplyFailsKeeps DEF Faulty
<1>5. CASE Around
  BY <1>5, StaleKeeps, ByHandKeeps, SurroundingsKeep DEF Around
<1>6. CASE UNCHANGED vars
  <2>1. UNCHANGED <<deployed, active, recorded, live, known, handmade, checkpoints, lock, op, reached, workload>>
    BY <1>6 DEF vars
  <2> QED
    BY <2>1, QuietKeeps DEF IInv, TypeOK
<1> QED
  BY <1>2, <1>3, <1>4, <1>5, <1>6 DEF Next

\* The types, what every operator's record says, and the checkpoints, in every state.
THEOREM FleetInvariant == Spec => []IInv
  BY InitHolds, NextKeeps, PTL DEF Spec

\* A report that may be promoted is no lie, whatever crashed or failed and however many
\* operators ran at once (migrate_fleet_inner).
THEOREM ReportsAreTrue == Spec => []PromotableMeansReached
<1>1. IInv => PromotableMeansReached
  BY DEF IInv, Sound, Backed, TargetsReached, ReportsAll, Planned, PromotableMeansReached,
         IsPromotable, At
<1> QED
  BY <1>1, FleetInvariant, PTL

\* A checkpoint other than a failure's says that its tenant, or every member of its
\* cohort, was brought to the target of its run (record_checkpoint).
THEOREM CheckpointsAreTrue == Spec => []CheckpointsTrue
<1>1. IInv => CheckpointsTrue
  BY DEF IInv
<1> QED
  BY <1>1, FleetInvariant, PTL

\* Two operators are never at work on one tenant (migrate_scope under its lock).
OneAtWork ==
  \A o, u \in Operator :
    At(o, "apply") /\ At(u, "apply") /\ op[o].tenant = op[u].tenant => o = u

THEOREM TenantsAreOwned == Spec => []OneAtWork
<1>1. IInv => OneAtWork
  BY DEF IInv, Sound, HoldsTenant, OneAtWork, At
<1> QED
  BY <1>1, FleetInvariant, PTL

\* Where a database is not at what its history says, after any number of runs, failures and
\* changes by hand, drift detection names the column or a hand has defined it and no run has
\* touched it since (detect_scope_drift).
THEOREM DriftIsTold == Spec => []DriftTellsTheGap
<1>1. IInv => DriftTellsTheGap
  BY DEF IInv, GapsTold, Tells, DriftTellsTheGap, Drift, KnownColumns
<1> QED
  BY <1>1, FleetInvariant, PTL

\* A guarded rollout goes beyond its cohort only when every member of the cohort has been
\* brought to exactly this target (plan_rollout).
THEOREM CanaryComesFirst == Spec => RolloutFollowsCanary
<1>1. ASSUME IInv, NEW o \in Operator, At(o, "apply"), op[o].stage = "rollout"
      PROVE  \A u \in op[o].cohort : <<op[o].run, u>> \in reached
  BY <1>1 DEF IInv, Sound, Backed, CohortReached, Planned, At
<1>2. IInv => \A o \in Operator, t \in Tenant :
                Changes(o, t) /\ op[o].stage = "rollout" /\ t \notin op[o].cohort =>
                  \A u \in op[o].cohort : <<op[o].run, u>> \in reached
  BY <1>1 DEF Changes
<1> QED
  BY <1>2, FleetInvariant, PTL DEF RolloutFollowsCanary

-----------------------------------------------------------------------------
(* What is stored.                                                          *)

\* A change that decide lets through without an acknowledgement keeps what was readable
\* readable (classify_modify).
LEMMA ModestChangesKeep ==
  ASSUME NEW old, NEW new, NEW isNew, NEW value, old # NoField, new # NoField,
         Readable(old, value), ClassOf(old, new, isNew) \notin {"needs_backfill", "blocked"}
  PROVE  Readable(new, value)
<1> DEFINE a == Parsed(old)
           b == Parsed(new)
<1>1. ClassOf(old, new, isNew) = ClassOfModified(a, b)
  BY DEF ClassOf
<1>2. value \in Fits(a.ty)
  BY DEF Readable
<1> HIDE DEF a, b
<1>3. ClassOfModified(a, b) \notin {"needs_backfill", "blocked"}
  BY <1>1
<1>4. ASSUME Opaque(a.ty) \/ Opaque(b.ty) PROVE a = b
  BY <1>3, <1>4 DEF ClassOfModified
<1>5. ASSUME ~Opaque(a.ty), ~Opaque(b.ty) PROVE a.ty = b.ty \/ <<a.ty, b.ty>> \in Widening
  BY <1>3, <1>5 DEF ClassOfModified
<1>6. <<a.ty, b.ty>> \in Widening => Fits(a.ty) \subseteq Fits(b.ty)
  <2>1. Fits("int") = {"int"} /\ Fits("float") = {"int", "float"}
        /\ Fits("decimal") = {"int", "float", "decimal"}
    BY DEF Fits, Opaque, Recognised
  <2> QED
    BY <2>1 DEF Widening
<1>7. value \in Fits(b.ty)
  BY <1>2, <1>4, <1>5, <1>6
<1> QED
  BY <1>7 DEF Readable, b

\* One table is applied without a consent only if what was readable stays readable: a drop
\* needs allow_destructive, a change that is more than modest an acknowledgement.
LEMMA AppliedKeepsReadable ==
  ASSUME IInv, Environment = "prod", NEW o \in Operator, At(o, "apply"), NEW b \in Table,
         ~Refused(op[o], b), Applies(o, b), NEW t \in Tenant, NEW c \in Column,
         Readable(live[t][c], row[t][c]), ~Readable(live'[t][c], row[t][c]),
         c \notin handmade[t]
  PROVE  Consents(o, t, c)
<1> DEFINE p == op[o]
           N == Shape[op[o].run]
           cols == ColumnsOf(b)
<1>1. p.tenant \in Tenant /\ p \in Operation
  BY DEF IInv, TypeOK, Sound, Backed, HasTenant, At
<1>2. live' = [live EXCEPT ![p.tenant] = Applied(live[p.tenant], recorded[p.tenant], N, cols)]
      /\ live \in [Tenant -> Snapshot]
  BY DEF Applies, IInv, TypeOK
<1>3. live'[t][c] # live[t][c]
  OBVIOUS
<1>4. t = p.tenant
  BY <1>1, <1>2, <1>3
<1>5. live'[t][c] = Applied(live[t], recorded[t], N, cols)[c]
  BY <1>1, <1>2, <1>4
<1>6. live[t][c] = recorded[t][c] /\ recorded[t][c] # NoField
  BY DEF IInv, GapsTold, Tells, Readable
<1>7. CASE c \in Drops(recorded[t], N, cols)
  <2>1. live'[t][c] = NoField
    BY <1>5, <1>7 DEF Applied, Drops, Creates, Alters
  <2>2. p.allow
    BY <1>4, <1>7 DEF Refused, GateRefuses
  <2> QED
    BY <1>4, <2>1, <2>2 DEF Consents
<1>8. CASE c \in Alters(recorded[t], N, cols)
  <2>1. live'[t][c] = N[c] /\ N[c] # NoField
    BY <1>5, <1>8 DEF Applied, Drops, Creates, Alters
  <2>2. ClassOf(recorded[t][c], N[c], b \notin known[t]) \in {"needs_backfill", "blocked"}
    BY <1>6, <2>1, ModestChangesKeep
  <2>3. p.acknowledge
    BY <1>4, <1>8, <2>2 DEF Refused, GateRefuses, DecideRefuses, NonDropClasses
  <2> QED
    BY <1>4, <2>1, <2>3 DEF Consents
<1>9. CASE c \notin Drops(recorded[t], N, cols) /\ c \notin Alters(recorded[t], N, cols)
  BY <1>3, <1>5, <1>6, <1>9 DEF Applied, Creates
<1> QED
  BY <1>7, <1>8, <1>9

\* In a strict environment no stored value becomes unreadable unless the operator of that
\* run approved of it, somebody changed the schema by hand, or the run met a definition that
\* a hand had written (the two gates of a run, and decide).
THEOREM NothingIsLostUnasked == Spec => NoLossUnasked
<1>1. ASSUME IInv, [Next]_vars, Environment = "prod", NEW t \in Tenant, NEW c \in Column,
             Readable(live[t][c], row[t][c]), ~Readable(live'[t][c], row[t][c]),
             op' # op, c \notin handmade[t]
      PROVE  \E o \in Operator : Consents(o, t, c)
  <2>1. ASSUME NEW o \in Operator, NEW b \in Table, ApplyTable(o, b) \/ ApplyFails(o, b)
        PROVE  Consents(o, t, c)
    <3>1. At(o, "apply") /\ ~Refused(op[o], b) /\ Applies(o, b)
      BY <1>1, <2>1 DEF ApplyTable, ApplyFails, schema
    <3> QED
      BY <1>1, <3>1, AppliedKeepsReadable
  <2>2. ASSUME NEW o \in Operator,
               \/ Starts(o) \/ LoadDone(o) \/ LoadEvidence(o) \/ PlanRun(o) \/ NextTenant(o)
               \/ TakeLock(o) \/ (\E b \in Table : RefuseTable(o, b)) \/ EndTenant(o)
               \/ DeleteRow(o) \/ CreateRow(o) \/ Finish(o) \/ Report(o)
               \/ ReadFails(o) \/ RecordFails(o) \/ Crash(o)
        PROVE  live' = live
    BY <2>2 DEF Starts, Start, LoadDone, LoadEvidence, PlanRun, NextTenant, TakeLock, RefuseTable,
                EndTenant, DeleteRow, CreateRow, Finish, Report, ReadFails, RecordFails, Crash,
                MovesOnly, schema
  <2>3. CASE Around \/ UNCHANGED vars
    BY <1>1, <2>3 DEF Around, Deploy, LockGrowsStale, SetStatus, ChangeByHand, StoreValue, vars
  <2> QED
    BY <1>1, <2>1, <2>2, <2>3 DEF Next, Work, Faulty
<1>2. IInv /\ [Next]_vars =>
        (Environment = "prod" => \A t \in Tenant : \A c \in Column :
           Readable(live[t][c], row[t][c]) /\ ~Readable(live'[t][c], row[t][c]) =>
             \/ op' = op
             \/ c \in handmade[t]
             \/ \E o \in Operator : Consents(o, t, c))
  BY <1>1
<1> QED
  BY <1>2, FleetInvariant, PTL DEF Spec, NoLossUnasked
=============================================================================
