----------------------------- MODULE SchemaSync -----------------------------
(***************************************************************************)
(* Schema migration of one tenant database: the migrator's runs under its  *)
(* advisory lock (orm/src/lib.rs), and what the kernel runs it for: the    *)
(* metadata sync, the reclaim of an orphan column (sync.rs, rest.rs) and    *)
(* the update of an app (app.rs, rest.rs).                                 *)
(*                                                                         *)
(* A runner is a thread of some kernel process.  What is to be applied is  *)
(* worked out BEFORE the lock is taken, from the metadata and from the     *)
(* history of that moment; the difference is taken against the history     *)
(* that is read under the lock.  The lock is a record that anybody may     *)
(* delete once it has, or seems to have, grown stale.                      *)
(*                                                                         *)
(* Abstracted: a schema is the set of its fields (an altered definition is *)
(* applied like a created one, indexes and events follow their table), the *)
(* order of the resources in a run, the fields that other apps extend a    *)
(* DocType with, and the values in the rows.  The kernel runs the migrator *)
(* in the Dev environment, where the classification gate (decide) lets     *)
(* everything pass.                                                        *)
(***************************************************************************)
EXTENDS Integers, FiniteSets

CONSTANTS Runner,       \* threads that migrate
          Doctype,      \* resources
          Field,        \* field names
          Name,         \* holder names
          HolderId,     \* [Runner -> Name]: "kernel-<pid>", "app-<name>": threads may share theirs
          NoRunner,     \* nobody
          NoName,       \* the lock record does not exist
          StaleTicks,   \* LOCK_STALE_SECS, in ticks of the model's clock
          Ops,          \* the operations of this instance
          MaxEdits,     \* bound of the model: changes of metadata and ops but syncs
          MaxFaults     \* bound of the model: crashes and failed statements

ASSUME SchemaAssumption ==
  /\ HolderId \in [Runner -> Name]
  /\ NoName \notin Name
  /\ NoRunner \notin Runner
  /\ StaleTicks \in Nat
  /\ Ops \subseteq {"reclaim", "update", "revert"}
  /\ MaxEdits \in Nat
  /\ MaxFaults \in Nat

VARIABLES declared,  \* the fields of each DocType record
          columns,   \* the fields of each table
          history,   \* the rows of _framework_migration
          lock,      \* _framework_migration_lock:main, with its true owner
          pc,        \* where a runner stands
          op,        \* what it was called for
          told,      \* the fields whose loss its caller has been told
          seen,      \* the history it read before the lock
          want,      \* the desired schema it worked out (ResourceSpec)
          plan,      \* the diff of each resource, against the history under the lock
          todo,      \* the resources still to be applied
          result,    \* what the last resource came to
          evicted,   \* history: runners inside whose lock was taken away
          broken,    \* history: the holder names of the runners that were ever evicted
          edits, faults

vars == <<declared, columns, history, lock, pc, op, told, seen, want, plan, todo,
          result, evicted, broken, edits, faults>>
schema == <<columns, history>>
notes == <<op, told, seen, want, plan, todo, result>>
ghosts == <<evicted, broken>>

Free == [holder |-> NoName, owner |-> NoRunner, age |-> 0]
Kinds == {"sync", "reclaim", "update", "revert"}
Calls == [kind : Kinds, docs : SUBSET Doctype, fields : SUBSET Field, allow : BOOLEAN, back : Nat]
Sync == [kind |-> "sync", docs |-> Doctype, fields |-> {}, allow |-> FALSE, back |-> 0]

Inside == {"load", "apply"}
Nothing == [d \in Doctype |-> {}]
NoPlan == [d \in Doctype |-> [next |-> 1, from |-> {}, to |-> {}]]

Init ==
  /\ declared = Nothing
  /\ columns  = Nothing
  /\ history  = Nothing
  /\ lock     = Free
  /\ pc       = [r \in Runner |-> "idle"]
  /\ op       = [r \in Runner |-> Sync]
  /\ told     = [r \in Runner |-> {}]
  /\ seen     = [r \in Runner |-> Nothing]
  /\ want     = [r \in Runner |-> Nothing]
  /\ plan     = [r \in Runner |-> NoPlan]
  /\ todo     = [r \in Runner |-> {}]
  /\ result   = [r \in Runner |-> "none"]
  /\ evicted  = {}
  /\ broken   = {}
  /\ edits    = 0
  /\ faults   = 0

-----------------------------------------------------------------------------
(* Mutated forms of definitions below; no action uses them.                 *)

RefusedNever(r, d) == FALSE                \* the destructive gate is dropped

CarriedNone(r, d, snap) == {}              \* carry_orphans carries nothing

NextVersionSame(h) == h.version            \* the version is not advanced

-----------------------------------------------------------------------------
(* The history table.                                                       *)

Row == [version : Nat \ {0}, fields : SUBSET Field, by : Runner]
NoRow == [version |-> 0, fields |-> {}, by |-> NoRunner]   \* unwrap_or((0, default))

\* load_history keeps the first row of a name in version-descending order; rows
\* of one version come in any order.
Newest(S) == IF S = {} THEN {NoRow} ELSE {h \in S : \A g \in S : g.version <= h.version}

Histories == {b \in [Doctype -> {NoRow} \cup UNION {history[d] : d \in Doctype}] :
                \A d \in Doctype : b[d] \in Newest(history[d])}

\* run_revert: one event back, or the row of version `back` if that is older.
Targets(d, cur, back) ==
  IF back = 0 THEN Newest(history[d] \ {cur}) \ {NoRow}
  ELSE {h \in history[d] : h.version = back /\ back < cur.version}

NextVersion(h) == h.version + 1

\* SchemaDiff::destructive
Destructive(from, to) == from \ to

\* carry_orphans: the fields of the history, but for the one reclaimed.
Carried(r, d, snap) ==
  IF op[r].kind = "reclaim" THEN snap[d].fields \ op[r].fields ELSE snap[d].fields

-----------------------------------------------------------------------------
(* The callers.                                                             *)

Edit == edits < MaxEdits /\ edits' = edits + 1

\* A DocType record is stored, extended or detached: create_doctype,
\* attach_metadata, uninstall.  A sync may follow at once, or at the next boot.
EditMetadata(d, F) ==
  /\ Edit
  /\ F # declared[d]
  /\ declared' = [declared EXCEPT ![d] = F]
  /\ UNCHANGED <<schema, lock, pc, notes, ghosts, faults>>

\* A call starts: where it goes first, what it knows and wants, what it destroys.
Begin(r, call, where, known, wanted, loss) ==
  /\ pc[r] = "idle"
  /\ op' = [op EXCEPT ![r] = call]
  /\ pc' = [pc EXCEPT ![r] = where]
  /\ seen' = [seen EXCEPT ![r] = known]
  /\ want' = [want EXCEPT ![r] = wanted]
  /\ told' = [told EXCEPT ![r] = loss]
  /\ UNCHANGED <<declared, schema, lock, plan, todo, result, ghosts, faults>>

Call(kind, docs, fields, allow, back) ==
  [kind |-> kind, docs |-> docs, fields |-> fields, allow |-> allow, back |-> back]

\* MetadataSync::sync, at boot or after a change of metadata.
StartSync(r) ==
  /\ Begin(r, Sync, "meta", Nothing, Nothing, {})
  /\ UNCHANGED edits

\* POST doctype/<d>/reclaim, acknowledged: refused for a declared field.
StartReclaim(r, d, f) ==
  /\ "reclaim" \in Ops /\ Edit
  /\ f \notin declared[d]
  /\ Begin(r, Call("reclaim", {d}, {f}, TRUE, 0), "meta", Nothing, Nothing, {f})

\* install_app: the plan is a dry run without the lock, and what it would destroy
\* must have been acknowledged.
StartUpdate(r, d, F, acknowledge) ==
  /\ "update" \in Ops /\ Edit
  /\ \E snap \in Histories :
       LET loss == Destructive(snap[d].fields, F)
       IN  /\ acknowledge \/ loss = {}
           /\ Begin(r, Call("update", {d}, F, acknowledge, 0), "create",
                    [Nothing EXCEPT ![d] = snap[d].fields], [Nothing EXCEPT ![d] = F], loss)

\* revert_tenant: works from the history under the lock alone.
StartRevert(r, back, allow) ==
  /\ "revert" \in Ops /\ Edit
  /\ Begin(r, Call("revert", Doctype, {}, allow, back), "create", Nothing, Nothing, {})

\* sync_inner: load_doctypes.
ReadMetadata(r) ==
  /\ pc[r] = "meta"
  /\ want' = [want EXCEPT ![r] = [d \in Doctype |-> IF d \in op[r].docs THEN declared[d] ELSE {}]]
  /\ pc' = [pc EXCEPT ![r] = "history"]
  /\ UNCHANGED <<declared, schema, lock, op, told, seen, plan, todo, result, ghosts, edits, faults>>

\* sync_inner: history_fields, and carry_orphans for each resource.
ReadHistory(r) ==
  /\ pc[r] = "history"
  /\ \E snap \in Histories :
       /\ seen' = [seen EXCEPT ![r] = [d \in Doctype |-> snap[d].fields]]
       /\ want' = [want EXCEPT ![r] = [d \in Doctype |->
                     IF d \in op[r].docs THEN want[r][d] \cup Carried(r, d, snap) ELSE {}]]
  /\ pc' = [pc EXCEPT ![r] = "create"]
  /\ UNCHANGED <<declared, schema, lock, op, told, plan, todo, result, ghosts, edits, faults>>

-----------------------------------------------------------------------------
(* lock_acquire and lock_release.                                           *)

LockWith(r) == [holder |-> HolderId[r], owner |-> r, age |-> 0]

\* lock_is_stale: a missing row counts as stale, too.
Stale(l) == l.holder = NoName \/ l.age > StaleTicks

OwnLock(r) == lock.holder = HolderId[r]

GoTo(r, where) == pc' = [pc EXCEPT ![r] = where]

\* The call goes on, inside or outside as before.
Stay(r, where) == GoTo(r, where) /\ UNCHANGED <<notes, ghosts>>

\* The runner is through with its run: what it worked out is forgotten.
LeaveFor(r, where) ==
  /\ GoTo(r, where)
  /\ told' = [told EXCEPT ![r] = {}]
  /\ seen' = [seen EXCEPT ![r] = Nothing]
  /\ want' = [want EXCEPT ![r] = Nothing]
  /\ plan' = [plan EXCEPT ![r] = NoPlan]
  /\ todo' = [todo EXCEPT ![r] = {}]
  /\ result' = [result EXCEPT ![r] = "none"]
  /\ op' = IF where = "attach" THEN op ELSE [op EXCEPT ![r] = Sync]
  /\ evicted' = evicted \ {r}
  /\ UNCHANGED broken

Leave(r) == LeaveFor(r, "idle")

\* lock_try_create, before and after the deletion of a stale lock.
TryCreate(r) ==
  /\ pc[r] \in {"create", "retake"}
  /\ \/ /\ lock = Free
        /\ lock' = LockWith(r)
        /\ Stay(r, "load")
     \/ /\ lock # Free /\ UNCHANGED lock
        /\ \/ pc[r] = "create" /\ Stay(r, "check")
           \/ pc[r] = "retake" /\ Leave(r)
  /\ UNCHANGED <<declared, schema, edits, faults>>

\* lock_is_stale: steal it, or give up with an error.
CheckStale(r) ==
  /\ pc[r] = "check"
  /\ \/ Stale(lock) /\ Stay(r, "steal")
     \/ ~Stale(lock) /\ Leave(r)
  /\ UNCHANGED <<declared, schema, lock, edits, faults>>

\* DELETE _framework_migration_lock:main, whatever it is by now.
DeleteStale(r) ==
  LET victims == {v \in Runner : v = lock.owner /\ pc[v] \in Inside}
  IN  /\ pc[r] = "steal"
      /\ lock' = Free
      /\ evicted' = evicted \cup victims
      /\ broken' = broken \cup {HolderId[v] : v \in victims}
      /\ GoTo(r, "retake")
      /\ UNCHANGED <<declared, schema, notes, edits, faults>>

-----------------------------------------------------------------------------
(* run and run_revert, under the lock.                                      *)

\* load_history (load_full_history), and the diff of each resource against it.
LoadHistory(r) ==
  /\ pc[r] = "load"
  /\ \E base \in Histories :
       /\ \/ /\ op[r].kind # "revert"
             /\ plan' = [plan EXCEPT ![r] = [d \in Doctype |->
                            [next |-> NextVersion(base[d]), from |-> base[d].fields, to |-> want[r][d]]]]
             /\ todo' = [todo EXCEPT ![r] = {d \in op[r].docs :
                            base[d] = NoRow \/ base[d].fields # want[r][d]}]
          \/ /\ op[r].kind = "revert"
             /\ \E goal \in [Doctype -> {NoRow} \cup UNION {history[d] : d \in Doctype}] :
                  LET older(d) == Targets(d, base[d], op[r].back)
                  IN  /\ \A d \in Doctype : goal[d] \in IF older(d) = {} THEN {base[d]} ELSE older(d)
                      /\ plan' = [plan EXCEPT ![r] = [d \in Doctype |->
                            [next |-> NextVersion(base[d]), from |-> base[d].fields, to |-> goal[d].fields]]]
                      /\ todo' = [todo EXCEPT ![r] = {d \in Doctype : base[d].fields # goal[d].fields}]
  /\ want' = [want EXCEPT ![r] = Nothing]
  /\ GoTo(r, "apply")
  /\ UNCHANGED <<declared, schema, lock, op, told, seen, result, ghosts, edits, faults>>

\* The destructive gate, without allow_destructive.
Refused(r, d) == ~op[r].allow /\ Destructive(plan[r][d].from, plan[r][d].to) # {}

Passed(r, d, outcome) ==
  /\ todo' = [todo EXCEPT ![r] = @ \ {d}]
  /\ result' = [result EXCEPT ![r] = outcome]
  /\ UNCHANGED <<declared, lock, pc, op, told, seen, want, plan, ghosts, edits>>

\* The resource is left as it is, the run goes on.
Refuse(r, d) ==
  /\ pc[r] = "apply" /\ d \in todo[r]
  /\ Refused(r, d)
  /\ Passed(r, d, "refused")
  /\ UNCHANGED <<schema, faults>>

\* apply_resource: the statements of the diff and the history row, in one transaction.
Apply(r, d) ==
  LET p == plan[r][d]
  IN  /\ pc[r] = "apply" /\ d \in todo[r]
      /\ ~Refused(r, d)
      /\ columns' = [columns EXCEPT ![d] = (@ \cup (p.to \ p.from)) \ (p.from \ p.to)]
      /\ history' = [history EXCEPT ![d] = @ \cup {[version |-> p.next, fields |-> p.to, by |-> r]}]
      /\ Passed(r, d, "applied")
      /\ UNCHANGED faults

\* What follows a run: a reclaim that applied syncs again, an update without
\* errors attaches its metadata, and every other call is over.
After(r) ==
  CASE op[r].kind = "reclaim" /\ result[r] = "applied" -> "meta"
    [] op[r].kind = "update" /\ result[r] # "refused" -> "attach"
    [] OTHER -> "idle"

RunIsOver(r) == pc[r] = "apply" /\ todo[r] = {}

\* lock_release: DELETE .. WHERE holder = us.
Release(r) ==
  /\ RunIsOver(r)
  /\ lock' = IF OwnLock(r) THEN Free ELSE lock
  /\ LeaveFor(r, After(r))
  /\ UNCHANGED <<declared, schema, edits, faults>>

\* attach_metadata, after the schema.
Attach(r) ==
  /\ pc[r] = "attach"
  /\ declared' = [d \in Doctype |-> IF d \in op[r].docs THEN op[r].fields ELSE declared[d]]
  /\ Leave(r)
  /\ UNCHANGED <<schema, lock, edits, faults>>

-----------------------------------------------------------------------------
(* Time and faults.                                                         *)

Tick ==
  /\ lock # Free /\ lock.age <= StaleTicks
  /\ lock' = [lock EXCEPT !.age = @ + 1]
  /\ UNCHANGED <<declared, schema, pc, notes, ghosts, edits, faults>>

Fault == faults < MaxFaults /\ faults' = faults + 1

\* The process stops; what it holds stays behind.
Crash(r) ==
  /\ Fault
  /\ pc[r] # "idle"
  /\ Leave(r)
  /\ UNCHANGED <<declared, schema, lock, edits>>

\* lock_try_create is committed but its answer is lost: nobody owns the lock.
CreateAnswerLost(r) ==
  /\ Fault
  /\ pc[r] \in {"create", "retake"} /\ lock = Free
  /\ lock' = [LockWith(r) EXCEPT !.owner = NoRunner]
  /\ Leave(r)
  /\ UNCHANGED <<declared, schema, edits>>

\* A failed load_history still releases; the deletion of a stale lock and the
\* release ignore their errors.  Any other failed statement ends the call as a crash does.
StatementFails(r) ==
  /\ Fault
  /\ \/ /\ pc[r] = "load"
        /\ GoTo(r, "apply")
        /\ result' = [result EXCEPT ![r] = "refused"]
        /\ UNCHANGED <<op, told, seen, want, plan, todo, ghosts>>
     \/ pc[r] = "steal" /\ Stay(r, "retake")
     \/ RunIsOver(r) /\ LeaveFor(r, After(r))
  /\ UNCHANGED <<declared, schema, lock, edits>>

\* The transaction of a resource fails and is rolled back; the run goes on.
ApplyFails(r, d) ==
  /\ Fault
  /\ pc[r] = "apply" /\ d \in todo[r]
  /\ Passed(r, d, "refused")
  /\ UNCHANGED schema

-----------------------------------------------------------------------------
Work(r) ==
  \/ ReadMetadata(r) \/ ReadHistory(r)
  \/ TryCreate(r) \/ CheckStale(r) \/ DeleteStale(r)
  \/ LoadHistory(r) \/ (\E d \in Doctype : Refuse(r, d) \/ Apply(r, d))
  \/ Release(r) \/ Attach(r)

Start(r) ==
  \/ StartSync(r)
  \/ \E d \in Doctype, f \in Field : StartReclaim(r, d, f)
  \/ \E d \in Doctype, F \in SUBSET Field, ack \in BOOLEAN : StartUpdate(r, d, F, ack)
  \/ \E back \in 0 .. 1, allow \in BOOLEAN : StartRevert(r, back, allow)

Faulty(r) ==
  \/ Crash(r) \/ CreateAnswerLost(r) \/ StatementFails(r)
  \/ \E d \in Doctype : ApplyFails(r, d)

Next ==
  \/ \E d \in Doctype, F \in SUBSET Field : EditMetadata(d, F)
  \/ \E r \in Runner : Start(r) \/ Work(r) \/ Faulty(r)
  \/ Tick

Spec == Init /\ [][Next]_vars

-----------------------------------------------------------------------------
(* Properties.                                                              *)

\* Types of the tables, the lock and the runners' notes.
TypeOK ==
  /\ declared \in [Doctype -> SUBSET Field]
  /\ columns \in [Doctype -> SUBSET Field]
  /\ history \in [Doctype -> SUBSET Row]
  /\ lock \in [holder : Name \cup {NoName}, owner : Runner \cup {NoRunner}, age : 0 .. StaleTicks + 1]
  /\ pc \in [Runner -> {"idle", "meta", "history", "create", "check", "steal", "retake", "attach"} \cup Inside]
  /\ op \in [Runner -> Calls]
  /\ told \in [Runner -> SUBSET Field]
  /\ seen \in [Runner -> [Doctype -> SUBSET Field]]
  /\ want \in [Runner -> [Doctype -> SUBSET Field]]
  /\ plan \in [Runner -> [Doctype -> [next : Nat \ {0}, from : SUBSET Field, to : SUBSET Field]]]
  /\ todo \in [Runner -> SUBSET Doctype]
  /\ result \in [Runner -> {"none", "applied", "refused"}]
  /\ evicted \subseteq Runner
  /\ broken \subseteq Name
  /\ edits \in 0 .. MaxEdits
  /\ faults \in 0 .. MaxFaults

\* "A stolen lock can't cascade" - to another process: a runner inside has lost its
\* lock by an eviction of its own, or by the release of an evicted runner of its own
\* name.  lock_release compares the name, which the threads of a process share.
NoCascade ==
  \A r \in Runner :
    pc[r] \in Inside /\ r \notin evicted /\ HolderId[r] \notin broken => lock.owner = r

\* The history's newest row is the schema, through refusals, failures, crashes and
\* reverts, for as long as no runner was ever evicted (apply_resource).
HistoryTells(d) ==
  \/ history[d] = {} /\ columns[d] = {}
  \/ \E h \in history[d] : /\ h.fields = columns[d]
                            /\ \A g \in history[d] \ {h} : g.version < h.version

HistoryTellsSchema == broken = {} => \A d \in Doctype : HistoryTells(d)

\* A sync drops no column, whatever runs beside it: only a call that may destroy
\* does (allow_destructive).
Applying(r) == pc[r] = "apply" /\ todo'[r] # todo[r]
Lost(d) == columns[d] \ columns'[d]

NoSilentDrop ==
  [][\A d \in Doctype : Lost(d) # {} => \E r \in Runner : Applying(r) /\ op[r].allow]_vars

\* What a reclaim or an update destroys unannounced was not there when it looked:
\* the orphans it knew of are carried, the losses it knew of were told (carry_orphans).
LossKnownIsTold ==
  [][\A d \in Doctype : \A f \in Lost(d) :
       \E r \in Runner : /\ Applying(r) /\ d \in todo[r] \ todo'[r]
                         /\ op[r].kind = "revert" \/ f \in told[r] \/ f \notin seen[r][d]]_vars

\* A sync is refused only because of fields that came after it read the history:
\* an orphan never keeps its DocType from evolving (carry_orphans).
OrphansDontBlock ==
  \A r \in Runner, d \in Doctype :
    pc[r] = "apply" /\ op[r].kind = "sync" /\ d \in todo[r] =>
      Destructive(plan[r][d].from, plan[r][d].to) \cap seen[r][d] = {}

-----------------------------------------------------------------------------
(* The inductive invariant.                                                 *)

LockShape ==
  /\ lock.owner # NoRunner => lock.holder = HolderId[lock.owner]
  /\ lock.holder = NoName => lock = Free

EvictionBreaks == \A r \in evicted : HolderId[r] \in broken

TodoInside == \A r \in Runner : pc[r] # "apply" => todo[r] = {}

\* What is left to apply was worked out from the schema in force.
PlanFresh ==
  broken = {} => \A r \in Runner : \A d \in todo[r] :
    plan[r][d].from = columns[d] /\ \A h \in history[d] : h.version < plan[r][d].next

\* The inductive invariant of the proofs: the lock of a runner inside is its own
\* unless one of its name was evicted, and until an eviction what it has still to
\* apply is up to date.
IInv ==
  /\ TypeOK
  /\ LockShape /\ NoCascade /\ EvictionBreaks
  /\ TodoInside /\ PlanFresh /\ HistoryTellsSchema

=============================================================================
