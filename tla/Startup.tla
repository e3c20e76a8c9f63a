------------------------------- MODULE Startup -------------------------------
(***************************************************************************)
(* The boot of kernels over the databases of their tenants (boot.rs,       *)
(* meta.rs, keyguard.rs, main.rs), and what an operator does to those      *)
(* databases meanwhile: provisioning, backup and restore (provision.rs,    *)
(* recovery.rs).                                                           *)
(*                                                                         *)
(* A kernel boots its targets one after the other, each under the advisory *)
(* boot lock of that database: a record that anybody may delete once it    *)
(* is, or seems to be, stale.  A recovery command is a process of its own  *)
(* whose steps are statements and runs of the surreal binary; it may die   *)
(* between any two of them, and a reset database stays behind.             *)
(*                                                                         *)
(* Abstracted: a database is its meta version, the signing key of its      *)
(* record access and how many documents each tenant has in it.  Seeding,   *)
(* the sync of the DocTypes (SchemaSync) and the tenant policies are one   *)
(* step that may fail.  The targets are booted in the order of the roster. *)
(* The compose file restarts a server that                                 *)
(* exited; the operator follows the runbook as far as stopping the kernels *)
(* before a restore, and starts nothing while one runs.                    *)
(***************************************************************************)
EXTENDS Tenancy, FiniteSets

CONSTANTS Kernel,      \* processes of the kernel
          Server,      \* those started with `serve`; the others boot and end
          Holder,      \* holder names
          HolderOf,    \* [Kernel -> Holder]: "pid-<n>", not distinct between containers
          Binary,      \* [Kernel -> META_SCHEMA_VERSION of its binary]
          Accept,      \* [Kernel -> --accept-meta-migrations]
          SlowBoots,   \* whether a lock may grow stale while its holder lives
          Configs,     \* the configurations of this instance
          Versions,    \* the meta versions the databases may start with, 0 for none
          Dir,         \* backup directories
          Nobody,      \* no kernel, no directory, no tenant
          MaxWrites,   \* bound of the model: documents
          MaxOps,      \* bound of the model: [Configs -> commands of the operator]
          MaxFaults    \* bound of the model: crashes, failed statements, damaged dumps

ASSUME StartupAssumption ==
  /\ Server \subseteq Kernel
  /\ HolderOf \in [Kernel -> Holder]
  /\ Binary \in [Kernel -> Nat \ {0}]
  /\ Accept \in [Kernel -> BOOLEAN]
  /\ SlowBoots \in BOOLEAN
  /\ Configs \subseteq Config
  /\ Versions \subseteq Nat
  /\ Nobody \notin Kernel \cup Dir \cup Name
  /\ MaxWrites \in Nat /\ MaxOps \in [Configs -> Nat] /\ MaxFaults \in Nat

VARIABLES cfg,     \* the environment every process of the deployment is started with
          store,   \* the databases
          lock,    \* _frust_boot_lock:main of each database
          boot,    \* where each kernel stands
          op,      \* the recovery command that is running
          disk,    \* the published backups
          lost,    \* history: what resets dropped and no restore has replaced yet
          ops, faults

vars == <<cfg, store, lock, boot, op, disk, lost, ops, faults>>

AllHomes == UNION {Homes(c) : c \in {d \in Configs : Accepted(d)}}
Tenant == UNION {Registered(c) : c \in {d \in Configs : Accepted(d)}}
NoDocs == [t \in Tenant |-> 0]

Gone == [exists |-> FALSE, version |-> 0, key |-> "none", docs |-> NoDocs]
Empty == [Gone EXCEPT !.exists = TRUE]
Free == [by |-> Nobody, old |-> FALSE]
Off == [pc |-> "off", at |-> 0, ok |-> FALSE]
NoOp == [pc |-> "idle", kind |-> "none", tenant |-> Nobody, input |-> Nobody,
         output |-> Nobody, dump |-> Gone]
NoBackup == [tenant |-> Nobody, dump |-> Gone, good |-> FALSE]

Locked == {"version", "apply", "guard", "reread", "release"}
Target(k) == Home(cfg, cfg.roster[boot[k].at])
Go(k, step) == boot' = [boot EXCEPT ![k].pc = step]
End(k, fine) == boot' = [boot EXCEPT ![k].pc = "release", ![k].ok = fine]

Init ==
  /\ cfg \in Configs
  /\ \E v \in Versions : store = [h \in AllHomes |->
        IF v = 0 THEN Empty ELSE [Empty EXCEPT !.version = v, !.key = "private"]]
  /\ lock   = [h \in AllHomes |-> Free]
  /\ boot   = [k \in Kernel |-> Off]
  /\ op     = NoOp
  /\ disk   = [d \in Dir |-> NoBackup]
  /\ lost   = {}
  /\ ops    = 0
  /\ faults = 0

-----------------------------------------------------------------------------
(* Mutated forms of definitions below; no action uses them.                 *)

AcceptsNothing(s) == FALSE            \* the keyguard is skipped

OutputAny(d) == TRUE                  \* an existing output is written over

StaleNever(h) == FALSE                \* no takeover of the boot lock

-----------------------------------------------------------------------------
(* Boot.                                                                    *)

\* The process starts, resolves its tenancy and boots its first target; a
\* configuration it cannot honour ends it at once.
Start(k) ==
  /\ boot[k].pc = "off"
  /\ op.kind # "restore"
  /\ Accepted(cfg)
  /\ k \in Server \/ ops < MaxOps[cfg]
  /\ boot' = [boot EXCEPT ![k] = [Off EXCEPT !.pc = "try", !.at = 1]]
  /\ ops' = IF k \in Server THEN ops ELSE ops + 1
  /\ UNCHANGED <<cfg, store, lock, op, disk, lost, faults>>

\* CREATE _frust_boot_lock:main
TryLock(k) ==
  /\ boot[k].pc = "try"
  /\ UNCHANGED <<cfg, store, op, disk, lost, ops, faults>>
  /\ LET h == Target(k) IN
     \/ /\ ~store[h].exists
        /\ Go(k, "off") /\ UNCHANGED lock
     \/ /\ store[h].exists /\ lock[h] = Free
        /\ lock' = [lock EXCEPT ![h] = [Free EXCEPT !.by = k]]
        /\ Go(k, "version")
     \/ /\ store[h].exists /\ lock[h] # Free
        /\ Go(k, "look") /\ UNCHANGED lock

\* lock_is_stale; a lock that is gone by now reads as stale too.
Stale(h) == lock[h] = Free \/ lock[h].old

\* The lock's age decides whether to take it over, to wait, or, after the last
\* try, to refuse the boot with E_BOOT_LOCK_HELD.
Look(k) ==
  /\ boot[k].pc = "look"
  /\ \/ Stale(Target(k)) /\ Go(k, "steal")
     \/ ~Stale(Target(k)) /\ \E step \in {"try", "off"} : Go(k, step)
  /\ UNCHANGED <<cfg, store, lock, op, disk, lost, ops, faults>>

\* DELETE _frust_boot_lock:main, whoever holds it now.
Steal(k) ==
  /\ boot[k].pc = "steal"
  /\ lock' = [lock EXCEPT ![Target(k)] = Free]
  /\ \E step \in {"try", "off"} : Go(k, step)
  /\ UNCHANGED <<cfg, store, op, disk, lost, ops, faults>>

\* Both directions of the version check fail closed.
MayApply(k, v) == v = 0 \/ (v < Binary[k] /\ Accept[k])

\* read_meta_version; no table and no row are both read as none.
DbVersion(h) == store[h].version

ReadVersion(k) ==
  /\ boot[k].pc = "version"
  /\ LET v == DbVersion(Target(k)) IN
     \/ v = Binary[k] /\ Go(k, "guard")
     \/ /\ v # Binary[k] /\ MayApply(k, v)
        /\ Go(k, "apply")
     \/ v # Binary[k] /\ ~MayApply(k, v) /\ End(k, FALSE)
  /\ UNCHANGED <<cfg, store, lock, op, disk, lost, ops, faults>>

\* access_ddl: DEFINE ACCESS IF NOT EXISTS.
Sealed(s) == [s EXCEPT !.key = IF @ = "none" THEN "private" ELSE @]

\* The schema and the data migrations of one version.
Migrated(s, version) == [Sealed(s) EXCEPT !.version = version]

\* apply_meta: one transaction.
Apply(k) ==
  /\ boot[k].pc = "apply"
  /\ LET h == Target(k) IN
     /\ store[h].exists
     /\ store' = [store EXCEPT ![h] = Migrated(@, Binary[k])]
  /\ Go(k, "guard")
  /\ UNCHANGED <<cfg, lock, op, disk, lost, ops, faults>>

\* store_accepts_key(REDACTED_KEY)
AcceptsForgery(s) == s.key = "published"

KeyGuard(k) ==
  /\ boot[k].pc = "guard"
  /\ \/ AcceptsForgery(store[Target(k)]) /\ End(k, FALSE)
     \/ ~AcceptsForgery(store[Target(k)]) /\ Go(k, "reread")
  /\ UNCHANGED <<cfg, store, lock, op, disk, lost, ops, faults>>

\* The kernel trusts what the database holds, then seeds, syncs and is ready.
Reread(k) ==
  /\ boot[k].pc = "reread"
  /\ End(k, DbVersion(Target(k)) = Binary[k])
  /\ UNCHANGED <<cfg, store, lock, op, disk, lost, ops, faults>>

Holds(k, h) == lock[h].by # Nobody /\ HolderOf[lock[h].by] = HolderOf[k]

\* After a target: the next one, serving, or the end of the process.
Verdict(k) ==
  IF ~boot[k].ok THEN Off
  ELSE IF boot[k].at < Len(cfg.roster)
    THEN [Off EXCEPT !.pc = "try", !.at = boot[k].at + 1]
    ELSE [Off EXCEPT !.pc = IF k \in Server THEN "serving" ELSE "off"]

\* lock_release deletes the lock only of its own holder name.
Release(k) ==
  /\ boot[k].pc = "release"
  /\ LET h == Target(k) IN
     lock' = IF Holds(k, h) THEN [lock EXCEPT ![h] = Free] ELSE lock
  /\ boot' = [boot EXCEPT ![k] = Verdict(k)]
  /\ UNCHANGED <<cfg, store, op, disk, lost, ops, faults>>

\* A statement of the locked part fails: the lock is released all the same.
Fail(k) ==
  /\ boot[k].pc \in Locked \ {"release"}
  /\ faults < MaxFaults
  /\ End(k, FALSE)
  /\ faults' = faults + 1
  /\ UNCHANGED <<cfg, store, lock, op, disk, lost, ops>>

\* The process dies, and its lock stays.
Crash(k) ==
  /\ boot[k].pc # "off"
  /\ faults < MaxFaults
  /\ boot' = [boot EXCEPT ![k] = Off]
  /\ faults' = faults + 1
  /\ UNCHANGED <<cfg, store, lock, op, disk, lost, ops>>

\* LOCK_STALE_SECS pass.
Age(h) ==
  /\ lock[h] # Free /\ ~lock[h].old
  /\ SlowBoots \/ boot[lock[h].by].pc \notin Locked
  /\ lock' = [lock EXCEPT ![h].old = TRUE]
  /\ UNCHANGED <<cfg, store, boot, op, disk, lost, ops, faults>>

\* A client's write through a serving kernel.
Write(k, t) ==
  /\ boot[k].pc = "serving"
  /\ t \in Registered(cfg)
  /\ LET h == Home(cfg, t) IN
     /\ store[h].exists
     /\ store[h].docs[t] < MaxWrites
     /\ store' = [store EXCEPT ![h].docs[t] = @ + 1]
  /\ UNCHANGED <<cfg, lock, boot, op, disk, lost, ops, faults>>

-----------------------------------------------------------------------------
(* The operator.                                                            *)

Command == op.pc = "idle" /\ ops < MaxOps[cfg] /\ ops' = ops + 1

\* A configuration that is refused is replaced by another one.
Reconfigure ==
  /\ ~Accepted(cfg)
  /\ cfg' \in Configs \ {cfg}
  /\ UNCHANGED <<store, lock, boot, op, disk, lost, ops, faults>>

Stop(k) ==
  /\ boot[k].pc = "serving"
  /\ Command
  /\ boot' = [boot EXCEPT ![k] = Off]
  /\ UNCHANGED <<cfg, store, lock, op, disk, lost, faults>>

\* provision: DEFINE .. IF NOT EXISTS for the database and its access.
Provision(t) ==
  /\ Command
  /\ Accepted(cfg) /\ t \in Registered(cfg)
  /\ store' = [store EXCEPT ![Home(cfg, t)] = Sealed([@ EXCEPT !.exists = TRUE])]
  /\ UNCHANGED <<cfg, lock, boot, op, disk, lost, faults>>

OutputFree(d) == disk[d] = NoBackup

\* verify_backup: the dump is the one its manifest was written for.
Verified(d) == disk[d] # NoBackup /\ disk[d].good

\* verify_matches_target
Matches(d, t) == Verified(d) /\ disk[d].tenant = t

BeginBackup(t, out) ==
  /\ Command
  /\ Accepted(cfg) /\ t \in Registered(cfg)
  /\ OutputFree(out)
  /\ op' = [NoOp EXCEPT !.pc = "export", !.kind = "backup", !.tenant = t, !.output = out]
  /\ UNCHANGED <<cfg, store, lock, boot, disk, lost, faults>>

\* restore up to the safety backup: an isolated plan, a verified source of the
\* same target, the scope confirmed, a safety directory of its own.
BeginRestore(t, in, out) ==
  /\ Command
  /\ Accepted(cfg) /\ t \in Registered(cfg)
  /\ \A k \in Kernel : boot[k].pc = "off"
  /\ IsolatedPlan(cfg)
  /\ Matches(in, t)
  /\ in # out /\ OutputFree(out)
  /\ op' = [NoOp EXCEPT !.pc = "export", !.kind = "restore", !.tenant = t,
                        !.input = in, !.output = out]
  /\ UNCHANGED <<cfg, store, lock, boot, disk, lost, faults>>

Scope == Home(cfg, op.tenant)
Step(pc) == op' = [op EXCEPT !.pc = pc]

\* surreal export into the staging directory; it redacts the key.
Export ==
  /\ op.pc = "export"
  /\ op' = IF store[Scope].exists
             THEN [op EXCEPT !.pc = "publish",
                             !.dump = [store[Scope] EXCEPT !.key =
                                         IF @ = "none" THEN @ ELSE "published"]]
             ELSE NoOp
  /\ UNCHANGED <<cfg, store, lock, boot, disk, lost, ops, faults>>

\* The manifest is written, the container verified and renamed to its output.
Publish ==
  /\ op.pc = "publish"
  /\ disk' = [disk EXCEPT ![op.output] = [tenant |-> op.tenant, dump |-> op.dump, good |-> TRUE]]
  /\ op' = IF op.kind = "restore" THEN [op EXCEPT !.pc = "rehash"] ELSE NoOp
  /\ UNCHANGED <<cfg, store, lock, boot, lost, ops, faults>>

\* The source is verified again after the safety export.
Rehash ==
  /\ op.pc = "rehash"
  /\ op' = IF Matches(op.input, op.tenant) THEN [op EXCEPT !.pc = "drop"] ELSE NoOp
  /\ UNCHANGED <<cfg, store, lock, boot, disk, lost, ops, faults>>

\* REMOVE DATABASE ..
Drop ==
  /\ op.pc = "drop"
  /\ lost' = lost \cup {[home |-> Scope, docs |-> store[Scope].docs, safety |-> op.output]}
  /\ store' = [store EXCEPT ![Scope] = Gone]
  /\ lock' = [lock EXCEPT ![Scope] = Free]
  /\ Step("define")
  /\ UNCHANGED <<cfg, boot, disk, ops, faults>>

\* .. ; DEFINE DATABASE ..
Define ==
  /\ op.pc = "define"
  /\ store' = [store EXCEPT ![Scope] = Empty]
  /\ Step("import")
  /\ UNCHANGED <<cfg, lock, boot, disk, lost, ops, faults>>

\* surreal import of a dump that is whole.
Import ==
  /\ op.pc = "import"
  /\ disk[op.input].good
  /\ store' = [store EXCEPT ![Scope] = disk[op.input].dump]
  /\ Step("rotate")
  /\ UNCHANGED <<cfg, lock, boot, disk, lost, ops, faults>>

\* The import fails after a part of the dump: DO NOT SERVE this target.
ImportPart ==
  /\ op.pc = "import"
  /\ ~disk[op.input].good \/ faults < MaxFaults
  /\ LET dump == disk[op.input].dump IN
     \E part \in [version : {0, dump.version}, key : {"none", dump.key}, docs : {NoDocs, dump.docs}] :
       store' = [store EXCEPT ![Scope] =
         [Empty EXCEPT !.version = part.version, !.key = part.key, !.docs = part.docs]]
  /\ faults' = IF disk[op.input].good THEN faults + 1 ELSE faults
  /\ op' = NoOp
  /\ UNCHANGED <<cfg, lock, boot, disk, lost, ops>>

\* DEFINE ACCESS OVERWRITE with a fresh random key.
Rotated(s) == [s EXCEPT !.key = "private"]

Rotate ==
  /\ op.pc = "rotate"
  /\ store' = [store EXCEPT ![Scope] = Rotated(@)]
  /\ Step("check")
  /\ UNCHANGED <<cfg, lock, boot, disk, lost, ops, faults>>

\* assert_keyguard, and the report of the restore.
Check ==
  /\ op.pc = "check"
  /\ lost' = IF AcceptsForgery(store[Scope]) THEN lost ELSE {l \in lost : l.home # Scope}
  /\ op' = NoOp
  /\ UNCHANGED <<cfg, store, lock, boot, disk, ops, faults>>

\* A step of the command fails, or the command dies.
CutShort ==
  /\ op.pc # "idle"
  /\ faults < MaxFaults
  /\ op' = NoOp
  /\ faults' = faults + 1
  /\ UNCHANGED <<cfg, store, lock, boot, disk, lost, ops>>

\* The source of a restore is damaged while the restore runs.  The directories
\* that hold what a reset dropped are taken to be safe.
Damage ==
  /\ op.kind = "restore"
  /\ disk[op.input].good
  /\ \A l \in lost : l.safety # op.input
  /\ faults < MaxFaults
  /\ disk' = [disk EXCEPT ![op.input].good = FALSE]
  /\ faults' = faults + 1
  /\ UNCHANGED <<cfg, store, lock, boot, op, lost, ops>>

-----------------------------------------------------------------------------
Boot(k) == TryLock(k) \/ Look(k) \/ Steal(k) \/ ReadVersion(k) \/ Apply(k) \/ KeyGuard(k)
             \/ Reread(k) \/ Release(k)

Recover == Export \/ Publish \/ Rehash \/ Drop \/ Define \/ Import \/ ImportPart \/ Rotate
             \/ Check

Operate ==
  \/ Reconfigure
  \/ \E k \in Kernel : Stop(k)
  \/ \E t \in Tenant : Provision(t)
  \/ \E t \in Tenant, out \in Dir : BeginBackup(t, out)
  \/ \E t \in Tenant, in, out \in Dir : BeginRestore(t, in, out)

Next ==
  \/ \E k \in Kernel : Start(k) \/ Boot(k) \/ Fail(k) \/ Crash(k)
  \/ \E k \in Kernel, t \in Tenant : Write(k, t)
  \/ \E h \in AllHomes : Age(h)
  \/ Operate \/ Recover \/ CutShort \/ Damage

Spec == Init /\ [][Next]_vars

\* Processes run, time passes, servers are restarted, a refused configuration is
\* replaced.
Fairness ==
  /\ \A k \in Kernel : WF_vars(Boot(k))
  /\ \A k \in Server : WF_vars(Start(k))
  /\ \A h \in AllHomes : WF_vars(Age(h))
  /\ WF_vars(Recover)
  /\ WF_vars(Reconfigure)

FairSpec == Spec /\ Fairness

-----------------------------------------------------------------------------
(* Properties.                                                              *)

Store == [exists : BOOLEAN, version : Nat, key : {"none", "private", "published"},
          docs : [Tenant -> Nat]]

TypeOK ==
  /\ cfg \in Configs
  /\ store \in [AllHomes -> Store]
  /\ lock \in [AllHomes -> [by : Kernel \cup {Nobody}, old : BOOLEAN]]
  /\ boot \in [Kernel -> [pc : {"off", "try", "look", "steal", "serving"} \cup Locked,
                          at : Nat, ok : BOOLEAN]]
  /\ op \in [pc : {"idle", "export", "publish", "rehash", "drop", "define", "import",
                   "rotate", "check"},
             kind : {"none", "backup", "restore"}, tenant : Tenant \cup {Nobody},
             input : Dir \cup {Nobody}, output : Dir \cup {Nobody}, dump : Store]
  /\ disk \in [Dir -> [tenant : Tenant \cup {Nobody}, dump : Store, good : BOOLEAN]]
  /\ lost \subseteq [home : AllHomes, docs : [Tenant -> Nat], safety : Dir]
  /\ ops \in Nat /\ faults \in Nat

\* The invariant of the proofs (StartupProofs), in parts.

\* Only a configuration that was accepted has kernels or commands running.
Standing ==
  op.pc # "idle" \/ (\E k \in Kernel : boot[k].pc # "off") => Accepted(cfg)

\* A kernel that boots has a target of the roster, and a good end only at its end.
Aimed ==
  \A k \in Kernel :
    /\ boot[k].pc \notin {"off", "serving"} => boot[k].at \in DOMAIN cfg.roster
    /\ boot[k].ok => boot[k].pc = "release"

\* The positions of the roster that a kernel standing at b has found unpublished.
Judged(b) ==
  IF b.pc = "serving" THEN DOMAIN cfg.roster
  ELSE IF b.pc = "reread" \/ b.ok THEN 1 .. b.at
  ELSE 1 .. b.at - 1

KeysJudged ==
  \A k \in Kernel : boot[k].pc # "off" =>
    \A i \in Judged(boot[k]) : store[Home(cfg, cfg.roster[i])].key # "published"

\* A restore has the databases for itself, and its target for one tenant.
RestoresAlone ==
  op.kind = "restore" => IsolatedPlan(cfg) /\ \A k \in Kernel : boot[k].pc = "off"

\* Where a command stands: its directories, and the safety backup of a restore.
OpShape ==
  /\ op.pc = "idle" <=> op.kind = "none"
  /\ op.pc # "idle" => op.tenant \in Registered(cfg) /\ op.output \in Dir
  /\ op.pc \in {"export", "publish"} => disk[op.output] = NoBackup
  /\ op.pc \notin {"idle", "export", "publish"} => op.kind = "restore"
  /\ op.kind = "restore" =>
       /\ op.input \in Dir \ {op.output}
       /\ disk[op.input].tenant = op.tenant
       /\ op.pc = "publish" => op.dump.docs = store[Scope].docs
       /\ op.pc \in {"rehash", "drop"} =>
            disk[op.output].good /\ disk[op.output].dump.docs = store[Scope].docs

\* Documents are in the home of their tenant, in dumps too.
Placed(docs, h) ==
  \A t \in Tenant : docs[t] # 0 =>
    Accepted(cfg) /\ t \in Registered(cfg) /\ h = Home(cfg, t)

AllPlaced ==
  /\ \A h \in AllHomes : Placed(store[h].docs, h)
  /\ Placed(op.dump.docs, Scope)
  /\ \A d \in Dir : Placed(disk[d].dump.docs, Home(cfg, disk[d].tenant))

\* No kernel serves a database whose signing key was printed in a dump, whatever
\* restores failed before and however the boot locks were taken over
\* (keyguard.rs:29 "No \"serve anyway\" escape").
KeyGuarded ==
  \A k \in Kernel : boot[k].pc = "serving" =>
    \A t \in Registered(cfg) : store[Home(cfg, t)].key # "published"

\* What a reset dropped is in the safety backup of that restore until a restore has
\* succeeded, through failed imports, crashes and repeated commands (recovery.rs:3).
SafetyBackupHolds ==
  \A l \in lost : disk[l.safety].good /\ disk[l.safety].dump.docs = l.docs

IInv ==
  /\ TypeOK /\ Standing /\ Aimed /\ KeysJudged /\ RestoresAlone /\ OpShape /\ AllPlaced
  /\ SafetyBackupHolds

\* No step of a restore changes a document of another tenant, under any topology.
OthersUntouched ==
  [][op.kind = "restore" /\ op' # op =>
       \A h \in AllHomes, t \in Tenant \ {op.tenant} :
         store'[h].docs[t] = store[h].docs[t]]_vars

\* The binary of every server may take over every database of the roster.
Bootable ==
  /\ Accepted(cfg)
  /\ \A k \in Server, h \in Homes(cfg) :
       /\ store[h].exists /\ store[h].key # "published"
       /\ store[h].version = Binary[k] \/ MayApply(k, store[h].version)

\* Boot locks of dead or slow processes, cut short restores and restarts never keep a
\* server from coming up for good, once the databases are ones it may serve.
EventuallyServes ==
  <>[]Bootable => \A k \in Server : []<>(boot[k].pc = "serving")

=============================================================================
