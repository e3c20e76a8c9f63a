---------------------------- MODULE StartupProofs ----------------------------
(***************************************************************************)
(* Proofs about Startup: its types, and that no kernel serves a database   *)
(* with a published key, that what a reset dropped is in its safety        *)
(* backup, and that a restore leaves the other tenants alone.              *)
(*                                                                         *)
(* IInv holds of every state.  A kernel's progress is tied to the keys of  *)
(* the targets behind it (KeysJudged); no step publishes a key but those   *)
(* of a restore, during which every kernel is down (RestoresAlone).  The   *)
(* documents a restore drops are those of the dump in its own directory    *)
(* (OpShape), since nothing writes meanwhile, and are its tenant's alone,  *)
(* since an isolated home has one tenant (AllPlaced).                      *)
(***************************************************************************)
EXTENDS Startup, TLAPS

Docs == [Tenant -> Nat]
Where == [pc : {"off", "try", "look", "steal", "serving"} \cup Locked, at : Nat, ok : BOOLEAN]
Locks == [by : Kernel \cup {Nobody}, old : BOOLEAN]
Commands == [pc : {"idle", "export", "publish", "rehash", "drop", "define", "import",
                   "rotate", "check"},
             kind : {"none", "backup", "restore"}, tenant : Tenant \cup {Nobody},
             input : Dir \cup {Nobody}, output : Dir \cup {Nobody}, dump : Store]
Backups == [tenant : Tenant \cup {Nobody}, dump : Store, good : BOOLEAN]

\* The types of the state, by name.
LEMMA Types ==
  TypeOK <=>
    /\ cfg \in Configs
    /\ store \in [AllHomes -> Store]
    /\ lock \in [AllHomes -> Locks]
    /\ boot \in [Kernel -> Where]
    /\ op \in Commands
    /\ disk \in [Dir -> Backups]
    /\ lost \subseteq [home : AllHomes, docs : Docs, safety : Dir]
    /\ ops \in Nat /\ faults \in Nat
BY DEF TypeOK, Locks, Where, Commands, Backups, Docs

\* The initial records have their types.
LEMMA Initials ==
  /\ Gone \in Store /\ Empty \in Store
  /\ Gone.docs = NoDocs /\ Empty.docs = NoDocs
  /\ Gone.key = "none" /\ Empty.key = "none"
  /\ NoDocs \in Docs
  /\ Free \in Locks /\ Off \in Where
  /\ NoOp \in Commands
  /\ NoBackup \in Backups
<1>1. NoDocs \in Docs
  BY DEF NoDocs, Docs
<1>2. Gone \in Store /\ Gone.docs = NoDocs /\ Gone.key = "none"
  BY <1>1 DEF Gone, Store, Docs
<1>3. Empty \in Store /\ Empty.docs = NoDocs /\ Empty.key = "none"
  BY <1>2 DEF Empty, Gone, Store
<1>4. Free \in Locks /\ Off \in Where
  BY DEF Free, Locks, Off, Where
<1>5. NoOp \in Commands
  BY <1>2 DEF NoOp, Commands
<1>6. NoBackup \in Backups
  BY <1>2 DEF NoBackup, Backups
<1> QED
  BY <1>1, <1>2, <1>3, <1>4, <1>5, <1>6

\* A registered tenant of an accepted configuration has a home.
LEMMA HomesExist ==
  ASSUME cfg \in Configs, Accepted(cfg), NEW t \in Registered(cfg)
  PROVE  t \in Tenant /\ t \in Name /\ Home(cfg, t) \in AllHomes
<1>1. cfg \in {d \in Configs : Accepted(d)}
  OBVIOUS
<1>2. t \in Tenant
  BY <1>1 DEF Tenant
<1>3. t \in Name
  BY DEF Accepted, RosterStands
<1>4. Home(cfg, t) \in Homes(cfg)
  BY DEF Homes
<1>5. Home(cfg, t) \in AllHomes
  BY <1>1, <1>4 DEF AllHomes
<1> QED
  BY <1>2, <1>3, <1>5

\* The roster of a configuration.
LEMMA Rosters ==
  ASSUME cfg \in Configs
  PROVE  /\ Len(cfg.roster) \in Nat
         /\ DOMAIN cfg.roster = 1 .. Len(cfg.roster)
         /\ \A i \in DOMAIN cfg.roster : cfg.roster[i] \in Registered(cfg)
         /\ Accepted(cfg) => 1 \in DOMAIN cfg.roster
<1>1. cfg.roster \in Seq(Name \cup {Garbled})
  BY StartupAssumption DEF StartupAssumption, Config
<1>2. Len(cfg.roster) \in Nat /\ DOMAIN cfg.roster = 1 .. Len(cfg.roster)
  BY <1>1
<1>3. Accepted(cfg) => cfg.roster # <<>>
  BY DEF Accepted, RosterStands
<1>4. cfg.roster # <<>> => Len(cfg.roster) # 0
  BY <1>1
<1> QED
  BY <1>2, <1>3, <1>4 DEF Registered

\* An isolated plan gives every tenant a home of its own.
LEMMA OneTenantPerHome ==
  ASSUME Accepted(cfg), IsolatedPlan(cfg), NEW t, NEW u, Home(cfg, t) = Home(cfg, u)
  PROVE  t = u
<1>1. cfg.topology \in Topology \ {"single"}
  BY DEF Accepted, IsolatedPlan
<1>2. CASE cfg.topology = "database-per-tenant"
  <2>1. Home(cfg, t).db = t /\ Home(cfg, u).db = u
    BY <1>2 DEF Home, DatabasePerTenant
  <2> QED
    BY <2>1
<1>3. CASE cfg.topology = "namespace-per-tenant"
  <2>1. Home(cfg, t).ns = t /\ Home(cfg, u).ns = u
    BY <1>3 DEF Home, NamespacePerTenant
  <2> QED
    BY <2>1
<1>4. CASE cfg.topology = "namespace-per-tenant-env"
  <2>1. Home(cfg, t).ns = t /\ Home(cfg, u).ns = u
    BY <1>4 DEF Home, NamespacePerTenantEnvironment
  <2> QED
    BY <2>1
<1> QED
  BY <1>1, <1>2, <1>3, <1>4 DEF Topology

\* A booting kernel has a target that exists.
LEMMA Targets ==
  ASSUME IInv, NEW k \in Kernel, boot[k].pc \notin {"off", "serving"}
  PROVE  /\ Accepted(cfg) /\ cfg \in Configs
         /\ boot[k].at \in DOMAIN cfg.roster
         /\ Target(k) \in AllHomes
         /\ op.kind # "restore"
<1>1. Accepted(cfg) /\ cfg \in Configs
  BY DEF IInv, Standing, TypeOK
<1>2. boot[k].at \in DOMAIN cfg.roster
  BY DEF IInv, Aimed
<1>3. cfg.roster[boot[k].at] \in Registered(cfg)
  BY <1>1, <1>2, Rosters
<1>4. Target(k) \in AllHomes
  BY <1>1, <1>3, HomesExist DEF Target
<1>5. op.kind # "restore"
  BY DEF IInv, RestoresAlone
<1> QED
  BY <1>1, <1>2, <1>4, <1>5

-----------------------------------------------------------------------------
\* The initial states satisfy the invariant.
LEMMA InitHolds == Init => IInv
<1> SUFFICES ASSUME Init PROVE IInv
  OBVIOUS
<1>1. PICK v \in Versions : store = [h \in AllHomes |->
        IF v = 0 THEN Empty ELSE [Empty EXCEPT !.version = v, !.key = "private"]]
  BY DEF Init
<1>2. v \in Nat
  BY StartupAssumption DEF StartupAssumption
<1>3. [Empty EXCEPT !.version = v, !.key = "private"] \in Store
      /\ [Empty EXCEPT !.version = v, !.key = "private"].docs = NoDocs
  BY <1>2, Initials DEF Store
<1>4. \A h \in AllHomes : store[h] \in Store /\ store[h].docs = NoDocs
  BY <1>1, <1>3, Initials
<1>5. store \in [AllHomes -> Store]
  BY <1>1, <1>4
<1>6. TypeOK
  BY <1>5, Initials, Types DEF Init
<1>7. \A k \in Kernel : boot[k].pc = "off" /\ ~boot[k].ok
  BY DEF Init, Off
<1>8. op = NoOp /\ op.pc = "idle" /\ op.kind = "none" /\ op.dump = Gone
  BY DEF Init, NoOp
<1>9. \A d \in Dir : disk[d] = NoBackup /\ disk[d].dump.docs = NoDocs
  BY Initials DEF Init, NoBackup
<1>10. \A h : Placed(NoDocs, h)
  BY DEF Placed, NoDocs
<1>11. Standing /\ Aimed /\ KeysJudged /\ RestoresAlone
  BY <1>7, <1>8 DEF Standing, Aimed, KeysJudged, RestoresAlone
<1>12. OpShape
  BY <1>8 DEF OpShape
<1>13. AllPlaced
  BY <1>4, <1>8, <1>9, <1>10, Initials DEF AllPlaced
<1>14. SafetyBackupHolds
  BY DEF Init, SafetyBackupHolds
<1> QED
  BY <1>6, <1>11, <1>12, <1>13, <1>14 DEF IInv

-----------------------------------------------------------------------------
(* The kernels.                                                             *)

\* What a step of one kernel must keep: it leaves commands, backups and documents
\* alone, publishes no key, and stands where it has judged the keys behind it.
LEMMA KernelStep ==
  ASSUME IInv, NEW k \in Kernel, NEW b \in Where,
         Accepted(cfg), op.kind # "restore",
         UNCHANGED <<cfg, op, disk, lost>>,
         boot' = [boot EXCEPT ![k] = b],
         store' \in [AllHomes -> Store], lock' \in [AllHomes -> Locks],
         ops' \in Nat, faults' \in Nat,
         \A h \in AllHomes : /\ store'[h].docs = store[h].docs
                             /\ store[h].key # "published" => store'[h].key # "published",
         b.pc \notin {"off", "serving"} => b.at \in DOMAIN cfg.roster,
         b.ok => b.pc = "release",
         b.pc # "off" => \A i \in Judged(b) : store'[Home(cfg, cfg.roster[i])].key # "published"
  PROVE  IInv'
<1>1. TypeOK
  BY DEF IInv
<1>2. boot' \in [Kernel -> Where] /\ boot'[k] = b /\ \A j \in Kernel \ {k} : boot'[j] = boot[j]
  BY <1>1, Types
<1>3. TypeOK'
  BY <1>1, <1>2 DEF TypeOK, Where, Locks
<1>4. Standing'
  BY DEF Standing
<1>5. Aimed'
  BY <1>2 DEF IInv, Aimed
<1>6. KeysJudged'
  <2> SUFFICES ASSUME NEW j \in Kernel, boot'[j].pc # "off", NEW i \in Judged(boot'[j])
               PROVE  store'[Home(cfg, cfg.roster[i])].key # "published"
    BY DEF KeysJudged, Judged
  <2>1. CASE j = k
    BY <1>2, <2>1
  <2>2. CASE j # k
    <3>1. boot[j].pc # "off" /\ i \in Judged(boot[j])
      BY <1>2, <2>2
    <3>2. store[Home(cfg, cfg.roster[i])].key # "published"
      BY <3>1 DEF IInv, KeysJudged
    <3>3. Judged(boot[j]) \subseteq DOMAIN cfg.roster
      <4>1. boot[j] \in Where /\ cfg \in Configs
        BY <1>1, Types
      <4>2. boot[j].at \in Nat
        BY <4>1 DEF Where
      <4>3. boot[j].pc # "serving" => boot[j].at \in 1 .. Len(cfg.roster)
        BY <3>1, <4>1, Rosters DEF IInv, Aimed
      <4>4. Len(cfg.roster) \in Nat /\ DOMAIN cfg.roster = 1 .. Len(cfg.roster)
        BY <4>1, Rosters
      <4> QED
        BY <4>2, <4>3, <4>4 DEF Judged
    <3>4. Home(cfg, cfg.roster[i]) \in AllHomes
      BY <1>1, <3>1, <3>3, Rosters, HomesExist DEF TypeOK
    <3> QED
      BY <3>2, <3>4
  <2> QED
    BY <2>1, <2>2
<1>7. RestoresAlone'
  BY DEF RestoresAlone
<1>8. OpShape'
  <2>1. op.kind # "restore" => op.pc \in {"idle", "export", "publish"}
    BY <1>1, Types DEF IInv, OpShape, Commands
  <2> QED
    BY <2>1 DEF IInv, OpShape
<1>9. AllPlaced'
  BY DEF IInv, AllPlaced, Placed, Scope
<1>10. SafetyBackupHolds'
  BY DEF IInv, SafetyBackupHolds
<1> QED
  BY <1>3, <1>4, <1>5, <1>6, <1>7, <1>8, <1>9, <1>10 DEF IInv

\* A step that only moves a booting kernel, and the lock, behind no new target.
LEMMA MoveHolds ==
  ASSUME IInv, NEW k \in Kernel, boot[k].pc \notin {"off", "serving"},
         UNCHANGED <<cfg, store, op, disk, lost, ops>>,
         lock' \in [AllHomes -> Locks], faults' \in Nat,
         NEW step \in {"off", "try", "look", "steal", "version", "apply", "guard", "release"},
         \/ Go(k, step) /\ boot[k].pc # "release"
         \/ End(k, FALSE)
  PROVE  IInv'
<1>1. /\ Accepted(cfg) /\ cfg \in Configs /\ op.kind # "restore"
      /\ boot[k].at \in DOMAIN cfg.roster
  BY Targets
<1>2. boot[k] \in Where /\ store \in [AllHomes -> Store] /\ ops \in Nat
  BY Types DEF IInv
<1>3. boot[k].pc # "release" => ~boot[k].ok
  BY DEF IInv, Aimed
<1>4. \A i \in 1 .. boot[k].at - 1 : store[Home(cfg, cfg.roster[i])].key # "published"
  <2>1. boot[k].at \in Nat
    BY <1>2 DEF Where
  <2>2. 1 .. boot[k].at - 1 \subseteq Judged(boot[k])
    BY <2>1 DEF Judged
  <2> QED
    BY <2>2 DEF IInv, KeysJudged
<1>5. CASE Go(k, step) /\ boot[k].pc # "release"
  <2> DEFINE b == [boot[k] EXCEPT !.pc = step]
  <2>1. b \in Where /\ b.at = boot[k].at /\ b.pc = step /\ ~b.ok
    BY <1>2, <1>3, <1>5 DEF Where, Locked
  <2>2. boot' = [boot EXCEPT ![k] = b]
    BY <1>5 DEF Go
  <2>3. Judged(b) = 1 .. boot[k].at - 1
    BY <2>1 DEF Judged
  <2> HIDE DEF b
  <2> QED
    BY <1>1, <1>2, <1>4, <2>1, <2>2, <2>3, KernelStep
<1>6. CASE End(k, FALSE)
  <2> DEFINE b == [boot[k] EXCEPT !.pc = "release", !.ok = FALSE]
  <2>1. b \in Where /\ b.at = boot[k].at /\ b.pc = "release" /\ ~b.ok
    BY <1>2 DEF Where, Locked
  <2>2. boot' = [boot EXCEPT ![k] = b]
    BY <1>6 DEF End
  <2>3. Judged(b) = 1 .. boot[k].at - 1
    BY <2>1 DEF Judged
  <2> HIDE DEF b
  <2> QED
    BY <1>1, <1>2, <1>4, <2>1, <2>2, <2>3, KernelStep
<1> QED
  BY <1>5, <1>6

\* A process that starts has judged nothing.
LEMMA StartHolds ==
  ASSUME IInv, NEW k \in Kernel, Start(k)
  PROVE  IInv'
<1> DEFINE b == [Off EXCEPT !.pc = "try", !.at = 1]
<1>1. b \in Where /\ b.at = 1 /\ b.pc = "try" /\ ~b.ok
  BY DEF Off, Where
<1>2. boot' = [boot EXCEPT ![k] = b]
  BY DEF Start
<1>3. Judged(b) = {}
  BY <1>1 DEF Judged
<1>4. TypeOK /\ ops \in Nat /\ cfg \in Configs
  BY DEF IInv, TypeOK
<1>5. ops' \in Nat
  BY <1>4 DEF Start
<1>6. Accepted(cfg) /\ op.kind # "restore"
  BY DEF Start
<1>7. b.at \in DOMAIN cfg.roster
  BY <1>1, <1>4, <1>6, Rosters
<1> HIDE DEF b
<1> QED
  BY <1>1, <1>2, <1>3, <1>4, <1>5, <1>6, <1>7, KernelStep, Types DEF Start

\* The boot lock.
LEMMA LockHolds ==
  ASSUME IInv, NEW k \in Kernel, TryLock(k) \/ Look(k) \/ Steal(k)
  PROVE  IInv'
<1>1. TypeOK /\ faults \in Nat /\ lock \in [AllHomes -> Locks]
  BY Types DEF IInv
<1>2. boot[k].pc \in {"try", "look", "steal"}
  BY DEF TryLock, Look, Steal
<1>3. CASE TryLock(k)
  <2>1. lock' \in [AllHomes -> Locks]
    BY <1>1, <1>3 DEF TryLock, Free, Locks
  <2>2. \E step \in {"off", "version", "look"} : Go(k, step)
    BY <1>3 DEF TryLock
  <2> QED
    BY <1>1, <1>2, <1>3, <2>1, <2>2, MoveHolds DEF TryLock
<1>4. CASE Look(k)
  <2>1. \E step \in {"steal", "try", "off"} : Go(k, step)
    BY <1>4 DEF Look
  <2> QED
    BY <1>1, <1>2, <1>4, <2>1, MoveHolds DEF Look
<1>5. CASE Steal(k)
  <2>1. lock' \in [AllHomes -> Locks]
    BY <1>1, <1>5, Initials DEF Steal
  <2>2. \E step \in {"try", "off"} : Go(k, step)
    BY <1>5 DEF Steal
  <2> QED
    BY <1>1, <1>2, <1>5, <2>1, <2>2, MoveHolds DEF Steal
<1> QED
  BY <1>3, <1>4, <1>5

\* The version check and the failures.
LEMMA CheckHolds ==
  ASSUME IInv, NEW k \in Kernel, ReadVersion(k) \/ Fail(k)
  PROVE  IInv'
<1>1. TypeOK /\ faults \in Nat /\ lock \in [AllHomes -> Locks]
  BY Types DEF IInv
<1>2. CASE ReadVersion(k)
  <2>1. boot[k].pc = "version"
    BY <1>2 DEF ReadVersion
  <2>2. Go(k, "guard") \/ Go(k, "apply") \/ End(k, FALSE)
    BY <1>2 DEF ReadVersion
  <2> QED
    BY <1>1, <1>2, <2>1, <2>2, MoveHolds DEF ReadVersion
<1>3. CASE Fail(k)
  <2>1. boot[k].pc \notin {"off", "serving"}
    BY <1>3 DEF Fail, Locked
  <2>2. End(k, FALSE) /\ faults' = faults + 1
    BY <1>3 DEF Fail
  <2>3. faults' \in Nat
    BY <1>1, <2>2
  <2> QED
    BY <1>1, <1>3, <2>1, <2>2, <2>3, MoveHolds DEF Fail
<1> QED
  BY <1>2, <1>3

\* A migration of the meta schema: no document, no published key.
LEMMA ApplyHolds ==
  ASSUME IInv, NEW k \in Kernel, Apply(k)
  PROVE  IInv'
<1>1. boot[k].pc = "apply"
  BY DEF Apply
<1>2. /\ Accepted(cfg) /\ cfg \in Configs /\ op.kind # "restore"
      /\ boot[k].at \in DOMAIN cfg.roster /\ Target(k) \in AllHomes
  BY <1>1, Targets
<1>3. TypeOK /\ boot[k] \in Where /\ store \in [AllHomes -> Store]
  BY Types DEF IInv
<1>4. Binary[k] \in Nat
  BY StartupAssumption DEF StartupAssumption
<1> DEFINE h == Target(k)  s == Migrated(store[h], Binary[k])
<1>5. s \in Store /\ s.docs = store[h].docs /\ (store[h].key # "published" => s.key # "published")
  BY <1>2, <1>3, <1>4 DEF Migrated, Sealed, Store
<1>6. store' = [store EXCEPT ![h] = s]
  BY DEF Apply
<1> HIDE DEF s, h
<1>7. /\ store' \in [AllHomes -> Store]
      /\ \A g \in AllHomes : /\ store'[g].docs = store[g].docs
                             /\ store[g].key # "published" => store'[g].key # "published"
  BY <1>3, <1>5, <1>6
<1> DEFINE b == [boot[k] EXCEPT !.pc = "guard"]
<1>8. ~boot[k].ok
  BY <1>1 DEF IInv, Aimed
<1>9. b \in Where /\ b.at = boot[k].at /\ b.pc = "guard" /\ ~b.ok
  BY <1>3, <1>8 DEF Where, Locked
<1>10. boot' = [boot EXCEPT ![k] = b]
  BY DEF Apply, Go
<1>11. Judged(b) = 1 .. boot[k].at - 1 /\ Judged(boot[k]) = 1 .. boot[k].at - 1
  BY <1>1, <1>8, <1>9 DEF Judged
<1>12. \A i \in Judged(b) : store'[Home(cfg, cfg.roster[i])].key # "published"
  <2> SUFFICES ASSUME NEW i \in 1 .. boot[k].at - 1
               PROVE  store'[Home(cfg, cfg.roster[i])].key # "published"
    BY <1>11
  <2>1. store[Home(cfg, cfg.roster[i])].key # "published"
    BY <1>1, <1>11 DEF IInv, KeysJudged
  <2>2. i \in DOMAIN cfg.roster
    BY <1>2, Rosters
  <2>3. Home(cfg, cfg.roster[i]) \in AllHomes
    BY <1>2, <2>2, Rosters, HomesExist
  <2> QED
    BY <1>7, <2>1, <2>3
<1> HIDE DEF b
<1> QED
  BY <1>2, <1>3, <1>7, <1>9, <1>10, <1>12, KernelStep, Types DEF Apply

\* The keyguard lets a kernel past its target only when the key is its own.
LEMMA KeyGuardHolds ==
  ASSUME IInv, NEW k \in Kernel, KeyGuard(k)
  PROVE  IInv'
<1>1. boot[k].pc = "guard"
  BY DEF KeyGuard
<1>2. /\ Accepted(cfg) /\ cfg \in Configs /\ op.kind # "restore"
      /\ boot[k].at \in DOMAIN cfg.roster
  BY <1>1, Targets
<1>3. TypeOK /\ boot[k] \in Where /\ faults \in Nat /\ ops \in Nat
      /\ store \in [AllHomes -> Store] /\ lock \in [AllHomes -> Locks]
  BY Types DEF IInv
<1>4. CASE End(k, FALSE)
  BY <1>1, <1>3, <1>4, MoveHolds DEF KeyGuard
<1>5. CASE ~AcceptsForgery(store[Target(k)]) /\ Go(k, "reread")
  <2> DEFINE b == [boot[k] EXCEPT !.pc = "reread"]
  <2>1. ~boot[k].ok
    BY <1>1 DEF IInv, Aimed
  <2>2. b \in Where /\ b.at = boot[k].at /\ b.pc = "reread" /\ ~b.ok
    BY <1>3, <2>1 DEF Where, Locked
  <2>3. boot' = [boot EXCEPT ![k] = b]
    BY <1>5 DEF Go
  <2>4. Judged(b) = 1 .. boot[k].at /\ Judged(boot[k]) = 1 .. boot[k].at - 1
    BY <1>1, <2>1, <2>2 DEF Judged
  <2>5. \A i \in 1 .. boot[k].at - 1 : store[Home(cfg, cfg.roster[i])].key # "published"
    BY <1>1, <2>4 DEF IInv, KeysJudged
  <2>6. store[Home(cfg, cfg.roster[boot[k].at])].key # "published"
    BY <1>5 DEF AcceptsForgery, Target
  <2>7. boot[k].at \in Nat
    BY <1>3 DEF Where
  <2>8. \A i \in Judged(b) : store[Home(cfg, cfg.roster[i])].key # "published"
    <3> SUFFICES ASSUME NEW i \in 1 .. boot[k].at
                 PROVE  store[Home(cfg, cfg.roster[i])].key # "published"
      BY <2>4
    <3>1. i = boot[k].at \/ i \in 1 .. boot[k].at - 1
      BY <2>7
    <3> QED
      BY <2>5, <2>6, <3>1
  <2> HIDE DEF b
  <2> QED
    BY <1>2, <1>3, <2>2, <2>3, <2>8, KernelStep DEF KeyGuard
<1> QED
  BY <1>4, <1>5 DEF KeyGuard

\* The last check of a target decides nothing about keys.
LEMMA RereadHolds ==
  ASSUME IInv, NEW k \in Kernel, Reread(k)
  PROVE  IInv'
<1>1. boot[k].pc = "reread"
  BY DEF Reread
<1>2. /\ Accepted(cfg) /\ cfg \in Configs /\ op.kind # "restore"
      /\ boot[k].at \in DOMAIN cfg.roster
  BY <1>1, Targets
<1>3. TypeOK /\ boot[k] \in Where /\ faults \in Nat /\ ops \in Nat
      /\ store \in [AllHomes -> Store] /\ lock \in [AllHomes -> Locks]
  BY Types DEF IInv
<1> DEFINE fine == DbVersion(Target(k)) = Binary[k]
           b == [boot[k] EXCEPT !.pc = "release", !.ok = fine]
<1>4. fine \in BOOLEAN
  OBVIOUS
<1>5. boot' = [boot EXCEPT ![k] = b]
  BY DEF Reread, End
<1> HIDE DEF fine
<1>6. b \in Where /\ b.at = boot[k].at /\ b.pc = "release" /\ b.ok = fine
  BY <1>3, <1>4 DEF Where, Locked
<1>7. boot[k].at \in Nat
  BY <1>3 DEF Where
<1>8. Judged(b) \subseteq Judged(boot[k])
  BY <1>1, <1>6, <1>7 DEF Judged
<1>9. \A i \in Judged(b) : store[Home(cfg, cfg.roster[i])].key # "published"
  BY <1>1, <1>8 DEF IInv, KeysJudged
<1> HIDE DEF b
<1> QED
  BY <1>2, <1>3, <1>5, <1>6, <1>9, KernelStep DEF Reread

\* A kernel serves when the last target of its roster has been judged.
LEMMA ReleaseHolds ==
  ASSUME IInv, NEW k \in Kernel, Release(k)
  PROVE  IInv'
<1>1. boot[k].pc = "release"
  BY DEF Release
<1>2. /\ Accepted(cfg) /\ cfg \in Configs /\ op.kind # "restore"
      /\ boot[k].at \in DOMAIN cfg.roster /\ Target(k) \in AllHomes
  BY <1>1, Targets
<1>3. TypeOK /\ boot[k] \in Where /\ faults \in Nat /\ ops \in Nat
      /\ store \in [AllHomes -> Store] /\ lock \in [AllHomes -> Locks]
  BY Types DEF IInv
<1>4. lock' \in [AllHomes -> Locks]
  BY <1>3, Initials DEF Release
<1>5. Len(cfg.roster) \in Nat /\ DOMAIN cfg.roster = 1 .. Len(cfg.roster)
  BY <1>2, Rosters
<1>6. boot[k].at \in Nat
  BY <1>3 DEF Where
<1> DEFINE b == Verdict(k)
<1>7. /\ b \in Where /\ ~b.ok
      /\ b.pc \notin {"off", "serving"} => b.at \in DOMAIN cfg.roster
      /\ b.pc # "off" => Judged(b) \subseteq Judged(boot[k])
  <2>1. CASE ~boot[k].ok
    BY <2>1, Initials DEF Verdict, Off
  <2>2. CASE boot[k].ok /\ boot[k].at < Len(cfg.roster)
    <3> DEFINE next == boot[k].at + 1
    <3>0. next \in Nat
      BY <1>6
    <3> HIDE DEF next
    <3>1. b = [pc |-> "try", at |-> next, ok |-> FALSE]
      BY <2>2 DEF Verdict, Off, next
    <3> HIDE DEF b
    <3>2. b \in Where /\ ~b.ok /\ b.pc = "try" /\ b.at = next
      BY <3>0, <3>1 DEF Where
    <3> USE DEF next
    <3>3. Judged(b) = 1 .. boot[k].at /\ Judged(boot[k]) = 1 .. boot[k].at
      BY <1>1, <1>6, <2>2, <3>2 DEF Judged
    <3>4. b.at \in DOMAIN cfg.roster
      BY <1>5, <1>6, <2>2, <3>2
    <3> QED
      BY <3>2, <3>3, <3>4
  <2>3. CASE boot[k].ok /\ ~(boot[k].at < Len(cfg.roster))
    <3>1. b = [Off EXCEPT !.pc = IF k \in Server THEN "serving" ELSE "off"]
      BY <2>3 DEF Verdict
    <3> HIDE DEF b
    <3>2. b \in Where /\ ~b.ok /\ b.pc \in {"serving", "off"}
      BY <3>1 DEF Off, Where
    <3>3. boot[k].at = Len(cfg.roster)
      BY <1>2, <1>5, <2>3
    <3>4. Judged(boot[k]) = 1 .. Len(cfg.roster)
      BY <1>1, <2>3, <3>3 DEF Judged
    <3>5. b.pc = "serving" => Judged(b) = 1 .. Len(cfg.roster)
      BY <1>5 DEF Judged
    <3> QED
      BY <3>2, <3>4, <3>5
  <2> QED
    BY <2>1, <2>2, <2>3
<1>8. boot' = [boot EXCEPT ![k] = b]
  BY DEF Release
<1> HIDE DEF b
<1>9. b.pc # "off" => \A i \in Judged(b) : store[Home(cfg, cfg.roster[i])].key # "published"
  BY <1>1, <1>7 DEF IInv, KeysJudged
<1> QED
  BY <1>2, <1>3, <1>4, <1>7, <1>8, <1>9, KernelStep DEF Release

\* A process that dies, or is stopped, judges nothing.
LEMMA EndsHolds ==
  ASSUME IInv, NEW k \in Kernel, Crash(k) \/ Stop(k)
  PROVE  IInv'
<1>1. boot[k].pc # "off" /\ boot' = [boot EXCEPT ![k] = Off]
  BY DEF Crash, Stop
<1>2. Accepted(cfg) /\ op.kind # "restore"
  BY <1>1 DEF IInv, Standing, RestoresAlone
<1>3. TypeOK /\ faults \in Nat /\ ops \in Nat
      /\ store \in [AllHomes -> Store] /\ lock \in [AllHomes -> Locks]
  BY Types DEF IInv
<1>4. faults' \in Nat /\ ops' \in Nat /\ UNCHANGED <<cfg, store, lock, op, disk, lost>>
  BY <1>3 DEF Crash, Stop, Command
<1>5. Off \in Where /\ Off.pc = "off" /\ ~Off.ok
  BY Initials DEF Off
<1> QED
  BY <1>1, <1>2, <1>3, <1>4, <1>5, KernelStep

-----------------------------------------------------------------------------
(* The operator.                                                            *)

\* What holds of the kernels while they rest.
LEMMA KernelsKept ==
  ASSUME IInv, UNCHANGED <<cfg, boot>>,
         op'.pc # "idle" => op.pc # "idle" \/ Accepted(cfg),
         \/ \A k \in Kernel : boot[k].pc = "off"
         \/ \A h \in AllHomes : store[h].key # "published" => store'[h].key # "published"
  PROVE  Standing' /\ Aimed' /\ KeysJudged'
<1>1. Standing'
  BY DEF IInv, Standing
<1>2. Aimed'
  BY DEF IInv, Aimed
<1>3. KeysJudged'
  <2> SUFFICES ASSUME NEW k \in Kernel, boot[k].pc # "off", NEW i \in Judged(boot[k])
               PROVE  store'[Home(cfg, cfg.roster[i])].key # "published"
    BY DEF KeysJudged, Judged
  <2>1. store[Home(cfg, cfg.roster[i])].key # "published"
    BY DEF IInv, KeysJudged
  <2>2. Accepted(cfg) /\ cfg \in Configs
    BY DEF IInv, Standing, TypeOK
  <2>3. boot[k] \in Where
    BY Types DEF IInv
  <2>4. i \in DOMAIN cfg.roster
    <3>1. boot[k].at \in Nat
      BY <2>3 DEF Where
    <3>2. boot[k].pc # "serving" => boot[k].at \in 1 .. Len(cfg.roster)
      BY <2>2, Rosters DEF IInv, Aimed
    <3>3. Len(cfg.roster) \in Nat /\ DOMAIN cfg.roster = 1 .. Len(cfg.roster)
      BY <2>2, Rosters
    <3> QED
      BY <3>1, <3>2, <3>3 DEF Judged
  <2>5. Home(cfg, cfg.roster[i]) \in AllHomes
    BY <2>2, <2>4, Rosters, HomesExist
  <2> QED
    BY <2>1, <2>5
<1> QED
  BY <1>1, <1>2, <1>3

\* Documents are where they belong after a step that puts them there.
LEMMA PlacedNext ==
  ASSUME cfg' = cfg,
         \A h \in AllHomes : Placed(store'[h].docs, h),
         Placed(op'.dump.docs, Home(cfg, op'.tenant)),
         \A d \in Dir : Placed(disk'[d].dump.docs, Home(cfg, disk'[d].tenant))
  PROVE  AllPlaced'
BY DEF AllPlaced, Placed, Scope

\* Nothing is misplaced where nothing is.
LEMMA NothingMisplaced ==
  ASSUME NEW h
  PROVE  Placed(NoDocs, h) /\ Placed(Gone.docs, h) /\ Placed(Empty.docs, h)
         /\ Placed(NoOp.dump.docs, h)
<1>1. Placed(NoDocs, h)
  BY DEF Placed, NoDocs
<1>2. NoOp.dump = Gone
  BY DEF NoOp
<1> QED
  BY <1>1, <1>2, Initials

\* A command that is running has its target and its directory.
LEMMA Scoped ==
  ASSUME IInv, op.pc # "idle"
  PROVE  /\ Accepted(cfg) /\ cfg \in Configs
         /\ op.tenant \in Registered(cfg) /\ op.tenant \in Tenant
         /\ Scope \in AllHomes
         /\ op.output \in Dir
         /\ op.kind \in {"backup", "restore"}
<1>1. Accepted(cfg) /\ cfg \in Configs
  BY DEF IInv, Standing, TypeOK
<1>2. op.tenant \in Registered(cfg) /\ op.output \in Dir /\ op.kind # "none"
  BY DEF IInv, OpShape
<1>3. op.tenant \in Tenant /\ Scope \in AllHomes
  BY <1>1, <1>2, HomesExist DEF Scope
<1>4. op.kind \in {"none", "backup", "restore"}
  BY Types DEF IInv, Commands
<1> QED
  BY <1>1, <1>2, <1>3, <1>4

\* A lock grows old.
LEMMA AgeHolds ==
  ASSUME IInv, NEW h \in AllHomes, Age(h)
  PROVE  IInv'
<1>1. lock' \in [AllHomes -> Locks]
  <2>1. lock \in [AllHomes -> Locks]
    BY Types DEF IInv
  <2> QED
    BY <2>1 DEF Age, Locks
<1>2. TypeOK'
  BY <1>1 DEF IInv, TypeOK, Age, Locks
<1>3. Standing' /\ Aimed' /\ KeysJudged'
  BY KernelsKept DEF Age
<1>4. RestoresAlone'
  BY DEF IInv, RestoresAlone, Age
<1>5. OpShape'
  BY DEF IInv, OpShape, Age, Scope
<1>6. AllPlaced'
  BY DEF IInv, AllPlaced, Placed, Age, Scope
<1>7. SafetyBackupHolds'
  BY DEF IInv, SafetyBackupHolds, Age
<1> QED
  BY <1>2, <1>3, <1>4, <1>5, <1>6, <1>7 DEF IInv

\* A step that leaves everything as it is.
LEMMA StutterHolds ==
  ASSUME IInv, UNCHANGED vars
  PROVE  IInv'
<1>1. TypeOK'
  BY DEF IInv, TypeOK, vars
<1>2. Standing' /\ Aimed' /\ KeysJudged'
  BY KernelsKept DEF vars
<1>3. RestoresAlone' /\ OpShape'
  BY DEF IInv, RestoresAlone, OpShape, vars, Scope
<1>4. AllPlaced'
  BY DEF IInv, AllPlaced, Placed, vars, Scope
<1>5. SafetyBackupHolds'
  BY DEF IInv, SafetyBackupHolds, vars
<1> QED
  BY <1>1, <1>2, <1>3, <1>4, <1>5 DEF IInv

\* A client writes where its tenant lives, and no restore is on.
LEMMA WriteHolds ==
  ASSUME IInv, NEW k \in Kernel, NEW t \in Tenant, Write(k, t)
  PROVE  IInv'
<1>1. /\ Accepted(cfg) /\ cfg \in Configs /\ op.kind # "restore" /\ t \in Registered(cfg)
      /\ UNCHANGED <<cfg, lock, boot, op, disk, lost, ops, faults>>
  BY DEF Write, IInv, Standing, RestoresAlone, TypeOK
<1> DEFINE h == Home(cfg, t)  docs == [store[h].docs EXCEPT ![t] = @ + 1]
<1>2. h \in AllHomes
  BY <1>1, HomesExist
<1>3. TypeOK /\ store \in [AllHomes -> Store] /\ store[h] \in Store
  BY <1>2, Types DEF IInv
<1>4. store' = [store EXCEPT ![h] = [store[h] EXCEPT !.docs = docs]]
  BY DEF Write
<1>5. store[h].docs \in [Tenant -> Nat]
  BY <1>3 DEF Store
<1>6. docs \in [Tenant -> Nat] /\ \A u \in Tenant \ {t} : docs[u] = store[h].docs[u]
  BY <1>5
<1>7. Placed(docs, h)
  <2>1. Placed(store[h].docs, h)
    BY <1>2 DEF IInv, AllPlaced
  <2> QED
    BY <1>1, <1>6, <2>1 DEF Placed
<1> HIDE DEF docs, h
<1>8. /\ store' \in [AllHomes -> Store]
      /\ store'[h].docs = docs
      /\ \A g \in AllHomes : store'[g].key = store[g].key
      /\ \A g \in AllHomes \ {h} : store'[g] = store[g]
  BY <1>2, <1>3, <1>4, <1>6 DEF Store
<1>9. TypeOK'
  BY <1>1, <1>3, <1>8 DEF TypeOK
<1>10. Standing' /\ Aimed' /\ KeysJudged'
  BY <1>1, <1>8, KernelsKept
<1>11. RestoresAlone'
  BY <1>1 DEF RestoresAlone
<1>12. OpShape'
  BY <1>1 DEF IInv, OpShape
<1>13. AllPlaced'
  <2>1. \A g \in AllHomes : Placed(store'[g].docs, g)
    BY <1>7, <1>8 DEF IInv, AllPlaced
  <2> QED
    BY <1>1, <2>1, PlacedNext DEF IInv, AllPlaced, Scope
<1>14. SafetyBackupHolds'
  BY <1>1 DEF IInv, SafetyBackupHolds
<1> QED
  BY <1>9, <1>10, <1>11, <1>12, <1>13, <1>14 DEF IInv

\* A refused configuration has no process, no command and no document.
LEMMA ReconfigureHolds ==
  ASSUME IInv, Reconfigure
  PROVE  IInv'
<1>1. /\ ~Accepted(cfg) /\ cfg' \in Configs
      /\ UNCHANGED <<store, lock, boot, op, disk, lost, ops, faults>>
  BY DEF Reconfigure
<1>2. op.pc = "idle" /\ op.kind = "none" /\ \A k \in Kernel : boot[k].pc = "off" /\ ~boot[k].ok
  BY <1>1 DEF IInv, Standing, OpShape, Aimed
<1>3. TypeOK'
  BY <1>1 DEF IInv, TypeOK
<1>4. Standing' /\ Aimed' /\ KeysJudged' /\ RestoresAlone'
  BY <1>1, <1>2 DEF Standing, Aimed, KeysJudged, RestoresAlone
<1>5. OpShape'
  BY <1>1, <1>2 DEF OpShape
<1>6. AllPlaced'
  BY <1>1 DEF IInv, AllPlaced, Placed
<1>7. SafetyBackupHolds'
  BY <1>1 DEF IInv, SafetyBackupHolds
<1> QED
  BY <1>3, <1>4, <1>5, <1>6, <1>7 DEF IInv

\* Provisioning seals a database and leaves its documents.
LEMMA ProvisionHolds ==
  ASSUME IInv, NEW t \in Tenant, Provision(t)
  PROVE  IInv'
<1>1. /\ Accepted(cfg) /\ cfg \in Configs /\ t \in Registered(cfg) /\ op.pc = "idle"
      /\ ops' = ops + 1
      /\ UNCHANGED <<cfg, lock, boot, op, disk, lost, faults>>
  BY DEF Provision, Command, IInv, TypeOK
<1> DEFINE h == Home(cfg, t)  s == Sealed([store[h] EXCEPT !.exists = TRUE])
<1>2. h \in AllHomes
  BY <1>1, HomesExist
<1>3. TypeOK /\ store \in [AllHomes -> Store] /\ store[h] \in Store
  BY <1>2, Types DEF IInv
<1>4. store' = [store EXCEPT ![h] = s]
  BY DEF Provision
<1>5. s \in Store /\ s.docs = store[h].docs /\ (store[h].key # "published" => s.key # "published")
  BY <1>3 DEF Sealed, Store
<1> HIDE DEF s, h
<1>6. /\ store' \in [AllHomes -> Store]
      /\ \A g \in AllHomes : /\ store'[g].docs = store[g].docs
                             /\ store[g].key # "published" => store'[g].key # "published"
  BY <1>2, <1>3, <1>4, <1>5
<1>7. TypeOK'
  BY <1>1, <1>3, <1>6 DEF TypeOK
<1>8. Standing' /\ Aimed' /\ KeysJudged'
  BY <1>1, <1>6, KernelsKept
<1>9. RestoresAlone'
  BY <1>1 DEF IInv, RestoresAlone
<1>10. OpShape'
  BY <1>1 DEF IInv, OpShape
<1>11. AllPlaced'
  BY <1>1, <1>6, PlacedNext DEF IInv, AllPlaced, Scope
<1>12. SafetyBackupHolds'
  BY <1>1 DEF IInv, SafetyBackupHolds
<1> QED
  BY <1>7, <1>8, <1>9, <1>10, <1>11, <1>12 DEF IInv

-----------------------------------------------------------------------------
(* Backups and restores.                                                    *)

\* A command begins.
LEMMA BeginHolds ==
  ASSUME IInv, NEW t \in Tenant, NEW in \in Dir, NEW out \in Dir,
         BeginBackup(t, out) \/ BeginRestore(t, in, out)
  PROVE  IInv'
<1>1. /\ Accepted(cfg) /\ cfg \in Configs /\ t \in Registered(cfg)
      /\ op.pc = "idle" /\ ops' = ops + 1 /\ disk[out] = NoBackup
      /\ UNCHANGED <<cfg, store, lock, boot, disk, lost, faults>>
  BY DEF BeginBackup, BeginRestore, Command, OutputFree, IInv, TypeOK
<1>2. TypeOK
  BY DEF IInv
<1>3. /\ op' \in Commands
      /\ op'.pc = "export" /\ op'.tenant = t /\ op'.output = out /\ op'.dump = Gone
      /\ \/ op'.kind = "backup"
         \/ /\ op'.kind = "restore" /\ op'.input = in /\ in # out /\ Matches(in, t)
            /\ IsolatedPlan(cfg) /\ \A k \in Kernel : boot[k].pc = "off"
  <2>1. CASE BeginBackup(t, out)
    <3>1. op' = [NoOp EXCEPT !.pc = "export", !.kind = "backup", !.tenant = t, !.output = out]
      BY <2>1 DEF BeginBackup
    <3>2. op' \in Commands
      BY <3>1, Initials DEF Commands
    <3> QED
      BY <3>1, <3>2 DEF NoOp
  <2>2. CASE BeginRestore(t, in, out)
    <3>1. op' = [NoOp EXCEPT !.pc = "export", !.kind = "restore", !.tenant = t,
                             !.input = in, !.output = out]
      BY <2>2 DEF BeginRestore
    <3>2. op' \in Commands
      BY <3>1, Initials DEF Commands
    <3>3. /\ op'.pc = "export" /\ op'.kind = "restore" /\ op'.tenant = t
          /\ op'.input = in /\ op'.output = out /\ op'.dump = Gone
      BY <3>1 DEF NoOp
    <3> QED
      BY <2>2, <3>2, <3>3 DEF BeginRestore
  <2> QED
    BY <2>1, <2>2
<1>4. TypeOK'
  BY <1>1, <1>2, <1>3 DEF TypeOK, Commands
<1>5. Standing' /\ Aimed' /\ KeysJudged'
  BY <1>1, KernelsKept
<1>6. RestoresAlone'
  BY <1>1, <1>3 DEF RestoresAlone
<1>7. OpShape'
  BY <1>1, <1>3 DEF OpShape, Matches
<1>8. AllPlaced'
  BY <1>1, <1>3, PlacedNext, NothingMisplaced DEF IInv, AllPlaced
<1>9. SafetyBackupHolds'
  BY <1>1 DEF IInv, SafetyBackupHolds
<1> QED
  BY <1>4, <1>5, <1>6, <1>7, <1>8, <1>9 DEF IInv

\* What a command leaves behind when it ends, well or not.
LEMMA CommandEnds ==
  ASSUME IInv, op.pc # "idle", op' = NoOp,
         UNCHANGED <<cfg, lock, boot, ops>>, faults' \in Nat,
         store' \in [AllHomes -> Store], disk' \in [Dir -> Backups],
         store' = store \/ op.kind = "restore",
         \A h \in AllHomes : Placed(store'[h].docs, h),
         \A d \in Dir : Placed(disk'[d].dump.docs, Home(cfg, disk'[d].tenant)),
         lost' \subseteq lost, SafetyBackupHolds'
  PROVE  IInv'
<1>1. TypeOK'
  BY Initials DEF IInv, TypeOK, Commands, Backups
<1>2. Standing' /\ Aimed' /\ KeysJudged'
  BY KernelsKept DEF IInv, RestoresAlone
<1>3. RestoresAlone' /\ OpShape'
  BY DEF NoOp, RestoresAlone, OpShape
<1>4. AllPlaced'
  BY PlacedNext, NothingMisplaced
<1> QED
  BY <1>1, <1>2, <1>3, <1>4 DEF IInv

\* The same for a command that goes on.
LEMMA CommandGoesOn ==
  ASSUME IInv, op.pc # "idle", op' \in Commands,
         op'.pc # "idle", op'.tenant = op.tenant, op'.kind = op.kind, op'.output = op.output,
         op'.input = op.input,
         UNCHANGED <<cfg, boot, ops>>, faults' \in Nat, lock' \in [AllHomes -> Locks],
         store' \in [AllHomes -> Store], disk' \in [Dir -> Backups],
         lost' \subseteq [home : AllHomes, docs : Docs, safety : Dir],
         store' = store \/ op.kind = "restore",
         \A h \in AllHomes : Placed(store'[h].docs, h),
         Placed(op'.dump.docs, Scope),
         \A d \in Dir : Placed(disk'[d].dump.docs, Home(cfg, disk'[d].tenant)),
         op'.pc \in {"export", "publish"} => disk'[op.output] = NoBackup,
         op'.pc \notin {"export", "publish"} => op.kind = "restore",
         op.kind = "restore" =>
           /\ disk'[op.input].tenant = op.tenant
           /\ op'.pc = "publish" => op'.dump.docs = store'[Scope].docs
           /\ op'.pc \in {"rehash", "drop"} =>
                disk'[op.output].good /\ disk'[op.output].dump.docs = store'[Scope].docs,
         SafetyBackupHolds'
  PROVE  IInv'
<1>1. TypeOK'
  BY DEF IInv, TypeOK, Commands, Backups, Locks, Docs
<1>2. Standing' /\ Aimed' /\ KeysJudged'
  BY KernelsKept DEF IInv, RestoresAlone
<1>3. RestoresAlone'
  BY DEF IInv, RestoresAlone
<1>4. Scope' = Scope
  BY DEF Scope
<1>5. OpShape'
  BY <1>4, Scoped DEF IInv, OpShape
<1>6. AllPlaced'
  BY PlacedNext DEF Scope
<1> QED
  BY <1>1, <1>2, <1>3, <1>5, <1>6 DEF IInv

\* The dump holds the documents of its target.
LEMMA ExportHolds ==
  ASSUME IInv, Export
  PROVE  IInv'
<1>1. op.pc = "export" /\ UNCHANGED <<cfg, store, lock, boot, disk, lost, ops, faults>>
  BY DEF Export
<1>2. Scope \in AllHomes /\ op.output \in Dir
  BY <1>1, Scoped
<1>3. /\ TypeOK /\ op \in Commands /\ store[Scope] \in Store /\ store \in [AllHomes -> Store]
      /\ lock \in [AllHomes -> Locks] /\ disk \in [Dir -> Backups] /\ faults \in Nat
      /\ lost \subseteq [home : AllHomes, docs : Docs, safety : Dir]
  BY <1>2, Types DEF IInv
<1>4. SafetyBackupHolds'
  BY <1>1 DEF IInv, SafetyBackupHolds
<1>5. CASE op' = NoOp
  BY <1>1, <1>3, <1>4, <1>5, CommandEnds DEF IInv, AllPlaced
<1>6. CASE op' # NoOp
  <2> DEFINE s == [store[Scope] EXCEPT !.key = IF @ = "none" THEN @ ELSE "published"]
  <2>1. op' = [op EXCEPT !.pc = "publish", !.dump = s]
    BY <1>6 DEF Export
  <2>2. s \in Store /\ s.docs = store[Scope].docs
    BY <1>3 DEF Store
  <2> HIDE DEF s
  <2>3. /\ op' \in Commands /\ op'.pc = "publish" /\ op'.dump = s
        /\ op'.tenant = op.tenant /\ op'.kind = op.kind /\ op'.output = op.output
        /\ op'.input = op.input
    BY <1>3, <2>1, <2>2 DEF Commands
  <2>4. Placed(op'.dump.docs, Scope)
    BY <1>2, <2>2, <2>3 DEF IInv, AllPlaced
  <2>5. disk[op.output] = NoBackup
    BY <1>1 DEF IInv, OpShape
  <2>6. op.kind = "restore" => disk[op.input].tenant = op.tenant
    BY DEF IInv, OpShape
  <2> QED
    BY <1>1, <1>2, <1>3, <1>4, <2>2, <2>3, <2>4, <2>5, <2>6, CommandGoesOn DEF IInv, AllPlaced
<1> QED
  BY <1>5, <1>6

\* A backup is published where nothing was: no safety backup is written over.
LEMMA PublishHolds ==
  ASSUME IInv, Publish
  PROVE  IInv'
<1>1. op.pc = "publish" /\ UNCHANGED <<cfg, store, lock, boot, lost, ops, faults>>
  BY DEF Publish
<1>2. Scope \in AllHomes /\ op.output \in Dir /\ op.tenant \in Tenant
  BY <1>1, Scoped
<1>3. /\ TypeOK /\ op \in Commands /\ store \in [AllHomes -> Store]
      /\ lock \in [AllHomes -> Locks] /\ disk \in [Dir -> Backups] /\ faults \in Nat
      /\ lost \subseteq [home : AllHomes, docs : Docs, safety : Dir]
  BY Types DEF IInv
<1> DEFINE new == [tenant |-> op.tenant, dump |-> op.dump, good |-> TRUE]
<1>4. new \in Backups
  BY <1>2, <1>3 DEF Backups, Commands
<1>5. disk' = [disk EXCEPT ![op.output] = new]
  BY DEF Publish
<1>6. new.tenant = op.tenant /\ new.dump = op.dump /\ new.good
  OBVIOUS
<1> HIDE DEF new
<1>7. /\ disk' \in [Dir -> Backups]
      /\ disk'[op.output] = new
      /\ \A d \in Dir \ {op.output} : disk'[d] = disk[d]
  BY <1>2, <1>3, <1>4, <1>5
<1>8. disk[op.output] = NoBackup
  BY <1>1 DEF IInv, OpShape
<1>9. \A d \in Dir : Placed(disk'[d].dump.docs, Home(cfg, disk'[d].tenant))
  <2>1. Placed(op.dump.docs, Home(cfg, op.tenant))
    BY DEF IInv, AllPlaced, Scope
  <2> QED
    BY <1>6, <1>7, <2>1 DEF IInv, AllPlaced
<1>10. SafetyBackupHolds'
  <2> SUFFICES ASSUME NEW l \in lost PROVE disk'[l.safety].good /\ disk'[l.safety].dump.docs = l.docs
    BY <1>1 DEF SafetyBackupHolds
  <2>1. l.safety \in Dir
    BY <1>3
  <2>2. disk[l.safety].good /\ disk[l.safety].dump.docs = l.docs
    BY DEF IInv, SafetyBackupHolds
  <2>3. l.safety # op.output
    BY <1>8, <2>2 DEF NoBackup
  <2> QED
    BY <1>7, <2>1, <2>2, <2>3
<1>11. \A h \in AllHomes : Placed(store[h].docs, h)
  BY DEF IInv, AllPlaced
<1>12. CASE op.kind # "restore"
  <2>1. op' = NoOp
    BY <1>12 DEF Publish
  <2> QED
    BY <1>1, <1>3, <1>7, <1>9, <1>10, <1>11, <2>1, CommandEnds
<1>13. CASE op.kind = "restore"
  <2>1. op' = [op EXCEPT !.pc = "rehash"]
    BY <1>13 DEF Publish
  <2>2. /\ op' \in Commands /\ op'.pc = "rehash" /\ op'.dump = op.dump
        /\ op'.tenant = op.tenant /\ op'.kind = op.kind /\ op'.output = op.output
        /\ op'.input = op.input
    BY <1>3, <2>1 DEF Commands
  <2>3. /\ op.input \in Dir \ {op.output} /\ disk[op.input].tenant = op.tenant
        /\ op.dump.docs = store[Scope].docs
    BY <1>1, <1>13 DEF IInv, OpShape
  <2>4. disk'[op.output].good /\ disk'[op.output].dump.docs = store[Scope].docs
    BY <1>6, <1>7, <2>3
  <2>5. disk'[op.input].tenant = op.tenant
    BY <1>7, <2>3
  <2>6. Placed(op'.dump.docs, Scope)
    BY <2>2 DEF IInv, AllPlaced
  <2> QED
    BY <1>1, <1>3, <1>7, <1>9, <1>10, <1>11, <1>13, <2>2, <2>4, <2>5, <2>6, CommandGoesOn
<1> QED
  BY <1>12, <1>13

\* What holds of a restore past its safety backup.
LEMMA Restoring ==
  ASSUME IInv, op.pc \notin {"idle", "export", "publish"}
  PROVE  /\ op.kind = "restore"
         /\ op \in Commands /\ op.input \in Dir \ {op.output} /\ op.output \in Dir
         /\ Scope \in AllHomes
         /\ disk[op.input] \in Backups /\ disk[op.input].tenant = op.tenant
         /\ Placed(disk[op.input].dump.docs, Scope)
         /\ store \in [AllHomes -> Store] /\ lock \in [AllHomes -> Locks]
         /\ disk \in [Dir -> Backups] /\ faults \in Nat
         /\ lost \subseteq [home : AllHomes, docs : Docs, safety : Dir]
         /\ \A h \in AllHomes : Placed(store[h].docs, h)
         /\ \A d \in Dir : Placed(disk[d].dump.docs, Home(cfg, disk[d].tenant))
         /\ Placed(op.dump.docs, Scope)
<1>1. op.kind = "restore"
  BY DEF IInv, OpShape
<1>2. /\ op \in Commands /\ disk \in [Dir -> Backups] /\ faults \in Nat
      /\ store \in [AllHomes -> Store] /\ lock \in [AllHomes -> Locks]
      /\ lost \subseteq [home : AllHomes, docs : Docs, safety : Dir]
  BY Types DEF IInv
<1>3. op.input \in Dir \ {op.output} /\ disk[op.input].tenant = op.tenant
  BY <1>1 DEF IInv, OpShape
<1>4. Scope \in AllHomes /\ op.output \in Dir
  BY Scoped
<1>5. /\ \A h \in AllHomes : Placed(store[h].docs, h)
      /\ \A d \in Dir : Placed(disk[d].dump.docs, Home(cfg, disk[d].tenant))
      /\ Placed(op.dump.docs, Scope)
  BY DEF IInv, AllPlaced
<1>6. Placed(disk[op.input].dump.docs, Scope)
  BY <1>3, <1>5 DEF Scope
<1> QED
  BY <1>1, <1>2, <1>3, <1>4, <1>5, <1>6

\* A restore that moves on to its next step.
LEMMA StepShape ==
  ASSUME IInv, NEW pc \in {"drop", "define", "import", "rotate", "check"}, op' = [op EXCEPT !.pc = pc]
  PROVE  /\ op' \in Commands /\ op'.pc = pc /\ op'.dump = op.dump
         /\ op'.tenant = op.tenant /\ op'.kind = op.kind /\ op'.output = op.output
         /\ op'.input = op.input
<1>1. op \in Commands
  BY Types DEF IInv
<1> QED
  BY <1>1 DEF Commands

\* The second look at the source.
LEMMA RehashHolds ==
  ASSUME IInv, Rehash
  PROVE  IInv'
<1>1. op.pc = "rehash" /\ UNCHANGED <<cfg, store, lock, boot, disk, lost, ops, faults>>
  BY DEF Rehash
<1>2. SafetyBackupHolds'
  BY <1>1 DEF IInv, SafetyBackupHolds
<1>3. disk[op.output].good /\ disk[op.output].dump.docs = store[Scope].docs
  BY <1>1, Restoring DEF IInv, OpShape
<1>4. CASE op' = NoOp
  BY <1>1, <1>2, <1>4, Restoring, CommandEnds
<1>5. CASE op' # NoOp
  <2>1. op' = [op EXCEPT !.pc = "drop"]
    BY <1>5 DEF Rehash
  <2> QED
    BY <1>1, <1>2, <1>3, <2>1, StepShape, Restoring, CommandGoesOn
<1> QED
  BY <1>4, <1>5

\* What the reset drops is in the safety backup at that moment.
LEMMA DropHolds ==
  ASSUME IInv, Drop
  PROVE  IInv'
<1>1. op.pc = "drop" /\ UNCHANGED <<cfg, boot, disk, ops, faults>>
  BY DEF Drop
<1>2. /\ Scope \in AllHomes /\ store[Scope] \in Store /\ store[Scope].docs \in Docs
  BY <1>1, Restoring DEF Store, Docs
<1>3. disk[op.output].good /\ disk[op.output].dump.docs = store[Scope].docs
  BY <1>1, Restoring DEF IInv, OpShape
<1>4. op' = [op EXCEPT !.pc = "define"]
  BY DEF Drop, Step
<1>5. store' \in [AllHomes -> Store] /\ lock' \in [AllHomes -> Locks]
  BY <1>1, Restoring, Initials DEF Drop
<1> DEFINE new == [home |-> Scope, docs |-> store[Scope].docs, safety |-> op.output]
<1>6. lost' = lost \cup {new}
  BY DEF Drop
<1>7. new \in [home : AllHomes, docs : Docs, safety : Dir]
  BY <1>1, <1>2, Restoring
<1>8. new.safety = op.output /\ new.docs = store[Scope].docs
  OBVIOUS
<1> HIDE DEF new
<1>9. lost' \subseteq [home : AllHomes, docs : Docs, safety : Dir]
  BY <1>1, <1>6, <1>7, Restoring
<1>10. \A h \in AllHomes : Placed(store'[h].docs, h)
  <2> SUFFICES ASSUME NEW h \in AllHomes PROVE Placed(store'[h].docs, h)
    OBVIOUS
  <2>1. store' = [store EXCEPT ![Scope] = Gone]
    BY DEF Drop
  <2>2. store'[h] = store[h] \/ store'[h] = Gone
    BY <1>1, <2>1, Restoring
  <2> QED
    BY <1>1, <2>2, Restoring, NothingMisplaced
<1>11. SafetyBackupHolds'
  BY <1>1, <1>3, <1>6, <1>8 DEF IInv, SafetyBackupHolds
<1> QED
  BY <1>1, <1>4, <1>5, <1>9, <1>10, <1>11, StepShape, Restoring, CommandGoesOn

\* The steps of a restore that write its target and go on.
LEMMA ReplaceHolds ==
  ASSUME IInv, op.pc \in {"define", "import", "rotate"},
         NEW s \in Store, Placed(s.docs, Scope),
         NEW pc \in {"import", "rotate", "check"},
         store' = [store EXCEPT ![Scope] = s], op' = [op EXCEPT !.pc = pc],
         UNCHANGED <<cfg, lock, boot, disk, lost, ops, faults>>
  PROVE  IInv'
<1>1. SafetyBackupHolds'
  BY DEF IInv, SafetyBackupHolds
<1>2. /\ store' \in [AllHomes -> Store]
      /\ \A h \in AllHomes : store'[h] = IF h = Scope THEN s ELSE store[h]
  BY Restoring
<1>3. \A h \in AllHomes : Placed(store'[h].docs, h)
  BY <1>2, Restoring
<1> QED
  BY <1>1, <1>2, <1>3, StepShape, Restoring, CommandGoesOn

\* The target is defined anew, filled and given a key of its own.
LEMMA RefillHolds ==
  ASSUME IInv, Define \/ Import \/ Rotate
  PROVE  IInv'
<1>1. op.pc \in {"define", "import", "rotate"}
  BY DEF Define, Import, Rotate
<1>2. CASE Define
  <2>1. Empty \in Store /\ Placed(Empty.docs, Scope)
    BY Initials, NothingMisplaced
  <2> QED
    BY <1>1, <1>2, <2>1, ReplaceHolds DEF Define, Step
<1>3. CASE Import
  <2>1. disk[op.input].dump \in Store /\ Placed(disk[op.input].dump.docs, Scope)
    BY <1>1, Restoring DEF Backups
  <2> QED
    BY <1>1, <1>3, <2>1, ReplaceHolds DEF Import, Step
<1>4. CASE Rotate
  <2> DEFINE s == Rotated(store[Scope])
  <2>1. store[Scope] \in Store /\ Placed(store[Scope].docs, Scope)
    BY <1>1, Restoring
  <2>2. s \in Store /\ s.docs = store[Scope].docs
    BY <2>1 DEF Rotated, Store
  <2>3. store' = [store EXCEPT ![Scope] = s]
    BY <1>4 DEF Rotate
  <2> HIDE DEF s
  <2> QED
    BY <1>1, <1>4, <2>1, <2>2, <2>3, ReplaceHolds DEF Rotate, Step
<1> QED
  BY <1>2, <1>3, <1>4

\* An import that stops in the middle leaves some of the dump behind.
LEMMA ImportPartHolds ==
  ASSUME IInv, ImportPart
  PROVE  IInv'
<1>1. op.pc = "import" /\ op' = NoOp /\ UNCHANGED <<cfg, lock, boot, disk, lost, ops>>
  BY DEF ImportPart
<1> DEFINE dump == disk[op.input].dump
<1>2. dump \in Store /\ Placed(dump.docs, Scope)
  BY <1>1, Restoring DEF Backups
<1>3. PICK part \in [version : {0, dump.version}, key : {"none", dump.key}, docs : {NoDocs, dump.docs}] :
        store' = [store EXCEPT ![Scope] =
          [Empty EXCEPT !.version = part.version, !.key = part.key, !.docs = part.docs]]
  BY DEF ImportPart
<1> DEFINE s == [Empty EXCEPT !.version = part.version, !.key = part.key, !.docs = part.docs]
<1>4. /\ part.version \in Nat /\ part.key \in {"none", "private", "published"}
      /\ part.docs \in [Tenant -> Nat] /\ Placed(part.docs, Scope)
  BY <1>2, Initials, NothingMisplaced DEF Store, Docs
<1>5. s \in Store /\ s.docs = part.docs
  BY <1>4, Initials DEF Store
<1>6. store' = [store EXCEPT ![Scope] = s]
  BY <1>3
<1> HIDE DEF s, dump
<1>7. /\ store' \in [AllHomes -> Store]
      /\ \A h \in AllHomes : store'[h] = IF h = Scope THEN s ELSE store[h]
  BY <1>1, <1>5, <1>6, Restoring
<1>8. \A h \in AllHomes : Placed(store'[h].docs, h)
  BY <1>1, <1>4, <1>5, <1>7, Restoring
<1>9. faults' \in Nat
  <2>1. faults' = faults \/ faults' = faults + 1
    BY DEF ImportPart
  <2> QED
    BY <1>1, <2>1, Restoring
<1>10. SafetyBackupHolds'
  BY <1>1 DEF IInv, SafetyBackupHolds
<1> QED
  BY <1>1, <1>7, <1>8, <1>9, <1>10, Restoring, CommandEnds

\* A restore that succeeds answers for what resets dropped there.
LEMMA CheckDone ==
  ASSUME IInv, Check
  PROVE  IInv'
<1>1. op.pc = "check" /\ op' = NoOp /\ UNCHANGED <<cfg, store, lock, boot, disk, ops, faults>>
  BY DEF Check
<1>2. lost' \subseteq lost
  BY DEF Check
<1>3. SafetyBackupHolds'
  BY <1>1, <1>2 DEF IInv, SafetyBackupHolds
<1> QED
  BY <1>1, <1>2, <1>3, Restoring, CommandEnds

\* A command that dies leaves what it has done so far.
LEMMA CutShortHolds ==
  ASSUME IInv, CutShort
  PROVE  IInv'
<1>1. op.pc # "idle" /\ op' = NoOp /\ UNCHANGED <<cfg, store, lock, boot, disk, lost, ops>>
  BY DEF CutShort
<1>2. faults \in Nat /\ store \in [AllHomes -> Store] /\ disk \in [Dir -> Backups]
  BY Types DEF IInv
<1>3. faults' = faults + 1
  BY DEF CutShort
<1>4. faults' \in Nat
  BY <1>2, <1>3
<1>5. SafetyBackupHolds'
  BY <1>1 DEF IInv, SafetyBackupHolds
<1> QED
  BY <1>1, <1>2, <1>4, <1>5, CommandEnds DEF IInv, AllPlaced

\* A damaged source is not a safety backup.
LEMMA DamageHolds ==
  ASSUME IInv, Damage
  PROVE  IInv'
<1>1. /\ op.kind = "restore" /\ UNCHANGED <<cfg, store, lock, boot, op, lost, ops>>
      /\ disk' = [disk EXCEPT ![op.input].good = FALSE]
      /\ \A l \in lost : l.safety # op.input
      /\ faults' = faults + 1
  BY DEF Damage
<1>2. /\ op.input \in Dir \ {op.output}
      /\ op.pc \in {"export", "publish"} => disk[op.output] = NoBackup
      /\ op.pc # "idle"
  BY <1>1 DEF IInv, OpShape
<1>3. disk \in [Dir -> Backups] /\ faults \in Nat
      /\ lost \subseteq [home : AllHomes, docs : Docs, safety : Dir]
  BY Types DEF IInv
<1>4. op.output \in Dir
  BY <1>2, Scoped
<1>5. /\ disk' \in [Dir -> Backups]
      /\ \A d \in Dir : disk'[d].tenant = disk[d].tenant /\ disk'[d].dump = disk[d].dump
      /\ \A d \in Dir \ {op.input} : disk'[d] = disk[d]
  <2> DEFINE new == [disk[op.input] EXCEPT !.good = FALSE]
  <2>1. new \in Backups /\ new.tenant = disk[op.input].tenant /\ new.dump = disk[op.input].dump
    BY <1>2, <1>3 DEF Backups
  <2>2. disk' = [disk EXCEPT ![op.input] = new]
    BY <1>1
  <2> HIDE DEF new
  <2> QED
    BY <1>2, <1>3, <2>1, <2>2
<1>6. faults' \in Nat
  BY <1>1, <1>3
<1>7. TypeOK'
  BY <1>1, <1>5, <1>6 DEF IInv, TypeOK, Backups
<1>8. Standing' /\ Aimed' /\ KeysJudged'
  BY <1>1, KernelsKept
<1>9. RestoresAlone'
  BY <1>1 DEF IInv, RestoresAlone
<1>10. disk'[op.output] = disk[op.output]
  BY <1>2, <1>4, <1>5
<1>11. Scope' = Scope
  BY <1>1 DEF Scope
<1>12. OpShape'
  BY <1>1, <1>2, <1>5, <1>10, <1>11 DEF IInv, OpShape
<1>13. AllPlaced'
  BY <1>1, <1>5, PlacedNext DEF IInv, AllPlaced, Scope
<1>14. SafetyBackupHolds'
  BY <1>1, <1>3, <1>5 DEF IInv, SafetyBackupHolds
<1> QED
  BY <1>7, <1>8, <1>9, <1>12, <1>13, <1>14 DEF IInv

-----------------------------------------------------------------------------
(* The theorems.                                                            *)

\* Every step keeps the invariant.
LEMMA NextHolds == IInv /\ [Next]_vars => IInv'
<1> SUFFICES ASSUME IInv, [Next]_vars PROVE IInv'
  OBVIOUS
<1>1. CASE \E k \in Kernel : Start(k) \/ Boot(k) \/ Fail(k) \/ Crash(k)
  BY <1>1, StartHolds, LockHolds, CheckHolds, ApplyHolds, KeyGuardHolds, RereadHolds,
     ReleaseHolds, EndsHolds DEF Boot
<1>2. CASE \E k \in Kernel, t \in Tenant : Write(k, t)
  BY <1>2, WriteHolds
<1>3. CASE \E h \in AllHomes : Age(h)
  BY <1>3, AgeHolds
<1>4. CASE Operate
  <2>1. CASE Reconfigure
    BY <2>1, ReconfigureHolds
  <2>2. CASE \E k \in Kernel : Stop(k)
    BY <2>2, EndsHolds
  <2>3. CASE \E t \in Tenant : Provision(t)
    BY <2>3, ProvisionHolds
  <2>4. CASE \E t \in Tenant, out \in Dir : BeginBackup(t, out)
    BY <2>4, BeginHolds
  <2>5. CASE \E t \in Tenant, in, out \in Dir : BeginRestore(t, in, out)
    BY <2>5, BeginHolds
  <2> QED
    BY <1>4, <2>1, <2>2, <2>3, <2>4, <2>5 DEF Operate
<1>5. CASE Recover
  BY <1>5, ExportHolds, PublishHolds, RehashHolds, DropHolds, RefillHolds, ImportPartHolds,
     CheckDone DEF Recover
<1>6. CASE CutShort
  BY <1>6, CutShortHolds
<1>7. CASE Damage
  BY <1>7, DamageHolds
<1>8. CASE UNCHANGED vars
  BY <1>8, StutterHolds
<1> QED
  BY <1>1, <1>2, <1>3, <1>4, <1>5, <1>6, <1>7, <1>8 DEF Next

\* The invariant holds of every state, whatever boots, writes, restores and faults do.
THEOREM StartupInvariant == Spec => []IInv
<1>1. Init => IInv
  BY InitHolds
<1>2. IInv /\ [Next]_vars => IInv'
  BY NextHolds
<1> QED
  BY <1>1, <1>2, PTL DEF Spec

\* keyguard.rs: a database with a published key is served by no kernel.
THEOREM PublishedKeysAreNotServed == Spec => []KeyGuarded
<1>1. IInv => KeyGuarded
  <2> SUFFICES ASSUME IInv, NEW k \in Kernel, boot[k].pc = "serving", NEW t \in Registered(cfg)
               PROVE  store[Home(cfg, t)].key # "published"
    BY DEF KeyGuarded
  <2>1. PICK i \in DOMAIN cfg.roster : cfg.roster[i] = t
    BY DEF Registered
  <2>2. i \in Judged(boot[k])
    BY DEF Judged
  <2> QED
    BY <2>1, <2>2 DEF IInv, KeysJudged
<1> QED
  BY <1>1, StartupInvariant, PTL

\* recovery.rs: what a reset dropped is in its safety backup until a restore succeeds.
THEOREM DroppedDataIsBackedUp == Spec => []SafetyBackupHolds
<1>1. IInv => SafetyBackupHolds
  BY DEF IInv
<1> QED
  BY <1>1, StartupInvariant, PTL

\* A restore's target and source hold nothing of another tenant.
LEMMA OneTenantOnly ==
  ASSUME IInv, op.kind = "restore", NEW t \in Tenant \ {op.tenant},
         NEW docs \in [Tenant -> Nat], Placed(docs, Scope)
  PROVE  docs[t] = 0
<1>1. op.pc # "idle" /\ IsolatedPlan(cfg)
  BY DEF IInv, OpShape, RestoresAlone
<1>2. Accepted(cfg)
  BY <1>1, Scoped
<1> QED
  BY <1>1, <1>2, OneTenantPerHome DEF Placed, Scope

\* recovery.rs: a restore changes no document of another tenant.
THEOREM RestoresTouchOneTenant == Spec => OthersUntouched
<1> DEFINE A == op.kind = "restore" /\ op' # op =>
                  \A h \in AllHomes, t \in Tenant \ {op.tenant} : store'[h].docs[t] = store[h].docs[t]
<1>1. IInv /\ [Next]_vars => A
  <2> SUFFICES ASSUME IInv, [Next]_vars, op.kind = "restore", op' # op,
                      NEW h \in AllHomes, NEW t \in Tenant \ {op.tenant}
               PROVE  store'[h].docs[t] = store[h].docs[t]
    OBVIOUS
  <2>1. op.pc # "idle"
    BY DEF IInv, OpShape
  <2>2. Recover \/ CutShort
    BY <2>1 DEF Next, vars, Start, Boot, TryLock, Look, Steal, ReadVersion, Apply, KeyGuard, Reread,
       Release, Fail, Crash, Write, Age, Operate, Command, Reconfigure, Stop, Provision,
       BeginBackup, BeginRestore, Damage
  <2>3. store[h].docs = store'[h].docs \/ h = Scope
    BY <2>2, <2>1, Scoped, Types DEF IInv, Recover, CutShort, Export, Publish, Rehash, Drop, Define,
       Import, ImportPart, Rotate, Check
  <2>4. store[Scope].docs[t] = 0
    <3>1. Scope \in AllHomes
      BY <2>1, Scoped
    <3>2. store[Scope].docs \in [Tenant -> Nat] /\ Placed(store[Scope].docs, Scope)
      BY <3>1, Types DEF IInv, Store, AllPlaced
    <3> QED
      BY <3>2, OneTenantOnly
  <2>5. store'[Scope].docs[t] = 0
    <3>1. IInv'
      BY NextHolds
    <3>2. Scope \in AllHomes
      BY <2>1, Scoped
    <3>3. cfg' = cfg
      BY <2>2 DEF Recover, CutShort, Export, Publish, Rehash, Drop, Define,
         Import, ImportPart, Rotate, Check
    <3>4. store'[Scope].docs \in [Tenant -> Nat]
      <4>1. store' \in [AllHomes -> Store]
        BY <3>1 DEF IInv, TypeOK
      <4> QED
        BY <3>2, <4>1 DEF Store
    <3>5. Placed(store'[Scope].docs, Scope)
      BY <3>1, <3>2, <3>3 DEF IInv, AllPlaced, Placed
    <3> QED
      BY <3>4, <3>5, OneTenantOnly
  <2> QED
    BY <2>3, <2>4, <2>5
<1>2. IInv /\ [Next]_vars => [A]_vars
  BY <1>1
<1> QED
  BY <1>2, StartupInvariant, PTL DEF Spec, OthersUntouched
=============================================================================
