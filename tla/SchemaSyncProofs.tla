--------------------------- MODULE SchemaSyncProofs ---------------------------
(***************************************************************************)
(* Theorems about SchemaSync, for any number of runners, resources, fields, *)
(* edits and faults, and any age at which a lock counts as stale.          *)
(***************************************************************************)
EXTENDS SchemaSync, TLAPS

USE DEF Row, NoRow, Nothing, NoPlan, Kinds, Calls, Inside, Free

\* history_rows: a history yields rows of the table, or the row of an empty one.
LEMMA HistoryRows ==
  ASSUME history \in [Doctype -> SUBSET Row], NEW b \in Histories, NEW d \in Doctype
  PROVE  /\ b[d].version \in Nat /\ b[d].fields \in SUBSET Field
         /\ b[d] \in Newest(history[d])
  BY DEF Histories, Newest

\* load_history: the version that follows a row is a version.
LEMMA NextIsVersion ==
  ASSUME NEW h, h.version \in Nat
  PROVE  NextVersion(h) \in Nat \ {0} /\ NextVersion(h) > h.version
  BY DEF NextVersion

-----------------------------------------------------------------------------
(* Types.                                                                   *)

\* A call that starts knows, wants and is told sets of fields.
LEMMA BeginTypes ==
  ASSUME TypeOK, NEW r \in Runner, NEW call \in Calls,
         NEW where \in {"meta", "create"},
         NEW known \in [Doctype -> SUBSET Field], NEW wanted \in [Doctype -> SUBSET Field],
         NEW loss \in SUBSET Field, edits' \in 0 .. MaxEdits,
         Begin(r, call, where, known, wanted, loss)
  PROVE  TypeOK'
  BY DEF TypeOK, Begin, schema, ghosts

\* Every way to start is such a call.
LEMMA StartTypes == ASSUME TypeOK, NEW r \in Runner, Start(r) PROVE TypeOK'
<1> USE SchemaAssumption
<1>1. CASE StartSync(r)
  <2>1. Sync \in Calls
    BY DEF Sync
  <2>2. edits' \in 0 .. MaxEdits
    BY <1>1 DEF StartSync, TypeOK
  <2>3. Begin(r, Sync, "meta", Nothing, Nothing, {})
    BY <1>1 DEF StartSync
  <2>4. Nothing \in [Doctype -> SUBSET Field] /\ {} \in SUBSET Field
    OBVIOUS
  <2> HIDE DEF Nothing
  <2> QED
    BY <2>1, <2>2, <2>3, <2>4, BeginTypes
<1>2. ASSUME NEW d \in Doctype, NEW f \in Field, StartReclaim(r, d, f) PROVE TypeOK'
  <2>1. Call("reclaim", {d}, {f}, TRUE, 0) \in Calls
    BY DEF Call
  <2>2. edits' \in 0 .. MaxEdits
    BY <1>2 DEF StartReclaim, Edit, TypeOK
  <2>3. Begin(r, Call("reclaim", {d}, {f}, TRUE, 0), "meta", Nothing, Nothing, {f})
    BY <1>2 DEF StartReclaim
  <2>4. Nothing \in [Doctype -> SUBSET Field] /\ {f} \in SUBSET Field
    OBVIOUS
  <2> HIDE DEF Nothing
  <2> QED
    BY <2>1, <2>2, <2>3, <2>4, BeginTypes
<1>3. ASSUME NEW d \in Doctype, NEW F \in SUBSET Field, NEW ack \in BOOLEAN,
             StartUpdate(r, d, F, ack)
      PROVE  TypeOK'
  <2>1. Call("update", {d}, F, ack, 0) \in Calls
    BY DEF Call
  <2>2. edits' \in 0 .. MaxEdits
    <3>1. Edit
      BY <1>3 DEF StartUpdate
    <3> QED
      BY <3>1 DEF Edit, TypeOK
  <2>3. PICK snap \in Histories :
          Begin(r, Call("update", {d}, F, ack, 0), "create",
                [Nothing EXCEPT ![d] = snap[d].fields], [Nothing EXCEPT ![d] = F],
                Destructive(snap[d].fields, F))
    BY <1>3 DEF StartUpdate
  <2>4. snap[d].fields \in SUBSET Field
    BY HistoryRows DEF TypeOK
  <2> DEFINE known == [Nothing EXCEPT ![d] = snap[d].fields]
             wanted == [Nothing EXCEPT ![d] = F]
             loss == Destructive(snap[d].fields, F)
  <2>5. /\ known \in [Doctype -> SUBSET Field] /\ wanted \in [Doctype -> SUBSET Field]
        /\ loss \in SUBSET Field
    BY <2>4 DEF Destructive
  <2> HIDE DEF known, wanted, loss
  <2>6. Begin(r, Call("update", {d}, F, ack, 0), "create", known, wanted, loss)
    BY <2>3 DEF known, wanted, loss
  <2> QED
    BY <2>1, <2>2, <2>5, <2>6, BeginTypes
<1>4. ASSUME NEW back \in 0 .. 1, NEW allow \in BOOLEAN, StartRevert(r, back, allow) PROVE TypeOK'
  <2>1. Call("revert", Doctype, {}, allow, back) \in Calls
    BY DEF Call
  <2>2. edits' \in 0 .. MaxEdits
    BY <1>4 DEF StartRevert, Edit, TypeOK
  <2>3. Begin(r, Call("revert", Doctype, {}, allow, back), "create", Nothing, Nothing, {})
    BY <1>4 DEF StartRevert
  <2>4. Nothing \in [Doctype -> SUBSET Field] /\ {} \in SUBSET Field
    OBVIOUS
  <2> HIDE DEF Nothing
  <2> QED
    BY <2>1, <2>2, <2>3, <2>4, BeginTypes
<1> QED
  BY <1>1, <1>2, <1>3, <1>4 DEF Start

\* A runner that leaves forgets its notes.
LEMMA LeaveTypes ==
  ASSUME TypeOK, NEW r \in Runner, NEW where \in {"idle", "meta", "attach"}, LeaveFor(r, where),
         UNCHANGED <<columns, history>>, declared' \in [Doctype -> SUBSET Field],
         lock' \in [holder : Name \cup {NoName}, owner : Runner \cup {NoRunner}, age : 0 .. StaleTicks + 1],
         edits' \in 0 .. MaxEdits, faults' \in 0 .. MaxFaults
  PROVE  TypeOK'
<1>1. Sync \in Calls
  BY DEF Sync
<1> QED
  BY <1>1 DEF TypeOK, LeaveFor, GoTo

\* A new lock, and none, are locks.
LEMMA LockTypes ==
  ASSUME NEW r \in Runner
  PROVE  /\ LockWith(r) \in [holder : Name \cup {NoName}, owner : Runner \cup {NoRunner}, age : 0 .. StaleTicks + 1]
         /\ [LockWith(r) EXCEPT !.owner = NoRunner] \in
              [holder : Name \cup {NoName}, owner : Runner \cup {NoRunner}, age : 0 .. StaleTicks + 1]
         /\ Free \in [holder : Name \cup {NoName}, owner : Runner \cup {NoRunner}, age : 0 .. StaleTicks + 1]
  BY SchemaAssumption DEF LockWith

\* What is worked out from the metadata and the history is a schema.
LEMMA ReadTypes == ASSUME TypeOK, NEW r \in Runner, ReadMetadata(r) \/ ReadHistory(r) PROVE TypeOK'
<1>1. CASE ReadMetadata(r)
  BY <1>1 DEF ReadMetadata, TypeOK, schema, ghosts
<1>2. CASE ReadHistory(r)
  <2>1. PICK snap \in Histories :
          /\ seen' = [seen EXCEPT ![r] = [d \in Doctype |-> snap[d].fields]]
          /\ want' = [want EXCEPT ![r] = [d \in Doctype |->
               IF d \in op[r].docs THEN want[r][d] \cup Carried(r, d, snap) ELSE {}]]
    BY <1>2 DEF ReadHistory
  <2>2. \A d \in Doctype : snap[d].fields \in SUBSET Field
    BY HistoryRows DEF TypeOK
  <2>3. \A d \in Doctype : Carried(r, d, snap) \in SUBSET Field
    BY <2>2 DEF Carried
  <2>4. seen' \in [Runner -> [Doctype -> SUBSET Field]] /\ want' \in [Runner -> [Doctype -> SUBSET Field]]
    BY <2>1, <2>2, <2>3 DEF TypeOK
  <2> QED
    BY <1>2, <2>4 DEF ReadHistory, TypeOK, schema, ghosts
<1> QED
  BY <1>1, <1>2

\* The lock goes through its protocol.
LEMMA LockStepTypes ==
  ASSUME TypeOK, NEW r \in Runner, TryCreate(r) \/ CheckStale(r) \/ DeleteStale(r)
  PROVE  TypeOK'
<1>1. CASE TryCreate(r)
  <2>1. ASSUME Leave(r) PROVE TypeOK'
    BY <1>1, <2>1, LeaveTypes, LockTypes DEF Leave, TryCreate, TypeOK, schema
  <2>2. ASSUME NEW w \in {"load", "check"}, Stay(r, w) PROVE TypeOK'
    BY <1>1, <2>2, LockTypes DEF TryCreate, TypeOK, Stay, GoTo, schema, notes, ghosts
  <2> QED
    BY <1>1, <2>1, <2>2 DEF TryCreate
<1>2. CASE CheckStale(r)
  <2>1. ASSUME Leave(r) PROVE TypeOK'
    BY <1>2, <2>1, LeaveTypes DEF Leave, CheckStale, TypeOK, schema
  <2>2. ASSUME Stay(r, "steal") PROVE TypeOK'
    BY <1>2, <2>2 DEF CheckStale, TypeOK, Stay, GoTo, schema, notes, ghosts
  <2> QED
    BY <1>2, <2>1, <2>2 DEF CheckStale
<1>3. CASE DeleteStale(r)
  <2>1. broken' \subseteq Name
    BY <1>3, SchemaAssumption DEF DeleteStale, TypeOK
  <2> QED
    BY <1>3, <2>1, LockTypes DEF DeleteStale, TypeOK, GoTo, schema, notes
<1> QED
  BY <1>1, <1>2, <1>3

\* The plan of a run consists of versions and schemas.
LEMMA LoadTypes == ASSUME TypeOK, NEW r \in Runner, LoadHistory(r) PROVE TypeOK'
<1>1. PICK base \in Histories :
        \/ /\ op[r].kind # "revert"
           /\ plan' = [plan EXCEPT ![r] = [d \in Doctype |->
                 [next |-> NextVersion(base[d]), from |-> base[d].fields, to |-> want[r][d]]]]
           /\ todo' = [todo EXCEPT ![r] = {d \in op[r].docs :
                 base[d] = NoRow \/ base[d].fields # want[r][d]}]
        \/ \E goal \in [Doctype -> {NoRow} \cup UNION {history[d] : d \in Doctype}] :
             /\ plan' = [plan EXCEPT ![r] = [d \in Doctype |->
                   [next |-> NextVersion(base[d]), from |-> base[d].fields, to |-> goal[d].fields]]]
             /\ todo' = [todo EXCEPT ![r] = {d \in Doctype : base[d].fields # goal[d].fields}]
  BY DEF LoadHistory
<1>2. \A d \in Doctype : NextVersion(base[d]) \in Nat \ {0} /\ base[d].fields \in SUBSET Field
  BY HistoryRows, NextIsVersion DEF TypeOK
<1>3. op[r].docs \in SUBSET Doctype
  BY DEF TypeOK
<1>4. /\ plan' \in [Runner -> [Doctype -> [next : Nat \ {0}, from : SUBSET Field, to : SUBSET Field]]]
      /\ todo' \in [Runner -> SUBSET Doctype]
  <2>1. CASE op[r].kind # "revert" /\ plan' = [plan EXCEPT ![r] = [d \in Doctype |->
                 [next |-> NextVersion(base[d]), from |-> base[d].fields, to |-> want[r][d]]]]
             /\ todo' = [todo EXCEPT ![r] = {d \in op[r].docs :
                 base[d] = NoRow \/ base[d].fields # want[r][d]}]
    BY <1>2, <1>3, <2>1 DEF TypeOK
  <2>2. ASSUME NEW goal \in [Doctype -> {NoRow} \cup UNION {history[d] : d \in Doctype}],
               plan' = [plan EXCEPT ![r] = [d \in Doctype |->
                   [next |-> NextVersion(base[d]), from |-> base[d].fields, to |-> goal[d].fields]]],
               todo' = [todo EXCEPT ![r] = {d \in Doctype : base[d].fields # goal[d].fields}]
        PROVE  /\ plan' \in [Runner -> [Doctype -> [next : Nat \ {0}, from : SUBSET Field, to : SUBSET Field]]]
               /\ todo' \in [Runner -> SUBSET Doctype]
    <3>1. \A h \in UNION {history[d] : d \in Doctype} : h \in Row
      BY DEF TypeOK
    <3>2. \A h \in {NoRow} \cup UNION {history[d] : d \in Doctype} : h.fields \in SUBSET Field
      BY <3>1
    <3>3. \A d \in Doctype : goal[d].fields \in SUBSET Field
      BY <3>2
    <3> QED
      BY <1>2, <2>2, <3>3 DEF TypeOK
  <2> QED
    BY <1>1, <2>1, <2>2
<1>5. want' \in [Runner -> [Doctype -> SUBSET Field]]
  BY DEF LoadHistory, TypeOK
<1> QED
  BY <1>4, <1>5 DEF LoadHistory, TypeOK, GoTo, schema, ghosts

\* Resources are applied, refused or given up one at a time.
LEMMA ResourceTypes ==
  ASSUME TypeOK, NEW r \in Runner, NEW d \in Doctype, Refuse(r, d) \/ Apply(r, d) \/ ApplyFails(r, d)
  PROVE  TypeOK'
<1>1. CASE Refuse(r, d)
  BY <1>1 DEF Refuse, Passed, TypeOK, schema, ghosts
<1>2. CASE Apply(r, d)
  <2>1. /\ plan[r][d].next \in Nat \ {0} /\ plan[r][d].from \in SUBSET Field
        /\ plan[r][d].to \in SUBSET Field
    BY DEF TypeOK
  <2>2. [version |-> plan[r][d].next, fields |-> plan[r][d].to, by |-> r] \in Row
    BY <2>1
  <2> HIDE DEF Row
  <2>3. columns' \in [Doctype -> SUBSET Field] /\ history' \in [Doctype -> SUBSET Row]
    BY <1>2, <2>1, <2>2 DEF Apply, TypeOK
  <2> QED
    BY <1>2, <2>3 DEF Apply, Passed, TypeOK, ghosts
<1>3. CASE ApplyFails(r, d)
  BY <1>3, SchemaAssumption DEF ApplyFails, Fault, Passed, TypeOK, schema, ghosts
<1> QED
  BY <1>1, <1>2, <1>3

\* Where a runner goes after its run.
LEMMA AfterRun == ASSUME NEW r \in Runner PROVE After(r) \in {"idle", "meta", "attach"}
  BY DEF After

\* The end of a call, in order or by a fault, leaves the types alone.
LEMMA EndTypes ==
  ASSUME TypeOK, NEW r \in Runner,
         Release(r) \/ Attach(r) \/ Crash(r) \/ CreateAnswerLost(r) \/ StatementFails(r)
  PROVE  TypeOK'
<1> USE SchemaAssumption
<1>1. CASE Release(r)
  <2>1. lock' \in [holder : Name \cup {NoName}, owner : Runner \cup {NoRunner}, age : 0 .. StaleTicks + 1]
    BY <1>1, LockTypes DEF Release, TypeOK
  <2>2. /\ UNCHANGED <<columns, history>> /\ declared' \in [Doctype -> SUBSET Field]
        /\ edits' \in 0 .. MaxEdits /\ faults' \in 0 .. MaxFaults
    BY <1>1 DEF Release, TypeOK, schema
  <2>3. LeaveFor(r, After(r))
    BY <1>1 DEF Release
  <2> QED
    BY <2>1, <2>2, <2>3, AfterRun, LeaveTypes
<1>2. CASE Attach(r)
  <2>1. op[r].fields \in SUBSET Field
    BY DEF TypeOK
  <2>2. declared' \in [Doctype -> SUBSET Field]
    BY <1>2, <2>1 DEF Attach, TypeOK
  <2> QED
    BY <1>2, <2>2, LeaveTypes DEF Attach, Leave, TypeOK, schema
<1>3. CASE Crash(r)
  <2>1. faults' \in 0 .. MaxFaults
    BY <1>3 DEF Crash, Fault, TypeOK
  <2> QED
    BY <1>3, <2>1, LeaveTypes DEF Crash, Leave, TypeOK, schema
<1>4. CASE CreateAnswerLost(r)
  <2>1. faults' \in 0 .. MaxFaults
    BY <1>4 DEF CreateAnswerLost, Fault, TypeOK
  <2> QED
    BY <1>4, <2>1, LockTypes, LeaveTypes DEF CreateAnswerLost, Leave, TypeOK, schema
<1>5. CASE StatementFails(r)
  <2>1. faults' \in 0 .. MaxFaults
    BY <1>5 DEF StatementFails, Fault, TypeOK
  <2>2. CASE LeaveFor(r, After(r))
    <3>1. /\ UNCHANGED <<columns, history>> /\ declared' \in [Doctype -> SUBSET Field]
          /\ edits' \in 0 .. MaxEdits
          /\ lock' \in [holder : Name \cup {NoName}, owner : Runner \cup {NoRunner}, age : 0 .. StaleTicks + 1]
      BY <1>5 DEF StatementFails, TypeOK, schema
    <3> QED
      BY <2>1, <2>2, <3>1, AfterRun, LeaveTypes
  <2>3. CASE Stay(r, "retake")
    BY <1>5, <2>1, <2>3 DEF StatementFails, Stay, GoTo, TypeOK, schema, notes, ghosts
  <2>4. CASE /\ GoTo(r, "apply")
             /\ result' = [result EXCEPT ![r] = "refused"]
             /\ UNCHANGED <<op, told, seen, want, plan, todo, ghosts>>
    BY <1>5, <2>1, <2>4 DEF StatementFails, GoTo, TypeOK, schema, ghosts
  <2> QED
    BY <1>5, <2>2, <2>3, <2>4 DEF StatementFails
<1> QED
  BY <1>1, <1>2, <1>3, <1>4, <1>5

\* Metadata and time.
LEMMA OutsideTypes ==
  ASSUME TypeOK, Tick \/ \E d \in Doctype, F \in SUBSET Field : EditMetadata(d, F)
  PROVE  TypeOK'
<1> USE SchemaAssumption
<1>1. CASE Tick
  <2>1. lock' \in [holder : Name \cup {NoName}, owner : Runner \cup {NoRunner}, age : 0 .. StaleTicks + 1]
    <3>1. lock.age + 1 \in 0 .. StaleTicks + 1
      BY <1>1 DEF Tick, TypeOK
    <3>2. lock' = [lock EXCEPT !.age = lock.age + 1]
      BY <1>1 DEF Tick
    <3> QED
      BY <3>1, <3>2 DEF TypeOK
  <2> QED
    BY <1>1, <2>1 DEF Tick, TypeOK, schema, notes, ghosts
<1>2. ASSUME NEW d \in Doctype, NEW F \in SUBSET Field, EditMetadata(d, F) PROVE TypeOK'
  BY <1>2 DEF EditMetadata, Edit, TypeOK, schema, notes, ghosts
<1> QED
  BY <1>1, <1>2

\* Every step keeps the types.
LEMMA TypeStep == ASSUME TypeOK, [Next]_vars PROVE TypeOK'
<1>1. CASE UNCHANGED vars
  BY <1>1 DEF vars, TypeOK
<1>2. ASSUME NEW r \in Runner, Start(r) \/ Work(r) \/ Faulty(r) PROVE TypeOK'
  BY <1>2, StartTypes, ReadTypes, LockStepTypes, LoadTypes, ResourceTypes, EndTypes DEF Work, Faulty
<1>3. CASE Tick \/ \E d \in Doctype, F \in SUBSET Field : EditMetadata(d, F)
  BY <1>3, OutsideTypes
<1> QED
  BY <1>1, <1>2, <1>3 DEF Next

\* The first state has the types.
LEMMA InitTypes == Init => TypeOK
<1>1. Init => TypeOK
  <2> SUFFICES ASSUME Init PROVE TypeOK
    OBVIOUS
  <2>1. Sync \in Calls
    BY DEF Sync
  <2>2. NoPlan \in [Doctype -> [next : Nat \ {0}, from : SUBSET Field, to : SUBSET Field]]
    OBVIOUS
  <2>3. Nothing \in [Doctype -> SUBSET Field] /\ Nothing \in [Doctype -> SUBSET Row]
    OBVIOUS
  <2>4. lock \in [holder : Name \cup {NoName}, owner : Runner \cup {NoRunner}, age : 0 .. StaleTicks + 1]
    BY SchemaAssumption DEF Init
  <2> HIDE DEF NoPlan, Nothing, Calls, Row
  <2>5. /\ declared \in [Doctype -> SUBSET Field] /\ columns \in [Doctype -> SUBSET Field]
        /\ history \in [Doctype -> SUBSET Row]
    BY <2>3 DEF Init
  <2>6. /\ seen \in [Runner -> [Doctype -> SUBSET Field]] /\ want \in [Runner -> [Doctype -> SUBSET Field]]
        /\ told \in [Runner -> SUBSET Field] /\ todo \in [Runner -> SUBSET Doctype]
    BY <2>3 DEF Init
  <2>7. /\ op \in [Runner -> Calls]
        /\ plan \in [Runner -> [Doctype -> [next : Nat \ {0}, from : SUBSET Field, to : SUBSET Field]]]
    BY <2>1, <2>2 DEF Init
  <2>8. /\ pc \in [Runner -> {"idle", "meta", "history", "create", "check", "steal", "retake", "attach"} \cup Inside]
        /\ result \in [Runner -> {"none", "applied", "refused"}]
    BY DEF Init
  <2>9. evicted \subseteq Runner /\ broken \subseteq Name
    BY DEF Init
  <2>10. edits \in 0 .. MaxEdits /\ faults \in 0 .. MaxFaults
    BY SchemaAssumption DEF Init
  <2> QED
    BY <2>4, <2>5, <2>6, <2>7, <2>8, <2>9, <2>10 DEF TypeOK
<1> QED
  BY <1>1

\* The tables, the lock and the notes of every runner keep their types, whatever
\* the runners do to each other.
THEOREM Types == Spec => []TypeOK
<1>1. Init => TypeOK
  BY InitTypes
<1>2. TypeOK /\ [Next]_vars => TypeOK'
  BY TypeStep
<1> QED
  BY <1>1, <1>2, PTL DEF Spec

-----------------------------------------------------------------------------
(* The lock.                                                                *)

LockInv == TypeOK /\ LockShape /\ NoCascade /\ EvictionBreaks /\ TodoInside

\* Steps that leave the lock, and let nobody in, keep whose lock it is.
LEMMA LockUntouched ==
  ASSUME LockInv, UNCHANGED <<lock, evicted, broken>>,
         \A r \in Runner : pc'[r] \in Inside => pc[r] \in Inside
  PROVE  LockShape' /\ NoCascade' /\ EvictionBreaks'
  BY DEF LockInv, LockShape, NoCascade, EvictionBreaks

\* A runner that leaves takes the lock of no other with it.
LEMMA LeaveLock ==
  ASSUME LockInv, NEW r \in Runner, NEW where \in {"idle", "meta", "attach"}, LeaveFor(r, where),
         LockShape',
         \A s \in Runner \ {r} :
           pc[s] \in Inside /\ s \notin evicted /\ HolderId[s] \notin broken => lock'.owner = s
  PROVE  LockShape' /\ NoCascade' /\ EvictionBreaks' /\ TodoInside'
<1>1. \A s \in Runner \ {r} : pc'[s] = pc[s] /\ (s \in evicted' <=> s \in evicted) /\ todo'[s] = todo[s]
  BY DEF LeaveFor, GoTo, LockInv, TypeOK
<1>2. pc'[r] \notin Inside /\ todo'[r] = {}
  BY DEF LeaveFor, GoTo, LockInv, TypeOK
<1>3. NoCascade'
  <2>1. UNCHANGED broken
    BY DEF LeaveFor
  <2> QED
    BY <1>1, <1>2, <2>1 DEF NoCascade
<1>4. TodoInside'
  BY <1>1, <1>2 DEF TodoInside, LockInv
<1>5. EvictionBreaks'
  <2>1. evicted' \subseteq evicted /\ UNCHANGED broken
    BY DEF LeaveFor
  <2> QED
    BY <2>1 DEF EvictionBreaks, LockInv
<1> QED
  BY <1>3, <1>4, <1>5

\* A call that starts, and what it reads before the lock.
LEMMA OutsideLock ==
  ASSUME LockInv, NEW r \in Runner, Start(r) \/ ReadMetadata(r) \/ ReadHistory(r)
  PROVE  LockShape' /\ NoCascade' /\ EvictionBreaks' /\ TodoInside'
<1>1. UNCHANGED <<lock, evicted, broken, todo>>
  BY DEF Start, StartSync, StartReclaim, StartUpdate, StartRevert, Begin, ReadMetadata, ReadHistory, ghosts
<1>2. pc[r] \in {"idle", "meta", "history"} /\ \E w \in {"meta", "create", "history"} : GoTo(r, w)
  BY DEF Start, StartSync, StartReclaim, StartUpdate, StartRevert, Begin, ReadMetadata, ReadHistory, GoTo
<1>3. \A s \in Runner : pc'[s] \in Inside => pc[s] \in Inside
  BY <1>2 DEF GoTo, LockInv, TypeOK
<1>4. TodoInside'
  BY <1>1, <1>2 DEF TodoInside, GoTo, LockInv, TypeOK
<1> QED
  BY <1>1, <1>3, <1>4, LockUntouched

\* lock_try_create: the lock was free, so nobody inside still held it.
LEMMA TryCreateLock ==
  ASSUME LockInv, NEW r \in Runner, TryCreate(r)
  PROVE  LockShape' /\ NoCascade' /\ EvictionBreaks' /\ TodoInside'
<1> USE SchemaAssumption
<1>1. CASE lock = Free /\ lock' = LockWith(r) /\ Stay(r, "load")
  <2>1. \A s \in Runner : pc[s] \in Inside => s \in evicted \/ HolderId[s] \in broken
    BY <1>1 DEF LockInv, NoCascade
  <2>2. \A s \in Runner \ {r} : pc'[s] = pc[s]
    BY <1>1 DEF Stay, GoTo, LockInv, TypeOK
  <2>3. UNCHANGED <<todo, evicted, broken>>
    BY <1>1 DEF Stay, notes, ghosts
  <2>4. lock'.owner = r /\ lock'.holder = HolderId[r] /\ lock'.holder \in Name
    BY <1>1 DEF LockWith
  <2>5. LockShape'
    BY <2>4 DEF LockShape
  <2>6. NoCascade'
    BY <2>1, <2>2, <2>3, <2>4 DEF NoCascade
  <2>7. pc[r] # "apply"
    BY DEF TryCreate
  <2>8. TodoInside' /\ EvictionBreaks'
    BY <2>2, <2>3, <2>7 DEF TodoInside, EvictionBreaks, LockInv
  <2> QED
    BY <2>5, <2>6, <2>8
<1>2. CASE lock # Free /\ UNCHANGED lock /\ pc[r] = "create" /\ Stay(r, "check")
  <2>1. UNCHANGED <<todo, evicted, broken>>
    BY <1>2 DEF Stay, notes, ghosts
  <2>2. \A s \in Runner : pc'[s] \in Inside => pc[s] \in Inside
    BY <1>2 DEF Stay, GoTo, LockInv, TypeOK
  <2>3. TodoInside'
    BY <1>2, <2>1 DEF TodoInside, Stay, GoTo, LockInv, TypeOK
  <2> QED
    BY <1>2, <2>1, <2>2, <2>3, LockUntouched
<1>3. CASE UNCHANGED lock /\ Leave(r)
  <2>1. LockShape'
    BY <1>3 DEF LockShape, LockInv
  <2> QED
    BY <1>3, <2>1, LeaveLock DEF Leave, LockInv, NoCascade
<1> QED
  BY <1>1, <1>2, <1>3 DEF TryCreate

\* lock_is_stale only looks.
LEMMA CheckStaleLock ==
  ASSUME LockInv, NEW r \in Runner, CheckStale(r)
  PROVE  LockShape' /\ NoCascade' /\ EvictionBreaks' /\ TodoInside'
<1>1. CASE Stay(r, "steal")
  <2>1. UNCHANGED <<lock, todo, evicted, broken>>
    BY <1>1 DEF CheckStale, Stay, notes, ghosts
  <2>2. \A s \in Runner : pc'[s] \in Inside => pc[s] \in Inside
    BY <1>1 DEF Stay, GoTo, LockInv, TypeOK
  <2>3. TodoInside'
    BY <1>1, <2>1 DEF CheckStale, TodoInside, Stay, GoTo, LockInv, TypeOK
  <2> QED
    BY <2>1, <2>2, <2>3, LockUntouched
<1>2. CASE Leave(r)
  <2>1. UNCHANGED lock
    BY DEF CheckStale
  <2>2. LockShape'
    BY <2>1 DEF LockShape, LockInv
  <2> QED
    BY <1>2, <2>1, <2>2, LeaveLock DEF Leave, LockInv, NoCascade
<1> QED
  BY <1>1, <1>2 DEF CheckStale

\* The steal: whoever was inside with the lock is evicted by it.
LEMMA DeleteStaleLock ==
  ASSUME LockInv, NEW r \in Runner, DeleteStale(r)
  PROVE  LockShape' /\ NoCascade' /\ EvictionBreaks' /\ TodoInside'
<1> USE SchemaAssumption
<1> DEFINE victims == {v \in Runner : v = lock.owner /\ pc[v] \in Inside}
<1>1. /\ lock' = Free /\ evicted' = evicted \cup victims
      /\ broken' = broken \cup {HolderId[v] : v \in victims} /\ UNCHANGED todo
  BY DEF DeleteStale, notes
<1>2. pc[r] = "steal" /\ pc' = [pc EXCEPT ![r] = "retake"]
  BY DEF DeleteStale, GoTo
<1>3. \A s \in Runner : pc'[s] \in Inside => pc[s] \in Inside
  BY <1>2 DEF LockInv, TypeOK
<1>4. LockShape'
  BY <1>1 DEF LockShape
<1>5. NoCascade'
  BY <1>1, <1>3 DEF NoCascade, LockInv
<1>6. EvictionBreaks'
  BY <1>1 DEF EvictionBreaks, LockInv
<1>7. TodoInside'
  BY <1>1, <1>2 DEF TodoInside, LockInv, TypeOK
<1> QED
  BY <1>4, <1>5, <1>6, <1>7

\* run and run_revert leave the lock alone.
LEMMA RunLock ==
  ASSUME LockInv, NEW r \in Runner,
         LoadHistory(r) \/ \E d \in Doctype : Refuse(r, d) \/ Apply(r, d) \/ ApplyFails(r, d)
  PROVE  LockShape' /\ NoCascade' /\ EvictionBreaks' /\ TodoInside'
<1>1. UNCHANGED <<lock, evicted, broken>>
  BY DEF LoadHistory, Refuse, Apply, ApplyFails, Passed, ghosts
<1>2. CASE LoadHistory(r)
  <2>1. pc[r] = "load" /\ pc' = [pc EXCEPT ![r] = "apply"]
    BY <1>2 DEF LoadHistory, GoTo
  <2>2. \A s \in Runner \ {r} : todo'[s] = todo[s]
    BY <1>2 DEF LoadHistory, LockInv, TypeOK
  <2>3. TodoInside'
    BY <2>1, <2>2 DEF TodoInside, LockInv, TypeOK
  <2>4. \A s \in Runner : pc'[s] \in Inside => pc[s] \in Inside
    BY <2>1 DEF LockInv, TypeOK
  <2> QED
    BY <1>1, <2>3, <2>4, LockUntouched
<1>3. ASSUME NEW d \in Doctype, Refuse(r, d) \/ Apply(r, d) \/ ApplyFails(r, d)
      PROVE  LockShape' /\ NoCascade' /\ EvictionBreaks' /\ TodoInside'
  <2>1. UNCHANGED pc /\ pc[r] = "apply" /\ todo' = [todo EXCEPT ![r] = @ \ {d}]
    BY <1>3 DEF Refuse, Apply, ApplyFails, Passed
  <2>2. TodoInside'
    BY <2>1 DEF TodoInside, LockInv, TypeOK
  <2> QED
    BY <1>1, <2>1, <2>2, LockUntouched
<1> QED
  BY <1>2, <1>3

\* lock_release compares the holder: with a lock that is not its own, a runner
\* inside can only have the name of one that was evicted.
LEMMA ReleaseLock ==
  ASSUME LockInv, NEW r \in Runner, Release(r)
  PROVE  LockShape' /\ NoCascade' /\ EvictionBreaks' /\ TodoInside'
<1> USE SchemaAssumption
<1>1. lock' = IF OwnLock(r) THEN Free ELSE lock
  BY DEF Release
<1>2. LockShape'
  BY <1>1 DEF LockShape, LockInv
<1>3. ASSUME NEW s \in Runner \ {r}, pc[s] \in Inside, s \notin evicted, HolderId[s] \notin broken
      PROVE  lock'.owner = s
  <2>1. lock.owner = s /\ lock.holder = HolderId[s]
    BY <1>3 DEF LockInv, NoCascade, LockShape
  <2>2. pc[r] \in Inside
    BY DEF Release, RunIsOver
  <2>3. HolderId[r] \in broken
    BY <2>1, <2>2 DEF LockInv, NoCascade, EvictionBreaks
  <2>4. ~OwnLock(r)
    BY <1>3, <2>1, <2>3 DEF OwnLock
  <2> QED
    BY <1>1, <2>1, <2>4
<1>4. LeaveFor(r, After(r))
  BY DEF Release
<1> QED
  BY <1>2, <1>3, <1>4, AfterRun, LeaveLock

\* Metadata attached, a call that ends by a fault, and a failed statement.
LEMMA EndLock ==
  ASSUME LockInv, NEW r \in Runner,
         Attach(r) \/ Crash(r) \/ CreateAnswerLost(r) \/ StatementFails(r)
  PROVE  LockShape' /\ NoCascade' /\ EvictionBreaks' /\ TodoInside'
<1> USE SchemaAssumption
<1>1. CASE UNCHANGED lock /\ \E where \in {"idle", "meta", "attach"} : LeaveFor(r, where)
  <2>1. LockShape'
    BY <1>1 DEF LockShape, LockInv
  <2>2. \A s \in Runner \ {r} :
          pc[s] \in Inside /\ s \notin evicted /\ HolderId[s] \notin broken => lock'.owner = s
    BY <1>1 DEF LockInv, NoCascade
  <2> QED
    BY <1>1, <2>1, <2>2, LeaveLock
<1>2. CASE CreateAnswerLost(r)
  <2>1. lock = Free /\ lock' = [LockWith(r) EXCEPT !.owner = NoRunner] /\ LeaveFor(r, "idle")
    BY <1>2 DEF CreateAnswerLost, Leave
  <2>2. LockShape'
    BY <2>1 DEF LockShape, LockWith
  <2>3. \A s \in Runner \ {r} :
          pc[s] \in Inside /\ s \notin evicted /\ HolderId[s] \notin broken => lock'.owner = s
    BY <2>1 DEF LockInv, NoCascade
  <2> QED
    BY <2>1, <2>2, <2>3, LeaveLock
<1>3. CASE StatementFails(r)
  <2>1. UNCHANGED lock
    BY <1>3 DEF StatementFails
  <2>2. CASE LeaveFor(r, After(r))
    BY <2>1, <2>2, <1>1, AfterRun
  <2>3. ASSUME NEW w \in {"retake", "apply"}, GoTo(r, w), UNCHANGED <<todo, ghosts>>,
               w = "apply" => pc[r] = "load"
        PROVE  LockShape' /\ NoCascade' /\ EvictionBreaks' /\ TodoInside'
    <3>1. \A s \in Runner : pc'[s] \in Inside => pc[s] \in Inside
      BY <2>3 DEF GoTo, LockInv, TypeOK
    <3>2. pc[r] \in {"load", "steal"} => TodoInside'
      BY <2>3 DEF TodoInside, GoTo, LockInv, TypeOK
    <3>3. UNCHANGED <<evicted, broken>>
      BY <2>3 DEF ghosts
    <3>4. pc[r] \in {"load", "steal"} \/ RunIsOver(r)
      BY <1>3 DEF StatementFails
    <3>5. RunIsOver(r) => TodoInside'
      BY <2>3 DEF RunIsOver, TodoInside, GoTo, LockInv, TypeOK
    <3> QED
      BY <2>1, <3>1, <3>2, <3>3, <3>4, <3>5, LockUntouched
  <2> QED
    BY <1>3, <2>2, <2>3 DEF StatementFails, Stay, notes
<1>4. CASE Attach(r)
  BY <1>1, <1>4 DEF Attach, Leave
<1>5. CASE Crash(r)
  BY <1>1, <1>5 DEF Crash, Leave
<1> QED
  BY <1>2, <1>3, <1>4, <1>5

\* Metadata and time.
LEMMA TickLock ==
  ASSUME LockInv, Tick \/ \E d \in Doctype, F \in SUBSET Field : EditMetadata(d, F)
  PROVE  LockShape' /\ NoCascade' /\ EvictionBreaks' /\ TodoInside'
<1>1. UNCHANGED <<pc, todo, evicted, broken>>
  BY DEF Tick, EditMetadata, notes, ghosts
<1>2. lock'.owner = lock.owner /\ lock'.holder = lock.holder /\ (lock = Free => lock' = Free)
  BY DEF Tick, EditMetadata, LockInv, TypeOK
<1>3. LockShape'
  BY <1>2 DEF LockShape, LockInv
<1> QED
  BY <1>1, <1>2, <1>3 DEF LockInv, NoCascade, EvictionBreaks, TodoInside

\* Together: the lock part of the invariant is kept.
LEMMA LockStep == ASSUME LockInv, [Next]_vars PROVE LockInv'
<1>1. TypeOK'
  BY TypeStep DEF LockInv
<1>2. LockShape' /\ NoCascade' /\ EvictionBreaks' /\ TodoInside'
  <2>1. CASE UNCHANGED vars
    BY <2>1 DEF vars, LockInv, LockShape, NoCascade, EvictionBreaks, TodoInside
  <2>2. ASSUME NEW r \in Runner, Start(r) \/ Work(r) \/ Faulty(r)
        PROVE  LockShape' /\ NoCascade' /\ EvictionBreaks' /\ TodoInside'
    BY <2>2, OutsideLock, TryCreateLock, CheckStaleLock, DeleteStaleLock, RunLock, ReleaseLock, EndLock
       DEF Work, Faulty
  <2>3. CASE Tick \/ \E d \in Doctype, F \in SUBSET Field : EditMetadata(d, F)
    BY <2>3, TickLock
  <2> QED
    BY <2>1, <2>2, <2>3 DEF Next
<1> QED
  BY <1>1, <1>2 DEF LockInv

-----------------------------------------------------------------------------
(* The history and the schema.                                              *)

\* Without an eviction there is one runner inside.
LEMMA OneInside ==
  ASSUME LockInv, broken = {}, NEW r \in Runner, NEW s \in Runner, pc[r] \in Inside, pc[s] \in Inside
  PROVE  r = s
  BY DEF LockInv, EvictionBreaks, NoCascade

\* Steps that write neither schema nor plans keep both parts.
LEMMA SchemaUntouched ==
  ASSUME PlanFresh, HistoryTellsSchema, UNCHANGED <<columns, history>>, broken \subseteq broken',
         \A r \in Runner : todo'[r] \subseteq todo[r] /\ (todo'[r] # {} => plan'[r] = plan[r])
  PROVE  PlanFresh' /\ HistoryTellsSchema'
<1>1. HistoryTellsSchema'
  BY DEF HistoryTellsSchema, HistoryTells
<1>2. ASSUME broken' = {}, NEW r \in Runner, NEW d \in todo'[r]
      PROVE  plan'[r][d].from = columns'[d] /\ \A h \in history'[d] : h.version < plan'[r][d].next
  <2>1. d \in todo[r] /\ plan'[r] = plan[r] /\ broken = {}
    BY <1>2
  <2> QED
    BY <2>1 DEF PlanFresh
<1> QED
  BY <1>1, <1>2 DEF PlanFresh

\* load_history: the row it takes for the schema in force is that of the schema.
LEMMA LoadSchema ==
  ASSUME LockInv, PlanFresh, HistoryTellsSchema, NEW r \in Runner, LoadHistory(r)
  PROVE  PlanFresh' /\ HistoryTellsSchema'
<1>1. UNCHANGED <<columns, history, broken>>
  BY DEF LoadHistory, schema, ghosts
<1>2. HistoryTellsSchema'
  BY <1>1 DEF HistoryTellsSchema, HistoryTells
<1>3. PICK base \in Histories :
        \A d \in Doctype : plan'[r][d].from = base[d].fields /\ plan'[r][d].next = NextVersion(base[d])
  <2>1. CASE op[r].kind # "revert"
    <3>1. PICK base \in Histories :
            plan' = [plan EXCEPT ![r] = [d \in Doctype |->
               [next |-> NextVersion(base[d]), from |-> base[d].fields, to |-> want[r][d]]]]
      BY <2>1 DEF LoadHistory
    <3> QED
      BY <3>1 DEF LockInv, TypeOK
  <2>2. CASE op[r].kind = "revert"
    <3>1. PICK base \in Histories, goal \in [Doctype -> {NoRow} \cup UNION {history[d] : d \in Doctype}] :
            plan' = [plan EXCEPT ![r] = [d \in Doctype |->
               [next |-> NextVersion(base[d]), from |-> base[d].fields, to |-> goal[d].fields]]]
      BY <2>2 DEF LoadHistory
    <3> QED
      BY <3>1 DEF LockInv, TypeOK
  <2> QED
    BY <2>1, <2>2
<1>4. \A s \in Runner \ {r} : plan'[s] = plan[s] /\ todo'[s] = todo[s]
  BY DEF LoadHistory, LockInv, TypeOK
<1>5. ASSUME broken = {}, NEW d \in Doctype
      PROVE  base[d].fields = columns[d] /\ \A h \in history[d] : h.version < NextVersion(base[d])
  <2>1. HistoryTells(d)
    BY <1>5 DEF HistoryTellsSchema
  <2>2. base[d].version \in Nat /\ base[d] \in Newest(history[d])
    BY HistoryRows DEF LockInv, TypeOK
  <2>3. \A h \in history[d] : h.version \in Nat
    BY DEF LockInv, TypeOK
  <2>4. CASE history[d] = {}
    <3>1. base[d] = NoRow
      BY <2>2, <2>4 DEF Newest
    <3>2. columns[d] = {}
      BY <2>1, <2>4 DEF HistoryTells
    <3> QED
      BY <2>4, <3>1, <3>2
  <2>5. CASE history[d] # {}
    <3>1. base[d] \in history[d] /\ \A g \in history[d] : g.version <= base[d].version
      BY <2>2, <2>5 DEF Newest
    <3>2. PICK h \in history[d] : h.fields = columns[d] /\ \A g \in history[d] \ {h} : g.version < h.version
      BY <2>1, <2>5 DEF HistoryTells
    <3>3. base[d] = h
      BY <2>3, <3>1, <3>2
    <3> QED
      BY <2>2, <2>3, <3>1, <3>2, <3>3, NextIsVersion
  <2> QED
    BY <2>4, <2>5
<1>6. PlanFresh'
  <2> SUFFICES ASSUME broken' = {}, NEW s \in Runner, NEW d \in todo'[s]
               PROVE  plan'[s][d].from = columns'[d] /\ \A h \in history'[d] : h.version < plan'[s][d].next
    BY DEF PlanFresh
  <2>1. d \in Doctype
    BY LoadTypes DEF LockInv, TypeOK
  <2>2. CASE s = r
    BY <1>1, <1>3, <1>5, <2>1, <2>2
  <2>3. CASE s # r
    BY <1>1, <1>4, <2>3 DEF PlanFresh
  <2> QED
    BY <2>2, <2>3
<1> QED
  BY <1>2, <1>6

\* apply_resource: from an up to date plan, the schema and the history go on together.
LEMMA ApplySchema ==
  ASSUME LockInv, PlanFresh, HistoryTellsSchema, NEW r \in Runner, NEW d \in Doctype, Apply(r, d)
  PROVE  PlanFresh' /\ HistoryTellsSchema'
<1> DEFINE p == plan[r][d]
           row == [version |-> p.next, fields |-> p.to, by |-> r]
<1>1. /\ pc[r] = "apply" /\ d \in todo[r]
      /\ columns' = [columns EXCEPT ![d] = (@ \cup (p.to \ p.from)) \ (p.from \ p.to)]
      /\ history' = [history EXCEPT ![d] = @ \cup {row}]
      /\ todo' = [todo EXCEPT ![r] = @ \ {d}]
      /\ UNCHANGED <<pc, plan, broken>>
  BY DEF Apply, Passed, ghosts
<1>2. /\ p.next \in Nat \ {0} /\ p.to \in SUBSET Field /\ p.from \in SUBSET Field
      /\ \A h \in history[d] : h.version \in Nat
  BY DEF LockInv, TypeOK
<1> HIDE DEF p
<1>3. CASE broken # {}
  BY <1>1, <1>3 DEF PlanFresh, HistoryTellsSchema
<1>4. CASE broken = {}
  <2>1. p.from = columns[d] /\ \A h \in history[d] : h.version < p.next
    BY <1>1, <1>4 DEF PlanFresh, p
  <2>2. columns'[d] = p.to /\ history'[d] = history[d] \cup {row}
    <3>1. columns'[d] = (columns[d] \cup (p.to \ p.from)) \ (p.from \ p.to)
      BY <1>1 DEF LockInv, TypeOK
    <3>2. history'[d] = history[d] \cup {row}
      BY <1>1 DEF LockInv, TypeOK
    <3> QED
      BY <2>1, <3>1, <3>2
  <2>3. \A e \in Doctype \ {d} : columns'[e] = columns[e] /\ history'[e] = history[e]
    BY <1>1 DEF LockInv, TypeOK
  <2>4. HistoryTells(d)'
    <3>1. row \in history'[d] /\ row.fields = columns'[d] /\ row.version = p.next
      BY <2>2
    <3>2. \A g \in history'[d] \ {row} : g.version < row.version
      BY <2>1, <2>2, <3>1
    <3> QED
      BY <3>1, <3>2 DEF HistoryTells
  <2>5. HistoryTellsSchema'
    <3>1. \A e \in Doctype \ {d} : HistoryTells(e)'
      BY <1>4, <2>3 DEF HistoryTellsSchema, HistoryTells
    <3> QED
      BY <2>4, <3>1 DEF HistoryTellsSchema
  <2>6. \A s \in Runner \ {r} : todo'[s] = {}
    <3>1. \A s \in Runner \ {r} : pc[s] # "apply"
      BY <1>1, <1>4, OneInside
    <3> QED
      BY <1>1, <3>1 DEF LockInv, TodoInside, TypeOK
  <2>7. todo'[r] = todo[r] \ {d} /\ todo[r] \subseteq Doctype
    BY <1>1 DEF LockInv, TypeOK
  <2>8. PlanFresh'
    BY <1>1, <1>4, <2>3, <2>6, <2>7 DEF PlanFresh
  <2> QED
    BY <2>5, <2>8
<1> QED
  BY <1>3, <1>4

\* A runner that leaves has nothing more to apply.
LEMMA LeaveNotes ==
  ASSUME LockInv, NEW r \in Runner, NEW w, LeaveFor(r, w)
  PROVE  /\ broken \subseteq broken'
         /\ \A s \in Runner : todo'[s] \subseteq todo[s] /\ (todo'[s] # {} => plan'[s] = plan[s])
<1>1. /\ todo' = [todo EXCEPT ![r] = {}] /\ plan' = [plan EXCEPT ![r] = NoPlan]
      /\ UNCHANGED broken
  BY DEF LeaveFor
<1>2. todo'[r] = {} /\ \A s \in Runner \ {r} : todo'[s] = todo[s] /\ plan'[s] = plan[s]
  BY <1>1 DEF LockInv, TypeOK
<1> QED
  BY <1>1, <1>2

\* A call that starts, and what it reads, write neither schema nor plans; nor does
\* the lock.
LEMMA BeforeSchema ==
  ASSUME LockInv, PlanFresh, HistoryTellsSchema, NEW r \in Runner,
         Start(r) \/ ReadMetadata(r) \/ ReadHistory(r)
           \/ TryCreate(r) \/ CheckStale(r) \/ DeleteStale(r)
  PROVE  PlanFresh' /\ HistoryTellsSchema'
<1>1. CASE Start(r) \/ ReadMetadata(r) \/ ReadHistory(r)
  <2>1. UNCHANGED <<columns, history, broken, todo, plan>>
    BY <1>1 DEF Start, StartSync, StartReclaim, StartUpdate, StartRevert, Begin,
                ReadMetadata, ReadHistory, ghosts, schema
  <2> QED
    BY <2>1, SchemaUntouched
<1>2. CASE TryCreate(r) \/ CheckStale(r)
  <2>1. UNCHANGED <<columns, history>>
    BY <1>2 DEF TryCreate, CheckStale, schema
  <2>2. CASE \E w : Stay(r, w)
    <3>1. UNCHANGED <<broken, todo, plan>>
      BY <2>2 DEF Stay, notes, ghosts
    <3> QED
      BY <2>1, <3>1, SchemaUntouched
  <2>3. CASE Leave(r)
    BY <2>1, <2>3, LeaveNotes, SchemaUntouched DEF Leave
  <2> QED
    BY <1>2, <2>2, <2>3 DEF TryCreate, CheckStale
<1>3. CASE DeleteStale(r)
  <2>1. UNCHANGED <<columns, history, todo, plan>> /\ broken \subseteq broken'
    BY <1>3 DEF DeleteStale, schema, notes
  <2> QED
    BY <2>1, SchemaUntouched
<1> QED
  BY <1>1, <1>2, <1>3

\* A refused or failed resource, and the end of a call, write neither either.
LEMMA AfterSchema ==
  ASSUME LockInv, PlanFresh, HistoryTellsSchema, NEW r \in Runner,
         \/ \E d \in Doctype : Refuse(r, d) \/ ApplyFails(r, d)
         \/ Release(r) \/ Attach(r) \/ Crash(r) \/ CreateAnswerLost(r) \/ StatementFails(r)
  PROVE  PlanFresh' /\ HistoryTellsSchema'
<1>1. ASSUME NEW d \in Doctype, Refuse(r, d) \/ ApplyFails(r, d)
      PROVE  PlanFresh' /\ HistoryTellsSchema'
  <2>1. UNCHANGED <<columns, history, broken, plan>> /\ todo' = [todo EXCEPT ![r] = @ \ {d}]
    BY <1>1 DEF Refuse, ApplyFails, Passed, schema, ghosts
  <2>2. \A s \in Runner : todo'[s] \subseteq todo[s]
    BY <2>1 DEF LockInv, TypeOK
  <2> QED
    BY <2>1, <2>2, SchemaUntouched
<1>2. CASE UNCHANGED <<columns, history>> /\ \E w : LeaveFor(r, w)
  BY <1>2, LeaveNotes, SchemaUntouched
<1>3. CASE UNCHANGED <<columns, history, broken, todo, plan>>
  BY <1>3, SchemaUntouched
<1>4. CASE Release(r) \/ Attach(r) \/ Crash(r) \/ CreateAnswerLost(r)
  BY <1>2, <1>4 DEF Release, Attach, Crash, CreateAnswerLost, Leave, schema
<1>5. CASE StatementFails(r)
  <2>1. UNCHANGED <<columns, history>>
    BY <1>5 DEF StatementFails, schema
  <2>2. (\E w : LeaveFor(r, w)) \/ UNCHANGED <<broken, todo, plan>>
    BY <1>5 DEF StatementFails, Stay, notes, ghosts
  <2> QED
    BY <1>2, <1>3, <2>1, <2>2
<1> QED
  BY <1>1, <1>4, <1>5

\* The inductive invariant is kept by every step.
LEMMA StepInv == ASSUME IInv, [Next]_vars PROVE IInv'
<1>1. LockInv /\ PlanFresh /\ HistoryTellsSchema
  BY DEF IInv, LockInv
<1>2. LockInv'
  BY <1>1, LockStep
<1>3. PlanFresh' /\ HistoryTellsSchema'
  <2>1. CASE UNCHANGED vars
    <3>1. UNCHANGED <<columns, history, broken, todo, plan>>
      BY <2>1 DEF vars
    <3> QED
      BY <1>1, <3>1, SchemaUntouched
  <2>2. ASSUME NEW r \in Runner, Start(r) \/ Work(r) \/ Faulty(r)
        PROVE  PlanFresh' /\ HistoryTellsSchema'
    BY <1>1, <2>2, BeforeSchema, LoadSchema, ApplySchema, AfterSchema DEF Work, Faulty
  <2>3. CASE Tick \/ \E d \in Doctype, F \in SUBSET Field : EditMetadata(d, F)
    <3>1. UNCHANGED <<columns, history, broken, todo, plan>>
      BY <2>3 DEF Tick, EditMetadata, schema, notes, ghosts
    <3> QED
      BY <1>1, <3>1, SchemaUntouched
  <2> QED
    BY <2>1, <2>2, <2>3 DEF Next
<1> QED
  BY <1>2, <1>3 DEF IInv, LockInv

\* The first state satisfies it.
LEMMA InitInv == Init => IInv
<1> SUFFICES ASSUME Init PROVE IInv
  OBVIOUS
<1>1. TypeOK
  BY InitTypes
<1>2. lock = Free /\ evicted = {} /\ \A r \in Runner : pc[r] = "idle" /\ todo[r] = {}
  BY DEF Init
<1>3. \A d \in Doctype : history[d] = {} /\ columns[d] = {}
  BY DEF Init
<1>4. LockShape /\ NoCascade /\ EvictionBreaks /\ TodoInside
  BY <1>2, SchemaAssumption DEF LockShape, NoCascade, EvictionBreaks, TodoInside
<1>5. PlanFresh /\ HistoryTellsSchema
  BY <1>2, <1>3 DEF PlanFresh, HistoryTellsSchema, HistoryTells
<1> QED
  BY <1>1, <1>4, <1>5 DEF IInv

-----------------------------------------------------------------------------
(* What follows for every behaviour.                                        *)

\* The inductive invariant holds in every reachable state, whatever names the
\* runners share.
THEOREM Invariance == Spec => []IInv
<1>1. Init => IInv
  BY InitInv
<1>2. IInv /\ [Next]_vars => IInv'
  BY StepInv
<1> QED
  BY <1>1, <1>2, PTL DEF Spec

\* lock_release's promise, as far as the code keeps it: an eviction costs the lock of
\* no runner but the evicted one and those that share its holder name.
THEOREM OneOverlap == Spec => []NoCascade
<1>1. IInv => NoCascade
  BY DEF IInv
<1> QED
  BY <1>1, Invariance, PTL

\* apply_resource's promise: the history tells the schema until the first eviction,
\* whether the runners are threads of one process or processes of their own.
THEOREM HistoryIsTheSchema == Spec => []HistoryTellsSchema
<1>1. IInv => HistoryTellsSchema
  BY DEF IInv
<1> QED
  BY <1>1, Invariance, PTL

\* Only an application of a resource changes the columns of a table.
LEMMA ColumnsMove ==
  ASSUME TypeOK, Next, columns' # columns
  PROVE  \E r \in Runner, e \in Doctype : Apply(r, e)
<1>1. ASSUME NEW r \in Runner, Start(r) PROVE UNCHANGED columns
  BY <1>1 DEF Start, StartSync, StartReclaim, StartUpdate, StartRevert, Begin, schema
<1>2. ASSUME NEW r \in Runner, Work(r), \A e \in Doctype : ~Apply(r, e) PROVE UNCHANGED columns
  BY <1>2 DEF Work, ReadMetadata, ReadHistory, TryCreate, CheckStale, DeleteStale, LoadHistory,
              Refuse, Release, Attach, schema
<1>3. ASSUME NEW r \in Runner, Faulty(r) PROVE UNCHANGED columns
  BY <1>3 DEF Faulty, Crash, CreateAnswerLost, StatementFails, ApplyFails, schema
<1>4. Tick \/ (\E x \in Doctype, F \in SUBSET Field : EditMetadata(x, F)) => UNCHANGED columns
  BY DEF Tick, EditMetadata, schema
<1> QED
  BY <1>1, <1>2, <1>3, <1>4 DEF Next

\* The gate's promise, which no overlap and no shared name can break: what is not
\* allowed to destroy drops no column.
THEOREM SyncsDestroyNothing == Spec => NoSilentDrop
<1>1. TypeOK /\ [Next]_vars =>
        [\A d \in Doctype : Lost(d) # {} => \E r \in Runner : Applying(r) /\ op[r].allow]_vars
  <2> SUFFICES ASSUME TypeOK, Next, NEW d \in Doctype, Lost(d) # {}
               PROVE  \E r \in Runner : Applying(r) /\ op[r].allow
    OBVIOUS
  <2>1. columns' # columns
    BY DEF Lost
  <2>2. PICK r \in Runner, e \in Doctype : Apply(r, e)
    BY <2>1, ColumnsMove
  <2> DEFINE p == plan[r][e]
  <2>3. /\ pc[r] = "apply" /\ e \in todo[r] /\ ~Refused(r, e)
        /\ columns' = [columns EXCEPT ![e] = (@ \cup (p.to \ p.from)) \ (p.from \ p.to)]
        /\ todo' = [todo EXCEPT ![r] = @ \ {e}]
    BY <2>2 DEF Apply, Passed
  <2>4. e = d
    BY <2>3 DEF Lost, TypeOK
  <2>5. columns'[d] = (columns[d] \cup (p.to \ p.from)) \ (p.from \ p.to)
    BY <2>3, <2>4 DEF TypeOK
  <2>6. Destructive(p.from, p.to) # {}
    BY <2>5 DEF Lost, Destructive
  <2>7. op[r].allow
    BY <2>3, <2>6 DEF Refused
  <2>8. Applying(r)
    BY <2>3 DEF Applying, TypeOK
  <2> QED
    BY <2>7, <2>8
<1> QED
  BY <1>1, Types, PTL DEF Spec, NoSilentDrop

-----------------------------------------------------------------------------
(* What is lost, and who knew of it.                                        *)

\* What a call knows of and drops nevertheless, its caller has been told, at each point
\* of the call: what it wants against what it has seen, and then its plan.
TellsLoss(r) ==
  /\ pc[r] # "apply" => todo[r] = {}
  /\ op[r].kind = "sync" => told[r] = {}
  /\ op[r].kind = "reclaim" /\ pc[r] \in {"meta", "history"} => op[r].fields \subseteq told[r]
  /\ pc[r] \in {"create", "check", "steal", "retake", "load"} /\ op[r].kind # "revert" =>
       \A d \in op[r].docs : seen[r][d] \ want[r][d] \subseteq told[r]
  /\ pc[r] = "apply" /\ op[r].kind # "revert" =>
       \A d \in todo[r] : seen[r][d] \ plan[r][d].to \subseteq told[r]

LossInv == TypeOK /\ \A r \in Runner : TellsLoss(r)

\* One runner moves, and the others keep their notes.
NotesOf(s) == <<pc[s], op[s], told[s], seen[s], want[s], plan[s], todo[s]>>
OnlyMoves(r) == \A s \in Runner \ {r} : NotesOf(s)' = NotesOf(s)

LEMMA NotesAreFunctions ==
  ASSUME TypeOK
  PROVE  /\ pc = [s \in Runner |-> pc[s]] /\ op = [s \in Runner |-> op[s]]
         /\ told = [s \in Runner |-> told[s]] /\ seen = [s \in Runner |-> seen[s]]
         /\ want = [s \in Runner |-> want[s]] /\ plan = [s \in Runner |-> plan[s]]
         /\ todo = [s \in Runner |-> todo[s]]
  BY DEF TypeOK

\* The runner goes elsewhere and keeps its notes.
LEMMA OnlyGoes ==
  ASSUME LossInv, NEW r \in Runner, NEW where, GoTo(r, where),
         UNCHANGED <<op, told, seen, want, plan, todo>>
  PROVE  OnlyMoves(r) /\ pc'[r] = where /\ TellsLoss(r)
<1>1. pc = [s \in Runner |-> pc[s]] /\ TellsLoss(r)
  BY NotesAreFunctions DEF LossInv
<1>2. \A s \in Runner : pc'[s] = IF s = r THEN where ELSE pc[s]
  BY <1>1 DEF GoTo
<1> QED
  BY <1>1, <1>2 DEF OnlyMoves, NotesOf

LEMMA OneTells ==
  ASSUME LossInv, NEW r \in Runner, OnlyMoves(r), TellsLoss(r)', TypeOK'
  PROVE  LossInv'
<1>1. ASSUME NEW s \in Runner \ {r} PROVE TellsLoss(s)'
  <2>1. NotesOf(s)' = NotesOf(s) /\ TellsLoss(s)
    BY DEF OnlyMoves, LossInv
  <2> QED
    BY <2>1 DEF TellsLoss, NotesOf
<1> QED
  BY <1>1 DEF LossInv

\* A call that starts knows nothing yet, or was told what it is to destroy.
LEMMA StartTells ==
  ASSUME LossInv, NEW r \in Runner, Start(r)
  PROVE  OnlyMoves(r) /\ TellsLoss(r)'
<1>1. ASSUME NEW call, NEW where, NEW known, NEW wanted, NEW loss,
             Begin(r, call, where, known, wanted, loss)
      PROVE  /\ OnlyMoves(r) /\ todo'[r] = {} /\ pc'[r] = where /\ op'[r] = call
             /\ told'[r] = loss /\ seen'[r] = known /\ want'[r] = wanted
  <2>1. TypeOK /\ TellsLoss(r)
    BY DEF LossInv
  <2>2. todo'[r] = {} /\ UNCHANGED <<plan, todo>>
    BY <1>1, <2>1 DEF Begin, TellsLoss
  <2>3. \A s \in Runner :
          /\ pc'[s] = IF s = r THEN where ELSE pc[s]
          /\ op'[s] = IF s = r THEN call ELSE op[s]
          /\ told'[s] = IF s = r THEN loss ELSE told[s]
          /\ seen'[s] = IF s = r THEN known ELSE seen[s]
          /\ want'[s] = IF s = r THEN wanted ELSE want[s]
    <3> HIDE DEF TypeOK
    <3> QED
      BY <1>1, <2>1, NotesAreFunctions DEF Begin
  <2> QED
    BY <2>2, <2>3 DEF OnlyMoves, NotesOf
<1>2. CASE StartSync(r)
  <2>1. Begin(r, Sync, "meta", Nothing, Nothing, {}) /\ Sync.kind = "sync"
    BY <1>2 DEF StartSync, Sync
  <2> QED
    BY <1>1, <2>1 DEF TellsLoss
<1>3. ASSUME NEW d \in Doctype, NEW f \in Field, StartReclaim(r, d, f)
      PROVE  OnlyMoves(r) /\ TellsLoss(r)'
  <2> DEFINE c == Call("reclaim", {d}, {f}, TRUE, 0)
  <2>1. Begin(r, c, "meta", Nothing, Nothing, {f}) /\ c.kind = "reclaim" /\ c.fields = {f}
    BY <1>3 DEF StartReclaim, Call
  <2> HIDE DEF c
  <2> QED
    BY <1>1, <2>1 DEF TellsLoss
<1>4. ASSUME NEW d \in Doctype, NEW F \in SUBSET Field, NEW ack \in BOOLEAN, StartUpdate(r, d, F, ack)
      PROVE  OnlyMoves(r) /\ TellsLoss(r)'
  <2> DEFINE c == Call("update", {d}, F, ack, 0)
  <2>1. PICK snap \in Histories :
          Begin(r, c, "create", [Nothing EXCEPT ![d] = snap[d].fields],
                [Nothing EXCEPT ![d] = F], Destructive(snap[d].fields, F))
    BY <1>4 DEF StartUpdate
  <2>2. c.kind = "update" /\ c.docs = {d}
    BY DEF Call
  <2>3. /\ [Nothing EXCEPT ![d] = snap[d].fields][d] = snap[d].fields
        /\ [Nothing EXCEPT ![d] = F][d] = F
    OBVIOUS
  <2> HIDE DEF c
  <2>4. /\ OnlyMoves(r) /\ todo'[r] = {} /\ pc'[r] = "create" /\ op'[r] = c
        /\ told'[r] = Destructive(snap[d].fields, F)
        /\ seen'[r] = [Nothing EXCEPT ![d] = snap[d].fields]
        /\ want'[r] = [Nothing EXCEPT ![d] = F]
    BY <1>1, <2>1
  <2>5. \A e \in op'[r].docs : seen'[r][e] \ want'[r][e] \subseteq told'[r]
    BY <2>2, <2>3, <2>4 DEF Destructive
  <2> QED
    BY <2>2, <2>4, <2>5 DEF TellsLoss
<1>5. ASSUME NEW back \in 0 .. 1, NEW allow \in BOOLEAN, StartRevert(r, back, allow)
      PROVE  OnlyMoves(r) /\ TellsLoss(r)'
  <2> DEFINE c == Call("revert", Doctype, {}, allow, back)
  <2>1. Begin(r, c, "create", Nothing, Nothing, {}) /\ c.kind = "revert"
    BY <1>5 DEF StartRevert, Call
  <2> HIDE DEF c
  <2> QED
    BY <1>1, <2>1 DEF TellsLoss
<1> QED
  BY <1>2, <1>3, <1>4, <1>5 DEF Start

\* The end of a call or of a run: its notes are forgotten.
LEMMA LeaveTells ==
  ASSUME LossInv, NEW r \in Runner, NEW where \in {"idle", "meta", "attach"}, LeaveFor(r, where),
         where = "attach" => op[r].kind = "update"
  PROVE  OnlyMoves(r) /\ TellsLoss(r)'
<1> USE DEF LossInv, TypeOK
<1>1. Sync.kind = "sync"
  BY DEF Sync
<1>2. /\ pc'[r] = where /\ todo'[r] = {} /\ told'[r] = {} /\ OnlyMoves(r)
      /\ op'[r].kind \in {"sync", "update"}
  BY <1>1 DEF LeaveFor, GoTo, OnlyMoves, NotesOf
<1> QED
  BY <1>2 DEF TellsLoss

\* carry_orphans: what the history has and nobody declares is wanted again, but for the
\* field that is reclaimed.
LEMMA ReadTells ==
  ASSUME LossInv, NEW r \in Runner, ReadMetadata(r) \/ ReadHistory(r)
  PROVE  OnlyMoves(r) /\ TellsLoss(r)'
<1> USE DEF LossInv, TypeOK
<1>1. CASE ReadMetadata(r)
  <2>1. /\ pc[r] = "meta" /\ pc'[r] = "history"
        /\ UNCHANGED <<op, told, seen, plan, todo>> /\ OnlyMoves(r)
    BY <1>1 DEF ReadMetadata, OnlyMoves, NotesOf
  <2>2. TellsLoss(r)
    OBVIOUS
  <2> HIDE DEF LossInv, TypeOK
  <2> QED
    BY <2>1, <2>2 DEF TellsLoss
<1>2. CASE ReadHistory(r)
  <2>1. PICK snap \in Histories :
          /\ seen' = [seen EXCEPT ![r] = [d \in Doctype |-> snap[d].fields]]
          /\ want' = [want EXCEPT ![r] = [d \in Doctype |->
               IF d \in op[r].docs THEN want[r][d] \cup Carried(r, d, snap) ELSE {}]]
    BY <1>2 DEF ReadHistory
  <2>2. /\ pc'[r] = "create" /\ op'[r] = op[r] /\ told'[r] = told[r] /\ todo'[r] = todo[r]
        /\ pc[r] = "history" /\ OnlyMoves(r)
    BY <1>2 DEF ReadHistory, OnlyMoves, NotesOf
  <2>3. /\ seen'[r] = [d \in Doctype |-> snap[d].fields]
        /\ want'[r] = [d \in Doctype |->
               IF d \in op[r].docs THEN want[r][d] \cup Carried(r, d, snap) ELSE {}]
    BY <2>1
  <2>4. op[r].docs \subseteq Doctype
    OBVIOUS
  <2>5. ASSUME NEW d \in op[r].docs, op[r].kind # "revert"
        PROVE  seen'[r][d] \ want'[r][d] \subseteq told[r]
    BY <2>2, <2>3, <2>4, <2>5 DEF Carried, TellsLoss
  <2>6. TellsLoss(r)
    OBVIOUS
  <2> HIDE DEF LossInv, TypeOK
  <2> QED
    BY <2>2, <2>5, <2>6 DEF TellsLoss
<1> QED
  BY <1>1, <1>2

\* The lock's protocol leaves the notes alone, or ends the call.
LEMMA LockTells ==
  ASSUME LossInv, NEW r \in Runner, TryCreate(r) \/ CheckStale(r) \/ DeleteStale(r)
  PROVE  OnlyMoves(r) /\ TellsLoss(r)'
<1>1. CASE Leave(r)
  BY <1>1, LeaveTells DEF Leave
<1>2. ASSUME NEW where \in {"load", "check", "steal", "retake"}, UNCHANGED notes, GoTo(r, where),
             pc[r] \in {"create", "check", "steal", "retake"}
      PROVE  OnlyMoves(r) /\ TellsLoss(r)'
  <2>1. OnlyMoves(r) /\ pc'[r] = where /\ TellsLoss(r) /\ UNCHANGED <<op, told, seen, want, plan, todo>>
    BY <1>2, OnlyGoes DEF notes
  <2> QED
    BY <1>2, <2>1 DEF TellsLoss
<1> QED
  BY <1>1, <1>2 DEF TryCreate, CheckStale, DeleteStale, Stay

\* The diff is taken towards what was wanted.
LEMMA LoadTells ==
  ASSUME LossInv, NEW r \in Runner, LoadHistory(r)
  PROVE  OnlyMoves(r) /\ TellsLoss(r)'
<1> USE DEF LossInv, TypeOK
<1>1. /\ pc[r] = "load" /\ pc'[r] = "apply" /\ op'[r] = op[r] /\ told'[r] = told[r]
      /\ seen'[r] = seen[r]
  BY DEF LoadHistory, GoTo
<1>2. OnlyMoves(r)
  BY DEF LoadHistory, GoTo, OnlyMoves, NotesOf
<1>3. ASSUME op[r].kind # "revert", NEW d \in todo'[r]
      PROVE  seen[r][d] \ plan'[r][d].to \subseteq told[r]
  <2>1. PICK base \in Histories :
          /\ plan' = [plan EXCEPT ![r] = [e \in Doctype |->
               [next |-> NextVersion(base[e]), from |-> base[e].fields, to |-> want[r][e]]]]
          /\ todo' = [todo EXCEPT ![r] = {e \in op[r].docs :
               base[e] = NoRow \/ base[e].fields # want[r][e]}]
    BY <1>3 DEF LoadHistory
  <2>2. d \in op[r].docs /\ d \in Doctype
    BY <1>3, <2>1
  <2>3. plan'[r][d].to = want[r][d]
    BY <2>1, <2>2
  <2> QED
    BY <1>1, <1>3, <2>2, <2>3 DEF TellsLoss
<1> QED
  BY <1>1, <1>2, <1>3 DEF TellsLoss

\* A resource is passed.
LEMMA ResourceTells ==
  ASSUME LossInv, NEW r \in Runner, NEW d \in Doctype,
         Refuse(r, d) \/ Apply(r, d) \/ ApplyFails(r, d)
  PROVE  OnlyMoves(r) /\ TellsLoss(r)'
<1>1. Passed(r, d, "refused") \/ Passed(r, d, "applied")
  BY DEF Refuse, Apply, ApplyFails
<1> QED
  BY <1>1 DEF LossInv, TypeOK, Passed, OnlyMoves, NotesOf, TellsLoss

\* The end of a call, in order or by a fault.
LEMMA EndTells ==
  ASSUME LossInv, NEW r \in Runner,
         Release(r) \/ Attach(r) \/ Crash(r) \/ CreateAnswerLost(r) \/ StatementFails(r)
  PROVE  OnlyMoves(r) /\ TellsLoss(r)'
<1>1. CASE LeaveFor(r, After(r)) \/ Leave(r)
  <2>1. After(r) \in {"idle", "meta", "attach"} /\ (After(r) = "attach" => op[r].kind = "update")
    BY DEF After
  <2> QED
    BY <1>1, <2>1, LeaveTells DEF Leave
<1>2. CASE pc[r] = "steal" /\ Stay(r, "retake")
  <2>1. OnlyMoves(r) /\ pc'[r] = "retake" /\ TellsLoss(r) /\ UNCHANGED <<op, told, seen, want, plan, todo>>
    BY <1>2, OnlyGoes DEF Stay, notes
  <2> QED
    BY <1>2, <2>1 DEF TellsLoss
<1>3. CASE /\ pc[r] = "load" /\ GoTo(r, "apply")
           /\ UNCHANGED <<op, told, seen, want, plan, todo>>
  <2>1. OnlyMoves(r) /\ pc'[r] = "apply" /\ TellsLoss(r)
    BY <1>3, OnlyGoes
  <2> QED
    BY <1>3, <2>1 DEF TellsLoss
<1> QED
  BY <1>1, <1>2, <1>3 DEF Release, Attach, Crash, CreateAnswerLost, StatementFails

\* The losses that are known stay told in every state.
LEMMA LossStep == ASSUME LossInv, [Next]_vars PROVE LossInv'
<1>1. TypeOK /\ TypeOK'
  BY TypeStep DEF LossInv
<1>2. CASE UNCHANGED <<pc, notes>>
  BY <1>1, <1>2 DEF LossInv, TellsLoss, notes
<1>3. ASSUME NEW r \in Runner, Start(r) \/ Work(r) \/ Faulty(r) PROVE LossInv'
  <2>1. OnlyMoves(r) /\ TellsLoss(r)'
    BY <1>3, StartTells, ReadTells, LockTells, LoadTells, ResourceTells, EndTells DEF Work, Faulty
  <2> QED
    BY <1>1, <2>1, OneTells
<1> QED
  BY <1>2, <1>3 DEF Next, Tick, EditMetadata, vars, notes

THEOREM LossesAreKnown == Spec => []LossInv
<1>1. Init => LossInv
  BY InitTypes DEF LossInv, TellsLoss, Init
<1>2. LossInv /\ [Next]_vars => LossInv'
  BY LossStep
<1> QED
  BY <1>1, <1>2, PTL DEF Spec

\* carry_orphans' promise: a sync is refused only because of fields that came after it
\* had read the history, for any metadata and any edits, runs and thefts of the lock beside it.
THEOREM OrphansNeverBlock == Spec => []OrphansDontBlock
<1>1. LossInv => OrphansDontBlock
  BY DEF LossInv, TellsLoss, OrphansDontBlock, Destructive
<1> QED
  BY <1>1, LossesAreKnown, PTL

\* The promise to the callers: what a reclaim or an update destroys and was there when it
\* looked, it had announced; a revert announces nothing.
THEOREM LossesAreTold == Spec => LossKnownIsTold
<1>1. LossInv /\ [Next]_vars =>
        [\A d \in Doctype : \A f \in Lost(d) :
           \E r \in Runner : /\ Applying(r) /\ d \in todo[r] \ todo'[r]
                             /\ op[r].kind = "revert" \/ f \in told[r] \/ f \notin seen[r][d]]_vars
  <2> SUFFICES ASSUME LossInv, Next, NEW d \in Doctype, NEW f \in Lost(d)
               PROVE  \E r \in Runner :
                         /\ Applying(r) /\ d \in todo[r] \ todo'[r]
                         /\ op[r].kind = "revert" \/ f \in told[r] \/ f \notin seen[r][d]
    OBVIOUS
  <2>1. TypeOK
    BY DEF LossInv
  <2>2. columns' # columns
    BY DEF Lost
  <2>3. PICK r \in Runner, e \in Doctype : Apply(r, e)
    BY <2>1, <2>2, ColumnsMove
  <2> DEFINE p == plan[r][e]
  <2>4. /\ pc[r] = "apply" /\ e \in todo[r]
        /\ columns' = [columns EXCEPT ![e] = (@ \cup (p.to \ p.from)) \ (p.from \ p.to)]
        /\ todo' = [todo EXCEPT ![r] = @ \ {e}]
    BY <2>3 DEF Apply, Passed
  <2>5. e = d
    BY <2>1, <2>4 DEF Lost, TypeOK
  <2>6. f \in p.from \ p.to
    BY <2>1, <2>4, <2>5 DEF Lost, TypeOK
  <2>7. op[r].kind = "revert" \/ f \in told[r] \/ f \notin seen[r][d]
    BY <2>4, <2>5, <2>6 DEF LossInv, TellsLoss
  <2>8. todo'[r] = todo[r] \ {d}
    BY <2>1, <2>4, <2>5 DEF TypeOK
  <2> QED
    BY <2>4, <2>5, <2>7, <2>8 DEF Applying
<1> QED
  BY <1>1, LossesAreKnown, PTL DEF Spec, LossKnownIsTold

=============================================================================
