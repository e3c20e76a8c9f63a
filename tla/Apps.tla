-------------------------------- MODULE Apps --------------------------------
(***************************************************************************)
(* The lifecycle of apps in one tenant (kernel/src/rest.rs, app.rs): what  *)
(* install, update, uninstall, enable and disable write, one statement at  *)
(* a time.  No lock is held over an operation and no transaction spans two *)
(* statements, so two managers interleave, users edit the rows an app      *)
(* shipped at any moment, and a stop leaves whatever was written so far.   *)
(*                                                                         *)
(* A bundle is what the lifecycle tells apart of a manifest.  A list of    *)
(* fields or scripts in a DocType record is the set of its entries;        *)
(* workflows and notifications, which are written and deleted alike, are   *)
(* flows; the row of a fixture is the text of its shipped fields and the    *)
(* edit that filled another field, if any.  The schema migration is one    *)
(* step (SchemaSync has its insides), the reads of the plan are another.   *)
(***************************************************************************)
EXTENDS Integers, Sequences, FiniteSets, Functions

CONSTANTS App, Doctype, Field, Flow, Key,
          KeyDoctype,   \* [Key -> Doctype], where a fixture's row lives
          Operator,     \* managers
          None,         \* no app, no row, no record
          Workloads,    \* what the operators are going to call: [Operator -> Seq(Call)]
          MaxEdits,     \* bound of the model: edits of fixture rows by users
          MaxFaults     \* bound of the model: operations that break off

Bundle == [app : App, version : Nat \ {0}, named : BOOLEAN,
           doctypes : SUBSET Doctype, fields : SUBSET (Doctype \X Field),
           extends : SUBSET Doctype, adds : SUBSET (Doctype \X Field),
           hooks : SUBSET Doctype, clients : SUBSET Doctype,
           flows : SUBSET Flow, ships : SUBSET Key]

\* Manifest::validate: own it or extend it, not both; fields, scripts and the
\* rest target what the bundle declares.
Valid(b) ==
  /\ b.doctypes \cap b.extends = {}
  /\ \A x \in b.fields : x[1] \in b.doctypes
  /\ \A x \in b.adds : x[1] \in b.extends
  /\ b.hooks \subseteq b.doctypes \cup b.extends
  /\ b.clients \subseteq b.doctypes
  /\ \A d \in b.extends : d \in b.hooks \/ \E x \in b.adds : x[1] = d

Call == [kind : {"install", "update", "uninstall", "enable", "disable"},
         bundle : Bundle, ack : BOOLEAN]

\* A fixture row, its shipped fields as one text, and its provenance.
Texts == [by : App \cup {None}, n : Nat]
Contents == [text : Texts, extra : Nat]
Recorded == [text : Texts \cup {None}, extra : Nat]
Provenance == [app : App, shipped : Recorded, active : BOOLEAN]

\* A DocType record, with the entries of its field list and its script list.
Entry == [what : {"field"}, name : Field, app : App \cup {None}]
           \cup [what : {"hook"}, name : {None}, app : App]
Record == [app : App, entries : SUBSET Entry, client : BOOLEAN]

ASSUME AppsAssumption ==
  /\ KeyDoctype \in [Key -> Doctype]
  /\ None \notin App \cup Texts \cup Contents \cup Recorded \cup Provenance \cup Bundle \cup Record
  /\ Workloads \subseteq [Operator -> Seq(Call)]
  /\ MaxEdits \in Nat
  /\ MaxFaults \in Nat

VARIABLES registry,   \* installed_app: the recorded bundle and whether it is enabled
          doctypes,   \* the DocType records
          schema,     \* the fields in the migration history of each resource
          flows,      \* which app wrote the workflow or notification of a name
          prov,       \* app_fixture, the provenance of a fixture row
          rows,       \* the fixture rows
          work,       \* the calls an operator has still to make
          ses,        \* the operation each operator's request is in
          edits, faults,
          quietly,    \* history: rows whose last edit was made while no operation was going on
          tangled,    \* history: two operations have overlapped
          shorn       \* history: the apps whose entries in a DocType's record went with it

vars == <<registry, doctypes, schema, flows, prov, rows, work, ses, edits, faults,
          quietly, tangled, shorn>>
meta == <<registry, doctypes, schema, flows>>
data == <<prov, rows, quietly>>
env  == <<work, edits, faults, tangled, shorn>>

\* A resource of the migrator is named by the app its DocType names, else "app".
Resource == (App \cup {"app"}) \X Doctype

Idle == [pc |-> "idle", call |-> None, had |-> None, left |-> {}, at |-> None,
         kept |-> {}, row |-> None, alone |-> FALSE, before |-> None]

Init ==
  /\ registry = [a \in App |-> None]
  /\ doctypes = [d \in Doctype |-> None]
  /\ schema = [r \in Resource |-> {}]
  /\ flows = [n \in Flow |-> None]
  /\ prov = [k \in Key |-> None]
  /\ rows = [k \in Key |-> None]
  /\ work \in Workloads
  /\ ses = [o \in Operator |-> Idle]
  /\ edits = 0
  /\ faults = 0
  /\ quietly = {}
  /\ tangled = FALSE
  /\ shorn = [d \in Doctype |-> {}]

-----------------------------------------------------------------------------
(* What an operation is made of.                                            *)

Busy(o) == ses[o].pc # "idle"
Me(o) == ses[o].call.bundle.app
New(o) == ses[o].call.bundle

\* An entry of a DocType record's field list or script list, with its app; a
\* field its owner declares carries no ext_app.
FieldEntry(f, a) == [what |-> "field", name |-> f, app |-> a]
HookEntry(a) == [what |-> "hook", name |-> None, app |-> a]

FieldsOf(b, d) == {f \in Field : <<d, f>> \in b.fields}
Own(b, d) == {FieldEntry(f, None) : f \in FieldsOf(b, d)}
               \cup {HookEntry(b.app) : x \in b.hooks \cap {d}}
Added(b, d) == {FieldEntry(f, b.app) : f \in {g \in Field : <<d, g>> \in b.adds}}
                 \cup {HookEntry(b.app) : x \in b.hooks \cap {d}}

\* What an update of the owner puts back behind its own entries.
ForeignFields(E, a) == {e \in E : e.what = "field" /\ e.app # None}
ForeignHooks(E, a) == {e \in E : e.what = "hook" /\ e.app \notin {None, a}}

ForeignNoHooks(E, a) == ForeignFields(E, a)             \* mutated: scripts are forgotten
Foreign(E, a) == ForeignFields(E, a) \cup ForeignHooks(E, a)

Entries(d) == IF doctypes[d] = None THEN {} ELSE doctypes[d].entries
Stripped(E, a) == {e \in E : e.app # a}

\* What other apps have in the DocTypes there are.
Others(a) == [d \in Doctype |-> {e \in Entries(d) : e.app \notin {None, a, doctypes[d].app}}]

ResourceOf(b, d) == <<IF b.named THEN b.app ELSE "app", d>>
Destructive(b) == {x \in Doctype \X Field :
                     x[1] \in b.doctypes /\ x[2] \in schema[ResourceOf(b, x[1])] \ FieldsOf(b, x[1])}

-----------------------------------------------------------------------------
(* The plan.                                                                *)

AnotherOwns(k, a) == prov[k] # None /\ prov[k].app # a

ModifiedIfActive(k) ==                          \* mutated: an orphaned row is not compared
  IF prov[k] = None THEN rows[k] # None ELSE prov[k].active /\ rows[k] # prov[k].shipped

\* UNOWNED_ROW and USER_MODIFIED.
Modified(k) ==
  IF prov[k] = None THEN rows[k] # None ELSE rows[k] # prov[k].shipped

FixturesRefused(b) ==
  \E k \in b.ships :
    \/ AnotherOwns(k, b.app)
    \/ KeyDoctype[k] \notin b.doctypes /\ doctypes[KeyDoctype[k]] = None

\* The extensions of other apps this bundle breaks.
Casualties(b) ==
  {x \in Destructive(b) : \E a \in App \ {b.app} :
                             registry[a] # None /\ x \in registry[a].bundle.adds}

GateRefuses(b, ack) ==
  /\ ~ack
  /\ \/ Destructive(b) # {}
     \/ Casualties(b) # {}
     \/ \E k \in b.ships : Modified(k)

-----------------------------------------------------------------------------
(* Steps of an operation: one statement each, and what the request keeps.    *)

Goto(o, p) == ses' = [ses EXCEPT ![o].pc = p]
LoopOver(o, p, S) == ses' = [ses EXCEPT ![o].pc = p, ![o].left = S]
Keeps(o, p, x, K) == ses' = [ses EXCEPT ![o].pc = p, ![o].at = x, ![o].kept = K]
Reads(o, p, k) == ses' = [ses EXCEPT ![o].pc = p, ![o].at = k, ![o].row = rows[k]]
Ends(o) == ses' = [ses EXCEPT ![o] = Idle]

\* A manager whose call failed makes it again, acknowledging it.
Again(O) == [o \in Operator |->
  IF o \in O THEN <<[ses[o].call EXCEPT !.ack = TRUE]>> \o work[o] ELSE work[o]]

At(o, p) == ses[o].pc = p
Next1(o, p) == At(o, p) /\ ses[o].left # {}      \* the loop p has an element to do
Done(o, p) == At(o, p) /\ ses[o].left = {}

Refuses(c) ==
  LET r == registry[c.bundle.app] IN
    CASE c.kind = "install" -> r # None \/ ~Valid(c.bundle)
      [] c.kind = "update"  -> r = None \/ ~Valid(c.bundle)
                                 \/ ~(c.bundle.version > r.bundle.version)
      [] OTHER -> r = None

FirstStep(kind) ==
  CASE kind \in {"install", "update"} -> "plan"
    [] kind = "uninstall" -> "drop"
    [] OTHER -> "toggle"

\* A call reads the registry row first.
Begin(o) ==
  /\ ~Busy(o) /\ work[o] # <<>>
  /\ LET c == Head(work[o])
         r == registry[c.bundle.app]
         others == {p \in Operator \ {o} : Busy(p)}
     IN /\ work' = [work EXCEPT ![o] = Tail(@)]
        /\ IF Refuses(c) THEN UNCHANGED <<ses, tangled>>
           ELSE /\ ses' = [p \in Operator |->
                    IF p = o
                      THEN [Idle EXCEPT !.pc = FirstStep(c.kind), !.call = c,
                              !.had = IF r = None THEN None ELSE r.bundle,
                              !.left = IF c.kind \in {"install", "update"} THEN {} ELSE r.bundle.doctypes,
                              !.alone = others = {}, !.before = Others(c.bundle.app)]
                      ELSE [ses[p] EXCEPT !.alone = FALSE]]
                /\ tangled' = (tangled \/ others # {})
  /\ UNCHANGED <<meta, data, edits, faults, shorn>>

\* The dry run, the plan of the fixtures and the three gates.
Plan(o) ==
  /\ At(o, "plan")
  /\ IF FixturesRefused(New(o)) \/ GateRefuses(New(o), ses[o].call.ack)
       THEN Ends(o) ELSE Goto(o, "schema")
  /\ UNCHANGED <<meta, data, env>>

\* The migrator diffs again, against the history under its lock.
ApplySchema(o) ==
  /\ At(o, "schema")
  /\ IF Destructive(New(o)) # {} /\ ~ses[o].call.ack
       THEN Ends(o) /\ UNCHANGED schema
       ELSE /\ schema' = [r \in Resource |->
                 IF \E d \in New(o).doctypes : r = ResourceOf(New(o), d)
                   THEN FieldsOf(New(o), r[2]) ELSE schema[r]]
            /\ LoopOver(o, "attach", New(o).doctypes)
  /\ UNCHANGED <<registry, doctypes, flows, data, env>>

\* attach_metadata: the prior record is read, replaced whole, and what other
\* apps had in it is put back entry by entry.
ReadPrior(o) ==
  /\ Next1(o, "attach")
  /\ \E d \in ses[o].left :
       Keeps(o, "put", d, Foreign(Entries(d), Me(o)))
  /\ UNCHANGED <<meta, data, env>>

PutDoctype(o) ==
  /\ At(o, "put")
  /\ LET d == ses[o].at IN
       doctypes' = [doctypes EXCEPT ![d] = [app |-> Me(o), entries |-> Own(New(o), d),
                                            client |-> d \in New(o).clients]]
  /\ Goto(o, "back")
  /\ UNCHANGED <<registry, schema, flows, data, env>>

\* UPDATE doctype:d SET fields += ...; a record that is gone stays gone.
Append1(o, e) ==
  /\ LET d == ses[o].at IN
       doctypes' = IF doctypes[d] = None THEN doctypes
                   ELSE [doctypes EXCEPT ![d].entries = @ \cup {e}]
  /\ Keeps(o, ses[o].pc, ses[o].at, ses[o].kept \ {e})
  /\ UNCHANGED <<registry, schema, flows, data, env>>

PutBack(o) == At(o, "back") /\ \E e \in ses[o].kept : Append1(o, e)

DoctypeDone(o, p, loop) ==
  /\ At(o, p) /\ ses[o].kept = {}
  /\ LoopOver(o, loop, ses[o].left \ {ses[o].at})
  /\ UNCHANGED <<meta, data, env>>

AttachedAll(o) ==
  /\ Done(o, "attach")
  /\ LoopOver(o, "extend", New(o).extends)
  /\ UNCHANGED <<meta, data, env>>

\* attach_extensions: the owner's record must be there and hold none of the
\* fields under another name; then this app's entries are replaced.
Conflicts(o, d) ==
  \E e \in Added(New(o), d), x \in Entries(d) :
    /\ e.what = "field" /\ x.what = "field" /\ x.name = e.name
    /\ (IF x.app = None THEN doctypes[d].app ELSE x.app) # Me(o)

CheckExtension(o) ==
  /\ Next1(o, "extend")
  /\ \E d \in ses[o].left :
       IF doctypes[d] = None \/ Conflicts(o, d) THEN Ends(o)
       ELSE Keeps(o, "strip", d, {})
  /\ UNCHANGED <<meta, data, env>>

StripOwn(o) ==
  /\ At(o, "strip")
  /\ LET d == ses[o].at IN
       /\ doctypes' = IF doctypes[d] = None THEN doctypes
                      ELSE [doctypes EXCEPT ![d].entries = Stripped(@, Me(o))]
       /\ Keeps(o, "add", d, Added(New(o), d))
       /\ shorn' = [shorn EXCEPT ![d] = @ \ {Me(o)}]
  /\ UNCHANGED <<registry, schema, flows, data, work, edits, faults, tangled>>

AddExtension(o) == At(o, "add") /\ \E e \in ses[o].kept : Append1(o, e)

\* The metadata sync makes columns of the fields; what the history holds is
\* carried.
SyncExtensions(o) ==
  /\ Done(o, "extend")
  /\ schema' = IF New(o).extends = {} THEN schema
               ELSE [r \in Resource |->
                 IF doctypes[r[2]] # None /\ doctypes[r[2]].app = r[1]
                   THEN schema[r] \cup {e.name : e \in {x \in Entries(r[2]) : x.what = "field"}}
                   ELSE schema[r]]
  /\ LoopOver(o, "flows", New(o).flows)
  /\ UNCHANGED <<registry, doctypes, flows, data, env>>

\* attach_workflows, attach_notifications: UPSERT by name.
PutFlow(o) ==
  /\ Next1(o, "flows")
  /\ \E n \in ses[o].left :
       flows' = [flows EXCEPT ![n] = Me(o)] /\ LoopOver(o, "flows", ses[o].left \ {n})
  /\ UNCHANGED <<registry, doctypes, schema, data, env>>

FlowsDone(o) ==
  /\ Done(o, "flows")
  /\ LoopOver(o, "ship", New(o).ships)
  /\ UNCHANGED <<meta, data, env>>

-----------------------------------------------------------------------------
(* apply_fixtures.                                                          *)

Text(b) == [by |-> b.app, n |-> b.version]      \* what a bundle ships in a row
Row(text, extra) == [text |-> text, extra |-> extra]
Empty == Row(None, 0)                           \* shipped = '{}', of a claim

ReadFixture(o) ==
  /\ Next1(o, "ship")
  /\ \E k \in ses[o].left :
       IF AnotherOwns(k, Me(o)) THEN Ends(o)
       ELSE Reads(o, IF prov[k] = None THEN "claim" ELSE "upsert", k)
  /\ UNCHANGED <<meta, data, env>>

RacedNever(k, a) == FALSE           \* mutated: the failure of a claim is not looked into
RacedOwner(k, a) == AnotherOwns(k, a)

\* CREATE ONLY of the provenance row, and the look at it when that fails.
Claim(o) ==
  /\ At(o, "claim")
  /\ LET k == ses[o].at IN
       IF prov[k] # None
         THEN /\ IF RacedOwner(k, Me(o)) THEN Ends(o) ELSE Goto(o, "upsert")
              /\ UNCHANGED prov
         ELSE /\ prov' = [prov EXCEPT ![k] = [app |-> Me(o), shipped |-> Empty, active |-> FALSE]]
              /\ Goto(o, "upsert")
  /\ UNCHANGED <<meta, rows, quietly, env>>

\* UPSERT ... MERGE of the shipped fields.  Fields it did not ship are cleared
\* by a second statement, if the row it read had any.
Upsert(o) ==
  /\ At(o, "upsert")
  /\ LET k == ses[o].at IN
       /\ rows' = [rows EXCEPT ![k] = Row(Text(New(o)), IF @ = None THEN 0 ELSE @.extra)]
       /\ quietly' = quietly \ {k}
       /\ Goto(o, IF ses[o].row # None /\ ses[o].row.extra # 0 THEN "clear" ELSE "reread")
  /\ UNCHANGED <<meta, prov, env>>

ClearFields(o) ==
  /\ At(o, "clear")
  /\ LET k == ses[o].at IN
       /\ rows' = [rows EXCEPT ![k] = IF @ = None THEN None ELSE Row(@.text, 0)]
       /\ quietly' = quietly \ {k}
  /\ Goto(o, "reread")
  /\ UNCHANGED <<meta, prov, env>>

\* Gone meanwhile, it is an error, after which the call is made again.
Reread(o) ==
  /\ At(o, "reread")
  /\ LET k == ses[o].at IN
       IF rows[k] = None THEN Ends(o) /\ work' = Again({o})
       ELSE Reads(o, "record", k) /\ UNCHANGED work
  /\ UNCHANGED <<meta, data, edits, faults, tangled, shorn>>

\* The row as read back is recorded as shipped.
RecordShipped(o) ==
  /\ At(o, "record")
  /\ prov' = [prov EXCEPT ![ses[o].at] =
                [app |-> Me(o), shipped |-> ses[o].row, active |-> TRUE]]
  /\ LoopOver(o, "ship", ses[o].left \ {ses[o].at})
  /\ UNCHANGED <<meta, rows, quietly, env>>

-----------------------------------------------------------------------------
(* The end of an install or update: what the bundle no longer has, and the  *)
(* registry row.                                                            *)

Removed(old, b) == (old.flows \ b.flows) \cup (old.ships \ b.ships)

Shipped(o) ==
  /\ Done(o, "ship")
  /\ LoopOver(o, "retire", IF ses[o].had = None THEN {} ELSE Removed(ses[o].had, New(o)))
  /\ UNCHANGED <<meta, data, env>>

Orphaned(p) == IF p = None THEN None ELSE [p EXCEPT !.active = FALSE]

\* detach_removed_bundle_metadata, orphan_removed_fixtures.
Retire(o) ==
  /\ Next1(o, "retire")
  /\ \E x \in ses[o].left :
       /\ flows' = [n \in Flow |-> IF n = x THEN None ELSE flows[n]]
       /\ prov' = [k \in Key |-> IF k = x THEN Orphaned(prov[k]) ELSE prov[k]]
       /\ LoopOver(o, "retire", ses[o].left \ {x})
  /\ UNCHANGED <<registry, doctypes, schema, rows, quietly, env>>

\* UPDATE ... WHERE name, or CREATE, which fails if the row is there.
Register(o) ==
  /\ Done(o, "retire")
  /\ IF (ses[o].had = None) = (registry[Me(o)] = None)
       THEN registry' = [registry EXCEPT ![Me(o)] = [bundle |-> New(o), enabled |-> TRUE]]
       ELSE UNCHANGED registry
  /\ Ends(o)
  /\ UNCHANGED <<doctypes, schema, flows, data, env>>

-----------------------------------------------------------------------------
(* uninstall_app.                                                           *)

DropDoctype(o) ==
  /\ Next1(o, "drop")
  /\ \E d \in ses[o].left :
       /\ doctypes' = [doctypes EXCEPT ![d] = None]
       /\ shorn' = [shorn EXCEPT ![d] = @ \cup {e.app : e \in Foreign(Entries(d), Me(o))}]
       /\ LoopOver(o, "drop", ses[o].left \ {d})
  /\ UNCHANGED <<registry, schema, flows, data, work, edits, faults, tangled>>

DroppedAll(o) ==
  /\ Done(o, "drop")
  /\ LoopOver(o, "dropflows", ses[o].had.flows)
  /\ UNCHANGED <<meta, data, env>>

DropFlow(o) ==
  /\ Next1(o, "dropflows")
  /\ \E n \in ses[o].left :
       flows' = [flows EXCEPT ![n] = None] /\ LoopOver(o, "dropflows", ses[o].left \ {n})
  /\ UNCHANGED <<registry, doctypes, schema, data, env>>

\* detach_extensions: one statement over the DocTypes of other apps.
Detached(a) ==
  [d \in Doctype |-> IF doctypes[d] = None \/ doctypes[d].app = a THEN doctypes[d]
                     ELSE [doctypes[d] EXCEPT !.entries = Stripped(@, a)]]

DetachForgetting(o) ==                    \* mutated: the registry row is deleted before the rest
  /\ Done(o, "dropflows")
  /\ doctypes' = Detached(Me(o))
  /\ registry' = [registry EXCEPT ![Me(o)] = None]
  /\ Goto(o, "orphan")
  /\ UNCHANGED <<schema, flows, data, env>>

Detach(o) ==
  /\ Done(o, "dropflows")
  /\ doctypes' = Detached(Me(o))
  /\ Goto(o, "orphan")
  /\ UNCHANGED <<registry, schema, flows, data, env>>

\* orphan_app_fixtures; the rows stay.
OrphanAll(o) ==
  /\ At(o, "orphan")
  /\ prov' = [k \in Key |-> IF prov[k] # None /\ prov[k].app = Me(o)
                              THEN Orphaned(prov[k]) ELSE prov[k]]
  /\ Goto(o, "unregister")
  /\ UNCHANGED <<meta, rows, quietly, env>>

Unregister(o) ==
  /\ At(o, "unregister")
  /\ registry' = [registry EXCEPT ![Me(o)] = None]
  /\ Ends(o)
  /\ UNCHANGED <<doctypes, schema, flows, data, env>>

-----------------------------------------------------------------------------
(* set_app_enabled.                                                         *)

Enables(o) == ses[o].call.kind = "enable"

Toggle(o) ==
  /\ Next1(o, "toggle")
  /\ \E d \in ses[o].left :
       /\ doctypes' = IF doctypes[d] = None \/ (Enables(o) /\ d \notin ses[o].had.clients)
                        THEN doctypes
                        ELSE [doctypes EXCEPT ![d].client = Enables(o)]
       /\ LoopOver(o, "toggle", ses[o].left \ {d})
  /\ UNCHANGED <<registry, schema, flows, data, env>>

SetEnabled(o) ==
  /\ Done(o, "toggle")
  /\ registry' = IF registry[Me(o)] = None THEN registry
                 ELSE [registry EXCEPT ![Me(o)].enabled = Enables(o)]
  /\ Ends(o)
  /\ UNCHANGED <<doctypes, schema, flows, data, env>>

-----------------------------------------------------------------------------
(* The surroundings: operations break off, users edit fixture rows.          *)

\* Whose entries of the record of d the operations of O had still to put back.
StillInHand(O, d) ==
  {e.app : e \in UNION {ses[o].kept : o \in {p \in O : At(p, "back") /\ ses[p].at = d}}}

\* A statement fails, or a kernel stops with the requests it serves.
BreakOff(O) ==
  /\ faults < MaxFaults
  /\ O # {} /\ \A o \in O : Busy(o)
  /\ faults' = faults + 1
  /\ work' = Again(O)
  /\ ses' = [o \in Operator |-> IF o \in O THEN Idle ELSE ses[o]]
  /\ shorn' = [d \in Doctype |-> shorn[d] \cup StillInHand(O, d)]
  /\ UNCHANGED <<meta, data, edits, tangled>>

\* A bound of the model: rows that no call made or to be made ships stay as they are.
Concerned(k) ==
  \E o \in Operator :
    \/ Busy(o) /\ k \in New(o).ships
    \/ \E i \in DOMAIN work[o] : k \in work[o][i].bundle.ships

\* A user creates, changes, adds to or deletes the row of a fixture.
EditRow(k) ==
  /\ edits < MaxEdits /\ Concerned(k)
  /\ doctypes[KeyDoctype[k]] # None
  /\ edits' = edits + 1
  /\ LET mine == [by |-> None, n |-> edits']
         now  == rows[k]
     IN \/ rows' = [rows EXCEPT ![k] = Row(mine, IF now = None THEN 0 ELSE now.extra)]
        \/ now # None /\ rows' = [rows EXCEPT ![k] = Row(now.text, edits')]
        \/ now # None /\ rows' = [rows EXCEPT ![k] = None]
  /\ quietly' = IF (\A o \in Operator : ~Busy(o)) /\ (rows'[k] # None \/ prov[k] # None)
                  THEN quietly \cup {k} ELSE quietly \ {k}
  /\ UNCHANGED <<meta, prov, work, ses, faults, tangled, shorn>>

Step(o) ==
  \/ Begin(o) \/ Plan(o) \/ ApplySchema(o)
  \/ ReadPrior(o) \/ PutDoctype(o) \/ PutBack(o) \/ DoctypeDone(o, "back", "attach")
  \/ AttachedAll(o)
  \/ CheckExtension(o) \/ StripOwn(o) \/ AddExtension(o) \/ DoctypeDone(o, "add", "extend")
  \/ SyncExtensions(o) \/ PutFlow(o) \/ FlowsDone(o)
  \/ ReadFixture(o) \/ Claim(o) \/ Upsert(o) \/ ClearFields(o) \/ Reread(o)
  \/ RecordShipped(o) \/ Shipped(o) \/ Retire(o) \/ Register(o)
  \/ DropDoctype(o) \/ DroppedAll(o) \/ DropFlow(o) \/ Detach(o) \/ OrphanAll(o)
  \/ Unregister(o)
  \/ Toggle(o) \/ SetEnabled(o)

Next ==
  \/ \E o \in Operator : Step(o)
  \/ \E O \in SUBSET Operator : BreakOff(O)
  \/ \E k \in Key : EditRow(k)

Spec == Init /\ [][Next]_vars

\* A request goes on once it is begun, and managers make the calls they meant to,
\* those that broke off included.
FairSpec == Spec /\ \A o \in Operator : WF_vars(Step(o))

-----------------------------------------------------------------------------
(* What there is to be exported, and to be run.                              *)

\* export_app: the live part of each section of the bundle.
ExportedDoctypes(a) == {d \in Doctype : doctypes[d] # None /\ doctypes[d].app = a}
ExportedFields(a) ==
  {x \in Doctype \X Field : x[1] \in ExportedDoctypes(a) /\ FieldEntry(x[2], None) \in Entries(x[1])}
ExportedHooks(a) == {d \in ExportedDoctypes(a) : HookEntry(a) \in Entries(d)}
ExportedClients(a) == {d \in ExportedDoctypes(a) : doctypes[d].client}
ExportedExtensions(a) ==
  {x \in Doctype \X Field : FieldEntry(x[2], a) \in Entries(x[1])}
ExportedFlows(a) == {n \in registry[a].bundle.flows : flows[n] # None}
ExportedFixtures(a) == {k \in Key : prov[k] # None /\ prov[k].app = a /\ prov[k].active}

\* load_server_scripts: the apps whose scripts a write of the DocType runs.
Dispatched(d) == {e.app : e \in {x \in Entries(d) : x.what = "hook"}}

-----------------------------------------------------------------------------
(* Properties.                                                              *)

Steps(o) == ses'[o] # ses[o] /\ faults' = faults
Writes(o, k) == Steps(o) /\ ses[o].at = k /\ ses[o].pc \in {"upsert", "clear"}

\* apply_fixtures: a fixture row is written only for the app its provenance
\* names, also when two apps that ship it are installed at once (CREATE ONLY).
OneOwner ==
  [][\A k \in Key : rows'[k] # rows[k] /\ edits' = edits =>
       \E o \in Operator : Writes(o, k) /\ prov[k] # None /\ prov[k].app = Me(o)]_vars

\* plan_fixtures, apply_fixtures: what a user did to a fixture row while no
\* operation was going on is overwritten by an acknowledged one only - after an
\* orphaning, a re-adoption and whatever an operation left that broke off.
EditsKept ==
  [][\A k \in quietly : rows'[k] # rows[k] /\ edits' = edits =>
       \E o \in Operator : Writes(o, k) /\ ses[o].call.ack]_vars

Completes(o) ==
  /\ Steps(o) /\ ses'[o] = Idle
  /\ ses[o].pc \in {"retire", "unregister", "toggle"}

\* attach_metadata, attach_extensions, detach_extensions: an operation no other
\* one overlaps, when it completes, has left what the other apps added to the
\* DocTypes there are, and an uninstall nothing of its own app in them.
OthersKept ==
  [][\A o \in Operator : Completes(o) /\ ses[o].alone =>
       \A d \in Doctype : doctypes'[d] # None =>
         /\ ses[o].before[d] \subseteq Entries(d)'
         /\ ses[o].call.kind = "uninstall" /\ doctypes'[d].app # Me(o) =>
              \A e \in Entries(d)' : e.app # Me(o)]_vars

Live(a) ==
  LET b == registry[a].bundle IN
    /\ b.doctypes \subseteq ExportedDoctypes(a)
    /\ b.fields = {x \in ExportedFields(a) : x[1] \in b.doctypes}
    /\ b.hooks \cap b.doctypes \subseteq ExportedHooks(a)
    /\ b.flows = ExportedFlows(a)
    /\ b.ships = ExportedFixtures(a)
    /\ registry[a].enabled => b.clients \subseteq ExportedClients(a)
    /\ \A d \in b.extends :
         doctypes[d] # None /\ a \notin shorn[d] => Added(b, d) \subseteq Entries(d)

\* install_app, uninstall_app: operations that broke off and are called again
\* bring everything together, unless two of them overlapped: what is recorded of
\* an installed app is live and exported, one that is not installed has nothing
\* in the DocTypes of others and owns no active fixture.  What an app added to a
\* DocType of another one is live too, with the two exceptions of the code: its
\* owner's uninstall deletes the record, and an operation of the owner that
\* breaks off between the UPSERT of the record and the put-back takes what it
\* had in hand with it - the call made again finds nothing there to put back.
FaultsHeal ==
  <>[](tangled \/ \A a \in App :
         IF registry[a] # None THEN Live(a)
         ELSE /\ ExportedFixtures(a) = {} /\ ExportedExtensions(a) = {}
              /\ \A d \in Doctype \ ExportedDoctypes(a) : a \notin Dispatched(d))

-----------------------------------------------------------------------------
(* Types, and the inductive invariant of the proofs.                        *)

Shipping == {"ship", "claim", "upsert", "clear", "reread", "record"}
OverDoctypes == {"attach", "put", "back", "extend", "strip", "add"}
Planned == {"schema", "flows"} \cup OverDoctypes \cup Shipping
Removing == {"drop", "dropflows", "orphan", "unregister", "toggle"}
Steps1 == {"idle", "plan", "retire"} \cup Planned \cup Removing

Session == [pc : Steps1, call : Call \cup {None}, had : Bundle \cup {None},
            left : SUBSET (Doctype \cup Flow \cup Key), at : Doctype \cup Key \cup {None},
            kept : SUBSET Entry, row : Contents \cup {None}, alone : BOOLEAN,
            before : [Doctype -> SUBSET Entry] \cup {None}]

TypeOK ==
  /\ registry \in [App -> [bundle : Bundle, enabled : BOOLEAN] \cup {None}]
  /\ doctypes \in [Doctype -> Record \cup {None}]
  /\ schema \in [Resource -> SUBSET Field]
  /\ flows \in [Flow -> App \cup {None}]
  /\ prov \in [Key -> Provenance \cup {None}]
  /\ rows \in [Key -> Contents \cup {None}]
  /\ work \in [Operator -> Seq(Call)]
  /\ ses \in [Operator -> Session]
  /\ edits \in Nat /\ faults \in Nat
  /\ quietly \subseteq Key /\ tangled \in BOOLEAN
  /\ shorn \in [Doctype -> SUBSET (App \cup {None})]

\* What the operation of a session has in hand at each step.
Underway(s) ==
  /\ s.pc # "idle" => s.call \in Call
  /\ s.pc \in Removing => s.had \in Bundle
  /\ s.pc \in OverDoctypes \cup {"drop", "toggle"} => s.left \subseteq Doctype
  /\ s.pc \in {"put", "back", "strip", "add"} => s.at \in Doctype
  /\ s.pc \in {"flows", "dropflows"} => s.left \subseteq Flow
  /\ s.pc \in Shipping => s.left \subseteq s.call.bundle.ships
  /\ s.pc \in Shipping \ {"ship"} => s.at \in s.call.bundle.ships
  /\ s.pc = "record" => s.row \in Contents

\* Once it has the provenance of a row, an operation keeps it.
Claimed(s) ==
  s.pc \in Shipping \ {"ship", "claim"} =>
    prov[s.at] # None /\ prov[s.at].app = s.call.bundle.app

\* A quiet edit shows; an operation that goes on past the plan with the row in
\* its bundle was acknowledged; one that is past the UPSERT of a row has undone
\* the edit, and no later one at that time counts as quiet.
QuietEditsShow == \A k \in quietly : Modified(k)
Acknowledged(s) ==
  s.pc \in Planned => \A k \in quietly \cap s.call.bundle.ships : s.call.ack
Overwritten(s) ==
  s.pc \in {"clear", "reread", "record"} => s.at \notin quietly

\* What users filled in is numbered: an edit to come differs from all there is.
Numbered(c) == /\ c.text # None /\ c.text.by = None => c.text.n <= edits
               /\ c.extra <= edits
RowsNumbered ==
  \A k \in Key : /\ rows[k] # None => Numbered(rows[k])
                 /\ prov[k] # None => Numbered(prov[k].shipped)

Fits(s) ==
  /\ Underway(s) /\ Claimed(s) /\ Acknowledged(s) /\ Overwritten(s)
  /\ s.row # None => Numbered(s.row)

IInv ==
  /\ TypeOK
  /\ \A o \in Operator : Fits(ses[o])
  /\ RowsNumbered
  /\ QuietEditsShow
=============================================================================
