----------------------------- MODULE AppsProofs -----------------------------
(***************************************************************************)
(* The rows an app ships, for any bundles, operators, calls, edits and     *)
(* stops: a row is written for the app its provenance names (OneOwner), and *)
(* a quiet edit is overwritten by an acknowledged operation only           *)
(* (EditsKept).  And the DocTypes: an operation that no other one overlaps *)
(* leaves what the other apps have added to them (OthersKept).             *)
(***************************************************************************)
EXTENDS Apps, TLAPS

\* The types of what a step of an operation leaves to the lemmas below.
MetaOK ==
  /\ registry \in [App -> [bundle : Bundle, enabled : BOOLEAN] \cup {None}]
  /\ doctypes \in [Doctype -> Record \cup {None}]
  /\ schema \in [Resource -> SUBSET Field]
  /\ flows \in [Flow -> App \cup {None}]
  /\ work \in [Operator -> Seq(Call)]
  /\ faults \in Nat /\ tangled \in BOOLEAN
  /\ shorn \in [Doctype -> SUBSET (App \cup {None})]

LEMMA Types ==
  ASSUME IInv
  PROVE  /\ MetaOK /\ prov \in [Key -> Provenance \cup {None}]
         /\ rows \in [Key -> Contents \cup {None}]
         /\ ses \in [Operator -> Session]
         /\ edits \in Nat /\ quietly \subseteq Key
         /\ \A o \in Operator : ses[o] \in Session /\ Fits(ses[o])
BY DEF IInv, TypeOK, MetaOK

\* No provenance changes hands or disappears.
ProvKept == \A k \in Key : prov[k] # None => prov'[k] # None /\ prov'[k].app = prov[k].app

LEMMA FitsStill ==
  ASSUME NEW s \in Session, Fits(s), ProvKept, quietly' \subseteq quietly, edits' = edits
  PROVE  Fits(s)'
<1>1. Underway(s)'
  BY DEF Fits, Underway
<1>2. Claimed(s)'
  <2>1. CASE s.pc \in Shipping \ {"ship", "claim"}
    <3>1. s.call \in Call /\ s.at \in s.call.bundle.ships
      BY <2>1 DEF Fits, Underway, Shipping
    <3>2. s.at \in Key
      BY <3>1 DEF Call, Bundle
    <3> QED BY <2>1, <3>2 DEF Fits, Claimed, ProvKept
  <2>2. CASE s.pc \notin Shipping \ {"ship", "claim"}
    BY <2>2 DEF Claimed
  <2> QED BY <2>1, <2>2
<1>3. Acknowledged(s)' /\ Overwritten(s)'
  BY DEF Fits, Acknowledged, Overwritten
<1>4. s.row # None => Numbered(s.row)'
  BY DEF Fits, Numbered
<1> QED BY <1>1, <1>2, <1>3, <1>4 DEF Fits

LEMMA OneMoves ==
  ASSUME IInv, NEW o \in Operator, NEW s \in Session, ses' = [ses EXCEPT ![o] = s], Fits(s)',
         MetaOK', prov' \in [Key -> Provenance \cup {None}],
         rows' \in [Key -> Contents \cup {None}],
         ProvKept, quietly' \subseteq quietly, edits' = edits,
         RowsNumbered', QuietEditsShow'
  PROVE  IInv'
<1>1. TypeOK'
  BY Types DEF TypeOK, MetaOK
<1>2. ASSUME NEW p \in Operator PROVE Fits(ses[p])'
  <2>1. CASE p = o
    <3>1. ses'[p] = s
      BY <2>1, Types
    <3> QED BY <3>1 DEF Fits, Underway, Claimed, Acknowledged, Overwritten, Numbered
  <2>2. CASE p # o
    <3>1. PICK q \in Session : q = ses[p]
      BY Types
    <3>2. ses'[p] = q
      BY <2>2, <3>1, Types
    <3>3. Fits(q)'
      BY <3>1, Types, FitsStill
    <3> QED BY <3>2, <3>3 DEF Fits, Underway, Claimed, Acknowledged, Overwritten, Numbered
  <2> QED BY <2>1, <2>2
<1> QED BY <1>1, <1>2 DEF IInv

\* A step that leaves the fixtures and their provenance alone.
LEMMA GoesOn ==
  ASSUME IInv, NEW o \in Operator, NEW s \in Session, ses' = [ses EXCEPT ![o] = s], Fits(s),
         MetaOK', UNCHANGED <<prov, rows, quietly, edits>>
  PROVE  IInv'
<1>1. ProvKept
  BY DEF ProvKept
<1>2. Fits(s)'
  BY <1>1, FitsStill
<1>3. RowsNumbered' /\ QuietEditsShow'
  BY DEF IInv, RowsNumbered, QuietEditsShow, Numbered, Modified
<1> QED BY <1>1, <1>2, <1>3, OneMoves, Types

LEMMA Resting ==
  /\ Idle \in Session /\ Idle.pc = "idle" /\ Idle.row = None
  /\ Fits(Idle)
<1>1. Idle \in Session /\ Idle.pc = "idle" /\ Idle.row = None
  BY DEF Idle, Session, Steps1
<1>2. Fits(Idle)
  <2> HIDE DEF Idle
  <2> QED BY <1>1 DEF Fits, Underway, Claimed, Acknowledged, Overwritten, Removing, OverDoctypes,
                      Shipping, Planned
<1> QED BY <1>1, <1>2

LEMMA EndsKeeps ==
  ASSUME IInv, NEW o \in Operator, Ends(o), MetaOK', UNCHANGED <<prov, rows, quietly, edits>>
  PROVE  IInv'
BY Resting, GoesOn DEF Ends

-----------------------------------------------------------------------------
(* What a step makes of a session.                                          *)

Same(r, s) == /\ s.call = r.call /\ s.had = r.had /\ s.alone = r.alone
              /\ s.before = r.before

LEMMA Gone ==
  ASSUME NEW r \in Session, NEW p \in Steps1
  PROVE  LET s == [r EXCEPT !.pc = p] IN
           /\ s \in Session /\ Same(r, s) /\ s.pc = p
           /\ s.left = r.left /\ s.at = r.at /\ s.kept = r.kept /\ s.row = r.row
BY DEF Session, Same

LEMMA ReadIn ==
  ASSUME NEW r \in Session, NEW p \in Steps1, NEW x \in Doctype \cup Key \cup {None},
         NEW c \in Contents \cup {None}
  PROVE  LET s == [r EXCEPT !.pc = p, !.at = x, !.row = c] IN
           /\ s \in Session /\ Same(r, s) /\ s.pc = p /\ s.left = r.left /\ s.at = x
           /\ s.row = c
BY DEF Session, Same

\* An operation that goes on over its DocTypes, flows or fixtures.
LEMMA LoopKeeps ==
  ASSUME IInv, NEW o \in Operator, NEW p \in Steps1, NEW S, LoopOver(o, p, S),
         ses[o].pc # "idle",
         p \in Planned => ses[o].pc \in Planned,
         p \in Removing => ses[o].pc \in Removing,
         p \in {"attach", "extend", "drop", "toggle"} => S \subseteq Doctype,
         p \in {"flows", "dropflows"} => S \subseteq Flow,
         p = "ship" => S \subseteq New(o).ships,
         p \in {"attach", "extend", "drop", "toggle", "flows", "dropflows", "ship", "retire"},
         S \subseteq Doctype \cup Flow \cup Key,
         MetaOK', prov' \in [Key -> Provenance \cup {None}],
         ProvKept, UNCHANGED <<rows, quietly, edits>>, RowsNumbered', QuietEditsShow'
  PROVE  IInv'
<1>1. PICK r \in Session : r = ses[o] /\ Fits(r)
  BY Types
<1>2. PICK s : s = [r EXCEPT !.pc = p, !.left = S]
  OBVIOUS
<1>3. ses' = [ses EXCEPT ![o] = s]
  BY <1>1, <1>2 DEF LoopOver
<1>4. /\ s \in Session /\ Same(r, s) /\ s.pc = p /\ s.left = S
      /\ s.at = r.at /\ s.row = r.row
  <2>1. S \in SUBSET (Doctype \cup Flow \cup Key)
    OBVIOUS
  <2>2. [r EXCEPT !.pc = p, !.left = S] \in Session
    BY <2>1 DEF Session
  <2> QED BY <1>2, <2>1, <2>2 DEF Session, Same
<1>5. Fits(s)
  <2> USE DEF Same, OverDoctypes, Shipping, Removing, Planned
  <2>1. Underway(s)
    BY <1>1, <1>4 DEF Fits, Underway, New
  <2>2. Claimed(s) /\ Overwritten(s)
    BY <1>1, <1>4 DEF Fits, Claimed, Overwritten
  <2>3. Acknowledged(s)
    BY <1>1, <1>4 DEF Fits, Acknowledged
  <2>4. s.row # None => Numbered(s.row)
    BY <1>1, <1>4 DEF Fits
  <2> QED BY <2>1, <2>2, <2>3, <2>4 DEF Fits
<1>6. Fits(s)'
  BY <1>4, <1>5, FitsStill
<1> QED BY <1>3, <1>4, <1>6, OneMoves, Types

LEMMA StillShown ==
  ASSUME IInv, UNCHANGED <<prov, rows, quietly, edits>>
  PROVE  RowsNumbered' /\ QuietEditsShow' /\ ProvKept /\ prov' \in [Key -> Provenance \cup {None}]
BY Types DEF IInv, RowsNumbered, QuietEditsShow, Numbered, Modified, ProvKept

\* An operation whose step keeps what it has in hand.
LEMMA GotoKeeps ==
  ASSUME IInv, NEW o \in Operator, NEW p, Goto(o, p),
         \/ ses[o].pc = "plan" /\ p = "schema"
         \/ ses[o].pc = "put" /\ p = "back"
         \/ ses[o].pc = "dropflows" /\ p = "orphan"
         \/ ses[o].pc = "orphan" /\ p = "unregister",
         p = "schema" => \A k \in quietly \cap New(o).ships : ses[o].call.ack,
         MetaOK', prov' \in [Key -> Provenance \cup {None}],
         ProvKept, UNCHANGED <<rows, quietly, edits>>, RowsNumbered', QuietEditsShow'
  PROVE  IInv'
<1>1. PICK r \in Session : r = ses[o] /\ Fits(r)
  BY Types
<1>2. PICK s : s = [r EXCEPT !.pc = p]
  OBVIOUS
<1>3. ses' = [ses EXCEPT ![o] = s]
  BY <1>1, <1>2 DEF Goto
<1>4. /\ s \in Session /\ Same(r, s) /\ s.pc = p
      /\ s.left = r.left /\ s.at = r.at /\ s.kept = r.kept /\ s.row = r.row
  <2>1. p \in Steps1
    BY DEF Steps1, Planned, OverDoctypes, Removing
  <2> QED BY <1>2, <2>1, Gone
<1>5. Fits(s)
  BY <1>1, <1>4 DEF Fits, Same, Underway, Claimed, Acknowledged, Overwritten, Numbered,
                    OverDoctypes, Shipping, Removing, Planned, New
<1>6. Fits(s)'
  BY <1>4, <1>5, FitsStill
<1> QED BY <1>3, <1>4, <1>6, OneMoves, Types

\* An operation that takes up a DocType, or goes on with its entries.
LEMMA KeepsKeeps ==
  ASSUME IInv, NEW o \in Operator, NEW p, NEW d \in Doctype, NEW K \in SUBSET Entry,
         Keeps(o, p, d, K), p \in {"put", "back", "strip", "add"},
         ses[o].pc \in OverDoctypes,
         MetaOK', UNCHANGED <<prov, rows, quietly, edits>>
  PROVE  IInv'
<1>1. PICK r \in Session : r = ses[o] /\ Fits(r)
  BY Types
<1>2. PICK s : s = [r EXCEPT !.pc = p, !.at = d, !.kept = K]
  OBVIOUS
<1>3. ses' = [ses EXCEPT ![o] = s]
  BY <1>1, <1>2 DEF Keeps
<1>4. /\ s \in Session /\ Same(r, s) /\ s.pc = p /\ s.left = r.left /\ s.at = d
      /\ s.row = r.row
  <2>1. p \in Steps1
    BY DEF Steps1, Planned, OverDoctypes
  <2>2. d \in Doctype \cup Key \cup {None}
    OBVIOUS
  <2> QED BY <1>2, <2>1, <2>2 DEF Session, Same
<1>5. Fits(s)
  <2> USE DEF Same, OverDoctypes, Shipping, Removing, Planned
  <2>1. Underway(s)
    BY <1>1, <1>4 DEF Fits, Underway
  <2>2. Claimed(s) /\ Overwritten(s)
    BY <1>1, <1>4 DEF Fits, Claimed, Overwritten
  <2>3. Acknowledged(s)
    BY <1>1, <1>4 DEF Fits, Acknowledged
  <2>4. s.row # None => Numbered(s.row)
    BY <1>1, <1>4 DEF Fits
  <2> QED BY <2>1, <2>2, <2>3, <2>4 DEF Fits
<1> QED BY <1>3, <1>4, <1>5, GoesOn

\* What the loops of the DocTypes, the flows and the fixtures need.
LEMMA InHand ==
  ASSUME IInv, NEW o \in Operator
  PROVE  /\ ses[o] \in Session
         /\ ses[o].pc # "idle" =>
              /\ ses[o].call \in Call /\ New(o) \in Bundle /\ Me(o) \in App
              /\ New(o).ships \subseteq Key /\ New(o).doctypes \subseteq Doctype
              /\ New(o).extends \subseteq Doctype /\ New(o).flows \subseteq Flow
         /\ ses[o].had # None => /\ ses[o].had \in Bundle
                                /\ ses[o].had.flows \subseteq Flow
                                /\ ses[o].had.ships \subseteq Key
         /\ ses[o].left \subseteq Doctype \cup Flow \cup Key
         /\ Underway(ses[o])
<1>1. ses[o] \in Session /\ Fits(ses[o])
  BY Types
<1>2. ses[o].pc # "idle" => ses[o].call \in Call
  BY <1>1 DEF Fits, Underway
<1>3. \A c \in Call : /\ c.bundle \in Bundle /\ c.bundle.app \in App
                     /\ c.bundle.ships \subseteq Key /\ c.bundle.doctypes \subseteq Doctype
                     /\ c.bundle.extends \subseteq Doctype /\ c.bundle.flows \subseteq Flow
  BY DEF Call, Bundle
<1>4. \A b \in Bundle : b.flows \subseteq Flow /\ b.ships \subseteq Key
  BY DEF Bundle
<1>5. ses[o].had \in Bundle \cup {None} /\ ses[o].left \subseteq Doctype \cup Flow \cup Key
  BY <1>1 DEF Session
<1> QED BY <1>1, <1>2, <1>3, <1>4, <1>5 DEF Fits, New, Me

LEMMA RestKeeps ==
  ASSUME IInv, UNCHANGED <<ses, prov, rows, quietly, edits>>, MetaOK'
  PROVE  IInv'
<1>1. TypeOK'
  BY Types DEF TypeOK, MetaOK
<1>2. \A o \in Operator : Fits(ses[o])'
  BY Types DEF Fits, Underway, Claimed, Acknowledged, Overwritten, Numbered
<1> QED BY <1>1, <1>2, StillShown DEF IInv

\* The DocType records and their entries.
LEMMA EntryTypes ==
  ASSUME MetaOK
  PROVE  /\ \A d \in Doctype : Entries(d) \subseteq Entry
         /\ \A d \in Doctype : doctypes[d] # None => doctypes[d] \in Record
         /\ \A b \in Bundle : \A d \in Doctype : Own(b, d) \subseteq Entry /\ Added(b, d) \subseteq Entry
         /\ \A a : Others(a) \in [Doctype -> SUBSET Entry]
<1>1. \A d \in Doctype : doctypes[d] # None => doctypes[d] \in Record
  BY DEF MetaOK
<1>2. \A d \in Doctype : Entries(d) \subseteq Entry
  BY <1>1 DEF Entries, Record
<1>3. \A f \in Field, a \in App \cup {None} : FieldEntry(f, a) \in Entry
  BY DEF FieldEntry, Entry
<1>4. \A a \in App : HookEntry(a) \in Entry
  BY DEF HookEntry, Entry
<1>5. ASSUME NEW b \in Bundle, NEW d \in Doctype
      PROVE  Own(b, d) \subseteq Entry /\ Added(b, d) \subseteq Entry
  <2>1. b.app \in App
    BY DEF Bundle
  <2> QED BY <1>3, <1>4, <2>1 DEF Own, Added, FieldsOf
<1>6. \A a : Others(a) \in [Doctype -> SUBSET Entry]
  BY <1>2 DEF Others
<1> QED BY <1>1, <1>2, <1>5, <1>6

-----------------------------------------------------------------------------
(* The plan, the schema and the DocType records.                            *)

LEMMA BeginKeeps ==
  ASSUME IInv, NEW o \in Operator, Begin(o)
  PROVE  IInv'
<1> DEFINE c == Head(work[o])
           r == registry[c.bundle.app]
           idle == {p \in Operator \ {o} : Busy(p)} = {}
           s == [Idle EXCEPT !.pc = FirstStep(c.kind), !.call = c,
                   !.had = IF r = None THEN None ELSE r.bundle,
                   !.left = IF c.kind \in {"install", "update"} THEN {} ELSE r.bundle.doctypes,
                   !.alone = idle, !.before = Others(c.bundle.app)]
<1>1. /\ UNCHANGED <<meta, data, edits, faults, shorn>>
      /\ work' = [work EXCEPT ![o] = Tail(@)]
      /\ work[o] # <<>>
      /\ \/ UNCHANGED <<ses, tangled>>
         \/ /\ ~Refuses(c)
            /\ ses' = [p \in Operator |-> IF p = o THEN s ELSE [ses[p] EXCEPT !.alone = FALSE]]
            /\ tangled' = (tangled \/ ~idle)
  BY DEF Begin
<1>2. work[o] \in Seq(Call) /\ work \in [Operator -> Seq(Call)]
  BY Types DEF MetaOK
<1>3. c \in Call /\ Tail(work[o]) \in Seq(Call)
  <2>1. \A q \in Seq(Call) : q # <<>> => Head(q) \in Call /\ Tail(q) \in Seq(Call)
    OBVIOUS
  <2> QED BY <1>1, <1>2, <2>1
<1>4. work' \in [Operator -> Seq(Call)]
  BY <1>1, <1>2, <1>3
<1>5. tangled' \in BOOLEAN
  BY <1>1, Types DEF MetaOK
<1>6. MetaOK'
  BY <1>1, <1>4, <1>5, Types DEF MetaOK, meta
<1>7. CASE UNCHANGED <<ses, tangled>>
  BY <1>1, <1>6, <1>7, RestKeeps DEF data
<1>8. CASE /\ ~Refuses(c)
           /\ ses' = [p \in Operator |-> IF p = o THEN s ELSE [ses[p] EXCEPT !.alone = FALSE]]
  <2>1. r # None => r.bundle \in Bundle /\ r.bundle.doctypes \subseteq Doctype
    <3>1. c.bundle.app \in App
      BY <1>3 DEF Call, Bundle
    <3>2. r # None => r \in [bundle : Bundle, enabled : BOOLEAN]
      BY <3>1, Types DEF MetaOK
    <3> QED BY <3>2 DEF Bundle
  <2>2. c.kind \notin {"install", "update"} => r # None
    BY <1>8 DEF Refuses
  <2>3. Others(c.bundle.app) \in [Doctype -> SUBSET Entry]
    BY EntryTypes, Types
  <2>4. FirstStep(c.kind) \in {"plan", "drop", "toggle"} /\ FirstStep(c.kind) \in Steps1
        /\ (FirstStep(c.kind) \in {"drop", "toggle"} => c.kind \notin {"install", "update"})
    BY <1>3 DEF FirstStep, Call, Steps1, Removing
  <2> DEFINE h == IF r = None THEN None ELSE r.bundle
             L == IF c.kind \in {"install", "update"} THEN {} ELSE r.bundle.doctypes
             f == FirstStep(c.kind)
             B == Others(c.bundle.app)
  <2>5. /\ h \in Bundle \cup {None} /\ L \subseteq Doctype
        /\ f \in {"drop", "toggle"} => h \in Bundle
    BY <2>1, <2>2, <2>4
  <2>6. f \in {"plan", "drop", "toggle"} /\ f \in Steps1 /\ B \in [Doctype -> SUBSET Entry]
    BY <2>3, <2>4
  <2>7. s = [Idle EXCEPT !.pc = f, !.call = c, !.had = h, !.left = L, !.alone = idle, !.before = B]
    OBVIOUS
  <2>8. idle \in BOOLEAN
    OBVIOUS
  <2> HIDE DEF c, r, idle, s, h, L, f, B
  <2>9. /\ s \in Session /\ s.pc = f /\ s.call = c /\ s.had = h /\ s.left = L /\ s.row = None
    BY <1>3, <2>5, <2>6, <2>7, <2>8 DEF Idle, Session
  <2>10. Fits(s)
    BY <1>3, <2>5, <2>6, <2>9 DEF Fits, Underway, Claimed, Acknowledged, Overwritten,
           OverDoctypes, Shipping, Removing, Planned
  <2>11. UNCHANGED <<prov, rows, quietly, edits>>
    BY <1>1 DEF data
  <2>12. ASSUME NEW p \in Operator PROVE ses'[p] \in Session /\ Fits(ses[p])'
    <3>1. CASE p = o
      <4>1. PICK x \in Session : x = s
        BY <2>9
      <4>2. ses'[p] = x
        BY <1>8, <3>1, <4>1
      <4>3. Fits(x)'
        BY <2>10, <2>11, <4>1, FitsStill, StillShown
      <4> QED BY <4>2, <4>3 DEF Fits, Underway, Claimed, Acknowledged, Overwritten, Numbered
    <3>2. CASE p # o
      <4>1. PICK x \in Session : x = ses[p] /\ Fits(x)
        BY Types
      <4>2. PICK y : y = [x EXCEPT !.alone = FALSE]
        OBVIOUS
      <4>3. /\ y \in Session /\ y.pc = x.pc /\ y.call = x.call /\ y.had = x.had
            /\ y.left = x.left /\ y.at = x.at /\ y.row = x.row
        BY <4>2 DEF Session
      <4>4. Fits(y)
        BY <4>1, <4>3 DEF Fits, Underway, Claimed, Acknowledged, Overwritten
      <4>5. Fits(y)'
        BY <2>11, <4>3, <4>4, FitsStill, StillShown
      <4>6. ses'[p] = y
        BY <1>8, <3>2, <4>1, <4>2
      <4> QED BY <4>3, <4>5, <4>6 DEF Fits, Underway, Claimed, Acknowledged, Overwritten, Numbered
    <3> QED BY <3>1, <3>2
  <2>13. ses' \in [Operator -> Session]
    <3>1. ses' = [p \in Operator |-> ses'[p]]
      BY <1>8
    <3> QED BY <2>12, <3>1
  <2>14. TypeOK'
    BY <1>6, <2>11, <2>13, Types DEF TypeOK, MetaOK
  <2> QED BY <2>11, <2>12, <2>14, StillShown DEF IInv
<1> QED BY <1>1, <1>7, <1>8

LEMMA PlanKeeps ==
  ASSUME IInv, NEW o \in Operator, Plan(o)
  PROVE  IInv'
<1>1. UNCHANGED <<meta, data, env>> /\ ses[o].pc = "plan"
  BY DEF Plan, At
<1>2. MetaOK' /\ UNCHANGED <<prov, rows, quietly, edits>>
  BY <1>1, Types DEF MetaOK, meta, data, env
<1>3. CASE Ends(o)
  BY <1>2, <1>3, EndsKeeps
<1>4. CASE ~GateRefuses(New(o), ses[o].call.ack) /\ Goto(o, "schema")
  <2>1. ASSUME NEW k \in quietly \cap New(o).ships PROVE ses[o].call.ack
    <3>1. Modified(k)
      BY DEF IInv, QuietEditsShow
    <3>2. ~ses[o].call.ack => ~(\E x \in New(o).ships : Modified(x))
      BY <1>4 DEF GateRefuses
    <3> QED BY <3>1, <3>2
  <2> QED BY <1>1, <1>2, <1>4, <2>1, GotoKeeps, StillShown
<1> QED BY <1>3, <1>4 DEF Plan

LEMMA ApplySchemaKeeps ==
  ASSUME IInv, NEW o \in Operator, ApplySchema(o)
  PROVE  IInv'
<1>1. UNCHANGED <<registry, doctypes, flows, data, env>> /\ ses[o].pc = "schema"
  BY DEF ApplySchema, At
<1>2. schema' \in [Resource -> SUBSET Field]
  <2>1. schema \in [Resource -> SUBSET Field]
    BY Types DEF MetaOK
  <2>2. \A b, d : FieldsOf(b, d) \subseteq Field
    BY DEF FieldsOf
  <2> QED BY <2>1, <2>2 DEF ApplySchema
<1>3. MetaOK' /\ UNCHANGED <<prov, rows, quietly, edits>>
  BY <1>1, <1>2, Types DEF MetaOK, data, env
<1>4. CASE Ends(o)
  BY <1>3, <1>4, EndsKeeps
<1>5. CASE LoopOver(o, "attach", New(o).doctypes)
  <2>1. New(o).doctypes \subseteq Doctype
    BY <1>1, InHand
  <2>2. "attach" \in Steps1 /\ "attach" \notin Removing /\ "schema" \in Planned
    BY DEF Steps1, Planned, OverDoctypes, Removing
  <2> QED BY <1>1, <1>3, <1>5, <2>1, <2>2, LoopKeeps, StillShown
<1> QED BY <1>4, <1>5 DEF ApplySchema

\* The loops over DocTypes and flows: where each may go.
LEMMA Places ==
  /\ {"attach", "extend", "drop", "toggle", "flows", "dropflows", "ship", "retire"} \subseteq Steps1
  /\ {"attach", "extend", "flows", "ship"} \cap Removing = {} /\ "retire" \notin Planned \cup Removing
  /\ {"drop", "dropflows", "toggle"} \cap Planned = {}
  /\ {"schema", "attach", "put", "back", "extend", "strip", "add", "flows"} \subseteq Planned
  /\ Shipping \subseteq Planned
  /\ {"drop", "dropflows", "orphan", "unregister", "toggle"} = Removing
BY DEF Steps1, Planned, OverDoctypes, Shipping, Removing

LEMMA ForeignTypes ==
  ASSUME NEW E \in SUBSET Entry, NEW a
  PROVE  Foreign(E, a) \subseteq Entry /\ Stripped(E, a) \subseteq Entry
BY DEF Foreign, ForeignFields, ForeignHooks, Stripped

LEMMA ReadPriorKeeps ==
  ASSUME IInv, NEW o \in Operator, ReadPrior(o)
  PROVE  IInv'
<1>1. PICK d \in ses[o].left : Keeps(o, "put", d, Foreign(Entries(d), Me(o)))
  BY DEF ReadPrior
<1>2. /\ ses[o].pc = "attach" /\ ses[o].pc \in OverDoctypes
      /\ UNCHANGED <<meta, data, env>>
  BY DEF ReadPrior, Next1, At, OverDoctypes
<1>3. d \in Doctype
  BY <1>2, InHand DEF Underway
<1>4. Foreign(Entries(d), Me(o)) \in SUBSET Entry
  BY <1>3, EntryTypes, Types, ForeignTypes
<1>5. MetaOK' /\ UNCHANGED <<prov, rows, quietly, edits>>
  BY <1>2, Types DEF MetaOK, meta, data, env
<1> QED BY <1>1, <1>2, <1>3, <1>4, <1>5, KeepsKeeps

LEMMA PutDoctypeKeeps ==
  ASSUME IInv, NEW o \in Operator, PutDoctype(o)
  PROVE  IInv'
<1> DEFINE d == ses[o].at
           rec == [app |-> Me(o), entries |-> Own(New(o), d), client |-> d \in New(o).clients]
<1>1. /\ ses[o].pc = "put" /\ Goto(o, "back") /\ doctypes' = [doctypes EXCEPT ![d] = rec]
      /\ UNCHANGED <<registry, schema, flows, data, env>>
  BY DEF PutDoctype, At
<1>2. d \in Doctype /\ Me(o) \in App /\ New(o) \in Bundle
  BY <1>1, InHand DEF Underway
<1>3. Own(New(o), d) \subseteq Entry
  BY <1>2, EntryTypes, Types
<1>4. rec \in Record
  BY <1>2, <1>3 DEF Record
<1> HIDE DEF d, rec
<1>5. MetaOK'
  BY <1>1, <1>2, <1>4, Types DEF MetaOK, env
<1>6. UNCHANGED <<prov, rows, quietly, edits>>
  BY <1>1 DEF data, env
<1> QED BY <1>1, <1>5, <1>6, GotoKeeps, StillShown

LEMMA Append1Keeps ==
  ASSUME IInv, NEW o \in Operator, NEW e \in ses[o].kept, Append1(o, e),
         ses[o].pc \in {"back", "add"}
  PROVE  IInv'
<1> DEFINE d == ses[o].at
<1>1. d \in Doctype /\ ses[o].pc \in OverDoctypes
  BY InHand DEF Underway, OverDoctypes
<1>2. ses[o].kept \subseteq Entry
  BY InHand DEF Session
<1>3. /\ Keeps(o, ses[o].pc, d, ses[o].kept \ {e})
      /\ UNCHANGED <<registry, schema, flows, data, env>>
      /\ doctypes' = IF doctypes[d] = None THEN doctypes
                     ELSE [doctypes EXCEPT ![d].entries = @ \cup {e}]
  BY DEF Append1
<1> HIDE DEF d
<1>4. doctypes' \in [Doctype -> Record \cup {None}]
  <2>1. CASE doctypes[d] = None
    BY <1>3, <2>1, Types DEF MetaOK
  <2>2. CASE doctypes[d] # None
    <3>1. PICK x \in Record : x = doctypes[d]
      BY <1>1, <2>2, EntryTypes, Types
    <3>2. [x EXCEPT !.entries = @ \cup {e}] \in Record
      BY <1>2 DEF Record
    <3>3. doctypes' = [doctypes EXCEPT ![d] = [x EXCEPT !.entries = @ \cup {e}]]
      BY <1>3, <2>2, <3>1
    <3> QED BY <1>1, <3>2, <3>3, Types DEF MetaOK
  <2> QED BY <2>1, <2>2
<1>5. MetaOK' /\ UNCHANGED <<prov, rows, quietly, edits>>
  BY <1>3, <1>4, Types DEF MetaOK, data, env
<1>6. ses[o].kept \ {e} \in SUBSET Entry
  BY <1>2
<1> QED BY <1>1, <1>3, <1>5, <1>6, KeepsKeeps

LEMMA DoctypeDoneKeeps ==
  ASSUME IInv, NEW o \in Operator, NEW p, NEW loop, DoctypeDone(o, p, loop),
         \/ p = "back" /\ loop = "attach"
         \/ p = "add" /\ loop = "extend"
  PROVE  IInv'
<1>1. /\ ses[o].pc = p /\ LoopOver(o, loop, ses[o].left \ {ses[o].at})
      /\ UNCHANGED <<meta, data, env>>
  BY DEF DoctypeDone, At
<1>2. MetaOK' /\ UNCHANGED <<prov, rows, quietly, edits>>
  BY <1>1, Types DEF MetaOK, meta, data, env
<1>3. ses[o].left \ {ses[o].at} \subseteq Doctype
  BY <1>1, InHand DEF Underway, OverDoctypes
<1> QED BY <1>1, <1>2, <1>3, Places, LoopKeeps, StillShown

LEMMA AttachedAllKeeps ==
  ASSUME IInv, NEW o \in Operator, AttachedAll(o)
  PROVE  IInv'
<1>1. /\ ses[o].pc = "attach" /\ LoopOver(o, "extend", New(o).extends)
      /\ UNCHANGED <<meta, data, env>>
  BY DEF AttachedAll, Done, At
<1>2. MetaOK' /\ UNCHANGED <<prov, rows, quietly, edits>>
  BY <1>1, Types DEF MetaOK, meta, data, env
<1>3. New(o).extends \subseteq Doctype
  BY <1>1, InHand
<1> QED BY <1>1, <1>2, <1>3, Places, LoopKeeps, StillShown

LEMMA CheckExtensionKeeps ==
  ASSUME IInv, NEW o \in Operator, CheckExtension(o)
  PROVE  IInv'
<1>1. /\ ses[o].pc = "extend" /\ UNCHANGED <<meta, data, env>>
      /\ Ends(o) \/ \E d \in ses[o].left : Keeps(o, "strip", d, {})
  BY DEF CheckExtension, Next1, At
<1>2. MetaOK' /\ UNCHANGED <<prov, rows, quietly, edits>>
  BY <1>1, Types DEF MetaOK, meta, data, env
<1>3. ses[o].left \subseteq Doctype /\ ses[o].pc \in OverDoctypes
  BY <1>1, InHand DEF Underway, OverDoctypes
<1> QED BY <1>1, <1>2, <1>3, EndsKeeps, KeepsKeeps

LEMMA StripOwnKeeps ==
  ASSUME IInv, NEW o \in Operator, StripOwn(o)
  PROVE  IInv'
<1> DEFINE d == ses[o].at
<1>1. /\ ses[o].pc = "strip" /\ Keeps(o, "add", d, Added(New(o), d))
      /\ UNCHANGED <<registry, schema, flows, data, work, edits, faults, tangled>>
      /\ shorn' = [shorn EXCEPT ![d] = @ \ {Me(o)}]
      /\ doctypes' = IF doctypes[d] = None THEN doctypes
                     ELSE [doctypes EXCEPT ![d].entries = Stripped(@, Me(o))]
  BY DEF StripOwn, At
<1>2. d \in Doctype /\ ses[o].pc \in OverDoctypes /\ New(o) \in Bundle
  BY <1>1, InHand DEF Underway, OverDoctypes
<1> HIDE DEF d
<1>3. doctypes' \in [Doctype -> Record \cup {None}]
  <2>1. CASE doctypes[d] = None
    BY <1>1, <2>1, Types DEF MetaOK
  <2>2. CASE doctypes[d] # None
    <3>1. PICK x \in Record : x = doctypes[d]
      BY <1>2, <2>2, EntryTypes, Types
    <3>2. Stripped(x.entries, Me(o)) \subseteq Entry
      BY ForeignTypes DEF Record
    <3>3. [x EXCEPT !.entries = Stripped(@, Me(o))] \in Record
      BY <3>2 DEF Record
    <3>4. doctypes' = [doctypes EXCEPT ![d] = [x EXCEPT !.entries = Stripped(@, Me(o))]]
      BY <1>1, <2>2, <3>1
    <3> QED BY <1>2, <3>3, <3>4, Types DEF MetaOK
  <2> QED BY <2>1, <2>2
<1>4. shorn' \in [Doctype -> SUBSET (App \cup {None})]
  BY <1>1, Types DEF MetaOK
<1>5. MetaOK' /\ UNCHANGED <<prov, rows, quietly, edits>>
  BY <1>1, <1>3, <1>4, Types DEF MetaOK, data
<1>6. Added(New(o), d) \in SUBSET Entry
  BY <1>2, EntryTypes, Types
<1> QED BY <1>1, <1>2, <1>5, <1>6, KeepsKeeps

LEMMA SyncExtensionsKeeps ==
  ASSUME IInv, NEW o \in Operator, SyncExtensions(o)
  PROVE  IInv'
<1>1. /\ ses[o].pc = "extend" /\ LoopOver(o, "flows", New(o).flows)
      /\ UNCHANGED <<registry, doctypes, flows, data, env>>
  BY DEF SyncExtensions, Done, At
<1>2. schema' \in [Resource -> SUBSET Field]
  <2>1. schema \in [Resource -> SUBSET Field]
    BY Types DEF MetaOK
  <2>2. \A r \in Resource : r[2] \in Doctype
    BY DEF Resource
  <2>3. ASSUME NEW d \in Doctype
        PROVE  {e.name : e \in {x \in Entries(d) : x.what = "field"}} \subseteq Field
    <3>1. \A e \in Entry : e.what = "field" => e.name \in Field
      BY DEF Entry
    <3>2. Entries(d) \subseteq Entry
      BY EntryTypes, Types
    <3> QED BY <3>1, <3>2
  <2>4. \A r \in Resource : schema[r] \cup
           {e.name : e \in {x \in Entries(r[2]) : x.what = "field"}} \subseteq Field
    BY <2>1, <2>2, <2>3
  <2> QED BY <2>1, <2>4 DEF SyncExtensions
<1>3. MetaOK' /\ UNCHANGED <<prov, rows, quietly, edits>>
  BY <1>1, <1>2, Types DEF MetaOK, data, env
<1>4. New(o).flows \subseteq Flow
  BY <1>1, InHand
<1> QED BY <1>1, <1>3, <1>4, Places, LoopKeeps, StillShown

-----------------------------------------------------------------------------
(* Flows, the end of an update, uninstallation, enabling.                   *)

\* A step of a loop that leaves the fixtures and their provenance alone.
LEMMA PlainLoop ==
  ASSUME IInv, NEW o \in Operator, NEW p \in {"flows", "drop", "dropflows", "toggle", "ship", "retire"},
         NEW S, LoopOver(o, p, S), MetaOK', UNCHANGED data, edits' = edits,
         ses[o].pc = p \/ (ses[o].pc = "flows" /\ p = "ship") \/ (ses[o].pc = "ship" /\ p = "retire")
           \/ (ses[o].pc = "drop" /\ p = "dropflows"),
         \/ S \subseteq ses[o].left /\ ses[o].pc = p
         \/ S \subseteq New(o).ships /\ p = "ship"
         \/ S \subseteq Flow /\ p = "dropflows"
         \/ S \subseteq Flow \cup Key /\ p = "retire"
  PROVE  IInv'
<1>1. UNCHANGED <<prov, rows, quietly, edits>>
  BY DEF data
<1>2. ses[o].pc # "idle"
  OBVIOUS
<1>3. /\ p \in {"drop", "toggle"} => S \subseteq Doctype
      /\ p \in {"flows", "dropflows"} => S \subseteq Flow
      /\ p = "ship" => S \subseteq New(o).ships
  BY InHand DEF Underway, Shipping, New
<1>4. S \subseteq Doctype \cup Flow \cup Key
  BY <1>2, <1>3, InHand
<1>5. /\ p \in Planned => ses[o].pc \in Planned
      /\ p \in Removing => ses[o].pc \in Removing
  BY Places
<1> QED BY <1>1, <1>2, <1>3, <1>4, <1>5, Places, LoopKeeps, StillShown

LEMMA FlowKeeps ==
  ASSUME IInv, NEW o \in Operator, PutFlow(o) \/ DropFlow(o) \/ FlowsDone(o) \/ DroppedAll(o)
  PROVE  IInv'
<1>1. CASE PutFlow(o)
  <2>1. PICK n \in ses[o].left : /\ flows' = [flows EXCEPT ![n] = Me(o)]
                                /\ LoopOver(o, "flows", ses[o].left \ {n})
    BY <1>1 DEF PutFlow
  <2>2. ses[o].pc = "flows" /\ UNCHANGED <<registry, doctypes, schema, data, env>>
    BY <1>1 DEF PutFlow, Next1, At
  <2>3. Me(o) \in App
    BY <2>2, InHand
  <2>4. MetaOK' /\ edits' = edits
    BY <2>1, <2>2, <2>3, Types DEF MetaOK, env
  <2> QED BY <2>1, <2>2, <2>4, PlainLoop
<1>2. CASE DropFlow(o)
  <2>1. PICK n \in ses[o].left : /\ flows' = [flows EXCEPT ![n] = None]
                                /\ LoopOver(o, "dropflows", ses[o].left \ {n})
    BY <1>2 DEF DropFlow
  <2>2. ses[o].pc = "dropflows" /\ UNCHANGED <<registry, doctypes, schema, data, env>>
    BY <1>2 DEF DropFlow, Next1, At
  <2>3. MetaOK' /\ edits' = edits
    BY <2>1, <2>2, Types DEF MetaOK, env
  <2> QED BY <2>1, <2>2, <2>3, PlainLoop
<1>3. CASE FlowsDone(o)
  <2>1. /\ ses[o].pc = "flows" /\ UNCHANGED <<meta, data, env>>
        /\ LoopOver(o, "ship", New(o).ships)
    BY <1>3 DEF FlowsDone, Done, At
  <2>2. MetaOK' /\ edits' = edits
    BY <2>1, Types DEF MetaOK, meta, env
  <2> QED BY <2>1, <2>2, PlainLoop
<1>4. CASE DroppedAll(o)
  <2>1. /\ ses[o].pc = "drop" /\ UNCHANGED <<meta, data, env>>
        /\ LoopOver(o, "dropflows", ses[o].had.flows)
    BY <1>4 DEF DroppedAll, Done, At
  <2>2. MetaOK' /\ edits' = edits
    BY <2>1, Types DEF MetaOK, meta, env
  <2>3. ses[o].had \in Bundle
    BY <2>1, InHand, Places DEF Underway
  <2>4. ses[o].had.flows \subseteq Flow
    BY <2>3 DEF Bundle
  <2> QED BY <2>1, <2>2, <2>4, PlainLoop
<1> QED BY <1>1, <1>2, <1>3, <1>4

LEMMA ShippedKeeps ==
  ASSUME IInv, NEW o \in Operator, Shipped(o)
  PROVE  IInv'
<1> DEFINE S == IF ses[o].had = None THEN {} ELSE Removed(ses[o].had, New(o))
<1>1. ses[o].pc = "ship" /\ LoopOver(o, "retire", S) /\ UNCHANGED <<meta, data, env>>
  BY DEF Shipped, Done, At
<1>2. S \subseteq Flow \cup Key
  BY InHand DEF Removed
<1> HIDE DEF S
<1>3. MetaOK' /\ edits' = edits
  BY <1>1, Types DEF MetaOK, meta, env
<1> QED BY <1>1, <1>2, <1>3, PlainLoop

LEMMA DropDoctypeKeeps ==
  ASSUME IInv, NEW o \in Operator, DropDoctype(o)
  PROVE  IInv'
<1>1. PICK d \in ses[o].left :
        /\ doctypes' = [doctypes EXCEPT ![d] = None]
        /\ shorn' = [shorn EXCEPT ![d] = @ \cup {e.app : e \in Foreign(Entries(d), Me(o))}]
        /\ LoopOver(o, "drop", ses[o].left \ {d})
  BY DEF DropDoctype
<1>2. /\ ses[o].pc = "drop"
      /\ UNCHANGED <<registry, schema, flows, data, work, edits, faults, tangled>>
  BY DEF DropDoctype, Next1, At
<1>3. d \in Doctype
  BY <1>1, <1>2, InHand DEF Underway
<1>4. shorn' \in [Doctype -> SUBSET (App \cup {None})]
  <2>1. Foreign(Entries(d), Me(o)) \subseteq Entry
    BY <1>3, ForeignTypes, EntryTypes, Types
  <2>2. {e.app : e \in Foreign(Entries(d), Me(o))} \subseteq App \cup {None}
    BY <2>1 DEF Entry
  <2> QED BY <1>1, <2>2, Types DEF MetaOK
<1>5. MetaOK' /\ edits' = edits
  BY <1>1, <1>2, <1>4, Types DEF MetaOK
<1> QED BY <1>1, <1>2, <1>5, PlainLoop

LEMMA ToggleKeeps ==
  ASSUME IInv, NEW o \in Operator, Toggle(o)
  PROVE  IInv'
<1>1. PICK d \in ses[o].left :
        /\ doctypes' = IF doctypes[d] = None \/ (Enables(o) /\ d \notin ses[o].had.clients)
                         THEN doctypes ELSE [doctypes EXCEPT ![d].client = Enables(o)]
        /\ LoopOver(o, "toggle", ses[o].left \ {d})
  BY DEF Toggle
<1>2. ses[o].pc = "toggle" /\ UNCHANGED <<registry, schema, flows, data, env>>
  BY DEF Toggle, Next1, At
<1>3. doctypes' \in [Doctype -> Record \cup {None}]
  <2>1. CASE doctypes' = doctypes
    BY <2>1, Types DEF MetaOK
  <2>2. CASE doctypes[d] # None /\ doctypes' = [doctypes EXCEPT ![d].client = Enables(o)]
    <3>1. d \in Doctype
      BY <1>2, InHand DEF Underway
    <3>2. PICK x \in Record : x = doctypes[d]
      BY <2>2, <3>1, EntryTypes, Types
    <3>3. [x EXCEPT !.client = Enables(o)] \in Record
      BY DEF Record, Enables
    <3>4. doctypes' = [doctypes EXCEPT ![d] = [x EXCEPT !.client = Enables(o)]]
      BY <2>2, <3>2
    <3> QED BY <3>1, <3>3, <3>4, Types DEF MetaOK
  <2> QED BY <1>1, <2>1, <2>2
<1>4. MetaOK' /\ edits' = edits
  BY <1>2, <1>3, Types DEF MetaOK, env
<1> QED BY <1>1, <1>2, <1>4, PlainLoop

LEMMA RegistryKeeps ==
  ASSUME IInv, NEW o \in Operator, Register(o) \/ Unregister(o) \/ SetEnabled(o)
  PROVE  IInv'
<1>1. Ends(o) /\ UNCHANGED <<doctypes, schema, flows, data, env>> /\ ses[o].pc # "idle"
  BY DEF Register, Unregister, SetEnabled, Done, At
<1>2. New(o) \in Bundle /\ Me(o) \in App
  BY <1>1, InHand
<1>3. registry \in [App -> [bundle : Bundle, enabled : BOOLEAN] \cup {None}]
  BY Types DEF MetaOK
<1>4. registry' \in [App -> [bundle : Bundle, enabled : BOOLEAN] \cup {None}]
  <2>1. CASE Register(o)
    <3>1. [bundle |-> New(o), enabled |-> TRUE] \in [bundle : Bundle, enabled : BOOLEAN]
      BY <1>2
    <3>2. \/ registry' = registry
          \/ registry' = [registry EXCEPT ![Me(o)] = [bundle |-> New(o), enabled |-> TRUE]]
      BY <2>1 DEF Register
    <3> QED BY <1>3, <3>1, <3>2
  <2>2. CASE Unregister(o)
    BY <1>3, <2>2 DEF Unregister
  <2>3. CASE SetEnabled(o)
    <3>1. CASE registry[Me(o)] = None
      BY <1>3, <2>3, <3>1 DEF SetEnabled
    <3>2. CASE registry[Me(o)] # None
      <4>1. PICK x \in [bundle : Bundle, enabled : BOOLEAN] : x = registry[Me(o)]
        BY <1>2, <1>3, <3>2
      <4>2. [x EXCEPT !.enabled = Enables(o)] \in [bundle : Bundle, enabled : BOOLEAN]
        BY DEF Enables
      <4>3. registry' = [registry EXCEPT ![Me(o)] = [x EXCEPT !.enabled = Enables(o)]]
        BY <2>3, <3>2, <4>1 DEF SetEnabled
      <4> QED BY <1>3, <4>2, <4>3
    <3> QED BY <3>1, <3>2
  <2> QED BY <2>1, <2>2, <2>3
<1>5. MetaOK' /\ UNCHANGED <<prov, rows, quietly, edits>>
  BY <1>1, <1>4, Types DEF MetaOK, data, env
<1> QED BY <1>1, <1>5, EndsKeeps

LEMMA DetachKeeps ==
  ASSUME IInv, NEW o \in Operator, Detach(o)
  PROVE  IInv'
<1>1. /\ ses[o].pc = "dropflows" /\ Goto(o, "orphan") /\ doctypes' = Detached(Me(o))
      /\ UNCHANGED <<registry, schema, flows, data, env>>
  BY DEF Detach, Done, At
<1>2. doctypes' \in [Doctype -> Record \cup {None}]
  <2>1. ASSUME NEW d \in Doctype, doctypes[d] # None
        PROVE  [doctypes[d] EXCEPT !.entries = Stripped(@, Me(o))] \in Record
    <3>1. PICK x \in Record : x = doctypes[d]
      BY <2>1, EntryTypes, Types
    <3>2. Stripped(x.entries, Me(o)) \subseteq Entry
      BY ForeignTypes DEF Record
    <3>3. [x EXCEPT !.entries = Stripped(@, Me(o))] \in Record
      BY <3>2 DEF Record
    <3> QED BY <3>1, <3>3
  <2>2. doctypes \in [Doctype -> Record \cup {None}]
    BY Types DEF MetaOK
  <2>3. ASSUME NEW d \in Doctype
        PROVE  (IF doctypes[d] = None \/ doctypes[d].app = Me(o) THEN doctypes[d]
                ELSE [doctypes[d] EXCEPT !.entries = Stripped(@, Me(o))]) \in Record \cup {None}
    BY <2>1, <2>2
  <2> QED BY <1>1, <2>3 DEF Detached
<1>3. MetaOK' /\ UNCHANGED <<prov, rows, quietly, edits>>
  BY <1>1, <1>2, Types DEF MetaOK, data, env
<1> QED BY <1>1, <1>3, GotoKeeps, StillShown

-----------------------------------------------------------------------------
(* Fixtures.                                                                *)

LEMMA RowNumbered ==
  ASSUME IInv, NEW k \in Key
  PROVE  /\ rows[k] # None => Numbered(rows[k])
         /\ prov[k] # None => Numbered(prov[k].shipped)
<1>1. RowsNumbered
  BY DEF IInv
<1> QED BY <1>1 DEF RowsNumbered

LEMMA ReadsKeeps ==
  ASSUME IInv, NEW o \in Operator, NEW p \in {"claim", "upsert", "record"},
         NEW k \in New(o).ships, Reads(o, p, k), ses[o].pc \in Shipping,
         p # "claim" => prov[k] # None /\ prov[k].app = Me(o),
         p = "record" => rows[k] # None /\ k \notin quietly,
         MetaOK', UNCHANGED <<prov, rows, quietly, edits>>
  PROVE  IInv'
<1>1. PICK r \in Session : r = ses[o] /\ Fits(r)
  BY Types
<1>2. PICK s : s = [r EXCEPT !.pc = p, !.at = k, !.row = rows[k]]
  OBVIOUS
<1>3. ses' = [ses EXCEPT ![o] = s]
  BY <1>1, <1>2 DEF Reads
<1>4. k \in Key /\ rows[k] \in Contents \cup {None} /\ ses[o].pc # "idle"
  <2>1. ses[o].pc # "idle"
    BY DEF Shipping
  <2> QED BY <2>1, InHand, Types
<1>5. /\ s \in Session /\ Same(r, s) /\ s.pc = p /\ s.left = r.left /\ s.at = k
      /\ s.row = rows[k]
  <2>1. p \in Steps1
    BY DEF Steps1, Planned, Shipping
  <2>2. k \in Doctype \cup Key \cup {None}
    BY <1>4
  <2> QED BY <1>2, <1>4, <2>1, <2>2 DEF Session, Same
<1>6. Fits(s)
  <2>1. Underway(s)
    BY <1>1, <1>4, <1>5 DEF Fits, Underway, Same, New, OverDoctypes, Shipping, Removing
  <2>2. Claimed(s) /\ Overwritten(s)
    BY <1>1, <1>5 DEF Claimed, Overwritten, Same, Me, Shipping
  <2>3. r.pc \in Planned
    BY <1>1, Places
  <2>4. Acknowledged(s)
    BY <1>1, <1>5, <2>3 DEF Fits, Acknowledged, Same
  <2>5. s.row # None => Numbered(s.row)
    <3>1. rows[k] # None => Numbered(rows[k])
      BY <1>4, RowNumbered
    <3> QED BY <1>5, <3>1 DEF Numbered
  <2> QED BY <2>1, <2>2, <2>4, <2>5 DEF Fits
<1> QED BY <1>3, <1>5, <1>6, GoesOn

LEMMA ShipGoto ==
  ASSUME IInv, NEW o \in Operator, NEW p \in {"upsert", "clear", "reread"}, Goto(o, p),
         ses[o].pc \in Shipping \ {"ship"},
         MetaOK', prov' \in [Key -> Provenance \cup {None}],
         rows' \in [Key -> Contents \cup {None}],
         ProvKept, quietly' \subseteq quietly, edits' = edits, RowsNumbered', QuietEditsShow',
         prov'[ses[o].at] # None /\ prov'[ses[o].at].app = Me(o),
         p # "upsert" => ses[o].at \notin quietly'
  PROVE  IInv'
<1>1. PICK r \in Session : r = ses[o] /\ Fits(r)
  BY Types
<1>2. PICK s : s = [r EXCEPT !.pc = p]
  OBVIOUS
<1>3. ses' = [ses EXCEPT ![o] = s]
  BY <1>1, <1>2 DEF Goto
<1>4. /\ s \in Session /\ Same(r, s) /\ s.pc = p
      /\ s.left = r.left /\ s.at = r.at /\ s.row = r.row
  <2>1. p \in Steps1
    BY DEF Steps1, Planned, Shipping
  <2> QED BY <1>2, <2>1, Gone
<1>5. Fits(s)'
  <2>1. Underway(s)'
    BY <1>1, <1>4 DEF Fits, Underway, Same, OverDoctypes, Shipping, Removing
  <2>2. Claimed(s)'
    BY <1>1, <1>4 DEF Claimed, Same, Me
  <2>3. Overwritten(s)'
    BY <1>1, <1>4 DEF Overwritten
  <2>4. r.pc \in Planned
    BY <1>1, Places
  <2>5. Acknowledged(s)'
    BY <1>1, <1>4, <2>4 DEF Fits, Acknowledged, Same
  <2>6. s.row # None => Numbered(s.row)'
    BY <1>1, <1>4 DEF Fits, Numbered
  <2> QED BY <2>1, <2>2, <2>3, <2>5, <2>6 DEF Fits
<1> QED BY <1>3, <1>4, <1>5, OneMoves

\* The row an operation is at.
LEMMA AtRow ==
  ASSUME IInv, NEW o \in Operator, ses[o].pc \in Shipping \ {"ship"}
  PROVE  /\ ses[o].at \in Key /\ ses[o].at \in New(o).ships /\ Me(o) \in App
         /\ ses[o].pc # "claim" => prov[ses[o].at] # None /\ prov[ses[o].at].app = Me(o)
         /\ ses[o].pc \in {"clear", "reread", "record"} => ses[o].at \notin quietly
<1>1. Fits(ses[o]) /\ ses[o].pc # "idle"
  BY Types DEF Shipping
<1>2. ses[o].at \in New(o).ships
  BY <1>1 DEF Fits, Underway, New
<1> QED BY <1>1, <1>2, InHand DEF Fits, Claimed, Overwritten, Me

LEMMA ReadFixtureKeeps ==
  ASSUME IInv, NEW o \in Operator, ReadFixture(o)
  PROVE  IInv'
<1>1. PICK k \in ses[o].left :
        IF AnotherOwns(k, Me(o)) THEN Ends(o)
        ELSE Reads(o, IF prov[k] = None THEN "claim" ELSE "upsert", k)
  BY DEF ReadFixture
<1>2. /\ ses[o].pc = "ship" /\ ses[o].pc \in Shipping /\ UNCHANGED <<meta, data, env>>
  BY DEF ReadFixture, Next1, At, Shipping
<1>3. MetaOK' /\ UNCHANGED <<prov, rows, quietly, edits>>
  BY <1>2, Types DEF MetaOK, meta, data, env
<1>4. k \in New(o).ships
  BY <1>2, InHand DEF Underway, New
<1>5. CASE Ends(o)
  BY <1>3, <1>5, EndsKeeps
<1>6. CASE ~AnotherOwns(k, Me(o)) /\ prov[k] = None /\ Reads(o, "claim", k)
  BY <1>2, <1>3, <1>4, <1>6, ReadsKeeps
<1>7. CASE ~AnotherOwns(k, Me(o)) /\ prov[k] # None /\ Reads(o, "upsert", k)
  BY <1>2, <1>3, <1>4, <1>7, ReadsKeeps DEF AnotherOwns
<1> QED BY <1>1, <1>5, <1>6, <1>7

LEMMA ClaimKeeps ==
  ASSUME IInv, NEW o \in Operator, Claim(o)
  PROVE  IInv'
<1> DEFINE k == ses[o].at
           new == [app |-> Me(o), shipped |-> Empty, active |-> FALSE]
<1>1. ses[o].pc = "claim" /\ UNCHANGED <<meta, rows, quietly, env>>
  BY DEF Claim, At
<1>2. ses[o].pc \in Shipping \ {"ship"}
  BY <1>1 DEF Shipping
<1>3. k \in Key /\ Me(o) \in App
  BY <1>2, AtRow
<1>4. MetaOK' /\ UNCHANGED <<rows, quietly, edits>>
  BY <1>1, Types DEF MetaOK, meta, env
<1>5. CASE prov[k] # None
  <2>1. prov' = prov
    BY <1>5 DEF Claim
  <2>2. CASE Ends(o)
    BY <1>4, <2>1, <2>2, EndsKeeps
  <2>3. CASE ~RacedOwner(k, Me(o)) /\ Goto(o, "upsert")
    <3>1. prov[k].app = Me(o)
      BY <1>5, <2>3 DEF RacedOwner, AnotherOwns
    <3> QED BY <1>2, <1>4, <1>5, <2>1, <2>3, <3>1, StillShown, Types, ShipGoto
  <2> QED BY <1>5, <2>2, <2>3 DEF Claim
<1>6. CASE prov[k] = None
  <2>1. prov' = [prov EXCEPT ![k] = new] /\ Goto(o, "upsert")
    BY <1>6 DEF Claim
  <2>2. new \in Provenance /\ new.app = Me(o) /\ new.shipped = Empty
    BY <1>3 DEF Provenance, Recorded, Empty, Row
  <2>3. new # None
    BY <2>2, AppsAssumption
  <2> HIDE DEF k, new
  <2>4. prov' \in [Key -> Provenance \cup {None}]
    BY <2>1, <2>2, Types
  <2>5. \A x \in Key : prov'[x] = IF x = k THEN new ELSE prov[x]
    BY <2>1, Types
  <2>6. ProvKept
    BY <1>6, <2>5 DEF ProvKept
  <2>7. Empty.text = None /\ Empty.extra = 0
    BY DEF Empty, Row
  <2>8. RowsNumbered'
    <3>1. Numbered(Empty)
      BY <2>7, Types DEF Numbered
    <3> QED BY <1>4, <2>2, <2>5, <3>1 DEF IInv, RowsNumbered, Numbered
  <2>9. QuietEditsShow'
    <3>1. ASSUME NEW x \in quietly PROVE Modified(x)'
      <4>1. CASE x = k
        <5>1. rows[x] # None
          BY <1>6, <4>1 DEF IInv, QuietEditsShow, Modified
        <5>2. rows[x] \in Contents
          BY <1>3, <4>1, <5>1, Types DEF k
        <5>3. rows[x].text # None
          BY <5>2, AppsAssumption DEF Contents
        <5>4. rows[x] # Empty
          BY <2>7, <5>3
        <5> QED BY <1>3, <1>4, <2>2, <2>3, <2>5, <4>1, <5>4 DEF Modified, k
      <4>2. CASE x # k
        <5>1. prov'[x] = prov[x] /\ x \in quietly
          BY <2>5, <4>2, Types
        <5> QED BY <1>4, <5>1 DEF IInv, QuietEditsShow, Modified
      <4> QED BY <4>1, <4>2
    <3> QED BY <1>4, <3>1 DEF QuietEditsShow
  <2>10. prov'[k] # None /\ prov'[k].app = Me(o)
    BY <1>3, <2>2, <2>3, <2>5 DEF k
  <2> QED BY <1>2, <1>4, <2>1, <2>4, <2>6, <2>8, <2>9, <2>10, Types, ShipGoto DEF k
<1> QED BY <1>5, <1>6

\* A step that writes the row an operation is at, and undoes a quiet edit of it.
LEMMA WritesRow ==
  ASSUME IInv, NEW o \in Operator, NEW p \in {"clear", "reread"}, Goto(o, p),
         ses[o].pc \in {"upsert", "clear"}, NEW c \in Contents \cup {None},
         c # None => Numbered(c),
         rows' = [rows EXCEPT ![ses[o].at] = c], quietly' = quietly \ {ses[o].at},
         UNCHANGED <<meta, prov, env>>
  PROVE  IInv'
<1>1. PICK k : k = ses[o].at
  OBVIOUS
<1>2. ses[o].pc \in Shipping \ {"ship"}
  BY DEF Shipping
<1>3. k \in Key /\ prov[k] # None /\ prov[k].app = Me(o)
  BY <1>1, <1>2, AtRow
<1>4. MetaOK' /\ UNCHANGED <<prov, edits>>
  BY Types DEF MetaOK, meta, env
<1>5. /\ rows' \in [Key -> Contents \cup {None}]
      /\ \A x \in Key : rows'[x] = IF x = k THEN c ELSE rows[x]
  BY <1>1, Types
<1>6. RowsNumbered'
  BY <1>4, <1>5 DEF IInv, RowsNumbered, Numbered
<1>7. QuietEditsShow'
  <2>1. \A x \in quietly' : x \in quietly /\ rows'[x] = rows[x]
    BY <1>1, <1>5, Types
  <2> QED BY <1>4, <2>1 DEF IInv, QuietEditsShow, Modified
<1>8. ProvKept /\ prov' \in [Key -> Provenance \cup {None}]
  BY <1>4, Types DEF ProvKept
<1>9. ses[o].at \notin quietly' /\ quietly' \subseteq quietly
  OBVIOUS
<1> QED BY <1>1, <1>2, <1>3, <1>4, <1>5, <1>6, <1>7, <1>8, <1>9, ShipGoto

LEMMA UpsertKeeps ==
  ASSUME IInv, NEW o \in Operator, Upsert(o)
  PROVE  IInv'
<1> DEFINE k == ses[o].at
           x == IF rows[k] = None THEN 0 ELSE rows[k].extra
           c == Row(Text(New(o)), x)
<1>1. /\ ses[o].pc = "upsert" /\ UNCHANGED <<meta, prov, env>>
      /\ rows' = [rows EXCEPT ![k] = c] /\ quietly' = quietly \ {k}
      /\ Goto(o, "clear") \/ Goto(o, "reread")
  BY DEF Upsert, At
<1>2. k \in Key /\ New(o).app \in App /\ New(o) \in Bundle
  <2>1. ses[o].pc \in Shipping \ {"ship"} /\ ses[o].pc # "idle"
    BY <1>1 DEF Shipping
  <2>2. k \in Key /\ New(o).app \in App
    BY <2>1, AtRow DEF Me, New
  <2>3. New(o) \in Bundle
    BY <2>1, InHand
  <2> QED BY <2>2, <2>3
<1>3. x \in Nat /\ x <= edits
  <2>1. rows[k] \in Contents \cup {None} /\ edits \in Nat
    BY <1>2, Types
  <2>2. rows[k] # None => rows[k].extra \in Nat
    BY <2>1 DEF Contents
  <2>3. rows[k] # None => rows[k].extra <= edits
    BY <1>2, RowNumbered DEF Numbered
  <2> QED BY <2>1, <2>2, <2>3
<1> HIDE DEF x
<1>4. Text(New(o)) \in Texts /\ Text(New(o)).by # None
  <2>1. New(o).version \in Nat
    BY <1>2 DEF Bundle
  <2> QED BY <1>2, <2>1, AppsAssumption DEF Text, Texts
<1>5. c \in Contents /\ c.text = Text(New(o)) /\ c.extra = x
  BY <1>3, <1>4 DEF Row, Contents
<1>6. Numbered(c)
  BY <1>3, <1>4, <1>5 DEF Numbered
<1> HIDE DEF c
<1> QED BY <1>1, <1>5, <1>6, WritesRow

LEMMA ClearFieldsKeeps ==
  ASSUME IInv, NEW o \in Operator, ClearFields(o)
  PROVE  IInv'
<1> DEFINE k == ses[o].at
           c == IF rows[k] = None THEN None ELSE Row(rows[k].text, 0)
<1>1. /\ ses[o].pc = "clear" /\ UNCHANGED <<meta, prov, env>>
      /\ rows' = [rows EXCEPT ![k] = c] /\ quietly' = quietly \ {k}
      /\ Goto(o, "reread")
  BY DEF ClearFields, At
<1>2. k \in Key
  BY <1>1, AtRow DEF Shipping
<1>3. rows[k] \in Contents \cup {None} /\ edits \in Nat
  BY <1>2, Types
<1>4. c # None => c \in Contents /\ Numbered(c)
  <2>1. rows[k] # None => Numbered(rows[k]) /\ rows[k].text \in Texts
    BY <1>2, <1>3, RowNumbered DEF Contents
  <2> QED BY <1>3, <2>1 DEF Row, Contents, Numbered
<1> HIDE DEF c
<1> QED BY <1>1, <1>4, WritesRow

LEMMA RereadKeeps ==
  ASSUME IInv, NEW o \in Operator, Reread(o)
  PROVE  IInv'
<1> DEFINE k == ses[o].at
<1>1. /\ ses[o].pc = "reread" /\ ses[o].pc \in Shipping /\ ses[o].pc \in Shipping \ {"ship"}
      /\ UNCHANGED <<meta, data, edits, faults, tangled, shorn>>
  BY DEF Reread, At, Shipping
<1>2. /\ k \in New(o).ships /\ k \notin quietly
      /\ prov[k] # None /\ prov[k].app = Me(o)
  BY <1>1, AtRow
<1>3. UNCHANGED <<prov, rows, quietly, edits>>
  BY <1>1 DEF data
<1>4. CASE Ends(o) /\ work' = Again({o})
  <2>1. \A c \in Call, q \in Seq(Call) : <<[c EXCEPT !.ack = TRUE]>> \o q \in Seq(Call)
    <3>1. \A c \in Call : [c EXCEPT !.ack = TRUE] \in Call
      BY DEF Call
    <3>2. \A c \in Call, q \in Seq(Call) : <<c>> \o q \in Seq(Call)
      OBVIOUS
    <3> QED BY <3>1, <3>2
  <2>2. ses[o].call \in Call /\ work \in [Operator -> Seq(Call)]
    BY <1>1, InHand, Types DEF MetaOK
  <2>3. work' \in [Operator -> Seq(Call)]
    BY <1>4, <2>1, <2>2 DEF Again
  <2>4. MetaOK'
    BY <1>1, <2>3, Types DEF MetaOK, meta
  <2> QED BY <1>3, <1>4, <2>4, EndsKeeps
<1>5. CASE rows[k] # None /\ Reads(o, "record", k) /\ UNCHANGED work
  <2>1. MetaOK'
    BY <1>1, <1>5, Types DEF MetaOK, meta
  <2> QED BY <1>1, <1>2, <1>3, <1>5, <2>1, ReadsKeeps
<1> QED BY <1>4, <1>5 DEF Reread

LEMMA RecordShippedKeeps ==
  ASSUME IInv, NEW o \in Operator, RecordShipped(o)
  PROVE  IInv'
<1> DEFINE k == ses[o].at
           new == [app |-> Me(o), shipped |-> ses[o].row, active |-> TRUE]
           S == ses[o].left \ {k}
<1>1. /\ ses[o].pc = "record" /\ ses[o].pc \in Shipping /\ ses[o].pc \in Shipping \ {"ship"}
      /\ prov' = [prov EXCEPT ![k] = new] /\ LoopOver(o, "ship", S)
      /\ UNCHANGED <<meta, rows, quietly, env>>
  BY DEF RecordShipped, At, Shipping
<1>2. /\ k \in Key /\ Me(o) \in App /\ k \notin quietly
      /\ prov[k] # None /\ prov[k].app = Me(o)
  BY <1>1, AtRow
<1>3. ses[o].row \in Contents /\ Numbered(ses[o].row) /\ S \subseteq New(o).ships
  <2>1. ses[o].row \in Contents /\ S \subseteq New(o).ships
    BY <1>1, InHand DEF Underway, New
  <2>2. ses[o].row # None
    BY <2>1, AppsAssumption
  <2> QED BY <2>1, <2>2, Types DEF Fits
<1>4. new \in Provenance /\ new.app = Me(o) /\ new.shipped = ses[o].row
  BY <1>2, <1>3 DEF Provenance, Recorded, Contents
<1>5. new # None
  BY <1>4, AppsAssumption
<1> HIDE DEF k, new, S
<1>6. /\ prov' \in [Key -> Provenance \cup {None}]
      /\ \A x \in Key : prov'[x] = IF x = k THEN new ELSE prov[x]
  BY <1>1, <1>4, Types
<1>7. MetaOK' /\ UNCHANGED <<rows, quietly, edits>>
  BY <1>1, Types DEF MetaOK, meta, env
<1>8. ProvKept
  BY <1>2, <1>4, <1>5, <1>6 DEF ProvKept
<1>9. RowsNumbered'
  BY <1>3, <1>4, <1>6, <1>7 DEF IInv, RowsNumbered, Numbered
<1>10. QuietEditsShow'
  <2>1. \A x \in quietly : prov'[x] = prov[x]
    BY <1>2, <1>6, Types
  <2> QED BY <1>7, <2>1 DEF IInv, QuietEditsShow, Modified
<1>11. S \subseteq Doctype \cup Flow \cup Key /\ ses[o].pc # "idle" /\ ses[o].pc \in Planned
  BY <1>1, InHand, Places DEF S
<1> QED BY <1>1, <1>3, <1>6, <1>7, <1>8, <1>9, <1>10, <1>11, Places, LoopKeeps

\* An orphaned provenance is the same but for its mark.
LEMMA Orphaning ==
  ASSUME IInv, NEW K,
         prov' = [x \in Key |-> IF x \in K THEN Orphaned(prov[x]) ELSE prov[x]],
         UNCHANGED <<rows, quietly, edits>>
  PROVE  /\ prov' \in [Key -> Provenance \cup {None}] /\ ProvKept
         /\ RowsNumbered' /\ QuietEditsShow'
<1>1. ASSUME NEW x \in Key
      PROVE  /\ prov'[x] \in Provenance \cup {None}
             /\ prov[x] = None => prov'[x] = None
             /\ prov[x] # None => /\ prov'[x] # None /\ prov'[x].app = prov[x].app
                                 /\ prov'[x].shipped = prov[x].shipped
  <2>1. prov'[x] = IF x \in K THEN Orphaned(prov[x]) ELSE prov[x]
    OBVIOUS
  <2>2. CASE prov[x] = None
    BY <2>1, <2>2 DEF Orphaned
  <2>3. CASE prov[x] # None
    <3>1. PICK q \in Provenance : q = prov[x]
      BY <2>3, Types
    <3>2. PICK r : r = [q EXCEPT !.active = FALSE]
      OBVIOUS
    <3>3. r \in Provenance /\ r.app = q.app /\ r.shipped = q.shipped
      BY <3>2 DEF Provenance
    <3>4. r # None
      BY <3>3, AppsAssumption
    <3>5. prov'[x] = r \/ prov'[x] = q
      BY <2>1, <2>3, <3>1, <3>2 DEF Orphaned
    <3> QED BY <2>3, <3>1, <3>3, <3>4, <3>5
  <2> QED BY <2>2, <2>3
<1>2. prov' \in [Key -> Provenance \cup {None}]
  BY <1>1
<1>3. ProvKept
  BY <1>1 DEF ProvKept
<1>4. RowsNumbered'
  BY <1>1, RowNumbered DEF RowsNumbered, Numbered
<1>5. QuietEditsShow'
  <2>1. quietly \subseteq Key
    BY Types
  <2> QED BY <1>1, <2>1 DEF IInv, QuietEditsShow, Modified
<1> QED BY <1>2, <1>3, <1>4, <1>5

LEMMA RetireKeeps ==
  ASSUME IInv, NEW o \in Operator, Retire(o)
  PROVE  IInv'
<1>1. PICK x \in ses[o].left :
        /\ flows' = [n \in Flow |-> IF n = x THEN None ELSE flows[n]]
        /\ prov' = [k \in Key |-> IF k = x THEN Orphaned(prov[k]) ELSE prov[k]]
        /\ LoopOver(o, "retire", ses[o].left \ {x})
  BY DEF Retire
<1>2. ses[o].pc = "retire" /\ UNCHANGED <<registry, doctypes, schema, rows, quietly, env>>
  BY DEF Retire, Next1, At
<1>3. flows' \in [Flow -> App \cup {None}]
  BY <1>1, Types DEF MetaOK
<1>4. MetaOK' /\ UNCHANGED <<rows, quietly, edits>>
  BY <1>2, <1>3, Types DEF MetaOK, env
<1>5. prov' = [k \in Key |-> IF k \in {x} THEN Orphaned(prov[k]) ELSE prov[k]]
  BY <1>1
<1>6. /\ prov' \in [Key -> Provenance \cup {None}] /\ ProvKept
      /\ RowsNumbered' /\ QuietEditsShow'
  BY <1>4, <1>5, Orphaning
<1>7. ses[o].left \ {x} \subseteq Doctype \cup Flow \cup Key
  BY InHand
<1> QED BY <1>1, <1>2, <1>4, <1>6, <1>7, Places, LoopKeeps

LEMMA OrphanAllKeeps ==
  ASSUME IInv, NEW o \in Operator, OrphanAll(o)
  PROVE  IInv'
<1> DEFINE K == {k \in Key : prov[k] # None /\ prov[k].app = Me(o)}
<1>1. /\ ses[o].pc = "orphan" /\ Goto(o, "unregister")
      /\ UNCHANGED <<meta, rows, quietly, env>>
  BY DEF OrphanAll, At
<1>2. prov' = [k \in Key |-> IF k \in K THEN Orphaned(prov[k]) ELSE prov[k]]
  BY DEF OrphanAll
<1> HIDE DEF K
<1>3. MetaOK' /\ UNCHANGED <<rows, quietly, edits>>
  BY <1>1, Types DEF MetaOK, meta, env
<1>4. /\ prov' \in [Key -> Provenance \cup {None}] /\ ProvKept
      /\ RowsNumbered' /\ QuietEditsShow'
  BY <1>2, <1>3, Orphaning
<1> QED BY <1>1, <1>3, <1>4, GotoKeeps

-----------------------------------------------------------------------------
(* Stops and users.                                                         *)

LEMMA BreakOffKeeps ==
  ASSUME IInv, NEW O \in SUBSET Operator, BreakOff(O)
  PROVE  IInv'
<1>1. /\ \A o \in O : ses[o].pc # "idle"
      /\ faults' = faults + 1 /\ work' = Again(O)
      /\ ses' = [o \in Operator |-> IF o \in O THEN Idle ELSE ses[o]]
      /\ UNCHANGED <<meta, data, edits, tangled>>
      /\ shorn' = [d \in Doctype |-> shorn[d] \cup StillInHand(O, d)]
  BY DEF BreakOff, Busy
<1>2. \A c \in Call, q \in Seq(Call) : <<[c EXCEPT !.ack = TRUE]>> \o q \in Seq(Call)
  <2>1. \A c \in Call : [c EXCEPT !.ack = TRUE] \in Call
    BY DEF Call
  <2>2. \A c \in Call, q \in Seq(Call) : <<c>> \o q \in Seq(Call)
    OBVIOUS
  <2> QED BY <2>1, <2>2
<1>3. \A o \in O : ses[o].call \in Call
  BY <1>1, InHand
<1>4. work' \in [Operator -> Seq(Call)]
  BY <1>1, <1>2, <1>3, Types DEF MetaOK, Again
<1>5. MetaOK' /\ UNCHANGED <<prov, rows, quietly, edits>>
  <2>1. ASSUME NEW d \in Doctype PROVE StillInHand(O, d) \subseteq App \cup {None}
    <3>1. \A o \in O : ses[o].kept \subseteq Entry
      BY Types DEF Session
    <3>2. \A e \in Entry : e.app \in App \cup {None}
      BY DEF Entry
    <3> QED BY <3>1, <3>2 DEF StillInHand
  <2>2. shorn' \in [Doctype -> SUBSET (App \cup {None})]
    BY <1>1, <2>1, Types DEF MetaOK
  <2> QED BY <1>1, <1>4, <2>2, Types DEF MetaOK, meta, data
<1>6. ASSUME NEW o \in Operator PROVE ses'[o] \in Session /\ Fits(ses[o])'
  <2>1. PICK s \in Session : s = (IF o \in O THEN Idle ELSE ses[o]) /\ Fits(s)
    BY Types, Resting
  <2>2. ses'[o] = s
    BY <1>1, <2>1
  <2>3. Fits(s)'
    BY <1>5, <2>1, FitsStill, StillShown
  <2> QED BY <2>2, <2>3 DEF Fits, Underway, Claimed, Acknowledged, Overwritten, Numbered
<1>7. ses' \in [Operator -> Session]
  <2>1. ses' = [o \in Operator |-> ses'[o]]
    BY <1>1
  <2> QED BY <1>6, <2>1
<1>8. TypeOK'
  BY <1>5, <1>7, Types DEF TypeOK, MetaOK
<1> QED BY <1>5, <1>6, <1>8, StillShown DEF IInv

LEMMA EditRowKeeps ==
  ASSUME IInv, NEW k \in Key, EditRow(k)
  PROVE  IInv'
<1> DEFINE mine == [by |-> None, n |-> edits + 1]
<1>1. /\ edits' = edits + 1 /\ UNCHANGED <<meta, prov, work, ses, faults, tangled, shorn>>
      /\ \/ rows' = [rows EXCEPT ![k] = Row(mine, IF rows[k] = None THEN 0 ELSE rows[k].extra)]
         \/ rows[k] # None /\ rows' = [rows EXCEPT ![k] = Row(rows[k].text, edits + 1)]
         \/ rows[k] # None /\ rows' = [rows EXCEPT ![k] = None]
      /\ quietly' = IF (\A o \in Operator : ~Busy(o)) /\ (rows'[k] # None \/ prov[k] # None)
                      THEN quietly \cup {k} ELSE quietly \ {k}
  BY DEF EditRow
<1>2. mine \in Texts /\ mine.by = None /\ mine.n = edits + 1 /\ edits \in Nat
  BY Types DEF Texts
<1>3. rows[k] # None => /\ rows[k].text \in Texts /\ rows[k].extra \in Nat
                        /\ Numbered(rows[k])
  BY RowNumbered, Types DEF Contents
<1> HIDE DEF mine
<1>4. PICK c \in Contents \cup {None} :
        /\ rows' = [rows EXCEPT ![k] = c]
        /\ c # None => /\ Numbered(c)'
                       /\ c.text = mine \/ c.extra = edits + 1
  <2>1. CASE rows' = [rows EXCEPT ![k] = Row(mine, IF rows[k] = None THEN 0 ELSE rows[k].extra)]
    <3>1. PICK x \in Nat : x = (IF rows[k] = None THEN 0 ELSE rows[k].extra) /\ x <= edits
      BY <1>2, <1>3 DEF Numbered
    <3>2. PICK c : c = Row(mine, x)
      OBVIOUS
    <3>3. c \in Contents /\ c.text = mine /\ c.extra = x
      BY <1>2, <3>2 DEF Row, Contents
    <3>4. Numbered(c)'
      BY <1>1, <1>2, <3>1, <3>3 DEF Numbered
    <3> QED BY <2>1, <3>1, <3>2, <3>3, <3>4
  <2>2. CASE rows[k] # None /\ rows' = [rows EXCEPT ![k] = Row(rows[k].text, edits + 1)]
    <3>1. PICK t \in Texts : t = rows[k].text /\ (t # None /\ t.by = None => t.n <= edits)
      BY <1>3, <2>2 DEF Numbered
    <3>2. PICK c : c = Row(t, edits + 1)
      OBVIOUS
    <3>3. c \in Contents /\ c.text = t /\ c.extra = edits + 1
      BY <1>2, <3>2 DEF Row, Contents
    <3>4. t.n \in Nat
      BY DEF Texts
    <3>5. Numbered(c)'
      BY <1>1, <1>2, <3>1, <3>3, <3>4 DEF Numbered
    <3> QED BY <2>2, <3>1, <3>2, <3>3, <3>5
  <2>3. CASE rows' = [rows EXCEPT ![k] = None]
    BY <2>3
  <2> QED BY <1>1, <2>1, <2>2, <2>3
<1>5. /\ rows' \in [Key -> Contents \cup {None}]
      /\ \A x \in Key : rows'[x] = IF x = k THEN c ELSE rows[x]
  BY <1>4, Types
<1>6. \A d : d \in Contents \cup Recorded /\ Numbered(d) => Numbered(d)'
  <2>1. \A t \in Texts : t.n \in Nat
    BY DEF Texts
  <2> QED BY <1>1, <1>2, <2>1 DEF Numbered, Contents, Recorded
<1>7. RowsNumbered'
  <2>1. ASSUME NEW x \in Key
        PROVE  /\ rows[x] # None => rows[x] \in Contents
               /\ prov[x] # None => prov[x].shipped \in Recorded
    BY Types DEF Provenance
  <2>2. prov' = prov
    BY <1>1
  <2> QED BY <1>4, <1>5, <1>6, <2>1, <2>2, RowNumbered DEF RowsNumbered
<1>8. QuietEditsShow'
  <2>1. ASSUME NEW x \in quietly', x # k PROVE Modified(x)'
    <3>1. x \in quietly /\ x \in Key
      BY <1>1, <2>1, Types
    <3> QED BY <1>1, <1>5, <2>1, <3>1 DEF IInv, QuietEditsShow, Modified
  <2>2. ASSUME k \in quietly' PROVE Modified(k)'
    <3>1. c # None \/ prov[k] # None
      BY <1>1, <1>5, <2>2
    <3>2. CASE prov[k] = None
      BY <1>1, <1>5, <3>1, <3>2 DEF Modified
    <3>3. CASE prov[k] # None
      <4>1. PICK d : d = prov[k].shipped
        OBVIOUS
      <4>2. d \in Recorded /\ Numbered(d)
        BY <3>3, <4>1, RowNumbered, Types DEF Provenance
      <4>3. d # None
        BY <4>2, AppsAssumption
      <4>4. c # None => c # d
        <5>1. mine # None
          BY <1>2, AppsAssumption
        <5> QED BY <1>2, <1>4, <4>2, <5>1 DEF Numbered, Recorded
      <4> QED BY <1>1, <1>5, <3>3, <4>1, <4>3, <4>4 DEF Modified
    <3> QED BY <3>2, <3>3
  <2> QED BY <2>1, <2>2 DEF QuietEditsShow
<1>9. ASSUME NEW o \in Operator PROVE Fits(ses[o])'
  <2>1. PICK s \in Session : s = ses[o] /\ Fits(s)
    BY Types
  <2>2. Underway(s)' /\ Claimed(s)'
    BY <1>1, <2>1 DEF Fits, Underway, Claimed
  <2>3. Acknowledged(s)' /\ Overwritten(s)'
    <3>1. CASE s.pc = "idle"
      BY <3>1 DEF Acknowledged, Overwritten, Planned, OverDoctypes, Shipping
    <3>2. CASE s.pc # "idle"
      <4>1. quietly' \subseteq quietly
        BY <1>1, <2>1, <3>2 DEF Busy
      <4> QED BY <2>1, <4>1 DEF Fits, Acknowledged, Overwritten
    <3> QED BY <3>1, <3>2
  <2>4. s.row # None => Numbered(s.row)'
    <3>1. s.row # None => s.row \in Contents
      BY DEF Session
    <3> QED BY <1>6, <2>1, <3>1 DEF Fits
  <2>5. Fits(s)'
    BY <2>2, <2>3, <2>4 DEF Fits
  <2>6. ses'[o] = s
    BY <1>1, <2>1
  <2> QED BY <2>5, <2>6 DEF Fits, Underway, Claimed, Acknowledged, Overwritten, Numbered
<1>10. TypeOK'
  <2>1. MetaOK' /\ edits' \in Nat /\ quietly' \subseteq Key
    BY <1>1, <1>2, Types DEF MetaOK, meta
  <2> QED BY <1>1, <1>5, <2>1, Types DEF TypeOK, MetaOK
<1> QED BY <1>7, <1>8, <1>9, <1>10 DEF IInv

-----------------------------------------------------------------------------
(* The invariant.                                                           *)

LEMMA StepKeeps ==
  ASSUME IInv, NEW o \in Operator, Step(o)
  PROVE  IInv'
<1>1. CASE PutBack(o) \/ AddExtension(o)
  BY <1>1, Append1Keeps DEF PutBack, AddExtension, At
<1>2. CASE DoctypeDone(o, "back", "attach") \/ DoctypeDone(o, "add", "extend")
  BY <1>2, DoctypeDoneKeeps
<1>3. CASE Begin(o) \/ Plan(o) \/ ApplySchema(o) \/ ReadPrior(o) \/ PutDoctype(o)
  BY <1>3, BeginKeeps, PlanKeeps, ApplySchemaKeeps, ReadPriorKeeps, PutDoctypeKeeps
<1>4. CASE AttachedAll(o) \/ CheckExtension(o) \/ StripOwn(o) \/ SyncExtensions(o)
  BY <1>4, AttachedAllKeeps, CheckExtensionKeeps, StripOwnKeeps, SyncExtensionsKeeps
<1>5. CASE PutFlow(o) \/ FlowsDone(o) \/ DroppedAll(o) \/ DropFlow(o)
  BY <1>5, FlowKeeps
<1>6. CASE ReadFixture(o) \/ Claim(o) \/ Upsert(o) \/ ClearFields(o) \/ Reread(o) \/ RecordShipped(o)
  BY <1>6, ReadFixtureKeeps, ClaimKeeps, UpsertKeeps, ClearFieldsKeeps, RereadKeeps,
     RecordShippedKeeps
<1>7. CASE Shipped(o) \/ Retire(o) \/ Register(o) \/ Unregister(o) \/ SetEnabled(o)
  BY <1>7, ShippedKeeps, RetireKeeps, RegistryKeeps
<1>8. CASE DropDoctype(o) \/ Detach(o) \/ OrphanAll(o) \/ Toggle(o)
  BY <1>8, DropDoctypeKeeps, DetachKeeps, OrphanAllKeeps, ToggleKeeps
<1> QED BY <1>1, <1>2, <1>3, <1>4, <1>5, <1>6, <1>7, <1>8 DEF Step

LEMMA NextKeeps ==
  ASSUME IInv, [Next]_vars
  PROVE  IInv'
<1>1. CASE UNCHANGED vars
  <2>1. MetaOK' /\ UNCHANGED <<ses, prov, rows, quietly, edits>>
    BY <1>1, Types DEF MetaOK, vars
  <2> QED BY <2>1, RestKeeps
<1>2. CASE Next
  BY <1>2, StepKeeps, BreakOffKeeps, EditRowKeeps DEF Next
<1> QED BY <1>1, <1>2

LEMMA InitHolds ==
  ASSUME Init
  PROVE  IInv
<1>1. work \in [Operator -> Seq(Call)]
  BY AppsAssumption DEF Init
<1>2. TypeOK
  BY <1>1, Resting DEF Init, TypeOK
<1>3. \A o \in Operator : Fits(ses[o])
  BY Resting DEF Init
<1> QED BY <1>2, <1>3 DEF Init, IInv, RowsNumbered, QuietEditsShow

-----------------------------------------------------------------------------
\* The inductive invariant holds in every reachable state.
THEOREM AppsInvariant == Spec => []IInv
<1>1. Init => IInv
  BY InitHolds
<1>2. IInv /\ [Next]_vars => IInv'
  BY NextKeeps
<1> QED BY <1>1, <1>2, PTL DEF Spec

\* The types of every variable.
THEOREM TypeCorrectness == Spec => []TypeOK
<1>1. IInv => TypeOK
  BY DEF IInv
<1> QED BY <1>1, AppsInvariant, PTL

-----------------------------------------------------------------------------
(* Who writes the rows.                                                     *)

\* Two statements of an operation write rows.
LEMMA RowWriters ==
  ASSUME NEW o \in Operator, Step(o)
  PROVE  UNCHANGED rows \/ Upsert(o) \/ ClearFields(o)
<1>1. CASE Begin(o) \/ Plan(o) \/ ApplySchema(o) \/ ReadPrior(o) \/ PutDoctype(o) \/ AttachedAll(o)
           \/ CheckExtension(o) \/ StripOwn(o) \/ SyncExtensions(o)
  BY <1>1 DEF Begin, Plan, ApplySchema, ReadPrior, PutDoctype, AttachedAll, CheckExtension, StripOwn,
              SyncExtensions, data
<1>2. CASE PutBack(o) \/ AddExtension(o) \/ DoctypeDone(o, "back", "attach")
           \/ DoctypeDone(o, "add", "extend") \/ PutFlow(o) \/ FlowsDone(o)
  BY <1>2 DEF PutBack, AddExtension, Append1, DoctypeDone, PutFlow, FlowsDone, data
<1>3. CASE ReadFixture(o) \/ Claim(o) \/ Reread(o) \/ RecordShipped(o) \/ Shipped(o) \/ Retire(o)
           \/ Register(o)
  BY <1>3 DEF ReadFixture, Claim, Reread, RecordShipped, Shipped, Retire, Register, data
<1>4. CASE DropDoctype(o) \/ DroppedAll(o) \/ DropFlow(o) \/ Detach(o) \/ OrphanAll(o)
           \/ Unregister(o) \/ Toggle(o) \/ SetEnabled(o)
  BY <1>4 DEF DropDoctype, DroppedAll, DropFlow, Detach, OrphanAll, Unregister, Toggle, SetEnabled, data
<1> QED BY <1>1, <1>2, <1>3, <1>4 DEF Step

LEMMA RowWritten ==
  ASSUME IInv, Next, NEW k \in Key, rows'[k] # rows[k], edits' = edits
  PROVE  \E o \in Operator : Writes(o, k)
<1>1. PICK o \in Operator : Upsert(o) \/ ClearFields(o)
  <2>1. CASE \E O \in SUBSET Operator : BreakOff(O)
    BY <2>1 DEF BreakOff, data
  <2>2. CASE \E x \in Key : EditRow(x)
    BY <2>2, Types DEF EditRow
  <2> QED BY <2>1, <2>2, RowWriters DEF Next
<1>2. /\ ses[o].pc \in {"upsert", "clear"} /\ faults' = faults
      /\ \E c : rows' = [rows EXCEPT ![ses[o].at] = c]
  BY <1>1 DEF Upsert, ClearFields, At, env
<1>3. ses[o].at = k
  BY <1>2, Types
<1>4. ses'[o] # ses[o]
  <2>1. PICK p : Goto(o, p) /\ p # ses[o].pc
    BY <1>1 DEF Upsert, ClearFields, At
  <2>2. ses[o] \in Session
    BY Types
  <2>3. ses'[o].pc = p
    BY <2>1, <2>2, Types DEF Goto, Session
  <2> QED BY <2>1, <2>3
<1> QED BY <1>2, <1>3, <1>4 DEF Writes, Steps

\* A fixture row is written only for the app its provenance names (CREATE ONLY of
\* the claim, and the look at the winner when it fails).
THEOREM FixturesHaveOneOwner == Spec => OneOwner
<1>1. ASSUME IInv, Next, NEW k \in Key, rows'[k] # rows[k], edits' = edits
      PROVE  \E o \in Operator : Writes(o, k) /\ prov[k] # None /\ prov[k].app = Me(o)
  <2>1. PICK o \in Operator : Writes(o, k)
    BY <1>1, RowWritten
  <2>2. ses[o].at = k /\ ses[o].pc \in Shipping \ {"ship"} /\ ses[o].pc # "claim"
    BY <2>1 DEF Writes, Shipping
  <2> QED BY <1>1, <2>1, <2>2, AtRow
<1>2. IInv /\ [Next]_vars =>
        [\A k \in Key : rows'[k] # rows[k] /\ edits' = edits =>
           \E o \in Operator : Writes(o, k) /\ prov[k] # None /\ prov[k].app = Me(o)]_vars
  BY <1>1
<1> QED BY <1>2, AppsInvariant, PTL DEF Spec, OneOwner

\* What a user did to a fixture row while no operation was going on is overwritten
\* by an acknowledged operation only (plan_fixtures, apply_fixtures).
THEOREM QuietEditsAreKept == Spec => EditsKept
<1>1. ASSUME IInv, Next, NEW k \in quietly, rows'[k] # rows[k], edits' = edits
      PROVE  \E o \in Operator : Writes(o, k) /\ ses[o].call.ack
  <2>1. k \in Key
    BY <1>1, Types
  <2>2. PICK o \in Operator : Writes(o, k)
    BY <1>1, <2>1, RowWritten
  <2>3. ses[o].at = k /\ ses[o].pc \in Shipping \ {"ship"} /\ ses[o].pc \in Planned
    BY <2>2 DEF Writes, Shipping, Planned
  <2>4. k \in New(o).ships
    BY <1>1, <2>3, AtRow
  <2>5. Acknowledged(ses[o])
    BY <1>1, Types DEF Fits
  <2> QED BY <1>1, <2>2, <2>3, <2>4, <2>5 DEF Acknowledged, New
<1>2. IInv /\ [Next]_vars =>
        [\A k \in quietly : rows'[k] # rows[k] /\ edits' = edits =>
           \E o \in Operator : Writes(o, k) /\ ses[o].call.ack]_vars
  BY <1>1
<1> QED BY <1>2, AppsInvariant, PTL DEF Spec, EditsKept

-----------------------------------------------------------------------------
(* What the other apps have in the DocTypes.                                *)

\* An operation that no other one has overlapped: the others are idle; what they had added
\* to a DocType when it began is in the record still, or in its hand between the statement
\* that replaces the record and those that put it back; an uninstall past its statement over
\* the DocTypes of others has nothing there.
Left(o) ==
  /\ \A p \in Operator \ {o} : ~Busy(p)
  /\ \A d \in Doctype : \A e \in ses[o].before[d] : e.app \notin {None, Me(o)}
  /\ ses[o].pc = "put" => ses[o].before[ses[o].at] \subseteq ses[o].kept
  /\ ses[o].pc = "back" =>
       /\ doctypes[ses[o].at] # None
       /\ ses[o].before[ses[o].at] \subseteq ses[o].kept \cup Entries(ses[o].at)
  /\ \A d \in Doctype : \/ ses[o].before[d] \subseteq Entries(d)
                        \/ ses[o].pc = "back" /\ d = ses[o].at
                        \/ ses[o].pc \in Removing /\ doctypes[d] = None
  /\ ses[o].call.kind = "uninstall" => ses[o].pc \in {"drop", "dropflows", "orphan", "unregister"}
  /\ ses[o].pc \in {"orphan", "unregister"} =>
       \A d \in Doctype : doctypes[d] # None /\ doctypes[d].app # Me(o) =>
         \A e \in Entries(d) : e.app # Me(o)

LeftInv == \A o \in Operator : ses[o].alone => Left(o)

\* A step of an operation keeps its call and what it found, and the other sessions.
Advances(o) ==
  /\ \A p \in Operator \ {o} : ses'[p] = ses[p]
  /\ ses'[o].call = ses[o].call /\ ses'[o].before = ses[o].before

LEMMA HowItAdvances ==
  ASSUME IInv, NEW o \in Operator, NEW p, NEW x, NEW K
  PROVE  /\ Goto(o, p) => /\ Advances(o) /\ ses'[o].pc = p
                          /\ ses'[o].at = ses[o].at /\ ses'[o].kept = ses[o].kept
         /\ LoopOver(o, p, x) => Advances(o) /\ ses'[o].pc = p
         /\ Keeps(o, p, x, K) => /\ Advances(o) /\ ses'[o].pc = p
                                 /\ ses'[o].at = x /\ ses'[o].kept = K
         /\ Reads(o, p, x) => Advances(o) /\ ses'[o].pc = p
<1>1. ses \in [Operator -> Session] /\ ses[o] \in Session
  BY Types
<1>2. ASSUME NEW s, ses' = [ses EXCEPT ![o] = s]
      PROVE  ses'[o] = s /\ \A q \in Operator \ {o} : ses'[q] = ses[q]
  BY <1>1, <1>2
<1>3. ASSUME Goto(o, p) PROVE Advances(o) /\ ses'[o].pc = p
                              /\ ses'[o].at = ses[o].at /\ ses'[o].kept = ses[o].kept
  <2> DEFINE s == [ses[o] EXCEPT !.pc = p]
  <2>1. s.pc = p /\ s.at = ses[o].at /\ s.kept = ses[o].kept /\ s.call = ses[o].call /\ s.before = ses[o].before
    BY <1>1 DEF Session
  <2>2. ses' = [ses EXCEPT ![o] = s]
    BY <1>3 DEF Goto
  <2> HIDE DEF s
  <2> QED BY <1>2, <2>1, <2>2 DEF Advances
<1>4. ASSUME LoopOver(o, p, x) PROVE Advances(o) /\ ses'[o].pc = p
  <2> DEFINE s == [ses[o] EXCEPT !.pc = p, !.left = x]
  <2>1. s.pc = p /\ s.call = ses[o].call /\ s.before = ses[o].before
    BY <1>1 DEF Session
  <2>2. ses' = [ses EXCEPT ![o] = s]
    BY <1>4 DEF LoopOver
  <2> HIDE DEF s
  <2> QED BY <1>2, <2>1, <2>2 DEF Advances
<1>5. ASSUME Keeps(o, p, x, K) PROVE Advances(o) /\ ses'[o].pc = p
                                     /\ ses'[o].at = x /\ ses'[o].kept = K
  <2> DEFINE s == [ses[o] EXCEPT !.pc = p, !.at = x, !.kept = K]
  <2>1. s.pc = p /\ s.at = x /\ s.kept = K /\ s.call = ses[o].call /\ s.before = ses[o].before
    BY <1>1 DEF Session
  <2>2. ses' = [ses EXCEPT ![o] = s]
    BY <1>5 DEF Keeps
  <2> HIDE DEF s
  <2> QED BY <1>2, <2>1, <2>2 DEF Advances
<1>6. ASSUME Reads(o, p, x) PROVE Advances(o) /\ ses'[o].pc = p
  <2> DEFINE s == [ses[o] EXCEPT !.pc = p, !.at = x, !.row = rows[x]]
  <2>1. s.pc = p /\ s.call = ses[o].call /\ s.before = ses[o].before
    BY <1>1 DEF Session
  <2>2. ses' = [ses EXCEPT ![o] = s]
    BY <1>6 DEF Reads
  <2> HIDE DEF s
  <2> QED BY <1>2, <2>1, <2>2 DEF Advances
<1> QED BY <1>3, <1>4, <1>5, <1>6

\* An operation that ends is on its own no longer.
LEMMA EndsLeft == ASSUME IInv, NEW o \in Operator, Ends(o) PROVE ~ses'[o].alone
BY Types DEF Ends, Idle

\* The parts of Left that no step of the operation itself disturbs.
LEMMA LeftBasics ==
  ASSUME NEW o \in Operator, Left(o), Advances(o)
  PROVE  /\ \A p \in Operator \ {o} : ~Busy(p)'
         /\ Me(o)' = Me(o)
         /\ \A d \in Doctype : \A e \in ses'[o].before[d] : e.app \notin {None, Me(o)'}
BY DEF Left, Advances, Busy, Me

\* A step that leaves the records alone.
LEMMA ElsewhereLeft ==
  ASSUME NEW o \in Operator, Left(o), Advances(o), UNCHANGED doctypes,
         ses'[o].pc \notin {"put", "back", "orphan", "unregister"},
         ses[o].pc = "back" => ses[o].before[ses[o].at] \subseteq Entries(ses[o].at),
         ses[o].pc \in Removing <=> ses'[o].pc \in Removing,
         ses[o].pc \in {"drop", "dropflows", "orphan", "unregister"} => ses'[o].pc \in {"drop", "dropflows"}
  PROVE  Left(o)'
<1>1. ses'[o].call = ses[o].call /\ ses'[o].before = ses[o].before
  BY DEF Advances
<1>2. \A d \in Doctype : Entries(d)' = Entries(d)
  BY DEF Entries
<1>3. \A d \in Doctype : \/ ses'[o].before[d] \subseteq Entries(d)'
                         \/ ses'[o].pc \in Removing /\ doctypes'[d] = None
  BY <1>1, <1>2 DEF Left
<1>4. ses'[o].call.kind = "uninstall" => ses'[o].pc \in {"drop", "dropflows", "orphan", "unregister"}
  BY <1>1 DEF Left
<1> QED BY <1>3, <1>4, LeftBasics DEF Left

\* One record is given other entries.
LEMMA EntriesPut ==
  ASSUME IInv, NEW d \in Doctype, doctypes[d] # None, NEW E \in SUBSET Entry,
         doctypes' = [doctypes EXCEPT ![d].entries = E]
  PROVE  /\ \A x \in Doctype \ {d} : Entries(x)' = Entries(x)
         /\ Entries(d)' = E
         /\ \A x \in Doctype : doctypes'[x] = None <=> doctypes[x] = None
         /\ \A x \in Doctype : doctypes[x] # None => doctypes'[x].app = doctypes[x].app
<1>1. PICK r \in Record : r = doctypes[d]
  BY EntryTypes, Types
<1> DEFINE s == [r EXCEPT !.entries = E]
<1>2. s \in Record /\ s.entries = E /\ s.app = r.app
  BY <1>1 DEF Record
<1>3. s # None
  BY <1>2, AppsAssumption
<1>4. doctypes' = [doctypes EXCEPT ![d] = s]
  BY <1>1
<1> HIDE DEF s
<1>5. \A x \in Doctype : doctypes'[x] = IF x = d THEN s ELSE doctypes[x]
  BY <1>4, Types DEF MetaOK
<1> QED BY <1>1, <1>2, <1>3, <1>5 DEF Entries

\* The steps of an operation that leave the records alone.
LEMMA PlainLeft ==
  ASSUME IInv, NEW o \in Operator, Left(o),
         \/ Plan(o) \/ ApplySchema(o)
         \/ DoctypeDone(o, "back", "attach") \/ DoctypeDone(o, "add", "extend")
         \/ AttachedAll(o) \/ CheckExtension(o) \/ SyncExtensions(o)
         \/ PutFlow(o) \/ FlowsDone(o)
         \/ ReadFixture(o) \/ Claim(o) \/ Upsert(o) \/ ClearFields(o) \/ Reread(o)
         \/ RecordShipped(o) \/ Shipped(o) \/ Retire(o) \/ Register(o)
         \/ DroppedAll(o) \/ DropFlow(o) \/ Unregister(o) \/ SetEnabled(o)
  PROVE  ses'[o].alone => Left(o)'
<1>1. CASE Ends(o)
  BY <1>1, EndsLeft
<1>2. UNCHANGED doctypes
  BY DEF Plan, ApplySchema, DoctypeDone, AttachedAll, CheckExtension, SyncExtensions, PutFlow,
         FlowsDone, ReadFixture, Claim, Upsert, ClearFields, Reread, RecordShipped, Shipped, Retire,
         Register, DroppedAll, DropFlow, Unregister, SetEnabled, meta
<1> USE DEF Removing
<1>3. ASSUME NEW p, NEW S, LoopOver(o, p, S),
             \/ ses[o].pc = "schema" /\ p = "attach"
             \/ ses[o].pc = "back" /\ ses[o].kept = {} /\ p = "attach"
             \/ ses[o].pc \in {"add", "attach"} /\ p = "extend"
             \/ ses[o].pc \in {"extend", "flows"} /\ p = "flows"
             \/ ses[o].pc \in {"flows", "record"} /\ p = "ship"
             \/ ses[o].pc \in {"ship", "retire"} /\ p = "retire"
             \/ ses[o].pc \in {"drop", "dropflows"} /\ p = "dropflows"
      PROVE  Left(o)'
  <2>1. Advances(o) /\ ses'[o].pc = p
    BY <1>3, HowItAdvances
  <2>2. ses[o].pc = "back" => ses[o].before[ses[o].at] \subseteq Entries(ses[o].at)
    BY <1>3 DEF Left
  <2> QED BY <1>2, <1>3, <2>1, <2>2, ElsewhereLeft
<1>4. ASSUME NEW p, Goto(o, p) \/ (\E k : Reads(o, p, k)) \/ (\E d, K : Keeps(o, p, d, K)),
             p \in {"schema", "strip", "claim", "upsert", "clear", "reread", "record"},
             ses[o].pc \in {"plan", "extend", "ship", "claim", "upsert", "clear", "reread"}
      PROVE  Left(o)'
  <2>1. Advances(o) /\ ses'[o].pc = p
    BY <1>4, HowItAdvances
  <2> QED BY <1>2, <1>4, <2>1, ElsewhereLeft
<1>5. CASE \/ Plan(o) \/ ApplySchema(o) \/ DoctypeDone(o, "back", "attach")
           \/ DoctypeDone(o, "add", "extend") \/ AttachedAll(o) \/ CheckExtension(o) \/ SyncExtensions(o)
  BY <1>1, <1>3, <1>4, <1>5 DEF Plan, ApplySchema, DoctypeDone, AttachedAll, CheckExtension,
     SyncExtensions, At, Done, Next1
<1>6. CASE PutFlow(o) \/ FlowsDone(o) \/ ReadFixture(o) \/ Claim(o) \/ Upsert(o) \/ ClearFields(o)
  BY <1>1, <1>3, <1>4, <1>6 DEF PutFlow, FlowsDone, ReadFixture, Claim, Upsert, ClearFields, At,
     Done, Next1
<1>7. CASE \/ Reread(o) \/ RecordShipped(o) \/ Shipped(o) \/ Retire(o) \/ Register(o)
           \/ DroppedAll(o) \/ DropFlow(o) \/ Unregister(o) \/ SetEnabled(o)
  BY <1>1, <1>3, <1>4, <1>7 DEF Reread, RecordShipped, Shipped, Retire, Register, DroppedAll,
     DropFlow, Unregister, SetEnabled, At, Done, Next1
<1> QED BY <1>5, <1>6, <1>7

\* attach_metadata: what other apps have in the record is in hand before it is replaced.
LEMMA AttachLeft ==
  ASSUME IInv, NEW o \in Operator, Left(o), ReadPrior(o) \/ PutDoctype(o) \/ PutBack(o)
  PROVE  Left(o)'
<1> USE DEF Removing
<1>1. CASE ReadPrior(o)
  <2>1. PICK d \in ses[o].left : Keeps(o, "put", d, Foreign(Entries(d), Me(o)))
    BY <1>1 DEF ReadPrior
  <2>2. /\ Advances(o) /\ ses'[o].pc = "put" /\ ses'[o].at = d
        /\ ses'[o].kept = Foreign(Entries(d), Me(o))
    BY <2>1, HowItAdvances
  <2>3. ses[o].pc = "attach" /\ UNCHANGED doctypes /\ d \in Doctype
    BY <1>1, InHand DEF ReadPrior, Next1, At, meta, Underway, OverDoctypes
  <2>4. ses[o].before[d] \subseteq Entries(d) /\ Entries(d) \subseteq Entry
    BY <2>3, Types, EntryTypes DEF Left
  <2>5. ASSUME NEW e \in ses[o].before[d] PROVE e \in Foreign(Entries(d), Me(o))
    <3>1. e \in Entries(d) /\ e \in Entry /\ e.app \notin {None, Me(o)}
      BY <2>3, <2>4, <2>5 DEF Left
    <3>2. e.what \in {"field", "hook"}
      BY <3>1 DEF Entry
    <3> QED BY <3>1, <3>2 DEF Foreign, ForeignFields, ForeignHooks
  <2>6. \A x \in Doctype : Entries(x)' = Entries(x)
    BY <2>3 DEF Entries
  <2> QED BY <2>2, <2>3, <2>5, <2>6, LeftBasics DEF Left, Advances
<1>2. CASE PutDoctype(o)
  <2> DEFINE d == ses[o].at
             new == [app |-> Me(o), entries |-> Own(New(o), d), client |-> d \in New(o).clients]
  <2>1. /\ doctypes' = [doctypes EXCEPT ![d] = new] /\ Goto(o, "back") /\ ses[o].pc = "put"
    BY <1>2 DEF PutDoctype, At
  <2>2. /\ Advances(o) /\ ses'[o].pc = "back" /\ ses'[o].at = d /\ ses'[o].kept = ses[o].kept
    BY <2>1, HowItAdvances
  <2>3. d \in Doctype
    BY <2>1, InHand DEF Underway
  <2>4. new # None
    <3>1. new \in Record
      <4>1. New(o) \in Bundle /\ Me(o) \in App
        BY <2>1, InHand
      <4>2. Own(New(o), d) \in SUBSET Entry
        BY <2>3, <4>1, Types, EntryTypes
      <4>3. (d \in New(o).clients) \in BOOLEAN
        OBVIOUS
      <4> QED BY <4>1, <4>2, <4>3 DEF Record
    <3> QED BY <3>1, AppsAssumption
  <2> HIDE DEF d, new
  <2>5. \A x \in Doctype : doctypes'[x] = IF x = d THEN new ELSE doctypes[x]
    BY <2>1, Types DEF MetaOK
  <2>6. \A x \in Doctype \ {d} : Entries(x)' = Entries(x)
    BY <2>5 DEF Entries
  <2>7. ses[o].before[d] \subseteq ses[o].kept
    BY <2>1 DEF Left, d
  <2> QED BY <2>1, <2>2, <2>3, <2>4, <2>5, <2>6, <2>7, LeftBasics DEF Left, Advances, d
<1>3. CASE PutBack(o)
  <2>1. PICK e \in ses[o].kept : Append1(o, e)
    BY <1>3 DEF PutBack
  <2>0. ses[o].pc = "back" /\ ses[o].at \in Doctype
    BY <1>3, InHand DEF PutBack, At, Underway
  <2>d. PICK d \in Doctype : d = ses[o].at
    BY <2>0
  <2>2. doctypes[d] # None
    BY <2>0, <2>d DEF Left
  <2>3. /\ doctypes' = [doctypes EXCEPT ![d].entries = @ \cup {e}]
        /\ Keeps(o, "back", d, ses[o].kept \ {e})
    BY <2>0, <2>d, <2>1, <2>2 DEF Append1
  <2>7. doctypes' = [doctypes EXCEPT ![d].entries = Entries(d) \cup {e}]
    BY <2>2, <2>3 DEF Entries
  <2>8. Entries(d) \cup {e} \in SUBSET Entry
    BY <2>1, InHand, Types, EntryTypes DEF Session
  <2>4. /\ Advances(o) /\ ses'[o].pc = "back" /\ ses'[o].at = d /\ ses'[o].kept = ses[o].kept \ {e}
    BY <2>3, HowItAdvances
  <2>5. /\ \A x \in Doctype \ {d} : Entries(x)' = Entries(x)
        /\ Entries(d)' = Entries(d) \cup {e} /\ doctypes'[d] # None
        /\ \A x \in Doctype : doctypes'[x] = None <=> doctypes[x] = None
    BY <2>2, <2>7, <2>8, EntriesPut
  <2>6. ses[o].before[d] \subseteq ses[o].kept \cup Entries(d)
    BY <2>0, <2>d DEF Left
  <2> QED BY <2>0, <2>d, <2>2, <2>4, <2>5, <2>6, LeftBasics DEF Left, Advances
<1> QED BY <1>1, <1>2, <1>3

\* attach_extensions: only this app's entries are taken out and put in.
LEMMA ExtendLeft ==
  ASSUME IInv, NEW o \in Operator, Left(o), StripOwn(o) \/ AddExtension(o)
  PROVE  Left(o)'
<1> USE DEF Removing
<1>1. ses[o].pc \in {"strip", "add"} /\ ses[o].at \in Doctype
  BY InHand DEF StripOwn, AddExtension, At, Underway
<1>2. PICK d \in Doctype : d = ses[o].at
  BY <1>1
<1>3. Advances(o) /\ ses'[o].pc = "add"
  <2>1. CASE StripOwn(o)
    <3>1. Keeps(o, "add", d, Added(New(o), d))
      BY <1>2, <2>1 DEF StripOwn
    <3> QED BY <3>1, HowItAdvances
  <2>2. CASE AddExtension(o)
    <3>1. PICK e \in ses[o].kept : Append1(o, e)
      BY <2>2 DEF AddExtension
    <3>2. Keeps(o, "add", d, ses[o].kept \ {e})
      BY <1>2, <2>2, <3>1 DEF AddExtension, At, Append1
    <3> QED BY <3>2, HowItAdvances
  <2> QED BY <2>1, <2>2
<1>4. CASE UNCHANGED doctypes
  BY <1>1, <1>3, <1>4, ElsewhereLeft
<1>5. ASSUME NEW E \in SUBSET Entry, doctypes[d] # None,
             doctypes' = [doctypes EXCEPT ![d].entries = E],
             \A e \in Entries(d) : e.app # Me(o) => e \in E
      PROVE  Left(o)'
  <2>1. \A x \in Doctype : ses[o].before[x] \subseteq Entries(x)
    BY <1>1 DEF Left
  <2>2. \A x \in Doctype : ses[o].before[x] \subseteq Entries(x)'
    <3>1. /\ \A x \in Doctype \ {d} : Entries(x)' = Entries(x)
          /\ Entries(d)' = E
      BY <1>5, EntriesPut
    <3>2. ses[o].before[d] \subseteq E
      BY <1>5, <2>1 DEF Left
    <3> QED BY <2>1, <3>1, <3>2
  <2> QED BY <1>1, <1>3, <2>2, LeftBasics DEF Left, Advances
<1>6. CASE StripOwn(o)
  <2>1. CASE doctypes[d] # None
    <3>1. doctypes' = [doctypes EXCEPT ![d].entries = Stripped(Entries(d), Me(o))]
      BY <1>2, <1>6, <2>1 DEF StripOwn, Entries
    <3>2. Stripped(Entries(d), Me(o)) \in SUBSET Entry
      BY Types, EntryTypes DEF Stripped
    <3> QED BY <1>5, <2>1, <3>1, <3>2 DEF Stripped
  <2> QED BY <1>2, <1>4, <1>6, <2>1 DEF StripOwn
<1>7. CASE AddExtension(o)
  <2>1. PICK e \in ses[o].kept : Append1(o, e)
    BY <1>7 DEF AddExtension
  <2>2. CASE doctypes[d] # None
    <3>1. doctypes' = [doctypes EXCEPT ![d].entries = Entries(d) \cup {e}]
      BY <1>2, <2>1, <2>2 DEF Append1, Entries
    <3>2. Entries(d) \cup {e} \in SUBSET Entry
      BY <2>1, InHand, Types, EntryTypes DEF Session
    <3> QED BY <1>5, <2>2, <3>1, <3>2
  <2> QED BY <1>2, <1>4, <2>1, <2>2 DEF Append1
<1> QED BY <1>6, <1>7

\* uninstall_app, set_app_enabled.
LEMMA RemovalLeft ==
  ASSUME IInv, NEW o \in Operator, Left(o),
         DropDoctype(o) \/ Detach(o) \/ OrphanAll(o) \/ Toggle(o)
  PROVE  Left(o)'
<1> USE DEF Removing
<1>1. \A x \in Doctype : doctypes[x] = None \/ ses[o].before[x] \subseteq Entries(x)
  BY DEF Left, DropDoctype, Detach, OrphanAll, Toggle, Next1, Done, At
<1>2. CASE DropDoctype(o)
  <2>1. PICK d \in ses[o].left :
          doctypes' = [doctypes EXCEPT ![d] = None] /\ LoopOver(o, "drop", ses[o].left \ {d})
    BY <1>2 DEF DropDoctype
  <2>2. ses[o].pc = "drop" /\ Advances(o) /\ ses'[o].pc = "drop"
    BY <1>2, <2>1, HowItAdvances DEF DropDoctype, Next1, At
  <2>3. \A x \in Doctype : doctypes'[x] = doctypes[x] \/ doctypes'[x] = None
    BY <2>1, Types DEF MetaOK
  <2>4. \A x \in Doctype : doctypes'[x] = None \/ ses[o].before[x] \subseteq Entries(x)'
    BY <1>1, <2>3 DEF Entries
  <2> QED BY <2>2, <2>4, LeftBasics DEF Left, Advances
<1>3. CASE Detach(o)
  <2>1. ses[o].pc = "dropflows" /\ Advances(o) /\ ses'[o].pc = "orphan"
    BY <1>3, HowItAdvances DEF Detach, Done, At
  <2>2. doctypes' = Detached(Me(o))
    BY <1>3 DEF Detach
  <2>3. ASSUME NEW x \in Doctype, doctypes'[x] # None
        PROVE  /\ ses[o].before[x] \subseteq Entries(x)'
               /\ doctypes'[x].app # Me(o) => \A e \in Entries(x)' : e.app # Me(o)
    <3>1. doctypes[x] # None
      BY <2>2, <2>3 DEF Detached
    <3>2. PICK r \in Record : r = doctypes[x]
      BY <3>1, EntryTypes, Types
    <3>3. ses[o].before[x] \subseteq r.entries
      BY <1>1, <3>1, <3>2 DEF Entries
    <3>4. CASE r.app = Me(o)
      <4>1. doctypes'[x] = r
        BY <2>2, <3>2, <3>4 DEF Detached
      <4> QED BY <2>3, <3>3, <3>4, <4>1 DEF Entries
    <3>5. CASE r.app # Me(o)
      <4>1. doctypes'[x] = [r EXCEPT !.entries = Stripped(@, Me(o))]
        BY <2>2, <3>1, <3>2, <3>5 DEF Detached
      <4>2. Entries(x)' = Stripped(r.entries, Me(o))
        BY <2>3, <4>1 DEF Entries, Record
      <4>3. \A e \in ses[o].before[x] : e.app # Me(o)
        BY DEF Left
      <4> QED BY <3>3, <4>2, <4>3 DEF Stripped
    <3> QED BY <3>4, <3>5
  <2> QED BY <2>1, <2>3, LeftBasics DEF Left, Advances
<1>4. CASE OrphanAll(o)
  <2>1. ses[o].pc = "orphan" /\ Advances(o) /\ ses'[o].pc = "unregister" /\ UNCHANGED doctypes
    BY <1>4, HowItAdvances DEF OrphanAll, At, meta
  <2>2. \A x \in Doctype : Entries(x)' = Entries(x)
    BY <2>1 DEF Entries
  <2>3. \A x \in Doctype : doctypes'[x] # None /\ doctypes'[x].app # Me(o) =>
          \A e \in Entries(x)' : e.app # Me(o)
    BY <2>1, <2>2 DEF Left
  <2> QED BY <1>1, <2>1, <2>2, <2>3, LeftBasics DEF Left, Advances
<1>5. CASE Toggle(o)
  <2>1. PICK d \in ses[o].left :
          /\ doctypes' = IF doctypes[d] = None \/ (Enables(o) /\ d \notin ses[o].had.clients)
                           THEN doctypes
                           ELSE [doctypes EXCEPT ![d].client = Enables(o)]
          /\ LoopOver(o, "toggle", ses[o].left \ {d})
    BY <1>5 DEF Toggle
  <2>2. ses[o].pc = "toggle" /\ Advances(o) /\ ses'[o].pc = "toggle" /\ d \in Doctype
    BY <1>5, <2>1, HowItAdvances, InHand DEF Toggle, Next1, At, Underway
  <2>3. \A x \in Doctype : /\ doctypes'[x] = None <=> doctypes[x] = None
                           /\ doctypes[x] # None => Entries(x)' = Entries(x)
    <3>1. PICK c \in BOOLEAN :
            \/ UNCHANGED doctypes
            \/ doctypes[d] # None /\ doctypes' = [doctypes EXCEPT ![d].client = c]
      BY <2>1 DEF Enables
    <3>2. CASE doctypes[d] # None /\ doctypes' = [doctypes EXCEPT ![d].client = c]
      <4>1. PICK r \in Record : r = doctypes[d]
        BY <2>2, <3>2, EntryTypes, Types
      <4> DEFINE s == [r EXCEPT !.client = c]
      <4>2. s \in Record /\ s.entries = r.entries
        BY <4>1 DEF Record
      <4>3. s # None
        BY <4>2, AppsAssumption
      <4>4. doctypes' = [doctypes EXCEPT ![d] = s]
        BY <3>2, <4>1
      <4> HIDE DEF s
      <4>5. \A x \in Doctype : doctypes'[x] = IF x = d THEN s ELSE doctypes[x]
        BY <4>4, Types DEF MetaOK
      <4> QED BY <3>2, <4>1, <4>2, <4>3, <4>5 DEF Entries
    <3> QED BY <3>1, <3>2 DEF Entries
  <2> QED BY <1>1, <2>2, <2>3, LeftBasics DEF Left, Advances
<1> QED BY <1>2, <1>3, <1>4, <1>5

LEMMA RestLeft == ASSUME LeftInv, UNCHANGED <<ses, doctypes>> PROVE LeftInv'
BY DEF LeftInv, Left, Busy, Me, Entries

\* A call begins: on its own only if no other one is under way, and it finds what the
\* others have in the records.
LEMMA BeginLeft ==
  ASSUME IInv, LeftInv, NEW o \in Operator, Begin(o)
  PROVE  LeftInv'
<1>1. UNCHANGED doctypes
  BY DEF Begin, meta
<1>2. \A d \in Doctype : Entries(d)' = Entries(d)
  BY <1>1 DEF Entries
<1> DEFINE c == Head(work[o])
           r == registry[c.bundle.app]
           others == {p \in Operator \ {o} : Busy(p)}
<1>3. CASE UNCHANGED ses
  BY <1>1, <1>3, RestLeft
<1>4. CASE ~UNCHANGED ses
  <2> DEFINE s == [Idle EXCEPT !.pc = FirstStep(c.kind), !.call = c,
                     !.had = IF r = None THEN None ELSE r.bundle,
                     !.left = IF c.kind \in {"install", "update"} THEN {} ELSE r.bundle.doctypes,
                     !.alone = others = {}, !.before = Others(c.bundle.app)]
  <2>1. ses' = [p \in Operator |-> IF p = o THEN s ELSE [ses[p] EXCEPT !.alone = FALSE]]
    BY <1>4 DEF Begin
  <2>2. /\ s.pc = FirstStep(c.kind) /\ s.call = c /\ s.alone = (others = {})
        /\ s.before = Others(c.bundle.app)
    BY DEF Idle
  <2>3. \A p \in Operator : ses[p] \in Session
    BY Types
  <2>4. FirstStep(c.kind) \in {"plan", "drop", "toggle"}
        /\ (c.kind = "uninstall" => FirstStep(c.kind) = "drop")
    BY DEF FirstStep
  <2> HIDE DEF s
  <2>5. ses'[o] = s /\ \A p \in Operator \ {o} : ses'[p].pc = ses[p].pc /\ ~ses'[p].alone
    BY <2>1, <2>3 DEF Session
  <2>6. \A d \in Doctype : /\ Others(c.bundle.app)[d] \subseteq Entries(d)
                           /\ \A e \in Others(c.bundle.app)[d] : e.app \notin {None, c.bundle.app}
    BY DEF Others
  <2>7. Me(o)' = c.bundle.app
    BY <2>2, <2>5 DEF Me
  <2> HIDE DEF c
  <2>8. ASSUME others = {} PROVE Left(o)'
    <3>1. \A p \in Operator \ {o} : ~Busy(p)'
      BY <2>5, <2>8 DEF Busy
    <3> QED BY <1>2, <2>2, <2>4, <2>5, <2>6, <2>7, <3>1 DEF Left
  <2> QED BY <2>2, <2>5, <2>8 DEF LeftInv
<1> QED BY <1>3, <1>4

\* A call that begins moves no other operation.
LEMMA BeginStops ==
  ASSUME IInv, NEW p \in Operator, Begin(p), NEW o \in Operator, o # p
  PROVE  ses'[o].pc = ses[o].pc
<1>1. ses[o] \in Session
  BY Types
<1>2. CASE UNCHANGED ses
  BY <1>2
<1>3. CASE ~UNCHANGED ses
  <2>1. ses'[o] = [ses[o] EXCEPT !.alone = FALSE]
    BY <1>3 DEF Begin
  <2> QED BY <1>1, <2>1 DEF Session
<1> QED BY <1>2, <1>3

\* Any other step is one of an operation under way, and changes no other session.
LEMMA OneAdvances ==
  ASSUME IInv, NEW o \in Operator, Step(o), ~Begin(o)
  PROVE  /\ Busy(o) /\ \A p \in Operator \ {o} : ses'[p] = ses[p]
         /\ ses'[o].alone => ses[o].alone
<1>1. ASSUME \/ \E p : Goto(o, p)
             \/ \E p, S : LoopOver(o, p, S) \/ Reads(o, p, S)
             \/ \E p, d, K : Keeps(o, p, d, K)
             \/ Ends(o)
      PROVE  /\ \A p \in Operator \ {o} : ses'[p] = ses[p]
             /\ ses'[o].alone => ses[o].alone
  <2>1. ses \in [Operator -> Session] /\ ses[o] \in Session
    BY Types
  <2>2. \A p \in Operator \ {o} : ses'[p] = ses[p]
    BY <1>1, <2>1 DEF Goto, LoopOver, Reads, Keeps, Ends
  <2>3. Ends(o) => ~ses'[o].alone
    BY EndsLeft
  <2>4. ~Ends(o) => ses'[o].alone = ses[o].alone
    <3>1. ASSUME NEW p PROVE Goto(o, p) => ses'[o].alone = ses[o].alone
      BY <2>1 DEF Goto, Session
    <3>2. ASSUME NEW p, NEW S PROVE LoopOver(o, p, S) => ses'[o].alone = ses[o].alone
      BY <2>1 DEF LoopOver, Session
    <3>3. ASSUME NEW p, NEW S PROVE Reads(o, p, S) => ses'[o].alone = ses[o].alone
      BY <2>1 DEF Reads, Session
    <3>4. ASSUME NEW p, NEW d, NEW K PROVE Keeps(o, p, d, K) => ses'[o].alone = ses[o].alone
      BY <2>1 DEF Keeps, Session
    <3> QED BY <1>1, <3>1, <3>2, <3>3, <3>4
  <2> QED BY <2>2, <2>3, <2>4
<1>2. CASE Plan(o) \/ ApplySchema(o) \/ ReadPrior(o) \/ PutDoctype(o) \/ AttachedAll(o)
           \/ CheckExtension(o) \/ StripOwn(o) \/ SyncExtensions(o)
  BY <1>1, <1>2 DEF Plan, ApplySchema, ReadPrior, PutDoctype, AttachedAll, CheckExtension,
     StripOwn, SyncExtensions, At, Next1, Done, Busy
<1>3. CASE PutBack(o) \/ AddExtension(o) \/ DoctypeDone(o, "back", "attach")
           \/ DoctypeDone(o, "add", "extend") \/ PutFlow(o) \/ FlowsDone(o)
  BY <1>1, <1>3 DEF PutBack, AddExtension, Append1, DoctypeDone, PutFlow, FlowsDone, At, Next1, Done,
     Busy
<1>4. CASE ReadFixture(o) \/ Claim(o) \/ Upsert(o) \/ ClearFields(o) \/ Reread(o)
           \/ RecordShipped(o) \/ Shipped(o) \/ Retire(o) \/ Register(o)
  BY <1>1, <1>4 DEF ReadFixture, Claim, Upsert, ClearFields, Reread, RecordShipped, Shipped, Retire,
     Register, At, Next1, Done, Busy
<1>5. CASE DropDoctype(o) \/ DroppedAll(o) \/ DropFlow(o) \/ Detach(o) \/ OrphanAll(o)
           \/ Unregister(o) \/ Toggle(o) \/ SetEnabled(o)
  BY <1>1, <1>5 DEF DropDoctype, DroppedAll, DropFlow, Detach, OrphanAll, Unregister, Toggle,
     SetEnabled, At, Next1, Done, Busy
<1> QED BY <1>2, <1>3, <1>4, <1>5 DEF Step

LEMMA LeftStep == ASSUME IInv, LeftInv, [Next]_vars PROVE LeftInv'
<1>1. ASSUME NEW o \in Operator, Step(o) PROVE LeftInv'
  <2>1. CASE Begin(o)
    BY <2>1, BeginLeft
  <2>2. CASE ~Begin(o)
    <3>1. Busy(o) /\ \A p \in Operator \ {o} : ses'[p] = ses[p]
      BY <1>1, <2>2, OneAdvances
    <3>2. \A p \in Operator \ {o} : ~ses'[p].alone
      BY <3>1 DEF LeftInv, Left
    <3>3. CASE ses[o].alone
      <4>1. Left(o)
        BY <3>3 DEF LeftInv
      <4>2. ses'[o].alone => Left(o)'
        BY <1>1, <2>2, <4>1, PlainLeft, AttachLeft, ExtendLeft, RemovalLeft DEF Step
      <4> QED BY <3>2, <4>2 DEF LeftInv
    <3>4. CASE ~ses[o].alone
      <4>1. ~ses'[o].alone
        BY <1>1, <2>2, <3>4, OneAdvances
      <4> QED BY <3>2, <4>1 DEF LeftInv
    <3> QED BY <3>3, <3>4
  <2> QED BY <2>1, <2>2
<1>2. ASSUME NEW O \in SUBSET Operator, BreakOff(O) PROVE LeftInv'
  <2>1. /\ \A p \in Operator : ses'[p] = IF p \in O THEN Idle ELSE ses[p]
        /\ UNCHANGED doctypes
    BY <1>2 DEF BreakOff, meta
  <2>2. ~Idle.alone /\ Idle.pc = "idle"
    BY DEF Idle
  <2>3. ASSUME NEW p \in Operator, ses'[p].alone PROVE Left(p)'
    <3>1. p \notin O /\ ses'[p] = ses[p] /\ Left(p)
      BY <2>1, <2>2, <2>3 DEF LeftInv
    <3>2. \A q \in Operator \ {p} : ~Busy(q)'
      BY <2>1, <2>2, <3>1 DEF Left, Busy
    <3>3. UNCHANGED doctypes /\ ses'[p] = ses[p] /\ Left(p)
      BY <2>1, <3>1
    <3>4. Me(p)' = Me(p)
      BY <3>3 DEF Me
    <3> QED BY <3>2, <3>3, <3>4 DEF Left, Entries
  <2> QED BY <2>3 DEF LeftInv
<1>3. CASE UNCHANGED <<ses, doctypes>>
  BY <1>3, RestLeft
<1> QED BY <1>1, <1>2, <1>3 DEF Next, EditRow, meta, vars

THEOREM OthersInvariant == Spec => [](IInv /\ LeftInv)
<1>1. Init => IInv /\ LeftInv
  <2>1. Init => LeftInv
    BY DEF Init, Idle, LeftInv
  <2> QED BY <2>1, InitHolds
<1>2. (IInv /\ LeftInv) /\ [Next]_vars => (IInv /\ LeftInv)'
  BY NextKeeps, LeftStep
<1> QED BY <1>1, <1>2, PTL DEF Spec

\* attach_metadata, attach_extensions, detach_extensions: an operation that no other one
\* overlaps leaves what the other apps added to the DocTypes there are, and an uninstall
\* nothing of its own app in them, for any bundles, records and history before it.
THEOREM OthersAreKept == Spec => OthersKept
<1>1. ASSUME IInv, LeftInv, Next, NEW o \in Operator, Completes(o), ses[o].alone,
             NEW d \in Doctype, doctypes'[d] # None
      PROVE  /\ ses[o].before[d] \subseteq Entries(d)'
             /\ ses[o].call.kind = "uninstall" /\ doctypes'[d].app # Me(o) =>
                  \A e \in Entries(d)' : e.app # Me(o)
  <2>1. /\ Left(o) /\ ses'[o] # ses[o] /\ faults' = faults /\ ses'[o].pc = "idle"
        /\ ses[o].pc \in {"retire", "unregister", "toggle"}
    BY <1>1 DEF LeftInv, Completes, Steps, Idle
  <2>2. Step(o) /\ ~Begin(o)
    <3>1. ASSUME NEW O \in SUBSET Operator, BreakOff(O) PROVE FALSE
      BY <2>1, <3>1, Types DEF BreakOff, MetaOK
    <3>2. ASSUME NEW k \in Key, EditRow(k) PROVE FALSE
      BY <2>1, <3>2 DEF EditRow
    <3>3. ASSUME NEW p \in Operator, Step(p), p # o PROVE FALSE
      <4>1. Begin(p)
        BY <1>1, <2>1, <3>3, OneAdvances DEF Left
      <4>2. ses'[o].pc = ses[o].pc
        BY <1>1, <3>3, <4>1, BeginStops
      <4> QED BY <2>1, <4>2
    <3> QED BY <1>1, <2>1, <3>1, <3>2, <3>3 DEF Next, Begin, Busy
  <2>3. UNCHANGED doctypes
    <3>2. CASE Register(o) \/ Unregister(o) \/ SetEnabled(o)
      BY <3>2 DEF Register, Unregister, SetEnabled
    <3>3. CASE Retire(o) \/ Toggle(o)
      <4>1. PICK p, S : LoopOver(o, p, S) /\ p = ses[o].pc
        BY <3>3 DEF Retire, Toggle, Next1, At
      <4>2. ses'[o].pc = ses[o].pc
        BY <1>1, <4>1, HowItAdvances
      <4> QED BY <2>1, <4>2
    <3>4. \/ Register(o) \/ Unregister(o) \/ SetEnabled(o) \/ Retire(o) \/ Toggle(o)
          \/ DroppedAll(o) \/ DropFlow(o)
      <4>1. ~Plan(o) /\ ~ApplySchema(o) /\ ~ReadPrior(o) /\ ~PutDoctype(o) /\ ~PutBack(o)
            /\ ~DoctypeDone(o, "back", "attach") /\ ~AttachedAll(o) /\ ~CheckExtension(o)
            /\ ~StripOwn(o) /\ ~AddExtension(o) /\ ~DoctypeDone(o, "add", "extend")
        BY <2>1 DEF Plan, ApplySchema, ReadPrior, PutDoctype, PutBack, DoctypeDone, AttachedAll,
           CheckExtension, StripOwn, AddExtension, At, Next1, Done
      <4>2. ~SyncExtensions(o) /\ ~PutFlow(o) /\ ~FlowsDone(o) /\ ~ReadFixture(o) /\ ~Claim(o)
            /\ ~Upsert(o) /\ ~ClearFields(o) /\ ~Reread(o) /\ ~RecordShipped(o) /\ ~Shipped(o)
            /\ ~DropDoctype(o) /\ ~Detach(o) /\ ~OrphanAll(o)
        BY <2>1 DEF SyncExtensions, PutFlow, FlowsDone, ReadFixture, Claim, Upsert, ClearFields,
           Reread, RecordShipped, Shipped, DropDoctype, Detach, OrphanAll, At, Next1, Done
      <4> QED BY <2>2, <4>1, <4>2 DEF Step
    <3>5. ~DroppedAll(o) /\ ~DropFlow(o)
      BY <2>1 DEF DroppedAll, DropFlow, At, Next1, Done
    <3> QED BY <3>2, <3>3, <3>4, <3>5
  <2>4. Entries(d)' = Entries(d)
    BY <2>3 DEF Entries
  <2> QED BY <1>1, <2>1, <2>3, <2>4 DEF Left, Removing
<1>2. IInv /\ LeftInv /\ [Next]_vars =>
        [\A o \in Operator : Completes(o) /\ ses[o].alone =>
           \A d \in Doctype : doctypes'[d] # None =>
             /\ ses[o].before[d] \subseteq Entries(d)'
             /\ ses[o].call.kind = "uninstall" /\ doctypes'[d].app # Me(o) =>
                  \A e \in Entries(d)' : e.app # Me(o)]_vars
  BY <1>1
<1> QED BY <1>2, OthersInvariant, PTL DEF Spec, OthersKept
=============================================================================
