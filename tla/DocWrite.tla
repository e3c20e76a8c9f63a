------------------------------ MODULE DocWrite ------------------------------
(***************************************************************************)
(* The write path of one submittable DocType with a workflow (broker.rs,   *)
(* workflow.rs) and what the database enforces for it (sync.rs): requests  *)
(* read a baseline, run the scripts on it, send one statement, and then    *)
(* tell of what the write did.  The reads and the statement of a request   *)
(* are the database's own steps, those of others come in between.          *)
(*                                                                         *)
(* A document has a column x, its workflow state and its docstatus.  What  *)
(* a caller, a script or a statement writes is a record of some of these   *)
(* columns: no check keeps a plain write or a script from naming any of    *)
(* them.  A request that is refused changes nothing and is answered: such  *)
(* ends are left out where no step was taken before.                       *)
(***************************************************************************)
EXTENDS Naturals, FiniteSets

CONSTANTS Doc, User, Request,
          Managers,      \* the users whose role is manager
          NoDoc,         \* not created yet
          Gone,          \* deleted
          Nobody,        \* the owner of a document that is not there
          Value,
          State,         \* the states a workflow declares
          Blank,         \* the workflow_state of a document that has not entered it
          Initial,       \* the first state
          StatusOf,      \* [State -> 0 .. 2]
          Transitions,   \* records from, to, byManager
          Given,         \* the payloads of plain writes
          Born,          \* the payloads of creates
          Scripts,       \* what a script may do to a document: columns it puts, and drops
          NoTransition

ASSUME DocWriteAssumption ==
  /\ Managers \subseteq User
  /\ Initial \in State /\ Blank \notin State
  /\ StatusOf \in [State -> 0 .. 2]
  /\ Transitions \subseteq [from : State, to : State, byManager : BOOLEAN]
  /\ NoTransition \notin Transitions
  /\ 0 \in Value

Content == [x : Value, state : State \cup {Blank}, docstatus : 0 .. 2]
Columns == {"x", "state", "docstatus"}
Default == [x |-> 0, state |-> Blank, docstatus |-> 0]

\* p where it is defined, q elsewhere.
Over(p, q) == [k \in DOMAIN p \cup DOMAIN q |-> IF k \in DOMAIN p THEN p[k] ELSE q[k]]

\* A record of some columns.
Part(p) == DOMAIN p \subseteq Columns /\ Over(p, Default) \in Content

ASSUME PayloadAssumption == \A p \in Given \cup Born : Part(p)
ASSUME ScriptAssumption == \A s \in Scripts : Part(s.puts) /\ s.drops \subseteq Columns
ASSUME AbsenceAssumption ==
  /\ NoDoc # Gone /\ {NoDoc, Gone} \cap Content = {}
  /\ Nobody \notin User

VARIABLES docs,     \* the table
          owner,    \* the owner column
          pc, call, plan,    \* of each request: where it stands, what it was asked, what it sends
          fires,    \* the docstatus edges it has to tell of
          past      \* of each document, what has happened to it: only properties read it

vars == <<docs, owner, pc, call, plan, fires, past>>

Nothing == [k \in {} |-> 0]
NoCall == [user |-> Nobody, doc |-> NoDoc, given |-> Nothing, took |-> NoTransition]
NoPlan == [delta |-> Nothing, before |-> 0, asked |-> {}, changed |-> {}]

Init ==
  /\ docs = [d \in Doc |-> NoDoc]
  /\ owner = [d \in Doc |-> Nobody]
  /\ pc = [r \in Request |-> "idle"]
  /\ call = [r \in Request |-> NoCall]
  /\ plan = [r \in Request |-> NoPlan]
  /\ fires = [r \in Request |-> {}]
  /\ past = [d \in Doc |->
       [asked |-> {}, put |-> {}, submits |-> 0, untold |-> FALSE, apart |-> FALSE]]

\* docstatus_of.
Status(part) == IF "docstatus" \in DOMAIN part THEN part.docstatus ELSE 0

\* The document a script hands back.
Ran(s, doc) == Over(s.puts, [k \in DOMAIN doc \ s.drops |-> doc[k]])

\* The columns in which it is not the document it was shown.
Changed(hook, out) ==
  {k \in DOMAIN hook \cup DOMAIN out : ~(k \in DOMAIN hook \cap DOMAIN out /\ out[k] = hook[k])}


-----------------------------------------------------------------------------
(* Mutated forms of definitions below; no action uses them.                 *)

KeptAll(out, hook, given) == DOMAIN out           \* the whole hook output is sent
EdgesOfLattice(base, hook) == {e \in {1, 2} : Status(base) = e - 1 /\ Status(hook) = e}
                                                  \* only the steps of the lattice are edges
MovesNever(before, after) == {}                   \* nothing is derived from what is stored

-----------------------------------------------------------------------------
(* What the database enforces.                                              *)

Exists(d) == docs[d] \notin {NoDoc, Gone}

\* FOR select: own rows, or a manager.
MaySelect(u, d) == u \in Managers \/ owner[d] = u

\* FOR update, judged on the row as it would be.
MayUpdate(u, d, after) == u \in Managers \/ (owner[d] = u /\ after.docstatus = 0)

\* docstatus_lattice, on an UPDATE: 0 -> 1 -> 2, and no edits at 2.
Lattice(before, after) ==
  /\ before # 2
  /\ ~(before = 1 /\ after = 0)
  /\ ~(before = 0 /\ after = 2)

-----------------------------------------------------------------------------
(* The scripts and what is sent.                                            *)

\* record_for_hook, under the caller's session.
Baseline(u, d) == IF Exists(d) /\ MaySelect(u, d) THEN docs[d] ELSE Nothing

\* on_submit and on_cancel run on an edge, and may refuse.
Edges(base, hook) == {e \in {1, 2} : Status(base) # e /\ Status(hook) = e}

\* Of an update's columns those are sent that the caller wrote or the script changed.
Kept(out, hook, given) == DOMAIN out \cap (DOMAIN given \cup Changed(hook, out))

PlannedDiff(base, given, script) ==    \* mutated: what differs from the baseline is sent
  LET hook == Over(given, base)
      out == Ran(script, hook)
      sent == {k \in DOMAIN out : k \notin DOMAIN base \/ out[k] # base[k]}
  IN  [delta |-> [k \in sent |-> out[k]], before |-> Status(base), asked |-> Edges(base, hook),
       changed |-> Changed(hook, out)]

\* The edges are judged on the document validate is shown, and validate may still change
\* any column of it.
Planned(base, given, script) ==
  LET hook == Over(given, base)
      out == Ran(script, hook)
  IN  [delta |-> [k \in Kept(out, hook, given) |-> out[k]],
       before |-> Status(base),
       asked |-> Edges(base, hook),
       changed |-> Changed(hook, out)]

\* The docstatus validate put there, after the edges were judged.
Put(p) == {p.delta[k] : k \in DOMAIN p.delta \cap p.changed \cap {"docstatus"}}

\* The docstatus edges of a write, from the baseline and the stored row.
Moves(before, after) == {e \in {1, 2} : before # e /\ after = e}

\* What a document remembers of a write.
Noted(h, p, apart) ==
  [h EXCEPT !.asked = @ \cup p.asked, !.put = @ \cup Put(p), !.apart = @ \/ apart]

-----------------------------------------------------------------------------
(* The requests.                                                            *)

GoTo(r, where) == pc' = [pc EXCEPT ![r] = where]

End(r) ==
  /\ pc' = [pc EXCEPT ![r] = "idle"]
  /\ call' = [call EXCEPT ![r] = NoCall]
  /\ plan' = [plan EXCEPT ![r] = NoPlan]
  /\ fires' = [fires EXCEPT ![r] = {}]

\* state_or_initial.
StateOf(row) == IF row.state = Blank THEN Initial ELSE row.state

\* judge: the state and the role of the transition.
Allowed(t, state, u) == t.from = state /\ (t.byManager <=> u \in Managers)

\* What a transition writes.
Proposed(t) == [state |-> t.to, docstatus |-> StatusOf[t.to]]

\* db_transition, up to the judgement: the state is read under the caller.
Judge(r, u, d, t) ==
  /\ pc[r] = "idle"
  /\ Exists(d) /\ MaySelect(u, d)
  /\ Allowed(t, StateOf(docs[d]), u)
  /\ call' = [call EXCEPT ![r] =
       [user |-> u, doc |-> d, given |-> Proposed(t), took |-> t]]
  /\ GoTo(r, "judged")
  /\ UNCHANGED <<docs, owner, plan, fires, past>>

\* db_write_inner up to the statement, when no script refuses.
Prepare(r, c) ==
  /\ call' = [call EXCEPT ![r] = c]
  /\ \E validate \in Scripts :
       plan' = [plan EXCEPT ![r] = Planned(Baseline(c.user, c.doc), c.given, validate)]
  /\ GoTo(r, "update")
  /\ UNCHANGED <<docs, owner, fires, past>>

Write(r, u, d, p) ==
  /\ pc[r] = "idle"
  /\ docs[d] # NoDoc
  /\ Prepare(r, [user |-> u, doc |-> d, given |-> p, took |-> NoTransition])

WriteJudged(r) == pc[r] = "judged" /\ Prepare(r, call[r])

\* A create has no baseline; the document gets a fresh id.  All of what before_insert
\* makes of the payload counts as given.
Create(r, u, p) ==
  /\ pc[r] = "idle"
  /\ \E d \in Doc, before_insert \in Scripts, validate \in Scripts :
       /\ docs[d] = NoDoc
       /\ LET sends == Planned(Nothing, Ran(before_insert, p), validate)
              row == Over(sends.delta, Default)
          IN  /\ docs' = [docs EXCEPT ![d] = row]
              /\ owner' = [owner EXCEPT ![d] = u]
              /\ fires' = [fires EXCEPT ![r] = Moves(0, row.docstatus)]
              /\ past' = [past EXCEPT ![d] =
                   Noted(@, sends, DOMAIN sends.delta \cap {"state", "docstatus"} # {})]
       /\ call' = [call EXCEPT ![r] = [user |-> u, doc |-> d, given |-> p, took |-> NoTransition]]
  /\ GoTo(r, "stored")
  /\ UNCHANGED plan

\* UPDATE .. MERGE, by the caller: a row is changed, or nothing is.
After(r) == Over(plan[r].delta, docs[call[r].doc])

Accepted(r) ==
  LET d == call[r].doc
  IN  /\ Exists(d)
      /\ MayUpdate(call[r].user, d, After(r))
      /\ Lattice(docs[d].docstatus, After(r).docstatus)

\* A write that moves state or docstatus is a transition's, as its script found it.
Together(r) ==
  IF call[r].took = NoTransition
  THEN \A k \in {"state", "docstatus"} : After(r)[k] = docs[call[r].doc][k]
  ELSE plan[r].changed \cap {"state", "docstatus"} = {}

Merge(r) ==
  LET d == call[r].doc
  IN  /\ pc[r] = "update" /\ Accepted(r)
      /\ docs' = [docs EXCEPT ![d] = After(r)]
      /\ fires' = [fires EXCEPT ![r] = Moves(plan[r].before, After(r).docstatus)]
      /\ past' = [past EXCEPT ![d] = Noted(@, plan[r], ~Together(r))]
      /\ plan' = [plan EXCEPT ![r] = NoPlan]
      /\ GoTo(r, "stored")
      /\ UNCHANGED <<owner, call>>

\* E_WRITE_NO_ROWS, or the code of the lattice.
Refused(r) ==
  /\ pc[r] = "update" /\ ~Accepted(r)
  /\ End(r)
  /\ UNCHANGED <<docs, owner, past>>

\* fire_notifications, after the write: a rule on submit puts a message in the outbox.
Notify(r) ==
  /\ pc[r] = "stored"
  /\ past' = [past EXCEPT ![call[r].doc].submits = @ + Cardinality(fires[r] \cap {1})]
  /\ End(r)
  /\ UNCHANGED <<docs, owner>>

\* db_delete: by a manager, and at 0.
Delete(u, d) ==
  /\ u \in Managers
  /\ Exists(d) /\ docs[d].docstatus = 0
  /\ docs' = [docs EXCEPT ![d] = Gone]
  /\ UNCHANGED <<owner, pc, call, plan, fires, past>>

\* A script refuses, a request fails or the process stops.
Abandon(r) ==
  /\ pc[r] # "idle"
  /\ past' = IF 1 \in fires[r] THEN [past EXCEPT ![call[r].doc].untold = TRUE] ELSE past
  /\ End(r)
  /\ UNCHANGED <<docs, owner>>

Next ==
  \/ \E r \in Request, u \in User, d \in Doc :
       \/ \E t \in Transitions : Judge(r, u, d, t)
       \/ \E p \in Given : Write(r, u, d, p)
  \/ \E r \in Request, u \in User, p \in Born : Create(r, u, p)
  \/ \E r \in Request : WriteJudged(r) \/ Merge(r) \/ Refused(r) \/ Notify(r) \/ Abandon(r)
  \/ \E u \in User, d \in Doc : Delete(u, d)

Spec == Init /\ [][Next]_vars

-----------------------------------------------------------------------------
(* Properties.                                                              *)

History ==
  [asked : SUBSET {1, 2}, put : SUBSET (0 .. 2), submits : Nat, untold : BOOLEAN, apart : BOOLEAN]

\* Types of the table and of the requests; only a request under way has a call.
TypeOK ==
  /\ docs \in [Doc -> Content \cup {NoDoc, Gone}]
  /\ owner \in [Doc -> User \cup {Nobody}]
  /\ pc \in [Request -> {"idle", "judged", "update", "stored"}]
  /\ past \in [Doc -> History]
  /\ DOMAIN call = Request /\ DOMAIN plan = Request /\ DOMAIN fires = Request
  /\ \A d \in Doc : docs[d] = NoDoc <=> owner[d] = Nobody
  /\ \A r \in Request :
       /\ fires[r] \subseteq {1, 2}
       /\ Part(plan[r].delta)
       /\ IF pc[r] = "idle" THEN call[r] = NoCall
          ELSE call[r].user \in User /\ call[r].doc \in Doc /\ docs[call[r].doc] # NoDoc

\* The lattice of sync.rs, whatever the requests judged before: a document moves
\* 0 -> 1 -> 2, a cancelled one never changes, only a draft is deleted.
LifeCycle ==
  [][\A d \in Doc : Exists(d) /\ docs'[d] # docs[d] =>
       IF docs'[d] = Gone THEN docs[d].docstatus = 0
       ELSE docs[d].docstatus # 2 /\ docs'[d].docstatus - docs[d].docstatus \in {0, 1}]_vars

\* "a submitted document immutable to its owner": also to a write of the owner that
\* was prepared while it was a draft.
Sends(r, d) == call[r].doc = d /\ pc[r] = "update" /\ pc'[r] = "stored"
SubmittedIsNotTheOwners ==
  [][\A d \in Doc : Exists(d) /\ docs[d].docstatus > 0 /\ docs'[d] # docs[d] =>
       \E r \in Request : Sends(r, d) /\ call[r].user \in Managers]_vars

\* "disjoint updates stay disjoint": a column changes only by a write whose caller named
\* it or whose script changed it, however old the document is that the script was shown.
DisjointStayDisjoint ==
  [][\A d \in Doc, k \in Columns :
       Exists(d) /\ docs'[d] # Gone /\ docs'[d] # docs[d] /\ docs'[d][k] # docs[d][k] =>
         \E r \in Request :
           Sends(r, d) /\ (k \in DOMAIN call[r].given \/ k \in plan[r].changed)]_vars

\* A document is submitted (cancelled) only after its on_submit (on_cancel) has agreed,
\* although the edge is judged on a baseline that may be old, or because a validate
\* script, which runs after the edge is judged, put that docstatus there itself.
EdgeAgreed ==
  \A d \in Doc : Exists(d) /\ docs[d].docstatus > 0 =>
    docs[d].docstatus \in past[d].asked \cup past[d].put

\* A transition writes its state and its docstatus together, so that they agree however
\* transitions overtake one another, until one of the two is written apart: by a plain
\* write, by the create or by a script.
StateAndStatusAgree ==
  \A d \in Doc : Exists(d) /\ ~past[d].apart =>
    docs[d].docstatus = IF docs[d].state = Blank THEN 0 ELSE StatusOf[docs[d].state]

\* A submitted document has been told of, unless the one that has to tell is under way
\* or was abandoned.
SubmitIsTold ==
  \A d \in Doc : Exists(d) /\ docs[d].docstatus = 1 /\ ~past[d].untold =>
    past[d].submits > 0 \/ \E r \in Request : call[r].doc = d /\ 1 \in fires[r]

\* The inductive invariant: what is sent is what the caller gave or what the script
\* changed, an edge it may take has been agreed to or is the script's, and the baseline is
\* not ahead of the row.
CallShape(r) ==
  pc[r] \in {"judged", "update"} =>
    /\ Part(call[r].given)
    /\ \/ call[r].took = NoTransition /\ call[r].given \in Given /\ pc[r] = "update"
       \/ call[r].took \in Transitions /\ call[r].given = Proposed(call[r].took)
PlanShape(r) ==
  pc[r] = "update" =>
    LET d == call[r].doc
        given == call[r].given
        p == plan[r]
    IN  /\ p.asked \subseteq {1, 2} /\ p.before \in 0 .. 2 /\ p.changed \subseteq Columns
        /\ DOMAIN given \subseteq DOMAIN p.delta \cup p.changed
        /\ \A k \in DOMAIN p.delta \ p.changed : k \in DOMAIN given /\ p.delta[k] = given[k]
        /\ "docstatus" \in DOMAIN p.delta =>
             p.delta["docstatus"] \in {0} \cup p.asked \cup Put(p) \cup past[d].asked \cup past[d].put
        /\ Exists(d) => p.before <= docs[d].docstatus
FiresShape(r) == pc[r] # "stored" => fires[r] = {}
IInv ==
  /\ TypeOK
  /\ \A r \in Request : CallShape(r) /\ PlanShape(r) /\ FiresShape(r)
  /\ EdgeAgreed
  /\ SubmitIsTold

\* "an on_submit notification must fire on the transition that really moved docstatus
\* to 1": then it fires once.
SubmitIsToldOnce == \A d \in Doc : past[d].submits <= 1

=============================================================================
