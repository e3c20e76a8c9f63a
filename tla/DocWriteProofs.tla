--------------------------- MODULE DocWriteProofs ---------------------------
(* Proofs about DocWrite, for any users, documents, workflow, payloads and   *)
(* number of concurrent requests; and, in the second half, about Rollup,     *)
(* which replays the changefeed of such a table.                             *)
EXTENDS DocWrite, Rollup, Integers, Sequences, FiniteSetTheorems, WellFoundedInduction, TLAPS

USE DocWriteAssumption, PayloadAssumption, ScriptAssumption, AbsenceAssumption

-----------------------------------------------------------------------------
(* Records of some columns.                                                  *)

\* The columns of a document, one by one.
LEMMA ContentColumns ==
  ASSUME NEW c \in Content
  PROVE  /\ DOMAIN c = Columns
         /\ c["x"] \in Value
         /\ c["state"] \in State \cup {Blank} /\ c["docstatus"] \in 0 .. 2
BY DEF Content, Columns

\* Right columns make a document.
LEMMA ContentFromColumns ==
  ASSUME NEW c, c = [k \in Columns |-> c[k]],
         c["x"] \in Value,
         c["state"] \in State \cup {Blank}, c["docstatus"] \in 0 .. 2
  PROVE  c \in Content
BY DEF Content, Columns

\* What Over yields, column by column.
LEMMA OverColumns ==
  ASSUME NEW p, NEW q
  PROVE  /\ DOMAIN Over(p, q) = DOMAIN p \cup DOMAIN q
         /\ \A k \in DOMAIN p : Over(p, q)[k] = p[k]
         /\ \A k \in DOMAIN q \ DOMAIN p : Over(p, q)[k] = q[k]
BY DEF Over

\* The columns a document may be without, one by one.
Typed(p) ==
  /\ DOMAIN p \subseteq Columns
  /\ "x" \in DOMAIN p => p["x"] \in Value
  /\ "state" \in DOMAIN p => p["state"] \in State \cup {Blank}
  /\ "docstatus" \in DOMAIN p => p["docstatus"] \in 0 .. 2

\* The defaults of sync.rs make a document.
LEMMA DefaultIsContent == Default \in Content
BY DEF Default, Content

\* Over a document, typed columns make a document.
LEMMA TypedOver ==
  ASSUME NEW p, Typed(p), NEW c \in Content
  PROVE  Over(p, c) \in Content
<1>1. /\ DOMAIN c = Columns
      /\ c["x"] \in Value
      /\ c["state"] \in State \cup {Blank} /\ c["docstatus"] \in 0 .. 2
  BY ContentColumns
<1>2. Over(p, c) = [k \in Columns |-> IF k \in DOMAIN p THEN p[k] ELSE c[k]]
  BY <1>1 DEF Over, Typed
<1> DEFINE e == Over(p, c)
<1>3. e = [k \in Columns |-> e[k]]
  BY <1>2
<1>4. /\ e["x"] \in Value
      /\ e["state"] \in State \cup {Blank} /\ e["docstatus"] \in 0 .. 2
  BY <1>1, <1>2 DEF Typed, Columns
<1> HIDE DEF e
<1>5. e \in Content
  BY <1>3, <1>4, ContentFromColumns
<1> QED
  BY <1>5 DEF e

\* A part of a document is one whose columns are typed.
LEMMA PartIsTyped ==
  ASSUME NEW p
  PROVE  Part(p) <=> Typed(p)
<1>1. ASSUME Typed(p) PROVE Part(p)
  BY <1>1, TypedOver, DefaultIsContent DEF Part, Typed
<1>2. ASSUME Part(p) PROVE Typed(p)
  <2> DEFINE e == Over(p, Default)
  <2>1. /\ e["x"] \in Value
        /\ e["state"] \in State \cup {Blank} /\ e["docstatus"] \in 0 .. 2
    BY <1>2, ContentColumns DEF Part
  <2>2. \A k \in DOMAIN p : e[k] = p[k]
    BY DEF Over
  <2>3. DOMAIN p \subseteq Columns
    BY <1>2 DEF Part
  <2> HIDE DEF e
  <2> QED
    BY <2>1, <2>2, <2>3 DEF Typed
<1> QED
  BY <1>1, <1>2

\* Merging typed columns over typed columns keeps them typed.
LEMMA TypedBoth ==
  ASSUME NEW p, NEW q, Typed(p), Typed(q)
  PROVE  Typed(Over(p, q))
<1>1. DOMAIN Over(p, q) = DOMAIN p \cup DOMAIN q
  BY DEF Over
<1>2. \A k \in DOMAIN p : Over(p, q)[k] = p[k]
  BY DEF Over
<1>3. \A k \in DOMAIN q \ DOMAIN p : Over(p, q)[k] = q[k]
  BY DEF Over
<1>4. DOMAIN Over(p, q) \subseteq Columns
  BY <1>1 DEF Typed
<1>5. "x" \in DOMAIN Over(p, q) => Over(p, q)["x"] \in Value
  BY <1>1, <1>2, <1>3 DEF Typed
<1>6. "state" \in DOMAIN Over(p, q) => Over(p, q)["state"] \in State \cup {Blank}
  BY <1>1, <1>2, <1>3 DEF Typed
<1>7. "docstatus" \in DOMAIN Over(p, q) => Over(p, q)["docstatus"] \in 0 .. 2
  BY <1>1, <1>2, <1>3 DEF Typed
<1> QED
  BY <1>4, <1>5, <1>6, <1>7 DEF Typed

\* A baseline that is not there has no columns.
LEMMA NothingTyped == DOMAIN Nothing = {} /\ Typed(Nothing)
BY DEF Nothing, Typed

\* A stored document is typed as a baseline.
LEMMA ContentTyped ==
  ASSUME NEW c \in Content
  PROVE  Typed(c)
BY ContentColumns DEF Typed

-----------------------------------------------------------------------------
(* What a request plans to send.                                             *)

\* What a script hands back is made of columns, whatever it does to them.
LEMMA RanColumns ==
  ASSUME NEW s \in Scripts, NEW doc, Typed(doc)
  PROVE  Typed(Ran(s, doc))
<1> DEFINE left == [k \in DOMAIN doc \ s.drops |-> doc[k]]
<1>1. Typed(left)
  <2>1. DOMAIN left \subseteq DOMAIN doc /\ \A k \in DOMAIN left : left[k] = doc[k]
    OBVIOUS
  <2> HIDE DEF left
  <2> QED
    BY <2>1 DEF Typed
<1>2. Typed(s.puts)
  BY PartIsTyped
<1> HIDE DEF left
<1>3. Typed(Over(s.puts, left))
  BY <1>1, <1>2, TypedBoth
<1> QED
  BY <1>3 DEF Ran, left

\* What is sent is what the caller gave or what the script changed; and a status that is
\* sent is agreed to, the script's own, or the baseline's.
LEMMA PlannedColumns ==
  ASSUME NEW base, NEW given, NEW script \in Scripts, Typed(base), Typed(given)
  PROVE  LET p == Planned(base, given, script)
         IN  /\ Typed(p.delta)
             /\ p.before = Status(base)
             /\ p.asked \subseteq {1, 2} /\ p.changed \subseteq Columns
             /\ DOMAIN given \subseteq DOMAIN p.delta \cup p.changed
             /\ \A k \in DOMAIN p.delta \ p.changed : k \in DOMAIN given /\ p.delta[k] = given[k]
             /\ "docstatus" \in DOMAIN p.delta =>
                  p.delta["docstatus"] \in {0} \cup p.asked \cup Put(p) \cup {Status(base)}
<1> DEFINE hook == Over(given, base)
           out == Ran(script, hook)
           changed == Changed(hook, out)
           sent == Kept(out, hook, given)
           delta == [k \in sent |-> out[k]]
           p == Planned(base, given, script)
<1>1. p = [delta |-> delta, before |-> Status(base), asked |-> Edges(base, hook), changed |-> changed]
  BY DEF Planned
<1>2. Typed(hook)
  BY TypedBoth
<1>3. /\ DOMAIN hook = DOMAIN given \cup DOMAIN base
      /\ \A k \in DOMAIN given : hook[k] = given[k]
  BY DEF Over
<1> HIDE DEF hook
<1>4. Typed(out)
  BY <1>2, RanColumns
<1> HIDE DEF out
<1>5. /\ changed \subseteq DOMAIN hook \cup DOMAIN out
      /\ \A k \in (DOMAIN hook \cup DOMAIN out) \ changed :
           k \in DOMAIN hook /\ k \in DOMAIN out /\ out[k] = hook[k]
  BY DEF Changed
<1>6. sent = DOMAIN out \cap (DOMAIN given \cup changed)
  BY DEF Kept
<1> HIDE DEF changed
<1>7. DOMAIN delta = sent /\ \A k \in sent : delta[k] = out[k]
  OBVIOUS
<1> HIDE DEF sent, delta
<1>8. Typed(delta)
  BY <1>4, <1>6, <1>7 DEF Typed
<1>9. /\ \A k \in DOMAIN delta \ changed : k \in DOMAIN given /\ delta[k] = given[k]
      /\ DOMAIN given \subseteq DOMAIN delta \cup changed
  BY <1>3, <1>5, <1>6, <1>7
<1>10. Edges(base, hook) \subseteq {1, 2} /\ changed \subseteq Columns
  BY <1>2, <1>4, <1>5 DEF Edges, Typed
<1>11. /\ p.delta = delta /\ p.before = Status(base) /\ p.asked = Edges(base, hook)
       /\ p.changed = changed
  BY <1>1
<1> HIDE DEF p
<1>12. "docstatus" \in DOMAIN delta =>
         delta["docstatus"] \in {0} \cup Edges(base, hook) \cup Put(p) \cup {Status(base)}
  <2>1. CASE "docstatus" \in changed
    BY <1>11, <2>1 DEF Put
  <2>2. CASE "docstatus" \notin changed
    <3> SUFFICES ASSUME "docstatus" \in DOMAIN delta, delta["docstatus"] # 0,
                        delta["docstatus"] # Status(base)
                 PROVE  delta["docstatus"] \in Edges(base, hook)
      OBVIOUS
    <3>1. "docstatus" \in DOMAIN given /\ delta["docstatus"] = given["docstatus"]
      BY <1>9, <2>2
    <3>2. given["docstatus"] \in {1, 2}
      BY <3>1 DEF Typed
    <3>3. Status(hook) = given["docstatus"]
      BY <1>3, <3>1 DEF Status
    <3> QED
      BY <3>1, <3>2, <3>3 DEF Edges
  <2> QED
    BY <2>1, <2>2
<1>13. /\ Typed(p.delta) /\ p.before = Status(base)
       /\ p.asked \subseteq {1, 2} /\ p.changed \subseteq Columns
       /\ DOMAIN given \subseteq DOMAIN p.delta \cup p.changed
       /\ \A k \in DOMAIN p.delta \ p.changed : k \in DOMAIN given /\ p.delta[k] = given[k]
       /\ "docstatus" \in DOMAIN p.delta =>
            p.delta["docstatus"] \in {0} \cup p.asked \cup Put(p) \cup {Status(base)}
  BY <1>8, <1>9, <1>10, <1>11, <1>12
<1> QED
  BY <1>13 DEF p

-----------------------------------------------------------------------------
(* The inductive invariant, step by step.                                    *)

\* The empty table and idle requests.
LEMMA InitHolds == Init => IInv
<1> SUFFICES ASSUME Init PROVE IInv
  OBVIOUS
<1>1. TypeOK
  <2>1. Part(Nothing)
    BY NothingTyped, PartIsTyped
  <2> QED
    BY <2>1 DEF Init, TypeOK, NoPlan, History
<1>2. ASSUME NEW r \in Request PROVE CallShape(r) /\ PlanShape(r) /\ FiresShape(r)
  BY <1>2 DEF Init, CallShape, PlanShape, FiresShape
<1>3. EdgeAgreed /\ SubmitIsTold
  BY DEF Init, EdgeAgreed, SubmitIsTold, Exists
<1> QED
  BY <1>1, <1>2, <1>3 DEF IInv

\* The statuses a document was allowed: its hooks agreed to them, or a script put them.
Agreed(d) == past[d].asked \cup past[d].put

\* What a document's step may do without disturbing a request that does not move:
\* statuses never fall, and agreements are never forgotten.
Forward(d) ==
  docs[d] # NoDoc =>
    /\ Agreed(d) \subseteq Agreed(d)'
    /\ docs'[d] \notin {NoDoc, Gone} => Exists(d) /\ docs[d].docstatus <= docs'[d].docstatus

\* A document that does not change is not disturbed.
LEMMA SameForward ==
  ASSUME TypeOK, NEW d \in Doc, docs'[d] = docs[d], Agreed(d) \subseteq Agreed(d)'
  PROVE  Forward(d) /\ docs'[d] \in Content \cup {NoDoc, Gone}
<1>1. docs[d] \in Content \cup {NoDoc, Gone}
  BY DEF TypeOK
<1>2. docs[d] \in Content => docs[d].docstatus <= docs[d].docstatus
  BY ContentColumns
<1> QED
  BY <1>1, <1>2 DEF Forward, Exists

\* A request that does not move keeps its shape when the documents only go forward.
LEMMA OthersKeepShape ==
  ASSUME TypeOK, NEW s \in Request, CallShape(s), PlanShape(s), FiresShape(s),
         pc'[s] = pc[s], call'[s] = call[s], plan'[s] = plan[s], fires'[s] = fires[s],
         \A d \in Doc : Forward(d),
         \A d \in Doc : docs'[d] \in Content \cup {NoDoc, Gone}
  PROVE  CallShape(s)' /\ PlanShape(s)' /\ FiresShape(s)'
<1>1. CallShape(s)' /\ FiresShape(s)'
  BY DEF CallShape, FiresShape
<1>2. ASSUME pc[s] = "update" PROVE PlanShape(s)'
  <2> DEFINE d == call[s].doc
  <2>1. d \in Doc /\ docs[d] # NoDoc
    BY <1>2 DEF TypeOK
  <2>2. Agreed(d) \subseteq Agreed(d)'
    BY <2>1 DEF Forward
  <2>3. Exists(d)' => plan[s].before <= docs'[d].docstatus
    <3> SUFFICES ASSUME Exists(d)' PROVE plan[s].before <= docs'[d].docstatus
      OBVIOUS
    <3>1. Exists(d) /\ docs[d].docstatus <= docs'[d].docstatus
      BY <2>1 DEF Forward, Exists
    <3>2. docs[d] \in Content /\ docs'[d] \in Content
      BY <2>1, <3>1 DEF Exists, TypeOK
    <3>3. docs[d].docstatus \in 0 .. 2 /\ docs'[d].docstatus \in 0 .. 2
      BY <3>2, ContentColumns
    <3>4. plan[s].before \in 0 .. 2 /\ plan[s].before <= docs[d].docstatus
      BY <1>2, <3>1 DEF PlanShape
    <3> QED
      BY <3>1, <3>3, <3>4
  <2> QED
    BY <1>2, <2>2, <2>3 DEF PlanShape, Agreed, Put
<1>3. pc[s] # "update" => PlanShape(s)'
  BY DEF PlanShape
<1> QED
  BY <1>1, <1>2, <1>3

\* A request that ends is typed and has nothing left to do.
LEMMA EndHolds ==
  ASSUME TypeOK, NEW r \in Request, End(r)
  PROVE  /\ pc'[r] = "idle" /\ call'[r] = NoCall /\ Part(plan'[r].delta) /\ fires'[r] = {}
         /\ pc' \in [Request -> {"idle", "judged", "update", "stored"}]
         /\ DOMAIN call' = Request /\ DOMAIN plan' = Request /\ DOMAIN fires' = Request
         /\ \A s \in Request \ {r} :
              pc'[s] = pc[s] /\ call'[s] = call[s] /\ plan'[s] = plan[s] /\ fires'[s] = fires[s]
         /\ CallShape(r)' /\ PlanShape(r)' /\ FiresShape(r)'
<1>1. Part(Nothing)
  BY NothingTyped, PartIsTyped
<1>2. /\ pc'[r] = "idle" /\ call'[r] = NoCall /\ Part(plan'[r].delta) /\ fires'[r] = {}
      /\ pc' \in [Request -> {"idle", "judged", "update", "stored"}]
      /\ DOMAIN call' = Request /\ DOMAIN plan' = Request /\ DOMAIN fires' = Request
      /\ \A s \in Request \ {r} :
           pc'[s] = pc[s] /\ call'[s] = call[s] /\ plan'[s] = plan[s] /\ fires'[s] = fires[s]
  BY <1>1 DEF End, TypeOK, NoPlan
<1>3. CallShape(r)' /\ PlanShape(r)' /\ FiresShape(r)'
  BY <1>2 DEF CallShape, PlanShape, FiresShape
<1> QED
  BY <1>2, <1>3

\* A state transition is judged: nothing but the request changes.
LEMMA JudgeHolds ==
  ASSUME IInv, NEW r \in Request, NEW u \in User, NEW d \in Doc, NEW t \in Transitions,
         Judge(r, u, d, t)
  PROVE  IInv'
<1> USE DEF IInv
<1>1. Part(Proposed(t))
  <2>1. /\ DOMAIN Proposed(t) = {"state", "docstatus"}
        /\ Proposed(t)["state"] \in State /\ Proposed(t)["docstatus"] \in 0 .. 2
    BY DEF Proposed
  <2>2. Typed(Proposed(t))
    BY <2>1 DEF Typed, Columns
  <2> QED
    BY <2>2, PartIsTyped
<1>2. TypeOK'
  BY DEF TypeOK, Judge, GoTo, Exists
<1>3. CallShape(r)' /\ PlanShape(r)' /\ FiresShape(r)'
  BY <1>1 DEF Judge, GoTo, CallShape, PlanShape, FiresShape, TypeOK
<1>4. ASSUME NEW s \in Request, s # r PROVE CallShape(s)' /\ PlanShape(s)' /\ FiresShape(s)'
  <2>1. pc'[s] = pc[s] /\ call'[s] = call[s] /\ plan'[s] = plan[s] /\ fires'[s] = fires[s]
    BY <1>4 DEF Judge, GoTo, TypeOK
  <2>2. \A e \in Doc : Forward(e) /\ docs'[e] \in Content \cup {NoDoc, Gone}
    BY SameForward DEF Judge, Agreed
  <2> QED
    BY <2>1, <2>2, OthersKeepShape
<1>5. EdgeAgreed'
  BY DEF EdgeAgreed, Judge, Exists
<1>6. SubmitIsTold'
  <2>1. FiresShape(r) /\ pc[r] = "idle"
    BY DEF Judge
  <2>2. fires[r] = {}
    BY <2>1 DEF FiresShape
  <2> QED
    BY <2>2 DEF SubmitIsTold, Judge, Exists, TypeOK
<1> QED
  BY <1>2, <1>3, <1>4, <1>5, <1>6

\* An update is prepared: what it sends has the right shape, and the status it may set
\* is the baseline's (agreed to before), or agreed to now.
LEMMA PrepareHolds ==
  ASSUME IInv, NEW r \in Request, NEW c, pc[r] \in {"idle", "judged"},
         c.user \in User, c.doc \in Doc, docs[c.doc] # NoDoc, Part(c.given),
         \/ c.took = NoTransition /\ c.given \in Given
         \/ c.took \in Transitions /\ c.given = Proposed(c.took),
         Prepare(r, c)
  PROVE  IInv'
<1> USE DEF IInv
<1> DEFINE d == c.doc
           base == Baseline(c.user, d)
<1>0. PICK script \in Scripts :
        plan' = [plan EXCEPT ![r] = Planned(base, c.given, script)]
  BY DEF Prepare
<1> DEFINE p == Planned(base, c.given, script)
<1>1. Typed(base) /\ Status(base) \in 0 .. 2
      /\ (Exists(d) => Status(base) <= docs[d].docstatus)
      /\ Status(base) \in {0} \cup Agreed(d)
  <2>1. CASE base = Nothing
    <3>1. Status(Nothing) = 0
      BY NothingTyped DEF Status
    <3>2. Exists(d) => docs[d].docstatus \in 0 .. 2
      BY ContentColumns DEF TypeOK, Exists
    <3> QED
      BY <2>1, <3>1, <3>2, NothingTyped
  <2>2. CASE Exists(d) /\ base = docs[d]
    <3>1. docs[d] \in Content
      BY <2>2 DEF TypeOK, Exists
    <3>2. docs[d].docstatus \in 0 .. 2 /\ "docstatus" \in DOMAIN docs[d]
      BY <3>1, ContentColumns DEF Columns
    <3>3. Status(base) = docs[d].docstatus
      BY <2>2, <3>2 DEF Status
    <3>4. docs[d].docstatus > 0 => docs[d].docstatus \in Agreed(d)
      BY <2>2 DEF EdgeAgreed, Agreed
    <3> QED
      BY <2>2, <3>1, <3>2, <3>3, <3>4, ContentTyped
  <2> QED
    BY <2>1, <2>2 DEF Baseline
<1>2. Typed(c.given)
  BY PartIsTyped
<1>3. /\ Typed(p.delta) /\ p.before = Status(base)
      /\ p.asked \subseteq {1, 2} /\ p.changed \subseteq Columns
      /\ DOMAIN c.given \subseteq DOMAIN p.delta \cup p.changed
      /\ \A k \in DOMAIN p.delta \ p.changed : k \in DOMAIN c.given /\ p.delta[k] = c.given[k]
      /\ "docstatus" \in DOMAIN p.delta =>
           p.delta["docstatus"] \in {0} \cup p.asked \cup Put(p) \cup {Status(base)}
  BY <1>1, <1>2, PlannedColumns
<1>4. /\ pc'[r] = "update" /\ call'[r] = c /\ plan'[r] = p
      /\ docs' = docs /\ owner' = owner /\ fires' = fires /\ past' = past
      /\ \A s \in Request \ {r} : pc'[s] = pc[s] /\ call'[s] = call[s] /\ plan'[s] = plan[s]
      /\ pc' \in [Request -> {"idle", "judged", "update", "stored"}]
      /\ DOMAIN call' = Request /\ DOMAIN plan' = Request
  BY <1>0 DEF Prepare, GoTo, TypeOK
<1> HIDE DEF base, p
<1>5. TypeOK'
  <2>1. Part(plan'[r].delta)
    BY <1>3, <1>4, PartIsTyped
  <2>2. \A s \in Request :
          /\ fires'[s] \subseteq {1, 2}
          /\ Part(plan'[s].delta)
          /\ IF pc'[s] = "idle" THEN call'[s] = NoCall
             ELSE call'[s].user \in User /\ call'[s].doc \in Doc /\ docs'[call'[s].doc] # NoDoc
    BY <1>4, <2>1 DEF TypeOK
  <2> QED
    BY <1>4, <2>2 DEF TypeOK
<1>6. CallShape(r)' /\ FiresShape(r)'
  BY <1>4 DEF CallShape, FiresShape
<1>7. PlanShape(r)'
  <2>1. "docstatus" \in DOMAIN p.delta =>
          p.delta["docstatus"] \in {0} \cup p.asked \cup Put(p) \cup past[d].asked \cup past[d].put
    BY <1>1, <1>3 DEF Agreed
  <2> QED
    BY <1>1, <1>3, <1>4, <2>1 DEF PlanShape, Exists, Put
<1>8. ASSUME NEW s \in Request, s # r PROVE CallShape(s)' /\ PlanShape(s)' /\ FiresShape(s)'
  <2>1. pc'[s] = pc[s] /\ call'[s] = call[s] /\ plan'[s] = plan[s] /\ fires'[s] = fires[s]
    BY <1>4, <1>8
  <2>2. \A e \in Doc : Forward(e) /\ docs'[e] \in Content \cup {NoDoc, Gone}
    BY <1>4, SameForward DEF Agreed
  <2> QED
    BY <2>1, <2>2, OthersKeepShape
<1>9. EdgeAgreed'
  BY <1>4 DEF EdgeAgreed, Exists
<1>10. SubmitIsTold'
  <2>1. fires[r] = {}
    BY DEF FiresShape
  <2> QED
    BY <1>4, <2>1 DEF SubmitIsTold, Exists, TypeOK
<1> QED
  BY <1>5, <1>6, <1>7, <1>8, <1>9, <1>10

\* A write that ends without being stored.
LEMMA RefusedHolds ==
  ASSUME IInv, NEW r \in Request, Refused(r)
  PROVE  IInv'
<1> USE DEF IInv
<1>1. /\ End(r) /\ docs' = docs /\ owner' = owner /\ past' = past /\ fires[r] = {}
  BY DEF Refused, FiresShape
<1>2. /\ pc'[r] = "idle" /\ call'[r] = NoCall /\ Part(plan'[r].delta) /\ fires'[r] = {}
      /\ pc' \in [Request -> {"idle", "judged", "update", "stored"}]
      /\ DOMAIN call' = Request /\ DOMAIN plan' = Request /\ DOMAIN fires' = Request
      /\ \A s \in Request \ {r} :
           pc'[s] = pc[s] /\ call'[s] = call[s] /\ plan'[s] = plan[s] /\ fires'[s] = fires[s]
      /\ CallShape(r)' /\ PlanShape(r)' /\ FiresShape(r)'
  BY <1>1, EndHolds
<1>3. TypeOK'
  BY <1>1, <1>2 DEF TypeOK
<1>4. ASSUME NEW s \in Request, s # r PROVE CallShape(s)' /\ PlanShape(s)' /\ FiresShape(s)'
  BY <1>1, <1>2, <1>4, SameForward, OthersKeepShape DEF Agreed
<1>5. EdgeAgreed' /\ SubmitIsTold'
  BY <1>1, <1>2 DEF EdgeAgreed, SubmitIsTold, Exists
<1> QED
  BY <1>2, <1>3, <1>4, <1>5

\* The notifications of a write.
LEMMA NotifyHolds ==
  ASSUME IInv, NEW r \in Request, Notify(r)
  PROVE  IInv'
<1> USE DEF IInv
<1> DEFINE d == call[r].doc
           more == Cardinality(fires[r] \cap {1})
<1>1. /\ End(r) /\ docs' = docs /\ owner' = owner /\ d \in Doc
      /\ past' = [past EXCEPT ![d].submits = @ + more]
  BY DEF Notify, TypeOK
<1>2. /\ pc'[r] = "idle" /\ call'[r] = NoCall /\ Part(plan'[r].delta) /\ fires'[r] = {}
      /\ pc' \in [Request -> {"idle", "judged", "update", "stored"}]
      /\ DOMAIN call' = Request /\ DOMAIN plan' = Request /\ DOMAIN fires' = Request
      /\ \A s \in Request \ {r} :
           pc'[s] = pc[s] /\ call'[s] = call[s] /\ plan'[s] = plan[s] /\ fires'[s] = fires[s]
      /\ CallShape(r)' /\ PlanShape(r)' /\ FiresShape(r)'
  BY <1>1, EndHolds
<1>3. more \in Nat /\ (1 \in fires[r] => more = 1)
  <2>1. CASE 1 \in fires[r]
    <3>1. fires[r] \cap {1} = {1}
      BY <2>1
    <3>2. Cardinality({1}) = 1
      BY FS_Singleton
    <3>3. more = 1
      BY <3>1, <3>2
    <3> QED
      BY <3>3
  <2>2. CASE 1 \notin fires[r]
    <3>1. fires[r] \cap {1} = {}
      BY <2>2
    <3>2. Cardinality({}) = 0
      BY FS_EmptySet
    <3>3. more = 0
      BY <3>1, <3>2
    <3> QED
      BY <2>2, <3>3
  <2> QED
    BY <2>1, <2>2
<1> HIDE DEF more
<1>4. /\ past' \in [Doc -> History]
      /\ \A e \in Doc : past'[e].asked = past[e].asked /\ past'[e].put = past[e].put
      /\ \A e \in Doc : past'[e].untold = past[e].untold
      /\ \A e \in Doc \ {d} : past'[e] = past[e]
      /\ past'[d].submits = past[d].submits + more
      /\ past[d].submits \in Nat
  <2> DEFINE h == [past[d] EXCEPT !.submits = @ + more]
  <2>1. past \in [Doc -> History] /\ past[d] \in History
    BY <1>1 DEF TypeOK
  <2>2. /\ h \in History /\ h.asked = past[d].asked /\ h.put = past[d].put
        /\ h.untold = past[d].untold
        /\ h.submits = past[d].submits + more /\ past[d].submits \in Nat
    BY <1>3, <2>1 DEF History
  <2>3. past' = [past EXCEPT ![d] = h]
    BY <1>1
  <2> HIDE DEF h
  <2> QED
    BY <1>1, <2>1, <2>2, <2>3
<1>5. TypeOK'
  BY <1>1, <1>2, <1>4 DEF TypeOK
<1>6. ASSUME NEW s \in Request, s # r PROVE CallShape(s)' /\ PlanShape(s)' /\ FiresShape(s)'
  BY <1>1, <1>2, <1>4, <1>6, SameForward, OthersKeepShape DEF Agreed
<1>7. EdgeAgreed'
  BY <1>1, <1>4 DEF EdgeAgreed, Exists
<1>8. SubmitIsTold'
  <2> SUFFICES ASSUME NEW e \in Doc, Exists(e), docs[e].docstatus = 1, ~past[e].untold
               PROVE  past'[e].submits > 0 \/ \E s \in Request : call'[s].doc = e /\ 1 \in fires'[s]
    BY <1>1, <1>4 DEF SubmitIsTold, Exists
  <2>1. CASE past[e].submits > 0
    BY <1>3, <1>4, <2>1 DEF TypeOK
  <2>2. ASSUME NEW s \in Request, call[s].doc = e, 1 \in fires[s]
        PROVE  past'[e].submits > 0 \/ (call'[s].doc = e /\ 1 \in fires'[s])
    <3>1. CASE s = r
      <4>1. e = d /\ more = 1
        BY <1>3, <2>2, <3>1
      <4>2. past'[e].submits = past[e].submits + 1 /\ past[e].submits \in Nat
        BY <1>4, <4>1
      <4> QED
        BY <4>2
    <3>2. CASE s # r
      BY <1>2, <2>2, <3>2
    <3> QED
      BY <3>1, <3>2
  <2> QED
    BY <2>1, <2>2 DEF SubmitIsTold
<1> QED
  BY <1>2, <1>5, <1>6, <1>7, <1>8

\* A request is abandoned: what it had to tell is marked as untold.
LEMMA AbandonHolds ==
  ASSUME IInv, NEW r \in Request, Abandon(r)
  PROVE  IInv'
<1> USE DEF IInv
<1> DEFINE d == call[r].doc
<1>1. /\ End(r) /\ docs' = docs /\ owner' = owner /\ d \in Doc
      /\ past' = IF 1 \in fires[r] THEN [past EXCEPT ![d].untold = TRUE] ELSE past
  BY DEF Abandon, TypeOK
<1>2. /\ pc'[r] = "idle" /\ call'[r] = NoCall /\ Part(plan'[r].delta) /\ fires'[r] = {}
      /\ pc' \in [Request -> {"idle", "judged", "update", "stored"}]
      /\ DOMAIN call' = Request /\ DOMAIN plan' = Request /\ DOMAIN fires' = Request
      /\ \A s \in Request \ {r} :
           pc'[s] = pc[s] /\ call'[s] = call[s] /\ plan'[s] = plan[s] /\ fires'[s] = fires[s]
      /\ CallShape(r)' /\ PlanShape(r)' /\ FiresShape(r)'
  BY <1>1, EndHolds
<1>3. /\ past' \in [Doc -> History]
      /\ \A e \in Doc : past'[e].asked = past[e].asked /\ past'[e].put = past[e].put
      /\ \A e \in Doc : past'[e].submits = past[e].submits
      /\ \A e \in Doc : past[e].untold => past'[e].untold
      /\ 1 \in fires[r] => past'[d].untold
  <2> DEFINE h == [past[d] EXCEPT !.untold = TRUE]
  <2>1. past \in [Doc -> History] /\ past[d] \in History
    BY <1>1 DEF TypeOK
  <2>2. /\ h \in History /\ h.asked = past[d].asked /\ h.put = past[d].put
        /\ h.submits = past[d].submits /\ h.untold = TRUE
    BY <2>1 DEF History
  <2> HIDE DEF h
  <2>3. CASE 1 \in fires[r]
    <3>1. past' = [past EXCEPT ![d] = h]
      BY <1>1, <2>3 DEF h
    <3> QED
      BY <1>1, <2>1, <2>2, <3>1
  <2>4. CASE 1 \notin fires[r]
    BY <1>1, <2>1, <2>4
  <2> QED
    BY <2>3, <2>4
<1>4. TypeOK'
  BY <1>1, <1>2, <1>3 DEF TypeOK
<1>5. ASSUME NEW s \in Request, s # r PROVE CallShape(s)' /\ PlanShape(s)' /\ FiresShape(s)'
  BY <1>1, <1>2, <1>3, <1>5, SameForward, OthersKeepShape DEF Agreed
<1>6. EdgeAgreed'
  BY <1>1, <1>3 DEF EdgeAgreed, Exists
<1>7. SubmitIsTold'
  <2> SUFFICES ASSUME NEW e \in Doc, Exists(e), docs[e].docstatus = 1, ~past'[e].untold
               PROVE  past'[e].submits > 0 \/ \E s \in Request : call'[s].doc = e /\ 1 \in fires'[s]
    BY <1>1 DEF SubmitIsTold, Exists
  <2>1. past[e].submits > 0 \/ \E s \in Request : call[s].doc = e /\ 1 \in fires[s]
    BY <1>3 DEF SubmitIsTold
  <2> QED
    BY <1>2, <1>3, <2>1
<1> QED
  BY <1>2, <1>4, <1>5, <1>6, <1>7

\* A draft is deleted.
LEMMA DeleteHolds ==
  ASSUME IInv, NEW u \in User, NEW d \in Doc, Delete(u, d)
  PROVE  IInv'
<1> USE DEF IInv
<1>1. /\ docs' = [docs EXCEPT ![d] = Gone] /\ docs[d] # NoDoc /\ docs' \in [Doc -> Content \cup {NoDoc, Gone}]
      /\ owner' = owner /\ pc' = pc /\ call' = call /\ plan' = plan /\ fires' = fires /\ past' = past
      /\ docs'[d] = Gone /\ \A e \in Doc \ {d} : docs'[e] = docs[e]
  BY DEF Delete, Exists, TypeOK
<1>2. \A e \in Doc : docs'[e] = NoDoc <=> docs[e] = NoDoc
  BY <1>1
<1>3. TypeOK'
  BY <1>1, <1>2 DEF TypeOK
<1>4. \A e \in Doc : Forward(e) /\ docs'[e] \in Content \cup {NoDoc, Gone}
  <2>1. Forward(d)
    BY <1>1 DEF Forward, Agreed
  <2>2. \A e \in Doc \ {d} : Forward(e)
    BY <1>1, SameForward DEF Agreed
  <2> QED
    BY <1>1, <2>1, <2>2
<1>5. ASSUME NEW s \in Request PROVE CallShape(s)' /\ PlanShape(s)' /\ FiresShape(s)'
  BY <1>1, <1>4, OthersKeepShape
<1>6. \A e \in Doc : Exists(e)' => Exists(e) /\ docs'[e] = docs[e]
  BY <1>1 DEF Exists
<1>7. EdgeAgreed' /\ SubmitIsTold'
  BY <1>1, <1>6 DEF EdgeAgreed, SubmitIsTold
<1> QED
  BY <1>3, <1>5, <1>7

\* A statement changes its row: the status goes on by the lattice, and an edge it takes
\* was agreed to, and is told of.
LEMMA MergeHolds ==
  ASSUME IInv, NEW r \in Request, Merge(r)
  PROVE  IInv'
<1> USE DEF IInv
<1> DEFINE d == call[r].doc
           row == After(r)
           h == Noted(past[d], plan[r], ~Together(r))
<1>1. /\ pc[r] = "update" /\ d \in Doc /\ Exists(d) /\ Accepted(r)
      /\ docs' = [docs EXCEPT ![d] = row]
      /\ fires' = [fires EXCEPT ![r] = Moves(plan[r].before, row.docstatus)]
      /\ GoTo(r, "stored")
      /\ owner' = owner /\ call' = call /\ plan' = [plan EXCEPT ![r] = NoPlan]
  BY DEF Merge, Accepted, TypeOK
<1>2. past' = [past EXCEPT ![d] = h]
  BY DEF Merge
<1>3. docs[d] \in Content /\ docs[d].docstatus \in 0 .. 2 /\ DOMAIN docs[d] = Columns
  BY <1>1, ContentColumns DEF TypeOK, Exists
<1>4. Typed(plan[r].delta)
  BY PartIsTyped DEF TypeOK
<1>5. row \in Content /\ row.docstatus \in 0 .. 2
  BY <1>3, <1>4, TypedOver, ContentColumns DEF After
<1>6. Lattice(docs[d].docstatus, row.docstatus)
  BY <1>1 DEF Accepted
<1>7. docs[d].docstatus <= row.docstatus
  BY <1>3, <1>5, <1>6 DEF Lattice
<1>8. PlanShape(r) /\ plan[r].asked \subseteq {1, 2} /\ plan[r].before \in 0 .. 2
      /\ plan[r].before <= docs[d].docstatus
  BY <1>1 DEF PlanShape
<1>9. row.docstatus \in {docs[d].docstatus, 0} \cup plan[r].asked \cup Put(plan[r]) \cup Agreed(d)
  <2> DEFINE p == plan[r].delta
  <2>1. /\ \A k \in DOMAIN p : row[k] = p[k]
        /\ \A k \in DOMAIN docs[d] \ DOMAIN p : row[k] = docs[d][k]
    BY DEF After, Over
  <2> HIDE DEF row
  <2>2. CASE "docstatus" \in DOMAIN p
    <3>1. row["docstatus"] = p["docstatus"]
      BY <2>1, <2>2
    <3>2. p["docstatus"] \in {0} \cup plan[r].asked \cup Put(plan[r]) \cup Agreed(d)
      BY <1>1, <1>8, <2>2 DEF PlanShape, Agreed
    <3> QED
      BY <3>1, <3>2
  <2>3. CASE "docstatus" \notin DOMAIN p
    <3>1. "docstatus" \in DOMAIN docs[d] \ DOMAIN p
      BY <1>3, <2>3 DEF Columns
    <3>2. row["docstatus"] = docs[d]["docstatus"]
      BY <2>1, <3>1
    <3> QED
      BY <3>2
  <2> QED
    BY <2>2, <2>3
<1> HIDE DEF row
<1>10. past[d] \in History /\ past \in [Doc -> History]
  BY <1>1 DEF TypeOK
<1>11. /\ h \in History /\ h.asked = past[d].asked \cup plan[r].asked
       /\ h.put = past[d].put \cup Put(plan[r])
       /\ h.submits = past[d].submits /\ h.untold = past[d].untold
  <2>1. Put(plan[r]) \subseteq 0 .. 2
    BY <1>4 DEF Put, Typed
  <2>2. Together(r) \in BOOLEAN
    BY DEF Together
  <2> QED
    BY <1>8, <1>10, <2>1, <2>2 DEF History, Noted
<1> HIDE DEF h
<1>12. /\ past' \in [Doc -> History] /\ past'[d] = h
       /\ docs'[d] = row /\ docs' \in [Doc -> Content \cup {NoDoc, Gone}]
       /\ \A e \in Doc \ {d} : docs'[e] = docs[e] /\ past'[e] = past[e]
  BY <1>1, <1>2, <1>5, <1>10, <1>11 DEF TypeOK
<1>13. /\ pc'[r] = "stored" /\ fires'[r] = Moves(plan[r].before, row.docstatus)
       /\ pc' \in [Request -> {"idle", "judged", "update", "stored"}]
       /\ DOMAIN fires' = Request /\ DOMAIN plan' = Request /\ Part(plan'[r].delta)
       /\ \A s \in Request \ {r} : pc'[s] = pc[s] /\ fires'[s] = fires[s] /\ plan'[s] = plan[s]
  <2>1. Part(Nothing)
    BY NothingTyped, PartIsTyped
  <2> QED
    BY <1>1, <2>1 DEF GoTo, TypeOK, NoPlan
<1>14. row \notin {NoDoc, Gone} /\ docs[d] # NoDoc
  BY <1>1, <1>5 DEF Exists
<1>15. TypeOK'
  <2>1. \A e \in Doc : docs'[e] = NoDoc <=> owner'[e] = Nobody
    BY <1>1, <1>12, <1>14 DEF TypeOK
  <2>2. \A s \in Request : docs'[call[s].doc] = NoDoc => docs[call[s].doc] = NoDoc \/ call[s].doc \notin Doc
    BY <1>12, <1>14
  <2>3. \A s \in Request :
          /\ fires'[s] \subseteq {1, 2}
          /\ Part(plan'[s].delta)
          /\ IF pc'[s] = "idle" THEN call'[s] = NoCall
             ELSE call'[s].user \in User /\ call'[s].doc \in Doc /\ docs'[call'[s].doc] # NoDoc
    BY <1>1, <1>13, <2>2 DEF TypeOK, Moves
  <2> QED
    BY <1>1, <1>12, <1>13, <2>1, <2>3 DEF TypeOK
<1>16. \A e \in Doc : Forward(e) /\ docs'[e] \in Content \cup {NoDoc, Gone}
  <2>1. Forward(d)
    BY <1>1, <1>7, <1>11, <1>12 DEF Forward, Agreed
  <2>2. \A e \in Doc \ {d} : Forward(e)
    BY <1>12, SameForward DEF Agreed
  <2> QED
    BY <1>12, <2>1, <2>2
<1>17. CallShape(r)' /\ PlanShape(r)' /\ FiresShape(r)'
  BY <1>13 DEF CallShape, PlanShape, FiresShape
<1>18. ASSUME NEW s \in Request, s # r PROVE CallShape(s)' /\ PlanShape(s)' /\ FiresShape(s)'
  BY <1>1, <1>13, <1>16, <1>18, OthersKeepShape
<1>19. EdgeAgreed'
  <2>1. row.docstatus > 0 => row.docstatus \in h.asked \cup h.put
    BY <1>1, <1>3, <1>5, <1>9, <1>11 DEF EdgeAgreed, Agreed
  <2>2. \A e \in Doc \ {d} : Exists(e)' => Exists(e)
    BY <1>12 DEF Exists
  <2> QED
    BY <1>12, <2>1, <2>2 DEF EdgeAgreed
<1>20. SubmitIsTold'
  <2> SUFFICES ASSUME NEW e \in Doc, Exists(e)', docs'[e].docstatus = 1, ~past'[e].untold
               PROVE  past'[e].submits > 0 \/ \E s \in Request : call'[s].doc = e /\ 1 \in fires'[s]
    BY DEF SubmitIsTold
  <2>1. fires[r] = {}
    BY <1>1 DEF FiresShape
  <2>2. past'[e].submits = past[e].submits /\ past'[e].untold = past[e].untold
    BY <1>11, <1>12
  <2>3. CASE e = d /\ docs[d].docstatus = 0
    <3>1. row.docstatus = 1 /\ plan[r].before = 0
      BY <1>8, <1>12, <2>3
    <3>2. 1 \in fires'[r]
      BY <1>13, <3>1 DEF Moves
    <3> QED
      BY <1>1, <2>3, <3>2
  <2>4. CASE ~(e = d /\ docs[d].docstatus = 0)
    <3>1. Exists(e) /\ docs[e].docstatus = 1
      BY <1>1, <1>3, <1>5, <1>6, <1>12, <2>4 DEF Exists, Lattice
    <3>2. past[e].submits > 0 \/ \E s \in Request : call[s].doc = e /\ 1 \in fires[s]
      BY <2>2, <3>1 DEF SubmitIsTold
    <3>3. \A s \in Request : 1 \in fires[s] => 1 \in fires'[s]
      BY <1>13, <2>1
    <3> QED
      BY <1>1, <2>2, <3>2, <3>3
  <2> QED
    BY <2>3, <2>4
<1> QED
  BY <1>15, <1>17, <1>18, <1>19, <1>20

\* What a create does with what it sends.
Made(r, u, p, d, sends) ==
  LET row == Over(sends.delta, Default)
  IN  /\ docs[d] = NoDoc
      /\ docs' = [docs EXCEPT ![d] = row]
      /\ owner' = [owner EXCEPT ![d] = u]
      /\ fires' = [fires EXCEPT ![r] = Moves(0, row.docstatus)]
      /\ past' = [past EXCEPT ![d] =
           Noted(@, sends, DOMAIN sends.delta \cap {"state", "docstatus"} # {})]
      /\ call' = [call EXCEPT ![r] = [user |-> u, doc |-> d, given |-> p, took |-> NoTransition]]

LEMMA CreateMakes ==
  ASSUME NEW r \in Request, NEW u \in User, NEW p \in Born, Create(r, u, p)
  PROVE  \E d \in Doc, before_insert \in Scripts, validate \in Scripts :
           Made(r, u, p, d, Planned(Nothing, Ran(before_insert, p), validate))
<1>1. PICK d \in Doc, before_insert \in Scripts, validate \in Scripts :
        /\ docs[d] = NoDoc
        /\ LET sends == Planned(Nothing, Ran(before_insert, p), validate)
               row == Over(sends.delta, Default)
           IN  /\ docs' = [docs EXCEPT ![d] = row]
               /\ owner' = [owner EXCEPT ![d] = u]
               /\ fires' = [fires EXCEPT ![r] = Moves(0, row.docstatus)]
               /\ past' = [past EXCEPT ![d] =
                    Noted(@, sends, DOMAIN sends.delta \cap {"state", "docstatus"} # {})]
        /\ call' = [call EXCEPT ![r] = [user |-> u, doc |-> d, given |-> p, took |-> NoTransition]]
  BY DEF Create
<1>2. Made(r, u, p, d, Planned(Nothing, Ran(before_insert, p), validate))
  BY <1>1 DEF Made
<1> QED
  BY <1>2

\* A document is created, with all that a script or a caller gave it.
LEMMA CreateHolds ==
  ASSUME IInv, NEW r \in Request, NEW u \in User, NEW p \in Born, Create(r, u, p)
  PROVE  IInv'
<1> USE DEF IInv
<1>1. pc[r] = "idle" /\ fires[r] = {} /\ GoTo(r, "stored") /\ plan' = plan
  BY DEF Create, FiresShape
<1>0. PICK d \in Doc, before_insert \in Scripts, validate \in Scripts :
        Made(r, u, p, d, Planned(Nothing, Ran(before_insert, p), validate))
  BY CreateMakes
<1> DEFINE sends == Planned(Nothing, Ran(before_insert, p), validate)
           row == Over(sends.delta, Default)
           c(e) == [user |-> u, doc |-> e, given |-> p, took |-> NoTransition]
           named == DOMAIN sends.delta \cap {"state", "docstatus"} # {}
           h(e) == Noted(past[e], sends, named)
<1>2. /\ docs[d] = NoDoc
      /\ docs' = [docs EXCEPT ![d] = row]
      /\ owner' = [owner EXCEPT ![d] = u]
      /\ fires' = [fires EXCEPT ![r] = Moves(0, row.docstatus)]
      /\ past' = [past EXCEPT ![d] = h(d)]
      /\ call' = [call EXCEPT ![r] = c(d)]
  BY <1>0 DEF Made
<1>3. Status(Nothing) = 0
  BY NothingTyped DEF Status
<1>4. Typed(Ran(before_insert, p))
  BY PartIsTyped, RanColumns
<1>5. /\ Typed(sends.delta) /\ sends.asked \subseteq {1, 2}
      /\ "docstatus" \in DOMAIN sends.delta =>
           sends.delta["docstatus"] \in {0} \cup sends.asked \cup Put(sends)
  <2>1. /\ Typed(sends.delta) /\ sends.asked \subseteq {1, 2}
        /\ "docstatus" \in DOMAIN sends.delta =>
             sends.delta["docstatus"] \in {0} \cup sends.asked \cup Put(sends) \cup {Status(Nothing)}
    BY <1>4, NothingTyped, PlannedColumns
  <2> HIDE DEF sends
  <2> QED
    BY <1>3, <2>1
<1>6. row \in Content /\ row.docstatus \in 0 .. 2
  BY <1>5, TypedOver, DefaultIsContent, ContentColumns
<1>7. row.docstatus \in {0} \cup sends.asked \cup Put(sends)
  <2>1. /\ \A k \in DOMAIN sends.delta : row[k] = sends.delta[k]
        /\ \A k \in DOMAIN Default \ DOMAIN sends.delta : row[k] = Default[k]
    BY DEF Over
  <2> HIDE DEF row, sends
  <2>2. CASE "docstatus" \in DOMAIN sends.delta
    BY <1>5, <2>1, <2>2
  <2>3. CASE "docstatus" \notin DOMAIN sends.delta
    BY <2>1, <2>3 DEF Default
  <2> QED
    BY <2>2, <2>3
<1> HIDE DEF row, sends, named
<1>8. /\ past[d] \in History /\ past \in [Doc -> History]
      /\ past' = [past EXCEPT ![d] = h(d)]
  BY <1>2 DEF TypeOK
<1>9. h(d) \in History /\ sends.asked \subseteq h(d).asked /\ Put(sends) \subseteq h(d).put
  <2>1. Put(sends) \subseteq 0 .. 2
    BY <1>5 DEF Put, Typed
  <2>2. named \in BOOLEAN
    BY DEF named
  <2> QED
    BY <1>5, <1>8, <2>1, <2>2 DEF History, Noted
<1>10. /\ c(d).user = u /\ c(d).doc = d /\ c(d).given = p
  OBVIOUS
<1> HIDE DEF h, c
<1>11. /\ past' \in [Doc -> History] /\ past'[d] = h(d)
       /\ docs'[d] = row /\ docs' \in [Doc -> Content \cup {NoDoc, Gone}]
       /\ owner'[d] = u /\ owner' \in [Doc -> User \cup {Nobody}]
       /\ \A e \in Doc \ {d} : docs'[e] = docs[e] /\ past'[e] = past[e] /\ owner'[e] = owner[e]
  <2>1. past' \in [Doc -> History] /\ past'[d] = h(d) /\ \A e \in Doc \ {d} : past'[e] = past[e]
    BY <1>8, <1>9
  <2>2. /\ docs' = [docs EXCEPT ![d] = row] /\ owner' = [owner EXCEPT ![d] = u]
        /\ docs \in [Doc -> Content \cup {NoDoc, Gone}] /\ owner \in [Doc -> User \cup {Nobody}]
    BY <1>2 DEF TypeOK
  <2> QED
    BY <1>6, <2>1, <2>2
<1>12. /\ pc'[r] = "stored" /\ fires'[r] = Moves(0, row.docstatus) /\ call'[r] = c(d)
       /\ pc' \in [Request -> {"idle", "judged", "update", "stored"}]
       /\ DOMAIN call' = Request /\ DOMAIN plan' = Request /\ DOMAIN fires' = Request
       /\ \A s \in Request \ {r} :
            pc'[s] = pc[s] /\ call'[s] = call[s] /\ plan'[s] = plan[s] /\ fires'[s] = fires[s]
  BY <1>1, <1>2 DEF GoTo, TypeOK
<1>13. row \notin {NoDoc, Gone}
  BY <1>6
<1>14. TypeOK'
  <2>1. \A e \in Doc : docs'[e] = NoDoc <=> owner'[e] = Nobody
    BY <1>11, <1>13 DEF TypeOK
  <2>2. /\ fires'[r] \subseteq {1, 2} /\ Part(plan'[r].delta)
        /\ call'[r].user \in User /\ call'[r].doc \in Doc /\ docs'[call'[r].doc] # NoDoc
    BY <1>1, <1>10, <1>11, <1>12, <1>13 DEF Moves, TypeOK
  <2>3. ASSUME NEW s \in Request, s # r
        PROVE  /\ fires'[s] \subseteq {1, 2}
               /\ Part(plan'[s].delta)
               /\ IF pc'[s] = "idle" THEN call'[s] = NoCall
                  ELSE call'[s].user \in User /\ call'[s].doc \in Doc /\ docs'[call'[s].doc] # NoDoc
    BY <1>2, <1>11, <1>12, <2>3 DEF TypeOK
  <2> QED
    BY <1>11, <1>12, <2>1, <2>2, <2>3 DEF TypeOK
<1>15. \A e \in Doc : Forward(e) /\ docs'[e] \in Content \cup {NoDoc, Gone}
  <2>1. Forward(d)
    BY <1>2 DEF Forward
  <2>2. \A e \in Doc \ {d} : Forward(e)
    BY <1>11, SameForward DEF Agreed
  <2> QED
    BY <1>11, <2>1, <2>2
<1>16. CallShape(r)' /\ PlanShape(r)' /\ FiresShape(r)'
  BY <1>12 DEF CallShape, PlanShape, FiresShape
<1>17. ASSUME NEW s \in Request, s # r PROVE CallShape(s)' /\ PlanShape(s)' /\ FiresShape(s)'
  BY <1>12, <1>15, <1>17, OthersKeepShape
<1>18. EdgeAgreed'
  <2>1. row.docstatus > 0 => row.docstatus \in h(d).asked \cup h(d).put
    BY <1>6, <1>7, <1>9
  <2> QED
    BY <1>11, <2>1 DEF EdgeAgreed, Exists
<1>19. SubmitIsTold'
  <2> SUFFICES ASSUME NEW e \in Doc, Exists(e)', docs'[e].docstatus = 1, ~past'[e].untold
               PROVE  past'[e].submits > 0 \/ \E s \in Request : call'[s].doc = e /\ 1 \in fires'[s]
    BY DEF SubmitIsTold
  <2>1. CASE e = d
    <3>1. 1 \in fires'[r]
      BY <1>11, <1>12, <2>1 DEF Moves
    <3> QED
      BY <1>10, <1>12, <2>1, <3>1
  <2>2. CASE e # d
    <3>1. past[e].submits > 0 \/ \E s \in Request : call[s].doc = e /\ 1 \in fires[s]
      BY <1>11, <2>2 DEF SubmitIsTold, Exists
    <3> QED
      BY <1>1, <1>11, <1>12, <2>2, <3>1
  <2> QED
    BY <2>1, <2>2
<1> QED
  BY <1>14, <1>16, <1>17, <1>18, <1>19

\* A plain write, and the write of a transition, are prepared.
LEMMA WriteHolds ==
  ASSUME IInv, NEW r \in Request, NEW u \in User, NEW d \in Doc, NEW p \in Given,
         Write(r, u, d, p)
  PROVE  IInv'
<1> DEFINE c == [user |-> u, doc |-> d, given |-> p, took |-> NoTransition]
<1>1. /\ pc[r] = "idle" /\ docs[d] # NoDoc /\ Prepare(r, c)
  BY DEF Write
<1>2. c.user = u /\ c.doc = d /\ c.given = p /\ c.took = NoTransition
  OBVIOUS
<1>3. Part(p)
  OBVIOUS
<1> HIDE DEF c
<1> QED
  BY <1>1, <1>2, <1>3, PrepareHolds

\* The write of a transition that was judged (db_transition).
LEMMA WriteJudgedHolds ==
  ASSUME IInv, NEW r \in Request, WriteJudged(r)
  PROVE  IInv'
<1>1. pc[r] = "judged" /\ Prepare(r, call[r])
  BY DEF WriteJudged
<1>2. call[r].user \in User /\ call[r].doc \in Doc /\ docs[call[r].doc] # NoDoc
  BY <1>1 DEF IInv, TypeOK
<1>3. /\ Part(call[r].given)
      /\ call[r].took \in Transitions /\ call[r].given = Proposed(call[r].took)
  BY <1>1 DEF IInv, CallShape
<1> QED
  BY <1>1, <1>2, <1>3, PrepareHolds

\* Nothing moves.
LEMMA StutterHolds == IInv /\ UNCHANGED vars => IInv'
BY DEF IInv, vars, TypeOK, CallShape, PlanShape, FiresShape, EdgeAgreed, SubmitIsTold,
       Exists, Put

\* Every step of every actor keeps the invariant.
LEMMA NextHolds == IInv /\ [Next]_vars => IInv'
<1> SUFFICES ASSUME IInv, [Next]_vars PROVE IInv'
  OBVIOUS
<1>1. CASE UNCHANGED vars
  BY <1>1, StutterHolds
<1>2. ASSUME NEW r \in Request, NEW u \in User, NEW d \in Doc, NEW t \in Transitions,
             Judge(r, u, d, t)
      PROVE  IInv'
  BY <1>2, JudgeHolds
<1>3. ASSUME NEW r \in Request, NEW u \in User, NEW d \in Doc, NEW p \in Given,
             Write(r, u, d, p)
      PROVE  IInv'
  BY <1>3, WriteHolds
<1>4. ASSUME NEW r \in Request, NEW u \in User, NEW p \in Born, Create(r, u, p) PROVE IInv'
  BY <1>4, CreateHolds
<1>5. ASSUME NEW r \in Request,
             WriteJudged(r) \/ Merge(r) \/ Refused(r) \/ Notify(r) \/ Abandon(r)
      PROVE  IInv'
  BY <1>5, WriteJudgedHolds, MergeHolds, RefusedHolds, NotifyHolds, AbandonHolds
<1>6. ASSUME NEW u \in User, NEW d \in Doc, Delete(u, d) PROVE IInv'
  BY <1>6, DeleteHolds
<1> QED
  BY <1>1, <1>2, <1>3, <1>4, <1>5, <1>6 DEF Next

-----------------------------------------------------------------------------
(* The theorems.                                                             *)

\* The requests and the table keep the shape that everything below rests on: what is
\* sent is what the caller gave or its script changed, a status that is sent is agreed to
\* or the script's own, and the baseline is never ahead of the row.
THEOREM Invariance == Spec => []IInv
BY InitHolds, NextHolds, PTL DEF Spec

\* The tables stay typed, whatever is written.
THEOREM Types == Spec => []TypeOK
<1>1. IInv => TypeOK
  BY DEF IInv
<1> QED
  BY Invariance, <1>1, PTL

\* No document is at 1 or 2 without its on_submit or on_cancel having agreed, although
\* the edge is judged on a baseline that other requests may have left behind, unless a
\* validate script, which no hook is asked about, put that status there.
THEOREM EdgesAgreed == Spec => []EdgeAgreed
<1>1. IInv => EdgeAgreed
  BY DEF IInv
<1> QED
  BY Invariance, <1>1, PTL

\* No submitted document is forgotten by its notifications, except by a crash.
THEOREM SubmitsTold == Spec => []SubmitIsTold
<1>1. IInv => SubmitIsTold
  BY DEF IInv
<1> QED
  BY Invariance, <1>1, PTL

\* A document that is there changes by a merge or a delete, and by nothing else.
LEMMA Changes ==
  ASSUME IInv, Next, NEW d \in Doc, Exists(d), docs'[d] # docs[d]
  PROVE  \/ docs'[d] = Gone /\ docs[d].docstatus = 0
         \/ \E r \in Request :
              Merge(r) /\ call[r].doc = d /\ docs'[d] = After(r) /\ After(r) \in Content
<1> USE DEF IInv
<1>1. docs \in [Doc -> Content \cup {NoDoc, Gone}]
  BY DEF TypeOK
<1>2. ASSUME NEW u \in User, NEW e \in Doc, Delete(u, e)
      PROVE  docs'[d] = Gone /\ docs[d].docstatus = 0
  BY <1>1, <1>2 DEF Delete
<1>3. ASSUME NEW r \in Request, Merge(r)
      PROVE  call[r].doc = d /\ docs'[d] = After(r) /\ After(r) \in Content
  <2>1. /\ call[r].doc \in Doc /\ Exists(call[r].doc)
        /\ docs' = [docs EXCEPT ![call[r].doc] = After(r)]
    BY <1>3 DEF Merge, Accepted, TypeOK
  <2>2. call[r].doc = d /\ docs'[d] = After(r)
    BY <1>1, <2>1
  <2>3. Typed(plan[r].delta)
    BY PartIsTyped DEF TypeOK
  <2>4. docs[call[r].doc] \in Content
    BY <1>1, <2>1 DEF Exists
  <2> QED
    BY <2>2, <2>3, <2>4, TypedOver DEF After
<1>4. ASSUME NEW r \in Request, NEW u \in User, NEW p \in Born, Create(r, u, p)
      PROVE  FALSE
  BY <1>1, <1>4 DEF Create, Exists
<1>5. ASSUME NEW r \in Request, NEW u \in User, NEW e \in Doc, NEW t \in Transitions,
             Judge(r, u, e, t)
      PROVE  FALSE
  BY <1>5 DEF Judge
<1>6. ASSUME NEW r \in Request, NEW u \in User, NEW e \in Doc, NEW p \in Given,
             Write(r, u, e, p)
      PROVE  FALSE
  BY <1>6 DEF Write, Prepare
<1>7. ASSUME NEW r \in Request, WriteJudged(r) \/ Refused(r) \/ Notify(r) \/ Abandon(r)
      PROVE  FALSE
  BY <1>7 DEF WriteJudged, Prepare, Refused, Notify, Abandon
<1> QED
  BY <1>2, <1>3, <1>4, <1>5, <1>6, <1>7 DEF Next

\* What a merge has passed when it is done.
LEMMA MergePassed ==
  ASSUME IInv, NEW r \in Request, Merge(r)
  PROVE  LET d == call[r].doc
         IN  /\ Sends(r, d)
             /\ MayUpdate(call[r].user, d, After(r))
             /\ Lattice(docs[d].docstatus, After(r).docstatus)
<1>1. pc[r] = "update" /\ Accepted(r) /\ GoTo(r, "stored")
  BY DEF Merge
<1>2. pc'[r] = "stored"
  BY <1>1 DEF GoTo, IInv, TypeOK
<1> QED
  BY <1>1, <1>2 DEF Accepted, Sends

\* A document moves 0 -> 1 -> 2, however the writes of its users interleave, a cancelled
\* one is frozen and only a draft is deleted.
THEOREM LifeCycles == Spec => LifeCycle
<1> DEFINE A(d) == Exists(d) /\ docs'[d] # docs[d] =>
                     IF docs'[d] = Gone THEN docs[d].docstatus = 0
                     ELSE docs[d].docstatus # 2 /\ docs'[d].docstatus - docs[d].docstatus \in {0, 1}
<1>1. ASSUME IInv, [Next]_vars, NEW d \in Doc PROVE A(d)
  <2> SUFFICES ASSUME Exists(d), docs'[d] # docs[d]
               PROVE  IF docs'[d] = Gone THEN docs[d].docstatus = 0
                      ELSE docs[d].docstatus # 2 /\ docs'[d].docstatus - docs[d].docstatus \in {0, 1}
    OBVIOUS
  <2>1. Next
    BY <1>1 DEF vars
  <2>2. CASE docs'[d] = Gone /\ docs[d].docstatus = 0
    BY <2>2
  <2>3. ASSUME NEW r \in Request, Merge(r), call[r].doc = d, docs'[d] = After(r), After(r) \in Content
        PROVE  docs'[d] # Gone /\ docs[d].docstatus # 2 /\ docs'[d].docstatus - docs[d].docstatus \in {0, 1}
    <3>1. Lattice(docs[d].docstatus, docs'[d].docstatus)
      BY <1>1, <2>3, MergePassed
    <3>2. docs[d] \in Content
      BY <1>1 DEF IInv, TypeOK, Exists
    <3>3. docs[d].docstatus \in 0 .. 2 /\ docs'[d].docstatus \in 0 .. 2
      BY <2>3, <3>2, ContentColumns
    <3> QED
      BY <2>3, <3>1, <3>3 DEF Lattice
  <2> QED
    BY <1>1, <2>1, <2>2, <2>3, Changes
<1>2. IInv /\ [Next]_vars => [\A d \in Doc : A(d)]_vars
  BY <1>1
<1>3. IInv /\ [Next]_vars =>
        [\A d \in Doc : Exists(d) /\ docs'[d] # docs[d] =>
            IF docs'[d] = Gone THEN docs[d].docstatus = 0
            ELSE docs[d].docstatus # 2 /\ docs'[d].docstatus - docs[d].docstatus \in {0, 1}]_vars
  BY <1>2
<1> QED
  BY Invariance, <1>3, PTL DEF Spec, LifeCycle

\* A submitted document is out of its owner's hands, also for a write that was prepared
\* while it was a draft.
THEOREM SubmittedKept == Spec => SubmittedIsNotTheOwners
<1>1. ASSUME IInv, [Next]_vars, NEW d \in Doc,
             Exists(d), docs[d].docstatus > 0, docs'[d] # docs[d]
      PROVE  \E r \in Request : Sends(r, d) /\ call[r].user \in Managers
  <2>1. Next
    BY <1>1 DEF vars
  <2>2. docs[d] \in Content /\ docs[d].docstatus \in 1 .. 2
    <3>1. docs[d] \in Content
      BY <1>1 DEF IInv, TypeOK, Exists
    <3> QED
      BY <1>1, <3>1, ContentColumns
  <2>3. PICK r \in Request : Merge(r) /\ call[r].doc = d /\ After(r) \in Content
    BY <1>1, <2>1, <2>2, Changes
  <2>4. /\ Sends(r, d) /\ MayUpdate(call[r].user, d, After(r))
        /\ Lattice(docs[d].docstatus, After(r).docstatus)
    BY <1>1, <2>3, MergePassed
  <2>5. After(r).docstatus # 0
    BY <2>2, <2>4 DEF Lattice
  <2> QED
    BY <2>4, <2>5 DEF MayUpdate
<1>2. IInv /\ [Next]_vars =>
        [\A d \in Doc : Exists(d) /\ docs[d].docstatus > 0 /\ docs'[d] # docs[d] =>
            \E r \in Request : Sends(r, d) /\ call[r].user \in Managers]_vars
  BY <1>1
<1> QED
  BY Invariance, <1>2, PTL DEF Spec, SubmittedIsNotTheOwners

\* Writes of disjoint columns stay disjoint: a column changes only by a statement whose
\* caller named it or whose script changed it.
THEOREM DisjointKept == Spec => DisjointStayDisjoint
<1>1. ASSUME IInv, [Next]_vars, NEW d \in Doc, NEW k \in Columns,
             Exists(d), docs'[d] # Gone, docs'[d] # docs[d], docs'[d][k] # docs[d][k]
      PROVE  \E r \in Request :
               Sends(r, d) /\ (k \in DOMAIN call[r].given \/ k \in plan[r].changed)
  <2>1. Next
    BY <1>1 DEF vars
  <2>2. PICK r \in Request : Merge(r) /\ call[r].doc = d /\ docs'[d] = After(r)
    BY <1>1, <2>1, Changes
  <2>3. Sends(r, d)
    BY <1>1, <2>2, MergePassed
  <2>4. docs[d] \in Content
    BY <1>1 DEF IInv, TypeOK, Exists
  <2>5. k \in DOMAIN docs[d]
    BY <2>4, ContentColumns DEF Columns
  <2>6. k \in DOMAIN plan[r].delta
    BY <1>1, <2>2, <2>5 DEF After, Over
  <2>7. k \in DOMAIN call[r].given \/ k \in plan[r].changed
    BY <1>1, <2>3, <2>6 DEF IInv, PlanShape, Sends
  <2> QED
    BY <2>3, <2>7
<1>2. IInv /\ [Next]_vars =>
        [\A d \in Doc, k \in Columns :
            Exists(d) /\ docs'[d] # Gone /\ docs'[d] # docs[d] /\ docs'[d][k] # docs[d][k] =>
              \E r \in Request :
                Sends(r, d) /\ (k \in DOMAIN call[r].given \/ k \in plan[r].changed)]_vars
  BY <1>1
<1> QED
  BY Invariance, <1>2, PTL DEF Spec, DisjointStayDisjoint

-----------------------------------------------------------------------------
(* The workflow.                                                             *)

\* The row of a document agrees with itself.
RowAgrees(row) == row.docstatus = IF row.state = Blank THEN 0 ELSE StatusOf[row.state]

\* What a merge puts over a row, column by column.
LEMMA OverRow ==
  ASSUME NEW p, NEW c \in Content
  PROVE  /\ Over(p, c).state = IF "state" \in DOMAIN p THEN p["state"] ELSE c.state
         /\ Over(p, c).docstatus = IF "docstatus" \in DOMAIN p THEN p["docstatus"] ELSE c.docstatus
<1>1. DOMAIN c = Columns
  BY ContentColumns
<1> QED
  BY <1>1 DEF Over, Columns

\* A merge that is whole writes both columns by a transition, or neither.
LEMMA MergeAgrees ==
  ASSUME IInv, NEW r \in Request, Merge(r), NEW d \in Doc, call[r].doc = d,
         StateAndStatusAgree, ~past'[d].apart
  PROVE  RowAgrees(After(r))
<1>1. pc[r] = "update" /\ docs[d] \in Content /\ past \in [Doc -> History] /\ Exists(d)
  BY DEF Merge, Accepted, IInv, TypeOK, Exists
<1>2. ~past[d].apart /\ Together(r)
  <2>1. past'[d] = Noted(past[d], plan[r], ~Together(r))
    BY <1>1 DEF Merge
  <2>2. past[d] \in History
    BY <1>1
  <2> QED
    BY <2>1, <2>2 DEF History, Noted
<1>3. RowAgrees(docs[d])
  BY <1>1, <1>2 DEF StateAndStatusAgree, RowAgrees
<1> DEFINE delta == plan[r].delta  given == call[r].given
<1>4. /\ DOMAIN given \subseteq DOMAIN delta \cup plan[r].changed
      /\ \A k \in DOMAIN delta \ plan[r].changed : k \in DOMAIN given /\ delta[k] = given[k]
  BY <1>1 DEF IInv, PlanShape
<1>5. /\ After(r).state = IF "state" \in DOMAIN delta THEN delta["state"] ELSE docs[d].state
      /\ After(r).docstatus =
           IF "docstatus" \in DOMAIN delta THEN delta["docstatus"] ELSE docs[d].docstatus
  BY <1>1, OverRow DEF After
<1>6. CASE call[r].took = NoTransition
  <2>1. After(r)["state"] = docs[d]["state"] /\ After(r)["docstatus"] = docs[d]["docstatus"]
    BY <1>2, <1>6 DEF Together
  <2> QED
    BY <1>3, <2>1 DEF RowAgrees
<1>7. CASE call[r].took # NoTransition
  <2> DEFINE t == call[r].took
  <2>1. t \in Transitions /\ given = Proposed(t)
    BY <1>1, <1>7 DEF IInv, CallShape
  <2>2. /\ "state" \in DOMAIN given /\ given["state"] = t.to
        /\ "docstatus" \in DOMAIN given /\ given["docstatus"] = StatusOf[t.to]
    BY <2>1 DEF Proposed
  <2>3. "state" \notin plan[r].changed /\ "docstatus" \notin plan[r].changed
    BY <1>2, <1>7 DEF Together
  <2>4. /\ delta["state"] = t.to /\ "state" \in DOMAIN delta
        /\ delta["docstatus"] = StatusOf[t.to] /\ "docstatus" \in DOMAIN delta
    BY <1>4, <2>2, <2>3
  <2>5. After(r).state = t.to /\ After(r).docstatus = StatusOf[t.to]
    BY <1>5, <2>4
  <2>6. t.to # Blank
    BY <2>1, DocWriteAssumption DEF DocWriteAssumption
  <2> QED
    BY <2>5, <2>6 DEF RowAgrees
<1> QED
  BY <1>6, <1>7

\* A created document has not entered the workflow, or was written apart.
LEMMA CreateAgrees ==
  ASSUME IInv, NEW r \in Request, NEW u \in User, NEW p \in Born, Create(r, u, p),
         NEW d \in Doc, docs[d] = NoDoc, docs'[d] # NoDoc, ~past'[d].apart
  PROVE  RowAgrees(docs'[d])
<1>1. PICK e \in Doc, before_insert \in Scripts, validate \in Scripts :
        Made(r, u, p, e, Planned(Nothing, Ran(before_insert, p), validate))
  BY CreateMakes
<1> DEFINE sends == Planned(Nothing, Ran(before_insert, p), validate)
           delta == sends.delta
           row == Over(delta, Default)
           b == DOMAIN delta \cap {"state", "docstatus"} # {}
<1>2. docs \in [Doc -> Content \cup {NoDoc, Gone}] /\ past \in [Doc -> History]
  BY DEF IInv, TypeOK
<1>3. /\ docs' = [docs EXCEPT ![e] = row]
      /\ past' = [past EXCEPT ![e] = Noted(past[e], sends, b)]
  BY <1>1 DEF Made
<1>4. /\ row.state = IF "state" \in DOMAIN delta THEN delta["state"] ELSE Blank
      /\ row.docstatus = IF "docstatus" \in DOMAIN delta THEN delta["docstatus"] ELSE 0
  BY OverRow, DefaultIsContent DEF Default
<1> HIDE DEF sends, row, b
<1>5. e = d /\ docs'[d] = row
  BY <1>2, <1>3
<1>6. b => past'[d].apart
  <2>1. past[d] \in History
    BY <1>2
  <2> QED
    BY <1>2, <1>3, <1>5, <2>1 DEF History, Noted
<1> QED
  BY <1>4, <1>5, <1>6 DEF b, RowAgrees

\* The mark of a write apart stays.
LEMMA ApartKept ==
  ASSUME IInv, [Next]_vars, NEW d \in Doc, docs'[d] = docs[d]
  PROVE  past[d].apart => past'[d].apart
<1>1. past \in [Doc -> History] /\ past[d] \in History
  BY DEF IInv, TypeOK
<1>2. ASSUME NEW r \in Request, Merge(r) PROVE past[d].apart => past'[d].apart
  <2> DEFINE e == call[r].doc
  <2>1. past' = [past EXCEPT ![e] = Noted(past[e], plan[r], ~Together(r))]
    BY <1>2 DEF Merge
  <2> HIDE DEF e
  <2> QED
    BY <1>1, <2>1 DEF History, Noted
<1>3. ASSUME NEW r \in Request, Notify(r) PROVE past'[d].apart = past[d].apart
  <2> DEFINE e == call[r].doc  more == Cardinality(fires[r] \cap {1})
  <2>1. past' = [past EXCEPT ![e].submits = @ + more]
    BY <1>3 DEF Notify
  <2> HIDE DEF e, more
  <2> QED
    BY <1>1, <2>1 DEF History
<1>4. ASSUME NEW r \in Request, Abandon(r) PROVE past'[d].apart = past[d].apart
  <2> DEFINE e == call[r].doc
  <2>1. past' = past \/ past' = [past EXCEPT ![e].untold = TRUE]
    BY <1>4 DEF Abandon
  <2> HIDE DEF e
  <2> QED
    BY <1>1, <2>1 DEF History
<1>5. ASSUME NEW r \in Request, NEW u \in User, NEW p \in Born, Create(r, u, p)
      PROVE  past[d].apart => past'[d].apart
  <2>1. PICK e \in Doc, before_insert \in Scripts, validate \in Scripts :
          Made(r, u, p, e, Planned(Nothing, Ran(before_insert, p), validate))
    BY <1>5, CreateMakes
  <2> DEFINE sends == Planned(Nothing, Ran(before_insert, p), validate)
             row == Over(sends.delta, Default)
  <2>2. row \in Content
    <3>1. Typed(Ran(before_insert, p))
      BY PartIsTyped, RanColumns
    <3>2. Typed(sends.delta)
      BY <3>1, NothingTyped, PlannedColumns
    <3> QED
      BY <3>2, TypedOver, DefaultIsContent
  <2>3. row # NoDoc
    BY <2>2, AbsenceAssumption DEF AbsenceAssumption
  <2>4. docs[e] = NoDoc /\ docs' = [docs EXCEPT ![e] = row] /\ \E h : past' = [past EXCEPT ![e] = h]
    BY <2>1 DEF Made
  <2> HIDE DEF row
  <2>5. e # d
    BY <2>3, <2>4 DEF IInv, TypeOK
  <2> QED
    BY <1>1, <2>4, <2>5
<1>6. \/ UNCHANGED past
      \/ \E r \in Request : Merge(r) \/ Notify(r) \/ Abandon(r)
      \/ \E r \in Request, u \in User, p \in Born : Create(r, u, p)
  BY DEF Next, vars, Judge, Write, WriteJudged, Prepare, Refused, Delete
<1> QED
  BY <1>2, <1>3, <1>4, <1>5, <1>6

\* workflow.rs: however transitions overtake one another, they leave a state and the
\* docstatus it stands for, in every document where no plain write, create or script has
\* written one of the two apart.
THEOREM StatesAgree == Spec => []StateAndStatusAgree
<1>1. Init => StateAndStatusAgree
  BY DEF Init, StateAndStatusAgree, Exists
<1>2. ASSUME IInv, StateAndStatusAgree, [Next]_vars PROVE StateAndStatusAgree'
  <2> SUFFICES ASSUME NEW d \in Doc, docs'[d] \notin {NoDoc, Gone}, ~past'[d].apart
               PROVE  RowAgrees(docs'[d])
    BY DEF StateAndStatusAgree, Exists, RowAgrees
  <2>1. CASE docs'[d] = docs[d]
    <3>1. ~past[d].apart
      BY <1>2, <2>1, ApartKept
    <3> QED
      BY <1>2, <2>1, <3>1 DEF StateAndStatusAgree, Exists, RowAgrees
  <2>2. CASE docs'[d] # docs[d] /\ Exists(d)
    <3>1. Next
      BY <1>2, <2>2 DEF vars
    <3>2. PICK r \in Request : Merge(r) /\ call[r].doc = d /\ docs'[d] = After(r)
      BY <1>2, <2>2, <3>1, Changes
    <3> QED
      BY <1>2, <3>2, MergeAgrees
  <2>3. CASE docs'[d] # docs[d] /\ ~Exists(d)
    <3>1. \E r \in Request, u \in User, p \in Born : Create(r, u, p) /\ docs[d] = NoDoc
      <4>1. docs \in [Doc -> Content \cup {NoDoc, Gone}]
        BY <1>2 DEF IInv, TypeOK
      <4>2. ASSUME NEW r \in Request, Merge(r) PROVE FALSE
        <5>1. docs' = [docs EXCEPT ![call[r].doc] = After(r)] /\ Exists(call[r].doc)
          BY <4>2 DEF Merge, Accepted
        <5> QED
          BY <2>3, <4>1, <5>1 DEF Exists
      <4>3. ASSUME NEW u \in User, NEW e \in Doc, Delete(u, e) PROVE FALSE
        BY <2>3, <4>1, <4>3 DEF Delete
      <4>4. ASSUME NEW r \in Request, NEW u \in User, NEW p \in Born, Create(r, u, p)
            PROVE  docs[d] = NoDoc
        BY <2>3, <4>1, <4>4 DEF Create
      <4>5. \/ UNCHANGED docs
            \/ \E r \in Request : Merge(r)
            \/ \E u \in User, e \in Doc : Delete(u, e)
            \/ \E r \in Request, u \in User, p \in Born : Create(r, u, p)
        BY <1>2 DEF Next, vars, Judge, Write, WriteJudged, Prepare, Refused, Notify, Abandon
      <4> QED
        BY <2>3, <4>2, <4>3, <4>4, <4>5
    <3> QED
      BY <1>2, <3>1, CreateAgrees
  <2> QED
    BY <2>1, <2>2, <2>3
<1>3. IInv /\ StateAndStatusAgree /\ [Next]_vars => StateAndStatusAgree'
  BY <1>2
<1> QED
  BY <1>1, <1>3, Invariance, PTL DEF Spec

-----------------------------------------------------------------------------
(* The rollups, which replay the changefeed of such a table.                 *)

HIDE AbsenceAssumption
HIDE PayloadAssumption
HIDE ScriptAssumption
HIDE DocWriteAssumption

-----------------------------------------------------------------------------
(* Least counterexamples.                                                    *)

\* Numbers: a set that has a predecessor of each of its members is empty.
LEMMA NoLeastNumber ==
  ASSUME NEW Bad \in SUBSET Nat, 0 \notin Bad, \A n \in Nat : n + 1 \in Bad => n \in Bad
  PROVE  Bad = {}
<1> SUFFICES ASSUME Bad # {} PROVE FALSE
  OBVIOUS
<1>1. PICK x \in Bad : \A y \in Bad : ~ (<<y, x>> \in OpToRel(<, Nat))
  BY NatLessThanWellFounded, WFMin, Zenon
<1>2. x \in Nat /\ x - 1 \in Nat /\ (x - 1) + 1 = x
  OBVIOUS
<1>3. x - 1 \in Bad
  BY <1>2
<1>4. <<x - 1, x>> \in OpToRel(<, Nat)
  BY <1>2 DEF OpToRel
<1> QED BY <1>1, <1>3, <1>4

\* Finite sets: likewise, one element less.
LEMMA NoLeastSet ==
  ASSUME NEW S, IsFiniteSet(S), NEW Bad \in SUBSET SUBSET S, {} \notin Bad,
         \A T \in SUBSET S, x \in S : x \notin T /\ T \cup {x} \in Bad => T \in Bad
  PROVE  Bad = {}
<1> DEFINE Sizes == {n \in Nat : \E T \in Bad : Cardinality(T) = n}
<1>1. \A T \in SUBSET S : IsFiniteSet(T) /\ Cardinality(T) \in Nat
  BY FS_Subset, FS_CardinalityType
<1>2. 0 \notin Sizes
  <2> SUFFICES ASSUME NEW T \in Bad, Cardinality(T) = 0 PROVE FALSE
    OBVIOUS
  <2> QED BY <1>1, FS_EmptySet
<1>3. ASSUME NEW n \in Nat, n + 1 \in Sizes PROVE n \in Sizes
  <2>1. PICK T \in Bad : Cardinality(T) = n + 1
    BY <1>3
  <2>2. IsFiniteSet(T) /\ T # {}
    BY <1>1, <2>1, FS_EmptySet
  <2>3. PICK x \in T : TRUE
    BY <2>2
  <2>4. Cardinality(T \ {x}) = n
    <3>1. Cardinality(T \ {x}) = Cardinality(T) - 1
      BY <2>2, FS_RemoveElement
    <3> QED BY <2>1, <3>1
  <2>5. (T \ {x}) \cup {x} = T /\ T \ {x} \in SUBSET S /\ x \in S
    OBVIOUS
  <2>6. T \ {x} \in Bad
    BY <2>5
  <2> QED BY <2>4, <2>6
<1>4. Sizes = {}
  <2> HIDE DEF Sizes
  <2>1. Sizes \in SUBSET Nat
    BY DEF Sizes
  <2> QED BY <1>2, <1>3, <2>1, NoLeastNumber
<1> QED BY <1>1, <1>4

-----------------------------------------------------------------------------
(* Sums: what the folds of SumFunction compute.                              *)

SumOn(f, S) == SumFunctionOnSet(f, S)

\* One step of the fold, given the sums of the smaller sets.
Step(f, g, s) == IF s = {} THEN 0 ELSE LET x == CHOOSE y \in s : TRUE IN f[x] + g[s \ {x}]
Sums(f, S, g) == g = [s \in SUBSET S |-> Step(f, g, s)]
TheSums(f, S) == CHOOSE g : Sums(f, S, g)

\* The fold, unfolded.
LEMMA SumIsAStep == ASSUME NEW f, NEW S PROVE SumOn(f, S) = TheSums(f, S)[S]
BY DEF SumOn, TheSums, Sums, Step, SumFunctionOnSet, FoldFunctionOnSet, MapThenFoldSet

\* There is such a function: sets of at most n elements have one, for every n.
LEMMA SumsExist ==
  ASSUME NEW S, IsFiniteSet(S), NEW f
  PROVE  \E g : Sums(f, S, g)
<1> DEFINE Good(n, g) == /\ g = [s \in SUBSET S |-> g[s]]
                         /\ \A s \in SUBSET S : Cardinality(s) <= n => g[s] = Step(f, g, s)
           Bad == {n \in Nat : ~ \E g : Good(n, g)}
<1>1. \A s \in SUBSET S : IsFiniteSet(s) /\ Cardinality(s) \in Nat /\ (Cardinality(s) = 0 <=> s = {})
  BY FS_Subset, FS_CardinalityType, FS_EmptySet
<1>2. \A s \in SUBSET S : \A x \in s : Cardinality(s \ {x}) = Cardinality(s) - 1
  BY <1>1, FS_RemoveElement
<1>3. 0 \notin Bad
  <2> DEFINE g == [s \in SUBSET S |-> 0]
  <2>1. Good(0, g)
    BY <1>1 DEF Step
  <2> QED BY <2>1
<1>4. ASSUME NEW n \in Nat, n \notin Bad PROVE n + 1 \notin Bad
  <2>1. PICK g : Good(n, g)
    BY <1>4
  <2> DEFINE h == [s \in SUBSET S |-> IF Cardinality(s) <= n THEN g[s] ELSE Step(f, g, s)]
  <2>2. ASSUME NEW s \in SUBSET S, Cardinality(s) <= n + 1 PROVE h[s] = Step(f, h, s)
    <3>1. CASE s = {}
      BY <1>1, <2>1, <3>1 DEF Step
    <3>2. CASE s # {}
      <4> DEFINE x == CHOOSE y \in s : TRUE
      <4>1. x \in s
        BY <3>2
      <4>2. s \ {x} \in SUBSET S /\ Cardinality(s \ {x}) <= n
        BY <1>1, <1>2, <2>2, <4>1
      <4>3. h[s \ {x}] = g[s \ {x}]
        BY <4>2
      <4>4. Step(f, h, s) = Step(f, g, s)
        BY <3>2, <4>3 DEF Step
      <4>5. h[s] = Step(f, g, s)
        BY <2>1
      <4> QED BY <4>4, <4>5
    <3> QED BY <3>1, <3>2
  <2>3. Good(n + 1, h)
    BY <2>2
  <2> QED BY <2>3
<1>5. Bad = {}
  <2>1. Bad \in SUBSET Nat /\ \A n \in Nat : n + 1 \in Bad => n \in Bad
    BY <1>4
  <2> HIDE DEF Bad
  <2> QED BY <1>3, <2>1, NoLeastNumber
<1>6. Cardinality(S) \in Nat
  BY <1>1
<1>7. PICK g : Good(Cardinality(S), g)
  BY <1>5, <1>6
<1>8. \A s \in SUBSET S : Cardinality(s) <= Cardinality(S)
  BY FS_Subset
<1>9. g = [s \in SUBSET S |-> Step(f, g, s)]
  BY <1>7, <1>8
<1> QED BY <1>9 DEF Sums

\* So the sums of the subsets of a finite set obey the fold's equation.
LEMMA TheSumsAre ==
  ASSUME NEW S, IsFiniteSet(S), NEW f
  PROVE  \A s \in SUBSET S : TheSums(f, S)[s] = Step(f, TheSums(f, S), s)
<1>1. Sums(f, S, TheSums(f, S))
  BY SumsExist DEF TheSums
<1> DEFINE g == TheSums(f, S)
<1>2. g = [s \in SUBSET S |-> Step(f, g, s)]
  BY <1>1 DEF Sums
<1> HIDE DEF g
<1>3. \A s \in SUBSET S : g[s] = Step(f, g, s)
  BY <1>2
<1> QED BY <1>3 DEF g

\* They are integers if what is summed is.
LEMMA TheSumsAreInt ==
  ASSUME NEW S, IsFiniteSet(S), NEW f, \A x \in S : f[x] \in Int
  PROVE  \A s \in SUBSET S : TheSums(f, S)[s] \in Int
<1> DEFINE g == TheSums(f, S)
<1>1. \A s \in SUBSET S : g[s] = Step(f, g, s)
  BY TheSumsAre
<1>2. ASSUME NEW n \in Nat,
             \A s \in SUBSET S : Cardinality(s) = n => g[s] \in Int
      PROVE  \A s \in SUBSET S : Cardinality(s) = n + 1 => g[s] \in Int
  <2> HIDE DEF g
  <2> TAKE s \in SUBSET S
  <2> HAVE Cardinality(s) = n + 1
  <2>1. IsFiniteSet(s) /\ s # {}
    BY FS_Subset, FS_EmptySet
  <2> DEFINE x == CHOOSE y \in s : TRUE
  <2>2. x \in s
    BY <2>1
  <2>3. Cardinality(s \ {x}) = Cardinality(s) - 1
    BY <2>1, <2>2, FS_RemoveElement
  <2>4. Cardinality(s \ {x}) = n
    BY <2>3
  <2>5. g[s \ {x}] \in Int
    BY <1>2, <2>4
  <2>6. g[s] = f[x] + g[s \ {x}]
    BY <1>1, <2>1 DEF Step
  <2> QED BY <2>2, <2>5, <2>6
<1> DEFINE Bad == {n \in Nat : ~ \A s \in SUBSET S : Cardinality(s) = n => g[s] \in Int}
<1>3. 0 \notin Bad
  <2>1. \A s \in SUBSET S : Cardinality(s) = 0 => s = {}
    BY FS_Subset, FS_EmptySet
  <2>2. g[{}] = 0
    BY <1>1 DEF Step
  <2> HIDE DEF g
  <2> QED BY <2>1, <2>2
<1>4. Bad = {}
  <2>1. Bad \in SUBSET Nat /\ \A n \in Nat : n + 1 \in Bad => n \in Bad
    BY <1>2
  <2> HIDE DEF Bad
  <2> QED BY <1>3, <2>1, NoLeastNumber
<1>5. \A s \in SUBSET S : Cardinality(s) \in Nat
  BY FS_Subset, FS_CardinalityType
<1> HIDE DEF g
<1>6. \A s \in SUBSET S : g[s] \in Int
  BY <1>4, <1>5
<1> QED BY <1>6 DEF g

\* The order does not matter: any element may be added last.
LEMMA AnyLast ==
  ASSUME NEW S, IsFiniteSet(S), NEW f, \A x \in S : f[x] \in Int
  PROVE  \A s \in SUBSET S : \A x \in s : TheSums(f, S)[s] = f[x] + TheSums(f, S)[s \ {x}]
<1> DEFINE g == TheSums(f, S)
           Good(s) == \A x \in s : g[s] = f[x] + g[s \ {x}]
<1>1. \A s \in SUBSET S : g[s] = Step(f, g, s)
  BY TheSumsAre
<1>2. \A s \in SUBSET S : g[s] \in Int
  BY TheSumsAreInt
<1>3. ASSUME NEW n \in Nat, \A s \in SUBSET S : Cardinality(s) = n => Good(s)
      PROVE  \A s \in SUBSET S : Cardinality(s) = n + 1 => Good(s)
  <2> HIDE DEF g
  <2> TAKE s \in SUBSET S
  <2> HAVE Cardinality(s) = n + 1
  <2>1. IsFiniteSet(s) /\ s # {}
    BY FS_Subset, FS_EmptySet
  <2> DEFINE c == CHOOSE y \in s : TRUE
  <2>2. c \in s
    BY <2>1
  <2>3. g[s] = f[c] + g[s \ {c}]
    BY <1>1, <2>1 DEF Step
  <2> HIDE DEF c
  <2> SUFFICES ASSUME NEW x \in s, x # c PROVE g[s] = f[x] + g[s \ {x}]
    BY <2>3
  <2>4. Cardinality(s \ {c}) = n /\ Cardinality(s \ {x}) = n
    <3>1. Cardinality(s \ {c}) = Cardinality(s) - 1 /\ Cardinality(s \ {x}) = Cardinality(s) - 1
      BY <2>1, <2>2, FS_RemoveElement
    <3> QED BY <3>1
  <2>5. x \in s \ {c} /\ c \in s \ {x} /\ (s \ {c}) \ {x} = (s \ {x}) \ {c}
    BY <2>2
  <2>6. g[s \ {c}] = f[x] + g[(s \ {c}) \ {x}]
    BY <1>3, <2>4, <2>5
  <2>7. g[s \ {x}] = f[c] + g[(s \ {x}) \ {c}]
    BY <1>3, <2>4, <2>5
  <2>8. f[x] \in Int /\ f[c] \in Int /\ g[(s \ {c}) \ {x}] \in Int
    BY <1>2, <2>2
  <2>9. g[(s \ {x}) \ {c}] = g[(s \ {c}) \ {x}]
    BY <2>5
  <2> DEFINE rest == g[(s \ {c}) \ {x}]
  <2>10. g[s] = f[c] + (f[x] + rest) /\ g[s \ {x}] = f[c] + rest
    BY <2>3, <2>6, <2>7, <2>9
  <2>11. f[x] \in Int /\ f[c] \in Int /\ rest \in Int
    BY <2>8
  <2> HIDE DEF rest
  <2> QED BY <2>10, <2>11
<1> DEFINE Bad == {n \in Nat : ~ \A s \in SUBSET S : Cardinality(s) = n => Good(s)}
<1>4. 0 \notin Bad
  <2>1. \A s \in SUBSET S : Cardinality(s) = 0 => s = {}
    BY FS_Subset, FS_EmptySet
  <2> QED BY <2>1
<1>5. Bad = {}
  <2>1. Bad \in SUBSET Nat /\ \A n \in Nat : n + 1 \in Bad => n \in Bad
    <3> HIDE DEF Good
    <3> QED BY <1>3
  <2> HIDE DEF Bad
  <2> QED BY <1>4, <2>1, NoLeastNumber
<1>6. \A s \in SUBSET S : Cardinality(s) \in Nat
  BY FS_Subset, FS_CardinalityType
<1>7. \A s \in SUBSET S : Good(s)
  <2> HIDE DEF Good
  <2> QED BY <1>5, <1>6
<1> QED BY <1>7

\* The sums of a subset do not depend on the set it is taken from.
LEMMA SameSums ==
  ASSUME NEW S, IsFiniteSet(S), NEW f, NEW h, NEW T \in SUBSET S, NEW U, IsFiniteSet(U), T \subseteq U,
         \A x \in T : f[x] = h[x], \A x \in T : f[x] \in Int,
         \A x \in S : f[x] \in Int, \A x \in U : h[x] \in Int
  PROVE  TheSums(f, S)[T] = TheSums(h, U)[T]
<1> DEFINE g == TheSums(f, S)
           k == TheSums(h, U)
           Bad == {s \in SUBSET T : g[s] # k[s]}
<1>1. /\ \A s \in SUBSET S : \A x \in s : g[s] = f[x] + g[s \ {x}]
      /\ \A s \in SUBSET U : \A x \in s : k[s] = h[x] + k[s \ {x}]
  BY AnyLast
<1>2. g[{}] = 0 /\ k[{}] = 0
  BY TheSumsAre DEF Step
<1> HIDE DEF g, k
<1>3. {} \notin Bad
  BY <1>2
<1>4. ASSUME NEW s \in SUBSET T, NEW x \in T, x \notin s, s \cup {x} \in Bad PROVE s \in Bad
  <2>1. (s \cup {x}) \ {x} = s
    BY <1>4
  <2>2. g[s \cup {x}] = f[x] + g[s]
    <3>1. s \cup {x} \in SUBSET S
      OBVIOUS
    <3> QED BY <1>1, <2>1, <3>1
  <2>3. k[s \cup {x}] = h[x] + k[s]
    <3>1. s \cup {x} \in SUBSET U
      OBVIOUS
    <3> QED BY <1>1, <2>1, <3>1
  <2> QED BY <1>4, <2>2, <2>3
<1>5. Bad = {}
  <2>1. IsFiniteSet(T) /\ Bad \in SUBSET SUBSET T
    BY FS_Subset
  <2>2. \A s \in SUBSET T, x \in T : x \notin s /\ s \cup {x} \in Bad => s \in Bad
    BY <1>4
  <2> HIDE DEF Bad
  <2> QED BY <1>3, <2>1, <2>2, NoLeastSet
<1>6. g[T] = k[T]
  BY <1>5
<1> QED BY <1>6 DEF g, k

\* Nothing sums to nothing.
LEMMA SumOfNone == ASSUME NEW f PROVE SumOn(f, {}) = 0
<1>1. IsFiniteSet({})
  BY FS_EmptySet
<1> QED BY <1>1, TheSumsAre, SumIsAStep DEF Step

\* A sum of integers is one.
LEMMA SumIsInt ==
  ASSUME NEW S, IsFiniteSet(S), NEW f, \A x \in S : f[x] \in Int
  PROVE  SumOn(f, S) \in Int
BY SumIsAStep, TheSumsAreInt

\* Functions that agree have the same sum.
LEMMA SumAgrees ==
  ASSUME NEW S, IsFiniteSet(S), NEW f, NEW h, \A x \in S : f[x] = h[x] /\ f[x] \in Int
  PROVE  SumOn(f, S) = SumOn(h, S)
<1>1. TheSums(f, S)[S] = TheSums(h, S)[S]
  BY SameSums
<1> QED BY <1>1, SumIsAStep

\* One element more.
LEMMA SumOfOneMore ==
  ASSUME NEW S, IsFiniteSet(S), NEW x, x \notin S, NEW f, \A y \in S \cup {x} : f[y] \in Int
  PROVE  SumOn(f, S \cup {x}) = SumOn(f, S) + f[x]
<1> DEFINE T == S \cup {x}
<1>1. IsFiniteSet(T)
  BY FS_AddElement
<1>2. TheSums(f, T)[T] = f[x] + TheSums(f, T)[T \ {x}]
  BY <1>1, AnyLast
<1>3. T \ {x} = S
  OBVIOUS
<1>4. TheSums(f, T)[S] = TheSums(f, S)[S]
  BY <1>1, SameSums
<1>5. TheSums(f, S)[S] \in Int
  BY TheSumsAreInt
<1>6. SumOn(f, T) = TheSums(f, T)[T] /\ SumOn(f, S) = TheSums(f, S)[S]
  BY SumIsAStep
<1>7. TheSums(f, T)[T \ {x}] = TheSums(f, S)[S]
  BY <1>3, <1>4
<1>8. f[x] \in Int
  OBVIOUS
<1> HIDE DEF T
<1>9. SumOn(f, T) = f[x] + SumOn(f, S) /\ SumOn(f, S) \in Int
  BY <1>2, <1>5, <1>6, <1>7
<1>10. SumOn(f, T) = SumOn(f, S) + f[x]
  BY <1>8, <1>9
<1> QED BY <1>10 DEF T

\* A change at one place changes the sum by as much.
LEMMA SumChanges ==
  ASSUME NEW S, IsFiniteSet(S), NEW x \in S, NEW f, NEW h,
         \A y \in S : f[y] \in Int /\ h[y] \in Int,
         \A y \in S : y # x => f[y] = h[y]
  PROVE  SumOn(h, S) = SumOn(f, S) - f[x] + h[x]
<1> DEFINE T == S \ {x}
<1>1. IsFiniteSet(T) /\ x \notin T /\ T \cup {x} = S
  BY FS_Subset
<1>2. SumOn(f, T \cup {x}) = SumOn(f, T) + f[x]
  BY <1>1, SumOfOneMore
<1>3. SumOn(h, T \cup {x}) = SumOn(h, T) + h[x]
  BY <1>1, SumOfOneMore
<1>4. SumOn(f, T) = SumOn(h, T) /\ SumOn(f, T) \in Int
  BY <1>1, SumAgrees, SumIsInt
<1>5. f[x] \in Int /\ h[x] \in Int
  OBVIOUS
<1>6. SumOn(f, S) = SumOn(f, T) + f[x] /\ SumOn(h, S) = SumOn(f, T) + h[x]
  BY <1>1, <1>2, <1>3, <1>4
<1> DEFINE rest == SumOn(f, T)
<1> HIDE DEF T
<1>7. rest \in Int
  BY <1>4
<1> HIDE DEF rest
<1>8. SumOn(f, S) = rest + f[x] /\ SumOn(h, S) = rest + h[x]
  BY <1>6 DEF rest
<1> QED BY <1>5, <1>7, <1>8

\* Zeros sum to zero.
LEMMA SumOfZeros ==
  ASSUME NEW S, IsFiniteSet(S), NEW f, \A x \in S : f[x] = 0
  PROVE  SumOn(f, S) = 0
<1> DEFINE Bad == {T \in SUBSET S : SumOn(f, T) # 0}
<1>1. {} \notin Bad
  BY SumOfNone
<1>2. ASSUME NEW T \in SUBSET S, NEW x \in S, x \notin T, T \cup {x} \in Bad PROVE T \in Bad
  <2>1. IsFiniteSet(T)
    BY FS_Subset
  <2>2. \A y \in T \cup {x} : f[y] \in Int
    OBVIOUS
  <2>3. SumOn(f, T \cup {x}) = SumOn(f, T) + f[x]
    BY <1>2, <2>1, <2>2, SumOfOneMore
  <2> QED BY <1>2, <2>3
<1>3. Bad = {}
  <2>1. Bad \in SUBSET SUBSET S /\ \A T \in SUBSET S, x \in S : x \notin T /\ T \cup {x} \in Bad => T \in Bad
    BY <1>2
  <2> HIDE DEF Bad
  <2> QED BY <1>1, <2>1, NoLeastSet
<1> QED BY <1>3

-----------------------------------------------------------------------------
(* The documents as of an entry, for a given feed and table.                 *)

Later(f, c, d) == {i \in DOMAIN f : f[i].vs > c /\ f[i].doc = d}
Back(f, s, c, d) == IF Later(f, c, d) = {} THEN s[d] ELSE f[Min(Later(f, c, d))].before

\* AsOf, now and after a step.
LEMMA AsOfIsBack ==
  ASSUME NEW c, NEW d
  PROVE  AsOf(c, d) = Back(feed, table, c, d)
BY DEF AsOf, Back, Later

\* A feed whose versionstamps follow one another from n + 1.
Counts(f, n) == f \in Seq(Entries) /\ \A i \in DOMAIN f : f[i].vs = n + i

\* The least of some positions is among them and below the others.
LEMMA MinIsLeast ==
  ASSUME NEW S \in SUBSET Nat, S # {}
  PROVE  Min(S) \in S /\ \A y \in S : Min(S) <= y
<1>1. PICK x \in S : \A y \in S : ~ (<<y, x>> \in OpToRel(<, Nat))
  BY NatLessThanWellFounded, WFMin, Zenon
<1>2. \A y \in S : ~ (y < x)
  BY <1>1 DEF OpToRel
<1>3. \E z \in S : \A y \in S : z <= y
  BY <1>2
<1> QED BY <1>3 DEF Min

\* Two numbers below each other are one.
LEMMA MinIsThis ==
  ASSUME NEW S \in SUBSET Nat, NEW x \in S, \A y \in S : x <= y
  PROVE  Min(S) = x
<1> DEFINE y == Min(S)
<1>1. y \in S /\ y <= x
  BY MinIsLeast
<1> HIDE DEF y
<1>2. y \in Nat /\ x \in Nat /\ x <= y
  BY <1>1
<1>3. y = x
  BY <1>1, <1>2
<1> QED BY <1>3 DEF y

\* Going back by one entry undoes it and nothing else.
LEMMA BackByOne ==
  ASSUME NEW n \in Nat, NEW f, Counts(f, n), NEW p \in DOMAIN f, NEW s, NEW d
  PROVE  Back(f, s, n + p - 1, d) = IF d = f[p].doc THEN f[p].before ELSE Back(f, s, n + p, d)
<1>1. DOMAIN f = 1 .. Len(f) /\ Len(f) \in Nat /\ \A i \in DOMAIN f : f[i].vs = n + i
  BY DEF Counts
<1>2. CASE d = f[p].doc
  <2> DEFINE S == Later(f, n + p - 1, d)
  <2>1. S \in SUBSET Nat /\ p \in S /\ \A y \in S : p <= y
    BY <1>1, <1>2 DEF Later
  <2> HIDE DEF S
  <2>2. Min(S) = p
    BY <2>1, MinIsThis
  <2> QED BY <1>2, <2>1, <2>2 DEF S, Back
<1>3. CASE d # f[p].doc
  <2>1. Later(f, n + p - 1, d) = Later(f, n + p, d)
    BY <1>1, <1>3 DEF Later
  <2> QED BY <1>3, <2>1 DEF Back
<1> QED BY <1>2, <1>3

\* A write changes no document as of an earlier entry.
LEMMA BackBeforeWrite ==
  ASSUME NEW n \in Nat, NEW f, Counts(f, n), NEW s, NEW e \in Entries,
         s \in [Record -> Version \cup {NoRecord}],
         e.vs = n + Len(f) + 1, e.before = s[e.doc],
         NEW c \in 0 .. n + Len(f), NEW d \in Record
  PROVE  Back(Append(f, e), [s EXCEPT ![e.doc] = e.after], c, d) = Back(f, s, c, d)
<1> DEFINE g == Append(f, e)
           t == [s EXCEPT ![e.doc] = e.after]
           m == Len(f) + 1
<1>1. /\ DOMAIN f = 1 .. Len(f) /\ Len(f) \in Nat
      /\ DOMAIN g = 1 .. m /\ g[m] = e /\ \A i \in DOMAIN f : g[i] = f[i] /\ f[i].vs = n + i
  BY DEF Counts
<1> c \in Nat /\ c <= n + Len(f)
  BY <1>1
<1>2. e.doc \in Record /\ t[e.doc] = e.after /\ \A x \in Record : x # e.doc => t[x] = s[x]
  BY DEF Entries
<1> HIDE DEF g, t
<1>3. CASE d # e.doc
  <2>1. Later(g, c, d) = Later(f, c, d)
    BY <1>1, <1>3 DEF Later
  <2>2. Later(f, c, d) \in SUBSET Nat /\ Later(f, c, d) \subseteq DOMAIN f
    BY <1>1 DEF Later
  <2>3. Later(f, c, d) # {} => Min(Later(f, c, d)) \in DOMAIN f
    BY <2>2, MinIsLeast
  <2>4. Back(g, t, c, d) = Back(f, s, c, d)
    BY <1>1, <1>2, <1>3, <2>1, <2>3 DEF Back
  <2> QED BY <2>4 DEF g, t
<1>4. CASE d = e.doc /\ Later(f, c, d) = {}
  <2>1. Later(g, c, d) = {m}
    BY <1>1, <1>4 DEF Later
  <2>2. Min({m}) = m
    <3>1. {m} \in SUBSET Nat /\ m \in {m} /\ \A y \in {m} : m <= y
      BY <1>1
    <3> QED BY <3>1, MinIsThis
  <2>3. Back(g, t, c, d) = e.before
    BY <1>1, <2>1, <2>2 DEF Back
  <2>4. Back(f, s, c, d) = s[d]
    BY <1>4 DEF Back
  <2> QED BY <1>4, <2>3, <2>4 DEF g, t
<1>5. CASE d = e.doc /\ Later(f, c, d) # {}
  <2> DEFINE S == Later(f, c, d)
             x == Min(S)
  <2>1. S \in SUBSET Nat /\ S \subseteq DOMAIN f /\ Later(g, c, d) = S \cup {m}
    BY <1>1, <1>5 DEF Later
  <2>2. x \in S /\ \A y \in S : x <= y
    BY <1>5, <2>1, MinIsLeast
  <2> HIDE DEF S, x
  <2>3. S \cup {m} \in SUBSET Nat /\ x \in S \cup {m} /\ \A y \in S \cup {m} : x <= y
    <3>1. x \in 1 .. Len(f) /\ m \in Nat /\ x <= m
      BY <1>1, <2>1, <2>2
    <3> HIDE DEF m
    <3> QED BY <2>1, <2>2, <3>1
  <2>4. Min(S \cup {m}) = x
    BY <2>3, MinIsThis
  <2>5. Back(g, t, c, d) = g[x].before
    BY <2>1, <2>2, <2>4 DEF Back
  <2>6. Back(f, s, c, d) = f[x].before
    BY <1>5 DEF Back, S, x
  <2>7. g[x] = f[x]
    BY <1>1, <2>1, <2>2
  <2> QED BY <2>5, <2>6, <2>7 DEF g, t
<1> QED BY <1>3, <1>4, <1>5

\* As of the last entry, a document is what the table has.
LEMMA BackFromEnd ==
  ASSUME NEW n \in Nat, NEW f, Counts(f, n), NEW s, NEW d
  PROVE  Back(f, s, n + Len(f), d) = s[d]
<1>1. Later(f, n + Len(f), d) = {}
  BY DEF Later, Counts
<1> QED BY <1>1 DEF Back

\* Dropping an entry that the position is past changes nothing.
LEMMA BackAfterTrim ==
  ASSUME NEW n \in Nat, NEW f, Counts(f, n), f # <<>>, NEW s, NEW d,
         NEW c \in Nat, n + 1 <= c
  PROVE  Back(Tail(f), s, c, d) = Back(f, s, c, d)
<1> DEFINE g == Tail(f)
           S == Later(f, c, d)
           T == Later(g, c, d)
<1>1. /\ DOMAIN f = 1 .. Len(f) /\ Len(f) \in Nat \ {0}
      /\ DOMAIN g = 1 .. Len(f) - 1 /\ \A i \in 1 .. Len(f) - 1 : g[i] = f[i + 1]
      /\ \A i \in DOMAIN f : f[i].vs = n + i
  BY DEF Counts
<1>2. \A i \in DOMAIN g : i \in T <=> i + 1 \in S
  BY <1>1 DEF Later
<1>3. \A i \in S : i - 1 \in DOMAIN g /\ i - 1 \in T
  BY <1>1 DEF Later
<1>4. S \in SUBSET Nat /\ T \in SUBSET Nat /\ T \subseteq DOMAIN g
  BY <1>1 DEF Later
<1> HIDE DEF S, T, g
<1>5. CASE S = {}
  <2>1. T = {}
    BY <1>2, <1>4, <1>5
  <2> QED BY <1>5, <2>1 DEF Back, S, T, g
<1>6. CASE S # {}
  <2> DEFINE x == Min(S)
  <2>1. x \in S /\ \A y \in S : x <= y
    BY <1>4, <1>6, MinIsLeast
  <2> HIDE DEF x
  <2>2. x - 1 \in T /\ \A y \in T : x - 1 <= y
    BY <1>2, <1>3, <1>4, <2>1
  <2>3. Min(T) = x - 1
    BY <1>4, <2>2, MinIsThis
  <2>4. g[x - 1] = f[x]
    <3>1. x \in Nat /\ x - 1 \in DOMAIN g
      BY <1>3, <1>4, <2>1
    <3>2. x - 1 \in 1 .. Len(f) - 1 /\ (x - 1) + 1 = x
      BY <1>1, <3>1
    <3> QED BY <1>1, <3>2
  <2>5. Back(f, s, c, d) = f[x].before
    BY <1>6 DEF Back, S, x
  <2>6. Back(g, s, c, d) = g[x - 1].before
    BY <2>2, <2>3 DEF Back, T
  <2> QED BY <2>4, <2>5, <2>6 DEF g
<1> QED BY <1>5, <1>6

-----------------------------------------------------------------------------
(* The fold of a batch.                                                      *)

DocSum(f, s, c) == SumOn([d \in Record |-> Worth(Back(f, s, c, d))], Record)
BucketSum(f, s, c, k) == SumOn([d \in Record |-> WorthIn(k, Back(f, s, c, d))], Record)

Exact ==
  Whole =>
    /\ SumOn(bucket, Key) = DocSum(feed, table, cursor)
    /\ moves = 0 => \A k \in Key : bucket[k] = BucketSum(feed, table, cursor, k)

\* The property, with its sums and versions named, now and after a step.
LEMMA ExactIsTheProperty ==
  /\ RollupTypeOK => (NothingLostOrDoubled <=> Exact)
  /\ RollupTypeOK' => (NothingLostOrDoubled' <=> Exact')
<1>1. RollupTypeOK => (NothingLostOrDoubled <=> Exact)
  BY DEF RollupTypeOK, NothingLostOrDoubled, Exact, DocSum, BucketSum, SumOn, SumFunction,
         AsOf, Back, Later
<1>2. RollupTypeOK' => (NothingLostOrDoubled' <=> Exact')
  BY DEF RollupTypeOK, NothingLostOrDoubled, Exact, DocSum, BucketSum, SumOn, SumFunction,
         AsOf, Back, Later
<1> QED BY <1>1, <1>2

\* Linked, likewise.
LinkedFeed ==
  /\ \A i \in DOMAIN feed : feed[i].after = Back(feed, table, feed[i].vs, feed[i].doc)
  /\ trims = 0 => Dropped = 0 /\ \A d \in Record : Back(feed, table, 0, d) = NoRecord

LEMMA LinkedIsTheFeeds == (Linked <=> LinkedFeed) /\ (Linked' <=> LinkedFeed')
<1>1. Linked <=> LinkedFeed
  BY DEF Linked, LinkedFeed, AsOf, Back, Later
<1>2. Linked' <=> LinkedFeed'
  BY DEF Linked, LinkedFeed, AsOf, Back, Later
<1> QED BY <1>1, <1>2

\* The parts of a version.
LEMMA VersionParts ==
  ASSUME NEW v \in Version
  PROVE  v.link \in Link /\ v.amount \in Int
<1>1. Amounts \subseteq Int
  BY RollupAssumption
<1>2. v.link \in Link /\ v.amount \in Amounts
  BY DEF Version
<1> DEFINE a == v.amount
<1>3. a \in Amounts
  BY <1>2
<1> HIDE DEF a
<1>4. a \in Int
  BY <1>1, <1>3
<1> QED BY <1>2, <1>4 DEF a

\* What a version is worth, and in a bucket, is an integer.
LEMMA WorthIsInt ==
  ASSUME NEW v \in Version \cup {NoRecord}, NEW k
  PROVE  Worth(v) \in Int /\ WorthIn(k, v) \in Int
BY VersionParts DEF Worth, WorthIn

\* Going back yields versions.
LEMMA BackIsVersion ==
  ASSUME NEW n \in Nat, NEW f, Counts(f, n), NEW s, s \in [Record -> Version \cup {NoRecord}],
         NEW c, NEW d \in Record
  PROVE  Back(f, s, c, d) \in Version \cup {NoRecord}
<1>1. Later(f, c, d) \in SUBSET Nat /\ Later(f, c, d) \subseteq DOMAIN f
  BY DEF Counts, Later
<1>2. Later(f, c, d) # {} => Min(Later(f, c, d)) \in DOMAIN f
  BY <1>1, MinIsLeast
<1>3. \A i \in DOMAIN f : f[i].before \in Version \cup {NoRecord}
  <2>1. \A i \in DOMAIN f : f[i] \in Entries
    BY DEF Counts
  <2>2. \A e \in Entries : e.before \in Version \cup {NoRecord}
    BY DEF Entries
  <2> QED BY <2>1, <2>2
<1> QED BY <1>2, <1>3 DEF Back

\* Spread over the keys, an amount at one of them adds that amount.
LEMMA OneKeyAdds ==
  ASSUME IsFiniteSet(Key), NEW g, \A k \in Key : g[k] \in Int,
         NEW h, \A k \in Key : h[k] \in Int, NEW a \in Int,
         \/ a = 0 /\ \A k \in Key : h[k] = g[k]
         \/ \E j \in Key : h[j] = g[j] + a /\ \A k \in Key : k # j => h[k] = g[k]
  PROVE  SumOn(h, Key) = SumOn(g, Key) + a
<1>1. SumOn(g, Key) \in Int
  BY SumIsInt
<1>2. CASE a = 0 /\ \A k \in Key : h[k] = g[k]
  <2>1. SumOn(g, Key) = SumOn(h, Key)
    BY <1>2, SumAgrees
  <2> QED BY <1>1, <1>2, <2>1
<1>3. ASSUME NEW j \in Key, h[j] = g[j] + a, \A k \in Key : k # j => h[k] = g[k]
      PROVE  SumOn(h, Key) = SumOn(g, Key) + a
  <2>1. SumOn(h, Key) = SumOn(g, Key) - g[j] + h[j]
    BY <1>3, SumChanges
  <2>2. g[j] \in Int /\ h[j] \in Int
    OBVIOUS
  <2> QED BY <1>1, <1>3, <2>1, <2>2
<1> QED BY <1>2, <1>3

\* When nothing is unknown, every version of the batch has a key: the current one unless
\* a customer has moved.
LEMMA KeysAreKnown ==
  ASSUME RollupTypeOK, Remembered, NEW w \in Worker, Unknown(w) = {},
         NEW v \in Folded(w), v \in Version
  PROVE  /\ KeyOf(w, v) \in Key
         /\ moves = 0 => KeyOf(w, v) = CurrentKey(v)
<1>1. v.link \in Link
  BY DEF Version
<1>2. CASE ByHop
  <2>1. memo[w][v.link] # NoKey
    BY <1>1, <1>2 DEF Unknown
  <2>2. memo[w][v.link] \in Key \cup {NoKey}
    BY <1>1 DEF RollupTypeOK
  <2>3. moves = 0 => memo[w][v.link] \in {NoKey, group[v.link]}
    BY <1>1 DEF Remembered
  <2> QED BY <1>2, <2>1, <2>2, <2>3 DEF KeyOf, CurrentKey
<1>3. CASE ~ ByHop
  BY <1>1, <1>3, RollupAssumption DEF KeyOf, CurrentKey
<1> QED BY <1>2, <1>3

\* What such a version counts for.
LEMMA ContribIsWorth ==
  ASSUME RollupTypeOK, Remembered, NEW w \in Worker, Unknown(w) = {},
         NEW v \in Version \cup {NoRecord}, v # NoRecord => v \in Folded(w)
  PROVE  /\ \A k \in Key : Contrib(w, v, k) \in Int
         /\ moves = 0 => \A k \in Key : Contrib(w, v, k) = WorthIn(k, v)
         /\ Worth(v) \in Int
         /\ \/ Worth(v) = 0 /\ \A k \in Key : Contrib(w, v, k) = 0
            \/ \E j \in Key : /\ Contrib(w, v, j) = Worth(v)
                              /\ \A k \in Key : k # j => Contrib(w, v, k) = 0
<1>1. Worth(v) \in Int
  BY WorthIsInt
<1>2. CASE v = NoRecord
  BY <1>1, <1>2 DEF Contrib, WorthIn, Worth
<1>3. CASE v # NoRecord
  <2>1. v.amount \in Int
    BY <1>3, VersionParts
  <2>2. KeyOf(w, v) \in Key /\ (moves = 0 => KeyOf(w, v) = CurrentKey(v))
    BY <1>3, KeysAreKnown
  <2>3. \A k \in Key : Contrib(w, v, k) = IF KeyOf(w, v) = k THEN v.amount ELSE 0
    BY <1>3 DEF Contrib
  <2>4. \A k \in Key : WorthIn(k, v) = IF CurrentKey(v) = k THEN v.amount ELSE 0
    BY <1>3 DEF WorthIn
  <2>5. Worth(v) = v.amount
    BY <1>3 DEF Worth
  <2> QED BY <1>1, <2>1, <2>2, <2>3, <2>4, <2>5
<1> QED BY <1>2, <1>3

\* Of the feed as it is.
LEMMA FeedCounts ==
  ASSUME RollupTypeOK, Numbered
  PROVE  /\ Dropped \in Nat /\ Counts(feed, Dropped)
         /\ Dropped + Len(feed) = written /\ DOMAIN feed = 1 .. Len(feed) /\ Len(feed) \in Nat
<1>1. written \in Nat /\ feed \in Seq(Entries)
  BY DEF RollupTypeOK
<1>2. Len(feed) \in Nat /\ DOMAIN feed = 1 .. Len(feed)
  BY <1>1
<1>3. Dropped \in Nat /\ Dropped + Len(feed) = written
  BY <1>1, <1>2 DEF Numbered, Dropped
<1> QED BY <1>1, <1>2, <1>3 DEF Counts, Numbered

\* One entry further, the documents are worth what the entry makes of its document.
LEMMA DocsByOne ==
  ASSUME RollupTypeOK, Numbered, LinkedFeed, NEW p \in DOMAIN feed
  PROVE  LET e == feed[p]
             c == Dropped + p
         IN  /\ DocSum(feed, table, c) =
                  DocSum(feed, table, c - 1) - Worth(e.before) + Worth(e.after)
             /\ \A k \in Key : BucketSum(feed, table, c, k) =
                  BucketSum(feed, table, c - 1, k) - WorthIn(k, e.before) + WorthIn(k, e.after)
<1> DEFINE e == feed[p]
           c == Dropped + p
           now(d) == Back(feed, table, c, d)
           old(d) == Back(feed, table, c - 1, d)
<1>1. Dropped \in Nat /\ Counts(feed, Dropped) /\ e.vs = c
  BY FeedCounts DEF Counts
<1>2. e.doc \in Record /\ e.before \in Version \cup {NoRecord} /\ e.after \in Version \cup {NoRecord}
  <2>1. e \in Entries
    BY DEF RollupTypeOK
  <2> HIDE DEF e
  <2> QED BY <2>1 DEF Entries
<1>3. \A d : old(d) = IF d = e.doc THEN e.before ELSE now(d)
  <2>1. p \in DOMAIN feed /\ Dropped \in Nat
    BY <1>1
  <2> TAKE d
  <2>2. Back(feed, table, Dropped + p - 1, d) =
          IF d = feed[p].doc THEN feed[p].before ELSE Back(feed, table, Dropped + p, d)
    BY <1>1, <2>1, BackByOne
  <2>3. c - 1 = Dropped + p - 1
    <3>1. p \in Nat
      BY FeedCounts
    <3> QED BY <2>1, <3>1
  <2>4. old(d) = Back(feed, table, Dropped + p - 1, d)
    BY <2>3
  <2> QED BY <2>2, <2>4
<1>4. now(e.doc) = e.after
  BY <1>1 DEF LinkedFeed
<1>5. \A d \in Record : now(d) \in Version \cup {NoRecord} /\ old(d) \in Version \cup {NoRecord}
  BY <1>1, BackIsVersion DEF RollupTypeOK
<1>6. IsFiniteSet(Record)
  BY RollupAssumption
<1> HIDE DEF e, c, now, old
<1>7. SumOn([d \in Record |-> Worth(now(d))], Record) =
        SumOn([d \in Record |-> Worth(old(d))], Record) - Worth(e.before) + Worth(e.after)
  <2> DEFINE f == [d \in Record |-> Worth(old(d))]
             h == [d \in Record |-> Worth(now(d))]
  <2>1. \A d \in Record : f[d] \in Int /\ h[d] \in Int
    BY <1>5, WorthIsInt
  <2>2. \A d \in Record : d # e.doc => f[d] = h[d]
    BY <1>3
  <2>3. f[e.doc] = Worth(e.before) /\ h[e.doc] = Worth(e.after)
    BY <1>2, <1>3, <1>4
  <2> HIDE DEF f, h
  <2>4. SumOn(h, Record) = SumOn(f, Record) - f[e.doc] + h[e.doc]
    BY <1>2, <1>6, <2>1, <2>2, SumChanges
  <2>5. SumOn(h, Record) = SumOn(f, Record) - Worth(e.before) + Worth(e.after)
    BY <2>3, <2>4
  <2> QED BY <2>5 DEF f, h
<1>8. ASSUME NEW k \in Key
      PROVE  SumOn([d \in Record |-> WorthIn(k, now(d))], Record) =
        SumOn([d \in Record |-> WorthIn(k, old(d))], Record) - WorthIn(k, e.before) + WorthIn(k, e.after)
  <2> DEFINE f == [d \in Record |-> WorthIn(k, old(d))]
             h == [d \in Record |-> WorthIn(k, now(d))]
  <2>1. \A d \in Record : f[d] \in Int /\ h[d] \in Int
    BY <1>5, WorthIsInt
  <2>2. \A d \in Record : d # e.doc => f[d] = h[d]
    BY <1>3
  <2>3. f[e.doc] = WorthIn(k, e.before) /\ h[e.doc] = WorthIn(k, e.after)
    BY <1>2, <1>3, <1>4
  <2> HIDE DEF f, h
  <2>4. SumOn(h, Record) = SumOn(f, Record) - f[e.doc] + h[e.doc]
    BY <1>2, <1>6, <2>1, <2>2, SumChanges
  <2>5. SumOn(h, Record) = SumOn(f, Record) - WorthIn(k, e.before) + WorthIn(k, e.after)
    BY <2>3, <2>4
  <2> QED BY <2>5 DEF f, h
<1> QED BY <1>7, <1>8 DEF e, c, now, old, DocSum, BucketSum

\* The buckets with the first m entries of a batch.
Signed(w, k) == [i \in DOMAIN batch[w] |->
  Contrib(w, batch[w][i].after, k) - Contrib(w, batch[w][i].before, k)]
Partial(w, m) == [k \in Key |-> bucket[k] + SumOn(Signed(w, k), 1 .. m)]

\* The versions of a batch are known when it can be committed.
LEMMA BatchIsKnown ==
  ASSUME RollupTypeOK, Remembered, NEW w \in Worker, Unknown(w) = {},
         NEW i \in DOMAIN batch[w]
  PROVE  /\ DOMAIN batch[w] = 1 .. Len(batch[w]) /\ Len(batch[w]) \in Nat
         /\ \A v \in {batch[w][i].before, batch[w][i].after} :
              v \in Version \cup {NoRecord} /\ (v # NoRecord => v \in Folded(w))
<1>1. batch[w] \in Seq(Entries)
  BY DEF RollupTypeOK
<1>2. batch[w][i] \in Entries
  BY <1>1
<1>3. \A v \in {batch[w][i].before, batch[w][i].after} : v \in Version \cup {NoRecord}
  BY <1>2 DEF Entries
<1>4. \A v \in {batch[w][i].before, batch[w][i].after} : v # NoRecord => v \in Folded(w)
  <2> TAKE v \in {batch[w][i].before, batch[w][i].after}
  <2> DEFINE S == {{batch[w][j].before, batch[w][j].after} : j \in DOMAIN batch[w]}
  <2>1. {batch[w][i].before, batch[w][i].after} \in S
    OBVIOUS
  <2> HIDE DEF S
  <2>2. v \in UNION S
    BY <2>1
  <2>3. Folded(w) = (UNION S) \ {NoRecord}
    BY DEF Folded, S
  <2> QED BY <2>2, <2>3
<1> QED BY <1>1, <1>3, <1>4

\* One entry more adds what it puts in and takes what it takes out.
LEMMA PartByOne ==
  ASSUME RollupTypeOK, Remembered, NEW w \in Worker, Unknown(w) = {},
         NEW m \in Nat, m + 1 \in DOMAIN batch[w], NEW k \in Key
  PROVE  /\ Partial(w, m)[k] \in Int
         /\ Partial(w, m + 1)[k] = Partial(w, m)[k] - Contrib(w, batch[w][m + 1].before, k)
                                              + Contrib(w, batch[w][m + 1].after, k)
<1> DEFINE f == Signed(w, k)
<1>1. DOMAIN batch[w] = 1 .. Len(batch[w]) /\ Len(batch[w]) \in Nat
  BY BatchIsKnown
<1>2. \A i \in DOMAIN batch[w] : /\ Contrib(w, batch[w][i].before, k) \in Int
                                 /\ Contrib(w, batch[w][i].after, k) \in Int
  BY BatchIsKnown, ContribIsWorth
<1>3. \A i \in DOMAIN batch[w] : f[i] \in Int
  BY <1>2 DEF Signed
<1>4. f[m + 1] = Contrib(w, batch[w][m + 1].after, k) - Contrib(w, batch[w][m + 1].before, k)
  BY DEF Signed
<1> HIDE DEF f
<1>5. IsFiniteSet(1 .. m) /\ m + 1 \notin 1 .. m /\ (1 .. m) \cup {m + 1} = 1 .. m + 1
  <2>1. IsFiniteSet(1 .. m)
    BY FS_Interval
  <2> QED BY <2>1
<1>6. \A i \in 1 .. m + 1 : f[i] \in Int
  BY <1>1, <1>3
<1>7. SumOn(f, 1 .. m + 1) = SumOn(f, 1 .. m) + f[m + 1]
  <2>1. SumOn(f, (1 .. m) \cup {m + 1}) = SumOn(f, 1 .. m) + f[m + 1]
    BY <1>5, <1>6, SumOfOneMore
  <2> QED BY <1>5, <2>1
<1>8. SumOn(f, 1 .. m) \in Int
  BY <1>5, <1>6, SumIsInt
<1>9. bucket[k] \in Int
  BY DEF RollupTypeOK
<1>10. Partial(w, m)[k] = bucket[k] + SumOn(f, 1 .. m) /\ Partial(w, m + 1)[k] = bucket[k] + SumOn(f, 1 .. m + 1)
  BY DEF Partial, f
<1>11. Contrib(w, batch[w][m + 1].before, k) \in Int /\ Contrib(w, batch[w][m + 1].after, k) \in Int
  BY <1>2
<1> DEFINE in == Contrib(w, batch[w][m + 1].after, k)
           out == Contrib(w, batch[w][m + 1].before, k)
           so == SumOn(f, 1 .. m)
<1>12. in \in Int /\ out \in Int /\ so \in Int /\ f[m + 1] = in - out
  BY <1>4, <1>8, <1>11
<1>13. SumOn(f, 1 .. m + 1) = so + f[m + 1]
  BY <1>7
<1> HIDE DEF in, out, so
<1>14. bucket[k] + (so + (in - out)) = (bucket[k] + so) - out + in
  BY <1>9, <1>12
<1> QED BY <1>9, <1>10, <1>12, <1>13, <1>14 DEF in, out, so

\* The batch that follows the cursor brings the buckets from the documents as of the cursor
\* to those as of its last entry.
LEMMA BatchFolds ==
  ASSUME RollupTypeOK, Numbered, LinkedFeed, KeptAhead, Taken, Remembered, Exact,
         Whole, NEW w \in Worker, ReadyToCommit(w)
  PROVE  LET last == cursor + Len(batch[w])
             after == [k \in Key |-> bucket[k] + Delta(w, k)]
         IN  /\ Advanced(w) = last
             /\ SumOn(after, Key) = DocSum(feed, table, last)
             /\ moves = 0 => \A k \in Key : after[k] = BucketSum(feed, table, last, k)
<1> DEFINE b == batch[w]
           N == Len(b)
           P(m) == /\ SumOn(Partial(w, m), Key) = DocSum(feed, table, cursor + m)
                   /\ moves = 0 => \A k \in Key : Partial(w, m)[k] = BucketSum(feed, table, cursor + m, k)
           Bad == {m \in Nat : m <= N /\ ~ P(m)}
<1>1. b \in Seq(Entries) /\ N \in Nat /\ DOMAIN b = 1 .. N
  BY DEF RollupTypeOK
<1>2. /\ b # <<>> /\ Unknown(w) = {}
      /\ \A i \in DOMAIN b : cursor + i - Dropped \in DOMAIN feed /\ b[i] = feed[cursor + i - Dropped]
  BY DEF ReadyToCommit, Taken
<1>3. Dropped \in Nat /\ cursor \in Nat /\ Dropped <= cursor /\ Counts(feed, Dropped)
  BY FeedCounts DEF RollupTypeOK, KeptAhead
<1>4. \A k \in Key : Partial(w, 0)[k] = bucket[k] /\ bucket[k] \in Int
  <2> TAKE k \in Key
  <2>1. 1 .. 0 = {}
    OBVIOUS
  <2>2. SumOn(Signed(w, k), 1 .. 0) = 0
    BY <2>1, SumOfNone
  <2>3. bucket[k] \in Int
    BY DEF RollupTypeOK
  <2> QED BY <2>2, <2>3 DEF Partial
<1>5. IsFiniteSet(Key)
  BY RollupAssumption
<1>6. 0 \notin Bad
  <2>1. SumOn(bucket, Key) = SumOn(Partial(w, 0), Key)
    BY <1>4, <1>5, SumAgrees
  <2>2. cursor + 0 = cursor
    BY <1>3
  <2> QED BY <1>4, <2>1, <2>2 DEF Exact
<1>7. ASSUME NEW m \in Nat, m + 1 <= N, P(m) PROVE P(m + 1)
  <2> DEFINE e == b[m + 1]
             p == cursor + (m + 1) - Dropped
  <2>1. m + 1 \in DOMAIN b /\ p \in DOMAIN feed /\ e = feed[p]
    BY <1>1, <1>2, <1>7
  <2>2. Dropped + p = cursor + (m + 1) /\ (Dropped + p) - 1 = cursor + m
    BY <1>3, <1>7
  <2>3. /\ DocSum(feed, table, cursor + (m + 1)) =
             DocSum(feed, table, cursor + m) - Worth(e.before) + Worth(e.after)
        /\ \A k \in Key : BucketSum(feed, table, cursor + (m + 1), k) =
             BucketSum(feed, table, cursor + m, k) - WorthIn(k, e.before) + WorthIn(k, e.after)
    <3> HIDE DEF p
    <3> QED BY <2>1, <2>2, DocsByOne
  <2>4. \A v \in {e.before, e.after} : v \in Version \cup {NoRecord} /\ (v # NoRecord => v \in Folded(w))
    BY <1>2, <2>1, BatchIsKnown
  <2> DEFINE in(k) == Contrib(w, e.after, k)
             out(k) == Contrib(w, e.before, k)
             g == Partial(w, m)
             h == [k \in Key |-> g[k] - out(k)]
             j == Partial(w, m + 1)
  <2>5. \A k \in Key : g[k] \in Int /\ j[k] = g[k] - out(k) + in(k)
    BY <1>2, <2>1, PartByOne
  <2>6. /\ \A k \in Key : out(k) \in Int
        /\ moves = 0 => \A k \in Key : out(k) = WorthIn(k, e.before)
        /\ Worth(e.before) \in Int
        /\ \/ Worth(e.before) = 0 /\ \A k \in Key : out(k) = 0
           \/ \E l \in Key : out(l) = Worth(e.before) /\ \A k \in Key : k # l => out(k) = 0
    BY <1>2, <2>4, ContribIsWorth
  <2>7. /\ \A k \in Key : in(k) \in Int
        /\ moves = 0 => \A k \in Key : in(k) = WorthIn(k, e.after)
        /\ Worth(e.after) \in Int
        /\ \/ Worth(e.after) = 0 /\ \A k \in Key : in(k) = 0
           \/ \E l \in Key : in(l) = Worth(e.after) /\ \A k \in Key : k # l => in(k) = 0
    BY <1>2, <2>4, ContribIsWorth
  <2> HIDE DEF in, out, g, j, e, P, p, b, N
  <2>8. \A k \in Key : h[k] = g[k] - out(k) /\ h[k] \in Int /\ j[k] = h[k] + in(k) /\ j[k] \in Int
    BY <2>5, <2>6, <2>7
  <2> HIDE DEF h
  <2>9. SumOn(h, Key) = SumOn(g, Key) + (0 - Worth(e.before))
    <3> DEFINE a == 0 - Worth(e.before)
    <3>1. a \in Int /\ \A k \in Key : g[k] \in Int /\ h[k] \in Int
      BY <2>5, <2>6, <2>8
    <3>2. \/ a = 0 /\ \A k \in Key : h[k] = g[k]
          \/ \E l \in Key : h[l] = g[l] + a /\ \A k \in Key : k # l => h[k] = g[k]
      BY <2>5, <2>6, <2>8
    <3> HIDE DEF a
    <3>3. SumOn(h, Key) = SumOn(g, Key) + a
      BY <1>5, <3>1, <3>2, OneKeyAdds
    <3> QED BY <3>3 DEF a
  <2>10. SumOn(j, Key) = SumOn(h, Key) + Worth(e.after)
    <3>1. \/ Worth(e.after) = 0 /\ \A k \in Key : j[k] = h[k]
          \/ \E l \in Key : j[l] = h[l] + Worth(e.after) /\ \A k \in Key : k # l => j[k] = h[k]
      BY <2>7, <2>8
    <3> QED BY <1>5, <2>7, <2>8, <3>1, OneKeyAdds
  <2>11. SumOn(g, Key) \in Int
    BY <1>5, <2>5, SumIsInt
  <2>12. SumOn(g, Key) = DocSum(feed, table, cursor + m)
    BY <1>7 DEF P, g
  <2>13. SumOn(j, Key) = DocSum(feed, table, cursor + (m + 1))
    BY <2>3, <2>6, <2>7, <2>9, <2>10, <2>11, <2>12
  <2>14. ASSUME moves = 0, NEW k \in Key
         PROVE  j[k] = BucketSum(feed, table, cursor + (m + 1), k)
    <3>1. g[k] = BucketSum(feed, table, cursor + m, k)
      BY <1>7, <2>14 DEF P, g
    <3> QED BY <2>3, <2>5, <2>6, <2>7, <2>14, <3>1
  <2> QED BY <2>13, <2>14 DEF P, j
<1>8. Bad = {}
  <2>1. Bad \in SUBSET Nat /\ \A m \in Nat : m + 1 \in Bad => m \in Bad
    <3> HIDE DEF P
    <3> QED BY <1>1, <1>7
  <2> HIDE DEF Bad
  <2> QED BY <1>6, <2>1, NoLeastNumber
<1>9. P(N)
  <2> HIDE DEF P
  <2> QED BY <1>1, <1>8
<1>10. \A k \in Key : Delta(w, k) = SumOn(Signed(w, k), 1 .. N)
  BY <1>1 DEF Delta, SumFunction, SumOn, Signed
<1>11. Partial(w, N) = [k \in Key |-> bucket[k] + Delta(w, k)]
  BY <1>10 DEF Partial
<1>12. Advanced(w) = cursor + N
  <2>1. N \in DOMAIN b
    BY <1>1, <1>2
  <2>2. feed[cursor + N - Dropped].vs = Dropped + (cursor + N - Dropped)
    BY <1>2, <2>1 DEF Numbered
  <2>3. b[N].vs = cursor + N
    <3>1. b[N] = feed[cursor + N - Dropped]
      BY <1>2, <2>1
    <3>2. Dropped + (cursor + N - Dropped) = cursor + N
      BY <1>1, <1>2, <1>3
    <3> QED BY <2>2, <3>1, <3>2
  <2> QED BY <2>3 DEF Advanced
<1> QED BY <1>9, <1>11, <1>12

-----------------------------------------------------------------------------
(* The invariant, action by action.                                          *)

RollupParts ==
  /\ RollupTypeOK /\ Numbered /\ LinkedFeed /\ KeptAhead /\ Reading /\ Taken /\ Remembered
  /\ Exact

\* The invariant, with its sums and versions named.
LEMMA InvIsItsParts == (RollupInv <=> RollupParts) /\ (RollupInv' <=> RollupParts')
<1>1. RollupInv <=> RollupParts
  BY ExactIsTheProperty, LinkedIsTheFeeds DEF RollupInv, RollupParts
<1>2. RollupInv' <=> RollupParts'
  BY ExactIsTheProperty, LinkedIsTheFeeds DEF RollupInv, RollupParts
<1> QED BY <1>1, <1>2

\* Nothing has happened, and nothing is counted.
LEMMA RollupStarts ==
  ASSUME RollupInit
  PROVE  RollupParts
<1> USE DEF RollupInit
<1>1. RollupTypeOK
  BY DEF RollupTypeOK, Empty, NoMemo
<1>2. Numbered /\ KeptAhead /\ Reading /\ Taken /\ Remembered /\ Dropped = 0
  <2>1. Dropped = 0
    <3>1. written = 0
      OBVIOUS
    <3>2. Len(feed) = 0
      OBVIOUS
    <3>3. written - Len(feed) = 0
      BY ONLY <3>1, <3>2
    <3> QED BY ONLY <3>3 DEF Dropped
  <2>2. Numbered /\ KeptAhead
    BY <2>1 DEF Numbered, KeptAhead
  <2>3. Reading /\ Taken
    BY DEF Reading, Taken
  <2>4. Remembered
    BY DEF Remembered, NoMemo
  <2> QED BY <2>1, <2>2, <2>3, <2>4
<1>3. \A c, d : d \in Record => Back(feed, table, c, d) = NoRecord
  BY DEF Back, Later
<1>4. LinkedFeed
  BY <1>2, <1>3 DEF LinkedFeed
<1>5. IsFiniteSet(Key) /\ IsFiniteSet(Record)
  BY RollupAssumption
<1>6. SumOn(bucket, Key) = 0
  BY <1>5, SumOfZeros DEF Empty
<1>7. DocSum(feed, table, cursor) = 0
  <2> DEFINE f == [d \in Record |-> Worth(Back(feed, table, cursor, d))]
  <2>1. \A d \in Record : f[d] = 0
    BY <1>3 DEF Worth
  <2> HIDE DEF f
  <2>2. SumOn(f, Record) = 0
    BY <1>5, <2>1, SumOfZeros
  <2> QED BY <2>2 DEF f, DocSum
<1>8. ASSUME NEW k \in Key PROVE bucket[k] = BucketSum(feed, table, cursor, k)
  <2> DEFINE f == [d \in Record |-> WorthIn(k, Back(feed, table, cursor, d))]
  <2>1. \A d \in Record : f[d] = 0
    BY <1>3 DEF WorthIn
  <2> HIDE DEF f
  <2>2. SumOn(f, Record) = 0
    BY <1>5, <2>1, SumOfZeros
  <2>3. BucketSum(feed, table, cursor, k) = 0
    BY <2>2 DEF f, BucketSum
  <2> QED BY <2>3 DEF Empty
<1>9. Exact
  BY <1>6, <1>7, <1>8 DEF Exact
<1> QED BY <1>1, <1>2, <1>4, <1>9 DEF RollupParts

\* What a worker does by itself leaves what the tables say as it was.
LEMMA TablesStand ==
  ASSUME RollupParts,
         UNCHANGED <<table, group, feed, written, bucket, cursor, moves, resets, trims>>
  PROVE  Numbered' /\ LinkedFeed' /\ KeptAhead' /\ Exact'
<1>1. Numbered' /\ LinkedFeed' /\ KeptAhead'
  BY DEF RollupParts, Numbered, LinkedFeed, KeptAhead, Whole, Dropped, Back, Later
<1>2. DocSum(feed, table, cursor)' = DocSum(feed, table, cursor)
  OBVIOUS
<1>3. \A k \in Key : BucketSum(feed, table, cursor, k)' = BucketSum(feed, table, cursor, k)
  BY DEF BucketSum, WorthIn, CurrentKey
<1>4. Exact'
  BY <1>2, <1>3 DEF RollupParts, Exact, Whole
<1> QED BY <1>1, <1>4

\* A worker that ends its tick has nothing in hand.
LEMMA TickEnds ==
  ASSUME RollupParts, NEW w \in Worker, EndTick(w),
         UNCHANGED <<table, group, feed, written, bucket, cursor, moves, resets, trims>>,
         memo' \in [Worker -> [Link -> Key \cup {NoKey}]], Remembered', faults' \in Nat
  PROVE  RollupParts'
<1>1. RollupTypeOK'
  <2>1. stands' \in [Worker -> {"idle", "feed", "fold"}] /\ since' \in [Worker -> Nat]
    BY DEF RollupParts, RollupTypeOK, EndTick, StandAt
  <2>2. batch' \in [Worker -> Seq(Entries)]
    <3>1. <<>> \in Seq(Entries)
      OBVIOUS
    <3> QED BY <3>1 DEF RollupParts, RollupTypeOK, EndTick
  <2>3. RollupTypeOK
    BY DEF RollupParts
  <2> QED BY <2>1, <2>2, <2>3 DEF RollupTypeOK
<1>2. Reading' /\ Taken'
  BY DEF RollupParts, RollupTypeOK, EndTick, StandAt, Reading, Taken, Dropped, Whole
<1> QED BY <1>1, <1>2, TablesStand DEF RollupParts

\* A failed request, and a restart.
LEMMA TickFails ==
  ASSUME RollupParts, NEW w \in Worker, RequestFails(w) \/ Restart(w)
  PROVE  RollupParts'
<1>1. faults' \in Nat /\ EndTick(w)
  BY DEF RollupParts, RollupTypeOK, RequestFails, Restart, Fault
<1>2. UNCHANGED <<table, group, feed, written, bucket, cursor, moves, resets, trims>>
  BY DEF RequestFails, Restart, source, rollup
<1>3. memo' \in [Worker -> [Link -> Key \cup {NoKey}]] /\ Remembered'
  <2>1. memo \in [Worker -> [Link -> Key \cup {NoKey}]] /\ NoMemo \in [Link -> Key \cup {NoKey}]
    BY DEF RollupParts, RollupTypeOK, NoMemo
  <2>2. memo' = memo \/ memo' = [memo EXCEPT ![w] = NoMemo]
    BY DEF RequestFails, Restart
  <2>3. \A l \in Link : NoMemo[l] = NoKey
    BY DEF NoMemo
  <2>4. Remembered /\ group' = group /\ moves' = moves
    BY <1>2 DEF RollupParts
  <2>5. memo' \in [Worker -> [Link -> Key \cup {NoKey}]]
    BY <2>1, <2>2
  <2>6. Remembered'
    BY <2>1, <2>2, <2>3, <2>4 DEF Remembered
  <2> QED BY <2>5, <2>6
<1> QED BY <1>1, <1>2, <1>3, TickEnds

\* Reading the cursor.
LEMMA CursorRead ==
  ASSUME RollupParts, NEW w \in Worker, ReadCursor(w)
  PROVE  RollupParts'
<1> USE DEF ReadCursor, source, rollup, StandAt
<1>1. RollupTypeOK'
  BY DEF RollupParts, RollupTypeOK, From
<1>2. Reading' /\ Taken' /\ Remembered'
  BY DEF RollupParts, RollupTypeOK, From, Reading, Taken, Remembered, Dropped, Whole
<1>3. UNCHANGED <<table, group, feed, written, bucket, cursor, moves, resets, trims>>
  OBVIOUS
<1> QED BY <1>1, <1>2, <1>3, TablesStand DEF RollupParts

\* A look-up keeps the group of the customer.
LEMMA GroupLooked ==
  ASSUME RollupParts, NEW w \in Worker, NEW l \in Link, LookUp(w, l)
  PROVE  RollupParts'
<1> USE DEF LookUp, source, rollup
<1>1. RollupTypeOK'
  BY DEF RollupParts, RollupTypeOK
<1>2. Reading' /\ Taken' /\ Remembered'
  BY DEF RollupParts, RollupTypeOK, From, Reading, Taken, Remembered, Dropped, Whole
<1>3. UNCHANGED <<table, group, feed, written, bucket, cursor, moves, resets, trims>>
  OBVIOUS
<1> QED BY <1>1, <1>2, <1>3, TablesStand DEF RollupParts

\* What a worker reads is what follows the cursor.
LEMMA FeedRead ==
  ASSUME RollupParts, NEW w \in Worker, ReadFeed(w)
  PROVE  RollupParts'
<1>1. UNCHANGED <<table, group, feed, written, bucket, cursor, moves, resets, trims, memo, faults>>
  BY DEF ReadFeed, source, rollup
<1>2. Numbered' /\ LinkedFeed' /\ KeptAhead' /\ Exact'
  BY <1>1, TablesStand
<1>3. Remembered'
  BY <1>1 DEF RollupParts, Remembered
<1>4. CASE EndTick(w)
  <2>1. memo' \in [Worker -> [Link -> Key \cup {NoKey}]] /\ faults' \in Nat
    BY <1>1 DEF RollupParts, RollupTypeOK
  <2> QED BY <1>1, <1>3, <1>4, <2>1, TickEnds
<1>5. CASE /\ Handed(since[w]) # <<>> /\ batch' = [batch EXCEPT ![w] = Handed(since[w])]
           /\ StandAt(w, "fold") /\ UNCHANGED since
  <2> DEFINE ready == Pending(since[w])
             first == Min(ready)
             rest == {first + BatchLimit - 1, Len(feed)}
             last == Min(rest)
             b == SubSeq(feed, first, last)
  <2>0. ready # {} /\ b = Handed(since[w])
    BY <1>5 DEF Handed
  <2>1. stands[w] = "feed" /\ stands' = [stands EXCEPT ![w] = "fold"] /\ batch' = [batch EXCEPT ![w] = b]
    BY <1>5, <2>0 DEF ReadFeed, StandAt
  <2>2. /\ RollupTypeOK /\ Dropped \in Nat /\ Len(feed) \in Nat /\ DOMAIN feed = 1 .. Len(feed)
        /\ Dropped + Len(feed) = written
        /\ \A i \in DOMAIN feed : feed[i] \in Entries /\ feed[i].vs = Dropped + i
    <3>1. RollupTypeOK /\ Numbered
      BY DEF RollupParts
    <3>2. \A i \in DOMAIN feed : feed[i] \in Entries
      BY <3>1 DEF RollupTypeOK
    <3> QED BY <3>1, <3>2, FeedCounts DEF Numbered
  <2>3. ready \in SUBSET Nat /\ ready \subseteq DOMAIN feed
    BY <2>2 DEF Pending
  <2>4. first \in ready /\ first \in 1 .. Len(feed)
    BY <2>0, <2>2, <2>3, MinIsLeast
  <2>5. BatchLimit \in Nat \ {0}
    BY RollupAssumption
  <2> HIDE DEF ready, first
  <2>6. last \in first .. Len(feed)
    <3>1. rest \in SUBSET Nat /\ rest # {} /\ \A x \in rest : first <= x
      BY <2>2, <2>4, <2>5
    <3> HIDE DEF rest
    <3>2. last \in rest /\ \A y \in rest : last <= y
      BY <3>1, MinIsLeast
    <3>3. Len(feed) \in rest
      BY DEF rest
    <3>4. first <= last /\ last <= Len(feed) /\ last \in Nat
      BY <3>1, <3>2, <3>3
    <3> HIDE DEF last
    <3> QED BY <2>2, <2>4, <3>4
  <2> HIDE DEF last
  <2>7. /\ Len(b) = last - first + 1 /\ DOMAIN b = 1 .. last - first + 1 /\ b \in Seq(Entries)
        /\ \A i \in 1 .. last - first + 1 : b[i] = feed[first + i - 1]
    <3>1. feed \in Seq(Entries)
      BY <2>2 DEF RollupTypeOK
    <3> QED BY <2>2, <2>4, <2>6, <3>1
  <2>8. b # <<>>
    <3>1. last - first + 1 \in Nat \ {0}
      BY <2>2, <2>4, <2>6
    <3>2. Len(b) # 0
      BY ONLY <2>7, <3>1
    <3>3. \A q : Len(q) # 0 => q # <<>>
      OBVIOUS
    <3> QED BY ONLY <3>2, <3>3
  <2>9. \A i \in DOMAIN b : b[i].vs <= written
    <3> TAKE i \in DOMAIN b
    <3>1. first + i - 1 \in DOMAIN feed /\ b[i] = feed[first + i - 1]
      BY <2>2, <2>4, <2>6, <2>7
    <3> QED BY <2>2, <3>1
  <2>10. ASSUME Whole, NEW i \in DOMAIN b
         PROVE  cursor + i - Dropped \in DOMAIN feed /\ b[i] = feed[cursor + i - Dropped]
    <3> DEFINE x == cursor + 1 - Dropped
    <3>1. since[w] = cursor + 1 /\ cursor \in Nat /\ Dropped <= cursor
      BY <2>1, <2>2, <2>10 DEF RollupParts, Reading, From, KeptAhead, RollupTypeOK
    <3>2. \A y \in ready : x <= y
      BY <2>2, <2>3, <3>1 DEF ready, Pending
    <3>3. x \in ready
      BY <2>2, <2>4, <3>1, <3>2 DEF ready, Pending
    <3> HIDE DEF x
    <3>4. first = x
      BY <2>3, <3>2, <3>3, MinIsThis DEF first
    <3>5. first + i - 1 = cursor + i - Dropped
      <4>1. i \in Nat
        BY <2>4, <2>6, <2>7
      <4> QED BY <2>2, <3>1, <3>4, <4>1 DEF x
    <3>6. first + i - 1 \in DOMAIN feed /\ b[i] = feed[first + i - 1]
      BY <2>2, <2>4, <2>6, <2>7
    <3> QED BY <3>5, <3>6
  <2> HIDE DEF b
  <2>11. RollupTypeOK'
    BY <1>1, <1>5, <2>1, <2>2, <2>7 DEF RollupTypeOK
  <2>12. Reading'
    BY <1>1, <1>5, <2>1, <2>2 DEF RollupParts, RollupTypeOK, Reading, From
  <2>13. Taken'
    <3> SUFFICES ASSUME NEW v \in Worker, stands'[v] = "fold"
                 PROVE  /\ batch'[v] # <<>>
                        /\ \A i \in DOMAIN batch'[v] : batch'[v][i].vs <= written
                        /\ Whole => \A i \in DOMAIN batch'[v] :
                             /\ cursor + i - Dropped \in DOMAIN feed
                             /\ batch'[v][i] = feed[cursor + i - Dropped]
      BY <1>1 DEF Taken, Whole, Dropped
    <3>1. CASE v = w
      <4>1. batch'[v] = b
        BY <2>1, <2>2, <3>1 DEF RollupTypeOK
      <4> QED BY <2>8, <2>9, <2>10, <4>1
    <3>2. CASE v # w
      <4>1. batch'[v] = batch[v] /\ stands[v] = "fold"
        BY <2>1, <2>2, <3>2 DEF RollupTypeOK
      <4> QED BY <4>1 DEF RollupParts, Taken
    <3> QED BY <3>1, <3>2
  <2> QED BY <1>2, <1>3, <2>11, <2>12, <2>13 DEF RollupParts
<1> QED BY <1>4, <1>5 DEF ReadFeed

\* A commit, answered or not, brings the buckets to where it puts the cursor.
LEMMA BatchCommitted ==
  ASSUME OneDrain, RollupParts, NEW w \in Worker, Commit(w) \/ AnswerLost(w)
  PROVE  RollupParts'
<1>1. /\ ReadyToCommit(w) /\ Committed(w) /\ EndTick(w) /\ faults' \in Nat
      /\ UNCHANGED <<table, group, feed, written, moves, resets, trims, memo>>
  BY DEF Commit, AnswerLost, source, Fault, RollupParts, RollupTypeOK
<1>2. RollupTypeOK /\ stands[w] = "fold" /\ batch[w] # <<>> /\ \A v \in Worker : v = w
  BY <1>1 DEF RollupParts, ReadyToCommit, Taken, OneDrain
<1>3. batch[w] \in Seq(Entries) /\ Len(batch[w]) \in DOMAIN batch[w]
  BY <1>2 DEF RollupTypeOK
<1>4. cursor' = Advanced(w) /\ bucket' = [k \in Key |-> bucket[k] + Delta(w, k)]
  BY <1>1 DEF Committed
<1>5. cursor' \in 0 .. written
  <2>1. Advanced(w) <= written
    BY <1>2, <1>3 DEF RollupParts, Taken, Advanced
  <2>2. batch[w][Len(batch[w])] \in Entries
    BY <1>3
  <2>3. Advanced(w) \in Nat
    BY <2>2 DEF Advanced, Entries
  <2> QED BY <1>2, <1>4, <2>1, <2>3 DEF RollupTypeOK
<1>6. bucket' \in [Key -> Int]
  <2> SUFFICES ASSUME NEW k \in Key PROVE Delta(w, k) \in Int
    BY <1>2, <1>4 DEF RollupTypeOK
  <2>1. \A i \in DOMAIN batch[w] : Signed(w, k)[i] \in Int
    <3> TAKE i \in DOMAIN batch[w]
    <3>1. Contrib(w, batch[w][i].before, k) \in Int /\ Contrib(w, batch[w][i].after, k) \in Int
      BY <1>1, <1>2, BatchIsKnown, ContribIsWorth DEF ReadyToCommit, RollupParts
    <3> QED BY <3>1 DEF Signed
  <2>2. IsFiniteSet(DOMAIN batch[w])
    <3>1. DOMAIN batch[w] = 1 .. Len(batch[w]) /\ Len(batch[w]) \in Int /\ 1 \in Int
      BY <1>3
    <3>2. IsFiniteSet(1 .. Len(batch[w]))
      BY ONLY <3>1, FS_Interval
    <3> QED BY ONLY <3>1, <3>2
  <2>3. Delta(w, k) = SumOn(Signed(w, k), DOMAIN batch[w])
    BY DEF Delta, SumFunction, SumOn, Signed
  <2> QED BY <2>1, <2>2, <2>3, SumIsInt
<1>7. stands' = [stands EXCEPT ![w] = "idle"] /\ since' = [since EXCEPT ![w] = 0]
      /\ batch' = [batch EXCEPT ![w] = <<>>]
  BY <1>1 DEF EndTick, StandAt
<1>8. RollupTypeOK'
  <2>1. <<>> \in Seq(Entries)
    OBVIOUS
  <2> QED BY <1>1, <1>2, <1>5, <1>6, <1>7, <2>1 DEF RollupTypeOK
<1>9. Reading' /\ Taken'
  <2>1. \A v \in Worker : stands'[v] = "idle"
    BY <1>2, <1>7 DEF RollupTypeOK
  <2> QED BY <2>1 DEF Reading, Taken
<1>10. Numbered' /\ LinkedFeed' /\ Remembered'
  <2>1. Remembered'
    BY <1>1 DEF RollupParts, Remembered
  <2> QED BY <1>1, <2>1 DEF RollupParts, Numbered, LinkedFeed, Dropped, Back, Later
<1>11. CASE ~ Whole
  <2>1. ~ Whole'
    BY <1>1, <1>11 DEF Whole
  <2> QED BY <1>8, <1>9, <1>10, <2>1 DEF RollupParts, KeptAhead, Exact
<1>12. CASE Whole
  <2> DEFINE last == cursor + Len(batch[w])
             after == [k \in Key |-> bucket[k] + Delta(w, k)]
  <2>1. /\ Advanced(w) = last
        /\ SumOn(after, Key) = DocSum(feed, table, last)
        /\ moves = 0 => \A k \in Key : after[k] = BucketSum(feed, table, last, k)
    BY <1>1, <1>12, BatchFolds DEF RollupParts
  <2> HIDE DEF last, after
  <2>2. cursor' = last /\ bucket' = after
    BY <1>4, <2>1 DEF after
  <2>3. DocSum(feed, table, cursor)' = DocSum(feed, table, last)
    BY <1>1, <2>2
  <2>4. \A k \in Key : BucketSum(feed, table, cursor, k)' = BucketSum(feed, table, last, k)
    BY <1>1, <2>2 DEF BucketSum, WorthIn, CurrentKey
  <2>5. Exact'
    BY <1>1, <2>1, <2>2, <2>3, <2>4 DEF Exact
  <2>6. KeptAhead'
    <3>1. Dropped <= cursor /\ Dropped \in Nat /\ cursor \in Nat /\ Len(batch[w]) \in Nat
      BY <1>2, <1>3, <1>12, FeedCounts DEF RollupParts, KeptAhead, RollupTypeOK
    <3>2. Dropped' = Dropped
      BY <1>1 DEF Dropped
    <3> QED BY <2>2, <3>1, <3>2 DEF KeptAhead, last
  <2> QED BY <1>8, <1>9, <1>10, <2>5, <2>6 DEF RollupParts
<1> QED BY <1>11, <1>12

\* A recompute starts from nothing, like the feed that is whole.
LEMMA ResetDone ==
  ASSUME OneDrain, RollupParts, NEW w \in Worker, Reset(w)
  PROVE  RollupParts'
<1>1. /\ stands[w] = "idle" /\ bucket' = [k \in Key |-> 0] /\ cursor' = 0 /\ resets' = resets + 1
      /\ UNCHANGED <<table, group, feed, written, moves, trims, memo, stands, since, batch, faults>>
  BY DEF Reset, Empty, source, local
<1>2. RollupTypeOK /\ \A v \in Worker : v = w
  BY DEF RollupParts, OneDrain
<1>3. RollupTypeOK' /\ resets' # 0
  BY <1>1, <1>2 DEF RollupTypeOK
<1>4. Numbered' /\ LinkedFeed' /\ Remembered' /\ Reading' /\ Taken'
  <2>1. Numbered' /\ LinkedFeed'
    BY <1>1 DEF RollupParts, Numbered, LinkedFeed, Dropped, Back, Later
  <2>2. Remembered'
    BY <1>1 DEF RollupParts, Remembered
  <2>3. \A v \in Worker : stands'[v] = "idle"
    BY <1>1, <1>2
  <2>4. Reading' /\ Taken'
    BY <2>3 DEF Reading, Taken
  <2> QED BY <2>1, <2>2, <2>4
<1>5. CASE trims # 0
  <2>1. ~ Whole'
    BY <1>1, <1>3, <1>5 DEF Whole
  <2> QED BY <1>3, <1>4, <2>1 DEF RollupParts, KeptAhead, Exact
<1>6. CASE trims = 0
  <2>1. Dropped = 0 /\ \A d \in Record : Back(feed, table, 0, d) = NoRecord
    BY <1>6 DEF RollupParts, LinkedFeed
  <2>2. KeptAhead'
    BY <1>1, <2>1 DEF KeptAhead, Dropped
  <2>3. IsFiniteSet(Key) /\ IsFiniteSet(Record)
    BY RollupAssumption
  <2>4. SumOn(bucket', Key) = 0
    BY <1>1, <2>3, SumOfZeros
  <2>5. DocSum(feed, table, 0) = 0
    <3> DEFINE f == [d \in Record |-> Worth(Back(feed, table, 0, d))]
    <3>1. \A d \in Record : f[d] = 0
      BY <2>1 DEF Worth
    <3> HIDE DEF f
    <3>2. SumOn(f, Record) = 0
      BY <2>3, <3>1, SumOfZeros
    <3> QED BY <3>2 DEF f, DocSum
  <2>6. ASSUME NEW k \in Key PROVE BucketSum(feed, table, 0, k) = 0
    <3> DEFINE f == [d \in Record |-> WorthIn(k, Back(feed, table, 0, d))]
    <3>1. \A d \in Record : f[d] = 0
      BY <2>1 DEF WorthIn
    <3> HIDE DEF f
    <3>2. SumOn(f, Record) = 0
      BY <2>3, <3>1, SumOfZeros
    <3> QED BY <3>2 DEF f, BucketSum
  <2>7. DocSum(feed, table, cursor)' = DocSum(feed, table, 0)
    BY <1>1
  <2>8. \A k \in Key : BucketSum(feed, table, cursor, k)' = BucketSum(feed, table, 0, k)
    BY <1>1 DEF BucketSum, WorthIn, CurrentKey
  <2>9. Exact'
    BY <1>1, <2>4, <2>5, <2>6, <2>7, <2>8 DEF Exact
  <2> QED BY <1>3, <1>4, <2>2, <2>9 DEF RollupParts
<1> QED BY <1>5, <1>6

\* A customer that moves leaves the totals, and ends what is claimed of a bucket.
LEMMA GroupMoved ==
  ASSUME RollupParts, NEW l \in Link, NEW k \in Key, MoveGroup(l, k)
  PROVE  RollupParts'
<1>1. /\ group' = [group EXCEPT ![l] = k] /\ moves' = moves + 1
      /\ UNCHANGED <<table, feed, written, bucket, cursor, memo, stands, since, batch, faults, resets, trims>>
  BY DEF MoveGroup, rollup, local
<1>2. RollupTypeOK' /\ moves' # 0
  BY <1>1 DEF RollupParts, RollupTypeOK
<1>3. Numbered' /\ LinkedFeed' /\ KeptAhead' /\ Reading' /\ Taken'
  <2>1. LinkedFeed'
    BY <1>1 DEF RollupParts, LinkedFeed, Dropped, Back, Later
  <2> QED BY <1>1, <2>1 DEF RollupParts, Numbered, KeptAhead, Dropped, Whole, Reading, Taken
<1>4. Remembered'
  BY <1>2 DEF Remembered
<1>5. DocSum(feed, table, cursor)' = DocSum(feed, table, cursor)
  BY <1>1
<1>6. Exact'
  BY <1>1, <1>2, <1>5 DEF RollupParts, Exact, Whole
<1> QED BY <1>2, <1>3, <1>4, <1>6 DEF RollupParts

\* If every document is, as of the cursor, what it was, then what was exact is.
LEMMA ExactStays ==
  ASSUME Exact, Whole' => Whole, UNCHANGED <<group, bucket, cursor, moves>>,
         Whole => \A d \in Record : Back(feed', table', cursor, d) = Back(feed, table, cursor, d)
  PROVE  Exact'
<1> SUFFICES ASSUME Whole'
             PROVE  /\ SumOn(bucket, Key)' = DocSum(feed, table, cursor)'
                    /\ moves' = 0 => \A k \in Key : bucket'[k] = BucketSum(feed, table, cursor, k)'
  BY DEF Exact
<1>1. \A d \in Record : Back(feed', table', cursor, d) = Back(feed, table, cursor, d)
  OBVIOUS
<1>2. DocSum(feed, table, cursor)' = DocSum(feed, table, cursor)
  <2>1. [d \in Record |-> Worth(Back(feed', table', cursor, d))]
          = [d \in Record |-> Worth(Back(feed, table, cursor, d))]
    BY <1>1
  <2> QED BY <2>1 DEF DocSum
<1>3. ASSUME NEW k \in Key
      PROVE  BucketSum(feed, table, cursor, k)' = BucketSum(feed, table, cursor, k)
  <2>1. [d \in Record |-> WorthIn(k, Back(feed', table', cursor, d))]
          = [d \in Record |-> WorthIn(k, Back(feed, table, cursor, d))]
    BY <1>1
  <2> QED BY <2>1 DEF BucketSum, WorthIn, CurrentKey
<1> QED BY <1>2, <1>3 DEF Exact

\* The retention drops nothing that the cursor is not past.
LEMMA FeedTrimmed ==
  ASSUME RollupParts, Trim
  PROVE  RollupParts'
<1>1. /\ feed # <<>> /\ Head(feed).vs <= cursor /\ feed' = Tail(feed) /\ trims' = trims + 1
      /\ UNCHANGED <<table, group, written, bucket, cursor, moves, memo, stands, since, batch, faults, resets>>
  BY DEF Trim, rollup, local
<1>2. /\ RollupTypeOK /\ Dropped \in Nat /\ Counts(feed, Dropped) /\ Dropped + Len(feed) = written
      /\ DOMAIN feed = 1 .. Len(feed) /\ Len(feed) \in Nat /\ feed \in Seq(Entries)
  BY FeedCounts DEF RollupParts, RollupTypeOK
<1>3. /\ Len(feed') = Len(feed) - 1 /\ Len(feed) # 0 /\ DOMAIN feed' = 1 .. Len(feed) - 1
      /\ feed' \in Seq(Entries) /\ \A i \in DOMAIN feed' : feed'[i] = feed[i + 1] /\ i + 1 \in DOMAIN feed
  BY <1>1, <1>2
<1>4. Dropped' = Dropped + 1 /\ written \in Nat
  BY <1>1, <1>2, <1>3 DEF Dropped, RollupTypeOK
<1>5. Dropped + 1 <= cursor /\ cursor \in Nat
  <2>1. Head(feed) = feed[1] /\ 1 \in DOMAIN feed
    BY <1>1, <1>2, <1>3
  <2>2. feed[1].vs = Dropped + 1
    BY <1>2, <2>1 DEF Counts
  <2> QED BY <1>1, <1>2, <2>1, <2>2 DEF RollupTypeOK
<1>6. RollupTypeOK' /\ trims' # 0
  BY <1>1, <1>2, <1>3 DEF RollupTypeOK
<1>7. Numbered'
  <2>1. \A i \in DOMAIN feed' : feed'[i].vs = Dropped' + i
    BY <1>2, <1>3, <1>4 DEF Counts
  <2> QED BY <1>2, <1>4, <2>1 DEF Numbered
<1>8. \A c \in Nat : \A d : Dropped + 1 <= c => Back(feed', table, c, d) = Back(feed, table, c, d)
  BY <1>1, <1>2, BackAfterTrim
<1>9. LinkedFeed'
  <2> SUFFICES ASSUME NEW i \in DOMAIN feed'
               PROVE  feed'[i].after = Back(feed', table', feed'[i].vs, feed'[i].doc)
    BY <1>6 DEF LinkedFeed
  <2>1. feed'[i] = feed[i + 1] /\ i + 1 \in DOMAIN feed /\ i \in Nat
    BY <1>3
  <2>2. feed[i + 1].vs \in Nat /\ Dropped + 1 <= feed[i + 1].vs
    BY <1>2, <2>1 DEF Counts
  <2>3. feed[i + 1].after = Back(feed, table, feed[i + 1].vs, feed[i + 1].doc)
    BY <2>1 DEF RollupParts, LinkedFeed
  <2>4. Back(feed', table, feed[i + 1].vs, feed[i + 1].doc)
          = Back(feed, table, feed[i + 1].vs, feed[i + 1].doc)
    BY <1>8, <2>2
  <2> QED BY <1>1, <2>1, <2>3, <2>4
<1>10. Whole' => Whole
  BY <1>1, <1>6 DEF Whole
<1>11. KeptAhead' /\ Reading' /\ Remembered'
  BY <1>1, <1>4, <1>5 DEF RollupParts, KeptAhead, Reading, Remembered
<1>12. Taken'
  <2> SUFFICES ASSUME NEW w \in Worker, stands[w] = "fold"
               PROVE  /\ batch[w] # <<>>
                      /\ \A i \in DOMAIN batch[w] : batch[w][i].vs <= written
                      /\ Whole => \A i \in DOMAIN batch[w] :
                           /\ cursor + i - (Dropped + 1) \in DOMAIN feed'
                           /\ batch[w][i] = feed'[cursor + i - (Dropped + 1)]
    BY <1>1, <1>4, <1>10 DEF Taken
  <2>1. batch[w] # <<>> /\ \A i \in DOMAIN batch[w] : batch[w][i].vs <= written
    BY DEF RollupParts, Taken
  <2>2. ASSUME Whole, NEW i \in DOMAIN batch[w]
        PROVE  /\ cursor + i - (Dropped + 1) \in DOMAIN feed'
               /\ batch[w][i] = feed'[cursor + i - (Dropped + 1)]
    <3> DEFINE x == cursor + i - Dropped
    <3>1. x \in DOMAIN feed /\ batch[w][i] = feed[x]
      BY <2>2 DEF RollupParts, Taken
    <3>2. i \in Nat \ {0}
      <4>1. batch[w] \in Seq(Entries)
        BY <1>2 DEF RollupTypeOK
      <4> QED BY <4>1
    <3>3. x \in Nat /\ x >= 2 /\ cursor + i - (Dropped + 1) = x - 1
      BY <1>2, <1>5, <3>2
    <3> HIDE DEF x
    <3>4. x - 1 \in DOMAIN feed' /\ feed'[x - 1] = feed[x]
      <4>1. x - 1 \in DOMAIN feed'
        BY <1>2, <1>3, <3>1, <3>3
      <4>2. feed'[x - 1] = feed[(x - 1) + 1] /\ (x - 1) + 1 = x
        BY <1>3, <3>3, <4>1
      <4> QED BY <4>1, <4>2
    <3> QED BY <3>1, <3>3, <3>4
  <2> QED BY <2>1, <2>2
<1>13. Exact'
  BY <1>1, <1>5, <1>8, <1>10, ExactStays DEF RollupParts
<1> QED BY <1>6, <1>7, <1>9, <1>11, <1>12, <1>13 DEF RollupParts

\* A write is told by its entry, and as of the entries before it nothing changes.
LEMMA SourceWritten ==
  ASSUME RollupParts, NEW d \in Record, NEW v \in Version \cup {NoRecord}, NEW decodes \in BOOLEAN,
         WriteSource(d, v, decodes)
  PROVE  RollupParts'
<1> DEFINE e == [vs |-> written + 1, doc |-> d, before |-> table[d], after |-> v,
                decodes |-> decodes]
<1>1. /\ table' = [table EXCEPT ![d] = v] /\ feed' = Append(feed, e) /\ written' = written + 1
      /\ UNCHANGED <<group, bucket, cursor, moves, memo, stands, since, batch, faults, resets, trims>>
  BY DEF WriteSource, Entry, rollup, local
<1>2. /\ RollupTypeOK /\ Dropped \in Nat /\ Counts(feed, Dropped) /\ Dropped + Len(feed) = written
      /\ DOMAIN feed = 1 .. Len(feed) /\ Len(feed) \in Nat /\ feed \in Seq(Entries)
      /\ written \in Nat /\ cursor \in Nat /\ cursor <= written
      /\ table \in [Record -> Version \cup {NoRecord}]
  BY FeedCounts DEF RollupParts, RollupTypeOK
<1>3. e \in Entries /\ e.vs = written + 1 /\ e.doc = d /\ e.before = table[d] /\ e.after = v
  <2>1. written + 1 \in Nat /\ table[d] \in Version \cup {NoRecord}
    BY <1>2
  <2>2. e \in Entries
    BY <2>1, Zenon DEF Entries
  <2>3. e.vs = written + 1 /\ e.doc = d /\ e.before = table[d] /\ e.after = v
    BY Zenon
  <2> QED BY <2>2, <2>3
<1> HIDE DEF e
<1>4. /\ feed' \in Seq(Entries) /\ Len(feed') = Len(feed) + 1 /\ DOMAIN feed' = 1 .. Len(feed) + 1
      /\ feed'[Len(feed) + 1] = e /\ \A i \in DOMAIN feed : feed'[i] = feed[i]
  BY <1>1, <1>2, <1>3
<1>5. Dropped' = Dropped
  BY <1>1, <1>2, <1>4 DEF Dropped
<1>6. RollupTypeOK'
  <2>1. table' \in [Record -> Version \cup {NoRecord}] /\ written' \in Nat /\ cursor' \in 0 .. written'
    BY <1>1, <1>2
  <2> QED BY <1>1, <1>2, <1>4, <2>1 DEF RollupTypeOK
<1>7. Numbered'
  <2>1. \A i \in DOMAIN feed' : feed'[i].vs = Dropped + i
    <3> TAKE i \in DOMAIN feed'
    <3>1. CASE i \in DOMAIN feed
      BY <1>2, <1>4, <3>1 DEF Counts
    <3>2. CASE i = Len(feed) + 1
      <4>1. feed'[i].vs = written + 1
        BY <1>3, <1>4, <3>2
      <4>2. written + 1 = Dropped + i
        BY <1>2, <3>2
      <4> QED BY <4>1, <4>2
    <3> QED BY <1>2, <1>4, <3>1, <3>2
  <2> QED BY <1>2, <1>5, <2>1 DEF Numbered
<1>8. \A c \in Nat, x \in Record : c <= written => Back(feed', table', c, x) = Back(feed, table, c, x)
  <2>1. e.vs = Dropped + Len(feed) + 1
    BY <1>2, <1>3
  <2>2. e.before = table[e.doc] /\ e \in Entries
    BY <1>3
  <2>3. Dropped \in Nat /\ Counts(feed, Dropped) /\ table \in [Record -> Version \cup {NoRecord}]
    BY <1>2
  <2>4. \A c \in 0 .. Dropped + Len(feed), x \in Record :
          Back(Append(feed, e), [table EXCEPT ![e.doc] = e.after], c, x) = Back(feed, table, c, x)
    BY ONLY <2>1, <2>2, <2>3, BackBeforeWrite
  <2>5. feed' = Append(feed, e) /\ table' = [table EXCEPT ![e.doc] = e.after]
    BY <1>1, <1>3
  <2>6. \A c \in Nat : c <= written => c \in 0 .. Dropped + Len(feed)
    BY <1>2
  <2> QED BY ONLY <2>4, <2>5, <2>6
<1>9. LinkedFeed'
  <2>1. ASSUME NEW i \in DOMAIN feed'
        PROVE  feed'[i].after = Back(feed', table', feed'[i].vs, feed'[i].doc)
    <3>1. CASE i \in DOMAIN feed
      <4>1. feed'[i] = feed[i] /\ feed[i] \in Entries
        BY <1>2, <1>4, <3>1
      <4>2. feed[i].vs \in Nat /\ feed[i].vs <= written
        BY <1>2, <3>1 DEF Counts
      <4>3. feed[i].doc \in Record
        BY <4>1 DEF Entries
      <4>4. feed[i].after = Back(feed, table, feed[i].vs, feed[i].doc)
        BY <3>1 DEF RollupParts, LinkedFeed
      <4> QED BY <1>8, <4>1, <4>2, <4>3, <4>4
    <3>2. CASE i = Len(feed) + 1
      <4>1. Counts(feed', Dropped)
        BY <1>4, <1>5, <1>7 DEF Counts, Numbered
      <4>2. Back(feed', table', Dropped + Len(feed'), d) = table'[d]
        BY <1>2, <4>1, BackFromEnd
      <4>3. Dropped + Len(feed') = e.vs
        BY <1>2, <1>3, <1>4
      <4>4. table'[d] = v
        BY <1>1, <1>2
      <4> QED BY <1>3, <1>4, <3>2, <4>2, <4>3, <4>4
    <3> QED BY <1>2, <1>4, <3>1, <3>2
  <2>2. ASSUME trims = 0 PROVE Dropped = 0 /\ \A x \in Record : Back(feed', table', 0, x) = NoRecord
    <3>1. Dropped = 0 /\ \A x \in Record : Back(feed, table, 0, x) = NoRecord
      BY <2>2 DEF RollupParts, LinkedFeed
    <3> QED BY <1>2, <1>8, <3>1
  <2> QED BY <1>1, <1>5, <2>1, <2>2 DEF LinkedFeed
<1>10. KeptAhead' /\ Reading' /\ Remembered'
  BY <1>1, <1>5 DEF RollupParts, KeptAhead, Whole, Reading, Remembered
<1>11. Taken'
  <2> SUFFICES ASSUME NEW w \in Worker, stands[w] = "fold"
               PROVE  /\ batch[w] # <<>>
                      /\ \A i \in DOMAIN batch[w] : batch[w][i].vs <= written + 1
                      /\ Whole => \A i \in DOMAIN batch[w] :
                           /\ cursor + i - Dropped \in DOMAIN feed'
                           /\ batch[w][i] = feed'[cursor + i - Dropped]
    BY <1>1, <1>5 DEF Taken, Whole
  <2>1. batch[w] # <<>>
    BY DEF RollupParts, Taken
  <2>2. ASSUME NEW i \in DOMAIN batch[w] PROVE batch[w][i].vs <= written + 1
    <3>1. batch[w][i].vs <= written
      BY DEF RollupParts, Taken
    <3>2. batch[w] \in Seq(Entries)
      BY <1>2 DEF RollupTypeOK
    <3>3. batch[w][i] \in Entries
      BY <3>2
    <3>4. batch[w][i].vs \in Nat
      BY <3>3 DEF Entries
    <3> QED BY <1>2, <3>1, <3>4
  <2>3. ASSUME Whole, NEW i \in DOMAIN batch[w]
        PROVE  /\ cursor + i - Dropped \in DOMAIN feed'
               /\ batch[w][i] = feed'[cursor + i - Dropped]
    <3>1. /\ cursor + i - Dropped \in DOMAIN feed
          /\ batch[w][i] = feed[cursor + i - Dropped]
      BY <2>3 DEF RollupParts, Taken
    <3> QED BY <1>2, <1>4, <3>1
  <2> QED BY <2>1, <2>2, <2>3
<1>12. Exact'
  <2>1. Whole' => Whole
    BY <1>1 DEF Whole
  <2> QED BY <1>1, <1>2, <1>8, <2>1, ExactStays DEF RollupParts
<1> QED BY <1>6, <1>7, <1>9, <1>10, <1>11, <1>12 DEF RollupParts

\* Every step keeps the invariant.
LEMMA RollupSteps ==
  ASSUME OneDrain, RollupParts, [RollupNext]_rollupVars
  PROVE  RollupParts'
<1>1. CASE UNCHANGED rollupVars
  <2>1. UNCHANGED <<table, group, feed, written, bucket, cursor, moves, resets, trims, memo, stands, since, batch, faults>>
    BY <1>1 DEF rollupVars
  <2>2. RollupTypeOK' /\ Reading' /\ Taken' /\ Remembered'
    BY <2>1 DEF RollupParts, RollupTypeOK, Reading, Taken, Remembered, Dropped, Whole
  <2> QED BY <2>1, <2>2, TablesStand DEF RollupParts
<1>2. ASSUME NEW d \in Record, NEW v \in Version \cup {NoRecord}, NEW decodes \in BOOLEAN,
             WriteSource(d, v, decodes)
      PROVE  RollupParts'
  BY <1>2, SourceWritten
<1>3. ASSUME NEW l \in Link, NEW k \in Key, MoveGroup(l, k) PROVE RollupParts'
  BY <1>3, GroupMoved
<1>4. CASE Trim
  BY <1>4, FeedTrimmed
<1>5. ASSUME NEW w \in Worker, Tick(w) PROVE RollupParts'
  <2>1. ASSUME NEW l \in Link, LookUp(w, l) PROVE RollupParts'
    BY <2>1, GroupLooked
  <2> QED BY <1>5, <2>1, CursorRead, FeedRead, BatchCommitted DEF Tick
<1>6. ASSUME NEW w \in Worker, Reset(w) \/ RequestFails(w) \/ AnswerLost(w) \/ Restart(w)
      PROVE  RollupParts'
  BY <1>6, ResetDone, TickFails, BatchCommitted
<1> QED BY <1>1, <1>2, <1>3, <1>4, <1>5, <1>6 DEF RollupNext

-----------------------------------------------------------------------------

\* The inductive invariant of a rollup (aggregates.rs): the feed is the chain of its writes, the
\* batch in hand is what follows the cursor, the memo is right until a customer moves, and the
\* buckets are the sums of the documents as of the cursor.
THEOREM RollupInvariant ==
  ASSUME OneDrain
  PROVE  RollupSpec => []RollupInv
<1>1. RollupInit => RollupInv
  BY RollupStarts, InvIsItsParts
<1>2. RollupInv /\ [RollupNext]_rollupVars => RollupInv'
  BY RollupSteps, InvIsItsParts
<1> QED BY <1>1, <1>2, PTL DEF RollupSpec

\* tick: "a crash before COMMIT replays the batch, never half of it"; Contrib: "exactness through
\* edits, key-moves, and deletes falls out".  For any documents, customers, groups, amounts,
\* batch size, faults, resets and trims.
THEOREM NothingIsLostOrDoubled ==
  ASSUME OneDrain
  PROVE  RollupSpec => []NothingLostOrDoubled
<1>1. RollupInv => NothingLostOrDoubled
  BY DEF RollupInv
<1> QED BY <1>1, RollupInvariant, PTL

=============================================================================
