--------------------------- MODULE ServingProofs ---------------------------
(***************************************************************************)
(* The parts of a serving process, each under an inductive invariant of    *)
(* its own, for any number of threads, tenants, users and restarts.        *)
(*   Sessions       a request acts as the owner of its session, and an     *)
(*                  ended session is over (SessionInv)                     *)
(*   Metadata       an edit that was answered is what every later write    *)
(*                  goes by (MetaInv), and the scripts that run are those  *)
(*                  of the plan that was found (PlanInv)                   *)
(*   RootToken      a call survives a revoked root credential (RootInv)    *)
(*   Fairness       a group is admitted within its budget (BudgetInv)      *)
(*   Realtime       overruns are bounded, and a quiet poll hides nothing   *)
(*                  (RealtimeInv)                                          *)
(***************************************************************************)
EXTENDS Serving, FiniteSetTheorems, WellFoundedInduction, TLAPS

USE SessionAssumption

\* The rows, the generations and the cache rest.
StoreRests == UNCHANGED <<session, issued, generation, cache, over>>
CountsRest == revocations' \in Nat /\ losses' \in Nat

\* What a request may become while nothing else moves.
Sound(q) ==
  /\ q \in Asking
  /\ q.pc # "idle" => q.tenant \in Tenant
  /\ q.pc \in {"load", "lookup", "select", "keep", "admitted"} => q.secret \in Secret
  /\ q.pc \in {"mint", "signin", "keep", "admitted", "subscribe"} => q.user \in User
  /\ q.pc \in {"keep", "admitted"} => Row(q.secret, q.user) \in issued[q.tenant]
  /\ q.pc = "bump" => \A s \in q.ended : Ended(q.tenant, s)
  /\ q.pc \in {"lookup", "select", "keep"} => q.gen <= generation[q.tenant]
  /\ q.pc = "keep" => <<q.tenant, q.secret>> \notin over
  /\ q.late =>
       /\ <<q.tenant, q.secret>> \in over
       /\ q.pc \in {"load", "lookup", "select"}
       /\ q.pc = "lookup" =>
            /\ \A e \in cache : e.key = <<q.tenant, q.secret>> => e.gen < q.gen
            /\ \A v \in Worker : /\ req[v].pc = "keep"
                                 /\ req[v].tenant = q.tenant /\ req[v].secret = q.secret
                                 => req[v].gen < q.gen

LEMMA OneMoves ==
  ASSUME SessionInv, NEW w \in Worker, NEW q, Sound(q),
         req' = [req EXCEPT ![w] = q], StoreRests, CountsRest
  PROVE  SessionInv'
<1>1. /\ req' \in [Worker -> Asking]
      /\ \A v \in Worker : req'[v] = IF v = w THEN q ELSE req[v]
  BY DEF SessionInv, SessionTypeOK, Sound
<1> USE DEF StoreRests
<1>2. SessionTypeOK'
  BY <1>1 DEF SessionInv, SessionTypeOK, CountsRest
<1>3. RequestShape'
  BY <1>1 DEF SessionInv, RequestShape, Sound
<1>4. RowsIssued'
  BY DEF SessionInv, RowsIssued
<1>5. Believed'
  BY <1>1 DEF SessionInv, Believed, Sound
<1>6. EndedAreGone'
  BY <1>1 DEF SessionInv, EndedAreGone, Sound, Ended
<1>7. Outdated'
  BY <1>1 DEF SessionInv, Outdated, Sound
<1>8. LateOutrun'
  <2> SUFFICES ASSUME NEW v \in Worker, req'[v].late
               PROVE  /\ <<req'[v].tenant, req'[v].secret>> \in over
                      /\ req'[v].pc \in {"load", "lookup", "select"}
                      /\ req'[v].pc = "lookup" =>
                         /\ \A e \in cache : e.key = <<req'[v].tenant, req'[v].secret>> => e.gen < req'[v].gen
                         /\ \A u \in Worker : /\ req'[u].pc = "keep"
                                              /\ req'[u].tenant = req'[v].tenant
                                              /\ req'[u].secret = req'[v].secret
                                              => req'[u].gen < req'[v].gen
    BY DEF LateOutrun
  <2>1. CASE v = w
    BY <2>1, <1>1 DEF Sound
  <2>2. CASE v # w
    <3>1. req'[v] = req[v]
      BY <2>2, <1>1
    <3>2. /\ <<req[v].tenant, req[v].secret>> \in over
          /\ req[v].pc \in {"load", "lookup", "select"}
          /\ req[v].pc = "lookup" =>
               /\ \A e \in cache : e.key = <<req[v].tenant, req[v].secret>> => e.gen < req[v].gen
               /\ \A u \in Worker : /\ req[u].pc = "keep"
                                    /\ req[u].tenant = req[v].tenant /\ req[u].secret = req[v].secret
                                    => req[u].gen < req[v].gen
      BY <3>1 DEF SessionInv, LateOutrun
    <3>3. ASSUME NEW u \in Worker, req'[u].pc = "keep", req'[u].tenant = req'[v].tenant,
                 req'[u].secret = req'[v].secret, req'[v].pc = "lookup"
          PROVE  req'[u].gen < req'[v].gen
      <4>1. CASE u = w
        BY <4>1, <3>1, <3>2, <3>3, <1>1 DEF Sound
      <4>2. CASE u # w
        BY <4>2, <3>1, <3>2, <3>3, <1>1
      <4> QED BY <4>1, <4>2
    <3> QED BY <3>1, <3>2, <3>3
  <2> QED BY <2>1, <2>2
<1> QED BY <1>2, <1>3, <1>4, <1>5, <1>6, <1>7, <1>8 DEF SessionInv

\* The request ends.
LEMMA Answers ==
  ASSUME SessionInv, NEW w \in Worker, Answer(w), StoreRests, CountsRest
  PROVE  SessionInv'
<1>1. NoRequest.pc = "idle" /\ NoRequest.late = FALSE
  BY DEF NoRequest
<1>2. NoRequest \in Asking
  BY DEF NoRequest, Asking, Kinds
<1>3. Sound(NoRequest)
  BY <1>1, <1>2 DEF Sound
<1> QED BY <1>3, OneMoves DEF Answer

\* The parts of the invariant that speak of one request.
LEMMA OfRequest ==
  ASSUME SessionInv, NEW w \in Worker
  PROVE  /\ req[w] \in Asking
         /\ req[w].pc # "idle" => req[w].tenant \in Tenant
         /\ req[w].pc \in {"load", "lookup", "select", "keep", "admitted"} => req[w].secret \in Secret
         /\ req[w].pc \in {"mint", "signin", "keep", "admitted"} => req[w].user \in User
         /\ req[w].late => <<req[w].tenant, req[w].secret>> \in over
         /\ req[w].late => req[w].pc \in {"load", "lookup", "select"}
         /\ generation \in [Tenant -> Nat]
         /\ revocations \in Nat /\ losses \in Nat
  BY DEF SessionInv, SessionTypeOK, RequestShape, LateOutrun

-----------------------------------------------------------------------------
LEMMA LoginKeeps ==
  ASSUME SessionInv, NEW w \in Worker, NEW hint, NEW u \in User, Login(w, hint, u)
  PROVE  SessionInv'
<1>1. PICK t \in Tenant :
        req' = [req EXCEPT ![w] = [NoRequest EXCEPT !.pc = "signin", !.kind = "login",
                                                    !.tenant = t, !.user = u]]
  BY DEF Login, LoginContext
<1> DEFINE q == [NoRequest EXCEPT !.pc = "signin", !.kind = "login", !.tenant = t, !.user = u]
<1>2. q.pc = "signin" /\ q.tenant = t /\ q.user = u /\ q.late = FALSE
  BY DEF NoRequest
<1>3. q \in Asking
  BY DEF NoRequest, Asking, Kinds
<1>4. Sound(q)
  <2> HIDE DEF q
  <2> QED BY <1>2, <1>3 DEF Sound
<1>5. StoreRests /\ CountsRest
  BY OfRequest DEF Login, StoreRests, CountsRest
<1> QED BY <1>1, <1>4, <1>5, OneMoves

LEMMA ArriveKeeps ==
  ASSUME SessionInv, NEW w \in Worker, NEW t \in Tenant, NEW s \in Secret, NEW kind \in Kinds,
         NEW target \in User \cup {Nobody}, Arrive(w, t, s, kind, target)
  PROVE  SessionInv'
<1> DEFINE q == [NoRequest EXCEPT !.pc = "load", !.kind = kind, !.tenant = t,
                   !.secret = s, !.target = target, !.late = <<t, s>> \in over]
<1>1. q.pc = "load" /\ q.tenant = t /\ q.secret = s /\ q.late = (<<t, s>> \in over)
  BY DEF NoRequest
<1>2. q \in Asking
  <2> DEFINE l == <<t, s>> \in over
  <2>1. l \in BOOLEAN
    OBVIOUS
  <2> HIDE DEF l
  <2>2. [NoRequest EXCEPT !.pc = "load", !.kind = kind, !.tenant = t,
                   !.secret = s, !.target = target, !.late = l] \in Asking
    BY <2>1 DEF NoRequest, Asking, Kinds
  <2> QED BY <2>2 DEF l
<1>3. Sound(q)
  <2> HIDE DEF q
  <2> QED BY <1>1, <1>2 DEF Sound
<1>4. StoreRests
  BY DEF Arrive, StoreRests
<1>6. CountsRest
  <2>1. revocations \in Nat /\ losses \in Nat
    BY OfRequest
  <2> HIDE DEF q
  <2> QED BY <2>1 DEF Arrive, CountsRest
<1>5. req' = [req EXCEPT ![w] = q]
  BY DEF Arrive
<1> HIDE DEF q
<1> QED BY <1>3, <1>4, <1>5, <1>6, OneMoves

\* A request moves on and keeps all that it knows.
LEMMA GoesOn ==
  ASSUME SessionInv, NEW w \in Worker, NEW p \in {"mint", "select", "subscribe"},
         p = "mint" => req[w].pc = "signin",
         p = "select" => req[w].pc = "lookup",
         p = "subscribe" => req[w].pc = "admitted",
         GoTo(w, p), StoreRests, CountsRest
  PROVE  SessionInv'
<1> DEFINE q == [req[w] EXCEPT !.pc = p]
<1>1. /\ q.pc = p /\ q.tenant = req[w].tenant /\ q.secret = req[w].secret
      /\ q.user = req[w].user /\ q.gen = req[w].gen /\ q.late = req[w].late
      /\ q \in Asking
  <2>1. req[w] \in Asking
    BY OfRequest
  <2> QED BY <2>1 DEF Asking
<1>2. req[w].pc = "lookup" => req[w].gen <= generation[req[w].tenant]
  BY DEF SessionInv, Outdated
<1>3. Sound(q)
  <2> HIDE DEF q
  <2> QED BY <1>1, <1>2, OfRequest DEF Sound
<1>4. req' = [req EXCEPT ![w] = q]
  BY DEF GoTo
<1> HIDE DEF q
<1> QED BY <1>3, <1>4, OneMoves

LEMMA LoadGenerationKeeps ==
  ASSUME SessionInv, NEW w \in Worker, LoadGeneration(w)
  PROVE  SessionInv'
<1> DEFINE q == [req[w] EXCEPT !.pc = "lookup", !.gen = generation[req[w].tenant]]
<1>1. req[w].pc = "load" /\ req[w].tenant \in Tenant
  BY OfRequest DEF LoadGeneration, At
<1>2. /\ q.pc = "lookup" /\ q.tenant = req[w].tenant /\ q.secret = req[w].secret
      /\ q.gen = generation[req[w].tenant] /\ q.late = req[w].late
      /\ q \in Asking
  <2>1. req[w] \in Asking /\ generation[req[w].tenant] \in Nat
    BY <1>1, OfRequest
  <2> QED BY <2>1 DEF Asking
<1>3. ASSUME req[w].late
      PROVE  /\ \A e \in cache : e.key = <<req[w].tenant, req[w].secret>> =>
                  e.gen < generation[req[w].tenant]
             /\ \A v \in Worker : /\ req[v].pc = "keep"
                                  /\ req[v].tenant = req[w].tenant /\ req[v].secret = req[w].secret
                                  => req[v].gen < generation[req[w].tenant]
  <2> DEFINE k == <<req[w].tenant, req[w].secret>>
  <2>1. k \in over /\ k[1] = req[w].tenant
    BY <1>3, OfRequest
  <2>2. ASSUME NEW e \in cache, e.key = k PROVE e.gen < generation[req[w].tenant]
    <3> HIDE DEF k
    <3> QED BY <2>1, <2>2 DEF SessionInv, Outdated
  <2>3. ASSUME NEW v \in Worker, req[v].pc = "keep",
               req[v].tenant = req[w].tenant, req[v].secret = req[w].secret
        PROVE  req[v].gen < generation[req[w].tenant]
    BY <2>1, <2>3 DEF SessionInv, Outdated
  <2> QED BY <2>2, <2>3
<1>4. Sound(q)
  <2> HIDE DEF q
  <2> QED BY <1>1, <1>2, <1>3, OfRequest DEF Sound
<1>5. req' = [req EXCEPT ![w] = q] /\ StoreRests /\ CountsRest
  BY OfRequest DEF LoadGeneration, StoreRests, CountsRest
<1> HIDE DEF q
<1> QED BY <1>4, <1>5, OneMoves

LEMMA LookUpKeeps ==
  ASSUME SessionInv, NEW w \in Worker, LookUp(w)
  PROVE  SessionInv'
<1>1. StoreRests /\ CountsRest /\ req[w].pc = "lookup"
  BY OfRequest DEF LookUp, At, StoreRests, CountsRest
<1>2. CASE GoTo(w, "select")
  BY <1>1, <1>2, GoesOn
<1>3. ASSUME NEW e \in cache, e.key = KeyOf(w), UpToDate(w, e), Admit(w, e.user)
      PROVE  SessionInv'
  <2> DEFINE q == [req[w] EXCEPT !.pc = "admitted", !.user = e.user]
  <2>1. /\ e \in Entries /\ e.gen = req[w].gen
        /\ e.key = <<req[w].tenant, req[w].secret>>
        /\ Row(req[w].secret, e.user) \in issued[req[w].tenant]
    BY <1>3 DEF SessionInv, SessionTypeOK, Believed, KeyOf, Key, UpToDate
  <2>2. ~req[w].late
    <3>1. req[w].late => e.gen < req[w].gen
      BY <1>1, <2>1 DEF SessionInv, LateOutrun
    <3>2. e.gen \in Nat /\ req[w].gen \in Nat
      BY <2>1, OfRequest DEF Entries, Asking
    <3> QED BY <2>1, <3>1, <3>2
  <2>6. e.user \in User
    BY <2>1 DEF Entries
  <2>3. /\ q.pc = "admitted" /\ q.tenant = req[w].tenant /\ q.secret = req[w].secret
        /\ q.user = e.user /\ q.late = req[w].late
        /\ q \in Asking
    <3>1. req[w] \in Asking
      BY OfRequest
    <3> QED BY <2>6, <3>1 DEF Asking
  <2>4. Sound(q)
    <3> HIDE DEF q
    <3> QED BY <1>1, <2>1, <2>2, <2>3, <2>6, OfRequest DEF Sound
  <2>5. req' = [req EXCEPT ![w] = q]
    BY <1>3 DEF Admit
  <2> HIDE DEF q
  <2> QED BY <1>1, <2>4, <2>5, OneMoves
<1> QED BY <1>2, <1>3 DEF LookUp

LEMMA ReadSessionKeeps ==
  ASSUME SessionInv, NEW w \in Worker, ReadSession(w)
  PROVE  SessionInv'
<1>1. StoreRests /\ CountsRest /\ req[w].pc = "select"
  BY OfRequest DEF ReadSession, At, StoreRests, CountsRest
<1>2. CASE Answer(w)
  BY <1>1, <1>2, Answers
<1>3. ASSUME NEW row \in session[req[w].tenant], row.secret = req[w].secret,
             req' = [req EXCEPT ![w].pc = "keep", ![w].user = row.user]
      PROVE  SessionInv'
  <2> DEFINE q == [req[w] EXCEPT !.pc = "keep", !.user = row.user]
  <2>1. /\ req[w].tenant \in Tenant
        /\ row \in Rows /\ row \in issued[req[w].tenant]
    BY <1>1, <1>3, OfRequest DEF SessionInv, SessionTypeOK, RowsIssued
  <2>2. row = Row(req[w].secret, row.user) /\ row.user \in User
    BY <1>3, <2>1 DEF Rows, Row
  <2>3. <<req[w].tenant, req[w].secret>> \notin over
    BY <1>3 DEF SessionInv, EndedAreGone, Ended
  <2>4. req[w].gen <= generation[req[w].tenant]
    BY <1>1 DEF SessionInv, Outdated
  <2>5. /\ q.pc = "keep" /\ q.tenant = req[w].tenant /\ q.secret = req[w].secret
        /\ q.user = row.user /\ q.late = req[w].late /\ q.gen = req[w].gen
        /\ q \in Asking
    <3>1. req[w] \in Asking
      BY OfRequest
    <3> QED BY <2>2, <3>1 DEF Asking
  <2>6. Sound(q)
    <3> HIDE DEF q
    <3> QED BY <1>1, <2>1, <2>2, <2>3, <2>4, <2>5, OfRequest DEF Sound
  <2>7. req' = [req EXCEPT ![w] = q]
    BY <1>3
  <2> HIDE DEF q
  <2> QED BY <1>1, <2>6, <2>7, OneMoves
<1> QED BY <1>2, <1>3 DEF ReadSession

-----------------------------------------------------------------------------
(* Steps that move the rows, the generations or the cache.                  *)

\* A request becomes q, and the others stay as they are.
Becomes(w, q) ==
  /\ req' \in [Worker -> Asking]
  /\ req'[w] = q
  /\ \A v \in Worker : v # w => req'[v] = req[v]

LEMMA Reset ==
  ASSUME SessionInv, NEW w \in Worker, Answer(w)
  PROVE  /\ Becomes(w, NoRequest)
         /\ NoRequest.pc = "idle" /\ NoRequest.late = FALSE
<1>1. NoRequest \in Asking
  BY DEF NoRequest, Asking, Kinds
<1> QED BY <1>1 DEF Answer, Becomes, SessionInv, SessionTypeOK, NoRequest

LEMMA MintSessionKeeps ==
  ASSUME SessionInv, NEW w \in Worker, MintSession(w)
  PROVE  SessionInv'
<1> DEFINE t == req[w].tenant
           u == req[w].user
<1>1. t \in Tenant /\ u \in User /\ req[w].pc = "mint"
  BY OfRequest DEF MintSession, At
<1>2. PICK s \in Secret :
        /\ \A row \in issued[t] : row.secret # s
        /\ session' = [session EXCEPT ![t] = @ \cup {Row(s, u)}]
        /\ issued' = [issued EXCEPT ![t] = @ \cup {Row(s, u)}]
  BY DEF MintSession
<1>3. UNCHANGED <<generation, cache, over, revocations, losses>> /\ Answer(w)
  BY DEF MintSession
<1>4. /\ Becomes(w, NoRequest)
      /\ NoRequest.pc = "idle" /\ NoRequest.late = FALSE
  BY <1>3, Reset
<1> HIDE DEF t, u
<1>5. /\ Row(s, u) \in Rows /\ Row(s, u).secret = s
      /\ session \in [Tenant -> SUBSET Rows] /\ issued \in [Tenant -> SUBSET Rows]
  BY <1>1 DEF Row, Rows, SessionInv, SessionTypeOK
<1>6. \A x \in Tenant :
        /\ session'[x] = IF x = t THEN session[x] \cup {Row(s, u)} ELSE session[x]
        /\ issued'[x] = IF x = t THEN issued[x] \cup {Row(s, u)} ELSE issued[x]
  BY <1>2, <1>5
<1>7. SessionTypeOK'
  BY <1>1, <1>2, <1>3, <1>4, <1>5 DEF SessionInv, SessionTypeOK, Becomes
<1>8. RequestShape'
  BY <1>4 DEF SessionInv, RequestShape, Becomes
<1>9. RowsIssued'
  BY <1>2, <1>5, <1>6 DEF SessionInv, RowsIssued
<1>10. ASSUME NEW x \in Tenant, NEW z, Ended(x, z)
       PROVE  Ended(x, z)'
  BY <1>2, <1>5, <1>6, <1>10 DEF Ended
<1>11. Believed'
  <2>1. \A e \in cache : e.key[1] \in Tenant
    BY DEF SessionInv, SessionTypeOK, Entries
  <2>2. \A v \in Worker : req[v].pc # "idle" => req[v].tenant \in Tenant
    BY OfRequest
  <2>3. \A x \in Tenant : issued[x] \subseteq issued'[x]
    BY <1>6
  <2>4. \A e \in cache' : Row(e.key[2], e.user) \in issued'[e.key[1]]
    BY <1>3, <2>1, <2>3 DEF SessionInv, Believed
  <2>5. ASSUME NEW v \in Worker, req'[v].pc \in {"keep", "admitted"}
        PROVE  Row(req'[v].secret, req'[v].user) \in issued'[req'[v].tenant]
    BY <1>4, <2>2, <2>3, <2>5 DEF SessionInv, Believed, Becomes
  <2> QED BY <2>4, <2>5 DEF Believed
<1>12. EndedAreGone'
  <2>1. \A k \in over : k[1] \in Tenant
    BY DEF SessionInv, SessionTypeOK
  <2>2. \A v \in Worker : req[v].pc # "idle" => req[v].tenant \in Tenant
    BY OfRequest
  <2>3. ASSUME NEW k \in over PROVE Ended(k[1], k[2])'
    BY <1>10, <2>1, <2>3 DEF SessionInv, EndedAreGone
  <2>4. ASSUME NEW v \in Worker, req'[v].pc = "bump"
        PROVE  req'[v] = req[v] /\ req[v].tenant \in Tenant
    BY <1>4, <2>2, <2>4 DEF Becomes
  <2>5. \A v \in Worker : req'[v].pc = "bump" =>
          \A z \in req'[v].ended : \A x \in Tenant : x = req'[v].tenant => Ended(x, z)'
    BY <1>10, <2>4 DEF SessionInv, EndedAreGone
  <2> QED BY <1>3, <2>3, <2>4, <2>5 DEF EndedAreGone
<1>13. Outdated'
  BY <1>3, <1>4 DEF SessionInv, Outdated, Becomes
<1>14. LateOutrun'
  BY <1>3, <1>4 DEF SessionInv, LateOutrun, Becomes
<1> QED BY <1>7, <1>8, <1>9, <1>11, <1>12, <1>13, <1>14 DEF SessionInv

LEMMA KeepSessionKeeps ==
  ASSUME SessionInv, NEW w \in Worker, KeepSession(w)
  PROVE  SessionInv'
<1> DEFINE k == <<req[w].tenant, req[w].secret>>
           new == [key |-> k, gen |-> req[w].gen, user |-> req[w].user, fresh |-> TRUE]
           q == [req[w] EXCEPT !.pc = "admitted", !.user = req[w].user]
<1>1. /\ req[w].pc = "keep" /\ req[w].tenant \in Tenant /\ req[w].secret \in Secret
      /\ req[w].user \in User /\ req[w].gen \in Nat /\ ~req[w].late
  BY OfRequest DEF KeepSession, At, Asking
<1>2. /\ UNCHANGED <<session, issued, generation, over, revocations, losses>>
      /\ cache' \subseteq cache \cup {new}
      /\ req' = [req EXCEPT ![w] = q]
  BY DEF KeepSession, KeyOf, Key, GenerationKept, Admit
<1>3. new \in Entries /\ new.key = k /\ new.gen = req[w].gen /\ new.user = req[w].user
  BY <1>1 DEF Entries
<1>4. k[1] = req[w].tenant /\ k[2] = req[w].secret
  OBVIOUS
<1>5. /\ q \in Asking /\ q.pc = "admitted" /\ q.tenant = req[w].tenant
      /\ q.secret = req[w].secret /\ q.user = req[w].user /\ ~q.late
  <2>1. req[w] \in Asking
    BY OfRequest
  <2> QED BY <1>1, <2>1 DEF Asking
<1> HIDE DEF new, q
<1>6. Becomes(w, q)
  BY <1>2, <1>5 DEF Becomes, SessionInv, SessionTypeOK
<1>7. SessionTypeOK'
  BY <1>2, <1>3, <1>6 DEF SessionInv, SessionTypeOK, Becomes
<1>8. RequestShape'
  BY <1>1, <1>5, <1>6 DEF SessionInv, RequestShape, Becomes
<1>9. RowsIssued'
  BY <1>2 DEF SessionInv, RowsIssued
<1>10. Row(req[w].secret, req[w].user) \in issued[req[w].tenant]
  BY <1>1 DEF SessionInv, Believed
<1>11. Believed'
  <2>1. \A e \in cache' : Row(e.key[2], e.user) \in issued'[e.key[1]]
    BY <1>2, <1>3, <1>4, <1>10 DEF SessionInv, Believed
  <2>2. \A v \in Worker : req'[v].pc \in {"keep", "admitted"} =>
          Row(req'[v].secret, req'[v].user) \in issued'[req'[v].tenant]
    BY <1>2, <1>5, <1>6, <1>10 DEF SessionInv, Believed, Becomes
  <2> QED BY <2>1, <2>2 DEF Believed
<1>12. EndedAreGone'
  BY <1>2, <1>5, <1>6 DEF SessionInv, EndedAreGone, Becomes, Ended
<1>13. Outdated'
  <2>1. /\ req[w].gen <= generation[k[1]]
        /\ k \in over => req[w].gen < generation[k[1]]
    BY <1>1, <1>4 DEF SessionInv, Outdated
  <2>2. \A e \in cache' : /\ e.gen <= generation'[e.key[1]]
                          /\ e.key \in over' => e.gen < generation'[e.key[1]]
    <3> HIDE DEF k
    <3> QED BY <1>2, <1>3, <2>1 DEF SessionInv, Outdated
  <2>3. \A v \in Worker :
          /\ req'[v].pc \in {"lookup", "select", "keep"} =>
               req'[v].gen <= generation'[req'[v].tenant]
          /\ req'[v].pc = "keep" /\ <<req'[v].tenant, req'[v].secret>> \in over' =>
               req'[v].gen < generation'[req'[v].tenant]
    BY <1>2, <1>5, <1>6 DEF SessionInv, Outdated, Becomes
  <2> QED BY <2>2, <2>3 DEF Outdated
<1>14. LateOutrun'
  <2> SUFFICES ASSUME NEW v \in Worker, req'[v].late
               PROVE  /\ <<req'[v].tenant, req'[v].secret>> \in over
                      /\ req'[v].pc \in {"load", "lookup", "select"}
                      /\ req'[v].pc = "lookup" =>
                         /\ \A e \in cache' : e.key = <<req'[v].tenant, req'[v].secret>> =>
                              e.gen < req'[v].gen
                         /\ \A u \in Worker : /\ req'[u].pc = "keep"
                                              /\ req'[u].tenant = req'[v].tenant
                                              /\ req'[u].secret = req'[v].secret
                                              => req'[u].gen < req'[v].gen
    BY <1>2 DEF LateOutrun
  <2>1. v # w /\ req'[v] = req[v]
    BY <1>5, <1>6 DEF Becomes
  <2>2. /\ <<req[v].tenant, req[v].secret>> \in over
        /\ req[v].pc \in {"load", "lookup", "select"}
        /\ req[v].pc = "lookup" =>
             /\ \A e \in cache : e.key = <<req[v].tenant, req[v].secret>> => e.gen < req[v].gen
             /\ \A u \in Worker : /\ req[u].pc = "keep"
                                  /\ req[u].tenant = req[v].tenant /\ req[u].secret = req[v].secret
                                  => req[u].gen < req[v].gen
    BY <2>1 DEF SessionInv, LateOutrun
  <2>3. ASSUME req[v].pc = "lookup", new.key = <<req[v].tenant, req[v].secret>>
        PROVE  new.gen < req[v].gen
    BY <1>1, <1>3, <2>2, <2>3
  <2>4. ASSUME req[v].pc = "lookup", NEW e \in cache', e.key = <<req[v].tenant, req[v].secret>>
        PROVE  e.gen < req[v].gen
    BY <1>2, <2>2, <2>3, <2>4
  <2>5. ASSUME req[v].pc = "lookup", NEW u \in Worker, req'[u].pc = "keep",
               req'[u].tenant = req[v].tenant, req'[u].secret = req[v].secret
        PROVE  req'[u].gen < req[v].gen
    <3>1. u # w /\ req'[u] = req[u]
      BY <1>5, <1>6, <2>5 DEF Becomes
    <3> QED BY <2>2, <2>5, <3>1
  <2> QED BY <2>1, <2>2, <2>4, <2>5
<1> QED BY <1>7, <1>8, <1>9, <1>11, <1>12, <1>13, <1>14 DEF SessionInv

LEMMA DeleteRowsKeeps ==
  ASSUME SessionInv, NEW w \in Worker, NEW rows, DeleteRows(w, rows),
         rows \subseteq session[req[w].tenant], req[w].pc = "admitted",
         req[w].kind = "logout" =>
           \A row \in session[req[w].tenant] : row.secret = req[w].secret => row \in rows,
         UNCHANGED <<issued, generation, cache, over, revocations, losses>>
  PROVE  SessionInv'
<1>0. PICK t \in Tenant : t = req[w].tenant
  BY OfRequest
<1> DEFINE gone == {row.secret : row \in rows} \cup
                     (IF req[w].kind = "logout" THEN {req[w].secret} ELSE {})
           q == [req[w] EXCEPT !.pc = "bump", !.ended = gone]
<1>1. req[w].secret \in Secret /\ ~req[w].late
  BY OfRequest
<1>2. session' = [session EXCEPT ![t] = @ \ rows] /\ req' = [req EXCEPT ![w] = q]
  BY <1>0 DEF DeleteRows
<1>3. session \in [Tenant -> SUBSET Rows] /\ issued \in [Tenant -> SUBSET Rows]
  BY DEF SessionInv, SessionTypeOK
<1>4. gone \subseteq Secret
  <2>1. \A row \in rows : row.secret \in Secret
    BY <1>0, <1>3 DEF Rows
  <2> QED BY <1>1, <2>1
<1> HIDE DEF gone
<1>5. /\ q \in Asking /\ q.pc = "bump" /\ q.tenant = t /\ q.ended = gone /\ ~q.late
  <2>1. req[w] \in Asking
    BY OfRequest
  <2> QED BY <1>0, <1>1, <1>4, <2>1 DEF Asking
<1> HIDE DEF q
<1>6. Becomes(w, q)
  BY <1>2, <1>5 DEF Becomes, SessionInv, SessionTypeOK
<1>7. \A x \in Tenant : session'[x] = IF x = t THEN session[x] \ rows ELSE session[x]
  BY <1>2, <1>3
<1>8. ASSUME NEW z \in gone PROVE Ended(t, z)'
  <2>1. CASE \E row \in rows : z = row.secret
    <3>1. PICK row \in rows : z = row.secret
      BY <2>1
    <3>2. row \in issued[t]
      BY <1>0, <3>1 DEF SessionInv, RowsIssued
    <3>3. ASSUME NEW r \in session[t], r.secret = z PROVE r = row
      BY <3>1, <3>2, <3>3 DEF SessionInv, RowsIssued
    <3> QED BY <1>7, <3>1, <3>2, <3>3 DEF Ended
  <2>2. CASE req[w].kind = "logout" /\ z = req[w].secret
    <3>1. Row(z, req[w].user) \in issued[t]
      BY <1>0, <2>2 DEF SessionInv, Believed
    <3>2. Row(z, req[w].user).secret = z
      BY DEF Row
    <3>3. \A r \in session[t] \ rows : r.secret # z
      BY <1>0, <2>2
    <3> QED BY <1>7, <3>1, <3>2, <3>3 DEF Ended
  <2> QED BY <2>1, <2>2, <1>8 DEF gone
<1> HIDE DEF gone
<1>9. SessionTypeOK'
  BY <1>2, <1>3, <1>6 DEF SessionInv, SessionTypeOK, Becomes
<1>10. RequestShape'
  BY <1>0, <1>5, <1>6 DEF SessionInv, RequestShape, Becomes
<1>11. RowsIssued'
  BY <1>7 DEF SessionInv, RowsIssued
<1>12. Believed'
  BY <1>5, <1>6 DEF SessionInv, Believed, Becomes
<1>13. EndedAreGone'
  <2>1. \A x \in Tenant : \A z : Ended(x, z) => Ended(x, z)'
    BY <1>7 DEF Ended
  <2>2. \A k \in over : k[1] \in Tenant
    BY DEF SessionInv, SessionTypeOK
  <2>3. \A v \in Worker : req[v].pc # "idle" => req[v].tenant \in Tenant
    BY OfRequest
  <2>4. \A k \in over' : Ended(k[1], k[2])'
    BY <2>1, <2>2 DEF SessionInv, EndedAreGone
  <2>5. \A v \in Worker : req'[v].pc = "bump" =>
          \A z \in req'[v].ended : \A x \in Tenant : x = req'[v].tenant => Ended(x, z)'
    <3>1. ASSUME NEW v \in Worker, v # w, req'[v].pc = "bump"
          PROVE  \A z \in req'[v].ended : \A x \in Tenant : x = req'[v].tenant => Ended(x, z)'
      BY <1>6, <2>1, <3>1 DEF SessionInv, EndedAreGone, Becomes
    <3>2. \A z \in req'[w].ended : \A x \in Tenant : x = req'[w].tenant => Ended(x, z)'
      BY <1>0, <1>5, <1>6, <1>8 DEF Becomes
    <3> QED BY <3>1, <3>2
  <2>6. \A v \in Worker : req'[v].pc = "bump" => req'[v].tenant \in Tenant
    BY <1>0, <1>5, <1>6, <2>3 DEF Becomes
  <2> QED BY <2>4, <2>5, <2>6 DEF EndedAreGone
<1>14. Outdated'
  BY <1>5, <1>6 DEF SessionInv, Outdated, Becomes
<1>15. LateOutrun'
  BY <1>5, <1>6 DEF SessionInv, LateOutrun, Becomes
<1> QED BY <1>9, <1>10, <1>11, <1>12, <1>13, <1>14, <1>15 DEF SessionInv

LEMMA LogoutKeeps ==
  ASSUME SessionInv, NEW w \in Worker, Logout(w)
  PROVE  SessionInv'
<1> DEFINE rows == {row \in session[req[w].tenant] : row.secret = req[w].secret}
<1>1. /\ DeleteRows(w, rows) /\ req[w].pc = "admitted"
      /\ UNCHANGED <<issued, generation, cache, over, revocations, losses>>
  BY DEF Logout, At
<1>2. /\ rows \subseteq session[req[w].tenant]
      /\ \A row \in session[req[w].tenant] : row.secret = req[w].secret => row \in rows
  OBVIOUS
<1> HIDE DEF rows
<1> QED BY <1>1, <1>2, DeleteRowsKeeps

LEMMA RevokeKeeps ==
  ASSUME SessionInv, NEW w \in Worker, Revoke(w)
  PROVE  SessionInv'
<1> DEFINE rows == {row \in session[req[w].tenant] : row.user = req[w].target}
<1>1. /\ req[w].pc = "admitted" /\ req[w].kind # "logout"
      /\ UNCHANGED <<issued, generation, cache, over, revocations, losses>>
  BY DEF Revoke, At
<1>2. CASE DeleteRows(w, rows)
  <2>1. rows \subseteq session[req[w].tenant]
    OBVIOUS
  <2> HIDE DEF rows
  <2> QED BY <1>1, <1>2, <2>1, DeleteRowsKeeps
<1>3. CASE Answer(w) /\ UNCHANGED session
  <2>1. StoreRests /\ CountsRest
    BY <1>1, <1>3, OfRequest DEF StoreRests, CountsRest
  <2> QED BY <1>3, <2>1, Answers
<1> QED BY <1>2, <1>3 DEF Revoke

LEMMA BumpKeeps ==
  ASSUME SessionInv, NEW w \in Worker, Bump(w)
  PROVE  SessionInv'
<1>0. PICK t \in Tenant : t = req[w].tenant
  BY OfRequest DEF Bump, At
<1>1. /\ req[w].pc = "bump" /\ req[w].ended \subseteq Secret
      /\ generation \in [Tenant -> Nat]
  BY OfRequest DEF Bump, At, Asking
<1>2. /\ UNCHANGED <<session, issued, cache, revocations, losses>>
      /\ generation' = [generation EXCEPT ![t] = @ + 1]
      /\ over' = over \cup {<<t, s>> : s \in req[w].ended}
      /\ Answer(w)
  BY <1>0 DEF Bump
<1>3. /\ Becomes(w, NoRequest)
      /\ NoRequest.pc = "idle" /\ NoRequest.late = FALSE
  BY <1>2, Reset
<1>4. \A x \in Tenant : /\ generation[x] \in Nat
                       /\ generation'[x] = IF x = t THEN generation[x] + 1 ELSE generation[x]
  BY <1>1, <1>2
<1>5. /\ over' \subseteq Tenant \X Secret /\ over \subseteq over'
      /\ \A k \in over' : k \in over \/ (k[1] = t /\ k[2] \in req[w].ended)
      /\ \A k \in over' : k \in over \/ k[1] = t
  BY <1>1, <1>2 DEF SessionInv, SessionTypeOK
<1>6. SessionTypeOK'
  BY <1>1, <1>2, <1>3, <1>5 DEF SessionInv, SessionTypeOK, Becomes
<1>7. RequestShape'
  BY <1>3 DEF SessionInv, RequestShape, Becomes
<1>8. RowsIssued'
  BY <1>2 DEF SessionInv, RowsIssued
<1>9. Believed'
  BY <1>2, <1>3 DEF SessionInv, Believed, Becomes
<1>10. EndedAreGone'
  <2>1. \A x, z : Ended(x, z) => Ended(x, z)'
    BY <1>2 DEF Ended
  <2>2. \A k \in over' : Ended(k[1], k[2])
    BY <1>0, <1>1, <1>5 DEF SessionInv, EndedAreGone
  <2>3. \A v \in Worker : req'[v].pc = "bump" => \A s \in req'[v].ended : Ended(req'[v].tenant, s)
    BY <1>3 DEF SessionInv, EndedAreGone, Becomes
  <2>4. UNCHANGED <<session, issued>>
    BY <1>2
  <2> QED BY <2>2, <2>3, <2>4 DEF EndedAreGone, Ended
<1>11. Outdated'
  <2>1. ASSUME NEW e \in cache
        PROVE  /\ e.gen <= generation'[e.key[1]]
               /\ e.key \in over' => e.gen < generation'[e.key[1]]
    <3>1. e.key[1] \in Tenant /\ e.gen \in Nat
      BY DEF SessionInv, SessionTypeOK, Entries
    <3>2. /\ e.gen <= generation[e.key[1]]
          /\ e.key \in over => e.gen < generation[e.key[1]]
      BY DEF SessionInv, Outdated
    <3>3. e.key \in over' => e.key \in over \/ e.key[1] = t
      BY <1>5
    <3> QED BY <1>4, <3>1, <3>2, <3>3
  <2>2. ASSUME NEW v \in Worker, req'[v].pc \in {"lookup", "select", "keep"}
        PROVE  /\ req'[v].gen <= generation'[req'[v].tenant]
               /\ req'[v].pc = "keep" /\ <<req'[v].tenant, req'[v].secret>> \in over' =>
                    req'[v].gen < generation'[req'[v].tenant]
    <3>1. req'[v] = req[v] /\ req[v].tenant \in Tenant /\ req[v].gen \in Nat
      BY <1>3, <2>2, OfRequest DEF Becomes, Asking
    <3>2. /\ req[v].gen <= generation[req[v].tenant]
          /\ req[v].pc = "keep" /\ <<req[v].tenant, req[v].secret>> \in over =>
               req[v].gen < generation[req[v].tenant]
      BY <2>2, <3>1 DEF SessionInv, Outdated
    <3>3. <<req[v].tenant, req[v].secret>> \in over' =>
            <<req[v].tenant, req[v].secret>> \in over \/ req[v].tenant = t
      BY <1>5
    <3> QED BY <1>4, <3>1, <3>2, <3>3
  <2> QED BY <1>2, <2>1, <2>2 DEF Outdated
<1>12. LateOutrun'
  BY <1>2, <1>3, <1>5 DEF SessionInv, LateOutrun, Becomes
<1> QED BY <1>6, <1>7, <1>8, <1>9, <1>10, <1>11, <1>12 DEF SessionInv

LEMMA LapseKeeps ==
  ASSUME SessionInv, NEW e \in cache, Lapse(e)
  PROVE  SessionInv'
<1> DEFINE old == [e EXCEPT !.fresh = FALSE]
<1>1. /\ old \in Entries /\ old.key = e.key /\ old.gen = e.gen /\ old.user = e.user
  BY DEF SessionInv, SessionTypeOK, Entries
<1>2. /\ UNCHANGED <<session, issued, generation, req, over, revocations, losses>>
      /\ cache' \subseteq cache \cup {old}
  BY DEF Lapse
<1> HIDE DEF old
<1>3. SessionTypeOK'
  BY <1>1, <1>2 DEF SessionInv, SessionTypeOK
<1>4. RequestShape' /\ RowsIssued' /\ EndedAreGone'
  BY <1>2 DEF SessionInv, RequestShape, RowsIssued, EndedAreGone, Ended
<1>5. Believed'
  BY <1>1, <1>2 DEF SessionInv, Believed
<1>6. Outdated'
  BY <1>1, <1>2 DEF SessionInv, Outdated
<1>7. LateOutrun'
  <2>1. \A f \in cache' : \E g \in cache : g.key = f.key /\ g.gen = f.gen
    BY <1>1, <1>2
  <2>2. \A k, n : (\A g \in cache : g.key = k => g.gen < n) => (\A f \in cache' : f.key = k => f.gen < n)
    BY <2>1
  <2> QED BY <1>2, <2>2 DEF SessionInv, LateOutrun
<1> QED BY <1>3, <1>4, <1>5, <1>6, <1>7 DEF SessionInv

LEMMA RemoveRowKeeps ==
  ASSUME SessionInv, NEW t \in Tenant, NEW row, RemoveRow(t, row)
  PROVE  SessionInv'
<1>1. /\ UNCHANGED <<issued, generation, cache, req, over, revocations>>
      /\ losses' \in Nat
      /\ session' = [session EXCEPT ![t] = @ \ {row}]
      /\ session \in [Tenant -> SUBSET Rows]
  BY DEF RemoveRow, SessionInv, SessionTypeOK
<1>2. \A x \in Tenant : session'[x] \subseteq session[x]
  BY <1>1
<1>3. SessionTypeOK'
  BY <1>1 DEF SessionInv, SessionTypeOK
<1>4. RequestShape' /\ Believed' /\ Outdated' /\ LateOutrun'
  BY <1>1 DEF SessionInv, RequestShape, Believed, Outdated, LateOutrun
<1>5. RowsIssued'
  BY <1>1, <1>2 DEF SessionInv, RowsIssued
<1>6. EndedAreGone'
  <2>1. \A x \in Tenant : \A z : Ended(x, z) => Ended(x, z)'
    BY <1>1, <1>2 DEF Ended
  <2>2. \A k \in over : k[1] \in Tenant
    BY DEF SessionInv, SessionTypeOK
  <2>3. \A v \in Worker : req[v].pc # "idle" => req[v].tenant \in Tenant
    BY OfRequest
  <2>4. \A k \in over' : \A x \in Tenant : x = k[1] => Ended(x, k[2])'
    BY <1>1, <2>1 DEF SessionInv, EndedAreGone
  <2>5. \A v \in Worker : req'[v].pc = "bump" =>
          \A z \in req'[v].ended : \A x \in Tenant : x = req'[v].tenant => Ended(x, z)'
    BY <1>1, <2>1 DEF SessionInv, EndedAreGone
  <2> QED BY <1>1, <2>2, <2>3, <2>4, <2>5 DEF EndedAreGone
<1> QED BY <1>3, <1>4, <1>5, <1>6 DEF SessionInv

LEMMA ForgetSessionsKeeps ==
  ASSUME SessionInv, ForgetSessions
  PROVE  SessionInv'
<1>1. /\ NoRequest.pc = "idle" /\ NoRequest.late = FALSE /\ NoRequest \in Asking
  BY DEF NoRequest, Asking, Kinds
<1>2. /\ UNCHANGED <<session, issued, over, revocations, losses>>
      /\ cache' = {} /\ generation' = [t \in Tenant |-> 0]
      /\ req' \in [Worker -> Asking]
      /\ \A w \in Worker : req'[w] = NoRequest
  BY <1>1 DEF ForgetSessions
<1> QED BY <1>1, <1>2 DEF SessionInv, SessionTypeOK, RequestShape, RowsIssued, Believed,
                        EndedAreGone, Ended, Outdated, LateOutrun

-----------------------------------------------------------------------------
(* The steps of the process.                                                *)

\* The steps that leave the sessions and their requests alone.
SessionsRest == UNCHANGED sessionVars

LEMMA RestKeeps ==
  ASSUME SessionInv, SessionsRest
  PROVE  SessionInv'
BY DEF SessionsRest, sessionVars, SessionInv, SessionTypeOK, RequestShape, RowsIssued, Believed,
       EndedAreGone, Ended, Outdated, LateOutrun

LEMMA AuthenticateKeeps ==
  ASSUME SessionInv, NEW w \in Worker, SessionStep(w)
  PROVE  SessionInv'
<1>1. CASE SignIn(w)
  <2>1. StoreRests /\ CountsRest /\ req[w].pc = "signin"
    BY <1>1, OfRequest DEF SignIn, At, StoreRests, CountsRest
  <2> QED BY <1>1, <2>1, GoesOn, Answers DEF SignIn
<1> QED BY <1>1, MintSessionKeeps, LoadGenerationKeeps, LookUpKeeps, ReadSessionKeeps,
           KeepSessionKeeps, LogoutKeeps, RevokeKeeps, BumpKeeps DEF SessionStep

LEMMA RequestKeeps ==
  ASSUME SessionInv, NEW w \in Worker, Request(w)
  PROVE  SessionInv'
<1>1. PICK kind \in Requests \cap workload.does, t \in Tenant, s \in {k[2] : k \in Known} :
        IF kind = "revoke" THEN \E u \in User : Arrive(w, t, s, kind, u)
                           ELSE Arrive(w, t, s, kind, Nobody)
  BY DEF Request
<1>2. kind \in Kinds
  BY DEF Requests, Kinds
<1>3. s \in Secret
  <2>1. PICK k \in Known : s = k[2]
    OBVIOUS
  <2>2. PICK x \in Tenant : k \in {<<x, row.secret>> : row \in issued[x]}
    BY <2>1 DEF Known
  <2>3. PICK row \in issued[x] : k = <<x, row.secret>>
    BY <2>2
  <2> QED BY <2>1, <2>3 DEF SessionInv, SessionTypeOK, Rows
<1> QED BY <1>1, <1>2, <1>3, ArriveKeeps

LEMMA DispatchKeeps ==
  ASSUME SessionInv, NEW w \in Worker, Dispatch(w)
  PROVE  SessionInv'
<1>1. StoreRests /\ CountsRest
  BY OfRequest DEF Dispatch, Verb, SessionJwt, SubscribeRequest, EventsRequest, UnsubscribeRequest,
                   RestOfSessions, StoreRests, CountsRest
<1>2. CASE Answer(w)
  BY <1>1, <1>2, Answers
<1>3. CASE SessionJwt(w) /\ GoTo(w, "subscribe")
  BY <1>1, <1>3, GoesOn DEF SessionJwt, Dispatched, At
<1> QED BY <1>2, <1>3 DEF Dispatch, Verb, SessionJwt, SubscribeRequest, EventsRequest,
                          UnsubscribeRequest

LEMMA FailureKeeps ==
  ASSUME SessionInv, NEW w \in Worker, RequestFails(w)
  PROVE  SessionInv'
BY Answers, OfRequest DEF RequestFails, StoreRests, CountsRest

LEMMA NextKeeps ==
  ASSUME SessionInv, [Next]_vars
  PROVE  SessionInv'
<1>1. ASSUME NEW w \in Worker, LoginRequest(w) PROVE SessionInv'
  BY <1>1, LoginKeeps DEF LoginRequest
<1>2. ASSUME NEW w \in Worker, Authenticate(w) PROVE SessionInv'
  BY <1>2, AuthenticateKeeps DEF Authenticate
<1>3. ASSUME NEW k \in Tenant \X Secret, Expiry(k) PROVE SessionInv'
  BY <1>3, LapseKeeps DEF Expiry
<1>4. CASE Removal
  BY <1>4, RemoveRowKeeps DEF Removal
<1>5. CASE Failure
  BY <1>5, FailureKeeps DEF Failure
<1>6. CASE Restart
  BY <1>6, ForgetSessionsKeeps DEF Restart
<1>7. CASE SessionsRest
  BY <1>7, RestKeeps
<1>8. ASSUME NEW w \in Worker, Converse(w) PROVE SessionsRest
  BY <1>8 DEF Converse, InRealtime, SessionsRest
<1>9. ASSUME Maintenance \/ Connections \/ Enqueue \/ Clock \/ RootTraffic PROVE SessionsRest
  BY <1>9 DEF Maintenance, Connections, Enqueue, Clock, RootTraffic,
              InRealtime, InFairness, InRoot, SessionsRest
<1>10. ASSUME NEW s \in Sub, Delivery(s) \/ Idling(s) PROVE SessionsRest
  BY <1>10 DEF Delivery, Idling, InRealtime, SessionsRest
<1>11. ASSUME NEW d \in Drainer, Drain(d) PROVE SessionsRest
  BY <1>11 DEF Drain, InFairness, SessionsRest
<1>12. ASSUME NEW c \in Caller, AsRoot(c) PROVE SessionsRest
  BY <1>12 DEF AsRoot, InRoot, SessionsRest
<1>13. ASSUME NEW w \in Thread, Metadata(w) \/ Manage(w) PROVE SessionsRest
  BY <1>13 DEF Metadata, Manage, InMetadata, SessionsRest
<1>14. ASSUME UNCHANGED vars PROVE SessionsRest
  BY <1>14 DEF vars, SessionsRest
<1> QED BY <1>1, <1>2, <1>3, <1>4, <1>5, <1>6, <1>7, <1>8, <1>9, <1>10, <1>11, <1>12, <1>13,
           <1>14, RequestKeeps, DispatchKeeps DEF Next

LEMMA InitHolds ==
  ASSUME Init
  PROVE  SessionInv
<1>1. PICK k \in Workloads : SessionInit(k.earlier)
  BY DEF Init
<1>2. k.earlier \in [Tenant -> SUBSET Rows]
  BY ServingAssumption
<1>3. \A t \in Tenant : \A r1, r2 \in k.earlier[t] : r1.secret = r2.secret => r1 = r2
  BY ServingAssumption
<1>4. /\ NoRequest.pc = "idle" /\ NoRequest.late = FALSE /\ NoRequest \in Asking
  BY DEF NoRequest, Asking, Kinds
<1>5. /\ session = k.earlier /\ issued = k.earlier /\ cache = {} /\ over = {}
      /\ generation = [t \in Tenant |-> 0] /\ revocations = 0 /\ losses = 0
      /\ req \in [Worker -> Asking]
      /\ \A w \in Worker : req[w] = NoRequest
  BY <1>1, <1>4 DEF SessionInit
<1> QED BY <1>2, <1>3, <1>4, <1>5 DEF SessionInv, SessionTypeOK, RequestShape, RowsIssued,
                Believed, EndedAreGone, Outdated, LateOutrun

-----------------------------------------------------------------------------
\* The inductive invariant, the types included, holds in every reachable state.
THEOREM SessionsInvariant == Spec => []SessionInv
<1>1. Init => SessionInv
  BY InitHolds
<1>2. SessionInv /\ [Next]_vars => SessionInv'
  BY NextKeeps
<1> QED BY <1>1, <1>2, PTL DEF Spec

\* Whoever a request acts as owns the session its token names (rest.rs:78).
THEOREM AdmissionIsTheOwners == Spec => []AdmittedAsOwner
<1>1. SessionInv => AdmittedAsOwner
  BY DEF SessionInv, Believed, AdmittedAsOwner, At
<1> QED BY <1>1, SessionsInvariant, PTL

\* A request that begins after a logout or revocation was answered is not let in
\* with a session it ended, whatever lookups were under way (rest.rs:438).
THEOREM LogoutEndsTheSession == Spec => []LogoutIsFinal
<1>1. SessionInv => LogoutIsFinal
  BY DEF SessionInv, LateOutrun, LogoutIsFinal, At
<1> QED BY <1>1, SessionsInvariant, PTL

-----------------------------------------------------------------------------
(* The metadata caches.                                                     *)

Lookups == Hook \cup {"doctype", "rules"}
Looking == {"look", "load", "keep"}
Fields == {"pc", "store", "stage", "stages", "gen", "since", "found", "left", "ran"}

Counted ==
  /\ version \in [Store -> Nat] /\ metaGen \in [Store -> Nat] /\ bumped \in [Store -> Nat]
  /\ kept = [what \in Caches |-> kept[what]]
  /\ write = [w \in Thread |-> write[w]]
  /\ \A t \in Store : bumped[t] <= version[t]

\* An entry of the current generation holds what was stored at the last bump.
Entry(e) ==
  /\ e.store \in Store /\ e.gen \in Nat /\ e.found.version \in Nat
  /\ e.gen <= metaGen[e.store]
  /\ e.gen = metaGen[e.store] => e.found.version >= bumped[e.store]

EntriesRecent == \A what \in Caches : \A e \in kept[what] : Entry(e)

\* What is known of a write by itself.
Informed(q) ==
  q.pc # "idle" =>
    /\ DOMAIN q = Fields
    /\ q.store \in Store /\ q.stages \in Seq(Lookups)
    /\ q.since \in Nat /\ q.since <= bumped[q.store]
    /\ q.pc \in Looking => q.stage \in Lookups /\ q.gen \in Nat /\ q.gen <= metaGen[q.store]
    /\ q.pc \in {"keep", "run", "next"} => q.found.version \in Nat /\ q.found.version >= q.since
    /\ q.pc = "keep" /\ q.gen = metaGen[q.store] => q.found.version >= bumped[q.store]

\* What a lookup may hit, now or once a slower lookup has kept what it read, is new enough.
Served(q, found) == found.version >= q.since
ServedByEntries(q) ==
  \A what \in Caches : \A e \in kept[what] : e.store = q.store /\ e.gen = q.gen => Served(q, e.found)
Supplies(v, q) == v.pc = "keep" /\ q.pc = "look" /\ v.store = q.store /\ v.gen = q.gen

MetaInv ==
  /\ Counted /\ EntriesRecent /\ workload.stores \subseteq Store
  /\ \A w \in Thread : Informed(write[w])
  /\ \A w \in Thread : write[w].pc = "look" => ServedByEntries(write[w])
  /\ \A v, w \in Thread : Supplies(write[v], write[w]) => Served(write[w], write[v].found)

BooksRest == UNCHANGED <<version, metaGen, bumped, workload>>

LEMMA OneWrites ==
  ASSUME MetaInv, NEW w \in Thread, NEW q, Informed(q),
         q.pc = "look" => ServedByEntries(q),
         \A v \in Thread : /\ Supplies(write[v], q) => Served(q, write[v].found)
                           /\ Supplies(q, write[v]) => Served(write[v], q.found),
         write' = [write EXCEPT ![w] = q], BooksRest, kept' = kept
  PROVE  MetaInv'
<1> USE DEF BooksRest
<1>1. \A v \in Thread : write'[v] = IF v = w THEN q ELSE write[v]
  BY DEF MetaInv, Counted
<1>2. Counted' /\ EntriesRecent'
  BY DEF MetaInv, Counted, EntriesRecent, Entry
<1>3. ASSUME NEW v \in Thread PROVE Informed(write[v])'
  BY <1>1 DEF MetaInv, Informed
<1>4. ASSUME NEW v \in Thread, write'[v].pc = "look" PROVE ServedByEntries(write[v])'
  BY <1>1, <1>4 DEF MetaInv, ServedByEntries
<1>5. ASSUME NEW u \in Thread, NEW v \in Thread, Supplies(write'[u], write'[v])
      PROVE  Served(write'[v], write'[u].found)
  <2>1. CASE u = w /\ v = w
    BY <2>1, <1>1, <1>5 DEF Supplies
  <2>2. CASE u = w /\ v # w
    BY <2>2, <1>1, <1>5
  <2>3. CASE u # w /\ v = w
    BY <2>3, <1>1, <1>5
  <2>4. CASE u # w /\ v # w
    BY <2>4, <1>1, <1>5 DEF MetaInv
  <2> QED BY <2>1, <2>2, <2>3, <2>4
<1> QED BY <1>2, <1>3, <1>4, <1>5 DEF MetaInv

LEMMA Ends ==
  ASSUME MetaInv, NEW w \in Thread, write' = [write EXCEPT ![w] = NoWrite], BooksRest, kept' = kept
  PROVE  MetaInv'
<1>1. NoWrite.pc = "idle"
  BY DEF NoWrite
<1>2. Informed(NoWrite)
  BY <1>1 DEF Informed
<1> QED BY <1>1, <1>2, OneWrites DEF Supplies

LEMMA PartsAreLookups ==
  ASSUME NEW kind \in Reads, NEW part \in Parts(kind)
  PROVE  part \in Seq(Lookups)
<1>1. CASE kind = "read"
  <2>1. part = <<"doctype">>
    BY <1>1 DEF Parts
  <2> QED BY <2>1 DEF Lookups
<1>2. CASE kind = "tell"
  <2>1. part = <<"rules">>
    BY <1>2 DEF Parts
  <2> QED BY <2>1 DEF Lookups
<1>3. CASE kind = "fire"
  <2>1. part = <<"validate">> \/ \E h \in Early : part = <<h, "validate">>
    BY <1>3 DEF Parts
  <2>2. "validate" \in Lookups /\ Early \subseteq Lookups
    BY DEF Lookups, Hook
  <2> QED BY <2>1, <2>2
<1> QED BY <1>1, <1>2, <1>3 DEF Reads

LEMMA BeginPartKeeps ==
  ASSUME MetaInv, NEW w \in Thread, NEW t \in Store, NEW kind \in Reads, BeginPart(w, t, kind), InMetadata
  PROVE  MetaInv'
<1>1. PICK part \in Parts(kind) :
        write' = [write EXCEPT ![w] =
          [pc |-> "next", store |-> t, stage |-> "none", stages |-> part, gen |-> 0,
           since |-> bumped[t], found |-> Nothing(t), left |-> <<>>, ran |-> <<>>]]
  BY DEF BeginPart
<1> DEFINE q == [pc |-> "next", store |-> t, stage |-> "none", stages |-> part, gen |-> 0,
                 since |-> bumped[t], found |-> Nothing(t), left |-> <<>>, ran |-> <<>>]
<1>2. /\ q.pc = "next" /\ q.store = t /\ q.stages = part /\ q.since = bumped[t]
      /\ q.found.version = bumped[t] /\ DOMAIN q = Fields
  BY DEF Nothing, Fields
<1> HIDE DEF q
<1>3. Informed(q)
  <2>1. part \in Seq(Lookups) /\ bumped[t] \in Nat
    BY PartsAreLookups DEF MetaInv, Counted
  <2> QED BY <1>2, <2>1 DEF Informed, Looking
<1>4. BooksRest /\ kept' = kept
  BY DEF BeginPart, WritesRest, BooksRest, InMetadata
<1> QED BY <1>1, <1>2, <1>3, <1>4, OneWrites DEF Supplies, q

LEMMA BeginLookupKeeps ==
  ASSUME MetaInv, NEW w \in Thread, BeginLookup(w), InMetadata
  PROVE  MetaInv'
<1> DEFINE t == write[w].store
           q == [write[w] EXCEPT
                   !.pc = "look", !.stage = Head(write[w].stages), !.stages = Tail(write[w].stages),
                   !.gen = metaGen[t], !.found = Nothing(t), !.ran = <<>>]
<1>1. /\ write[w].pc = "next" /\ write[w].stages # <<>>
      /\ DOMAIN write[w] = Fields /\ t \in Store /\ write[w].stages \in Seq(Lookups)
      /\ write[w].since \in Nat /\ write[w].since <= bumped[t]
  BY DEF BeginLookup, WriteAt, MetaInv, Informed
<1>2. write' = [write EXCEPT ![w] = q]
  BY DEF BeginLookup
<1>3. BooksRest /\ kept' = kept
  BY DEF BeginLookup, WritesRest, BooksRest, InMetadata
<1>4. /\ q.pc = "look" /\ q.store = t /\ q.gen = metaGen[t] /\ q.since = write[w].since
      /\ q.stage = Head(write[w].stages) /\ q.stages = Tail(write[w].stages)
      /\ DOMAIN q = Fields
  BY <1>1 DEF Fields
<1> HIDE DEF q
<1>5. Informed(q)
  <2>1. q.stage \in Lookups /\ q.stages \in Seq(Lookups)
    BY <1>1, <1>4
  <2>2. metaGen[t] \in Nat
    BY <1>1 DEF MetaInv, Counted
  <2> QED BY <2>1, <2>2, <1>1, <1>4 DEF Informed
<1>6. ServedByEntries(q)
  BY <1>1, <1>4 DEF ServedByEntries, Served, MetaInv, EntriesRecent, Entry, Counted
<1>7. ASSUME NEW v \in Thread
      PROVE  /\ Supplies(write[v], q) => Served(q, write[v].found)
             /\ ~Supplies(q, write[v])
  <2>1. Informed(write[v])
    BY DEF MetaInv
  <2> QED BY <2>1, <1>1, <1>4 DEF Supplies, Served, Informed, MetaInv, Counted
<1> QED BY <1>2, <1>3, <1>5, <1>6, <1>7, OneWrites

\* Taken is a next step or the beginning of a chain, with what was found.
LEMMA TakenIsInformed ==
  ASSUME MetaInv, NEW w \in Thread, write[w].pc \in Looking, NEW found,
         found.version \in Nat, found.version >= write[w].since
  PROVE  /\ Informed(Taken(w, found))
         /\ Taken(w, found).pc \in {"run", "next"}
<1> DEFINE chain == IF Stage(w) \in Hook THEN Chain(found.list, Stage(w)) ELSE <<>>
           q == [write[w] EXCEPT !.pc = IF chain = <<>> THEN "next" ELSE "run",
                                 !.left = chain, !.found = found]
<1>1. Informed(write[w]) /\ write[w].pc # "idle"
  BY DEF MetaInv, Looking
<1>2. Taken(w, found) = q
  BY DEF Taken
<1> HIDE DEF chain
<1>3. /\ q.pc \in {"run", "next"} /\ q.found = found /\ q.store = write[w].store
      /\ q.stages = write[w].stages /\ q.since = write[w].since /\ DOMAIN q = Fields
  BY <1>1 DEF Informed, Fields
<1> HIDE DEF q
<1>4. Informed(q)
  BY <1>1, <1>3 DEF Informed, Looking
<1> QED BY <1>2, <1>3, <1>4

LEMMA CacheOfLookup ==
  ASSUME NEW stage \in Lookups
  PROVE  CacheOf(stage) \in Caches
BY DEF CacheOf, Caches, Lookups

LEMMA LookKeeps ==
  ASSUME MetaInv, NEW w \in Thread, Look(w), InMetadata
  PROVE  MetaInv'
<1>1. write[w].pc = "look" /\ Informed(write[w]) /\ write[w].stage \in Lookups
  BY DEF Look, WriteAt, MetaInv, Informed, Looking
<1>2. BooksRest /\ kept' = kept
  BY DEF Look, WritesRest, BooksRest, InMetadata
<1>3. ASSUME NEW e \in Cached(w), Hit(w, e), write' = [write EXCEPT ![w] = Taken(w, e.found)]
      PROVE  MetaInv'
  <2>1. Entry(e) /\ Served(write[w], e.found)
    BY <1>1, <1>3, CacheOfLookup DEF Cached, Stage, Hit, MetaInv, EntriesRecent, ServedByEntries
  <2>2. Informed(Taken(w, e.found)) /\ Taken(w, e.found).pc \in {"run", "next"}
    BY <2>1, <1>1, TakenIsInformed DEF Entry, Served, Looking
  <2> QED BY <2>2, <1>2, <1>3, OneWrites DEF Supplies
<1>4. ASSUME write' = [write EXCEPT ![w].pc = "load"]
      PROVE  MetaInv'
  <2> DEFINE q == [write[w] EXCEPT !.pc = "load"]
  <2>1. Informed(q) /\ q.pc = "load"
    BY <1>1 DEF Informed, Looking, Fields
  <2>2. write' = [write EXCEPT ![w] = q]
    BY <1>4
  <2> HIDE DEF q
  <2> QED BY <2>1, <2>2, <1>2, OneWrites DEF Supplies
<1> QED BY <1>3, <1>4 DEF Look

LEMMA LoadRowKeeps ==
  ASSUME MetaInv, NEW w \in Thread, LoadRow(w), InMetadata
  PROVE  MetaInv'
<1> DEFINE t == write[w].store
           row == Stored(t, CacheOf(Stage(w)))
           q == [write[w] EXCEPT !.pc = "keep", !.found = row]
<1>1. write[w].pc = "load" /\ Informed(write[w]) /\ t \in Store
  BY DEF LoadRow, WriteAt, MetaInv, Informed
<1>2. BooksRest /\ kept' = kept
  BY DEF LoadRow, WritesRest, BooksRest, InMetadata
<1>3. row.version = version[t]
  BY DEF Stored
<1>4. version[t] \in Nat /\ bumped[t] \in Nat /\ bumped[t] <= version[t]
  BY <1>1 DEF MetaInv, Counted
<1>5. CASE write' = [write EXCEPT ![w] = q]
  <2> HIDE DEF row
  <2>1. /\ q.pc = "keep" /\ q.store = t /\ q.found = row
        /\ q.since = write[w].since /\ q.gen = write[w].gen
        /\ q.stage = write[w].stage /\ q.stages = write[w].stages /\ DOMAIN q = Fields
    BY <1>1 DEF Informed, Fields
  <2> HIDE DEF q
  <2>2. Informed(q)
    BY <1>1, <1>3, <1>4, <2>1 DEF Informed, Looking
  <2>3. ASSUME NEW v \in Thread
        PROVE  /\ ~Supplies(write[v], q)
               /\ Supplies(q, write[v]) => Served(write[v], q.found)
    <3>1. Informed(write[v])
      BY DEF MetaInv
    <3> QED BY <3>1, <1>1, <1>3, <1>4, <2>1 DEF Supplies, Served, Informed
  <2> QED BY <1>2, <1>5, <2>1, <2>2, <2>3, OneWrites
<1>6. CASE write' = [write EXCEPT ![w] = NoWrite]
  BY <1>6, <1>2, Ends
<1>7. \/ write' = [write EXCEPT ![w] = q]
      \/ write' = [write EXCEPT ![w] = NoWrite]
  BY DEF LoadRow
<1> QED BY <1>5, <1>6, <1>7

\* The entry that is kept is of the generation the lookup began with.
LEMMA KeepContentKeeps ==
  ASSUME MetaInv, NEW w \in Thread, KeepContent(w), InMetadata
  PROVE  MetaInv'
<1> DEFINE q == Taken(w, write[w].found)
           e0 == [store |-> write[w].store, gen |-> write[w].gen, found |-> write[w].found]
<1>1. write[w].pc = "keep" /\ Informed(write[w]) /\ write[w].store \in Store
  BY DEF KeepContent, WriteAt, MetaInv, Informed
<1>2. BooksRest
  BY DEF KeepContent, WritesRest, BooksRest, InMetadata
<1>3. Informed(q) /\ q.pc \in {"run", "next"}
  BY <1>1, TakenIsInformed DEF Informed, Looking
<1> HIDE DEF q
<1>4. \A v \in Thread : write'[v] = IF v = w THEN q ELSE write[v]
  BY DEF KeepContent, MetaInv, Counted, q
<1>5. write' = [v \in Thread |-> write'[v]]
  BY DEF KeepContent, MetaInv, Counted
<1>6. /\ kept' = [what \in Caches |-> kept'[what]]
      /\ \A what \in Caches : \A e \in kept'[what] : e \in kept[what] \/ e = e0
  BY DEF KeepContent, KeptUnder, MetaInv, Counted
<1>7. /\ Entry(e0)
      /\ e0.store = write[w].store /\ e0.gen = write[w].gen /\ e0.found = write[w].found
  BY <1>1 DEF Entry, Informed, Looking
<1> HIDE DEF e0
<1> USE DEF BooksRest
<1>8. Counted'
  BY <1>2, <1>5, <1>6 DEF MetaInv, Counted
<1>9. EntriesRecent'
  BY <1>2, <1>6, <1>7 DEF MetaInv, EntriesRecent, Entry
<1>10. ASSUME NEW v \in Thread PROVE Informed(write[v])'
  BY <1>2, <1>3, <1>4 DEF MetaInv, Informed
<1>11. ASSUME NEW v \in Thread, write'[v].pc = "look" PROVE ServedByEntries(write[v])'
  <2>1. v # w /\ write'[v] = write[v]
    BY <1>3, <1>4, <1>11
  <2>2. ServedByEntries(write[v])
    BY <2>1, <1>11 DEF MetaInv
  <2>3. e0.store = write[v].store /\ e0.gen = write[v].gen => Served(write[v], e0.found)
    BY <2>1, <1>1, <1>7, <1>11 DEF MetaInv, Supplies
  <2>4. ASSUME NEW what \in Caches, NEW e \in kept'[what], e.store = write[v].store,
               e.gen = write[v].gen
        PROVE  Served(write[v], e.found)
    BY <2>2, <2>3, <2>4, <1>6 DEF ServedByEntries
  <2> QED BY <2>1, <2>4 DEF ServedByEntries
<1>12. ASSUME NEW u \in Thread, NEW v \in Thread, Supplies(write'[u], write'[v])
       PROVE  Served(write'[v], write'[u].found)
  <2>1. u # w /\ v # w
    BY <1>3, <1>4, <1>12 DEF Supplies
  <2> QED BY <2>1, <1>4, <1>12 DEF MetaInv
<1> QED BY <1>2, <1>8, <1>9, <1>10, <1>11, <1>12 DEF MetaInv

LEMMA RunScriptKeeps ==
  ASSUME MetaInv, NEW w \in Thread, RunScript(w), InMetadata
  PROVE  MetaInv'
<1>1. write[w].pc = "run" /\ Informed(write[w])
  BY DEF RunScript, WriteAt, MetaInv
<1>2. BooksRest /\ kept' = kept
  BY DEF RunScript, WritesRest, BooksRest, InMetadata
<1> DEFINE rest == Tail(write[w].left)
           next == IF rest = <<>> THEN "next" ELSE "run"
<1>3. ASSUME NEW ran,
             write' = [write EXCEPT ![w].pc = next, ![w].left = rest, ![w].ran = ran]
      PROVE  MetaInv'
  <2> HIDE DEF rest
  <2> DEFINE q == [write[w] EXCEPT !.pc = next, !.left = rest, !.ran = ran]
  <2>1. Informed(q) /\ q.pc \in {"next", "run"}
    BY <1>1 DEF Informed, Looking, Fields
  <2>2. write' = [write EXCEPT ![w] = q]
    BY <1>3
  <2> HIDE DEF q
  <2> QED BY <1>2, <2>1, <2>2, OneWrites DEF Supplies
<1>4. \/ \E ran : write' = [write EXCEPT ![w].pc = next, ![w].left = rest, ![w].ran = ran]
      \/ write' = [write EXCEPT ![w] = NoWrite]
  BY DEF RunScript
<1> QED BY <1>2, <1>3, <1>4, Ends

LEMMA WriteStepKeeps ==
  ASSUME MetaInv, NEW w \in Thread, WriteStep(w), InMetadata
  PROVE  MetaInv'
<1>1. CASE Finish(w)
  BY <1>1, Ends DEF Finish, WritesRest, BooksRest, InMetadata
<1> QED BY <1>1, BeginLookupKeeps, LookKeeps, LoadRowKeeps, KeepContentKeeps, RunScriptKeeps
        DEF WriteStep

\* The version may grow, and with it, in a generation of its own, the mark of the last bump.
LEMMA StatementKeeps ==
  ASSUME MetaInv, UNCHANGED <<metaGen, bumped, kept, write, workload>>,
         \/ version' = version
         \/ \E t \in Store : version' = [version EXCEPT ![t] = @ + 1]
  PROVE  MetaInv'
<1>1. Counted'
  BY DEF MetaInv, Counted
<1> QED BY <1>1 DEF MetaInv, EntriesRecent, Entry, Informed, ServedByEntries

LEMMA BumpMetaKeeps ==
  ASSUME MetaInv, NEW t \in Store, UNCHANGED <<version, kept, write, workload>>,
         metaGen' = [metaGen EXCEPT ![t] = @ + 1], bumped' = [bumped EXCEPT ![t] = version[t]]
  PROVE  MetaInv'
<1>1. /\ \A x \in Store : metaGen[x] \in Nat /\ bumped[x] \in Nat /\ version[x] \in Nat
      /\ \A x \in Store : bumped[x] <= version[x]
      /\ \A x \in Store : metaGen'[x] = IF x = t THEN metaGen[x] + 1 ELSE metaGen[x]
      /\ \A x \in Store : bumped'[x] = IF x = t THEN version[x] ELSE bumped[x]
  BY DEF MetaInv, Counted
<1>2. Counted'
  BY <1>1 DEF MetaInv, Counted
<1>3. EntriesRecent'
  BY <1>1 DEF MetaInv, EntriesRecent, Entry
<1>4. ASSUME NEW w \in Thread PROVE Informed(write[w])'
  <2>1. Informed(write[w])
    BY DEF MetaInv
  <2> QED BY <2>1, <1>1 DEF Informed, Looking
<1> QED BY <1>2, <1>3, <1>4 DEF MetaInv, ServedByEntries

LEMMA EditKeeps ==
  ASSUME MetaInv, NEW w \in Thread, EditStep(w), InMetadata
  PROVE  MetaInv'
<1>1. PICK t \in Store : \/ Upsert(w, t) \/ Strip(w, t) \/ AddField(w, t)
                          \/ AddScript(w, t) \/ AddRule(w, t) \/ BumpMeta(w, t)
  BY DEF EditStep
<1>2. CASE BumpMeta(w, t)
  BY <1>2, BumpMetaKeeps DEF BumpMeta, EditsRest, InMetadata
<1>3. CASE ~BumpMeta(w, t)
  <2>1. /\ version' = [version EXCEPT ![t] = @ + 1]
        /\ UNCHANGED <<metaGen, bumped, kept, write, workload>>
    BY <1>1, <1>3 DEF Upsert, Strip, AddField, AddScript, AddRule, Statement, EditsRest, InMetadata
  <2> QED BY <2>1, StatementKeeps
<1> QED BY <1>2, <1>3

LEMMA ForgetKeeps ==
  ASSUME MetaInv, ForgetMetadata, UNCHANGED workload
  PROVE  MetaInv'
BY DEF ForgetMetadata, MetaInv, Counted, EntriesRecent, Informed, ServedByEntries, Supplies, NoWrite

LEMMA InitInformed ==
  ASSUME Init
  PROVE  MetaInv
BY ServingAssumption DEF Init, MetadataInit, MetaInv, Counted, EntriesRecent, Informed, ServedByEntries, Supplies, NoWrite

MetadataRests == UNCHANGED <<metadataVars, workload>>

\* What a step of the process is to its metadata.
OfMetadata ==
  \/ \E w \in Thread : (WriteStep(w) \/ EditStep(w) \/ BreakOff(w)) /\ InMetadata
  \/ \E w \in Thread, t \in workload.stores :
       /\ \/ \E kind \in Reads : BeginPart(w, t, kind)
          \/ \E kind \in Edits : BeginEdit(w, t, kind)
       /\ InMetadata
  \/ ForgetMetadata /\ UNCHANGED workload
  \/ MetadataRests

LEMMA StepsOfMetadata == ASSUME [Next]_vars PROVE OfMetadata
<1>1. ASSUME NEW w \in Thread, Metadata(w) PROVE OfMetadata
  BY <1>1 DEF Metadata, OfMetadata
<1>2. ASSUME NEW w \in Thread, Manage(w) PROVE OfMetadata
  BY <1>2 DEF Manage, OfMetadata
<1>3. CASE Restart
  BY <1>3 DEF Restart, OfMetadata
<1>4. ASSUME NEW w \in Worker, LoginRequest(w) \/ Request(w) \/ Authenticate(w) \/ Converse(w)
      PROVE  MetadataRests
  BY <1>4 DEF LoginRequest, Request, Authenticate, Converse, InSessions, InRealtime, MetadataRests
<1>5. ASSUME NEW w \in Worker, Dispatch(w) PROVE MetadataRests
  BY <1>5 DEF Dispatch, Verb, SessionJwt, SubscribeRequest, EventsRequest, UnsubscribeRequest,
              MetadataRests
<1>6. ASSUME \/ Maintenance \/ Connections \/ Enqueue \/ Clock \/ RootTraffic
             \/ Removal \/ Failure
      PROVE  MetadataRests
  BY <1>6 DEF Maintenance, Connections, Enqueue, Clock, RootTraffic, Removal, Failure,
              InSessions, InRealtime, InFairness, InRoot, MetadataRests
<1>7. ASSUME NEW s \in Sub, Delivery(s) \/ Idling(s) PROVE MetadataRests
  BY <1>7 DEF Delivery, Idling, InRealtime, MetadataRests
<1>8. ASSUME NEW d \in Drainer, Drain(d) PROVE MetadataRests
  BY <1>8 DEF Drain, InFairness, MetadataRests
<1>9. ASSUME NEW c \in Caller, AsRoot(c) PROVE MetadataRests
  BY <1>9 DEF AsRoot, InRoot, MetadataRests
<1>10. ASSUME NEW k \in Tenant \X Secret, Expiry(k) PROVE MetadataRests
  BY <1>10 DEF Expiry, InSessions, MetadataRests
<1>11. ASSUME UNCHANGED vars PROVE MetadataRests
  BY <1>11 DEF vars, MetadataRests
<1>12. CASE MetadataRests
  BY <1>12 DEF OfMetadata
<1> QED BY <1>1, <1>2, <1>3, <1>4, <1>5, <1>6, <1>7, <1>8, <1>9, <1>10, <1>11, <1>12
        DEF Next

LEMMA NextInforms ==
  ASSUME MetaInv, [Next]_vars
  PROVE  MetaInv'
<1>1. ASSUME NEW w \in Thread, WriteStep(w) \/ EditStep(w) \/ BreakOff(w), InMetadata PROVE MetaInv'
  <2>1. CASE BreakOff(w)
    BY <1>1, <2>1, StatementKeeps DEF BreakOff, InMetadata
  <2> QED BY <1>1, <2>1, WriteStepKeeps, EditKeeps
<1>2. ASSUME NEW w \in Thread, NEW t \in workload.stores, NEW kind \in Reads, BeginPart(w, t, kind),
             InMetadata
      PROVE  MetaInv'
  BY <1>2, BeginPartKeeps DEF MetaInv
<1>3. ASSUME NEW w \in Thread, NEW t \in workload.stores, NEW kind \in Edits, BeginEdit(w, t, kind),
             InMetadata
      PROVE  MetaInv'
  BY <1>3, StatementKeeps DEF BeginEdit, InMetadata
<1>4. CASE MetadataRests
  BY <1>4, StatementKeeps DEF MetadataRests, metadataVars
<1> QED BY <1>1, <1>2, <1>3, <1>4, StepsOfMetadata, ForgetKeeps DEF OfMetadata

\* What a write takes from a cache is no older than the last bump before the write began,
\* for any number of slow lookups (broker.rs:345, hooks.rs:378): the entry is kept under the
\* generation loaded before the read, so that a bump outdates it.
THEOREM MetadataStaysRecent == Spec => []MetadataIsRecent
<1>1. Init => MetaInv
  BY InitInformed
<1>2. MetaInv /\ [Next]_vars => MetaInv'
  BY NextInforms
<1>3. MetaInv => MetadataIsRecent
  BY DEF MetaInv, Informed, MetadataIsRecent
<1> QED BY <1>1, <1>2, <1>3, PTL DEF Spec

-----------------------------------------------------------------------------
(* The chain a write runs, against the plan it found.                       *)

\* The members of P up to m.
UpTo(P, m) == {j \in P : j <= m}

LEMMA UpToGrows ==
  ASSUME NEW n \in Nat, NEW P \in SUBSET (1 .. n), NEW m \in Nat
  PROVE  /\ UpTo(P, m) \in SUBSET P /\ UpTo(P, 0) = {} /\ UpTo(P, n) = P
         /\ m # 0 /\ m \notin P => UpTo(P, m) = UpTo(P, m - 1)
         /\ m # 0 /\ m \in P => UpTo(P, m) = UpTo(P, m - 1) \cup {m} /\ m \notin UpTo(P, m - 1)
<1>1. \A j \in P : j \in Nat /\ 1 <= j /\ j <= n
  OBVIOUS
<1>2. UpTo(P, m) \in SUBSET P /\ UpTo(P, n) = P
  BY <1>1 DEF UpTo
<1>0. UpTo(P, 0) = {}
  <2>1. \A j \in P : ~(j <= 0)
    BY <1>1
  <2> QED BY <2>1 DEF UpTo
<1>3. ASSUME m # 0, m \notin P PROVE UpTo(P, m) = UpTo(P, m - 1)
  <2>1. \A j \in P : j <= m <=> j <= m - 1
    BY <1>1, <1>3
  <2> QED BY <2>1 DEF UpTo
<1>4. ASSUME m # 0, m \in P
      PROVE  UpTo(P, m) = UpTo(P, m - 1) \cup {m} /\ m \notin UpTo(P, m - 1)
  <2>1. \A j \in P : j <= m <=> j <= m - 1 \/ j = m
    BY <1>1
  <2>2. ~(m <= m - 1)
    OBVIOUS
  <2> QED BY <1>4, <2>1, <2>2 DEF UpTo
<1> QED BY <1>0, <1>2, <1>3, <1>4

\* The k-th place is one of them, for any k up to their number.
LEMMA PlaceIsOne ==
  ASSUME NEW n \in Nat, NEW P \in SUBSET (1 .. n), NEW k \in 1 .. Cardinality(P)
  PROVE  Place(P, k) \in P
<1> DEFINE U(m) == UpTo(P, m)
           S == {m \in Nat : Cardinality(U(m)) >= k}
<1>1. IsFiniteSet(P) /\ Cardinality(P) \in Nat /\ k \in Nat /\ 1 <= k /\ k <= Cardinality(P)
  <2>1. IsFiniteSet(1 .. n)
    BY FS_Interval
  <2>2. IsFiniteSet(P)
    BY <2>1, FS_Subset
  <2>3. Cardinality(P) \in Nat
    BY <2>2, FS_CardinalityType
  <2> QED BY <2>2, <2>3
<1>2. ASSUME NEW m \in Nat PROVE IsFiniteSet(U(m)) /\ Cardinality(U(m)) \in Nat
  <2>1. U(m) \in SUBSET P
    BY UpToGrows
  <2> HIDE DEF U
  <2> QED BY <1>1, <2>1, FS_Subset, FS_CardinalityType
<1>3. n \in S
  <2>1. U(n) = P
    BY UpToGrows
  <2> QED BY <1>1, <2>1
<1>4. PICK m \in S : \A x \in S : ~(<<x, m>> \in OpToRel(<, Nat))
  <2>1. S \in SUBSET Nat /\ S # {}
    BY <1>3
  <2> HIDE DEF S
  <2> QED BY <2>1, NatLessThanWellFounded, WFMin, Zenon
<1>5. \A x \in S : ~(x < m)
  BY <1>4 DEF OpToRel
<1>6. m \in Nat /\ Cardinality(U(m)) >= k
  BY <1>4
<1>7. m # 0
  <2>1. U(0) = {}
    BY UpToGrows
  <2> HIDE DEF U
  <2> QED BY <2>1, <1>1, <1>6, FS_EmptySet
<1>8. m - 1 \in Nat /\ Cardinality(U(m - 1)) < k
  <2>1. m - 1 \in Nat /\ m - 1 < m
    BY <1>6, <1>7
  <2>2. m - 1 \notin S
    BY <1>5, <2>1
  <2>3. ~(Cardinality(U(m - 1)) >= k)
    BY <2>1, <2>2
  <2>4. Cardinality(U(m - 1)) \in Nat
    BY <2>1, <1>2
  <2> HIDE DEF U
  <2> QED BY <2>1, <2>3, <2>4, <1>1
<1>9. m \in P
  <2>1. m \notin P => U(m) = U(m - 1)
    BY <1>6, <1>7, UpToGrows
  <2>2. U(m) # U(m - 1)
    <3> HIDE DEF U
    <3> QED BY <1>1, <1>2, <1>6, <1>8
  <2> QED BY <2>1, <2>2
<1>10. U(m) = U(m - 1) \cup {m} /\ m \notin U(m - 1)
  BY <1>6, <1>7, <1>9, UpToGrows
<1>11. Cardinality(U(m)) = k
  <2> HIDE DEF U
  <2>1. IsFiniteSet(U(m - 1)) /\ Cardinality(U(m - 1)) \in Nat
    BY <1>2, <1>8
  <2>2. Cardinality(U(m)) = Cardinality(U(m - 1)) + 1
    BY <2>1, <1>10, FS_AddElement
  <2> QED BY <1>1, <1>6, <1>8, <2>1, <2>2
<1>12. \E i \in P : Cardinality({j \in P : j <= i}) = k
  BY <1>9, <1>11 DEF UpTo
<1> HIDE DEF U
<1> QED BY <1>12 DEF Place

\* What an app has in a list is of the list, of that app and of the classes.
LEMMA OnlyTheirs ==
  ASSUME NEW S, NEW list \in Seq(S), NEW app, NEW hooks
  PROVE  /\ Only(app, list, hooks) \in Seq(S)
         /\ \A k \in 1 .. Len(Only(app, list, hooks)) :
              /\ \E j \in 1 .. Len(list) : list[j] = Only(app, list, hooks)[k]
              /\ Only(app, list, hooks)[k].app = app
              /\ Only(app, list, hooks)[k].hook \in hooks
<1> DEFINE places == {i \in DOMAIN list : list[i].app = app /\ list[i].hook \in hooks}
           n == Cardinality(places)
           out == [k \in 1 .. n |-> list[Place(places, k)]]
<1>1. places \in SUBSET (1 .. Len(list)) /\ Len(list) \in Nat
  OBVIOUS
<1>2. n \in Nat
  <2>1. IsFiniteSet(1 .. Len(list))
    BY <1>1, FS_Interval
  <2>2. IsFiniteSet(places)
    BY <1>1, <2>1, FS_Subset
  <2> HIDE DEF places
  <2> QED BY <2>2, FS_CardinalityType
<1>3. ASSUME NEW k \in 1 .. n PROVE Place(places, k) \in places
  <2>1. Len(list) \in Nat /\ places \in SUBSET (1 .. Len(list)) /\ k \in 1 .. Cardinality(places)
    BY <1>1, <1>3
  <2> HIDE DEF places
  <2> QED BY <2>1, PlaceIsOne
<1>4. Only(app, list, hooks) = out
  BY DEF Only
<1>5. ASSUME NEW k \in 1 .. n
      PROVE  /\ out[k] \in S /\ \E j \in 1 .. Len(list) : list[j] = out[k]
             /\ out[k].app = app /\ out[k].hook \in hooks
  <2>1. PICK i \in places : i = Place(places, k)
    BY <1>3, <1>5
  <2>2. out[k] = list[i]
    BY <1>5, <2>1
  <2>3. i \in 1 .. Len(list) /\ list[i].app = app /\ list[i].hook \in hooks
    BY <1>1
  <2>4. list[i] \in S
    BY <2>3
  <2> HIDE DEF out
  <2> QED BY <2>2, <2>3, <2>4
<1> HIDE DEF places
<1>6. out \in Seq(S) /\ Len(out) = n
  BY <1>2, <1>5
<1> QED BY <1>4, <1>5, <1>6

\* A chain is of the list and of the class, the owner's scripts first.
LEMMA ChainIsOfThePlan ==
  ASSUME NEW S, NEW list \in Seq(S), NEW h
  PROVE  /\ Chain(list, h) \in Seq(S)
         /\ \A i \in 1 .. Len(Chain(list, h)) :
              /\ Chain(list, h)[i].hook = h
              /\ \E j \in 1 .. Len(list) : list[j] = Chain(list, h)[i]
              /\ i <= Len(Of("owner", list, h)) => Chain(list, h)[i].app = "owner"
<1>1. PICK a : a = Of("owner", list, h)
  OBVIOUS
<1>2. PICK b : b = Of("extension", list, h)
  OBVIOUS
<1>3. /\ a \in Seq(S)
      /\ \A i \in 1 .. Len(a) :
           (\E j \in 1 .. Len(list) : list[j] = a[i]) /\ a[i].app = "owner" /\ a[i].hook = h
  <2> DEFINE H == {h}
             o == Only("owner", list, H)
  <2>1. a = o
    BY <1>1 DEF Of
  <2>2. \A x \in H : x = h
    OBVIOUS
  <2> HIDE DEF H
  <2>3. /\ o \in Seq(S)
        /\ \A k \in 1 .. Len(o) : /\ \E j \in 1 .. Len(list) : list[j] = o[k]
                                 /\ o[k].app = "owner" /\ o[k].hook \in H
    BY OnlyTheirs
  <2> HIDE DEF o
  <2> QED BY <2>1, <2>2, <2>3
<1>4. /\ b \in Seq(S)
      /\ \A i \in 1 .. Len(b) : (\E j \in 1 .. Len(list) : list[j] = b[i]) /\ b[i].hook = h
  <2> DEFINE H == {h}
             o == Only("extension", list, H)
  <2>1. b = o
    BY <1>2 DEF Of
  <2>2. \A x \in H : x = h
    OBVIOUS
  <2> HIDE DEF H
  <2>3. /\ o \in Seq(S)
        /\ \A k \in 1 .. Len(o) : /\ \E j \in 1 .. Len(list) : list[j] = o[k]
                                 /\ o[k].app = "extension" /\ o[k].hook \in H
    BY OnlyTheirs
  <2> HIDE DEF o
  <2> QED BY <2>1, <2>2, <2>3
<1>5. PICK c \in Seq(S) : c = a \o b
  <2>1. a \o b \in Seq(S)
    BY <1>3, <1>4
  <2> QED BY <2>1
<1>6. Chain(list, h) = c
  BY <1>1, <1>2, <1>5 DEF Chain
<1>7. ASSUME NEW i \in 1 .. Len(c)
      PROVE  /\ c[i].hook = h /\ \E j \in 1 .. Len(list) : list[j] = c[i]
             /\ i <= Len(a) => c[i].app = "owner"
  <2>1. CASE i <= Len(a)
    <3>1. i \in 1 .. Len(a) /\ c[i] = a[i]
      BY <1>3, <1>4, <1>5, <2>1
    <3> QED BY <3>1, <1>3
  <2>2. CASE ~(i <= Len(a))
    <3>1. i - Len(a) \in 1 .. Len(b) /\ c[i] = b[i - Len(a)]
      BY <1>3, <1>4, <1>5, <2>2
    <3> QED BY <3>1, <1>4, <2>2
  <2> QED BY <2>1, <2>2
<1> QED BY <1>1, <1>5, <1>6, <1>7

Scripts == [app : Contributor, hook : Hook, text : Store \X Nat]

\* What a write has run, and has still to run, is the chain of the plan it found.
Ahead(q) == Chain(q.found.list, q.stage)

Planned(q) ==
  q.pc # "idle" =>
    /\ q.found.list \in Seq(Scripts) /\ q.ran \in Seq(Scripts) /\ q.left \in Seq(Scripts)
    /\ q.pc \in Looking => q.ran = <<>>
    /\ \A i \in 1 .. Len(q.ran) : i <= Len(Ahead(q)) /\ q.ran[i] = Ahead(q)[i]
    /\ q.pc = "run" =>
         /\ q.left # <<>>
         /\ \A i \in 1 .. Len(q.left) : /\ Len(q.ran) + i <= Len(Ahead(q))
                                        /\ q.left[i] = Ahead(q)[Len(q.ran) + i]

Editings == [pc : {"upsert", "strip", "field", "script", "rule", "bump"}, store : Store,
             own : Seq(Scripts), field : BOOLEAN, back : Seq(Scripts)]

PlanInv ==
  /\ MetaInv
  /\ scripts \in [Store -> Seq(Scripts)]
  /\ edit \in [Thread -> Editings \cup {NoEdit}]
  /\ \A w \in Thread : edit[w].pc = "script" => edit[w].back # <<>>
  /\ \A what \in Caches : \A e \in kept[what] : e.found.list \in Seq(Scripts)
  /\ \A w \in Thread : Planned(write[w])

RowsRest == UNCHANGED <<scripts, edit>>

LEMMA OnePlans ==
  ASSUME PlanInv, MetaInv', NEW w \in Thread, NEW q, Planned(q), write' = [write EXCEPT ![w] = q],
         RowsRest,
         \A what \in Caches : \A e \in kept'[what] : e.found.list \in Seq(Scripts)
  PROVE  PlanInv'
<1>1. \A v \in Thread : write'[v] = IF v = w THEN q ELSE write[v]
  BY DEF PlanInv, MetaInv, Counted
<1>2. \A v \in Thread : Planned(write[v])'
  BY <1>1 DEF PlanInv, Planned, Ahead
<1> QED BY <1>2 DEF PlanInv, RowsRest

LEMMA PlanEnds ==
  ASSUME PlanInv, MetaInv', NEW w \in Thread, write' = [write EXCEPT ![w] = NoWrite], RowsRest,
         \A what \in Caches : \A e \in kept'[what] : e.found.list \in Seq(Scripts)
  PROVE  PlanInv'
<1>1. Planned(NoWrite)
  BY DEF NoWrite, Planned
<1> QED BY <1>1, OnePlans

LEMMA EmptyChain == <<>> \in Seq(Scripts) /\ Len(<<>>) = 0 /\ 1 .. 0 = {}
OBVIOUS

LEMMA BeginPartPlans ==
  ASSUME PlanInv, MetaInv', NEW w \in Thread, NEW t \in Store, NEW kind \in Reads, BeginPart(w, t, kind)
  PROVE  PlanInv'
<1>1. PICK part \in Parts(kind) :
        write' = [write EXCEPT ![w] =
          [pc |-> "next", store |-> t, stage |-> "none", stages |-> part, gen |-> 0,
           since |-> bumped[t], found |-> Nothing(t), left |-> <<>>, ran |-> <<>>]]
  BY DEF BeginPart
<1> DEFINE q == [pc |-> "next", store |-> t, stage |-> "none", stages |-> part, gen |-> 0,
                 since |-> bumped[t], found |-> Nothing(t), left |-> <<>>, ran |-> <<>>]
<1>2. q.pc = "next" /\ q.found.list = <<>> /\ q.left = <<>> /\ q.ran = <<>>
  BY DEF Nothing
<1> HIDE DEF q
<1>3. Planned(q)
  BY <1>2, EmptyChain DEF Planned, Looking
<1> QED BY <1>1, <1>3, OnePlans DEF q, BeginPart, WritesRest, RowsRest, PlanInv

LEMMA BeginLookupPlans ==
  ASSUME PlanInv, MetaInv', NEW w \in Thread, BeginLookup(w)
  PROVE  PlanInv'
<1> DEFINE t == write[w].store
           q == [write[w] EXCEPT
                   !.pc = "look", !.stage = Head(write[w].stages), !.stages = Tail(write[w].stages),
                   !.gen = metaGen[t], !.found = Nothing(t), !.ran = <<>>]
<1>1. DOMAIN write[w] = Fields /\ write[w].left \in Seq(Scripts)
  BY DEF BeginLookup, WriteAt, PlanInv, Planned, MetaInv, Informed
<1>2. write' = [write EXCEPT ![w] = q]
  BY DEF BeginLookup
<1>3. q.pc = "look" /\ q.found.list = <<>> /\ q.left = write[w].left /\ q.ran = <<>>
  BY <1>1 DEF Fields, Nothing
<1> HIDE DEF q
<1>4. Planned(q)
  BY <1>1, <1>3, EmptyChain DEF Planned
<1> QED BY <1>2, <1>4, OnePlans DEF BeginLookup, WritesRest, RowsRest, PlanInv

\* A lookup that is answered lays out the chain.
LEMMA TakenIsPlanned ==
  ASSUME PlanInv, NEW w \in Thread, write[w].pc \in Looking, NEW found, found.list \in Seq(Scripts)
  PROVE  Planned(Taken(w, found))
<1> DEFINE chain == IF Stage(w) \in Hook THEN Chain(found.list, Stage(w)) ELSE <<>>
           q == [write[w] EXCEPT !.pc = IF chain = <<>> THEN "next" ELSE "run",
                                 !.left = chain, !.found = found]
<1>1. DOMAIN write[w] = Fields /\ write[w].ran = <<>>
  BY DEF Looking, PlanInv, Planned, MetaInv, Informed
<1>2. Taken(w, found) = q
  BY DEF Taken
<1>3. chain \in Seq(Scripts) /\ (chain # <<>> => chain = Chain(found.list, write[w].stage))
  BY ChainIsOfThePlan DEF Stage
<1> HIDE DEF chain
<1>4. /\ q.pc = (IF chain = <<>> THEN "next" ELSE "run") /\ q.found = found
      /\ q.left = chain /\ q.ran = <<>> /\ q.stage = write[w].stage
  BY <1>1 DEF Fields
<1> HIDE DEF q
<1>5. chain # <<>> => Ahead(q) = chain
  BY <1>3, <1>4 DEF Ahead
<1>6. Planned(q)
  BY <1>3, <1>4, <1>5, EmptyChain DEF Planned, Looking
<1> QED BY <1>2, <1>6

LEMMA LookPlans ==
  ASSUME PlanInv, MetaInv', NEW w \in Thread, Look(w)
  PROVE  PlanInv'
<1>1. write[w].pc = "look" /\ DOMAIN write[w] = Fields /\ write[w].stage \in Lookups
  BY DEF Look, WriteAt, PlanInv, MetaInv, Informed, Looking
<1>2. RowsRest /\ kept' = kept
  BY DEF Look, WritesRest, RowsRest
<1>3. ASSUME NEW e \in Cached(w), write' = [write EXCEPT ![w] = Taken(w, e.found)]
      PROVE  PlanInv'
  <2>1. e.found.list \in Seq(Scripts)
    BY <1>1, <1>3, CacheOfLookup DEF Cached, Stage, PlanInv
  <2>2. Planned(Taken(w, e.found))
    BY <2>1, <1>1, TakenIsPlanned DEF Looking
  <2> QED BY <2>2, <1>2, <1>3, OnePlans DEF PlanInv
<1>4. ASSUME write' = [write EXCEPT ![w].pc = "load"]
      PROVE  PlanInv'
  <2> DEFINE q == [write[w] EXCEPT !.pc = "load"]
  <2>1. /\ q.pc = "load" /\ q.found = write[w].found /\ q.left = write[w].left
        /\ q.ran = write[w].ran /\ q.stage = write[w].stage
    BY <1>1 DEF Fields
  <2>2. write' = [write EXCEPT ![w] = q]
    BY <1>4
  <2> HIDE DEF q
  <2>3. Planned(q)
    BY <1>1, <2>1 DEF PlanInv, Planned, Looking, Ahead
  <2> QED BY <2>2, <2>3, <1>2, OnePlans DEF PlanInv
<1> QED BY <1>3, <1>4 DEF Look

LEMMA LoadRowPlans ==
  ASSUME PlanInv, MetaInv', NEW w \in Thread, LoadRow(w)
  PROVE  PlanInv'
<1> DEFINE row == Stored(write[w].store, CacheOf(Stage(w)))
           q == [write[w] EXCEPT !.pc = "keep", !.found = row]
<1>1. write[w].pc = "load" /\ DOMAIN write[w] = Fields /\ write[w].store \in Store
  BY DEF LoadRow, WriteAt, PlanInv, MetaInv, Informed
<1>2. RowsRest /\ kept' = kept
  BY DEF LoadRow, WritesRest, RowsRest
<1>3. row.list \in Seq(Scripts)
  BY <1>1, EmptyChain DEF Stored, PlanInv
<1>4. CASE write' = [write EXCEPT ![w] = q]
  <2> HIDE DEF row
  <2>1. q.pc = "keep" /\ q.found = row /\ q.left = write[w].left /\ q.ran = write[w].ran
    BY <1>1 DEF Fields
  <2> HIDE DEF q
  <2>2. Planned(q)
    BY <1>1, <1>3, <2>1, EmptyChain DEF PlanInv, Planned, Looking
  <2> QED BY <1>2, <1>4, <2>2, OnePlans DEF PlanInv
<1>5. CASE write' = [write EXCEPT ![w] = NoWrite]
  BY <1>2, <1>5, PlanEnds DEF PlanInv
<1> QED BY <1>4, <1>5 DEF LoadRow

LEMMA KeepContentPlans ==
  ASSUME PlanInv, MetaInv', NEW w \in Thread, KeepContent(w)
  PROVE  PlanInv'
<1> DEFINE e0 == [store |-> write[w].store, gen |-> KeptUnder(w), found |-> write[w].found]
<1>1. write[w].pc = "keep" /\ write[w].found.list \in Seq(Scripts)
  BY DEF KeepContent, WriteAt, PlanInv, Planned
<1>2. \A what \in Caches : \A e \in kept'[what] : e \in kept[what] \/ e = e0
  BY DEF KeepContent, PlanInv, MetaInv, Counted
<1>3. e0.found.list \in Seq(Scripts)
  BY <1>1
<1> HIDE DEF e0
<1>4. \A what \in Caches : \A e \in kept'[what] : e.found.list \in Seq(Scripts)
  BY <1>2, <1>3 DEF PlanInv
<1>5. Planned(Taken(w, write[w].found))
  BY <1>1, TakenIsPlanned DEF Looking
<1> QED BY <1>4, <1>5, OnePlans DEF KeepContent, WritesRest, RowsRest

\* What runs is the script of the plan, whatever instance there was before.
LEMMA RunScriptPlans ==
  ASSUME PlanInv, MetaInv', NEW w \in Thread, RunScript(w)
  PROVE  PlanInv'
<1>1. /\ write[w].pc = "run" /\ DOMAIN write[w] = Fields /\ Planned(write[w])
  BY DEF RunScript, WriteAt, PlanInv, MetaInv, Informed
<1>2. RowsRest /\ kept' = kept
  BY DEF RunScript, WritesRest, RowsRest
<1> DEFINE left == write[w].left
           ran == write[w].ran
           rest == Tail(left)
           s == Head(left)
           q == [write[w] EXCEPT !.pc = IF rest = <<>> THEN "next" ELSE "run",
                                 !.left = rest, !.ran = Append(ran, s)]
<1>3. /\ left \in Seq(Scripts) /\ left # <<>> /\ ran \in Seq(Scripts)
      /\ s \in Scripts /\ rest \in Seq(Scripts)
  <2>1. left \in Seq(Scripts) /\ left # <<>> /\ ran \in Seq(Scripts)
    BY <1>1 DEF Planned
  <2> QED BY <2>1
<1>4. Script(s.app, s.hook, s.text) = s
  BY <1>3 DEF Scripts, Script
<1>5. \/ write' = [write EXCEPT ![w] = q]
      \/ write' = [write EXCEPT ![w] = NoWrite]
  BY <1>4 DEF RunScript, Fits
<1>6. CASE write' = [write EXCEPT ![w] = q]
  <2> DEFINE next == Append(ran, s)
             a == Ahead(write[w])
  <2>1. /\ q.pc = (IF rest = <<>> THEN "next" ELSE "run") /\ q.left = rest /\ q.ran = next
        /\ q.found = write[w].found /\ q.stage = write[w].stage
    BY <1>1 DEF Fields
  <2> HIDE DEF q
  <2>2. Ahead(q) = a /\ q.found.list \in Seq(Scripts) /\ a \in Seq(Scripts)
    BY <1>1, <2>1, ChainIsOfThePlan DEF Ahead, Planned
  <2>3. /\ \A i \in 1 .. Len(ran) : i <= Len(a) /\ ran[i] = a[i]
        /\ \A i \in 1 .. Len(left) : Len(ran) + i <= Len(a) /\ left[i] = a[Len(ran) + i]
    BY <1>1 DEF Planned
  <2> HIDE DEF a
  <2>4. next \in Seq(Scripts) /\ Len(next) = Len(ran) + 1
        /\ \A i \in 1 .. Len(next) : next[i] = IF i <= Len(ran) THEN ran[i] ELSE s
    BY <1>3
  <2>5. /\ 1 \in 1 .. Len(left) /\ s = left[1] /\ Len(rest) = Len(left) - 1
        /\ \A i \in 1 .. Len(rest) : i + 1 \in 1 .. Len(left) /\ rest[i] = left[i + 1]
    BY <1>3
  <2>6. Len(ran) \in Nat /\ Len(left) \in Nat /\ Len(a) \in Nat
    BY <1>3, <2>2
  <2> HIDE DEF next, rest, s
  <2>7. ASSUME NEW i \in 1 .. Len(next) PROVE i <= Len(a) /\ next[i] = a[i]
    <3>1. CASE i <= Len(ran)
      <4>1. i \in 1 .. Len(ran)
        BY <2>6, <3>1
      <4> QED BY <2>3, <2>4, <3>1, <4>1
    <3>2. CASE ~(i <= Len(ran))
      <4>1. i = Len(ran) + 1
        <5>1. PICK n \in Nat : n = Len(ran) /\ Len(next) = n + 1
          BY <2>4, <2>6
        <5> QED BY <3>2, <5>1
      <4> QED BY <2>3, <2>4, <2>5, <2>6, <3>2, <4>1
    <3> QED BY <3>1, <3>2
  <2>8. ASSUME NEW i \in 1 .. Len(rest)
        PROVE  Len(next) + i <= Len(a) /\ rest[i] = a[Len(next) + i]
    <3>1. i + 1 \in 1 .. Len(left) /\ rest[i] = left[i + 1]
      BY <2>5
    <3>2. Len(ran) + (i + 1) <= Len(a) /\ left[i + 1] = a[Len(ran) + (i + 1)]
      BY <2>3, <3>1
    <3>3. Len(ran) + (i + 1) = Len(next) + i
      <4>1. i \in Int
        BY <2>5, <2>6
      <4>2. PICK n \in Nat : n = Len(ran) /\ Len(next) = n + 1
        BY <2>4, <2>6
      <4>3. n + (i + 1) = (n + 1) + i
        BY <4>1
      <4> QED BY <4>2, <4>3
    <3> QED BY <3>1, <3>2, <3>3
  <2>9. Planned(q)
    BY <1>3, <2>1, <2>2, <2>4, <2>7, <2>8 DEF Planned, Looking
  <2> QED BY <1>2, <1>6, <2>9, OnePlans DEF PlanInv
<1>7. CASE write' = [write EXCEPT ![w] = NoWrite]
  BY <1>2, <1>7, PlanEnds DEF PlanInv
<1> QED BY <1>5, <1>6, <1>7

\* The scripts of an edit: the owner's as the manifest has them, the extension's as they
\* were or as it declares them.
LEMMA BeginEditPlans ==
  ASSUME PlanInv, MetaInv', NEW w \in Thread, NEW t \in Store, NEW kind \in Edits, BeginEdit(w, t, kind)
  PROVE  PlanInv'
<1>1. PICK e \in Begun(t, kind) : edit' = [edit EXCEPT ![w] = e]
  BY DEF BeginEdit
<1>2. scripts[t] \in Seq(Scripts) /\ <<>> \in Seq(Scripts)
  BY EmptyChain DEF PlanInv
<1>3. NewText(t) \in Store \X Nat
  BY DEF NewText, PlanInv, MetaInv, Counted
<1>4. PICK x \in Store \X Nat : x = NewText(t)
  BY <1>3
<1>5. \A app \in Contributor, h \in Hook : Script(app, h, x) \in Scripts
  BY DEF Script, Scripts
<1>6. \A h \in Hook : <<Script("extension", h, x)>> \in Seq(Scripts)
  BY <1>5 DEF Contributor
<1>7. Manifests(x) \subseteq Seq(Scripts)
  <2>1. "validate" \in Hook /\ "owner" \in Contributor /\ \A h \in Early : h \in Hook
    BY DEF Hook, Contributor
  <2>2. Script("owner", "validate", x) \in Scripts
        /\ \A h \in Early : Script("owner", h, x) \in Scripts
    BY <1>5, <2>1
  <2>3. <<Script("owner", "validate", x)>> \in Seq(Scripts)
        /\ \A h \in Early :
             <<Script("owner", h, x), Script("owner", "validate", x)>> \in Seq(Scripts)
    BY <2>2
  <2> QED BY <1>2, <2>3 DEF Manifests
<1>8. e \in Editings /\ e.pc # "script"
  <2>1. CASE kind = "update"
    <3> DEFINE theirs == Only("extension", scripts[t], Hook)
    <3>1. PICK own \in Manifests(x) : e = Editing(t, "upsert", own, theirs # <<>>, theirs)
      BY <1>4, <2>1 DEF Begun
    <3>2. theirs \in Seq(Scripts) /\ own \in Seq(Scripts)
      BY <1>2, <1>7, OnlyTheirs
    <3> HIDE DEF theirs
    <3> QED BY <3>1, <3>2 DEF Editing, Editings
  <2>2. CASE kind = "extend"
    <3>1. PICK h \in Hook : e = Editing(t, "strip", <<>>, TRUE, <<Script("extension", h, x)>>)
      BY <1>4, <2>2 DEF Begun
    <3> QED BY <1>2, <1>6, <3>1 DEF Editing, Editings
  <2>3. CASE kind \in {"detach", "rule", "sync"}
    <3>1. \E pc \in {"strip", "rule", "bump"} : e = Editing(t, pc, <<>>, FALSE, <<>>)
      BY <2>3 DEF Begun
    <3> QED BY <1>2, <3>1 DEF Editing, Editings
  <2> QED BY <2>1, <2>2, <2>3 DEF Edits
<1> QED BY <1>1, <1>8 DEF BeginEdit, PlanInv, Planned, Ahead

\* A statement leaves a list of scripts behind, and an edit with scripts to put or none.
LEMMA StatementPlans ==
  ASSUME PlanInv, MetaInv', NEW w \in Thread, NEW t \in Store, NEW list \in Seq(Scripts),
         NEW e \in Editings, Statement(w, t, list, e)
  PROVE  PlanInv'
<1> DEFINE pc == IF e.field THEN "field" ELSE IF e.back # <<>> THEN "script" ELSE "bump"
           e1 == [e EXCEPT !.pc = pc]
<1>1. e1 \in Editings /\ (e1.pc = "script" => e1.back # <<>>)
  BY DEF Editings
<1>2. /\ scripts' = [scripts EXCEPT ![t] = list] /\ edit' = [edit EXCEPT ![w] = e1]
      /\ kept' = kept /\ write' = write
  BY DEF Statement, EditsRest
<1> HIDE DEF e1
<1> QED BY <1>1, <1>2 DEF PlanInv, Planned, Ahead

LEMMA EditPlans ==
  ASSUME PlanInv, MetaInv', NEW w \in Thread, EditStep(w)
  PROVE  PlanInv'
<1>1. PICK t \in Store : \/ Upsert(w, t) \/ Strip(w, t) \/ AddField(w, t)
                          \/ AddScript(w, t) \/ AddRule(w, t) \/ BumpMeta(w, t)
  BY DEF EditStep
<1>2. scripts[t] \in Seq(Scripts) /\ edit[w] \in Editings \cup {NoEdit}
  BY DEF PlanInv
<1>3. CASE BumpMeta(w, t)
  BY <1>3 DEF BumpMeta, EditsRest, PlanInv, Planned, Ahead, NoEdit
<1>4. CASE ~BumpMeta(w, t)
  <2>1. edit[w].pc # "idle"
    BY <1>1, <1>4 DEF Upsert, Strip, AddField, AddScript, AddRule, EditAt
  <2>2. edit[w] \in Editings
    BY <1>2, <2>1 DEF NoEdit
  <2>3. edit[w].own \in Seq(Scripts) /\ edit[w].back \in Seq(Scripts)
    BY <2>2 DEF Editings
  <2>4. CASE Upsert(w, t)
    BY <2>2, <2>3, <2>4, StatementPlans DEF Upsert
  <2>5. CASE Strip(w, t)
    <3>1. Only("owner", scripts[t], Hook) \in Seq(Scripts)
      BY <1>2, OnlyTheirs
    <3> QED BY <2>2, <2>5, <3>1, StatementPlans DEF Strip
  <2>6. CASE AddField(w, t)
    <3>1. [edit[w] EXCEPT !.field = FALSE] \in Editings
      BY <2>2 DEF Editings
    <3> QED BY <1>2, <2>6, <3>1, StatementPlans DEF AddField
  <2>7. CASE AddScript(w, t)
    <3>1. edit[w].back # <<>>
      BY <2>7 DEF AddScript, EditAt, PlanInv
    <3>2. PICK back \in Seq(Scripts) : back = edit[w].back /\ back # <<>>
      BY <2>3, <3>1
    <3>3. Head(back) \in Scripts /\ Tail(back) \in Seq(Scripts)
      BY <3>2
    <3>4. [edit[w] EXCEPT !.back = Tail(@)] \in Editings
      BY <2>2, <3>2, <3>3 DEF Editings
    <3>5. Append(scripts[t], Head(edit[w].back)) \in Seq(Scripts)
      BY <1>2, <3>2, <3>3
    <3> QED BY <2>7, <3>4, <3>5, StatementPlans DEF AddScript
  <2>8. CASE AddRule(w, t)
    BY <1>2, <2>2, <2>8, StatementPlans DEF AddRule
  <2> QED BY <1>1, <1>4, <2>4, <2>5, <2>6, <2>7, <2>8
<1> QED BY <1>3, <1>4

LEMMA PlanRests ==
  ASSUME PlanInv, MetaInv', UNCHANGED <<scripts, kept, write>>,
         \/ edit' = edit
         \/ \E w \in Thread : edit' = [edit EXCEPT ![w] = NoEdit]
  PROVE  PlanInv'
BY DEF PlanInv, Planned, Ahead, NoEdit

LEMMA ForgetPlans ==
  ASSUME PlanInv, MetaInv', ForgetMetadata
  PROVE  PlanInv'
BY DEF ForgetMetadata, PlanInv, Planned, NoWrite, NoEdit

LEMMA InitPlanned ==
  ASSUME Init
  PROVE  PlanInv
<1>1. MetaInv
  BY InitInformed
<1>2. ASSUME NEW t \in Store
      PROVE  <<Script("extension", "validate", <<t, 0>>), Script("owner", "validate", <<t, 0>>)>>
               \in Seq(Scripts)
  <2>1. /\ Script("extension", "validate", <<t, 0>>) \in Scripts
        /\ Script("owner", "validate", <<t, 0>>) \in Scripts
    BY DEF Script, Scripts, Contributor, Hook
  <2> QED BY <2>1
<1>3. scripts \in [Store -> Seq(Scripts)]
  BY <1>2 DEF Init, MetadataInit
<1> QED BY <1>1, <1>3 DEF Init, MetadataInit, PlanInv, Planned, NoWrite, NoEdit

LEMMA NextPlans ==
  ASSUME PlanInv, [Next]_vars
  PROVE  PlanInv'
<1>1. MetaInv'
  BY NextInforms DEF PlanInv
<1>2. ASSUME NEW w \in Thread, WriteStep(w) PROVE PlanInv'
  <2>1. CASE Finish(w)
    BY <1>1, <2>1, PlanEnds DEF Finish, WritesRest, RowsRest, PlanInv
  <2> QED BY <1>1, <1>2, <2>1, BeginLookupPlans, LookPlans, LoadRowPlans, KeepContentPlans, RunScriptPlans
          DEF WriteStep
<1>3. ASSUME NEW w \in Thread, BreakOff(w) PROVE PlanInv'
  BY <1>1, <1>3, PlanRests DEF BreakOff
<1>4. ASSUME NEW w \in Thread, NEW t \in workload.stores, NEW kind \in Reads, BeginPart(w, t, kind)
      PROVE  PlanInv'
  BY <1>1, <1>4, BeginPartPlans DEF PlanInv, MetaInv
<1>5. ASSUME NEW w \in Thread, NEW t \in workload.stores, NEW kind \in Edits, BeginEdit(w, t, kind)
      PROVE  PlanInv'
  BY <1>1, <1>5, BeginEditPlans DEF PlanInv, MetaInv
<1>6. CASE MetadataRests
  BY <1>1, <1>6, PlanRests DEF MetadataRests, metadataVars
<1> QED BY <1>1, <1>2, <1>3, <1>4, <1>5, <1>6, EditPlans, ForgetPlans, StepsOfMetadata DEF OfMetadata

THEOREM PlanInvariant == Spec => []PlanInv
<1>1. Init => PlanInv
  BY InitPlanned
<1>2. PlanInv /\ [Next]_vars => PlanInv'
  BY NextPlans
<1> QED BY <1>1, <1>2, PTL DEF Spec

\* load_doctype, notification_rules, scripts_for: what a write goes by is no older than the
\* last edit that was answered before it began, and the scripts it runs are those of the plan
\* it found, the owner's before the extension's, for any threads, stores, lists and edits.
THEOREM WritesGoByTheMetadata == Spec => []WritesFollowMetadata
<1>1. ASSUME PlanInv, NEW w \in Thread, WriteAt(w, "run") \/ WriteAt(w, "next")
      PROVE  ChainFollowsPlan(w)
  <2> DEFINE q == write[w]
             c == Chain(q.found.list, q.stage)
  <2>1. /\ q.found.list \in Seq(Scripts)
        /\ \A i \in 1 .. Len(q.ran) : i <= Len(c) /\ q.ran[i] = c[i]
        /\ q.ran \in Seq(Scripts)
    BY <1>1 DEF WriteAt, PlanInv, Planned, Ahead
  <2>2. /\ c \in Seq(Scripts)
        /\ \A i \in 1 .. Len(c) :
             /\ c[i].hook = q.stage /\ \E j \in 1 .. Len(q.found.list) : q.found.list[j] = c[i]
             /\ i <= Len(Of("owner", q.found.list, q.stage)) => c[i].app = "owner"
    <3>1. PICK list \in Seq(Scripts) : list = q.found.list
      BY <2>1
    <3> HIDE DEF q
    <3> QED BY <3>1, ChainIsOfThePlan
  <2> HIDE DEF c
  <2>3. ASSUME NEW i \in 1 .. Len(q.ran)
        PROVE  /\ q.ran[i].hook = q.stage /\ \E j \in 1 .. Len(q.found.list) : q.found.list[j] = q.ran[i]
               /\ i <= Len(Of("owner", q.found.list, q.stage)) => q.ran[i].app = "owner"
    <3>1. q.ran[i] = c[i] /\ i <= Len(c)
      BY <2>1
    <3>2. i \in 1 .. Len(c)
      BY <2>1, <2>2, <3>1
    <3> QED BY <2>2, <3>1, <3>2
  <2> QED BY <2>3 DEF ChainFollowsPlan, Stage
<1>2. PlanInv => WritesFollowMetadata
  BY <1>1 DEF WritesFollowMetadata, PlanInv, MetaInv, Informed, MetadataIsRecent
<1> QED BY <1>2, PlanInvariant, PTL

-----------------------------------------------------------------------------
(* The root credential: RootInv holds of every state.                       *)

HIDE SessionAssumption

Minting == {"mint", "keep"}

\* The call dropped a token that the store rejected, and the store revoked none since.
Renewing(c) == call[c].again /\ ~call[c].hit

\* Then nothing that was revoked is left anywhere for the call to pick up again.
RenewedIsAlive ==
  \A c \in Caller : Renewing(c) =>
    /\ root.token = 0 \/ root.token > dead
    /\ \A d \in Caller : CallAt(d, "keep") => call[d].auth > dead
    /\ CallAt(c, "send") => call[c].auth > dead

RootInv ==
  /\ RootTypeOK
  /\ dead <= issuedTo /\ root.token <= issuedTo
  /\ \A c \in Caller : call[c].pc \in Minting => writer = c
  /\ \A c \in Caller : CallAt(c, "keep") => call[c].auth <= issuedTo
  /\ \A c \in Caller : call[c].pc \in {"idle", "drop"} => ~call[c].again
  /\ RootCallsSurvive
  /\ RenewedIsAlive

Calls == [pc : {"idle", "auth", "lock", "mint", "keep", "send", "drop", "failed"},
          auth : 0 .. MaxTokens + 1, again : BOOLEAN, hit : BOOLEAN]

LEMMA CallMoves ==
  ASSUME RootInv, NEW c \in Caller, NEW q \in Calls, call' = [call EXCEPT ![c] = q]
  PROVE  /\ call' \in [Caller -> Calls]
         /\ call'[c] = q
         /\ \A d \in Caller \ {c} : call'[d] = call[d]
BY DEF RootInv, RootTypeOK, Calls

LEMMA RootStepKeeps ==
  ASSUME RootInv, NEW c \in Caller, RootStep(c)
  PROVE  RootInv'
<1> USE RootAssumption DEF RootInv, RootTypeOK, RenewedIsAlive, Renewing, RootCallsSurvive, CallAt,
        Minting
<1>1. CASE FastPath(c)
  BY <1>1 DEF FastPath, Lockable, Trusted, Carry, Proceed, Password
<1>2. CASE SecondLook(c)
  BY <1>2 DEF SecondLook, Lockable, Trusted, Carry, Proceed, Password
<1>3. CASE RootSignIn(c)
  <2> DEFINE q == [call[c] EXCEPT !.pc = "keep", !.auth = issuedTo + 1]
  <2>1. call[c] \in Calls /\ q \in Calls /\ call' = [call EXCEPT ![c] = q]
    <3>1. call[c] \in Calls /\ issuedTo + 1 \in 0 .. MaxTokens + 1
      BY <1>3 DEF RootSignIn, Calls
    <3> QED
      BY <1>3, <3>1, Zenon, SMT DEF RootSignIn, Calls
  <2>2. q.pc = "keep" /\ q.auth = issuedTo + 1 /\ q.again = call[c].again /\ q.hit = call[c].hit
    BY <2>1 DEF Calls
  <2> HIDE DEF q
  <2>3. /\ call' \in [Caller -> Calls]
        /\ call'[c] = q
        /\ \A d \in Caller \ {c} : call'[d] = call[d]
    BY <2>1, CallMoves
  <2> QED
    BY <1>3, <2>2, <2>3 DEF RootSignIn, Calls
<1>4. CASE KeepToken(c)
  <2> DEFINE q == [call[c] EXCEPT !.pc = "send", !.auth = call[c].auth]
  <2>1. call[c] \in Calls /\ q \in Calls /\ call' = [call EXCEPT ![c] = q]
    BY <1>4 DEF KeepToken, Carry, Calls
  <2>2. /\ q.pc = "send" /\ q.auth = call[c].auth /\ q.again = call[c].again /\ q.hit = call[c].hit
        /\ root'.token = call[c].auth /\ call[c].auth \in 0 .. issuedTo
        /\ root' \in [token : 0 .. MaxTokens, due : BOOLEAN, basic : BOOLEAN]
    <3>1. q.pc = "send" /\ q.auth = call[c].auth /\ q.again = call[c].again /\ q.hit = call[c].hit
      BY <2>1 DEF Calls
    <3>2. call[c].auth \in 0 .. issuedTo /\ root' = [root EXCEPT !.token = call[c].auth, !.due = FALSE]
      BY <1>4, <2>1 DEF Calls, KeepToken
    <3>3. call[c].auth \in 0 .. MaxTokens
      BY <3>2
    <3>4. /\ root' \in [token : 0 .. MaxTokens, due : BOOLEAN, basic : BOOLEAN]
          /\ root'.token = call[c].auth
      BY <3>2, <3>3
    <3> QED
      BY <3>1, <3>2, <3>4
  <2> HIDE DEF q
  <2>3. /\ call' \in [Caller -> Calls]
        /\ call'[c] = q
        /\ \A d \in Caller \ {c} : call'[d] = call[d] /\ call[d].pc \notin {"mint", "keep"}
    BY <1>4, <2>1, CallMoves DEF KeepToken
  <2>4. RootTypeOK' /\ writer' = NoCaller /\ issuedTo' = issuedTo /\ dead' = dead
    <3>1. writer' = NoCaller /\ issuedTo' = issuedTo /\ dead' = dead /\ refusals' = refusals
      BY <1>4 DEF KeepToken
    <3> QED
      BY <2>2, <2>3, <3>1 DEF Calls
  <2>5. \A d \in Caller : Renewing(d)' => Renewing(d) /\ call[c].auth > dead
    <3>1. \A d \in Caller : Renewing(d)' => Renewing(d)
      BY <2>2, <2>3
    <3>2. \A d \in Caller : Renewing(d) => call[c].auth > dead
      BY <1>4 DEF KeepToken
    <3> QED
      BY <3>1, <3>2
  <2>6. \A d \in Caller : call'[d].pc \notin {"mint", "keep"}
    BY <2>2, <2>3
  <2>7. RenewedIsAlive'
    BY <2>2, <2>3, <2>4, <2>5, <2>6
  <2> QED
    BY <2>2, <2>3, <2>4, <2>6, <2>7
<1>5. CASE FallBack(c)
  <2> DEFINE q == [call[c] EXCEPT !.pc = "send", !.auth = Password]
  <2>1. call[c] \in Calls /\ q \in Calls /\ call' = [call EXCEPT ![c] = q]
    <3>1. call[c] \in Calls /\ Password \in 0 .. MaxTokens + 1
      BY DEF Calls, Password
    <3> QED
      BY <1>5, <3>1 DEF FallBack, Carry, Calls
  <2>2. q.pc = "send" /\ q.auth = Password /\ q.again = call[c].again /\ q.hit = call[c].hit
    BY <2>1 DEF Calls
  <2> HIDE DEF q
  <2>3. /\ call' \in [Caller -> Calls]
        /\ call'[c] = q
        /\ \A d \in Caller \ {c} : call'[d] = call[d] /\ call[d].pc \notin {"mint", "keep"}
    BY <1>5, <2>1, CallMoves DEF FallBack
  <2>4. Password > dead /\ root'.token = root.token
    BY <1>5 DEF Password, FallBack
  <2>5. RootTypeOK' /\ writer' = NoCaller /\ issuedTo' = issuedTo /\ dead' = dead
    <3>1. /\ writer' = NoCaller /\ issuedTo' = issuedTo /\ dead' = dead
          /\ refusals' \in 0 .. MaxRefusals
          /\ root' \in [token : 0 .. MaxTokens, due : BOOLEAN, basic : BOOLEAN]
      <4>1. root' = [root EXCEPT !.basic = TRUE] /\ refusals' = refusals + 1 /\ refusals < MaxRefusals
        BY <1>5 DEF FallBack
      <4>2. root' \in [token : 0 .. MaxTokens, due : BOOLEAN, basic : BOOLEAN]
        BY <4>1
      <4> QED
        BY <1>5, <4>1, <4>2 DEF FallBack
    <3> QED
      BY <2>3, <3>1 DEF Calls
  <2>6. \A d \in Caller : (Renewing(d)' => Renewing(d)) /\ call'[d].pc \notin {"mint", "keep"}
    BY <2>2, <2>3
  <2>7. RenewedIsAlive'
    BY <2>2, <2>3, <2>4, <2>5, <2>6
  <2> QED
    BY <2>2, <2>3, <2>4, <2>5, <2>6, <2>7
<1>6. CASE Send(c)
  <2>1. call[c] \in Calls /\ NoAuth \in Calls
    BY DEF Calls, NoAuth
  <2>2. CASE ~Rejected(c)
    <3>1. call' = [call EXCEPT ![c] = NoAuth]
      BY <1>6, <2>2 DEF Send
    <3>2. /\ call' \in [Caller -> Calls]
          /\ call'[c] = NoAuth
          /\ \A d \in Caller \ {c} : call'[d] = call[d]
      BY <2>1, <3>1, CallMoves
    <3> QED
      BY <1>6, <3>2 DEF Send, Calls, NoAuth
  <2>3. CASE Rejected(c)
    <3> DEFINE q == [call[c] EXCEPT !.pc = IF call[c].again THEN "failed" ELSE "drop"]
    <3>1. q \in Calls /\ call' = [call EXCEPT ![c] = q]
      BY <1>6, <2>1, <2>3 DEF Send, Proceed, Calls
    <3>2. /\ q.pc = (IF call[c].again THEN "failed" ELSE "drop")
          /\ q.again = call[c].again /\ q.hit = call[c].hit
      BY <2>1 DEF Calls
    <3> HIDE DEF q
    <3>3. /\ call' \in [Caller -> Calls]
          /\ call'[c] = q
          /\ \A d \in Caller \ {c} : call'[d] = call[d]
      BY <3>1, CallMoves
    <3>4. q.pc = "failed" => q.hit
      BY <1>6, <2>1, <2>3, <3>2 DEF Send, Rejected, Calls
    <3> QED
      BY <1>6, <3>2, <3>3, <3>4 DEF Send, Calls
  <2> QED
    BY <2>2, <2>3
<1>7. CASE DropToken(c)
  <2> DEFINE q == [NoAuth EXCEPT !.pc = "auth", !.again = TRUE]
  <2>1. q \in Calls /\ q.pc = "auth" /\ ~q.hit /\ call' = [call EXCEPT ![c] = q]
    <3>1. NoAuth \in Calls /\ NoAuth.hit = FALSE
      BY DEF NoAuth, Calls
    <3>2. q \in Calls /\ q.pc = "auth" /\ q.hit = FALSE
      BY <3>1 DEF Calls
    <3>3. call' = [call EXCEPT ![c] = q]
      BY <1>7 DEF DropToken
    <3> QED
      BY <3>2, <3>3
  <2> HIDE DEF q
  <2>2. /\ call' \in [Caller -> Calls]
        /\ call'[c] = q
        /\ \A d \in Caller \ {c} : call'[d] = call[d]
    BY <2>1, CallMoves
  <2>3. \A d \in Caller : call[d].pc # "keep"
    BY <1>7 DEF DropToken, DropLockable
  <2>4. root'.token = 0 /\ root' \in [token : 0 .. MaxTokens, due : BOOLEAN, basic : BOOLEAN]
    BY <1>7 DEF DropToken
  <2> QED
    BY <1>7, <2>1, <2>2, <2>3, <2>4 DEF DropToken, Calls
<1>8. CASE GiveUp(c)
  BY <1>8 DEF GiveUp, NoAuth
<1> QED
  BY <1>1, <1>2, <1>3, <1>4, <1>5, <1>6, <1>7, <1>8 DEF RootStep

LEMMA RootTrafficKeeps ==
  ASSUME RootInv, (\E c \in Caller : RootCall(c)) \/ FallDue \/ Revocation
  PROVE  RootInv'
<1> USE RootAssumption DEF RootInv, RootTypeOK, RenewedIsAlive, Renewing, RootCallsSurvive, CallAt,
        Minting
<1>1. ASSUME NEW c \in Caller, RootCall(c) PROVE RootInv'
  BY <1>1 DEF RootCall, Proceed
<1>2. CASE FallDue
  BY <1>2 DEF FallDue
<1>3. CASE Revocation
  <2>1. \A c \in Caller : /\ call'[c].pc = call[c].pc /\ call'[c].auth = call[c].auth
                          /\ call'[c].again = call[c].again
                          /\ call'[c].hit = (call[c].hit \/ call[c].pc # "idle")
    BY <1>3 DEF Revocation
  <2>2. RootTypeOK'
    BY <1>3 DEF Revocation
  <2>3. \A c \in Caller : ~Renewing(c)'
    BY <2>1
  <2>4. dead' = issuedTo /\ UNCHANGED <<root, writer, issuedTo>>
    BY <1>3 DEF Revocation
  <2> QED
    BY <2>1, <2>2, <2>3, <2>4
<1> QED
  BY <1>1, <1>2, <1>3

LEMMA ForgetRootKeeps ==
  ASSUME RootInv, ForgetRoot
  PROVE  RootInv'
BY RootAssumption DEF ForgetRoot, RootInv, RootTypeOK, RenewedIsAlive, Renewing, RootCallsSurvive,
   CallAt, Minting, NoAuth

RootRests == UNCHANGED rootVars

LEMMA RootRestKeeps ==
  ASSUME RootInv, RootRests
  PROVE  RootInv'
BY DEF RootRests, rootVars, RootInv, RootTypeOK, RenewedIsAlive, Renewing, RootCallsSurvive, CallAt

LEMMA NextKeepsRoot ==
  ASSUME RootInv, [Next]_vars
  PROVE  RootInv'
<1>1. ASSUME NEW c \in Caller, AsRoot(c) PROVE RootInv'
  BY <1>1, RootStepKeeps DEF AsRoot
<1>2. CASE RootTraffic
  BY <1>2, RootTrafficKeeps DEF RootTraffic
<1>3. CASE Restart
  BY <1>3, ForgetRootKeeps DEF Restart
<1>4. ASSUME NEW w \in Worker,
             LoginRequest(w) \/ Request(w) \/ Authenticate(w) \/ Dispatch(w) \/ Converse(w)
      PROVE  RootRests
  BY <1>4 DEF LoginRequest, Request, Authenticate, Converse, InSessions, InRealtime,
              Dispatch, Verb, SessionJwt, SubscribeRequest, EventsRequest, UnsubscribeRequest, RootRests
<1>5. ASSUME Maintenance \/ Connections \/ Enqueue \/ Clock \/ Removal \/ Failure
      PROVE  RootRests
  BY <1>5 DEF Maintenance, Connections, Enqueue, Clock, Removal, Failure,
              InSessions, InRealtime, InFairness, RootRests
<1>6. ASSUME NEW s \in Sub, Delivery(s) \/ Idling(s) PROVE RootRests
  BY <1>6 DEF Delivery, Idling, InRealtime, RootRests
<1>7. ASSUME NEW d \in Drainer, Drain(d) PROVE RootRests
  BY <1>7 DEF Drain, InFairness, RootRests
<1>8. ASSUME NEW w \in Thread, Metadata(w) \/ Manage(w) PROVE RootRests
  BY <1>8 DEF Metadata, Manage, InMetadata, RootRests
<1>9. ASSUME NEW k \in Tenant \X Secret, Expiry(k) PROVE RootRests
  BY <1>9 DEF Expiry, InSessions, RootRests
<1>10. ASSUME UNCHANGED vars PROVE RootRests
  BY <1>10 DEF vars, RootRests
<1> QED
  BY <1>1, <1>2, <1>3, <1>4, <1>5, <1>6, <1>7, <1>8, <1>9, <1>10, RootRestKeeps DEF Next

THEOREM RootInvariant == Spec => []RootInv
<1>1. Init => RootInv
  BY RootAssumption DEF Init, RootInit, RootInv, RootTypeOK, RenewedIsAlive, Renewing,
     RootCallsSurvive, CallAt, Minting, NoAuth
<1> QED
  BY <1>1, NextKeepsRoot, PTL DEF Spec

\* A call of the kernel as itself fails on its credential only when the store revoked tokens
\* again under it, whichever threads mint, drop and keep tokens meanwhile (db.rs:773).
THEOREM RootCallsAreSafe == Spec => []RootCallsSurvive
<1>1. RootInv => RootCallsSurvive
  BY DEF RootInv
<1> QED
  BY <1>1, RootInvariant, PTL

-----------------------------------------------------------------------------
(* The budget of a shaped tenant: BudgetInv holds of every state.           *)

BudgetTypes ==
  /\ bucket \in [Group -> [tokens : 0 .. Burst, last : 0 .. MaxClock]]
  /\ spent \in [Group -> [0 .. MaxClock -> Nat]]
  /\ clock \in 0 .. MaxClock

\* What was admitted since some tick and what could be admitted now.
SpentAndLeft(g, from) == AdmittedSince(g, from) + Refilled(g)

BudgetInv ==
  /\ BudgetTypes
  /\ \A g \in Group : bucket[g].last <= clock
  /\ \A g \in Group : \A from \in 0 .. clock :
       SpentAndLeft(g, from) <= Burst + (clock - from) * Rate

LEMMA Products ==
  ASSUME NEW r \in Nat, NEW a \in Nat, NEW b \in Nat, a <= b
  PROVE  (b - a) * r \in Nat /\ (b - b) * r = 0 /\ (b + 1 - a) * r = (b - a) * r + r
OBVIOUS

\* The tokens of a bucket at some time.
TokensAt(b, now) ==
  IF b.tokens + (now - b.last) * Rate < Burst THEN b.tokens + (now - b.last) * Rate ELSE Burst

LEMMA TokensGrow ==
  ASSUME NEW b, NEW now \in Nat, b.tokens \in Nat, b.last \in Nat, b.last <= now,
         NEW next, next = now + 1
  PROVE  TokensAt(b, next) <= TokensAt(b, now) + Rate
<1> DEFINE more == (now - b.last) * Rate
           grown == (next - b.last) * Rate
<1>1. Rate \in Nat /\ Burst \in Nat
  BY FairnessAssumption
<1>2. (now - b.last) * Rate \in Nat /\ (now + 1 - b.last) * Rate = (now - b.last) * Rate + Rate
  BY <1>1, Products
<1>3. more \in Nat /\ grown = more + Rate
  BY <1>2
<1>4. /\ TokensAt(b, now) = IF b.tokens + more < Burst THEN b.tokens + more ELSE Burst
      /\ TokensAt(b, next) = IF b.tokens + grown < Burst THEN b.tokens + grown ELSE Burst
  BY DEF TokensAt
<1> HIDE DEF more, grown
<1> QED
  BY <1>1, <1>3, <1>4

LEMMA RefilledInRange ==
  ASSUME BudgetTypes, NEW g \in Group, bucket[g].last <= clock
  PROVE  Refilled(g) \in 0 .. Burst
<1>1. /\ bucket[g].tokens \in Nat /\ clock - bucket[g].last \in Nat
      /\ Rate \in Nat /\ Burst \in Nat
  BY FairnessAssumption DEF BudgetTypes
<1>2. (clock - bucket[g].last) * Rate \in Nat
  BY <1>1
<1> QED
  BY <1>1, <1>2 DEF Refilled

LEMMA AdmitKeepsBudget ==
  ASSUME BudgetInv, NEW g, AdmitVerb(g)
  PROVE  BudgetInv'
<1>1. CASE g \notin Shaped
  BY <1>1 DEF AdmitVerb, BudgetInv, BudgetTypes, SpentAndLeft, AdmittedSince, Refilled
<1>2. CASE g \in Shaped
  <2> DEFINE verbs == IF Refilled(g) >= 1 THEN 1 ELSE 0
             filled == [tokens |-> Refilled(g) - verbs, last |-> clock]
  <2>1. g \in Group /\ Refilled(g) \in 0 .. Burst /\ verbs \in 0 .. 1 /\ verbs <= Refilled(g)
    BY <1>2, FairnessAssumption, RefilledInRange DEF BudgetInv
  <2>12. /\ bucket \in [Group -> [tokens : 0 .. Burst, last : 0 .. MaxClock]]
         /\ spent \in [Group -> [0 .. MaxClock -> Nat]]
         /\ clock \in 0 .. MaxClock
         /\ \A h \in Group : bucket[h].last <= clock
         /\ MaxClock \in Nat /\ Burst \in Nat
    BY FairnessAssumption DEF BudgetInv, BudgetTypes
  <2>13. spent[g] \in [0 .. MaxClock -> Nat] /\ clock \in 0 .. MaxClock /\ MaxClock \in Nat
    BY <2>1, <2>12
  <2>2. /\ clock' = clock
        /\ bucket' = [bucket EXCEPT ![g] = filled]
        /\ spent' = IF Refilled(g) >= 1 THEN [spent EXCEPT ![g][clock] = @ + 1] ELSE spent
    <3>1. CASE Refilled(g) >= 1
      BY <1>2, <3>1 DEF AdmitVerb
    <3>2. CASE ~(Refilled(g) >= 1)
      <4>1. Refilled(g) - 0 = Refilled(g)
        BY <2>1
      <4> QED
        BY <1>2, <3>2, <4>1 DEF AdmitVerb
    <3> QED
      BY <3>1, <3>2
  <2>3. filled \in [tokens : 0 .. Burst, last : 0 .. MaxClock] /\ filled.last = clock
        /\ filled.tokens = Refilled(g) - verbs
    BY <2>12, <2>1
  <2> HIDE DEF filled
  <2>4. /\ BudgetTypes'
        /\ bucket'[g] = filled
        /\ \A h \in Group \ {g} : bucket'[h] = bucket[h] /\ spent'[h] = spent[h]
        /\ \A k \in 0 .. MaxClock : spent'[g][k] = spent[g][k] + IF k = clock THEN verbs ELSE 0
    <3>1. /\ bucket' \in [Group -> [tokens : 0 .. Burst, last : 0 .. MaxClock]]
          /\ bucket'[g] = filled /\ \A h \in Group \ {g} : bucket'[h] = bucket[h]
      BY <2>12, <2>1, <2>2, <2>3
    <3>2. /\ spent' \in [Group -> [0 .. MaxClock -> Nat]]
          /\ \A h \in Group \ {g} : spent'[h] = spent[h]
          /\ \A k \in 0 .. MaxClock : spent'[g][k] = spent[g][k] + IF k = clock THEN verbs ELSE 0
      <4>1. CASE Refilled(g) >= 1
        <5>1. verbs = 1 /\ spent' = [spent EXCEPT ![g][clock] = @ + 1]
          BY <2>2, <4>1
        <5> HIDE DEF verbs
        <5>2. spent' = [spent EXCEPT ![g] = [spent[g] EXCEPT ![clock] = spent[g][clock] + 1]]
          BY <5>1
        <5>3. [spent[g] EXCEPT ![clock] = spent[g][clock] + 1] \in [0 .. MaxClock -> Nat]
          BY <2>13
        <5> QED
          BY <2>12, <2>13, <2>1, <5>1, <5>2, <5>3
      <4>2. CASE ~(Refilled(g) >= 1)
        <5>1. verbs = 0 /\ spent' = spent
          BY <2>2, <4>2
        <5>2. \A k \in 0 .. MaxClock : spent[g][k] \in Nat
          BY <2>13
        <5> HIDE DEF verbs
        <5> QED
          <6>1. \A k \in 0 .. MaxClock : spent'[g][k] = spent[g][k] + IF k = clock THEN verbs ELSE 0
            BY <5>1, <5>2
          <6> QED
            BY <2>12, <5>1, <6>1
      <4> QED
        BY <4>1, <4>2
    <3> QED
      BY <2>12, <2>2, <3>1, <3>2 DEF BudgetTypes
  <2> HIDE DEF verbs
  <2>5. Refilled(g)' = Refilled(g) - verbs
    <3>1. (clock - clock) * Rate = 0
      BY FairnessAssumption DEF BudgetInv, BudgetTypes
    <3>2. Burst \in Nat
      BY FairnessAssumption
    <3> QED
      BY <2>1, <2>2, <2>3, <2>4, <3>1, <3>2 DEF Refilled
  <2>6. \A h \in Group \ {g} : Refilled(h)' = Refilled(h)
    BY <2>2, <2>4 DEF Refilled
  <2>7. \A from \in 0 .. clock : AdmittedSince(g, from)' = AdmittedSince(g, from) + verbs
    <3> TAKE from \in 0 .. clock
    <3>1. from = 0 \/ from - 1 \in 0 .. MaxClock
      BY <2>13
    <3>2. /\ spent'[g][clock] = spent[g][clock] + verbs
          /\ from # 0 => spent'[g][from - 1] = spent[g][from - 1] /\ spent[g][from - 1] \in Nat
          /\ spent[g][clock] \in Nat
      BY <2>13, <2>4, <3>1
    <3> QED
      BY <2>1, <2>2, <3>2 DEF AdmittedSince
  <2>8. \A h \in Group \ {g} : \A from \in 0 .. clock : AdmittedSince(h, from)' = AdmittedSince(h, from)
    BY <2>2, <2>4 DEF AdmittedSince
  <2>9. \A from \in 0 .. clock : AdmittedSince(g, from) \in Int
    <3> TAKE from \in 0 .. clock
    <3>1. from = 0 \/ from - 1 \in 0 .. MaxClock
      BY <2>13
    <3> QED
      BY <2>13, <3>1 DEF AdmittedSince
  <2>10. \A h \in Group : \A from \in 0 .. clock : SpentAndLeft(h, from)' = SpentAndLeft(h, from)
    BY <2>1, <2>5, <2>6, <2>7, <2>8, <2>9 DEF SpentAndLeft
  <2>11. \A h \in Group : bucket'[h].last <= clock
    <3>1. filled.last <= clock
      BY <2>12, <2>3
    <3> QED
      BY <2>12, <2>4, <3>1
  <2> QED
    BY <2>2, <2>4, <2>10, <2>11 DEF BudgetInv
<1> QED
  BY <1>1, <1>2

LEMMA TickKeepsBudget ==
  ASSUME BudgetInv, Tick
  PROVE  BudgetInv'
<1>1. /\ clock \in Nat /\ clock < MaxClock /\ clock' = clock + 1 /\ bucket' = bucket
      /\ Rate \in Nat /\ Burst \in Nat /\ MaxClock \in Nat
  BY FairnessAssumption DEF Tick, BudgetInv, BudgetTypes
<1>2. /\ BudgetTypes'
      /\ \A g \in Group : \A k \in 0 .. MaxClock :
           spent'[g][k] = IF k = clock + 1 THEN spent[g][clock] ELSE spent[g][k]
  <2>1. /\ bucket \in [Group -> [tokens : 0 .. Burst, last : 0 .. MaxClock]]
        /\ spent \in [Group -> [0 .. MaxClock -> Nat]]
        /\ clock \in 0 .. MaxClock /\ clock + 1 \in 0 .. MaxClock
    BY <1>1 DEF BudgetInv, BudgetTypes
  <2>2. spent' = [g \in Group |-> [spent[g] EXCEPT ![clock + 1] = spent[g][clock]]]
    BY DEF Tick
  <2>3. \A g \in Group : [spent[g] EXCEPT ![clock + 1] = spent[g][clock]] \in [0 .. MaxClock -> Nat]
    BY <2>1
  <2>4. spent' \in [Group -> [0 .. MaxClock -> Nat]]
    BY <2>2, <2>3
  <2>5. \A g \in Group : \A k \in 0 .. MaxClock :
          spent'[g][k] = IF k = clock + 1 THEN spent[g][clock] ELSE spent[g][k]
    BY <2>1, <2>2
  <2> QED
    BY <1>1, <2>1, <2>4, <2>5 DEF BudgetTypes
<1>3. ASSUME NEW g \in Group
      PROVE  Refilled(g)' <= Refilled(g) + Rate /\ Refilled(g)' \in 0 .. Burst /\ Refilled(g) \in Nat
  <2>1. bucket[g].last \in Nat /\ bucket[g].last <= clock /\ bucket[g].tokens \in Nat
    BY DEF BudgetInv, BudgetTypes
  <2>2. (clock + 1 - bucket[g].last) * Rate = (clock - bucket[g].last) * Rate + Rate
    BY <1>1, <2>1
  <2>3. Refilled(g) \in 0 .. Burst
    BY <2>1, RefilledInRange DEF BudgetInv
  <2>4. Refilled(g)' \in 0 .. Burst
    <3>1. bucket'[g].tokens \in Nat /\ (clock' - bucket'[g].last) * Rate \in Nat
      BY <1>1, <2>1
    <3> QED
      BY <1>1, <3>1 DEF Refilled
  <2>5. Refilled(g)' <= Refilled(g) + Rate
    <3>1. Refilled(g) = TokensAt(bucket[g], clock) /\ Refilled(g)' = TokensAt(bucket'[g], clock')
      BY DEF Refilled, TokensAt
    <3>2. TokensAt(bucket[g], clock') <= TokensAt(bucket[g], clock) + Rate
      BY <1>1, <2>1, TokensGrow
    <3> QED
      BY <1>1, <3>1, <3>2
  <2> QED
    BY <1>1, <2>3, <2>4, <2>5
<1>4. ASSUME NEW g \in Group, NEW from \in 0 .. clock
      PROVE  SpentAndLeft(g, from)' <= Burst + (clock' - from) * Rate
  <2>1. AdmittedSince(g, from)' = AdmittedSince(g, from) /\ AdmittedSince(g, from) \in Int
    <3>1. from = 0 \/ from - 1 \in 0 .. MaxClock
      BY <1>1
    <3>2. spent'[g][clock'] = spent[g][clock] /\ clock \in 0 .. MaxClock /\ clock' \in 0 .. MaxClock
      BY <1>1, <1>2
    <3>3. from # 0 => spent'[g][from - 1] = spent[g][from - 1]
      BY <1>1, <1>2, <3>1
    <3>4. spent[g][clock] \in Nat /\ (from # 0 => spent[g][from - 1] \in Nat)
      BY <3>1, <3>2 DEF BudgetInv, BudgetTypes
    <3> QED
      BY <3>2, <3>3, <3>4 DEF AdmittedSince
  <2>2. (clock + 1 - from) * Rate = (clock - from) * Rate + Rate /\ (clock - from) * Rate \in Nat
    BY <1>1
  <2>3. AdmittedSince(g, from) + Refilled(g) <= Burst + (clock - from) * Rate
    BY DEF BudgetInv, SpentAndLeft
  <2> HIDE DEF BudgetInv
  <2> QED
    BY <1>1, <1>3, <2>1, <2>2, <2>3 DEF SpentAndLeft
<1>5. ASSUME NEW g \in Group, NEW from \in 0 .. clock', from = clock + 1
      PROVE  SpentAndLeft(g, from)' <= Burst + (clock' - from) * Rate
  <2>1. AdmittedSince(g, from)' = 0
    <3>1. from - 1 = clock /\ from # 0 /\ clock \in 0 .. MaxClock /\ from \in 0 .. MaxClock
      BY <1>1, <1>5
    <3>2. spent'[g][from] = spent[g][clock] /\ spent'[g][clock] = spent[g][clock]
      BY <1>1, <1>2, <1>5, <3>1
    <3>3. spent[g][clock] \in Nat
      BY <3>1 DEF BudgetInv, BudgetTypes
    <3> QED
      BY <1>1, <1>5, <3>1, <3>2, <3>3 DEF AdmittedSince
  <2>2. (clock' - from) * Rate = 0
    BY <1>1, <1>5
  <2> QED
    BY <1>1, <1>3, <2>1, <2>2 DEF SpentAndLeft
<1>6. \A from \in 0 .. clock' : from \in 0 .. clock \/ from = clock + 1
  BY <1>1
<1>7. \A g \in Group : bucket'[g].last <= clock'
  BY <1>1 DEF BudgetInv, BudgetTypes
<1>8. ASSUME NEW g \in Group, NEW from \in 0 .. clock'
      PROVE  SpentAndLeft(g, from)' <= Burst + (clock' - from) * Rate
  <2>1. CASE from \in 0 .. clock
    BY <1>4, <2>1
  <2>2. CASE from = clock + 1
    BY <1>5, <2>2
  <2> QED
    BY <1>6, <2>1, <2>2
<1> QED
  BY <1>2, <1>7, <1>8 DEF BudgetInv

\* A process loads its policies: every bucket is full and nothing is spent.
LEMMA LoadKeepsBudget ==
  ASSUME BudgetInv, LoadPolicies
  PROVE  BudgetInv'
<1>1. Rate \in Nat /\ Burst \in Nat /\ MaxClock \in Nat /\ clock' \in 0 .. MaxClock
  BY FairnessAssumption DEF LoadPolicies, BudgetInv, BudgetTypes
<1>2. /\ bucket' = [g \in Group |-> [tokens |-> Burst, last |-> clock']]
      /\ spent' = [g \in Group |-> NothingSpent]
  BY DEF LoadPolicies
<1>3. BudgetTypes'
  BY <1>1, <1>2 DEF BudgetTypes, NothingSpent
<1>4. ASSUME NEW g \in Group, NEW from \in 0 .. clock'
      PROVE  SpentAndLeft(g, from)' <= Burst + (clock' - from) * Rate
  <2>1. AdmittedSince(g, from)' = 0
    BY <1>1, <1>2 DEF AdmittedSince, NothingSpent
  <2>2. Refilled(g)' = Burst
    <3>1. clock' \in Nat
      BY <1>1
    <3>2. (clock' - clock') * Rate = 0
      <4>1. clock' <= clock'
        BY <3>1
      <4> QED
        BY <1>1, <3>1, <4>1, Products, Zenon
    <3>3. bucket'[g].tokens = Burst /\ bucket'[g].last = clock'
      BY <1>2
    <3> QED
      BY <1>1, <3>2, <3>3 DEF Refilled
  <2>3. clock' \in Nat /\ from \in Nat /\ from <= clock'
    BY <1>1
  <2>4. (clock' - from) * Rate \in Nat
    BY <1>1, <2>3, Products
  <2>5. SpentAndLeft(g, from)' = Burst
    BY <1>1, <2>1, <2>2 DEF SpentAndLeft
  <2> DEFINE accrued == (clock' - from) * Rate
  <2>6. accrued \in Nat
    BY <2>4
  <2> HIDE DEF accrued
  <2>7. SpentAndLeft(g, from)' <= Burst + accrued
    BY <1>1, <2>5, <2>6
  <2> QED
    BY <2>7 DEF accrued
<1>5. \A g \in Group : bucket'[g].last <= clock'
  BY <1>1, <1>2
<1> QED
  BY <1>3, <1>4, <1>5 DEF BudgetInv

BudgetRests == UNCHANGED bucketVars

LEMMA BudgetRestKeeps ==
  ASSUME BudgetInv, BudgetRests
  PROVE  BudgetInv'
BY DEF BudgetRests, bucketVars, BudgetInv, BudgetTypes, SpentAndLeft, AdmittedSince, Refilled

LEMMA NextKeepsBudget ==
  ASSUME BudgetInv, [Next]_vars
  PROVE  BudgetInv'
<1>1. ASSUME NEW w \in Worker, Verb(w) PROVE BudgetInv'
  BY <1>1, AdmitKeepsBudget DEF Verb
<1>2. CASE Clock
  BY <1>2, TickKeepsBudget DEF Clock
<1>3. CASE Restart
  BY <1>3, LoadKeepsBudget DEF Restart
<1>4. ASSUME NEW w \in Worker, LoginRequest(w) \/ Request(w) \/ Authenticate(w) \/ Converse(w)
      PROVE  BudgetRests
  BY <1>4 DEF LoginRequest, Request, Authenticate, Converse, InSessions, InRealtime, fairnessVars,
              BudgetRests
<1>5. ASSUME NEW w \in Worker,
             SessionJwt(w) \/ SubscribeRequest(w) \/ EventsRequest(w) \/ UnsubscribeRequest(w)
      PROVE  BudgetRests
  BY <1>5 DEF SessionJwt, SubscribeRequest, EventsRequest, UnsubscribeRequest, fairnessVars, BudgetRests
<1>6. ASSUME Maintenance \/ Connections \/ RootTraffic \/ Removal \/ Failure PROVE BudgetRests
  BY <1>6 DEF Maintenance, Connections, RootTraffic, Removal, Failure,
              InSessions, InRealtime, InRoot, fairnessVars, BudgetRests
<1>7. ASSUME NEW s \in Sub, Delivery(s) \/ Idling(s) PROVE BudgetRests
  BY <1>7 DEF Delivery, Idling, InRealtime, fairnessVars, BudgetRests
<1>8. CASE Enqueue \/ \E d \in Drainer : Drain(d)
  BY <1>8, BudgetRestKeeps DEF Enqueue, EnqueueTask, Drain, DrainStep, ReadHeads, TryClaim, BudgetRests
<1>9. ASSUME NEW w \in Thread, Metadata(w) \/ Manage(w) PROVE BudgetRests
  BY <1>9 DEF Metadata, Manage, InMetadata, fairnessVars, BudgetRests
<1>10. ASSUME NEW c \in Caller, AsRoot(c) PROVE BudgetRests
  BY <1>10 DEF AsRoot, InRoot, fairnessVars, BudgetRests
<1>11. ASSUME NEW k \in Tenant \X Secret, Expiry(k) PROVE BudgetRests
  BY <1>11 DEF Expiry, InSessions, fairnessVars, BudgetRests
<1>12. ASSUME UNCHANGED vars PROVE BudgetRests
  BY <1>12 DEF vars, fairnessVars, BudgetRests
<1> QED
  BY <1>1, <1>2, <1>3, <1>4, <1>5, <1>6, <1>7, <1>8, <1>9, <1>10, <1>11, <1>12, BudgetRestKeeps
  DEF Next, Dispatch

THEOREM BudgetInvariant == Spec => []BudgetInv
<1>1. ASSUME Init PROVE BudgetInv
  <2>1. /\ bucket = [g \in Group |-> [tokens |-> Burst, last |-> 0]]
        /\ spent = [g \in Group |-> NothingSpent]
        /\ clock = 0
    BY <1>1 DEF Init, FairnessInit
  <2>2. Rate \in Nat /\ Burst \in Nat /\ MaxClock \in Nat
    BY FairnessAssumption
  <2>3. BudgetTypes
    BY <2>1, <2>2 DEF BudgetTypes, NothingSpent
  <2>4. \A g \in Group : AdmittedSince(g, 0) = 0 /\ Refilled(g) = Burst
    BY <2>1, <2>2 DEF AdmittedSince, NothingSpent, Refilled
  <2> QED
    BY <2>1, <2>2, <2>3, <2>4 DEF BudgetInv, SpentAndLeft
<1> QED
  BY <1>1, NextKeepsBudget, PTL DEF Spec

\* In no span of time is a shaped tenant admitted beyond its burst and its rate, for any
\* rate, burst and mix of verbs, refusals and ticks (fairness.rs:51).
THEOREM BudgetsAreKept == Spec => []WithinBudget
<1>1. ASSUME BudgetInv PROVE WithinBudget
  <2>1. ASSUME NEW g \in Shaped, NEW from \in 0 .. clock
        PROVE  AdmittedSince(g, from) <= Burst + (clock - from) * Rate
    <3>1. g \in Group /\ Refilled(g) \in 0 .. Burst
      BY <1>1, FairnessAssumption, RefilledInRange DEF BudgetInv
    <3>2. AdmittedSince(g, from) \in Int
      <4>1. spent[g] \in [0 .. MaxClock -> Nat] /\ clock \in 0 .. MaxClock
        BY <1>1, <3>1 DEF BudgetInv, BudgetTypes
      <4>2. MaxClock \in Nat
        BY FairnessAssumption
      <4> QED
        BY <4>1, <4>2 DEF AdmittedSince
    <3>3. AdmittedSince(g, from) + Refilled(g) <= Burst + (clock - from) * Rate
      BY <1>1, <3>1 DEF BudgetInv, SpentAndLeft
    <3>4. Burst + (clock - from) * Rate \in Int
      BY <1>1, FairnessAssumption DEF BudgetInv, BudgetTypes
    <3> QED
      BY <3>1, <3>2, <3>3, <3>4
  <2> QED
    BY <2>1 DEF WithinBudget
<1> QED
  BY <1>1, BudgetInvariant, PTL

-----------------------------------------------------------------------------
(* Live subscriptions: RealtimeInv holds of every state.                    *)

OpeningPc == {"connect", "live", "insert"}
Opening(t) == {c \in Client : rt[c].pc \in OpeningPc /\ rt[c].tenant = t}

\* What is listed of a table and the requests that passed the check of its budget.
Bounded ==
  \A t \in Scope :
    /\ IsFiniteSet(Listed(t))
    /\ CountForTable(t) + Cardinality(Opening(t)) < Budget + Cardinality(Client)

\* A request that has its connection knows which.
Opened ==
  \A c \in Client : rt[c].pc \in {"live", "insert"} =>
    /\ rt[c].sub \in Sub /\ sub[rt[c].sub].stage # "unused"
    /\ sub[rt[c].sub].tenant = rt[c].tenant
Chosen == \A c \in Client : rt[c].pc \in {"take", "alive", "close"} => rt[c].sub \in Sub

\* What a living connection with its LIVE SELECT owes its client is under way or in the buffer.
Pays(p) == p.live /\ p.alive /\ p.owed => p.coming \/ p.ticks > 0
AllPay == \A s \in Sub : Pays(sub[s])

DoomedAreOver ==
  /\ reaper.pc # "idle" => \A s \in reaper.doomed : sub[s].stage # "unused"
  /\ reaper.pc = "drain" => \A s \in reaper.doomed : ~sub[s].alive

RealtimeInv == RealtimeTypeOK /\ Bounded /\ Opened /\ Chosen /\ AllPay /\ DoomedAreOver

Subs == [stage : {"unused", "opening", "listed", "gone"},
         user : Owner \cup {NoSub}, tenant : Scope \cup {NoSub},
         reading : BOOLEAN, alive : BOOLEAN, live : BOOLEAN, ticks : 0 .. BufferCap,
         idle : BOOLEAN, coming : BOOLEAN, owed : BOOLEAN]
Talks == [pc : {"idle", "connect", "live", "insert", "take", "alive", "answer", "close"},
          sub : Sub \cup {NoSub}, user : Owner \cup {NoSub},
          tenant : Scope \cup {NoSub}, taken : 0 .. BufferCap, up : BOOLEAN]

LEMMA Blank == Unused \in Subs /\ NoCall \in Talks /\ Pays(Unused) /\ ~Unused.alive
               /\ Unused.stage = "unused" /\ NoCall.pc = "idle"
BY RealtimeAssumption DEF Unused, NoCall, Subs, Talks, Pays

LEMMA SubChanges ==
  ASSUME RealtimeTypeOK, NEW s \in Sub, NEW p \in Subs, sub' = [sub EXCEPT ![s] = p]
  PROVE  /\ sub' \in [Sub -> Subs]
         /\ sub'[s] = p
         /\ \A x \in Sub \ {s} : sub'[x] = sub[x]
BY DEF RealtimeTypeOK, Subs

LEMMA TalkChanges ==
  ASSUME RealtimeTypeOK, NEW c \in Client, NEW q \in Talks, rt' = [rt EXCEPT ![c] = q]
  PROVE  /\ rt' \in [Client -> Talks]
         /\ rt'[c] = q
         /\ \A d \in Client \ {c} : rt'[d] = rt[d]
BY DEF RealtimeTypeOK, Talks

LEMMA Shapes ==
  ASSUME RealtimeTypeOK
  PROVE  /\ sub \in [Sub -> Subs] /\ rt \in [Client -> Talks]
         /\ reaper \in [pc : {"idle", "close", "drain"}, doomed : SUBSET Sub]
BY DEF RealtimeTypeOK, Subs, Talks

LEMMA ShapesAre ==
  ASSUME sub' \in [Sub -> Subs], rt' \in [Client -> Talks],
         reaper' \in [pc : {"idle", "close", "drain"}, doomed : SUBSET Sub]
  PROVE  RealtimeTypeOK'
BY DEF RealtimeTypeOK, Subs, Talks

\* Nothing new is listed and no request passes the check of the budget.
LEMMA NotMore ==
  ASSUME RealtimeInv,
         \A s \in Sub : sub'[s].stage = "listed" =>
           sub[s].stage = "listed" /\ sub'[s].tenant = sub[s].tenant,
         \A c \in Client : rt'[c].pc \in OpeningPc =>
           rt[c].pc \in OpeningPc /\ rt'[c].tenant = rt[c].tenant
  PROVE  Bounded'
<1> SUFFICES ASSUME NEW t \in Scope
             PROVE  /\ IsFiniteSet(Listed(t)')
                    /\ Cardinality(Listed(t)') + Cardinality(Opening(t)') < Budget + Cardinality(Client)
  BY DEF Bounded, CountForTable
<1>1. Listed(t)' \subseteq Listed(t) /\ Opening(t)' \subseteq Opening(t) /\ Opening(t) \subseteq Client
  BY DEF Listed, Opening
<1>2. /\ IsFiniteSet(Listed(t)) /\ IsFiniteSet(Client) /\ IsFiniteSet(Opening(t))
      /\ Cardinality(Listed(t)) + Cardinality(Opening(t)) < Budget + Cardinality(Client)
  BY <1>1, RealtimeAssumption, FS_Subset DEF RealtimeInv, Bounded, CountForTable
<1>3. /\ IsFiniteSet(Listed(t)') /\ Cardinality(Listed(t)') <= Cardinality(Listed(t))
      /\ IsFiniteSet(Opening(t)') /\ Cardinality(Opening(t)') <= Cardinality(Opening(t))
  BY <1>1, <1>2, FS_Subset
<1>4. /\ Cardinality(Listed(t)) \in Nat /\ Cardinality(Opening(t)) \in Nat
      /\ Cardinality(Listed(t)') \in Nat /\ Cardinality(Opening(t)') \in Nat
      /\ Cardinality(Client) \in Nat /\ Budget \in Nat
  BY <1>2, <1>3, RealtimeAssumption, FS_CardinalityType
<1> QED
  BY <1>2, <1>3, <1>4

\* Subscriptions rest, or change in what the budget and the openings do not see.
SubsGoOn ==
  \A s \in Sub :
    /\ sub'[s].stage = "unused" <=> sub[s].stage = "unused"
    /\ sub'[s].tenant = sub[s].tenant \/ sub'[s].stage \notin {"opening", "listed"}
    /\ sub'[s].stage = sub[s].stage \/ sub'[s].stage = "gone"
    /\ sub'[s].alive => sub[s].alive
    /\ Pays(sub'[s])

\* Requests rest, go on with their opening, or leave it.
TalksGoOn ==
  \A c \in Client :
    /\ rt'[c].pc \in OpeningPc => rt[c].pc \in OpeningPc /\ rt'[c].tenant = rt[c].tenant
    /\ rt'[c].pc \in {"live", "insert"} => rt[c].pc \in {"live", "insert"} /\ rt'[c].sub = rt[c].sub
    /\ rt'[c].pc \in {"take", "alive", "close"} => rt'[c].sub \in Sub

\* A subscription is not taken away under a request that is opening it.
Private(c) == rt[c].pc \in {"live", "insert"} => sub'[rt[c].sub].tenant = sub[rt[c].sub].tenant

LEMMA GoingOnKeeps ==
  ASSUME RealtimeInv, RealtimeTypeOK', SubsGoOn, TalksGoOn, \A c \in Client : Private(c),
         \/ reaper' = reaper
         \/ reaper'.pc = "idle"
         \/ reaper'.pc = "close" /\ \A s \in reaper'.doomed : s \in Sub /\ sub'[s].stage # "unused"
         \/ reaper'.pc = "drain" /\ \A s \in reaper'.doomed : s \in Sub /\ sub'[s].stage # "unused" /\ ~sub'[s].alive
  PROVE  RealtimeInv'
<1> USE DEF RealtimeInv
<1>1. Bounded'
  BY NotMore DEF SubsGoOn, TalksGoOn
<1>2. Opened'
  BY DEF Opened, SubsGoOn, TalksGoOn, Private, OpeningPc
<1>3. Chosen'
  BY DEF Chosen, TalksGoOn
<1>4. AllPay'
  BY DEF AllPay, SubsGoOn
<1>5. DoomedAreOver'
  <2>1. reaper.doomed \subseteq Sub
    BY DEF RealtimeTypeOK
  <2> QED
    BY <2>1 DEF DoomedAreOver, SubsGoOn
<1> QED
  BY <1>1, <1>2, <1>3, <1>4, <1>5

\* One request moves.
LEMMA TalkKeeps ==
  ASSUME RealtimeInv, NEW c \in Client, NEW q \in Talks, rt' = [rt EXCEPT ![c] = q],
         UNCHANGED <<sub, reaper>>,
         q.pc \in OpeningPc => rt[c].pc \in OpeningPc /\ q.tenant = rt[c].tenant,
         q.pc \in {"live", "insert"} => rt[c].pc \in {"live", "insert"} /\ q.sub = rt[c].sub,
         q.pc \in {"take", "alive", "close"} => q.sub \in Sub
  PROVE  RealtimeInv'
<1>1. /\ rt' \in [Client -> Talks] /\ rt'[c] = q
      /\ \A d \in Client \ {c} : rt'[d] = rt[d]
  BY TalkChanges DEF RealtimeInv
<1>2. RealtimeTypeOK'
  BY <1>1, Shapes, ShapesAre DEF RealtimeInv
<1>3. SubsGoOn /\ \A d \in Client : Private(d)
  BY DEF SubsGoOn, Private, RealtimeInv, AllPay
<1>4. TalksGoOn
  BY <1>1 DEF TalksGoOn, RealtimeInv, Chosen
<1> QED
  BY <1>2, <1>3, <1>4, GoingOnKeeps

\* One subscription changes.
LEMMA SubKeeps ==
  ASSUME RealtimeInv, NEW s \in Sub, NEW p \in Subs, sub' = [sub EXCEPT ![s] = p],
         UNCHANGED <<rt, reaper>>,
         p.stage = sub[s].stage, p.tenant = sub[s].tenant, p.alive => sub[s].alive, Pays(p)
  PROVE  RealtimeInv'
<1>1. /\ sub' \in [Sub -> Subs] /\ sub'[s] = p
      /\ \A x \in Sub \ {s} : sub'[x] = sub[x]
  BY SubChanges DEF RealtimeInv
<1>2. RealtimeTypeOK'
  BY <1>1, Shapes, ShapesAre DEF RealtimeInv
<1>3. SubsGoOn
  BY <1>1 DEF SubsGoOn, RealtimeInv, AllPay
<1>4. TalksGoOn
  BY DEF TalksGoOn, RealtimeInv, Chosen
<1>5. \A c \in Client : Private(c)
  BY <1>1 DEF Private, RealtimeInv, Opened
<1> QED
  BY <1>2, <1>3, <1>4, <1>5, GoingOnKeeps

\* A request acts on its subscription, which it does not list.
LEMMA BothKeep ==
  ASSUME RealtimeInv, NEW s \in Sub, NEW p \in Subs, sub' = [sub EXCEPT ![s] = p],
         NEW c \in Client, NEW q \in Talks, rt' = [rt EXCEPT ![c] = q], reaper' = reaper,
         p.stage = sub[s].stage \/ (p.stage = "gone" /\ sub[s].stage # "unused"),
         p.tenant = sub[s].tenant, p.alive => sub[s].alive, Pays(p),
         q.pc \in OpeningPc => rt[c].pc \in OpeningPc /\ q.tenant = rt[c].tenant,
         q.pc \in {"live", "insert"} => rt[c].pc \in {"live", "insert"} /\ q.sub = rt[c].sub,
         q.pc \in {"take", "alive", "close"} => q.sub \in Sub
  PROVE  RealtimeInv'
<1>1. /\ sub' \in [Sub -> Subs] /\ sub'[s] = p
      /\ \A x \in Sub \ {s} : sub'[x] = sub[x]
  BY SubChanges DEF RealtimeInv
<1>2. /\ rt' \in [Client -> Talks] /\ rt'[c] = q
      /\ \A d \in Client \ {c} : rt'[d] = rt[d]
  BY TalkChanges DEF RealtimeInv
<1>3. RealtimeTypeOK'
  BY <1>1, <1>2, Shapes, ShapesAre DEF RealtimeInv
<1>4. SubsGoOn
  BY <1>1 DEF SubsGoOn, RealtimeInv, AllPay
<1>5. TalksGoOn
  BY <1>2 DEF TalksGoOn, RealtimeInv, Chosen, OpeningPc
<1>6. \A d \in Client : Private(d)
  BY <1>1 DEF Private, RealtimeInv, Opened
<1> QED
  BY <1>3, <1>4, <1>5, <1>6, GoingOnKeeps

LEMMA SubscribeKeeps ==
  ASSUME RealtimeInv, NEW c \in Client, NEW u \in Owner, NEW t \in Scope, Subscribe(c, u, t)
  PROVE  RealtimeInv'
<1> DEFINE q == [NoCall EXCEPT !.pc = "connect", !.user = u, !.tenant = t]
<1>1. q \in Talks /\ q.pc = "connect" /\ q.tenant = t /\ rt' = [rt EXCEPT ![c] = q]
  BY Blank DEF Subscribe, Talks
<1> HIDE DEF q
<1>2. /\ rt' \in [Client -> Talks] /\ rt'[c] = q
      /\ \A d \in Client \ {c} : rt'[d] = rt[d]
  BY <1>1, TalkChanges DEF RealtimeInv
<1>3. RealtimeTypeOK' /\ sub' = sub /\ reaper' = reaper
  BY <1>2, Shapes, ShapesAre DEF RealtimeInv, Subscribe
<1>4. ASSUME NEW b \in Scope
      PROVE  /\ IsFiniteSet(Listed(b)')
             /\ Cardinality(Listed(b)') + Cardinality(Opening(b)') < Budget + Cardinality(Client)
  <2>1. Listed(b)' = Listed(b)
    BY <1>3 DEF Listed
  <2>2. /\ IsFiniteSet(Listed(b)) /\ Cardinality(Listed(b)) \in Nat
        /\ Cardinality(Listed(b)) + Cardinality(Opening(b)) < Budget + Cardinality(Client)
    BY FS_CardinalityType DEF RealtimeInv, Bounded, CountForTable
  <2>3. CASE b # t
    <3>1. Opening(b)' = Opening(b)
      BY <1>1, <1>2, <2>3 DEF Opening, Subscribe, Standing, OpeningPc
    <3> QED
      BY <2>1, <2>2, <3>1
  <2>4. CASE b = t
    <3>1. Opening(b)' \subseteq Client
      BY DEF Opening
    <3>2. /\ Cardinality(Opening(b)') <= Cardinality(Client) /\ Cardinality(Client) \in Nat
          /\ Cardinality(Opening(b)') \in Nat
      BY <3>1, RealtimeAssumption, FS_Subset, FS_CardinalityType
    <3>3. Cardinality(Listed(b)) < Budget /\ Budget \in Nat
      BY <2>2, <2>4, RealtimeAssumption DEF Subscribe, Full, CountForTable
    <3> QED
      BY <2>1, <2>2, <3>2, <3>3
  <2> QED
    BY <2>3, <2>4
<1>5. Bounded'
  BY <1>4 DEF Bounded, CountForTable
<1>6. Opened' /\ Chosen' /\ AllPay' /\ DoomedAreOver'
  BY <1>1, <1>2, <1>3 DEF RealtimeInv, Opened, Chosen, AllPay, DoomedAreOver
<1> QED
  BY <1>3, <1>5, <1>6 DEF RealtimeInv

LEMMA HangKeeps ==
  ASSUME RealtimeInv, NEW c \in Client, Hang(c), UNCHANGED <<sub, reaper>>
  PROVE  RealtimeInv'
BY Blank, TalkKeeps DEF Hang, OpeningPc

LEMMA ConnectKeeps ==
  ASSUME RealtimeInv, NEW c \in Client, Connect(c)
  PROVE  RealtimeInv'
<1>1. CASE Hang(c) /\ UNCHANGED sub
  BY <1>1, HangKeeps DEF Connect
<1>2. CASE ~(Hang(c) /\ UNCHANGED sub)
  <2> DEFINE s == CHOOSE x \in Fresh : TRUE
             p == [Unused EXCEPT !.stage = "opening", !.user = rt[c].user,
                       !.tenant = rt[c].tenant, !.reading = TRUE, !.alive = TRUE]
             q == [rt[c] EXCEPT !.pc = "live", !.sub = s]
  <2>1. s \in Sub /\ sub[s].stage = "unused"
    BY <1>2 DEF Connect, Fresh
  <2>2. /\ sub' = [sub EXCEPT ![s] = p] /\ rt' = [rt EXCEPT ![c].pc = "live", ![c].sub = s]
        /\ reaper' = reaper /\ rt[c].pc = "connect"
    BY <1>2 DEF Connect, Standing
  <2>3. rt[c] \in Talks /\ rt \in [Client -> Talks]
    BY Shapes DEF RealtimeInv
  <2> HIDE DEF s
  <2>4. p \in Subs /\ p.stage = "opening" /\ p.tenant = rt[c].tenant /\ Pays(p)
    <3>1. Unused \in Subs /\ Unused.owed = FALSE
      BY Blank DEF Unused
    <3> QED
      BY <2>3, <3>1 DEF Subs, Talks, Pays
  <2> HIDE DEF p
  <2>5. q \in Talks /\ q.pc = "live" /\ q.sub = s /\ q.tenant = rt[c].tenant
    BY <2>1, <2>3 DEF Talks
  <2>6. rt' = [rt EXCEPT ![c] = q]
    BY <2>2, <2>3
  <2> HIDE DEF q
  <2>7. /\ sub' \in [Sub -> Subs] /\ sub'[s] = p
        /\ \A x \in Sub \ {s} : sub'[x] = sub[x]
    BY <2>1, <2>2, <2>4, SubChanges DEF RealtimeInv
  <2>8. /\ rt' \in [Client -> Talks] /\ rt'[c] = q
        /\ \A d \in Client \ {c} : rt'[d] = rt[d]
    BY <2>5, <2>6, TalkChanges DEF RealtimeInv
  <2>9. RealtimeTypeOK'
    BY <2>2, <2>7, <2>8, Shapes, ShapesAre DEF RealtimeInv
  <2>10. Bounded'
    BY <2>2, <2>4, <2>5, <2>7, <2>8, NotMore DEF OpeningPc
  <2>11. Opened'
    BY <2>1, <2>4, <2>5, <2>7, <2>8 DEF RealtimeInv, Opened
  <2>12. Chosen' /\ AllPay'
    BY <2>4, <2>5, <2>7, <2>8 DEF RealtimeInv, Chosen, AllPay
  <2>13. DoomedAreOver'
    <3>1. reaper.doomed \subseteq Sub
      BY Shapes DEF RealtimeInv
    <3>2. reaper.pc # "idle" => s \notin reaper.doomed
      BY <2>1 DEF RealtimeInv, DoomedAreOver
    <3> QED
      BY <2>2, <2>7, <3>1, <3>2 DEF RealtimeInv, DoomedAreOver
  <2> QED
    BY <2>9, <2>10, <2>11, <2>12, <2>13 DEF RealtimeInv
<1> QED
  BY <1>1, <1>2

LEMMA GoLiveKeeps ==
  ASSUME RealtimeInv, NEW c \in Client, GoLive(c)
  PROVE  RealtimeInv'
<1>1. CASE Hang(c) /\ UNCHANGED sub
  BY <1>1, HangKeeps DEF GoLive
<1>2. CASE ~(Hang(c) /\ UNCHANGED sub)
  <2> DEFINE s == rt[c].sub
             q == [rt[c] EXCEPT !.pc = "insert"]
  <2>1. rt[c].pc = "live" /\ reaper' = reaper
    BY DEF GoLive, Standing
  <2>2. s \in Sub /\ sub[s] \in Subs /\ rt[c] \in Talks
    BY <2>1, Shapes DEF RealtimeInv, Opened
  <2>3. PICK taken \in BOOLEAN :
          /\ sub' = [sub EXCEPT ![s].live = taken, ![s].owed = FALSE]
          /\ Move(c, "insert")
    BY <1>2 DEF GoLive
  <2> DEFINE p == [sub[s] EXCEPT !.live = taken, !.owed = FALSE]
  <2>4. q \in Talks /\ q.pc = "insert" /\ q.sub = rt[c].sub /\ q.tenant = rt[c].tenant
    BY <2>2 DEF Talks
  <2>5. rt' = [rt EXCEPT ![c] = q]
    BY <2>3 DEF Move
  <2> HIDE DEF q, s
  <2>6. sub' = [sub EXCEPT ![s] = p]
    BY <2>2, <2>3, Shapes DEF RealtimeInv, Subs
  <2>7. p \in Subs /\ p.stage = sub[s].stage /\ p.tenant = sub[s].tenant /\ p.alive = sub[s].alive
        /\ ~p.owed
    BY <2>2 DEF Subs
  <2>8. Pays(p)
    BY <2>7 DEF Pays
  <2> HIDE DEF p
  <2> QED
    BY <2>1, <2>2, <2>4, <2>5, <2>6, <2>7, <2>8, BothKeep DEF OpeningPc
<1> QED
  BY <1>1, <1>2

\* One more is listed, and one request fewer is opening.
LEMMA InsertKeeps ==
  ASSUME RealtimeInv, NEW c \in Client, Insert(c)
  PROVE  RealtimeInv'
<1> DEFINE s == rt[c].sub
           p == [sub[s] EXCEPT !.stage = "listed"]
<1>1. s \in Sub /\ rt[c].pc = "insert" /\ sub[s].tenant = rt[c].tenant /\ sub[s].stage # "unused"
  BY DEF Insert, Standing, RealtimeInv, Opened
<1>2. sub[s] \in Subs /\ rt[c] \in Talks
  BY <1>1, Shapes DEF RealtimeInv
<1> HIDE DEF s
<1>3. p \in Subs /\ p.stage = "listed" /\ p.tenant = rt[c].tenant /\ p.alive = sub[s].alive /\ Pays(p)
  BY <1>1, <1>2 DEF Subs, Pays, RealtimeInv, AllPay
<1>4. sub' = [sub EXCEPT ![s] = p] /\ rt' = [rt EXCEPT ![c] = NoCall] /\ reaper' = reaper
  BY DEF Insert, Hang, s
<1> HIDE DEF p
<1>5. /\ sub' \in [Sub -> Subs] /\ sub'[s] = p
      /\ \A x \in Sub \ {s} : sub'[x] = sub[x]
  BY <1>1, <1>3, <1>4, SubChanges DEF RealtimeInv
<1>6. /\ rt' \in [Client -> Talks] /\ rt'[c] = NoCall
      /\ \A d \in Client \ {c} : rt'[d] = rt[d]
  BY <1>4, Blank, TalkChanges DEF RealtimeInv
<1>7. RealtimeTypeOK'
  BY <1>4, <1>5, <1>6, Shapes, ShapesAre DEF RealtimeInv
<1>8. ASSUME NEW t \in Scope
      PROVE  /\ IsFiniteSet(Listed(t)')
             /\ Cardinality(Listed(t)') + Cardinality(Opening(t)') < Budget + Cardinality(Client)
  <2>1. /\ IsFiniteSet(Listed(t)) /\ Cardinality(Listed(t)) \in Nat
        /\ Cardinality(Listed(t)) + Cardinality(Opening(t)) < Budget + Cardinality(Client)
    BY FS_CardinalityType DEF RealtimeInv, Bounded, CountForTable
  <2>2. /\ IsFiniteSet(Opening(t)) /\ Cardinality(Opening(t)) \in Nat
        /\ IsFiniteSet(Client) /\ Cardinality(Client) \in Nat /\ Budget \in Nat
    <3>1. Opening(t) \subseteq Client
      BY DEF Opening
    <3> QED
      BY <3>1, RealtimeAssumption, FS_Subset, FS_CardinalityType
  <2>3. CASE rt[c].tenant = t
    <3>1. Listed(t)' = Listed(t) \cup {s}
      BY <1>1, <1>3, <1>5, <2>3 DEF Listed
    <3>2. c \in Opening(t) /\ Opening(t)' = Opening(t) \ {c}
      BY <1>1, <1>6, <2>3, Blank DEF Opening, OpeningPc
    <3>3. /\ IsFiniteSet(Listed(t) \cup {s})
          /\ Cardinality(Listed(t) \cup {s}) <= Cardinality(Listed(t)) + 1
          /\ Cardinality(Listed(t) \cup {s}) \in Nat
      <4>1. /\ IsFiniteSet(Listed(t) \cup {s})
            /\ Cardinality(Listed(t) \cup {s}) =
                 IF s \in Listed(t) THEN Cardinality(Listed(t)) ELSE Cardinality(Listed(t)) + 1
        BY <2>1, FS_AddElement
      <4> QED
        BY <2>1, <4>1
    <3>4. Cardinality(Opening(t) \ {c}) = Cardinality(Opening(t)) - 1
      BY <2>2, <3>2, FS_RemoveElement
    <3> QED
      BY <2>1, <2>2, <3>1, <3>2, <3>3, <3>4
  <2>4. CASE rt[c].tenant # t
    <3>1. Listed(t)' = Listed(t)
      BY <1>1, <1>3, <1>5, <2>4 DEF Listed
    <3>2. Opening(t)' = Opening(t)
      BY <1>1, <1>6, <2>4, Blank DEF Opening, OpeningPc
    <3> QED
      BY <2>1, <3>1, <3>2
  <2> QED
    BY <2>3, <2>4
<1>9. Bounded'
  BY <1>8 DEF Bounded, CountForTable
<1>10. Opened' /\ Chosen' /\ AllPay'
  BY <1>1, <1>3, <1>5, <1>6, Blank DEF RealtimeInv, Opened, Chosen, AllPay
<1>11. DoomedAreOver'
  <2>1. reaper.doomed \subseteq Sub
    BY Shapes DEF RealtimeInv
  <2> QED
    BY <1>3, <1>4, <1>5, <2>1 DEF RealtimeInv, DoomedAreOver
<1> QED
  BY <1>7, <1>9, <1>10, <1>11 DEF RealtimeInv

LEMMA OfSub ==
  ASSUME RealtimeInv, NEW s \in Sub
  PROVE  sub[s] \in Subs /\ Pays(sub[s]) /\ BufferCap \in Nat \ {0}
BY Shapes, RealtimeAssumption DEF RealtimeInv, AllPay

LEMMA ChangeKeeps ==
  ASSUME RealtimeInv, NEW s \in Sub, Change(s)
  PROVE  RealtimeInv'
<1> DEFINE p == [sub[s] EXCEPT !.coming = sub[s].live, !.owed = TRUE]
<1>1. /\ p \in Subs /\ p.stage = sub[s].stage /\ p.tenant = sub[s].tenant /\ p.alive = sub[s].alive
      /\ p.live = sub[s].live /\ p.coming = sub[s].live
  BY OfSub DEF Subs
<1>2. sub' = [sub EXCEPT ![s] = p] /\ UNCHANGED <<rt, reaper>>
  BY OfSub DEF Change
<1>3. Pays(p)
  BY <1>1 DEF Pays
<1> HIDE DEF p
<1> QED
  BY <1>1, <1>2, <1>3, SubKeeps

LEMMA NotifyKeeps ==
  ASSUME RealtimeInv, NEW s \in Sub, Notify(s)
  PROVE  RealtimeInv'
<1> DEFINE p == [sub[s] EXCEPT !.coming = FALSE, !.ticks = Buffered(@)]
<1>1. Buffered(sub[s].ticks) \in 0 .. BufferCap /\ Buffered(sub[s].ticks) > 0
  BY OfSub DEF Subs, Buffered
<1>2. /\ p \in Subs /\ p.stage = sub[s].stage /\ p.tenant = sub[s].tenant /\ p.alive = sub[s].alive
      /\ p.ticks = Buffered(sub[s].ticks)
  BY <1>1, OfSub DEF Subs
<1>3. sub' = [sub EXCEPT ![s] = p] /\ UNCHANGED <<rt, reaper>>
  BY OfSub DEF Notify
<1> HIDE DEF p
<1>4. Pays(p)
  BY <1>1, <1>2 DEF Pays
<1> QED
  BY <1>2, <1>3, <1>4, SubKeeps

LEMMA DieKeeps ==
  ASSUME RealtimeInv, NEW s \in Sub, Die(s)
  PROVE  RealtimeInv'
<1> DEFINE p == [sub[s] EXCEPT !.reading = FALSE, !.alive = FALSE, !.coming = FALSE]
<1>1. p \in Subs /\ p.stage = sub[s].stage /\ p.tenant = sub[s].tenant /\ ~p.alive /\ Pays(p)
  BY OfSub DEF Subs, Pays
<1>2. sub' = [sub EXCEPT ![s] = p] /\ UNCHANGED <<rt, reaper>>
  BY OfSub DEF Die
<1> HIDE DEF p
<1> QED
  BY <1>1, <1>2, SubKeeps

LEMMA GrowIdleKeeps ==
  ASSUME RealtimeInv, NEW s \in Sub, GrowIdle(s)
  PROVE  RealtimeInv'
<1> DEFINE p == [sub[s] EXCEPT !.idle = TRUE]
<1>1. /\ p \in Subs /\ p.stage = sub[s].stage /\ p.tenant = sub[s].tenant /\ p.alive = sub[s].alive
      /\ Pays(p)
  BY OfSub DEF Subs, Pays
<1>2. sub' = [sub EXCEPT ![s] = p] /\ UNCHANGED <<rt, reaper>>
  BY OfSub DEF GrowIdle
<1> HIDE DEF p
<1> QED
  BY <1>1, <1>2, SubKeeps

LEMMA PollKeeps ==
  ASSUME RealtimeInv, NEW c \in Client, NEW u \in Owner, NEW s \in Sub, Poll(c, u, s)
  PROVE  RealtimeInv'
<1> DEFINE p == [sub[s] EXCEPT !.idle = FALSE]
           q == [NoCall EXCEPT !.pc = PollOrder[1], !.sub = s, !.user = u]
<1>1. /\ p \in Subs /\ p.stage = sub[s].stage /\ p.tenant = sub[s].tenant /\ p.alive = sub[s].alive
      /\ Pays(p)
  BY OfSub DEF Subs, Pays
<1>2. PollOrder[1] = "take"
  BY DEF PollOrder
<1>3. q \in Talks /\ q.pc = "take" /\ q.sub = s
  BY <1>2, Blank DEF Talks
<1>4. sub' = [sub EXCEPT ![s] = p] /\ rt' = [rt EXCEPT ![c] = q] /\ reaper' = reaper
  BY OfSub DEF Poll
<1> HIDE DEF p, q
<1> QED
  BY <1>1, <1>3, <1>4, BothKeep DEF OpeningPc

LEMMA TakeKeeps ==
  ASSUME RealtimeInv, NEW c \in Client, Take(c)
  PROVE  RealtimeInv'
<1> DEFINE s == rt[c].sub
           owes == sub[s].owed /\ sub[s].ticks = 0
           p == [sub[s] EXCEPT !.ticks = 0, !.owed = owes]
           q == [rt[c] EXCEPT !.pc = After("take"), !.taken = sub[s].ticks]
<1>1. s \in Sub /\ rt[c].pc = "take" /\ rt[c] \in Talks
  BY Shapes DEF Take, Standing, RealtimeInv, Chosen
<1>2. sub' = [sub EXCEPT ![s] = p] /\ rt' = [rt EXCEPT ![c] = q] /\ reaper' = reaper
  BY <1>1, OfSub DEF Take
<1> HIDE DEF s
<1>3. /\ p \in Subs /\ p.stage = sub[s].stage /\ p.tenant = sub[s].tenant /\ p.alive = sub[s].alive
      /\ p.ticks = 0 /\ p.coming = sub[s].coming /\ p.owed = owes /\ p.live = sub[s].live
  <2>1. owes \in BOOLEAN /\ sub[s] \in Subs /\ 0 \in 0 .. BufferCap
    BY <1>1, OfSub
  <2> HIDE DEF owes
  <2> QED
    BY <2>1 DEF Subs
<1>4. After("take") = "alive"
  BY DEF After, PollOrder
<1>5. q \in Talks /\ q.pc = "alive" /\ q.sub = s
  BY <1>1, <1>4, OfSub DEF Talks, Subs, s
<1>6. Pays(p)
  BY <1>1, <1>3, OfSub DEF Pays
<1> HIDE DEF p, q
<1> QED
  BY <1>1, <1>2, <1>3, <1>5, <1>6, BothKeep DEF OpeningPc

LEMMA ReadAliveKeeps ==
  ASSUME RealtimeInv, NEW c \in Client, ReadAlive(c)
  PROVE  RealtimeInv'
<1> DEFINE q == [rt[c] EXCEPT !.pc = After("alive"), !.up = sub[rt[c].sub].alive]
<1>1. rt[c].sub \in Sub /\ rt[c].pc = "alive" /\ rt[c] \in Talks
  BY Shapes DEF ReadAlive, Standing, RealtimeInv, Chosen
<1>2. rt' = [rt EXCEPT ![c] = q] /\ UNCHANGED <<sub, reaper>>
  BY <1>1 DEF ReadAlive
<1>3. After("alive") = "answer" /\ sub[rt[c].sub].alive \in BOOLEAN
  BY <1>1, OfSub DEF After, PollOrder, Subs
<1>4. q \in Talks /\ q.pc = "answer"
  BY <1>1, <1>3 DEF Talks
<1> HIDE DEF q
<1> QED
  BY <1>2, <1>4, TalkKeeps DEF OpeningPc

LEMMA UnsubscribeKeeps ==
  ASSUME RealtimeInv, NEW c \in Client, NEW u, NEW s \in Sub, Unsubscribe(c, u, s)
  PROVE  RealtimeInv'
<1> DEFINE p == [sub[s] EXCEPT !.stage = "gone"]
           q == [NoCall EXCEPT !.pc = "close", !.sub = s]
<1>1. p \in Subs /\ p.stage = "gone" /\ p.tenant = sub[s].tenant /\ p.alive = sub[s].alive /\ Pays(p)
  BY OfSub DEF Subs, Pays
<1>2. q \in Talks /\ q.pc = "close" /\ q.sub = s
  BY Blank DEF Talks
<1>3. /\ sub' = [sub EXCEPT ![s] = p] /\ rt' = [rt EXCEPT ![c] = q] /\ reaper' = reaper
      /\ sub[s].stage = "listed"
  BY OfSub DEF Unsubscribe
<1> HIDE DEF p, q
<1> QED
  BY <1>1, <1>2, <1>3, BothKeep DEF OpeningPc

LEMMA CloseKeeps ==
  ASSUME RealtimeInv, NEW c \in Client, Close(c)
  PROVE  RealtimeInv'
<1> DEFINE s == rt[c].sub
           p == [sub[s] EXCEPT !.alive = FALSE]
<1>1. s \in Sub
  BY DEF Close, Standing, RealtimeInv, Chosen
<1>2. sub' = [sub EXCEPT ![s] = p] /\ rt' = [rt EXCEPT ![c] = NoCall] /\ reaper' = reaper
  BY <1>1, OfSub DEF Close, Hang
<1> HIDE DEF s
<1>3. p \in Subs /\ p.stage = sub[s].stage /\ p.tenant = sub[s].tenant /\ ~p.alive /\ Pays(p)
  BY <1>1, OfSub DEF Subs, Pays
<1> HIDE DEF p
<1> QED
  BY <1>1, <1>2, <1>3, Blank, BothKeep DEF OpeningPc

LEMMA ReapingKeeps ==
  ASSUME RealtimeInv, Reaping
  PROVE  RealtimeInv'
<1>1. CASE Survey
  <2>1. reaper' = [pc |-> "close", doomed |-> {s \in Sub : sub[s].stage = "listed" /\ Doomed(s)}]
        /\ UNCHANGED <<sub, rt>>
    BY <1>1 DEF Survey
  <2>2. /\ reaper'.pc = "close" /\ \A s \in reaper'.doomed : s \in Sub /\ sub'[s].stage # "unused"
        /\ reaper' \in [pc : {"idle", "close", "drain"}, doomed : SUBSET Sub]
    BY <2>1
  <2>3. RealtimeTypeOK'
    BY <2>1, <2>2, Shapes, ShapesAre DEF RealtimeInv
  <2>4. SubsGoOn /\ TalksGoOn /\ \A c \in Client : Private(c)
    BY <2>1 DEF SubsGoOn, TalksGoOn, Private, RealtimeInv, AllPay, Chosen
  <2> QED
    BY <2>2, <2>3, <2>4, GoingOnKeeps
<1>2. CASE Reap
  <2>1. /\ sub' = [s \in Sub |-> IF s \in reaper.doomed
               THEN [sub[s] EXCEPT !.stage = "gone", !.alive = FALSE] ELSE sub[s]]
        /\ reaper' = [reaper EXCEPT !.pc = "drain"] /\ rt' = rt /\ reaper.pc = "close"
    BY <1>2 DEF Reap
  <2>2. \A s \in Sub : s \in reaper.doomed =>
          /\ sub[s] \in Subs /\ sub'[s] \in Subs
          /\ sub'[s].stage = "gone" /\ ~sub'[s].alive /\ sub'[s].tenant = sub[s].tenant
          /\ sub[s].stage # "unused"
    BY <2>1, OfSub DEF Subs, RealtimeInv, DoomedAreOver
  <2>3. \A s \in Sub : s \notin reaper.doomed => sub'[s] = sub[s] /\ sub[s] \in Subs
    BY <2>1, OfSub
  <2>4. reaper' \in [pc : {"idle", "close", "drain"}, doomed : SUBSET Sub] /\ reaper'.pc = "drain"
        /\ reaper'.doomed = reaper.doomed /\ reaper.doomed \subseteq Sub
    BY <2>1, Shapes DEF RealtimeInv
  <2>5. sub' \in [Sub -> Subs]
    <3>1. \A s \in Sub : sub'[s] \in Subs
      BY <2>2, <2>3
    <3> QED
      BY <2>1, <3>1
  <2>6. RealtimeTypeOK'
    BY <2>1, <2>4, <2>5, Shapes, ShapesAre DEF RealtimeInv
  <2>7. SubsGoOn
    BY <2>2, <2>3 DEF SubsGoOn, Pays, RealtimeInv, AllPay
  <2>8. TalksGoOn /\ \A c \in Client : Private(c)
    BY <2>1, <2>2, <2>3 DEF TalksGoOn, Private, RealtimeInv, Chosen, Opened
  <2> QED
    BY <2>2, <2>4, <2>6, <2>7, <2>8, GoingOnKeeps
<1>3. CASE DropTicks
  <2>1. /\ sub' = [s \in Sub |-> IF s \in reaper.doomed
               THEN [sub[s] EXCEPT !.ticks = 0] ELSE sub[s]]
        /\ reaper' = [pc |-> "idle", doomed |-> {}] /\ rt' = rt /\ reaper.pc = "drain"
    BY <1>3 DEF DropTicks
  <2>2. \A s \in Sub : s \in reaper.doomed =>
          /\ sub[s] \in Subs /\ sub'[s] \in Subs
          /\ sub'[s].stage = sub[s].stage /\ ~sub'[s].alive /\ sub'[s].tenant = sub[s].tenant
    BY <2>1, OfSub DEF Subs, RealtimeInv, DoomedAreOver
  <2>3. \A s \in Sub : s \notin reaper.doomed => sub'[s] = sub[s] /\ sub[s] \in Subs
    BY <2>1, OfSub
  <2>4. reaper' \in [pc : {"idle", "close", "drain"}, doomed : SUBSET Sub] /\ reaper'.pc = "idle"
    BY <2>1
  <2>5. sub' \in [Sub -> Subs]
    <3>1. \A s \in Sub : sub'[s] \in Subs
      BY <2>2, <2>3
    <3> QED
      BY <2>1, <3>1
  <2>6. RealtimeTypeOK'
    BY <2>1, <2>4, <2>5, Shapes, ShapesAre DEF RealtimeInv
  <2>7. SubsGoOn
    BY <2>2, <2>3 DEF SubsGoOn, Pays, RealtimeInv, AllPay
  <2>8. TalksGoOn /\ \A c \in Client : Private(c)
    BY <2>1, <2>2, <2>3 DEF TalksGoOn, Private, RealtimeInv, Chosen, Opened
  <2> QED
    BY <2>4, <2>6, <2>7, <2>8, GoingOnKeeps
<1> QED
  BY <1>1, <1>2, <1>3 DEF Reaping

LEMMA ForgetSubscriptionsKeeps ==
  ASSUME RealtimeInv, ForgetSubscriptions
  PROVE  RealtimeInv'
<1>1. /\ sub' = [s \in Sub |-> IF sub[s].stage = "unused" THEN Unused
                              ELSE [Unused EXCEPT !.stage = "gone"]]
      /\ rt' = [c \in Client |-> NoCall] /\ reaper' = [pc |-> "idle", doomed |-> {}]
  BY DEF ForgetSubscriptions
<1>2. /\ [Unused EXCEPT !.stage = "gone"] \in Subs
      /\ [Unused EXCEPT !.stage = "gone"].stage = "gone"
      /\ [Unused EXCEPT !.stage = "gone"].alive = FALSE
  BY Blank DEF Subs
<1>3. \A s \in Sub : /\ sub'[s] \in Subs /\ ~sub'[s].alive
                     /\ sub'[s].stage = IF sub[s].stage = "unused" THEN "unused" ELSE "gone"
  BY <1>1, <1>2, Blank
<1>4. sub' \in [Sub -> Subs] /\ rt' \in [Client -> Talks]
      /\ reaper' \in [pc : {"idle", "close", "drain"}, doomed : SUBSET Sub] /\ reaper'.pc = "idle"
  BY <1>1, <1>3, Blank
<1>5. RealtimeTypeOK'
  BY <1>4, ShapesAre
<1>6. SubsGoOn
  BY <1>3 DEF SubsGoOn, Pays
<1>7. TalksGoOn
  BY <1>1, Blank DEF TalksGoOn, OpeningPc
<1>8. Bounded'
  BY <1>6, <1>7, NotMore DEF SubsGoOn, TalksGoOn
<1>9. Opened' /\ Chosen' /\ AllPay' /\ DoomedAreOver'
  BY <1>1, <1>3, <1>4, Blank DEF Opened, Chosen, AllPay, Pays, DoomedAreOver
<1> QED
  BY <1>5, <1>8, <1>9 DEF RealtimeInv

RealtimeRests == UNCHANGED realtimeVars

LEMMA RealtimeRestKeeps ==
  ASSUME RealtimeInv, RealtimeRests
  PROVE  RealtimeInv'
<1>1. UNCHANGED <<sub, rt, reaper>>
  BY DEF RealtimeRests, realtimeVars
<1>2. RealtimeTypeOK'
  BY <1>1, Shapes, ShapesAre DEF RealtimeInv
<1>3. SubsGoOn /\ TalksGoOn /\ \A c \in Client : Private(c)
  BY <1>1 DEF SubsGoOn, TalksGoOn, Private, RealtimeInv, AllPay, Chosen
<1> QED
  BY <1>1, <1>2, <1>3, GoingOnKeeps

LEMMA ConverseKeeps ==
  ASSUME RealtimeInv, NEW w \in Worker, RealtimeStep(w)
  PROVE  RealtimeInv'
<1>1. w \in Client
  BY ServingAssumption
<1>2. CASE Reply(w)
  BY <1>1, <1>2, HangKeeps DEF Reply
<1> QED
  BY <1>1, <1>2, ConnectKeeps, GoLiveKeeps, InsertKeeps, TakeKeeps, ReadAliveKeeps, CloseKeeps
  DEF RealtimeStep

\* The requests that reach the subscriptions come from an authenticated owner.
LEMMA DispatchKeepsRealtime ==
  ASSUME RealtimeInv, SessionInv, NEW w \in Worker, Dispatch(w)
  PROVE  RealtimeInv'
<1>1. w \in Client /\ Owner = User /\ Scope = Tenant
  BY ServingAssumption
<1>2. CASE Verb(w) \/ SessionJwt(w)
  BY <1>2, RealtimeRestKeeps DEF Verb, SessionJwt, RealtimeRests
<1>3. CASE SubscribeRequest(w)
  <2>1. req[w].user \in Owner /\ req[w].tenant \in Scope
    BY <1>1, <1>3 DEF SubscribeRequest, At, SessionInv, RequestShape
  <2>2. CASE Subscribe(w, req[w].user, req[w].tenant)
    BY <1>1, <2>1, <2>2, SubscribeKeeps
  <2>3. CASE OverBudget(req[w].tenant)
    BY <2>3, RealtimeRestKeeps DEF OverBudget, RealtimeRests
  <2> QED
    BY <1>3, <2>2, <2>3 DEF SubscribeRequest
<1>4. ASSUME NEW s \in Sub, Foreign(w, s) PROVE RealtimeInv'
  BY <1>4, RealtimeRestKeeps DEF Foreign, RealtimeRests
<1>5. CASE EventsRequest(w)
  <2>1. req[w].user \in Owner
    BY <1>1, <1>5 DEF EventsRequest, Dispatched, At, SessionInv, RequestShape
  <2> QED
    BY <1>1, <1>4, <1>5, <2>1, PollKeeps DEF EventsRequest
<1>6. CASE UnsubscribeRequest(w)
  BY <1>1, <1>4, <1>6, UnsubscribeKeeps DEF UnsubscribeRequest
<1> QED
  BY <1>2, <1>3, <1>5, <1>6 DEF Dispatch

LEMMA NextKeepsRealtime ==
  ASSUME RealtimeInv, SessionInv, [Next]_vars
  PROVE  RealtimeInv'
<1>1. ASSUME NEW w \in Worker, Converse(w) PROVE RealtimeInv'
  BY <1>1, ConverseKeeps DEF Converse
<1>2. ASSUME NEW w \in Worker, LoginRequest(w) \/ Request(w) \/ Authenticate(w)
      PROVE  RealtimeRests
  BY <1>2 DEF LoginRequest, Request, Authenticate, InSessions, RealtimeRests
<1>3. CASE Maintenance
  BY <1>3, ReapingKeeps DEF Maintenance
<1>4. CASE Connections
  BY <1>4, ChangeKeeps, DieKeeps DEF Connections
<1>5. ASSUME NEW s \in Sub, Delivery(s) PROVE RealtimeInv'
  BY <1>5, NotifyKeeps DEF Delivery
<1>6. ASSUME NEW s \in Sub, Idling(s) PROVE RealtimeInv'
  BY <1>6, GrowIdleKeeps DEF Idling
<1>7. ASSUME Enqueue \/ Clock \/ RootTraffic \/ Removal \/ Failure PROVE RealtimeRests
  BY <1>7 DEF Enqueue, Clock, RootTraffic, Removal, Failure,
              InSessions, InFairness, InRoot, RealtimeRests
<1>8. ASSUME NEW d \in Drainer, Drain(d) PROVE RealtimeRests
  BY <1>8 DEF Drain, InFairness, RealtimeRests
<1>9. ASSUME NEW w \in Thread, Metadata(w) \/ Manage(w) PROVE RealtimeRests
  BY <1>9 DEF Metadata, Manage, InMetadata, RealtimeRests
<1>10. ASSUME NEW c \in Caller, AsRoot(c) PROVE RealtimeRests
  BY <1>10 DEF AsRoot, InRoot, RealtimeRests
<1>11. ASSUME NEW k \in Tenant \X Secret, Expiry(k) PROVE RealtimeRests
  BY <1>11 DEF Expiry, InSessions, RealtimeRests
<1>12. CASE Restart
  BY <1>12, ForgetSubscriptionsKeeps DEF Restart
<1>13. ASSUME UNCHANGED vars PROVE RealtimeRests
  BY <1>13 DEF vars, RealtimeRests
<1> QED
  BY <1>1, <1>2, <1>3, <1>4, <1>5, <1>6, <1>7, <1>8, <1>9, <1>10, <1>11, <1>12, <1>13,
     DispatchKeepsRealtime, RealtimeRestKeeps DEF Next

LEMMA InitIsQuiet ==
  ASSUME Init
  PROVE  RealtimeInv
<1>1. /\ sub = [s \in Sub |-> Unused] /\ rt = [c \in Client |-> NoCall]
      /\ reaper = [pc |-> "idle", doomed |-> {}]
  BY DEF Init, RealtimeInit
<1>2. RealtimeTypeOK
  BY <1>1, Blank DEF RealtimeTypeOK, Subs, Talks
<1>3. ASSUME NEW t \in Scope
      PROVE  /\ IsFiniteSet(Listed(t))
             /\ Cardinality(Listed(t)) + Cardinality(Opening(t)) < Budget + Cardinality(Client)
  <2>1. Listed(t) = {} /\ Opening(t) = {}
    BY <1>1, Blank DEF Listed, Opening, OpeningPc
  <2>2. Budget \in Nat \ {0} /\ Cardinality(Client) \in Nat
    BY RealtimeAssumption, FS_CardinalityType
  <2> QED
    BY <2>1, <2>2, FS_EmptySet
<1>4. Bounded
  BY <1>3 DEF Bounded, CountForTable
<1>5. Opened /\ Chosen /\ AllPay /\ DoomedAreOver
  BY <1>1, Blank DEF Opened, Chosen, AllPay, DoomedAreOver
<1> QED
  BY <1>2, <1>4, <1>5 DEF RealtimeInv

THEOREM RealtimeInvariant == Spec => []RealtimeInv
<1>1. RealtimeInv /\ SessionInv /\ [Next]_vars => RealtimeInv'
  BY NextKeepsRealtime
<1> QED
  BY <1>1, InitIsQuiet, SessionsInvariant, PTL DEF Spec

\* The requests that pass the check of a budget together exceed it by fewer than there are
\* request threads, for any number of threads, subscriptions and restarts (realtime.rs:103).
THEOREM OverrunsAreBounded == Spec => []OverrunBounded
<1>1. ASSUME RealtimeInv PROVE OverrunBounded
  <2>1. ASSUME NEW t \in Scope PROVE CountForTable(t) < Budget + Cardinality(Client)
    <3>1. /\ CountForTable(t) \in Nat
          /\ CountForTable(t) + Cardinality(Opening(t)) < Budget + Cardinality(Client)
      BY <1>1, FS_CardinalityType DEF RealtimeInv, Bounded, CountForTable
    <3>2. Opening(t) \subseteq Client
      BY DEF Opening
    <3>3. Cardinality(Opening(t)) \in Nat /\ Cardinality(Client) \in Nat /\ Budget \in Nat
      BY <3>2, RealtimeAssumption, FS_Subset, FS_CardinalityType
    <3> QED
      BY <3>1, <3>3
  <2> QED
    BY <2>1 DEF OverrunBounded
<1> QED
  BY <1>1, RealtimeInvariant, PTL

\* A poll reads whether the connection lives after it took the ticks, so that an answer
\* `no events, alive` leaves what is owed to the next poll (drain, realtime.rs:171).
THEOREM QuietPollsHideNothing == Spec => QuietHidesNothing
<1>1. ASSUME RealtimeInv, SessionInv, [Next]_vars,
             NEW c \in Client, NEW s \in {rt[c].sub} \cap Sub,
             ~Standing(c, "answer"), rt'[c].pc = "answer", rt'[c].up,
             sub'[s].live, sub'[s].owed
      PROVE  sub'[s].coming \/ sub'[s].ticks > 0
  <2>1. CASE ReadAlive(c)
    <3>1. sub' = sub /\ rt'[c].up = sub[s].alive
      BY <1>1, <2>1, Shapes DEF ReadAlive, RealtimeInv, Talks
    <3> QED
      BY <1>1, <3>1 DEF RealtimeInv, AllPay, Pays
  <2>2. CASE ~ReadAlive(c)
    <3>1. rt \in [Client -> Talks] /\ NoCall.pc = "idle" /\ PollOrder[1] = "take" /\ After("take") = "alive"
      BY <1>1, Shapes, Blank DEF RealtimeInv, PollOrder, After
    <3>2. ASSUME NEW d \in Client, RealtimeStep(d) PROVE FALSE
      <4>1. CASE d = c
        <5>1. CASE GoLive(c)
          <6>1. rt' = [rt EXCEPT ![c] = NoCall] \/ rt' = [rt EXCEPT ![c].pc = "insert"]
            BY <5>1 DEF GoLive, Hang, Move
          <6>2. rt'[c].pc \in {"idle", "insert"}
            BY <3>1, <6>1 DEF Talks
          <6> QED
            BY <1>1, <6>2
        <5>2. CASE ~GoLive(c)
          BY <1>1, <2>2, <3>1, <3>2, <4>1, <5>2 DEF RealtimeStep, Connect, Insert, Take, Reply, Close,
             Hang, Talks
        <5> QED
          BY <5>1, <5>2
      <4>2. CASE d # c
        BY <1>1, <3>1, <3>2, <4>2 DEF RealtimeStep, Connect, GoLive, Insert, Take, ReadAlive, Reply, Close,
           Hang, Move, Standing
      <4> QED
        BY <4>1, <4>2
    <3>3. ASSUME NEW d \in Client, NEW u, NEW t, Subscribe(d, u, t) PROVE FALSE
      BY <1>1, <3>1, <3>3, Blank DEF Subscribe, Standing, Talks
    <3>4. ASSUME NEW d \in Client, NEW u, NEW x \in Sub, Poll(d, u, x) \/ Unsubscribe(d, u, x) PROVE FALSE
      <4>1. /\ [NoCall EXCEPT !.pc = "take", !.sub = x, !.user = u].pc = "take"
            /\ [NoCall EXCEPT !.pc = "close", !.sub = x].pc = "close"
        BY Blank DEF Talks
      <4>2. \/ rt' = [rt EXCEPT ![d] = [NoCall EXCEPT !.pc = "take", !.sub = x, !.user = u]]
            \/ rt' = [rt EXCEPT ![d] = [NoCall EXCEPT !.pc = "close", !.sub = x]]
        BY <3>1, <3>4 DEF Poll, Unsubscribe
      <4> QED
        BY <1>1, <3>1, <4>1, <4>2 DEF Standing
    <3>5. ASSUME rt' = rt PROVE FALSE
      BY <1>1, <3>5 DEF Standing
    <3>6. ASSUME NEW w \in Worker,
                 LoginRequest(w) \/ Request(w) \/ Authenticate(w) \/ Verb(w) \/ SessionJwt(w)
          PROVE  rt' = rt
      BY <3>6 DEF LoginRequest, Request, Authenticate, Verb, SessionJwt, InSessions, realtimeVars
    <3>7. ASSUME NEW w \in Worker,
                 SubscribeRequest(w) \/ EventsRequest(w) \/ UnsubscribeRequest(w)
          PROVE  FALSE
      BY <3>3, <3>4, <3>5, <3>7, ServingAssumption
      DEF SubscribeRequest, EventsRequest, UnsubscribeRequest, OverBudget, Foreign, realtimeVars
    <3>8. ASSUME NEW w \in Worker, Converse(w) PROVE FALSE
      BY <3>2, <3>8, ServingAssumption DEF Converse
    <3>9. ASSUME Maintenance \/ Connections PROVE rt' = rt
      BY <3>9 DEF Maintenance, Connections, Reaping, Survey, Reap, DropTicks, Change, Die
    <3>10. ASSUME NEW x \in Sub, Delivery(x) \/ Idling(x) PROVE rt' = rt
      BY <3>10 DEF Delivery, Idling, Notify, GrowIdle
    <3>11. ASSUME Enqueue \/ Clock \/ RootTraffic \/ Removal \/ Failure PROVE rt' = rt
      BY <3>11 DEF Enqueue, Clock, RootTraffic, Removal, Failure,
                   InSessions, InFairness, InRoot, realtimeVars
    <3>12. ASSUME NEW d \in Drainer, Drain(d) PROVE rt' = rt
      BY <3>12 DEF Drain, InFairness, realtimeVars
    <3>13. ASSUME NEW w \in Thread, Metadata(w) \/ Manage(w) PROVE rt' = rt
      BY <3>13 DEF Metadata, Manage, InMetadata, realtimeVars
    <3>14. ASSUME NEW d \in Caller, AsRoot(d) PROVE rt' = rt
      BY <3>14 DEF AsRoot, InRoot, realtimeVars
    <3>15. ASSUME NEW k \in Tenant \X Secret, Expiry(k) PROVE rt' = rt
      BY <3>15 DEF Expiry, InSessions, realtimeVars
    <3>16. ASSUME Restart PROVE FALSE
      BY <1>1, <3>1, <3>16 DEF Restart, ForgetSubscriptions
    <3>17. ASSUME UNCHANGED vars PROVE rt' = rt
      BY <3>17 DEF vars, realtimeVars
    <3> QED
      BY <1>1, <3>5, <3>6, <3>7, <3>8, <3>9, <3>10, <3>11, <3>12, <3>13, <3>14, <3>15, <3>16, <3>17
      DEF Next, Dispatch
  <2> QED
    BY <2>1, <2>2
<1>2. RealtimeInv /\ SessionInv /\ [Next]_vars =>
        [\A c \in Client : \A s \in {rt[c].sub} \cap Sub :
           ~Standing(c, "answer") /\ rt'[c].pc = "answer" /\ rt'[c].taken = 0 /\ rt'[c].up
             /\ sub'[s].live /\ sub'[s].owed => sub'[s].coming \/ sub'[s].ticks > 0]_realtimeVars
  BY <1>1
<1> QED
  BY <1>2, RealtimeInvariant, SessionsInvariant, PTL DEF Spec, QuietHidesNothing
=============================================================================
