--------------------------- MODULE JobQueueProofs ---------------------------
(***************************************************************************)
(* Theorems about JobQueue, for every number of jobs, workers, attempts,    *)
(* lease ticks and faults: its invariants, and that it implements the job  *)
(* ledger.                                                                 *)
(***************************************************************************)
EXTENDS JobQueue, TLAPS

USE DEF Terminal, Source, NoLease, NoToken, NoClaim, Row, NoRow, Holding

\* What a settlement leaves of a row, and what a claim makes of it.
LEMMA ReleasedRow ==
  ASSUME NEW row \in Row, NEW s \in {"queued"} \cup Terminal
  PROVE  /\ Released(row, s) \in Row
         /\ Released(row, s).status = s
         /\ Released(row, s).token = NoToken
         /\ Released(row, s).lease = NoLease
         /\ Released(row, s).attempts = row.attempts
  BY BoundsAssumption, NamesAssumption DEF Released

\* A claim stamps the row with the next token and counts the attempt (claim_sql).
LEMMA ClaimedRow ==
  ASSUME issued \in Nat, NEW w \in Worker, NEW row \in Row, row.attempts < MaxAttempts
  PROVE  /\ Claimed(row, w) \in Row
         /\ Claimed(row, w).status = "running"
         /\ Claimed(row, w).token = issued + 1
         /\ Claimed(row, w).attempts = row.attempts + 1
  BY BoundsAssumption, NamesAssumption DEF Claimed

\* The first state satisfies every part.
LEMMA InitInv == Init => IInv
<1> SUFFICES ASSUME Init PROVE IInv
  OBVIOUS
<1> USE BoundsAssumption, NamesAssumption DEF Init
<1>1. TypeOK
  BY DEF TypeOK
<1>2. RowShape /\ SettledJustified /\ DocsWithinRuns
  BY DEF RowShape, SettledJustified, DocsWithinRuns
<1>3. ClaimShape /\ ClaimsDistinct /\ RunShape
  BY DEF ClaimShape, ClaimsDistinct, RunShape
<1> QED
  BY <1>1, <1>2, <1>3 DEF IInv

\* enqueue_inner: no worker holds a job that is not there yet.
LEMMA EnqueueInv == ASSUME IInv, NEW j \in Job, Enqueue(j) PROVE IInv'
<1> USE BoundsAssumption, NamesAssumption DEF Enqueue, mind
<1>1. TypeOK'
  <2>1. job \in [Job -> Row] /\ job[j] \in Row
    BY DEF IInv, TypeOK
  <2> DEFINE row == [job[j] EXCEPT !.status = "queued"]
  <2>2. row \in Row
    BY <2>1 DEF Row
  <2>3. job' = [job EXCEPT ![j] = row]
    OBVIOUS
  <2> HIDE DEF row
  <2>4. job' \in [Job -> Row]
    BY <2>1, <2>2, <2>3
  <2> QED
    BY <2>4 DEF IInv, TypeOK
<1>2. RowShape'
  <2>1. /\ job'[j].status = "queued" /\ job'[j].token = job[j].token
        /\ job'[j].lease = job[j].lease /\ job'[j].attempts = job[j].attempts
    BY DEF IInv, TypeOK
  <2>2. \A i \in Job \ {j} : job'[i] = job[i]
    BY DEF IInv, TypeOK
  <2> QED
    BY <2>1, <2>2 DEF IInv, RowShape
<1>3. SettledJustified' /\ DocsWithinRuns'
  BY DEF IInv, TypeOK, RowShape, SettledJustified, DocsWithinRuns
<1>4. ClaimShape'
  BY DEF IInv, TypeOK, RowShape, ClaimShape
<1>5. ClaimsDistinct' /\ RunShape'
  BY DEF IInv, TypeOK, ClaimsDistinct, RunShape
<1> QED
  BY <1>1, <1>2, <1>3, <1>4, <1>5 DEF IInv
\* An administrator and the clock leave claims and budgets alone.
LEMMA SetActiveInv == ASSUME IInv, NEW u \in User, SetActive(u) PROVE IInv'
<1> USE BoundsAssumption, NamesAssumption DEF SetActive, table, mind
<1>1. TypeOK'
  BY DEF IInv, TypeOK
<1>2. RowShape' /\ SettledJustified' /\ DocsWithinRuns'
  BY DEF IInv, RowShape, SettledJustified, DocsWithinRuns
<1>3. ClaimShape' /\ ClaimsDistinct' /\ RunShape'
  BY DEF IInv, ClaimShape, ClaimsDistinct, RunShape
<1> QED
  BY <1>1, <1>2, <1>3 DEF IInv

\* Time only shortens leases.
LEMMA TickInv == ASSUME IInv, Tick PROVE IInv'
<1> USE BoundsAssumption, NamesAssumption DEF Tick, mind
<1>1. TypeOK'
  <2>1. ASSUME NEW j \in Job PROVE job'[j] \in Row
    <3>1. job[j] \in Row
      BY DEF IInv, TypeOK
    <3>2. CASE job[j].lease > 0
      BY <3>1, <3>2
    <3>3. CASE ~(job[j].lease > 0)
      BY <3>1, <3>3
    <3> QED
      BY <3>2, <3>3
  <2>2. job' \in [Job -> Row]
    BY <2>1
  <2> QED
    BY <2>2 DEF IInv, TypeOK
<1>2. RowShape'
  BY DEF IInv, TypeOK, RowShape
<1>3. SettledJustified' /\ DocsWithinRuns'
  BY DEF IInv, TypeOK, SettledJustified, DocsWithinRuns
<1>4. ClaimShape'
  BY DEF IInv, TypeOK, RowShape, ClaimShape
<1>5. ClaimsDistinct' /\ RunShape'
  BY DEF IInv, TypeOK, ClaimsDistinct, RunShape
<1> QED
  BY <1>1, <1>2, <1>3, <1>4, <1>5 DEF IInv

\* Reaping takes tokens away and gives none.
LEMMA ReapInv == ASSUME IInv, NEW w \in Worker, ReapExhausted(w) PROVE IInv'
<1> USE BoundsAssumption, NamesAssumption DEF ReapExhausted
<1>1. \A j \in Job : job[j] \in Row
  BY DEF IInv, TypeOK
<1>2. ASSUME NEW j \in Job
      PROVE  /\ job'[j] \in Row
             /\ job'[j].attempts = job[j].attempts
             /\ \/ job'[j] = job[j]
                \/ /\ job'[j].status = "dead" /\ job'[j].attempts = MaxAttempts
                   /\ job'[j].token = NoToken /\ job'[j].lease = NoLease
  <2>1. CASE Exhausted(job[j])
    <3>1. job'[j] = Released(job[j], "dead")
      BY <2>1
    <3>2. job[j].attempts = MaxAttempts
      BY <1>1, <2>1 DEF Exhausted
    <3> QED
      BY <1>1, <3>1, <3>2, ReleasedRow
  <2>2. CASE ~Exhausted(job[j])
    BY <1>1, <2>2
  <2> QED
    BY <2>1, <2>2
<1>3. TypeOK'
  <2>1. job' \in [Job -> Row]
    BY <1>2
  <2> QED
    BY <2>1 DEF IInv, TypeOK
<1>4. RowShape' /\ SettledJustified'
  BY <1>1, <1>2 DEF IInv, RowShape, SettledJustified
<1>5. DocsWithinRuns'
  BY <1>2 DEF IInv, DocsWithinRuns
<1>6. ClaimShape'
  BY <1>1, <1>2 DEF IInv, TypeOK, ClaimShape
<1>7. ClaimsDistinct' /\ RunShape'
  BY DEF IInv, TypeOK, ClaimsDistinct, RunShape
<1> QED
  BY <1>3, <1>4, <1>5, <1>6, <1>7 DEF IInv

\* Reading the candidates, losing one and ending the tick touch no claim.
LEMMA ScanInv == ASSUME IInv, NEW w \in Worker, Scan(w) PROVE IInv'
<1> USE BoundsAssumption, NamesAssumption DEF Scan, table
<1>1. TypeOK'
  BY DEF IInv, TypeOK
<1>2. RowShape' /\ SettledJustified' /\ DocsWithinRuns'
  BY DEF IInv, RowShape, SettledJustified, DocsWithinRuns
<1>3. ClaimShape' /\ ClaimsDistinct' /\ RunShape'
  BY DEF IInv, TypeOK, ClaimShape, ClaimsDistinct, RunShape
<1> QED
  BY <1>1, <1>2, <1>3 DEF IInv

\* A lost race shortens the round, nothing else.
LEMMA LoseClaimInv == ASSUME IInv, NEW w \in Worker, NEW j \in Job, NEW s \in Source, LoseClaim(w, j, s) PROVE IInv'
<1> USE BoundsAssumption, NamesAssumption DEF LoseClaim, table
<1>1. TypeOK'
  BY DEF IInv, TypeOK
<1>2. RowShape' /\ SettledJustified' /\ DocsWithinRuns'
  BY DEF IInv, RowShape, SettledJustified, DocsWithinRuns
<1>3. ClaimShape' /\ ClaimsDistinct' /\ RunShape'
  BY DEF IInv, TypeOK, ClaimShape, ClaimsDistinct, RunShape
<1> QED
  BY <1>1, <1>2, <1>3 DEF IInv

\* The end of a tick moves the worker only.
LEMMA EndTickInv == ASSUME IInv, NEW w \in Worker, EndTick(w) PROVE IInv'
<1> USE BoundsAssumption, NamesAssumption DEF EndTick, table
<1>1. TypeOK'
  BY DEF IInv, TypeOK
<1>2. RowShape' /\ SettledJustified' /\ DocsWithinRuns'
  BY DEF IInv, RowShape, SettledJustified, DocsWithinRuns
<1>3. ClaimShape' /\ ClaimsDistinct' /\ RunShape'
  BY DEF IInv, TypeOK, ClaimShape, ClaimsDistinct, RunShape
<1> QED
  BY <1>1, <1>2, <1>3 DEF IInv

\* A claim takes a fresh token and a fresh attempt number, so it differs from
\* every claim that is out and makes the previous holder of the row stale.
LEMMA ClaimInv == ASSUME IInv, NEW w \in Worker, NEW j \in Job, NEW s \in Source, Claim(w, j, s) PROVE IInv'
<1> USE BoundsAssumption, NamesAssumption DEF Claim, Claimable, Claimed, LeaseExpired
<1>1. TypeOK'
  <2>1. job[j] \in Row /\ issued \in Nat
    BY DEF IInv, TypeOK
  <2>2. Claimed(job[j], w) \in Row
    BY <2>1, ClaimedRow
  <2>3. job' \in [Job -> Row]
    BY <2>2 DEF IInv, TypeOK
  <2>4. held' \in [Worker -> [job : Job \cup {NoJob}, token : Nat, attempt : Nat]]
    BY <2>1 DEF IInv, TypeOK
  <2> QED
    BY <2>3, <2>4 DEF IInv, TypeOK
<1>2. RowShape'
  BY DEF IInv, TypeOK, RowShape
<1>3. SettledJustified' /\ DocsWithinRuns'
  BY DEF IInv, TypeOK, SettledJustified, DocsWithinRuns
<1>4. ClaimShape'
  BY DEF IInv, TypeOK, RowShape, ClaimShape
<1>5. ClaimsDistinct'
  BY DEF IInv, TypeOK, ClaimShape, ClaimsDistinct
<1>6. RunShape'
  BY DEF IInv, TypeOK, DocsWithinRuns, ClaimShape, RunShape
<1> QED
  BY <1>1, <1>2, <1>3, <1>4, <1>5, <1>6 DEF IInv

\* The lookup moves the worker to its write or to a denial.
LEMMA ResolveInv == ASSUME IInv, NEW w \in Worker, Resolve(w) PROVE IInv'
<1> USE BoundsAssumption, NamesAssumption DEF Resolve
<1>1. TypeOK'
  BY DEF IInv, TypeOK, ClaimShape
<1>2. RowShape' /\ SettledJustified' /\ DocsWithinRuns'
  BY DEF IInv, RowShape, SettledJustified, DocsWithinRuns
<1>3. ClaimShape' /\ ClaimsDistinct'
  <2>1. \A v \in Worker : pc'[v] \in Holding => pc[v] \in Holding
    BY DEF IInv, TypeOK
  <2>2. UNCHANGED <<held, job, issued>>
    OBVIOUS
  <2> QED
    BY <2>1, <2>2 DEF IInv, ClaimShape, ClaimsDistinct
<1>4. RunShape'
  <2>1. CASE pc' = [pc EXCEPT ![w] = "effect"] /\ UNCHANGED outcome
    BY <2>1 DEF IInv, TypeOK, RunShape
  <2>2. CASE pc' = [pc EXCEPT ![w] = "settle"] /\ outcome' = [outcome EXCEPT ![w] = "denied"]
    BY <2>2 DEF IInv, TypeOK, RunShape
  <2> QED
    BY <2>1, <2>2
<1> QED
  BY <1>1, <1>2, <1>3, <1>4 DEF IInv

\* The write adds the attempt of the claim to the documents, and every other
\* worker on the same job has another attempt.
LEMMA RunInv == ASSUME IInv, NEW w \in Worker, RunCreateDoc(w) PROVE IInv'
<1> USE BoundsAssumption, NamesAssumption DEF RunCreateDoc
<1> DEFINE j == held[w].job
           n == held[w].attempt
<1>1. /\ j \in Job /\ n \in 1 .. job[j].attempts /\ n \in 1 .. MaxAttempts
      /\ job[j].attempts \in 0 .. MaxAttempts
  BY DEF IInv, TypeOK, ClaimShape
<1>2. /\ docs' \in [Job -> SUBSET (1 .. MaxAttempts)]
      /\ \A i \in Job : docs[i] \subseteq docs'[i] /\ docs'[i] \subseteq docs[i] \cup (IF i = j THEN {n} ELSE {})
  <2>1. docs \in [Job -> SUBSET (1 .. MaxAttempts)]
    BY DEF IInv, TypeOK
  <2>2. CASE docs' = [docs EXCEPT ![j] = @ \cup {n}]
    BY <1>1, <2>1, <2>2
  <2>3. CASE UNCHANGED docs
    BY <2>1, <2>3
  <2> QED
    BY <2>2, <2>3
<1>3. /\ outcome' \in [Worker -> {"none", "done", "denied", "retry"}]
      /\ \A v \in Worker : v # w => outcome'[v] = outcome[v]
      /\ outcome'[w] # "none"
      /\ outcome'[w] = "done" => docs'[j] # {}
  <2>1. outcome \in [Worker -> {"none", "done", "denied", "retry"}]
    BY DEF IInv, TypeOK
  <2>2. \/ /\ outcome' = [outcome EXCEPT ![w] = "done"]
           /\ docs' = [docs EXCEPT ![j] = @ \cup {n}]
        \/ outcome' = [outcome EXCEPT ![w] = "retry"]
        \/ outcome' = [outcome EXCEPT ![w] = "denied"]
    OBVIOUS
  <2>3. docs' = [docs EXCEPT ![j] = @ \cup {n}] => docs'[j] # {}
    <3>1. docs \in [Job -> SUBSET (1 .. MaxAttempts)] /\ j \in Job
      BY <1>1 DEF IInv, TypeOK
    <3> HIDE DEF j, n
    <3>2. docs' = [docs EXCEPT ![j] = @ \cup {n}] => n \in docs'[j]
      BY <3>1
    <3> QED
      BY <3>2
  <2> QED
    BY <2>1, <2>2, <2>3
<1>4. TypeOK'
  BY <1>1, <1>2, <1>3 DEF IInv, TypeOK
<1>5. RowShape'
  BY DEF IInv, RowShape
<1>6. SettledJustified'
  BY <1>2 DEF IInv, SettledJustified
<1>7. DocsWithinRuns'
  BY <1>1, <1>2 DEF IInv, DocsWithinRuns
<1>8. ClaimShape' /\ ClaimsDistinct'
  BY DEF IInv, TypeOK, ClaimShape, ClaimsDistinct
<1>9. RunShape'
  <2> SUFFICES ASSUME NEW v \in Worker
               PROVE  /\ pc'[v] \in {"resolve", "effect"} => held[v].attempt \notin docs'[held[v].job]
                      /\ pc'[v] = "settle" => outcome'[v] # "none"
                      /\ pc'[v] = "settle" /\ outcome'[v] = "done" => docs'[held[v].job] # {}
    BY DEF RunShape
  <2>1. CASE v = w
    BY <1>3, <2>1 DEF IInv, TypeOK
  <2>2. CASE v # w
    <3>1. pc'[v] = pc[v] /\ pc[w] \in Holding
      BY <2>2 DEF IInv, TypeOK
    <3>2. pc[v] \in Holding => held[v].job \in Job
      BY DEF IInv, ClaimShape
    <3>3. pc[v] \in Holding /\ held[v].job = j => held[v].attempt # n
      BY <2>2, <3>1 DEF IInv, ClaimsDistinct
    <3> HIDE DEF j, n
    <3> QED
      BY <1>2, <1>3, <2>2, <3>1, <3>2, <3>3 DEF IInv, RunShape
  <2> QED
    BY <2>1, <2>2
<1> QED
  BY <1>4, <1>5, <1>6, <1>7, <1>8, <1>9 DEF IInv

\* Renewal is fenced and touches the lease only.
LEMMA RenewInv == ASSUME IInv, NEW w \in Worker, RenewLease(w) PROVE IInv'
<1> USE BoundsAssumption, NamesAssumption DEF RenewLease, Fenced, mind
<1>1. TypeOK'
  BY DEF IInv, TypeOK, ClaimShape
<1>2. RowShape'
  BY DEF IInv, TypeOK, RowShape, ClaimShape
<1>3. SettledJustified' /\ DocsWithinRuns'
  BY DEF IInv, TypeOK, ClaimShape, SettledJustified, DocsWithinRuns
<1>4. ClaimShape'
  BY DEF IInv, TypeOK, ClaimShape
<1>5. ClaimsDistinct' /\ RunShape'
  BY DEF IInv, TypeOK, ClaimsDistinct, RunShape
<1> QED
  BY <1>1, <1>2, <1>3, <1>4, <1>5 DEF IInv

\* The settlement passes the fence only for the latest attempt, so a spent or an
\* unspent budget is judged on the row's own count.
LEMMA SettleInv == ASSUME IInv, NEW w \in Worker, Settle(w) PROVE IInv'
<1> USE BoundsAssumption, NamesAssumption DEF Settle, Drop, Fenced, Released, StatusAfter
<1>1. TypeOK'
  <2>1. CASE Fenced(w)
    <3>1. /\ held[w].job \in Job
          /\ StatusAfter(outcome[w], held[w].attempt) \in {"queued"} \cup Terminal
      BY DEF IInv, TypeOK, ClaimShape, RunShape
    <3>2. Released(job[held[w].job], StatusAfter(outcome[w], held[w].attempt)) \in Row
      <4>1. job[held[w].job] \in Row
        BY <3>1 DEF IInv, TypeOK
      <4> HIDE DEF StatusAfter, Released
      <4> QED
        BY <3>1, <4>1, ReleasedRow
    <3>3. job' \in [Job -> Row]
      BY <2>1, <3>2 DEF IInv, TypeOK
    <3> QED
      BY <3>3 DEF IInv, TypeOK
  <2>2. CASE ~Fenced(w)
    BY <2>2 DEF IInv, TypeOK
  <2> QED
    BY <2>1, <2>2
<1>2. RowShape'
  BY DEF IInv, TypeOK, RowShape, ClaimShape, RunShape
<1>3. SettledJustified'
  <2>1. CASE Fenced(w)
    <3> DEFINE j == held[w].job
               status == StatusAfter(outcome[w], held[w].attempt)
    <3>1. /\ j \in Job
          /\ status \in {"queued"} \cup Terminal
          /\ held[w].attempt = job[j].attempts
          /\ job[j].attempts \in 0 .. MaxAttempts
          /\ outcome[w] = "done" => docs[j] # {}
      BY <2>1 DEF IInv, TypeOK, ClaimShape, RunShape
    <3>2. /\ status = "done" => docs[j] # {}
          /\ status = "dead" => job[j].attempts = MaxAttempts
          /\ status = "queued" => job[j].attempts < MaxAttempts
      <4>1. outcome[w] \in {"done", "denied", "retry"}
        BY DEF IInv, TypeOK, RunShape
      <4>2. CASE outcome[w] # "retry"
        <5>1. status = outcome[w]
          BY <4>2
        <5> QED
          BY <3>1, <4>1, <4>2, <5>1
      <4>3. CASE outcome[w] = "retry"
        <5>1. status = IF job[j].attempts >= MaxAttempts THEN "dead" ELSE "queued"
          BY <3>1, <4>3
        <5> HIDE DEF status
        <5> QED
          BY <3>1, <5>1, BoundsAssumption
      <4> QED
        BY <4>2, <4>3
    <3>3. job' = [job EXCEPT ![j] = Released(job[j], status)]
      BY <2>1
    <3>4. job'[j].status = status /\ job'[j].attempts = job[j].attempts
      <4>1. job[j] \in Row /\ job \in [Job -> Row]
        BY <3>1 DEF IInv, TypeOK
      <4> HIDE DEF j, status, Released
      <4>2. job'[j] = Released(job[j], status)
        BY <3>1, <3>3, <4>1
      <4> QED
        BY <3>1, <4>1, <4>2, ReleasedRow
    <3>5. \A i \in Job : i # j => job'[i] = job[i]
      BY <3>3 DEF IInv, TypeOK
    <3> HIDE DEF j, status
    <3> QED
      BY <3>2, <3>4, <3>5 DEF IInv, SettledJustified
  <2>2. CASE ~Fenced(w)
    BY <2>2 DEF IInv, SettledJustified
  <2> QED
    BY <2>1, <2>2
<1>4. DocsWithinRuns'
  BY DEF IInv, TypeOK, ClaimShape, DocsWithinRuns
<1>5. ClaimShape'
  BY DEF IInv, TypeOK, RowShape, ClaimShape
<1>6. ClaimsDistinct' /\ RunShape'
  BY DEF IInv, TypeOK, ClaimsDistinct, RunShape
<1> QED
  BY <1>1, <1>2, <1>3, <1>4, <1>5, <1>6 DEF IInv

\* A worker that drops its claim and writes nothing: a crash, a failed statement.
LEMMA DropInv == ASSUME IInv, NEW w \in Worker, Drop(w), UNCHANGED <<table, active>>,
                         faults' \in 0 .. MaxFaults PROVE IInv'
<1> USE BoundsAssumption, NamesAssumption DEF Drop, table
<1>1. TypeOK'
  BY DEF IInv, TypeOK
<1>2. RowShape' /\ SettledJustified' /\ DocsWithinRuns'
  BY DEF IInv, RowShape, SettledJustified, DocsWithinRuns
<1>3. ClaimShape' /\ ClaimsDistinct' /\ RunShape'
  BY DEF IInv, TypeOK, ClaimShape, ClaimsDistinct, RunShape
<1> QED
  BY <1>1, <1>2, <1>3 DEF IInv

\* A claim whose answer is lost leaves a token that nobody holds.
LEMMA ClaimLostInv == ASSUME IInv, NEW w \in Worker, NEW j \in Job, NEW s \in Source,
                              ClaimAnswerLost(w, j, s) PROVE IInv'
<1> USE BoundsAssumption, NamesAssumption DEF ClaimAnswerLost, Drop, Fault, Claimable, Claimed, LeaseExpired
<1>1. TypeOK'
  <2>1. job[j] \in Row /\ issued \in Nat
    BY DEF IInv, TypeOK
  <2>2. Claimed(job[j], w) \in Row
    BY <2>1, ClaimedRow
  <2>3. job' \in [Job -> Row]
    BY <2>2 DEF IInv, TypeOK
  <2>4. held' \in [Worker -> [job : Job \cup {NoJob}, token : Nat, attempt : Nat]]
    BY DEF IInv, TypeOK
  <2> QED
    BY <2>3, <2>4 DEF IInv, TypeOK
<1>2. RowShape'
  BY DEF IInv, TypeOK, RowShape
<1>3. SettledJustified' /\ DocsWithinRuns'
  BY DEF IInv, TypeOK, SettledJustified, DocsWithinRuns
<1>4. ClaimShape'
  BY DEF IInv, TypeOK, RowShape, ClaimShape
<1>5. ClaimsDistinct' /\ RunShape'
  BY DEF IInv, TypeOK, ClaimsDistinct, RunShape
<1> QED
  BY <1>1, <1>2, <1>3, <1>4, <1>5 DEF IInv

\* A failed lookup ends in a denial to be recorded.
LEMMA ResolveFailsInv == ASSUME IInv, NEW w \in Worker, ResolveFails(w) PROVE IInv'
<1> USE BoundsAssumption, NamesAssumption DEF ResolveFails, Fault, table
<1>1. TypeOK'
  BY DEF IInv, TypeOK
<1>2. RowShape' /\ SettledJustified' /\ DocsWithinRuns'
  BY DEF IInv, RowShape, SettledJustified, DocsWithinRuns
<1>3. ClaimShape' /\ ClaimsDistinct' /\ RunShape'
  BY DEF IInv, TypeOK, ClaimShape, ClaimsDistinct, RunShape
<1> QED
  BY <1>1, <1>2, <1>3 DEF IInv

-----------------------------------------------------------------------------
(* The invariant of the specification.                                      *)

\* Every step of the workers, of the callers, of the clock and of the faults
\* preserves the invariant.
LEMMA StepInv == IInv /\ [Next]_vars => IInv'
<1> SUFFICES ASSUME IInv, [Next]_vars PROVE IInv'
  OBVIOUS
<1>1. ASSUME NEW j \in Job, Enqueue(j) PROVE IInv'
  BY <1>1, EnqueueInv
<1>2. ASSUME NEW u \in User, SetActive(u) PROVE IInv'
  BY <1>2, SetActiveInv
<1>3. CASE Tick
  BY <1>3, TickInv
<1>4. ASSUME NEW w \in Worker, Work(w) PROVE IInv'
  <2>1. CASE ReapExhausted(w)
    BY <2>1, ReapInv
  <2>2. CASE Scan(w)
    BY <2>2, ScanInv
  <2>3. CASE ClaimRound(w)
    BY <2>3, ClaimInv, LoseClaimInv DEF ClaimRound
  <2>4. CASE EndTick(w)
    BY <2>4, EndTickInv
  <2>5. CASE Resolve(w)
    BY <2>5, ResolveInv
  <2>6. CASE RunCreateDoc(w)
    BY <2>6, RunInv
  <2>7. CASE Settle(w)
    BY <2>7, SettleInv
  <2> QED
    BY <1>4, <2>1, <2>2, <2>3, <2>4, <2>5, <2>6, <2>7 DEF Work
<1>5. ASSUME NEW w \in Worker, RenewLease(w) PROVE IInv'
  BY <1>5, RenewInv
<1>6. ASSUME NEW w \in Worker, Faulty(w) PROVE IInv'
  <2>1. CASE Crash(w) \/ StatementFails(w)
    <3>1. Drop(w) /\ UNCHANGED <<table, active>>
      BY <2>1 DEF Crash, StatementFails
    <3>2. faults' \in 0 .. MaxFaults
      BY <2>1, BoundsAssumption DEF Crash, StatementFails, Fault, IInv, TypeOK
    <3> QED
      BY <3>1, <3>2, DropInv
  <2>2. CASE ResolveFails(w)
    BY <2>2, ResolveFailsInv
  <2>3. CASE \E j \in Job, s \in Source : ClaimAnswerLost(w, j, s)
    BY <2>3, ClaimLostInv
  <2> QED
    BY <1>6, <2>1, <2>2, <2>3 DEF Faulty
<1>7. CASE UNCHANGED vars
  BY <1>7 DEF vars, IInv, TypeOK, RowShape, SettledJustified, DocsWithinRuns,
              ClaimShape, ClaimsDistinct, RunShape
<1> QED
  BY <1>1, <1>2, <1>3, <1>4, <1>5, <1>6, <1>7 DEF Next

\* The inductive invariant holds in every reachable state.
THEOREM Invariance == Spec => []IInv
<1>1. Init => IInv
  BY InitInv
<1>2. IInv /\ [Next]_vars => IInv'
  BY StepInv
<1> QED
  BY <1>1, <1>2, PTL DEF Spec

\* The rows and the workers keep their shapes.
THEOREM TypeCorrect == Spec => []TypeOK
  BY Invariance, PTL DEF IInv

\* A document is created only for an attempt that was counted, and a settled row
\* is settled for a reason: run_create_doc, retry_update and reap_exhausted.
THEOREM Accounting == Spec => [](DocsWithinRuns /\ SettledJustified)
  BY Invariance, PTL DEF IInv

\* claim_sql and fenced_update_sql: no two workers can settle the same row, even
\* when all of them go by one name.
LEMMA FenceIsExclusive == IInv => SoleHolder
<1> SUFFICES ASSUME IInv, NEW w \in Worker, pc[w] \in Holding, Fenced(w)
             PROVE  /\ held[w].attempt = job[held[w].job].attempts
                    /\ \A v \in Worker : Holds(v, held[w].job) /\ Fenced(v) => v = w
  BY DEF SoleHolder
<1>1. held[w].attempt = job[held[w].job].attempts
  BY DEF IInv, ClaimShape, Fenced
<1>2. ASSUME NEW v \in Worker, Holds(v, held[w].job), Fenced(v) PROVE v = w
  BY <1>2 DEF IInv, ClaimsDistinct, Fenced, Holds
<1> QED
  BY <1>1, <1>2

\* The exclusion of the lemma, in every reachable state.
THEOREM Exclusive == Spec => []SoleHolder
  BY Invariance, FenceIsExclusive, PTL
-----------------------------------------------------------------------------
(* Action properties.                                                       *)

\* The steps that leave the table of jobs as it is.
LEMMA TableKept ==
  ASSUME NEW w \in Worker,
         \/ Scan(w) \/ EndTick(w) \/ Resolve(w) \/ RunCreateDoc(w)
         \/ Crash(w) \/ StatementFails(w) \/ ResolveFails(w)
         \/ \E j \in Job, s \in Source : LoseClaim(w, j, s)
  PROVE  UNCHANGED job
  BY DEF Scan, EndTick, Resolve, RunCreateDoc, Crash, StatementFails, ResolveFails,
         LoseClaim, table

\* Every step is a step of the table named here, or leaves the table alone.
LEMMA TableSteps ==
  ASSUME [Next]_vars
  PROVE  \/ \E j \in Job : Enqueue(j)
         \/ Tick
         \/ \E w \in Worker : ReapExhausted(w)
         \/ \E w \in Worker, j \in Job, s \in Source : Claim(w, j, s)
         \/ \E w \in Worker, j \in Job, s \in Source : ClaimAnswerLost(w, j, s)
         \/ \E w \in Worker : RenewLease(w)
         \/ \E w \in Worker : Settle(w)
         \/ UNCHANGED job
<1>1. CASE \E w \in Worker : Work(w) \/ RenewLease(w) \/ Faulty(w)
  BY <1>1, TableKept DEF Work, Faulty, ClaimRound
<1>2. CASE \E u \in User : SetActive(u)
  BY <1>2 DEF SetActive, table
<1> QED
  BY <1>1, <1>2 DEF Next, vars

\* A settled row matches the WHERE clause of no statement, and has no lease.
LEMMA SettledStep == IInv /\ [Next]_vars => SettledKept
<1> SUFFICES ASSUME IInv, [Next]_vars, NEW j \in Job, job[j].status \in Terminal
             PROVE  job'[j] = job[j]
  BY DEF SettledKept
<1> USE DEF IInv, TypeOK
<1>1. ASSUME NEW i \in Job, Enqueue(i) PROVE job'[j] = job[j]
  BY <1>1 DEF Enqueue
<1>2. CASE Tick
  BY <1>2 DEF Tick, RowShape
<1>3. ASSUME NEW w \in Worker, ReapExhausted(w) PROVE job'[j] = job[j]
  BY <1>3 DEF ReapExhausted, Exhausted, LeaseExpired
<1>4. ASSUME NEW w \in Worker, NEW i \in Job, NEW s \in Source,
             Claim(w, i, s) \/ ClaimAnswerLost(w, i, s)
      PROVE  job'[j] = job[j]
  <2>1. Claimable(job[i], s) /\ job' = [job EXCEPT ![i] = Claimed(job[i], w)]
    BY <1>4 DEF Claim, ClaimAnswerLost
  <2>2. i # j
    BY <2>1 DEF Claimable, LeaseExpired
  <2> QED
    BY <2>1, <2>2
<1>5. ASSUME NEW w \in Worker, RenewLease(w) PROVE job'[j] = job[j]
  BY <1>5 DEF RenewLease, Fenced
<1>6. ASSUME NEW w \in Worker, Settle(w) PROVE job'[j] = job[j]
  BY <1>6 DEF Settle, Fenced
<1> QED
  BY <1>1, <1>2, <1>3, <1>4, <1>5, <1>6, TableSteps

\* Settlement is final: finish_with, requeue and reap_exhausted overwrite nothing
\* that is settled.
THEOREM SettlementIsFinal == Spec => SettledIsFinal
  BY Invariance, SettledStep, PTL DEF Spec, SettledIsFinal

\* A running row loses its token only when its lease is over or its holder settles.
LEMMA EvictionStep == IInv /\ [Next]_vars => EvictionJustified
<1> DEFINE Justified(j) ==
      \/ LeaseExpired(job[j])
      \/ \E w \in Worker : /\ pc[w] = "settle" /\ pc'[w] = "idle"
                           /\ Holds(w, j) /\ Fenced(w)
<1> SUFFICES ASSUME IInv, [Next]_vars, NEW j \in Job, Evicted(j) PROVE Justified(j)
  BY DEF EvictionJustified
<1> USE DEF IInv, TypeOK, Evicted
<1>1. ASSUME NEW i \in Job, Enqueue(i) PROVE FALSE
  BY <1>1 DEF Enqueue
<1>2. ASSUME Tick PROVE FALSE
  BY <1>2 DEF Tick
<1>3. ASSUME NEW w \in Worker, ReapExhausted(w) PROVE Justified(j)
  BY <1>3 DEF ReapExhausted, Exhausted, LeaseExpired
<1>4. ASSUME NEW w \in Worker, NEW i \in Job, NEW s \in Source,
             Claim(w, i, s) \/ ClaimAnswerLost(w, i, s)
      PROVE  Justified(j)
  <2>1. Claimable(job[i], s) /\ job' = [job EXCEPT ![i] = Claimed(job[i], w)]
    BY <1>4 DEF Claim, ClaimAnswerLost
  <2>2. i = j
    BY <2>1
  <2> QED
    BY <2>1, <2>2 DEF Claimable, LeaseExpired
<1>5. ASSUME NEW w \in Worker, RenewLease(w) PROVE FALSE
  BY <1>5 DEF RenewLease, Fenced
<1>6. ASSUME NEW w \in Worker, Settle(w) PROVE Justified(j)
  <2>1. Fenced(w) /\ held[w].job = j /\ pc[w] = "settle" /\ pc'[w] = "idle"
    BY <1>6 DEF Settle, Drop
  <2> QED
    BY <2>1 DEF Holds
<1>7. ASSUME UNCHANGED job PROVE FALSE
  BY <1>7
<1> QED
  BY <1>1, <1>2, <1>3, <1>4, <1>5, <1>6, <1>7, TableSteps

\* The lease protects its holder: worker.rs, JobLease.
THEOREM LeaseProtects == Spec => OnlyHolderOrExpiry
  BY Invariance, EvictionStep, PTL DEF Spec, OnlyHolderOrExpiry

\* While the requester is inactive and nobody is past the lookup, no step writes
\* the document or gets past the lookup.
LEMMA QuietStep == IInv /\ [Next]_vars => QuietKept
<1> SUFFICES ASSUME IInv, [Next]_vars, NEW j \in Job, Quiet(j)
             PROVE  /\ docs'[j] = docs[j]
                    /\ Requester[j] \notin active' => Quiet(j)'
  BY DEF QuietKept
<1> USE DEF IInv, TypeOK, Quiet, Holds
<1>1. CASE \E i \in Job : Enqueue(i)
  BY <1>1 DEF Enqueue, mind
<1>2. CASE (\E u \in User : SetActive(u)) \/ UNCHANGED vars
  BY <1>2 DEF SetActive, table, mind, vars
<1>3. CASE Tick
  BY <1>3 DEF Tick, mind
<1>4. ASSUME NEW w \in Worker, Work(w) \/ RenewLease(w) \/ Faulty(w)
      PROVE  docs'[j] = docs[j] /\ (\A v \in Worker : pc'[v] = "effect" =>
                                      /\ held'[v] = held[v]
                                      /\ pc[v] = "effect" \/ held[v].job # j)
  <2>1. CASE RunCreateDoc(w)
    BY <2>1 DEF RunCreateDoc, ClaimShape
  <2>2. CASE Resolve(w)
    BY <2>2 DEF Resolve, Authorised
  <2>3. CASE ReapExhausted(w) \/ Scan(w) \/ EndTick(w) \/ RenewLease(w) \/ ResolveFails(w)
    BY <2>3 DEF ReapExhausted, Scan, EndTick, RenewLease, ResolveFails, table, mind
  <2>4. CASE Settle(w) \/ Crash(w) \/ StatementFails(w)
    BY <2>4 DEF Settle, Crash, StatementFails, Drop, table
  <2>5. ASSUME NEW i \in Job, NEW s \in Source,
               Claim(w, i, s) \/ LoseClaim(w, i, s) \/ ClaimAnswerLost(w, i, s)
        PROVE  docs'[j] = docs[j] /\ (\A v \in Worker : pc'[v] = "effect" =>
                                        held'[v] = held[v] /\ pc[v] = "effect")
    BY <2>5 DEF Claim, LoseClaim, ClaimAnswerLost, Drop, table
  <2> QED
    BY <1>4, <2>1, <2>2, <2>3, <2>4, <2>5 DEF Work, Faulty, ClaimRound
<1> QED
  BY <1>1, <1>2, <1>3, <1>4 DEF Next

\* Authority is looked up when the job runs: run_traced.
THEOREM RevocationWorks == Spec => RevocationHolds
  BY Invariance, QuietStep, PTL DEF Spec, RevocationHolds

-----------------------------------------------------------------------------
(* The job queue implements the ledger: workers, leases, tokens and the     *)
(* re-queueing of a failed attempt are invisible to the callers.           *)

\* A ledger step is read off two fields of each row, and the documents.
LEMMA Stutter ==
  ASSUME IInv,
         \A j \in Job : /\ job'[j].attempts = job[j].attempts
                        /\ \/ job'[j].status = job[j].status
                           \/ {job[j].status, job'[j].status} \subseteq {"queued", "running"},
         UNCHANGED docs
  PROVE  UNCHANGED <<LedgerState, LedgerRuns, docs>>
<1>1. ASSUME NEW j \in Job PROVE LedgerState'[j] = LedgerState[j] /\ LedgerRuns'[j] = LedgerRuns[j]
  BY DEF LedgerState, LedgerRuns
<1>2. LedgerState' = LedgerState
  BY <1>1 DEF LedgerState
<1>3. LedgerRuns' = LedgerRuns
  BY <1>1 DEF LedgerRuns
<1> QED
  BY <1>2, <1>3

\* Both start empty.
LEMMA InitRefines == Init => Ledger!Init
<1> SUFFICES ASSUME Init PROVE Ledger!Init
  OBVIOUS
<1>1. \A j \in Job : job[j].status = "absent" /\ job[j].attempts = 0
  BY DEF Init
<1>2. LedgerState = [j \in Job |-> "absent"] /\ LedgerRuns = [j \in Job |-> 0]
  BY <1>1 DEF LedgerState, LedgerRuns
<1> QED
  BY <1>2 DEF Init, Ledger!Init

\* enqueue_inner is Submit.
LEMMA EnqueueRefines == ASSUME IInv, NEW j \in Job, Enqueue(j) PROVE Ledger!Submit(j)
<1>1. job \in [Job -> Row]
  BY DEF IInv, TypeOK
<1>2. job' = [job EXCEPT ![j].status = "queued"] /\ job[j].status = "absent" /\ UNCHANGED docs
  BY DEF Enqueue
<1>3. LedgerState[j] = "absent"
  BY <1>2 DEF LedgerState
<1>4. LedgerState' = [LedgerState EXCEPT ![j] = "pending"]
  <2>1. \A i \in Job : LedgerState'[i] = IF i = j THEN "pending" ELSE LedgerState[i]
    BY <1>1, <1>2 DEF LedgerState
  <2> QED
    BY <2>1 DEF LedgerState
<1>5. LedgerRuns' = LedgerRuns
  BY <1>1, <1>2 DEF LedgerRuns
<1> QED
  BY <1>2, <1>3, <1>4, <1>5 DEF Ledger!Submit

\* A committed claim begins a run, also when its answer is lost.
LEMMA ClaimRefines ==
  ASSUME IInv, NEW w \in Worker, NEW j \in Job, NEW s \in Source, Claimable(job[j], s),
         job' = [job EXCEPT ![j] = Claimed(job[j], w)], UNCHANGED docs
  PROVE  Ledger!Begin(j)
<1>1. /\ job \in [Job -> Row] /\ issued \in Nat
      /\ job[j].status \in {"queued", "running"} /\ job[j].attempts < MaxAttempts
  BY DEF IInv, TypeOK, Claimable, LeaseExpired
<1>2. Claimed(job[j], w).status = "running" /\ Claimed(job[j], w).attempts = job[j].attempts + 1
  BY <1>1, ClaimedRow
<1>3. LedgerState[j] = "pending" /\ LedgerRuns[j] = job[j].attempts
  BY <1>1 DEF LedgerState, LedgerRuns
<1>4. LedgerState' = LedgerState
  <2>1. \A i \in Job : LedgerState'[i] = LedgerState[i]
    BY <1>1, <1>2 DEF LedgerState
  <2> QED
    BY <2>1 DEF LedgerState
<1>5. LedgerRuns' = [LedgerRuns EXCEPT ![j] = LedgerRuns[j] + 1]
  <2>1. \A i \in Job : LedgerRuns'[i] = IF i = j THEN LedgerRuns[j] + 1 ELSE LedgerRuns[i]
    BY <1>1, <1>2 DEF LedgerRuns
  <2> QED
    BY <2>1 DEF LedgerRuns
<1> QED
  BY <1>1, <1>3, <1>4, <1>5 DEF Ledger!Begin

\* reap_exhausted buries the exhausted rows together.
LEMMA ReapRefines == ASSUME IInv, NEW w \in Worker, ReapExhausted(w)
                     PROVE  \E S \in SUBSET Job : Ledger!Bury(S)
<1> DEFINE S == {j \in Job : Exhausted(job[j])}
<1>1. job \in [Job -> Row]
  BY DEF IInv, TypeOK
<1>2. \A j \in S : LedgerState[j] = "pending" /\ LedgerRuns[j] = MaxAttempts
  <2> SUFFICES ASSUME NEW j \in Job, Exhausted(job[j])
               PROVE  LedgerState[j] = "pending" /\ LedgerRuns[j] = MaxAttempts
    OBVIOUS
  <2>1. job[j].attempts \in 0 .. MaxAttempts /\ job[j].attempts >= MaxAttempts
    BY <1>1 DEF Exhausted
  <2>2. job[j].attempts = MaxAttempts
    BY <2>1, BoundsAssumption
  <2>3. job[j].status \in {"queued", "running"}
    BY DEF Exhausted, LeaseExpired
  <2> QED
    BY <2>2, <2>3 DEF LedgerState, LedgerRuns
<1>3. LedgerState' = [j \in Job |-> IF j \in S THEN "dead" ELSE LedgerState[j]]
  <2>1. \A j \in Job : LedgerState'[j] = IF j \in S THEN "dead" ELSE LedgerState[j]
    BY <1>1 DEF ReapExhausted, Released, LedgerState
  <2> QED
    BY <2>1 DEF LedgerState
<1>4. LedgerRuns' = LedgerRuns /\ UNCHANGED docs
  BY <1>1 DEF ReapExhausted, Released, LedgerRuns
<1> QED
  BY <1>2, <1>3, <1>4 DEF Ledger!Bury

\* run_create_doc creates the document of one run, which has created none.
LEMMA RunRefines == ASSUME IInv, NEW w \in Worker, RunCreateDoc(w)
                    PROVE  \/ \E j \in Job, n \in 1 .. MaxAttempts : Ledger!CreateDocument(j, n)
                           \/ UNCHANGED <<LedgerState, LedgerRuns, docs>>
<1> DEFINE j == held[w].job
           n == held[w].attempt
<1>1. /\ j \in Job /\ job[j].attempts \in 0 .. MaxAttempts
      /\ n \in 1 .. job[j].attempts /\ n \notin docs[j]
  <2>1. pc[w] = "effect"
    BY DEF RunCreateDoc
  <2>2. j \in Job /\ n \in 1 .. job[j].attempts
    BY <2>1 DEF IInv, ClaimShape
  <2>3. job[j].attempts \in 0 .. MaxAttempts
    BY <2>2 DEF IInv, TypeOK
  <2>4. n \notin docs[j]
    BY <2>1 DEF IInv, RunShape
  <2> QED
    BY <2>2, <2>3, <2>4
<1>2. UNCHANGED <<LedgerState, LedgerRuns>>
  BY DEF RunCreateDoc, LedgerState, LedgerRuns
<1>3. docs' = [docs EXCEPT ![j] = docs[j] \cup {n}] \/ UNCHANGED docs
  BY DEF RunCreateDoc
<1>4. n \in (1 .. LedgerRuns[j]) \ docs[j] /\ n \in 1 .. MaxAttempts
  BY <1>1, BoundsAssumption DEF LedgerRuns
<1> HIDE DEF j, n
<1> QED
  BY <1>1, <1>2, <1>3, <1>4 DEF Ledger!CreateDocument

\* A settlement that passes the fence settles the ledger's job or buries it; a
\* re-queued attempt and a rejected settlement change nothing there.
LEMMA SettleRefines == ASSUME IInv, NEW w \in Worker, Settle(w)
                       PROVE  \/ \E j \in Job, v \in {"done", "denied"} : Ledger!Settle(j, v)
                              \/ \E S \in SUBSET Job : Ledger!Bury(S)
                              \/ UNCHANGED <<LedgerState, LedgerRuns, docs>>
<1> DEFINE j == held[w].job
           status == StatusAfter(outcome[w], held[w].attempt)
<1>1. job \in [Job -> Row] /\ UNCHANGED docs
  BY DEF IInv, TypeOK, Settle
<1>2. CASE ~Fenced(w)
  BY <1>1, <1>2 DEF Settle, LedgerState, LedgerRuns
<1>3. CASE Fenced(w)
  <2>1. /\ j \in Job /\ job[j].status = "running"
        /\ outcome[w] \in {"done", "denied", "retry"}
        /\ outcome[w] = "done" => docs[j] # {}
        /\ held[w].attempt = job[j].attempts
        /\ job[j].attempts \in 1 .. MaxAttempts
    <3>1. pc[w] = "settle" /\ job[j].status = "running" /\ job[j].token = held[w].token
      BY <1>3 DEF Settle, Fenced
    <3>2. j \in Job /\ held[w].attempt = job[j].attempts
      BY <3>1 DEF IInv, ClaimShape
    <3>3. outcome[w] \in {"done", "denied", "retry"} /\ (outcome[w] = "done" => docs[j] # {})
      BY <3>1 DEF IInv, TypeOK, RunShape
    <3>4. job[j].attempts \in 0 .. MaxAttempts /\ job[j].attempts > 0
      BY <3>1, <3>2 DEF IInv, TypeOK, RowShape
    <3> HIDE DEF j
    <3>5. job[j].attempts \in 1 .. MaxAttempts
      BY <3>4, BoundsAssumption
    <3> QED
      BY <3>1, <3>2, <3>3, <3>5
  <2>2. /\ status \in {"queued", "done", "denied", "dead"}
        /\ status = "done" => docs[j] # {}
        /\ status = "dead" => job[j].attempts = MaxAttempts
    BY <2>1, BoundsAssumption DEF StatusAfter
  <2>3. job' = [job EXCEPT ![j] = Released(job[j], status)]
    BY <1>3 DEF Settle
  <2>4. LedgerState[j] = "pending" /\ LedgerRuns[j] = job[j].attempts
    BY <2>1 DEF LedgerState, LedgerRuns
  <2> HIDE DEF j, status
  <2>5. \A i \in Job : /\ job'[i].status = IF i = j THEN status ELSE job[i].status
                       /\ job'[i].attempts = job[i].attempts
    BY <1>1, <2>1, <2>3 DEF Released
  <2>6. LedgerRuns' = LedgerRuns
    BY <2>5 DEF LedgerRuns
  <2>7. LedgerState' = [i \in Job |-> IF i # j THEN LedgerState[i]
                                      ELSE IF status = "queued" THEN "pending" ELSE status]
    BY <2>2, <2>5 DEF LedgerState
  <2>8. CASE status = "queued"
    <3>1. \A i \in Job : LedgerState'[i] = LedgerState[i]
      BY <2>4, <2>7, <2>8
    <3>2. LedgerState' = LedgerState
      BY <3>1 DEF LedgerState
    <3> QED
      BY <1>1, <2>6, <3>2
  <2>9. CASE status \in {"done", "denied"}
    <3>1. LedgerState' = [LedgerState EXCEPT ![j] = status]
      <4>1. \A i \in Job : LedgerState'[i] = IF i = j THEN status ELSE LedgerState[i]
        BY <2>7, <2>9
      <4> QED
        BY <2>7, <4>1 DEF LedgerState
    <3>2. LedgerRuns[j] > 0
      BY <2>1, <2>4, BoundsAssumption
    <3> QED
      BY <1>1, <2>1, <2>2, <2>4, <2>6, <2>9, <3>1, <3>2 DEF Ledger!Settle
  <2>10. CASE status = "dead"
    <3>1. LedgerState' = [i \in Job |-> IF i \in {j} THEN "dead" ELSE LedgerState[i]]
      BY <2>7, <2>10
    <3>2. {j} \in SUBSET Job /\ LedgerRuns[j] = MaxAttempts
      BY <2>1, <2>2, <2>4, <2>10
    <3>3. Ledger!Bury({j})
      BY <1>1, <2>4, <2>6, <3>1, <3>2 DEF Ledger!Bury
    <3> QED
      BY <3>2, <3>3
  <2> QED
    BY <2>2, <2>8, <2>9, <2>10
<1> QED
  BY <1>2, <1>3

\* Every step of the queue is a step of the ledger or a stutter.
LEMMA StepRefines == IInv /\ [Next]_vars => [Ledger!Next]_(Ledger!vars)
<1> SUFFICES ASSUME IInv, [Next]_vars, ~UNCHANGED <<LedgerState, LedgerRuns, docs>>
             PROVE  Ledger!Next
  BY DEF Ledger!vars
<1>1. ASSUME NEW j \in Job, Enqueue(j) PROVE Ledger!Next
  BY <1>1, EnqueueRefines DEF Ledger!Next
<1>2. CASE Tick
  <2>1. \A j \in Job : job'[j].status = job[j].status /\ job'[j].attempts = job[j].attempts
    BY <1>2 DEF Tick, IInv, TypeOK
  <2> QED
    BY <1>2, <2>1, Stutter DEF Tick
<1>3. ASSUME NEW w \in Worker, RunCreateDoc(w) PROVE Ledger!Next
  BY <1>3, RunRefines DEF Ledger!Next
<1>4. ASSUME NEW w \in Worker, Settle(w) PROVE Ledger!Next
  BY <1>4, SettleRefines DEF Ledger!Next
<1>5. ASSUME NEW w \in Worker, ReapExhausted(w) PROVE Ledger!Next
  BY <1>5, ReapRefines DEF Ledger!Next
<1>6. ASSUME NEW w \in Worker, NEW j \in Job, NEW s \in Source,
             Claim(w, j, s) \/ ClaimAnswerLost(w, j, s)
      PROVE  Ledger!Next
  <2>1. Claimable(job[j], s) /\ job' = [job EXCEPT ![j] = Claimed(job[j], w)] /\ UNCHANGED docs
    BY <1>6 DEF Claim, ClaimAnswerLost
  <2> QED
    BY <2>1, ClaimRefines DEF Ledger!Next
<1>7. ASSUME NEW w \in Worker, RenewLease(w) PROVE Ledger!Next
  <2>1. \A j \in Job : job'[j].status = job[j].status /\ job'[j].attempts = job[j].attempts
    BY <1>7 DEF RenewLease, IInv, TypeOK
  <2> QED
    BY <1>7, <2>1, Stutter DEF RenewLease
<1>8. ASSUME UNCHANGED <<job, docs>> PROVE FALSE
  BY <1>8 DEF LedgerState, LedgerRuns
<1>9. ASSUME NEW w \in Worker,
             \/ Scan(w) \/ EndTick(w) \/ Resolve(w)
             \/ Crash(w) \/ StatementFails(w) \/ ResolveFails(w)
             \/ \E j \in Job, s \in Source : LoseClaim(w, j, s)
      PROVE  UNCHANGED <<job, docs>>
  BY <1>9 DEF Scan, EndTick, Resolve, Crash, StatementFails, ResolveFails, LoseClaim, table
<1>10. ASSUME NEW w \in Worker, Work(w) \/ RenewLease(w) \/ Faulty(w) PROVE Ledger!Next
  BY <1>3, <1>4, <1>5, <1>6, <1>7, <1>8, <1>9, <1>10 DEF Work, Faulty, ClaimRound
<1>11. CASE (\E u \in User : SetActive(u)) \/ UNCHANGED vars
  BY <1>8, <1>11 DEF SetActive, table, vars
<1> QED
  BY <1>1, <1>2, <1>10, <1>11 DEF Next

\* The queue implements the ledger.
THEOREM Refinement == Spec => LedgerSpec
  BY Invariance, InitRefines, StepRefines, PTL DEF Spec, LedgerSpec, Ledger!Spec
=============================================================================
