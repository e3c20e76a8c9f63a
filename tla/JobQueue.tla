------------------------------ MODULE JobQueue ------------------------------
(***************************************************************************)
(* The deferred-work queue of the kernel: the `job` table of one tenant     *)
(* database and the resident workers that drain it (worker.rs, and         *)
(* `enqueue_inner` in broker.rs).                                          *)
(*                                                                         *)
(* A worker is the maintenance thread of one kernel process.  Processes    *)
(* that serve the same tenant share nothing but the table, and they even   *)
(* call themselves by the same name ("resident-<i>", main.rs), so the      *)
(* claim token is what tells their claims apart.                           *)
(*                                                                         *)
(* Every SQL statement is one atomic step; whatever happens between two    *)
(* statements of a worker can interleave with the other workers, with time *)
(* passing, and with the crash of the process.                             *)
(*                                                                         *)
(* Abstracted: the payload (what the handler answers is a choice), the     *)
(* order in which one round tries its candidates (see the fairness         *)
(* component), the cut of a round at HEAD_PER_TENANT and                   *)
(* MAX_TENANTS_PER_ROUND, telemetry and texts.                             *)
(***************************************************************************)
EXTENDS Integers, FiniteSets

CONSTANTS Job,          \* job records
          Worker,       \* maintenance threads, one per kernel process
          User,         \* principals a job can be requested by
          Requester,    \* [Job -> User]: requested_by
          Name,         \* the worker ids in use
          WorkerId,     \* [Worker -> Name]: worker_id
          NoName,       \* SurrealDB's NONE in claimed_by
          NoJob,        \* no job held
          MaxAttempts,  \* MAX_JOB_ATTEMPTS
          LeaseTicks,   \* JOB_LEASE_SECONDS, in ticks of the model's clock
          MaxFaults     \* bound of the model: crashes and failed statements

ASSUME BoundsAssumption ==
  /\ MaxAttempts \in Nat \ {0}
  /\ LeaseTicks \in Nat \ {0}
  /\ MaxFaults \in Nat

ASSUME NamesAssumption ==
  /\ Requester \in [Job -> User]
  /\ WorkerId \in [Worker -> Name]
  /\ NoName \notin Name
  /\ NoJob \notin Job

VARIABLES job,      \* the table: job[j] is the row of j
          docs,     \* docs[j]: the attempts of j that created its document
          active,   \* the principals whose app_user row says `active`
          pc,       \* pc[w]: where worker w stands in tick/claim_next/run
          round,    \* round[w]: <<job, source>> candidates not yet tried
          held,     \* held[w]: the claim w works under (struct Job/JobLease)
          outcome,  \* outcome[w]: the JobOutcome still to be recorded
          issued,   \* CLAIM_COUNTER: claim tokens issued so far
          faults    \* bound of the model: faults so far

vars == <<job, docs, active, pc, round, held, outcome, issued, faults>>
table == <<job, docs, issued>>
mind == <<pc, round, held, outcome>>

Terminal == {"done", "denied", "dead"}
Source == {"queued", "expired"}
NoLease == -1   \* lease_expires_at = NONE
NoToken == 0    \* claim_token = NONE
NoClaim == [job |-> NoJob, token |-> NoToken, attempt |-> 0]

\* attempts = 0 stands for `attempts = NONE`; lease counts down the ticks that
\* are left, and 0 is `lease_expires_at <= time::now()`.
Row == [status     : {"absent", "queued", "running"} \cup Terminal,
        claimed_by : Name \cup {NoName},
        token      : Nat,
        lease      : NoLease .. LeaseTicks,
        attempts   : 0 .. MaxAttempts]

NoRow == [status |-> "absent", claimed_by |-> NoName, token |-> NoToken,
          lease |-> NoLease, attempts |-> 0]

Holding == {"resolve", "effect", "settle"}

Init ==
  /\ job      = [j \in Job |-> NoRow]
  /\ docs     = [j \in Job |-> {}]
  /\ active   = User
  /\ pc       = [w \in Worker |-> "idle"]
  /\ round    = [w \in Worker |-> {}]
  /\ held     = [w \in Worker |-> NoClaim]
  /\ outcome  = [w \in Worker |-> "none"]
  /\ issued   = 0
  /\ faults   = 0

-----------------------------------------------------------------------------
(* Mutated forms of the predicates and row updates below: each of them breaks *)
(* a property, and no action uses them.                                      *)

ClaimableIgnoringLease(row, source) ==     \* the expiry conjunct is dropped
  /\ row.attempts < MaxAttempts
  /\ row.status = source \/ row.status = "running"

ClaimableAnyStatus(row, source) ==         \* status != 'running'
  row.attempts < MaxAttempts /\ row.status \notin {"absent", "running"}

ClaimableQueuedOnly(row, source) ==        \* a crashed worker's row is left
  row.attempts < MaxAttempts /\ row.status = "queued" /\ source = "queued"

FencedByName(w) ==                         \* no token in the WHERE clause
  /\ job[held[w].job].status = "running"
  /\ job[held[w].job].claimed_by = WorkerId[w]

AuthorisedAtEnqueue(j) == j \in Job        \* trusts the row, looks nothing up

-----------------------------------------------------------------------------
(* Predicates and row updates of the SQL statements.                        *)

LeaseExpired(row) == row.status = "running" /\ row.lease = 0

\* ClaimSource::predicate
Claimable(row, source) ==
  /\ row.attempts < MaxAttempts
  /\ \/ source = "queued" /\ row.status = "queued"
     \/ source = "expired" /\ LeaseExpired(row)

Exhausted(row) ==
  /\ row.attempts >= MaxAttempts
  /\ row.status = "queued" \/ LeaseExpired(row)

\* The WHERE clause of fenced_update_sql.
Fenced(w) ==
  LET row == job[held[w].job]
  IN  /\ row.status = "running"
      /\ row.claimed_by = WorkerId[w]
      /\ row.token = held[w].token

Released(row, status) ==
  [status |-> status, claimed_by |-> NoName, token |-> NoToken,
   lease |-> NoLease, attempts |-> row.attempts]

Claimed(row, w) ==
  [status |-> "running", claimed_by |-> WorkerId[w], token |-> issued + 1,
   lease |-> LeaseTicks, attempts |-> row.attempts + 1]

\* retry_update for a transient failure; the verdict itself otherwise.
StatusAfter(verdict, attempt) ==
  IF verdict # "retry" THEN verdict
  ELSE IF attempt >= MaxAttempts THEN "dead" ELSE "queued"

\* AppUserResolver::caller_for: the requester exists and is active.
Authorised(j) == Requester[j] \in active

-----------------------------------------------------------------------------
(* The request side and the world.                                          *)

\* enqueue_inner: CREATE job SET status = 'queued', requested_by, ...
Enqueue(j) ==
  /\ job[j].status = "absent"
  /\ job' = [job EXCEPT ![j].status = "queued"]
  /\ UNCHANGED <<docs, active, issued, faults, mind>>

\* app_user.status of a principal is switched by an administrator.
SetActive(u) ==
  /\ active' = IF u \in active THEN active \ {u} ELSE active \cup {u}
  /\ UNCHANGED <<table, mind, faults>>

\* time::now() advances: every lease that has not run out gets shorter.
Tick ==
  /\ \E j \in Job : job[j].lease > 0
  /\ job' = [j \in Job |->
               IF job[j].lease > 0
               THEN [job[j] EXCEPT !.lease = job[j].lease - 1] ELSE job[j]]
  /\ UNCHANGED <<docs, active, issued, faults, mind>>

-----------------------------------------------------------------------------
(* One turn of ResidentWorker::tick: claim_next, then run.                  *)

\* claim_next, line 303: reap_exhausted dead-letters in one UPDATE.
ReapExhausted(w) ==
  /\ pc[w] = "idle"
  /\ job' = [j \in Job |-> IF Exhausted(job[j])
                           THEN Released(job[j], "dead") ELSE job[j]]
  /\ pc' = [pc EXCEPT ![w] = "scan"]
  /\ UNCHANGED <<docs, active, round, held, outcome, issued, faults>>

\* claim_next: the candidates, each with the source its SELECT saw.
Scan(w) ==
  /\ pc[w] = "scan"
  /\ round' = [round EXCEPT ![w] =
                 {c \in Job \X Source : Claimable(job[c[1]], c[2])}]
  /\ pc' = [pc EXCEPT ![w] = "claim"]
  /\ UNCHANGED <<table, active, held, outcome, faults>>

\* try_claim_from: the conditional UPDATE matched and the row is ours.
Claim(w, j, source) ==
  /\ pc[w] = "claim"
  /\ <<j, source>> \in round[w]
  /\ Claimable(job[j], source)
  /\ job' = [job EXCEPT ![j] = Claimed(job[j], w)]
  /\ issued' = issued + 1
  /\ held' = [held EXCEPT ![w] = [job |-> j, token |-> issued + 1,
                                  attempt |-> job[j].attempts + 1]]
  /\ round' = [round EXCEPT ![w] = {}]
  /\ pc' = [pc EXCEPT ![w] = "resolve"]
  /\ UNCHANGED <<docs, active, outcome, faults>>

\* try_claim_from: no row matched, the round goes on with the next candidate.
LoseClaim(w, j, source) ==
  /\ pc[w] = "claim"
  /\ <<j, source>> \in round[w]
  /\ ~Claimable(job[j], source)
  /\ round' = [round EXCEPT ![w] = @ \ {<<j, source>>}]
  /\ UNCHANGED <<table, active, pc, held, outcome, faults>>

\* claim_next returns None and the tick is over until the next timer.
EndTick(w) ==
  /\ pc[w] = "claim"
  /\ round[w] = {}
  /\ pc' = [pc EXCEPT ![w] = "idle"]
  /\ UNCHANGED <<table, active, round, held, outcome, faults>>

\* run_traced: the live lookup of the requester's authority.
Resolve(w) ==
  LET j == held[w].job
  IN  /\ pc[w] = "resolve"
      /\ \/ /\ Authorised(j)
            /\ pc' = [pc EXCEPT ![w] = "effect"]
            /\ UNCHANGED outcome
         \/ /\ ~Authorised(j)
            /\ pc' = [pc EXCEPT ![w] = "settle"]
            /\ outcome' = [outcome EXCEPT ![w] = "denied"]
      /\ UNCHANGED <<job, docs, active, round, held, issued, faults>>

\* run_create_doc: the document is created, or the write is refused
\* (permission, hook, malformed payload), or it fails in transit.  A failure in
\* transit may hide a write that was committed.  Nothing here looks at the lease.
RunCreateDoc(w) ==
  LET j == held[w].job
      Create == docs' = [docs EXCEPT ![j] = @ \cup {held[w].attempt}]
      Report(o) == outcome' = [outcome EXCEPT ![w] = o]
  IN  /\ pc[w] = "effect"
      /\ pc' = [pc EXCEPT ![w] = "settle"]
      /\ \/ Create /\ Report("done")
         \/ Create /\ Report("retry")
         \/ Report("retry") /\ UNCHANGED docs
         \/ Report("denied") /\ UNCHANGED docs
      /\ UNCHANGED <<job, active, round, held, issued, faults>>

\* renew_lease, open to a handler before a long section.
RenewLease(w) ==
  /\ pc[w] = "effect"
  /\ Fenced(w)
  /\ job' = [job EXCEPT ![held[w].job].lease = LeaseTicks]
  /\ UNCHANGED <<docs, active, issued, faults, mind>>

\* The worker forgets its claim and goes back to the timer.
Drop(w) ==
  /\ pc' = [pc EXCEPT ![w] = "idle"]
  /\ round' = [round EXCEPT ![w] = {}]
  /\ held' = [held EXCEPT ![w] = NoClaim]
  /\ outcome' = [outcome EXCEPT ![w] = "none"]

\* finish_with / requeue: one fenced UPDATE; if the fence rejects it, nothing
\* is written and the worker just goes on.
Settle(w) ==
  LET c == held[w]
  IN  /\ pc[w] = "settle"
      /\ job' = IF Fenced(w)
                THEN [job EXCEPT ![c.job] =
                        Released(job[c.job], StatusAfter(outcome[w], c.attempt))]
                ELSE job
      /\ Drop(w)
      /\ UNCHANGED <<docs, active, issued, faults>>

-----------------------------------------------------------------------------
(* Faults: each one is charged to the bound MaxFaults.                      *)

Fault == faults < MaxFaults /\ faults' = faults + 1

\* The process stops; another one takes the worker's place.
Crash(w) ==
  /\ Fault
  /\ pc[w] # "idle"
  /\ Drop(w)
  /\ UNCHANGED <<table, active>>

\* Reaping, scanning or claiming fails: `?` ends the tick.  apply_fenced only
\* logs its error.  Both leave the table as it is and end the worker's turn.
StatementFails(w) ==
  /\ Fault
  /\ pc[w] \in {"scan", "claim", "settle"}
  /\ Drop(w)
  /\ UNCHANGED <<table, active>>

\* The claim is committed but its answer is lost: nobody holds the new token.
ClaimAnswerLost(w, j, source) ==
  /\ Fault
  /\ pc[w] = "claim"
  /\ <<j, source>> \in round[w]
  /\ Claimable(job[j], source)
  /\ job' = [job EXCEPT ![j] = Claimed(job[j], w)]
  /\ issued' = issued + 1
  /\ Drop(w)
  /\ UNCHANGED <<docs, active>>

\* AppUserResolver::caller_for turns a failed SELECT into `None` (`.ok()?`),
\* which run_traced takes for a principal that is gone.
ResolveFails(w) ==
  /\ Fault
  /\ pc[w] = "resolve"
  /\ pc' = [pc EXCEPT ![w] = "settle"]
  /\ outcome' = [outcome EXCEPT ![w] = "denied"]
  /\ UNCHANGED <<table, active, round, held>>

-----------------------------------------------------------------------------
ClaimRound(w) == \E j \in Job, s \in Source : Claim(w, j, s) \/ LoseClaim(w, j, s)

\* What the thread of worker w does by itself.
Work(w) ==
  \/ ReapExhausted(w) \/ Scan(w) \/ ClaimRound(w) \/ EndTick(w)
  \/ Resolve(w) \/ RunCreateDoc(w) \/ Settle(w)

Faulty(w) ==
  \/ Crash(w) \/ StatementFails(w) \/ ResolveFails(w)
  \/ \E j \in Job, s \in Source : ClaimAnswerLost(w, j, s)

Next ==
  \/ \E j \in Job : Enqueue(j)
  \/ \E u \in User : SetActive(u)
  \/ Tick
  \/ \E w \in Worker : Work(w) \/ RenewLease(w) \/ Faulty(w)

Spec == Init /\ [][Next]_vars

\* main.rs runs the tick of every resident every 200 ms for as long as the
\* process lives, and time passes.
FairSpec == Spec /\ WF_vars(Tick) /\ \A w \in Worker : WF_vars(Work(w))

-----------------------------------------------------------------------------
(* Properties.                                                              *)

\* Types: rows, claims and worker positions are of the shapes the code gives them.
TypeOK ==
  /\ job \in [Job -> Row]
  /\ docs \in [Job -> SUBSET (1 .. MaxAttempts)]
  /\ active \subseteq User
  /\ pc \in [Worker -> {"idle", "scan", "claim"} \cup Holding]
  /\ round \in [Worker -> SUBSET (Job \X Source)]
  /\ held \in [Worker -> [job : Job \cup {NoJob}, token : Nat, attempt : Nat]]
  /\ outcome \in [Worker -> {"none", "done", "denied", "retry"}]
  /\ issued \in Nat
  /\ faults \in 0 .. MaxFaults

Holds(w, j) == pc[w] \in Holding /\ held[w].job = j

\* Whatever the interleaving, at most one worker passes the fence of a row, and
\* its attempt is the row's latest (claim_sql / fenced_update_sql).
SoleHolder ==
  \A w \in Worker : pc[w] \in Holding /\ Fenced(w) =>
    /\ held[w].attempt = job[held[w].job].attempts
    /\ \A v \in Worker : Holds(v, held[w].job) /\ Fenced(v) => v = w

\* The documents of a job never outnumber its attempts: a worker whose lease
\* was taken over can still create its document, but only once and only for
\* the attempt that it claimed.
DocsWithinRuns == \A j \in Job : docs[j] \subseteq 1 .. job[j].attempts

\* A row says `done` only if a document exists and `dead` only if the budget is
\* spent; a row in the queue always has budget left.
SettledJustified ==
  \A j \in Job :
    /\ job[j].status = "done" => docs[j] # {}
    /\ job[j].status = "dead" => job[j].attempts = MaxAttempts
    /\ job[j].status = "queued" => job[j].attempts < MaxAttempts

\* A claim ends before its lease does only by the holder's own settlement:
\* no other worker's stale write, reap or claim gets through (JobLease's comment).
Evicted(j) ==
  /\ job[j].status = "running"
  /\ job'[j].status # "running" \/ job'[j].token # job[j].token

EvictionJustified ==
  \A j \in Job : Evicted(j) =>
    \/ LeaseExpired(job[j])
    \/ \E w \in Worker : /\ pc[w] = "settle" /\ pc'[w] = "idle"
                         /\ Holds(w, j) /\ Fenced(w)

OnlyHolderOrExpiry == [][EvictionJustified]_vars

\* A settled row is never written again, by anybody (finish_with, reap_exhausted).
SettledKept == \A j \in Job : job[j].status \in Terminal => job'[j] = job[j]

SettledIsFinal == [][SettledKept]_vars

\* Authority is a lookup at run time, not a snapshot: once the requester is
\* inactive and no run of the job is past its lookup, the job creates nothing
\* until the requester is active again (run_traced).
Quiet(j) ==
  /\ Requester[j] \notin active
  /\ \A w \in Worker : Holds(w, j) => pc[w] # "effect"

QuietKept ==
  \A j \in Job : Quiet(j) =>
    docs'[j] = docs[j] /\ (Requester[j] \notin active' => Quiet(j)')

RevocationHolds == [][QuietKept]_vars

\* Every enqueued job is settled in the end, through crashes, lost answers and
\* failed statements, because leases expire and attempts are counted.
EveryJobSettles ==
  \A j \in Job : job[j].status = "queued" ~> job[j].status \in Terminal

\* The queue implements the ledger: workers, leases and tokens are hidden.
LedgerState == [j \in Job |-> IF job[j].status \in {"queued", "running"}
                              THEN "pending" ELSE job[j].status]
LedgerRuns == [j \in Job |-> job[j].attempts]
Ledger == INSTANCE JobLedger WITH state <- LedgerState, runs <- LedgerRuns
LedgerSpec == Ledger!Spec

-----------------------------------------------------------------------------
(* The inductive invariant behind the safety properties (JobQueueProofs).   *)

\* A row carries a token and a lease exactly while it is running.
RowShape ==
  \A j \in Job :
    /\ job[j].status = "running" =>
         job[j].token \in 1 .. issued /\ job[j].lease >= 0 /\ job[j].attempts > 0
    /\ job[j].status # "running" => job[j].token = NoToken /\ job[j].lease = NoLease
    /\ job[j].status = "absent" => job[j].attempts = 0

\* A claim in a worker's hands was issued, and it is the row's latest if the row
\* still carries its token.
ClaimShape ==
  \A w \in Worker : pc[w] \in Holding =>
    /\ held[w].job \in Job
    /\ held[w].token \in 1 .. issued
    /\ held[w].attempt \in 1 .. job[held[w].job].attempts
    /\ held[w].token = job[held[w].job].token =>
         held[w].attempt = job[held[w].job].attempts

\* No two workers hold the same token, nor the same attempt of one job.
ClaimsDistinct ==
  \A v, w \in Worker : pc[v] \in Holding /\ pc[w] \in Holding /\ v # w =>
    /\ held[v].token # held[w].token
    /\ held[v].job = held[w].job => held[v].attempt # held[w].attempt

\* An attempt whose write is still to come has created nothing, one that reports
\* `done` has created the document, and there is an outcome when one is recorded.
RunShape ==
  \A w \in Worker :
    /\ pc[w] \in {"resolve", "effect"} => held[w].attempt \notin docs[held[w].job]
    /\ pc[w] = "settle" => outcome[w] # "none"
    /\ pc[w] = "settle" /\ outcome[w] = "done" => docs[held[w].job] # {}

\* The conjunction is inductive: a stale or crashed worker changes none of it
\* because the fence compares tokens and tokens are never reused (claim_sql).
IInv ==
  /\ TypeOK /\ RowShape /\ SettledJustified /\ DocsWithinRuns
  /\ ClaimShape /\ ClaimsDistinct /\ RunShape

=============================================================================
