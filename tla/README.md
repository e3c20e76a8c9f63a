# TLA+ models and proofs of the frust kernel

frust is a metadata-driven ERP kernel (`src/frust-kernel`): an HTTP service that keeps
everything, its own job queue and outbox included, in SurrealDB. Its logic is hard to test
where several threads and several kernel processes share one database and nothing else,
where a decision rests on what was read a statement ago, and where a process stops between
two statements. This directory models those parts in TLA+, checks the models with TLC and
proves the main results with TLAPS.

In the paths below `K` is `src/frust-kernel/kernel/src` and `O` is `src/frust-kernel/orm/src`.

## 1. The system

### Processes and atomicity

One kernel process has 2 to 16 REST threads, a maintenance thread (every 200 ms: one tick of
each tenant's resident job worker, a drain of each rollup, the realtime reaper) and a mail
thread (every 250 ms: one drain of each tenant's outbox), see `K/main.rs` 193-290. Several
kernel processes may serve the same store. Every SQL request is one HTTP call. A statement,
or what stands between BEGIN and COMMIT, is one atomic step of the database; everything
between two statements of a thread may interleave with all the other threads. That is the
granularity of every module here: one action is one statement together with what the thread
computes from its answer.

### Components

| component | state | operations | hard behaviour | what makes it correct |
|---|---|---|---|---|
| Job queue (`K/worker.rs`, `enqueue_inner` in `K/broker.rs`) | `job` table: status, claimed_by, claim_token, lease, attempts | enqueue, reap, claim, renew, run, settle | leases that run out under a living worker, equal worker names, crashes, lost answers | one holder per row, bounded effects, settled for good, live authority |
| Mail outbox (`K/worker.rs`, `K/mail.rs`, `K/broker.rs`) | `_frust_mail` table | enqueue, dead-letter, claim, deliver, mark | claims without lease, delivery before the mark, ignored failures | one attempt per pass, every loss charged to a fault |
| Document write path (`K/broker.rs`, `K/sync.rs`) | documents, docstatus, owner | create, update, delete, hooks, notifications | read - judge - write on a baseline that may be old | the docstatus lattice, disjoint updates, edges that their hooks agreed to, told submits |
| Workflow (`K/workflow.rs`, `db_transition`) | workflow_state | judge, transition | two transitions judged from one state | state and docstatus agree |
| Hooks and scripts (`K/hooks.rs`, `K/sync.rs`) | script cache, pooled instances | look up, dispatch a chain | a slow lookup beside an edit of the metadata, two plans in use at once | owner first; writes go by the last answered edit |
| Sessions and caches (`K/rest.rs`, `K/tenant_gen.rs`, `K/router.rs`) | session rows, cached sessions, DocTypes, rules; generations | login, logout, revoke, lookup, bump | a lookup that is overtaken by a logout; rows deleted behind the kernel | requests act as their session's owner; an ended session is over |
| Realtime (`K/realtime.rs`, `K/wsrpc.rs`) | subscriptions, tick buffers | subscribe, poll, unsubscribe, reap | check - connect - insert; the reaper, the reader thread and polls | bounded overrun, nothing hidden, the idle are reaped |
| Fairness (`K/fairness.rs`, `claim_next`) | token buckets, counter of rounds | admit_verb, fair_round | bursts, workers that take only the first job of a round, more tenants than a round asks | the budget holds, the tenants that rounds ask are served |
| Database client (`K/db.rs`) | root token | sql, retry | a 401 while another thread mints | a call as root survives one expiry |
| Boot (`K/boot.rs`, `K/meta.rs`, `K/keyguard.rs`, `K/main.rs`) | boot lock, meta version, signing key | boot, take over, apply, guard, serve | a lock that is taken over; kernels that die | no published key is served; servers come up |
| Recovery and provisioning (`K/recovery.rs`, `K/provision.rs`) | files, databases | provision, backup, restore | a restore that stops half way and is repeated | what a reset dropped is in a safety backup; other tenants are untouched |
| Tenancy (`K/tenancy.rs`, `K/router.rs`) | configuration, roster | accept, place, route | topologies that share a database | restores stay inside one tenant |
| Schema migrator (`O/lib.rs`) | `_framework_migration`, its lock, the columns | migrate, revert | stale locks, two thieves, stale history, names shared by threads | history tells the schema, evictions cascade only within a name |
| Metadata sync (`K/sync.rs`) | doctype metadata | sync, reclaim | metadata and history read before the lock | no column lost that its caller was not told of |
| Schema algebra (`O/field.rs`, `O/schema.rs`, `O/classify.rs`, `O/decision.rs`, `O/drift.rs`) | none | diff, classify, decide, drift | chains of changes that are each harmless | the gates refuse what destroys; drift tells the gap |
| Fleet rollout (`O/fleet.rs`) | checkpoints | plan, canary, rollout, resume | stops between two statements, two operators, tenants that change | no rollout without its canary; recorded means reached |
| App lifecycle (`K/app.rs`, `K/rest.rs`) | registry, DocType records, fixtures with provenance | install, update, uninstall, enable, disable | a dozen statements without a transaction, two managers, users' edits | one owner per row, edits kept, others' additions kept where nothing overlaps, retries heal what no record took with it |
| Rollups (`K/aggregates.rs`) | cursor, buckets, memo | tick, drain, recompute | feed read outside of the transaction, group memo, entries that do not decode | every entry is folded exactly once |

They interact through the database. The write path puts rows into the outbox and the queue
and, by its changefeed, into the rollups; the queue's worker calls the write path; the sync
changes the tables that the write path writes and the events that enforce the lattice, runs
inside the migrator's lock, and bumps the generation that the caches compare; the app
lifecycle calls the sync and edits the records it reads; boots and restores replace the
databases under all of them. Inside one process the session and metadata caches, the
subscriptions, the buckets and the root token are shared by the threads. `PROJECT.json` lists
the hazards at their lines.

## 2. The modules

| module | what it is |
|---|---|
| `JobLedger` | what the queue promises: a job is submitted once, run a bounded number of times, each run creates at most one document, and its settlement is final |
| `JobQueue` | the `job` table, the workers' statements, time, administrators, faults |
| `JobQueueProofs` | its invariant and safety theorems; `JobQueue` implements `JobLedger` |
| `MailOutbox`, `MailOutboxProofs` | the `_frust_mail` table, the mail threads and the relay |
| `DocWrite`, `DocWriteProofs` | update, create, transition and delete of a submittable document; the proofs about `Rollup`, which replays the feed of such writes, are in the second half of `DocWriteProofs` |
| `SchemaSync`, `SchemaSyncProofs` | the migrator under its lock, with sync, reclaim, app update and revert on top of it |
| `SchemaDiff` | operators: what a field definition says, how snapshots differ, the classes, the gates |
| `Fleet`, `FleetProofs` | the fan-out of a schema over tenants; EXTENDS `SchemaDiff` |
| `Apps`, `AppsProofs` | the app lifecycle, statement by statement |
| `Rollup` | a rollup worker between the changefeed, the buckets and the cursor |
| `Tenancy` | topologies, accepted configurations, the home of a tenant |
| `Startup`, `StartupProofs` | boots, backups, restores, provisioning; EXTENDS `Tenancy` |
| `Sessions`, `Realtime`, `RootToken`, `Fairness`, `Metadata` | parts of one serving process, each with its own variables and actions |
| `Serving`, `ServingProofs` | the process that composes them: requests are admitted by `Sessions` and dispatched to the others; a restart loses what all of them keep in memory |
| `<M>MC` | the instances of `<M>` that TLC checks |

Each module holds its state, actions and properties, and the inductive invariant where there
is one; a block near the top holds mutated forms of definitions, which no action uses. They
show what the properties catch: with one of them in the place of its original, the property
that `PROJECT.json` pairs it with fails.

### JobQueue

`ReapExhausted`, `Scan` and `Claim` or `LoseClaim` are `claim_next` with `try_claim_from`;
`Resolve`, `RunCreateDoc` and `Settle` are `run` with `finish_with`, `requeue` and
`apply_fenced`; `RenewLease` is the renewal. `pc[w]` says between which two statements the
worker stands, `held[w]` is its `Job` and `JobLease`, `round[w]` holds the candidates with the
source (`queued` or `expired`) that its SELECT saw. A lease is the number of ticks left to it.
`docs` is the effect: the attempts that created a document. `RunCreateDoc` succeeds, is
refused, fails, or fails after the write was committed. Faults are a crash at any position, a
failed statement, a claim whose answer is lost, and a failed lookup.

### MailOutbox

`ReadQueue` is `queued_ids` with its LIMIT, `ClaimMail` is `try_claim_mail`, `Deliver` is the
SMTP exchange, whose transient failure may hide an acceptance, and `Mark` is one of
`mark_sent`, `mark_retry`, `mark_dead`. `EnqueueMail` and `RecordDeadMail` are the write
path's side.

### DocWrite

A document has a column x, its workflow state and its docstatus; what callers, scripts and
statements write is a record of some of these columns, and no check keeps a plain write or a
script from naming any of them. `Write` (and `WriteJudged`, for a transition) is
`db_write_inner` up to its statement: the baseline is read under the caller, the payload merged
over it, the edges judged on that (`Edges`), validate run (`Ran`: it puts some columns and drops
some), and only what the caller wrote or a script changed is kept (`Kept`, `Changed`). So
validate may move the docstatus after its edge was judged; `past[d].put` remembers where it did,
and `past[d].apart` that state and docstatus were not written together by a transition. `Merge`
or `Refused` is the statement with what the database judges at that moment: the row permissions
(`MayUpdate`) and the lattice event (`Lattice`). `Notify` tells of what the write did. `Judge`
is `db_transition` up to the judgement. `past` records what happened to a document and is read
by properties only. Abstracted: the role model (an owner and managers), one workflow without
conditions on fields.

### SchemaSync

A runner is a thread that migrates. `StartSync`, `StartReclaim`, `StartUpdate`, `StartRevert`
are its callers with their early refusals; `ReadMetadata` and `ReadHistory` work out what it
wants (with `carry_orphans`) before the lock; `TryCreate`, `CheckStale`, `DeleteStale` are
`lock_acquire`; `LoadHistory`, `Refuse`, `Apply` are the run; `Release` is `lock_release`;
`Attach` is `attach_metadata`. The lock record carries its true owner besides the holder's name,
so that evictions can be spoken of: `evicted` are the runners inside a run whose lock was taken
away, `broken` are the holder names of those to whom that ever happened. `HolderId` gives the
runners their names: the threads of a process share one (`K/sync.rs` 1019), an app's update has
its own, and `lock_release` compares the name, not the owner. Abstracted: a schema is a set of
fields, one app owns the fields of a DocType, the order of the resources in a run, and the row
values. The kernel runs the migrator in the Dev environment, where the classification gate lets
everything pass, so that gate is left to `Fleet`.

### SchemaDiff and Fleet

`SchemaDiff` has the pure part of the migrator as operators: `Parsed` of a definition,
differences, classes (an ordered chain of tests, as in `classify`), what the policy of an
environment allows, what applying leaves of the stored values, drift. `Fleet` uses them: an
operator reads the checkpoints and the active tenants once (`LoadDone`, `LoadEvidence`,
`PlanRun`), takes one tenant after the other (`TakeLock`, `RefuseTable` or `ApplyTable`,
`EndTenant`), and records each by a DELETE and a CREATE (`DeleteRow`, `CreateRow`). Around it
tenants are suspended, versions deployed, documents stored and the schema changed by hand
(`ChangeByHand`: a column added, removed or redefined; `handmade` remembers the columns whose
definition is a hand's); operators crash, reads, tables and records fail. A run id is the
version, as it is a hash of the target in the code.

### Apps

A bundle is what the lifecycle tells apart of a manifest. An operation is a list of statements
(`Steps`) that a session works off one at a time, planned from reads that may be old; it may
break off after any of them, and a call that broke off is made again. Fixture rows are claimed
by `CREATE ONLY` on their provenance; `EditRow` is a user's change of a row an app shipped. The
record of a DocType is read (`ReadPrior`), replaced (`PutDoctype`) and given back the entries of
other apps one at a time (`PutBack`); `shorn[d]` remembers the apps whose entries went with the
record: with its owner's uninstall, or with an operation that broke off while it had them in hand.

### Startup and Tenancy

`Tenancy` says which configurations a process accepts and where each tenant's data lives.
A kernel boots its targets in order: `TryLock`, `Look`, `Steal`, `ReadVersion`, `Apply`,
`KeyGuard`, `Reread`, `Release`, then it serves. The boot lock is deleted without a condition,
also when it is gone by then. A recovery command is a process whose steps (`Export`, `Publish`,
`Rehash`, `Drop`, `Define`, `Import` with `ImportPart`, `Rotate`, `Check`) may each be the last.
Its history `lost` remembers what a reset dropped and which file holds it. Assumed of the
operator, as the runbook says: the kernels are stopped before a restore and none is started
during one.

### Serving and its parts

`Sessions`: `LoadGeneration`, `LookUp`, `ReadSession`, `KeepSession` are `session_caller`, in
the order that makes the cache safe; `DeleteRows` and `Bump` are logout and revocation.
`Realtime`: `Subscribe` (the budget), `Connect`, `GoLive` (taken, refused inside a successful
answer, which `WsRpc::call` does not look into, or failed; `live` tells the first two apart),
`Insert`, and the two steps each of a poll (ticks, flag), of `unsubscribe` and of the reaper,
with the lock of the list. `RootToken`: the shared lock for reading the token, the exclusive one
for minting, the drop after a 401. `Fairness`: the bucket with its refill, and the rounds in
which workers ask the first `MaxGroups` tenants of the grouping and take the first job that is
still there. `Metadata`: the three lookups of a write (DocType, scripts, rules) have the same
pattern, generation, cache, row, and are one set of actions; a chain of scripts runs one script
at a time in the pooled instance of its slot, and a chain is picked out of the list by position
(`Place`, `Only`), a form of `SelectSeq` that can be reasoned about; managers edit a record in
several statements (`Upsert`, `Strip`, `AddField`, `AddScript`, `AddRule`) and bump the
generation after the last. Not every pair of parts interacts, so a behaviour has a *workload*:
which traffic there is. The parts that do interact are explored together.

### Rollup

`WriteSource` is a source write with its changefeed entry, `Trim` the retention of the feed;
`ReadCursor`, `ReadFeed`, `LookUp` and `Commit` are `tick` (`LookUp` is a miss of the group
memo), `Reset` is `recompute_from_source`. `ByHop` selects `GroupRevenue` (the key is the linked
customer's group) or `ItemSales` (the key is the link). `Contrib` is what one version of a
document counts for in a bucket, `Delta` the signed fold of a batch: after minus before, over
its entries. An entry may be one that `decode_entries` refuses (a delete without its original,
an undo that does not apply): `ReadFeed` then ends the tick with the cursor where it was, and
the drain is `Stopped` for as long as that entry is in the batch the cursor is handed. Undo
patches are abstracted to the two documents that they yield. `RollupAssumption` says that
documents and keys are finitely many and amounts are integers of either sign (the decimals are
exact, so that their unit does not matter). Assumed: one thread of one kernel drains a store
(`OneDrain`; `K/rest.rs` 137 says so), and no worker is seven days behind.

## 3. The runs

| run | instance | what it shows |
|---|---|---|
| `JobQueue` | 2 workers with one name (as two processes have), 1 job of 3 attempts, leases of 2 ticks, 3 faults | `SoleHolder`, `OnlyHolderOrExpiry`, `RevocationHolds`; the queue implements the ledger (`LedgerSpec`); the job settles (`EveryJobSettles`) |
| `MailOutbox` | 2 senders, 2 messages of 2 attempts, batches of 1, 1 fault | `OneLossPerFault`, `OncePerPass`; every message settles or was stranded by a fault |
| `DocWrite` | an owner and a manager, 2 requests, 1 document, the approval workflow of the tests, plain writes of every column, 5 scripts (one leaves the document alone, the others set x, submit, set the state, drop docstatus) | `EdgeAgreed`, `StateAndStatusAgree`, `SubmitIsTold`, `DisjointStayDisjoint` |
| `DocWriteSubmit` | the same | finding: two overlapping submits both tell |
| `SchemaSync` | 2 threads of one process with one holder name, 1 DocType of 2 fields, every operation, 2 edits, 1 fault | `HistoryTellsSchema`, `OrphansDontBlock`, `LossKnownIsTold` |
| `Fleet` | 2 tenants, 2 tables, 3 versions that widen, drop, retype and assert; 4 workloads (resume after faults, canary and rollout, two operators, a change by hand with approvals withheld) | `RolloutFollowsCanary`, `PromotableMeansReached`, `NoLossUnasked`, `DriftTellsTheGap`, `FleetConverges` |
| `FleetReturn` | the same tenants, a version deployed again after another | finding: its old checkpoints skip every tenant |
| `Apps` | 3 apps (an owner, one that extends it, one that ships the same row), 2 managers, 8 workloads, 2 edits, 2 break-offs | `OneOwner`, `EditsKept`, `OthersKept`, `FaultsHeal` |
| `Startup` | a server and a one-shot migrate container with one holder name, 3 topologies and a contradictory configuration, 1 to 4 commands, 1 fault | `KeyGuarded`, `SafetyBackupHolds`, `OthersUntouched`, `EventuallyServes` |
| `Serving` | 2 threads, 2 tenants, 2 users, 15 mixes of traffic, 1 restart; jobs of 3 tenants, of which a round asks 2 | `AdmittedAsOwner`, `LogoutIsFinal`, `GoneIsRefused`; `OverrunBounded`, `QuietHidesNothing`, `IdleAreReaped`; `RootCallsSurvive`; `WithinBudget`, `EveryTenantServed`; `WritesFollowMetadata` |
| `ServingSkipped` | the jobs of those 3 tenants alone | finding: a tenant behind the cap of a round is never asked |
| `Rollup` | 1 worker, 1 document, 2 links, 2 keys, 3 writes (any of which may leave an entry that does not decode), 1 move, fault, reset, trim each | `NothingLostOrDoubled`, `CatchesUp` |

Why the bounds are enough. Every hazard that was found is about two actors, one of which acts
on what the other has made old: two workers, senders, runners, requests, managers, kernels or
operators are the least that show it, and a third adds no new pair of statements. Three
attempts have a first, a middle and a last one. Leases of two ticks run out at every position of
their holder and can be renewed before; with `StaleTicks = 0` a schema lock is stale after one
tick, so that it can be stolen at every position; a boot lock may grow stale at any moment
(`SlowBoots`). Batches of one make a pass cut its queue, a buffer of one tick is full after one
change, a budget of one subscription is reached by the second, a round of two tenants leaves a
third one out. One or two faults let the fault
of one actor meet the recovery by the other. In `Serving` one edit of each kind is enough for a
slow lookup to be overtaken, since what it kept can be old or not; in `Fleet` three versions let
a column be dropped and come back with another type. Documents are independent of one another in
`DocWrite`, jobs in `JobQueue`, rows in `Apps`, so that one of them is enough; the invariants
are proved for any number. `ServingMC` gives each mix of traffic the few sessions it needs.

Deadlock is checked except in `Apps`, `Fleet`, `Serving` and `Startup`: their workloads end
(all calls made, all versions deployed, all commands given), and the system then rests.

Fairness. `FairSpec` has weak fairness of the steps that a thread takes by itself, because
`main.rs` repeats ticks and drains on a timer for as long as the process lives, and of time
where leases, lock ages, cache entries or idle subscriptions matter. In `Fleet` the operator
runs the fan-out again and again with every approval (strong fairness of its start, since it is
started whenever it is idle); in `Startup` the compose file restarts servers and a refused
configuration is replaced; in `Apps` managers finish what they began and repeat calls that broke
off. Nothing is assumed of clients, users or the relay. Faults are not fair and are bounded by
the constants that begin with `Max`, or by the workload in `Fleet`.

### Findings

Each is a run that must find a counterexample; `PROJECT.json` quotes the text it contradicts.

1. `SubmitIsToldOnce`: the submit trigger compares with the baseline, not with the row, so two
   overlapping submits both tell.
2. `ReportedMeansThere`: checkpoints are keyed by the target and never removed, so a version
   that is deployed again is skipped everywhere.
3. `NobodySkipped`: a round asks the first 32 tenants of the grouping; the rotation is among
   those, so that with 32 busy tenants before it a tenant is never asked (the model: two before
   the third). `EveryTenantServed` says what does hold: once rounds go on and keep considering
   the same tenants, every one of them is served again and again. It fixes the set because the
   start of a round is its number modulo how many are in it, and with sets that change from round
   to round the rotation can pass a tenant by each time.

Observations that no run covers, because no text contradicts them, or the bound on runs is
better spent:

- a failed SELECT of the requester is settled as a denial of the job (`K/worker.rs` 398);
- a mail claim has no lease: a sender that stops leaves its message in `sending` for good;
- a reclaim is worked out before the lock and applied with `allow_destructive`, so it can drop
  a column of a sync in between (`K/sync.rs` 993); `LossKnownIsTold` says what does hold;
- a recompute replays the feed, which is kept for seven days; the memo of a customer's group
  outlives a change of the group (`K/aggregates.rs` 273);
- two transitions judged from one state are both stored (`K/broker.rs` 742);
- the edges are judged on the document that validate is shown (`K/broker.rs` 898-910), and what
  validate returns for docstatus is kept (912-922): a script can submit a document no on_submit
  hook was asked about, although the comment at 885-897 wants a rejection to prevent the
  transition. `EdgeAgreed` names this exception;
- nothing keeps a plain write, a create or a script from naming workflow_state, which parts it
  from the docstatus; `StateAndStatusAgree` speaks of documents where none did;
- a column a script computes is not sent when its value equals the stale document the script was
  shown (`K/broker.rs` 941); the lattice event is not defined for CREATE (`K/sync.rs` 136);
- threads of one process share one holder name of the schema lock (`K/sync.rs` 1019), so that
  an evicted thread's release deletes the lock of a namesake and the eviction goes on to the next
  one; an absent lock row counts as stale (`O/lib.rs` 1037);
- disabling an app clears its client scripts (`K/rest.rs` 2698) and not its server scripts, which
  `load_server_scripts` (`K/sync.rs` 663) goes on handing out, although the doc comment says that
  "hooks, routes and scripts stop acting" (`K/rest.rs` 2668): the model has it (`Toggle`,
  `Dispatched`), and one install and one disable show it;
- an operation of a DocType's owner that breaks off between the UPSERT of the record
  (`K/rest.rs` 2448) and the put-back loses what other apps had added to it: the call made again
  reads a record without it. `FaultsHeal` promises it only where that did not happen (`shorn`);
- an entry of the feed that does not decode (`K/aggregates.rs` 424) stops its rollup until the
  retention drops it (a recompute meets it again); `CatchesUp` is until then;
- a LIVE statement that the database refuses inside a successful RPC answer (`K/wsrpc.rs`
  210-213) leaves a subscription that is listed as alive and hears nothing; `QuietHidesNothing`
  speaks of the live ones;
- the boot lock's takeover lets two kernels apply the meta schema at once (it is idempotent), and
  `boot_check`, which nothing calls, would judge a plan made before the lock;
- an edit of metadata that breaks off before its bump leaves what is cached in use until the
  next bump, although `K/broker.rs` 330 calls a stale read "structurally impossible"; another
  kernel process on the same store never hears of a bump at all; and a field that a script of a
  newer plan wrote is dropped without a word by a DocType cached from an older one;
- the JWT that the database client keeps per user (`seed_token`) outlives the session it came
  with;
- a conflict is retried by sending the whole query again (`K/db.rs` 530), which is right only
  for one statement or one transaction; two kernels that drain one rollup write one cursor
  without a condition (`K/aggregates.rs` 460);
- a subscription whose `authenticate`, `use` or LIVE call fails after the connection was made
  drops it without `close` (`K/realtime.rs` 141), and the reader thread keeps its half open.

## 4. The proofs

TLAPS checks the theorems for every value of the constants, from the `ASSUME`s of the modules
alone, which say what shapes the constants have, with one exception named below (`OneDrain`).

**JobQueue.** `Invariance: Spec => []IInv`. `SoleHolder` is not inductive: it needs that
tokens in workers' hands were issued (`ClaimShape`) and are distinct (`ClaimsDistinct`), that a
row carries a token exactly while it runs (`RowShape`), and what an attempt has done so far
(`RunShape`). The fence compares tokens and tokens are never reused, so a stale worker changes
nothing. From it `Accounting`, `Exclusive`, `SettlementIsFinal`, `LeaseProtects`,
`RevocationWorks`; and `Refinement: Spec => LedgerSpec`, where each step maps to a step of
`JobLedger` or a stutter.

**MailOutbox.** `MarksAreSafe`: from its one conditional claim to its mark a row is in one
sender's hand, so that the unconditional marks are safe. `Delivery`: the relay never takes a
message more often than it was tried. The strengthening is `InHand` and `Uncounted`. `OneTryPerPass`
needs besides that a pass's list has no row twice. `OneLossEach` bounds a cardinality: each step
adds at most one message to the stranded ones and only a fault adds any. It says nothing of
doubles: a delivery that is accepted and answered with a transient failure is made again without
any fault.

**DocWrite.** The invariant says what may be relied on although the baseline is old: what is
sent is what the caller gave or its script changed, a docstatus that is sent was agreed to or
put there by a script, now or before (`PlanShape`), and the baseline is never ahead of the row,
because the lattice lets statuses only rise and a deleted document does not come back. From it
`EdgesAgreed`, `SubmitsTold`, `LifeCycles`, `SubmittedKept` and `DisjointKept`, for any payloads
and scripts. `StatesAgree` needs that a transition which a script leaves alone sends both
columns (`Together`), and that whatever else touches one of them is remembered in `apart`.

**SchemaSync.** `SyncsDestroyNothing` (what is not allowed to destroy drops no column) holds
whatever overlaps. `OneOverlap` and `HistoryIsTheSchema` hold for any `HolderId`: a runner inside
of which no namesake was evicted has the lock (`NoCascade`, `LockShape`). Until the first eviction
that is every runner inside, so that they do not overlap: what a runner plans from is the newest
history (`PlanFresh`), and only an eviction starts a chain (`EvictionBreaks`). What a runner
knows is another invariant, `LossInv`, which no overlap disturbs because it speaks of the
runner's own notes: at each point of a call, what it saw and will not keep is among what it told
(`TellsLoss`), first by its wish, then by its plan. A sync tells nothing, so that it has nothing
to lose: `OrphansNeverBlock`; and with `ColumnsMove` (only `Apply` moves columns) `LossesAreTold`.

**Fleet.** The invariant (`FleetInvariant`) ties an operator's notes to what tenants have really
reached, a history that only grows: what it skips, the canary evidence and the cohort it goes
by (`Backed`) and each checkpoint record (`CheckpointsAreTrue`) stand for
migrations that happened, though rows are replaced in two statements, reads fail and operators
crash in between. `ReportsAreTrue` and `CanaryComesFirst` follow. `TenantsAreOwned`: at most one
operator is at work in a tenant, by the tenant's lock. `DriftIsTold`: a migration
writes the columns and their history together, under that lock, so that where no hand has
defined a column since, all that ever differs is a presence, which drift detection compares
(`O/drift.rs` 8-13 says that it does not flag definitions).
`NothingIsLostUnasked` needs a property of the operators of `SchemaDiff`: for any two snapshots,
what applying leaves unreadable is of a class that the strict policy refuses unless it is
approved. Working it out showed that the arms of the classification overlap, so that they
must be an ordered chain, and that a version's value is a snapshot, which the assumption now says.

**Sessions** (in `ServingProofs`). `SessionInv` adds to the types that a cached or read row was
issued (`RowsIssued`, `Believed`), that an ended session has no row (`EndedAreGone`), that an
entry for an ended session is of an older generation than a bump that is answered (`Outdated`),
and that a request that began after that is ahead of every entry and every slower lookup
(`LateOutrun`). `AdmissionIsTheOwners` and `LogoutEndsTheSession` follow.

**Metadata** (in `ServingProofs`). The same argument for the generation of the metadata:
`MetaInv` says that an entry, or a row about to be kept, of the current generation holds at
least the version of the last bump (`Entry`, `Informed`), and that what a lookup may still hit
under the generation it loaded, once any slower lookup has kept its row, is no older than the
bump before it began (`ServedByEntries`, `Supplies`). `MetadataStaysRecent` follows, for any
number of stores, threads, edits and breaks. It is the first half of `WritesFollowMetadata`; the
second, that the scripts that run are those of the plan in their order, is `PlanInv`: what a
write has run and what it has still to run are, place by place, the chain of the plan it found
(`Planned`), whatever instances the pool holds. `PlaceIsOne` shows by a least counterexample
that the k-th place exists, `OnlyTheirs` what picking out of a list yields, `ChainIsOfThePlan`
what a chain is. `WritesGoByTheMetadata` is the whole property.

**RootToken** (in `ServingProofs`). `RootInv`: only the holder of the exclusive lock mints or
keeps, and once a call has dropped the token it was refused with, and as long as nothing is
revoked again, neither the cache, nor a caller about to keep one, nor the call itself has a
revoked token (`RenewedIsAlive`). So a call fails on its credential only if the store revoked
tokens again after that drop (`RootCallsAreSafe`).

**Fairness** (in `ServingProofs`). `WithinBudget` speaks of any two ticks. `BudgetInv` has what
makes it inductive: what the bucket holds plus all it has admitted since a tick never exceeds
the burst plus the refill since then. `spent` counts what was admitted over the whole behaviour.

**Realtime** (in `ServingProofs`). `OverrunBounded` is about the check of the budget that is
made before a connection is there: `RealtimeInv` says which requests may still open a
subscription, one per client, and cardinalities do the rest. `QuietPollsHideNothing` needs that
an event that a live subscription is owed is in the buffer or on its way, at each of the two
steps of a poll, an unsubscribe and the reaper. `Client` is assumed finite (they are threads of
a pool).

**Startup.** The invariant ties each process to what it has seen: who stands inside a boot
(`Standing`), that targets are homes of the configuration (`Aimed`), that a database a kernel
serves was judged with the key it still has (`KeysJudged`), that no kernel runs during a restore
(`RestoresAlone`), what a command has done so far (`OpShape`), and where tenants live
(`AllPlaced`). From it `PublishedKeysAreNotServed`, `DroppedDataIsBackedUp` and
`RestoresTouchOneTenant`.

**Apps.** `FixturesHaveOneOwner` follows from the claim by `CREATE ONLY` alone.
`QuietEditsAreKept` needs that every edit has a number of its own (`RowsNumbered`), that a
session's plan fits the rows it read (`Fits`), and that an edit made while no operation was
under way is seen by every later plan (`QuietEditsShow`). `OthersAreKept` is about an operation
that no other one overlaps: `LeftInv` follows each DocType through the statements of the
operation, from what the others had in it at the start, over the record that is replaced and the
entries the session keeps to put back (`Left`), to its end; the steps that could lose an entry
are between `put` and `back`. It needs that the value for an absent record is no record, which
the assumption says.

**Rollup** (in `DocWriteProofs`). `RollupInvariant` and `NothingIsLostOrDoubled`, for any
documents, keys, amounts, batch size, faults, resets and trims, assume `OneDrain`. The property
compares the buckets with sums over the documents *as of the cursor* (`AsOf`: the first later
entry's `before`, or the row), so that a commit has to carry the sums from one cursor to
another. What carries them is the shape of the feed: versionstamps are consecutive (`Numbered`),
each entry leaves its document as the next one finds it (`Linked`), and nothing after the cursor
is dropped (`Kept`). The batch in hand is then the stretch of the feed that begins after the
cursor (`Taken`, `Reading`), and one entry moves `AsOf` of one document from its `before` to its
`after`, which is what `Delta` adds (`Remembered`: with the key that the customer has now, as
long as none has moved). `Whole` leaves out the recompute that finds a trimmed feed. The sums
are folds of the community modules. They are recursive functions chosen by their equation; that
the equation has a solution, and that a sum loses a summand when an element is removed, is shown
by least counterexamples over finite sets, and the step along the batch by a least
counterexample over its positions, so that no induction theorem with an operator parameter is
needed. TLC found `RollupInv` to hold on two documents (2.2 million states) before it was
proved.

**Model-checked only.** Liveness under fairness (`EveryJobSettles`, `EveryMailSettles`,
`CatchesUp`, `FleetConverges`, `EventuallyServes`, `FaultsHeal`, `IdleAreReaped`,
`EveryTenantServed`, `GoneIsRefused`), which the prover cannot do. Every safety invariant and
action property of the passing runs is proved.
`SettledIsFinal`, `LifeCycle`,
`SubmittedIsNotTheOwners`, `NoSilentDrop`, `HandsOff`, `DeliveriesBounded`, `OutcomeJustified`,
`CheckpointsTrue`, `OneAtWork` and `MetadataIsRecent` are proved and need no run of their own.

## 5. The plan

What is left, in the order of its worth: `Startup` and `SchemaSync` composed, so that a boot's
sync meets a REST sync; two kernel processes in `Serving`, with what one does not hear of the
other; two drains of one rollup, with the batches that they apply twice.

## 6. Not modelled

Query rendering, HTTP parsing and status codes, telemetry, artifacts, client SDKs and the MCP
server hold no state of the system. Decimal arithmetic is a pure function of digit strings with
its tests beside it. The WASM engine, SurrealDB, SMTP and the file system are
external: the modules have them as the atomic steps and the failures that the code sees.
Permissions by role beyond owner and manager, and the values of rows, are data that no property
here tells apart. Inside modelled components these are left out: `boot_check`, which nothing calls;
dry runs, which are refused or change nothing; drift of statements other than DEFINE FIELD; two
bundles that declare one DocType or one workflow (the second install is refused or overwrites
it, which the registry does not tell); `HookChain`'s depth and cycle checks, which cannot
refuse because no hook calls back into a write; the seeding of single records; the buttons and
field rules of a workflow; the lag gauge of a rollup.

`E_BREAKS_EXTENSION` is modelled (`Casualties` in `GateRefuses`) but never decides anything:
`extension_casualties` looks among the destructive changes only, and `install_app` has refused
unacknowledged destructive changes just before (`K/rest.rs` 1973-2005).
