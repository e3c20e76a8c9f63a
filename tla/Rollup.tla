------------------------------- MODULE Rollup -------------------------------
(***************************************************************************)
(* The worker-maintained rollups of one tenant (aggregates.rs): a resident *)
(* worker replays the changefeed of a source table from a persisted cursor *)
(* and folds signed contributions into buckets.                            *)
(*                                                                         *)
(* A document is the link its key is taken from (the customer, or the item *)
(* of a line) and an amount; the count n is an amount that is always one,  *)
(* and the lines of a document fold like documents.  With ByHop the key is *)
(* the group that the linked customer has when it is first looked up       *)
(* (GroupRevenue and its memo), otherwise it is the link (ItemSales).      *)
(* Decoding an entry is abstracted to what it yields, the document before  *)
(* and after, or nothing: the text of an edit that is not ASCII cannot be  *)
(* undone.  Entries that only define a table are left out.                 *)
(***************************************************************************)
EXTENDS Integers, Sequences, FiniteSets, FiniteSetsExt, Functions

CONSTANTS Record, Link, Key,
          NoRecord,     \* the document does not exist
          NoKey,        \* not in the memo
          Amounts,      \* what a document may be worth
          ItemKey,      \* [Link -> Key], the key of an item
          ByHop,        \* group_revenue, not item_sales
          Worker,       \* the maintenance threads of the kernels of this store
          BatchLimit,   \* entries per tick
          MaxWrites, MaxMoves, MaxFaults, MaxResets, MaxTrims   \* bounds of the model

Version == [link : Link, amount : Amounts]

ASSUME RollupAssumption ==
  /\ IsFiniteSet(Record) /\ IsFiniteSet(Key)   \* tables hold finitely many records
  /\ Amounts \subseteq Int
  /\ ItemKey \in [Link -> Key]
  /\ ByHop \in BOOLEAN
  /\ NoKey \notin Key /\ NoRecord \notin Version
  /\ BatchLimit \in Nat \ {0}
  /\ {MaxWrites, MaxMoves, MaxFaults, MaxResets, MaxTrims} \subseteq Nat

\* A rollup is drained by the maintenance thread of one kernel (rest.rs 137).
OneDrain == \A v, w \in Worker : v = w

VARIABLES table,     \* the source table
          group,     \* the hop field of each customer
          feed,      \* the changefeed that is still kept
          written,   \* the versionstamp of the last write
          bucket,    \* the rollup table
          cursor,    \* agg_cursor:<rollup>.vs
          memo,      \* GroupRevenue.cache of each process
          stands,    \* where a worker stands in tick
          since,     \* the cursor it read
          batch,     \* the entries it read
          moves, faults, resets, trims

rollupVars == <<table, group, feed, written, bucket, cursor, memo, stands, since, batch,
                moves, faults, resets, trims>>
source == <<table, group, feed, written, moves, trims>>
rollup == <<bucket, cursor>>
local == <<memo, stands, since, batch>>

Empty == [k \in Key |-> 0]
NoMemo == [l \in Link |-> NoKey]

RollupInit ==
  /\ table = [d \in Record |-> NoRecord]
  /\ group \in [Link -> Key]
  /\ feed = <<>>
  /\ written = 0
  /\ bucket = Empty
  /\ cursor = 0
  /\ memo = [w \in Worker |-> NoMemo]
  /\ stands = [w \in Worker |-> "idle"]
  /\ since = [w \in Worker |-> 0]
  /\ batch = [w \in Worker |-> <<>>]
  /\ moves = 0 /\ faults = 0 /\ resets = 0 /\ trims = 0

-----------------------------------------------------------------------------
(* Mutated forms of definitions below; no action uses them.                 *)

SinceCursor(c) == c                               \* an entry is read twice

PendingBeyond(s) == {i \in DOMAIN feed : feed[i].vs > s}   \* the first entry is skipped

-----------------------------------------------------------------------------
(* The source.                                                              *)

Entry(d, before, after, decodes) ==
  [vs |-> written + 1, doc |-> d, before |-> before, after |-> after, decodes |-> decodes]

\* A document is created, edited or deleted: its entry is part of the write.  Only of an
\* edit the document before has to be worked out.
WriteSource(d, v, decodes) ==
  /\ written < MaxWrites
  /\ table[d] # v
  /\ NoRecord \in {table[d], v} => decodes
  /\ table' = [table EXCEPT ![d] = v]
  /\ feed' = Append(feed, Entry(d, table[d], v, decodes))
  /\ written' = written + 1
  /\ UNCHANGED <<group, rollup, local, moves, faults, resets, trims>>

\* A customer is put into another group.
MoveGroup(l, k) ==
  /\ moves < MaxMoves /\ moves' = moves + 1
  /\ group[l] # k
  /\ group' = [group EXCEPT ![l] = k]
  /\ UNCHANGED <<table, feed, written, rollup, local, faults, resets, trims>>

\* CHANGEFEED 7d: what is older is dropped.  Assumed: no worker is seven days behind, also
\* none that an entry has stopped.
Trim ==
  /\ trims < MaxTrims /\ trims' = trims + 1
  /\ feed # <<>> /\ Head(feed).vs <= cursor
  /\ feed' = Tail(feed)
  /\ UNCHANGED <<table, group, written, rollup, local, moves, faults, resets>>

-----------------------------------------------------------------------------
(* RollupWorker::tick.                                                      *)

From(c) == c + 1

StandAt(w, where) == stands' = [stands EXCEPT ![w] = where]

\* The cursor; 0 if it never ran.
ReadCursor(w) ==
  /\ stands[w] = "idle"
  /\ since' = [since EXCEPT ![w] = From(cursor)]
  /\ StandAt(w, "feed")
  /\ UNCHANGED <<source, rollup, memo, batch, faults, resets>>

\* SHOW CHANGES .. SINCE s: the positions in the feed.
Pending(s) == {i \in DOMAIN feed : feed[i].vs >= s}

EndTick(w) ==
  /\ StandAt(w, "idle")
  /\ since' = [since EXCEPT ![w] = 0]
  /\ batch' = [batch EXCEPT ![w] = <<>>]

\* What a tick is handed: the entries from the first one that is ready.
Handed(s) ==
  LET ready == Pending(s)
      first == Min(ready)
  IN  IF ready = {} THEN <<>> ELSE SubSeq(feed, first, Min({first + BatchLimit - 1, Len(feed)}))

\* An empty batch ends the drain; so does one with an entry that does not decode, and the
\* cursor stays.
ReadFeed(w) ==
  /\ stands[w] = "feed"
  /\ LET entries == Handed(since[w])
         decode == \A i \in DOMAIN entries : entries[i].decodes
     IN  \/ /\ entries # <<>> /\ decode
            /\ batch' = [batch EXCEPT ![w] = entries]
            /\ StandAt(w, "fold")
            /\ UNCHANGED since
         \/ /\ entries = <<>> \/ ~decode
            /\ EndTick(w)
  /\ UNCHANGED <<source, rollup, memo, faults, resets>>

\* The versions that the entries of the batch take out and put in.
Folded(w) == (UNION {{batch[w][i].before, batch[w][i].after} : i \in DOMAIN batch[w]}) \ {NoRecord}

\* The customers among them that the memo does not know.
Unknown(w) ==
  {l \in Link : ByHop /\ memo[w][l] = NoKey /\ \E version \in Folded(w) : version.link = l}

\* group_of, for a customer that is not in the memo.
LookUp(w, l) ==
  /\ stands[w] = "fold"
  /\ l \in Unknown(w)
  /\ memo' = [memo EXCEPT ![w][l] = group[l]]
  /\ UNCHANGED <<source, rollup, stands, since, batch, faults, resets>>

KeyOf(w, version) == IF ByHop THEN memo[w][version.link] ELSE ItemKey[version.link]

\* contrib: what a version counts for in a bucket.
Contrib(w, version, k) ==
  IF version # NoRecord /\ KeyOf(w, version) = k THEN version.amount ELSE 0

\* The signed fold of a batch.
Delta(w, k) ==
  SumFunction([i \in DOMAIN batch[w] |->
    Contrib(w, batch[w][i].after, k) - Contrib(w, batch[w][i].before, k)])

Advanced(w) == batch[w][Len(batch[w])].vs

\* BEGIN; the deltas; the cursor; COMMIT.
Committed(w) ==
  /\ bucket' = [k \in Key |-> bucket[k] + Delta(w, k)]
  /\ cursor' = Advanced(w)

ReadyToCommit(w) == stands[w] = "fold" /\ Unknown(w) = {}

Commit(w) ==
  /\ ReadyToCommit(w)
  /\ Committed(w)
  /\ EndTick(w)
  /\ UNCHANGED <<source, memo, faults, resets>>

\* recompute_from_source, up to its drain.
Reset(w) ==
  /\ resets < MaxResets /\ resets' = resets + 1
  /\ stands[w] = "idle"
  /\ bucket' = Empty
  /\ cursor' = 0
  /\ UNCHANGED <<source, local, faults>>

-----------------------------------------------------------------------------
(* Faults.                                                                  *)

Fault == faults < MaxFaults /\ faults' = faults + 1

\* A request fails: the drain ends with an error, the timer starts another.
RequestFails(w) ==
  /\ Fault
  /\ stands[w] # "idle"
  /\ EndTick(w)
  /\ UNCHANGED <<source, rollup, memo, resets>>

\* The transaction is committed, its answer is lost.
AnswerLost(w) ==
  /\ Fault
  /\ ReadyToCommit(w)
  /\ Committed(w)
  /\ EndTick(w)
  /\ UNCHANGED <<source, memo, resets>>

\* The process stops and starts again, with an empty memo.
Restart(w) ==
  /\ Fault
  /\ EndTick(w)
  /\ memo' = [memo EXCEPT ![w] = NoMemo]
  /\ UNCHANGED <<source, rollup, resets>>

-----------------------------------------------------------------------------
Tick(w) == ReadCursor(w) \/ ReadFeed(w) \/ (\E l \in Link : LookUp(w, l)) \/ Commit(w)

RollupNext ==
  \/ \E d \in Record, v \in Version \cup {NoRecord}, decodes \in BOOLEAN : WriteSource(d, v, decodes)
  \/ \E l \in Link, k \in Key : MoveGroup(l, k)
  \/ Trim
  \/ \E w \in Worker : Tick(w) \/ Reset(w) \/ RequestFails(w) \/ AnswerLost(w) \/ Restart(w)

RollupSpec == RollupInit /\ [][RollupNext]_rollupVars

\* The maintenance thread drains on a timer.
FairRollupSpec == RollupSpec /\ \A w \in Worker : WF_rollupVars(Tick(w))

-----------------------------------------------------------------------------
(* Properties.                                                              *)

Entries ==
  [vs : Nat, doc : Record, before : Version \cup {NoRecord}, after : Version \cup {NoRecord},
   decodes : BOOLEAN]

\* Types of the tables, the feed and the workers' notes.
RollupTypeOK ==
  /\ table \in [Record -> Version \cup {NoRecord}]
  /\ group \in [Link -> Key]
  /\ feed \in Seq(Entries)
  /\ bucket \in [Key -> Int]
  /\ written \in Nat /\ cursor \in 0 .. written
  /\ memo \in [Worker -> [Link -> Key \cup {NoKey}]]
  /\ stands \in [Worker -> {"idle", "feed", "fold"}]
  /\ since \in [Worker -> Nat]
  /\ batch \in [Worker -> Seq(Entries)]
  /\ {moves, faults, resets, trims} \subseteq Nat

\* The document as of an entry: later changes are undone.
AsOf(c, d) ==
  LET later == {i \in DOMAIN feed : feed[i].vs > c /\ feed[i].doc = d}
  IN  IF later = {} THEN table[d] ELSE feed[Min(later)].before

Worth(version) == IF version = NoRecord THEN 0 ELSE version.amount

\* What a reset replays is still in the feed.
Whole == resets = 0 \/ trims = 0

CurrentKey(version) == IF ByHop THEN group[version.link] ELSE ItemKey[version.link]

WorthIn(k, version) == IF version # NoRecord /\ CurrentKey(version) = k THEN version.amount ELSE 0

\* tick: "a crash before COMMIT replays the batch, never half of it".  Whatever moves
\* and stops, the buckets add up to the documents as of the cursor; and each bucket
\* does for itself as long as no customer has changed its group (Contrib: "exactness
\* through edits, key-moves, and deletes").
NothingLostOrDoubled ==
  Whole =>
    /\ SumFunction(bucket) = SumFunction([d \in Record |-> Worth(AsOf(cursor, d))])
    /\ moves = 0 =>
         \A k \in Key : bucket[k] = SumFunction([d \in Record |-> WorthIn(k, AsOf(cursor, d))])

\* The inductive invariant, part by part.

Dropped == written - Len(feed)

\* The versionstamps are those of the last writes.
Numbered == Dropped >= 0 /\ \A i \in DOMAIN feed : feed[i].vs = Dropped + i

\* An entry leaves its document as the later ones find it; a whole feed begins with nothing.
Linked ==
  /\ \A i \in DOMAIN feed : feed[i].after = AsOf(feed[i].vs, feed[i].doc)
  /\ trims = 0 => Dropped = 0 /\ \A d \in Record : AsOf(0, d) = NoRecord

\* What the cursor is not past is kept.
KeptAhead == Whole => Dropped <= cursor

\* A worker goes by the cursor that stands.
Reading == \A w \in Worker : stands[w] # "idle" => since[w] = From(cursor)

\* Its batch is what follows the cursor in the feed.
Taken ==
  \A w \in Worker : stands[w] = "fold" =>
    /\ batch[w] # <<>>
    /\ \A i \in DOMAIN batch[w] : batch[w][i].vs <= written
    /\ Whole => \A i \in DOMAIN batch[w] :
         /\ cursor + i - Dropped \in DOMAIN feed
         /\ batch[w][i] = feed[cursor + i - Dropped]

\* As long as no customer has moved, the memo is right.
Remembered == moves = 0 => \A w \in Worker, l \in Link : memo[w][l] \in {NoKey, group[l]}

RollupInv ==
  /\ RollupTypeOK /\ Numbered /\ Linked /\ KeptAhead /\ Reading /\ Taken /\ Remembered
  /\ NothingLostOrDoubled

\* Among the entries a tick would be handed is one that does not decode: it holds up the
\* others too.
Stopped ==
  LET next == Handed(From(cursor)) IN \E i \in DOMAIN next : ~next[i].decodes

\* Every write that is in the feed is folded in the end (drain), again after a reset, and
\* however often it fails; unless the drain has come to an entry that does not decode,
\* which can "never corrupt a rollup, only stop it".
CatchesUp ==
  \A n \in 1 .. MaxWrites : (\E i \in DOMAIN feed : feed[i].vs = n) ~> cursor >= n \/ Stopped

=============================================================================
