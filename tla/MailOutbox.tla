----------------------------- MODULE MailOutbox -----------------------------
(***************************************************************************)
(* The mail outbox of a tenant (`_frust_mail`) and the mail threads that    *)
(* drain it (MailWorker in worker.rs; enqueue_mail and record_dead_mail in  *)
(* broker.rs put the rows there).                                          *)
(*                                                                         *)
(* A sender is the mail thread of one kernel process.  Unlike a job, a     *)
(* claimed message has no lease and no token: the claim is the only        *)
(* conditional statement, the mark_* statements write by record id, and no *)
(* code takes a message back from a sender that is gone.                   *)
(*                                                                         *)
(* The relay is outside of the program: it accepts a message or refuses it, *)
(* for now or for good, and a refusal in transit may hide an acceptance.   *)
(***************************************************************************)
EXTENDS Naturals, FiniteSets

CONSTANTS Msg,          \* messages
          Sender,       \* mail threads, one per kernel process
          NoMsg,        \* no message in hand
          MaxAttempts,  \* MAX_ATTEMPTS
          BatchLimit,   \* LIMIT 200 of queued_ids
          MaxFaults     \* bound of the model: crashes and failed statements

ASSUME MailAssumption ==
  /\ MaxAttempts \in Nat \ {0}
  /\ BatchLimit \in Nat \ {0}
  /\ MaxFaults \in Nat
  /\ NoMsg \notin Msg

VARIABLES row,        \* the table: row[m] is status, attempts and age of m
          accepted,   \* accepted[m]: how often the relay took m
          refused,    \* history: messages that the relay or the rule refused for good
          pc,         \* pc[s]: where sender s stands in drain/send_one
          batch,      \* batch[s]: the ids of queued_ids not yet tried
          held,       \* held[s]: the claimed MailRow
          result,     \* result[s]: what deliver returned
          tried,      \* history: what s has claimed since it read the queue
          arrivals,   \* messages enqueued so far, the clock of enqueued_at
          faults      \* bound of the model: faults so far

vars == <<row, accepted, refused, pc, batch, held, result, tried, arrivals, faults>>
thread == <<pc, batch, held, result, tried>>

Nothing == [msg |-> NoMsg, attempts |-> 0]

MailRows == [status   : {"absent", "queued", "sending", "sent", "dead"},
             attempts : 0 .. MaxAttempts,
             enqueued : Nat]

Init ==
  /\ row      = [m \in Msg |-> [status |-> "absent", attempts |-> 0, enqueued |-> 0]]
  /\ accepted = [m \in Msg |-> 0]
  /\ refused  = {}
  /\ pc       = [s \in Sender |-> "idle"]
  /\ batch    = [s \in Sender |-> {}]
  /\ held     = [s \in Sender |-> Nothing]
  /\ result   = [s \in Sender |-> "none"]
  /\ tried    = [s \in Sender |-> {}]
  /\ arrivals = 0
  /\ faults   = 0

-----------------------------------------------------------------------------
(* Mutated forms of definitions below; no action uses them.                 *)

ClaimableFresh(m) == row[m].status = "queued" /\ row[m].attempts = 0

KeepsSending(m, n, r) ==                   \* mark_retry without status = 'queued'
  [row[m] EXCEPT !.status = IF r = "permanent" \/ n >= MaxAttempts THEN "dead" ELSE "sending",
                 !.attempts = n]

-----------------------------------------------------------------------------
(* The outbox rows.                                                         *)

\* The WHERE clause of try_claim_mail.
Claimable(m) == row[m].status = "queued"

\* send_one's failure arm with mark_dead and mark_retry: n is row.attempts + 1.
AfterFailure(m, n, r) ==
  [status   |-> IF r = "permanent" \/ n >= MaxAttempts THEN "dead" ELSE "queued",
   attempts |-> n,
   enqueued |-> row[m].enqueued]

\* mark_sent
AfterDelivery(m) ==
  [status |-> "sent", attempts |-> row[m].attempts + 1, enqueued |-> row[m].enqueued]

Queued == {m \in Msg : row[m].status = "queued"}

\* queued_ids: the oldest BatchLimit of the queued rows.
IsHead(S) ==
  /\ S \subseteq Queued
  /\ \A m \in S, n \in Queued \ S : row[m].enqueued < row[n].enqueued
  /\ Cardinality(S) <= BatchLimit
  /\ Cardinality(S) = BatchLimit \/ S = Queued

Oldest(S, m) == m \in S /\ \A n \in S : row[m].enqueued <= row[n].enqueued

-----------------------------------------------------------------------------
(* What the write path puts into the outbox.                                *)

\* enqueue_mail, once per rule that fires.
EnqueueMail(m) ==
  /\ row[m].status = "absent"
  /\ arrivals' = arrivals + 1
  /\ row' = [row EXCEPT ![m] = [status |-> "queued", attempts |-> 0, enqueued |-> arrivals + 1]]
  /\ UNCHANGED <<accepted, refused, thread, faults>>

\* record_dead_mail: the message cannot even be addressed.
RecordDeadMail(m) ==
  /\ row[m].status = "absent"
  /\ arrivals' = arrivals + 1
  /\ row' = [row EXCEPT ![m] = [status |-> "dead", attempts |-> 0, enqueued |-> arrivals + 1]]
  /\ refused' = refused \cup {m}
  /\ UNCHANGED <<accepted, thread, faults>>

-----------------------------------------------------------------------------
(* One pass of MailWorker::drain.                                           *)

\* queued_ids bounds the pass by the queue it saw when it started.
ReadQueue(s) ==
  /\ pc[s] = "idle"
  /\ \E S \in SUBSET Queued : IsHead(S) /\ batch' = [batch EXCEPT ![s] = S]
  /\ pc' = [pc EXCEPT ![s] = "drain"]
  /\ tried' = [tried EXCEPT ![s] = {}]
  /\ UNCHANGED <<row, accepted, refused, held, result, arrivals, faults>>

\* try_claim_mail on the next id of the pass.
ClaimMail(s, m) ==
  /\ pc[s] = "drain"
  /\ Oldest(batch[s], m)
  /\ batch' = [batch EXCEPT ![s] = @ \ {m}]
  /\ \/ /\ Claimable(m)
        /\ row' = [row EXCEPT ![m].status = "sending"]
        /\ held' = [held EXCEPT ![s] = [msg |-> m, attempts |-> row[m].attempts]]
        /\ pc' = [pc EXCEPT ![s] = "deliver"]
        /\ tried' = [tried EXCEPT ![s] = @ \cup {m}]
     \/ ~Claimable(m) /\ UNCHANGED <<row, held, pc, tried>>
  /\ UNCHANGED <<accepted, refused, result, arrivals, faults>>

\* Mailer::deliver, blocking.  A transient failure may come after the relay took it.
Deliver(s) ==
  LET m == held[s].msg
      Returns(r) == result' = [result EXCEPT ![s] = r]
      Accepts == accepted' = [accepted EXCEPT ![m] = @ + 1]
  IN  /\ pc[s] = "deliver"
      /\ pc' = [pc EXCEPT ![s] = "mark"]
      /\ \/ Accepts /\ (Returns("ok") \/ Returns("transient")) /\ UNCHANGED refused
         \/ Returns("transient") /\ UNCHANGED <<accepted, refused>>
         \/ Returns("permanent") /\ refused' = refused \cup {m} /\ UNCHANGED accepted
      /\ UNCHANGED <<row, batch, held, tried, arrivals, faults>>

\* mark_sent, mark_retry or mark_dead: by record id, with no condition.
Mark(s) ==
  LET m == held[s].msg
  IN  /\ pc[s] = "mark"
      /\ row' = [row EXCEPT ![m] = IF result[s] = "ok" THEN AfterDelivery(m)
                                   ELSE AfterFailure(m, held[s].attempts + 1, result[s])]
      /\ pc' = [pc EXCEPT ![s] = "drain"]
      /\ held' = [held EXCEPT ![s] = Nothing]
      /\ result' = [result EXCEPT ![s] = "none"]
      /\ UNCHANGED <<accepted, refused, batch, tried, arrivals, faults>>

\* Mutated EndPass: the pass reads the queue again before it is over.
RereadsQueue(s) ==
  /\ pc[s] = "drain"
  /\ batch[s] = {}
  /\ \E S \in SUBSET Queued : IsHead(S) /\ batch' = [batch EXCEPT ![s] = S]
  /\ UNCHANGED <<row, accepted, refused, pc, held, result, tried, arrivals, faults>>

\* The pass is over; the thread sleeps for 250 ms.
EndPass(s) ==
  /\ pc[s] = "drain"
  /\ batch[s] = {}
  /\ pc' = [pc EXCEPT ![s] = "idle"]
  /\ UNCHANGED <<row, accepted, refused, batch, held, result, tried, arrivals, faults>>

-----------------------------------------------------------------------------
(* Faults, charged to MaxFaults.                                            *)

Fault == faults < MaxFaults /\ faults' = faults + 1

Abandon(s) ==
  /\ pc' = [pc EXCEPT ![s] = "idle"]
  /\ batch' = [batch EXCEPT ![s] = {}]
  /\ held' = [held EXCEPT ![s] = Nothing]
  /\ result' = [result EXCEPT ![s] = "none"]

\* The process stops and another takes its place, or a statement before the
\* delivery fails and `?` ends the pass.
Crash(s) ==
  /\ Fault
  /\ pc[s] # "idle"
  /\ Abandon(s)
  /\ UNCHANGED <<row, accepted, refused, tried, arrivals>>

\* The claim is committed but its answer is lost: `?` ends the pass.
ClaimAnswerLost(s, m) ==
  /\ Fault
  /\ pc[s] = "drain"
  /\ Oldest(batch[s], m)
  /\ Claimable(m)
  /\ row' = [row EXCEPT ![m].status = "sending"]
  /\ Abandon(s)
  /\ UNCHANGED <<accepted, refused, tried, arrivals>>

\* `let _ = self.mark_*(..)`: the result is ignored and the pass goes on.
MarkFails(s) ==
  /\ Fault
  /\ pc[s] = "mark"
  /\ pc' = [pc EXCEPT ![s] = "drain"]
  /\ held' = [held EXCEPT ![s] = Nothing]
  /\ result' = [result EXCEPT ![s] = "none"]
  /\ UNCHANGED <<row, accepted, refused, batch, tried, arrivals>>

-----------------------------------------------------------------------------
Drain(s) ==
  \/ ReadQueue(s) \/ (\E m \in Msg : ClaimMail(s, m))
  \/ Deliver(s) \/ Mark(s) \/ EndPass(s)

Faulty(s) == Crash(s) \/ MarkFails(s) \/ \E m \in Msg : ClaimAnswerLost(s, m)

Next ==
  \/ \E m \in Msg : EnqueueMail(m) \/ RecordDeadMail(m)
  \/ \E s \in Sender : Drain(s) \/ Faulty(s)

Spec == Init /\ [][Next]_vars

\* main.rs runs the drain of every tenant every 250 ms for as long as the
\* process lives, and SMTP has a timeout of ten seconds.
FairSpec == Spec /\ \A s \in Sender : WF_vars(Drain(s))

-----------------------------------------------------------------------------
(* Properties.                                                              *)

\* Types of the rows and of what a sender has in hand.
TypeOK ==
  /\ row \in [Msg -> MailRows]
  /\ accepted \in [Msg -> Nat]
  /\ refused \subseteq Msg
  /\ pc \in [Sender -> {"idle", "drain", "deliver", "mark"}]
  /\ batch \in [Sender -> SUBSET Msg]
  /\ held \in [Sender -> [msg : Msg \cup {NoMsg}, attempts : 0 .. MaxAttempts]]
  /\ result \in [Sender -> {"none", "ok", "transient", "permanent"}]
  /\ tried \in [Sender -> SUBSET Msg]
  /\ arrivals \in Nat
  /\ faults \in 0 .. MaxFaults

Carries(s, m) == pc[s] \in {"deliver", "mark"} /\ held[s].msg = m

\* The statements after the claim need no condition, because the row of a message
\* in hand is nobody else's: it says `sending`, with the count the sender read.
HandsOff ==
  \A s \in Sender, m \in Msg : Carries(s, m) =>
    /\ row[m].status = "sending"
    /\ row[m].attempts = held[s].attempts
    /\ held[s].attempts < MaxAttempts
    /\ \A t \in Sender : Carries(t, m) => t = s

\* The relay never takes a message more often than it was tried, so never more
\* than MAX_ATTEMPTS times, although a claim can outlive its sender.
DeliveriesBounded ==
  \A m \in Msg : /\ accepted[m] <= row[m].attempts + (IF row[m].status = "sending" THEN 1 ELSE 0)
                 /\ accepted[m] <= MaxAttempts

\* `sent` means the relay took it, `dead` that it was refused for good or that the
\* attempts are used up, and a message in the queue has attempts left.
OutcomeJustified ==
  \A m \in Msg :
    /\ row[m].status = "sent" => accepted[m] > 0
    /\ row[m].status = "dead" => m \in refused \/ row[m].attempts = MaxAttempts
    /\ row[m].status \in {"queued", "sending"} => row[m].attempts < MaxAttempts

\* A crash or a failed statement strands at most one message: the senders that
\* live on keep theirs, and the rest stays in the queue.
Stranded == {m \in Msg : row[m].status = "sending" /\ \A s \in Sender : ~Carries(s, m)}

OneLossPerFault == Cardinality(Stranded) <= faults

\* "A message that fails transiently must NOT be re-picked in this same pass"
\* (drain): one attempt per message, sender and pass.
OncePerPass ==
  [][\A s \in Sender, m \in Msg : ~Carries(s, m) /\ Carries(s, m)' => m \notin tried[s]]_vars

\* A message that is settled, one way or the other, is left alone for good.
SettledIsFinal ==
  [][\A m \in Msg : row[m].status \in {"sent", "dead"} => row'[m] = row[m]]_vars

\* Every queued message is sent, dead, or stranded by a fault; a message that
\* fails again and again at the head of the queue starves none behind it.
EveryMailSettles ==
  \A m \in Msg : row[m].status = "queued" ~> (row[m].status \in {"sent", "dead"} \/ m \in Stranded)

-----------------------------------------------------------------------------
(* The inductive invariant behind HandsOff and DeliveriesBounded.           *)

\* A message in hand that waits for its mark was taken at most once more than its
\* count says, and one not yet delivered no more often.
InHand ==
  \A s \in Sender :
    /\ pc[s] \in {"deliver", "mark"} => held[s].msg \in Msg
    /\ pc[s] = "deliver" => accepted[held[s].msg] <= held[s].attempts
    /\ pc[s] = "mark" =>
         /\ result[s] # "none"
         /\ result[s] = "ok" => accepted[held[s].msg] > 0
         /\ result[s] = "permanent" => held[s].msg \in refused

\* Nothing is counted against a message that is not there yet.
Uncounted == \A m \in Msg : row[m].status = "absent" => row[m].attempts = 0

\* The conjunction is inductive: a row is `sending` from its one conditional
\* claim to its mark, and no statement puts a stranded row back.
IInv == TypeOK /\ HandsOff /\ DeliveriesBounded /\ OutcomeJustified /\ InHand /\ Uncounted

=============================================================================
