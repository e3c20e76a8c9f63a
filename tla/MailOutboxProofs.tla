-------------------------- MODULE MailOutboxProofs --------------------------
(***************************************************************************)
(* Theorems about MailOutbox, for every number of messages, senders,        *)
(* attempts and faults, and every batch size.                              *)
(***************************************************************************)
EXTENDS MailOutbox, FiniteSetTheorems, TLAPS

USE MailAssumption DEF MailRows, Nothing, Carries

\* The first state satisfies every part.
LEMMA InitInv == Init => IInv
  BY DEF Init, IInv, TypeOK, HandsOff, DeliveriesBounded, OutcomeJustified, InHand, Uncounted

\* A new row is in nobody's hands.
LEMMA EnqueueInv ==
  ASSUME IInv, NEW m \in Msg, EnqueueMail(m) \/ RecordDeadMail(m) PROVE IInv'
<1>1. /\ row[m].status = "absent"
      /\ UNCHANGED <<accepted, pc, batch, held, result, tried, faults>>
      /\ arrivals' \in Nat
      /\ \E st \in {"queued", "dead"} :
           /\ row' = [row EXCEPT ![m] = [status |-> st, attempts |-> 0, enqueued |-> arrivals + 1]]
           /\ refused' = (IF st = "dead" THEN refused \cup {m} ELSE refused)
  BY DEF IInv, TypeOK, EnqueueMail, RecordDeadMail, thread
<1>2. TypeOK'
  BY <1>1 DEF IInv, TypeOK
<1>3. HandsOff'
  BY <1>1 DEF IInv, TypeOK, HandsOff
<1>4. DeliveriesBounded'
  BY <1>1 DEF IInv, TypeOK, DeliveriesBounded, Uncounted
<1>5. OutcomeJustified'
  BY <1>1 DEF IInv, TypeOK, OutcomeJustified
<1>6. InHand' /\ Uncounted'
  BY <1>1 DEF IInv, TypeOK, InHand, Uncounted
<1> QED
  BY <1>2, <1>3, <1>4, <1>5, <1>6 DEF IInv

\* Reading the queue and ending the pass touch no row and no message in hand.
LEMMA PassInv == ASSUME IInv, NEW s \in Sender, ReadQueue(s) \/ EndPass(s) PROVE IInv'
<1>1. TypeOK'
  <2>1. CASE ReadQueue(s)
    <3>1. PICK S \in SUBSET Queued : batch' = [batch EXCEPT ![s] = S]
      BY <2>1 DEF ReadQueue
    <3>2. S \subseteq Msg
      BY DEF Queued
    <3> QED
      BY <2>1, <3>1, <3>2 DEF IInv, TypeOK, ReadQueue
  <2>2. CASE EndPass(s)
    BY <2>2 DEF IInv, TypeOK, EndPass
  <2> QED
    BY <2>1, <2>2
<1>2. UNCHANGED <<row, accepted, refused, held, result>>
  BY DEF ReadQueue, EndPass
<1>3. \A t \in Sender : pc'[t] \in {"deliver", "mark"} => pc'[t] = pc[t]
  BY DEF IInv, TypeOK, ReadQueue, EndPass
<1>4. HandsOff' /\ InHand'
  BY <1>2, <1>3 DEF IInv, HandsOff, InHand
<1>5. DeliveriesBounded' /\ OutcomeJustified'
  BY <1>2 DEF IInv, DeliveriesBounded, OutcomeJustified
<1>6. Uncounted'
  BY <1>2 DEF IInv, Uncounted
<1> QED
  BY <1>1, <1>4, <1>5, <1>6 DEF IInv

\* A claim finds the row queued, so nobody carries the message.
LEMMA ClaimInv == ASSUME IInv, NEW s \in Sender, NEW m \in Msg, ClaimMail(s, m) PROVE IInv'
<1>1. CASE Claimable(m)
  <2>1. /\ row[m].status = "queued" /\ pc[s] = "drain"
        /\ row' = [row EXCEPT ![m].status = "sending"]
        /\ held' = [held EXCEPT ![s] = [msg |-> m, attempts |-> row[m].attempts]]
        /\ pc' = [pc EXCEPT ![s] = "deliver"]
        /\ UNCHANGED <<accepted, refused, result, arrivals, faults>>
    BY <1>1 DEF ClaimMail, Claimable
  <2>6. /\ row[m].attempts < MaxAttempts /\ accepted[m] <= row[m].attempts
        /\ row[m].attempts \in 0 .. MaxAttempts /\ accepted[m] \in Nat
        /\ row'[m].attempts = row[m].attempts
    BY <2>1 DEF IInv, TypeOK, OutcomeJustified, DeliveriesBounded
  <2>7. \A t \in Sender : ~Carries(t, m)
    BY <2>1 DEF IInv, HandsOff
  <2>2. TypeOK'
    <3>1. row' \in [Msg -> MailRows] /\ pc' \in [Sender -> {"idle", "drain", "deliver", "mark"}]
      BY <2>1 DEF IInv, TypeOK
    <3>2. held' \in [Sender -> [msg : Msg \cup {NoMsg}, attempts : 0 .. MaxAttempts]]
      BY <2>1, <2>6 DEF IInv, TypeOK
    <3>3. batch' \in [Sender -> SUBSET Msg] /\ tried' \in [Sender -> SUBSET Msg]
      <4>1. /\ batch' = [batch EXCEPT ![s] = batch[s] \ {m}]
            /\ tried' = [tried EXCEPT ![s] = tried[s] \cup {m}]
        BY <1>1 DEF ClaimMail
      <4> QED
        BY <4>1 DEF IInv, TypeOK
    <3> QED
      BY <2>1, <3>1, <3>2, <3>3 DEF IInv, TypeOK
  <2>3. HandsOff'
    <3> SUFFICES ASSUME NEW t \in Sender, NEW n \in Msg, Carries(t, n)'
                 PROVE  /\ row'[n].status = "sending" /\ row'[n].attempts = held'[t].attempts
                        /\ held'[t].attempts < MaxAttempts
                        /\ \A u \in Sender : Carries(u, n)' => u = t
      BY DEF HandsOff
    <3>1. CASE t = s
      BY <2>1, <2>6, <2>7, <3>1 DEF IInv, TypeOK
    <3>2. CASE t # s
      <4>1. Carries(t, n) /\ held'[t] = held[t] /\ n # m
        BY <2>1, <2>7, <3>2 DEF IInv, TypeOK
      <4>2. row'[n] = row[n]
        BY <2>1, <4>1 DEF IInv, TypeOK
      <4>3. \A u \in Sender : Carries(u, n)' => Carries(u, n)
        BY <2>1, <4>1 DEF IInv, TypeOK
      <4> QED
        BY <4>1, <4>2, <4>3 DEF IInv, HandsOff
    <3> QED
      BY <3>1, <3>2
  <2>4. DeliveriesBounded' /\ OutcomeJustified'
    BY <2>1, <2>6 DEF IInv, TypeOK, DeliveriesBounded, OutcomeJustified
  <2>5. InHand' /\ Uncounted'
    BY <2>1, <2>6 DEF IInv, TypeOK, InHand, Uncounted
  <2> QED
    BY <2>2, <2>3, <2>4, <2>5 DEF IInv
<1>2. CASE ~Claimable(m)
  <2>1. UNCHANGED <<row, accepted, refused, pc, held, result, tried, arrivals, faults>>
    BY <1>2 DEF ClaimMail
  <2>2. TypeOK'
    BY <2>1 DEF IInv, TypeOK, ClaimMail
  <2> QED
    BY <2>1, <2>2 DEF IInv, HandsOff, DeliveriesBounded, OutcomeJustified, InHand, Uncounted
<1> QED
  BY <1>1, <1>2

\* The relay takes the message at most once more than its count says.
LEMMA DeliverInv == ASSUME IInv, NEW s \in Sender, Deliver(s) PROVE IInv'
<1> DEFINE m == held[s].msg
<1>1. /\ pc[s] = "deliver" /\ m \in Msg
      /\ row[m].status = "sending" /\ row[m].attempts = held[s].attempts
      /\ held[s].attempts < MaxAttempts /\ accepted[m] <= held[s].attempts
      /\ \A t \in Sender : Carries(t, m) => t = s
  BY DEF IInv, HandsOff, InHand, Deliver
<1>2. /\ pc' = [pc EXCEPT ![s] = "mark"]
      /\ UNCHANGED <<row, batch, held, tried, arrivals, faults>>
      /\ \E r \in {"ok", "transient", "permanent"} :
           /\ result' = [result EXCEPT ![s] = r]
           /\ accepted' \in {accepted, [accepted EXCEPT ![m] = @ + 1]}
           /\ r = "ok" => accepted' = [accepted EXCEPT ![m] = @ + 1]
           /\ refused' = IF r = "permanent" THEN refused \cup {m} ELSE refused
  BY DEF Deliver
<1> HIDE DEF m
<1>3. TypeOK'
  <2>1. accepted \in [Msg -> Nat] /\ result \in [Sender -> {"none", "ok", "transient", "permanent"}]
    BY DEF IInv, TypeOK
  <2>2. [accepted EXCEPT ![m] = @ + 1] \in [Msg -> Nat]
    BY <1>1, <2>1
  <2>3. accepted' \in [Msg -> Nat] /\ refused' \subseteq Msg
    BY <1>1, <1>2, <2>1, <2>2 DEF IInv, TypeOK
  <2>4. result' \in [Sender -> {"none", "ok", "transient", "permanent"}]
    BY <1>2, <2>1
  <2> QED
    BY <1>2, <2>3, <2>4 DEF IInv, TypeOK
<1>4. HandsOff' /\ Uncounted'
  BY <1>1, <1>2 DEF IInv, TypeOK, HandsOff, Uncounted
<1>5. DeliveriesBounded'
  BY <1>1, <1>2 DEF IInv, TypeOK, DeliveriesBounded
<1>6. OutcomeJustified'
  BY <1>1, <1>2 DEF IInv, TypeOK, OutcomeJustified
<1>7. InHand'
  <2> SUFFICES ASSUME NEW t \in Sender
               PROVE  /\ pc'[t] \in {"deliver", "mark"} => held'[t].msg \in Msg
                      /\ pc'[t] = "deliver" => accepted'[held'[t].msg] <= held'[t].attempts
                      /\ pc'[t] = "mark" =>
                           /\ result'[t] # "none"
                           /\ result'[t] = "ok" => accepted'[held'[t].msg] > 0
                           /\ result'[t] = "permanent" => held'[t].msg \in refused'
    BY DEF InHand
  <2>1. CASE t = s
    BY <1>1, <1>2, <2>1 DEF IInv, TypeOK, m
  <2>2. CASE t # s
    <3>1. pc'[t] = pc[t] /\ result'[t] = result[t] /\ held'[t] = held[t]
      BY <1>2, <2>2 DEF IInv, TypeOK
    <3>2. pc[t] \in {"deliver", "mark"} => held[t].msg # m /\ held[t].msg \in Msg
      BY <1>1, <2>2 DEF IInv, InHand
    <3>3. pc[t] \in {"deliver", "mark"} => accepted'[held[t].msg] = accepted[held[t].msg]
      BY <1>1, <1>2, <3>2 DEF IInv, TypeOK
    <3> QED
      BY <1>2, <3>1, <3>2, <3>3 DEF IInv, InHand
  <2> QED
    BY <2>1, <2>2
<1> QED
  BY <1>3, <1>4, <1>5, <1>6, <1>7 DEF IInv

\* The mark counts the attempt and ends the carrying, without a condition of its own.
LEMMA MarkInv == ASSUME IInv, NEW s \in Sender, Mark(s) PROVE IInv'
<1> DEFINE m == held[s].msg
           after == IF result[s] = "ok" THEN AfterDelivery(m)
                    ELSE AfterFailure(m, held[s].attempts + 1, result[s])
<1>1. /\ pc[s] = "mark" /\ m \in Msg
      /\ row[m].status = "sending" /\ row[m].attempts = held[s].attempts
      /\ held[s].attempts < MaxAttempts
      /\ \A t \in Sender : Carries(t, m) => t = s
      /\ result[s] = "ok" => accepted[m] > 0
      /\ result[s] = "permanent" => m \in refused
  BY DEF IInv, HandsOff, InHand, Mark
<1>2. /\ row' = [row EXCEPT ![m] = after]
      /\ pc' = [pc EXCEPT ![s] = "drain"]
      /\ held' = [held EXCEPT ![s] = Nothing]
      /\ result' = [result EXCEPT ![s] = "none"]
      /\ UNCHANGED <<accepted, refused, batch, tried, arrivals, faults>>
  BY DEF Mark
<1>3. /\ row[m] \in MailRows /\ accepted[m] \in Nat
      /\ accepted[m] <= row[m].attempts + 1
  BY <1>1 DEF IInv, TypeOK, DeliveriesBounded
<1> HIDE DEF m
<1>10. after = [status   |-> IF result[s] = "ok" THEN "sent"
                            ELSE IF result[s] = "permanent" \/ row[m].attempts + 1 >= MaxAttempts
                            THEN "dead" ELSE "queued",
               attempts |-> row[m].attempts + 1,
               enqueued |-> row[m].enqueued]
  BY <1>1 DEF AfterDelivery, AfterFailure, m
<1>11. row[m].attempts + 1 \in 0 .. MaxAttempts /\ row[m].enqueued \in Nat
  BY <1>1, <1>3
<1>4. /\ after \in MailRows
      /\ after.attempts = row[m].attempts + 1
      /\ after.status \in {"sent", "queued", "dead"}
      /\ after.status = "sent" => accepted[m] > 0
      /\ after.status = "dead" => m \in refused \/ after.attempts = MaxAttempts
      /\ after.status = "queued" => after.attempts < MaxAttempts
  <2> HIDE DEF after
  <2> QED
    BY <1>1, <1>10, <1>11
<1> HIDE DEF after
<1>5. TypeOK'
  BY <1>1, <1>2, <1>4 DEF IInv, TypeOK
<1>6. HandsOff'
  BY <1>1, <1>2, <1>4 DEF IInv, TypeOK, HandsOff, m
<1>7. DeliveriesBounded'
  BY <1>1, <1>2, <1>3, <1>4 DEF IInv, TypeOK, DeliveriesBounded
<1>8. OutcomeJustified'
  BY <1>1, <1>2, <1>4 DEF IInv, TypeOK, OutcomeJustified
<1>9. InHand' /\ Uncounted'
  BY <1>1, <1>2, <1>4 DEF IInv, TypeOK, InHand, Uncounted
<1> QED
  BY <1>5, <1>6, <1>7, <1>8, <1>9 DEF IInv

\* A sender that is lost, or whose mark is lost, leaves the row `sending`.
LEMMA LossInv == ASSUME IInv, NEW s \in Sender, Crash(s) \/ MarkFails(s) PROVE IInv'
<1>1. /\ pc'[s] \in {"idle", "drain"} /\ (\A t \in Sender : t # s => pc'[t] = pc[t] /\ held'[t] = held[t] /\ result'[t] = result[t])
      /\ UNCHANGED <<row, accepted, refused, arrivals>>
  BY DEF IInv, TypeOK, Crash, MarkFails, Abandon
<1>2. TypeOK'
  <2>1. faults' \in 0 .. MaxFaults
    BY DEF IInv, TypeOK, Crash, MarkFails, Fault
  <2>2. Nothing \in [msg : Msg \cup {NoMsg}, attempts : 0 .. MaxAttempts]
    OBVIOUS
  <2> HIDE DEF Nothing
  <2>3. held' \in [Sender -> [msg : Msg \cup {NoMsg}, attempts : 0 .. MaxAttempts]]
    BY <2>2 DEF IInv, TypeOK, Crash, MarkFails, Abandon
  <2>4. /\ pc' \in [Sender -> {"idle", "drain", "deliver", "mark"}]
        /\ batch' \in [Sender -> SUBSET Msg]
        /\ result' \in [Sender -> {"none", "ok", "transient", "permanent"}]
        /\ tried' \in [Sender -> SUBSET Msg]
    BY DEF IInv, TypeOK, Crash, MarkFails, Abandon
  <2> QED
    BY <1>1, <2>1, <2>3, <2>4 DEF IInv, TypeOK
<1>3. HandsOff' /\ InHand'
  BY <1>1 DEF IInv, HandsOff, InHand
<1>4. DeliveriesBounded' /\ OutcomeJustified' /\ Uncounted'
  BY <1>1 DEF IInv, DeliveriesBounded, OutcomeJustified, Uncounted
<1> QED
  BY <1>2, <1>3, <1>4 DEF IInv

\* A claim whose answer is lost strands its message.
LEMMA ClaimLostInv == ASSUME IInv, NEW s \in Sender, NEW m \in Msg, ClaimAnswerLost(s, m) PROVE IInv'
<1>1. /\ row[m].status = "queued"
      /\ row' = [row EXCEPT ![m].status = "sending"]
      /\ UNCHANGED <<accepted, refused, tried, arrivals>>
      /\ pc' = [pc EXCEPT ![s] = "idle"] /\ held' = [held EXCEPT ![s] = Nothing]
      /\ result' = [result EXCEPT ![s] = "none"]
      /\ batch' = [batch EXCEPT ![s] = {}]
      /\ faults' \in 0 .. MaxFaults
  BY DEF IInv, TypeOK, ClaimAnswerLost, Claimable, Abandon, Fault
<1>2. TypeOK'
  <2>1. row' \in [Msg -> MailRows]
    <3> DEFINE claimed == [row[m] EXCEPT !.status = "sending"]
    <3>1. row \in [Msg -> MailRows] /\ row[m] \in MailRows
      BY DEF IInv, TypeOK
    <3>2. claimed \in MailRows
      BY <3>1 DEF MailRows
    <3>3. row' = [row EXCEPT ![m] = claimed]
      BY <1>1
    <3> HIDE DEF claimed
    <3> QED
      BY <3>1, <3>2, <3>3
  <2>2. /\ pc' \in [Sender -> {"idle", "drain", "deliver", "mark"}]
        /\ held' \in [Sender -> [msg : Msg \cup {NoMsg}, attempts : 0 .. MaxAttempts]]
    BY <1>1 DEF IInv, TypeOK, Nothing
  <2>3. /\ batch' \in [Sender -> SUBSET Msg]
        /\ result' \in [Sender -> {"none", "ok", "transient", "permanent"}]
    BY <1>1 DEF IInv, TypeOK
  <2> QED
    BY <1>1, <2>1, <2>2, <2>3 DEF IInv, TypeOK
<1>3. HandsOff'
  BY <1>1 DEF IInv, TypeOK, HandsOff
<1>4. DeliveriesBounded' /\ OutcomeJustified'
  BY <1>1 DEF IInv, TypeOK, DeliveriesBounded, OutcomeJustified
<1>5. InHand'
  BY <1>1 DEF IInv, TypeOK, InHand
<1>6. Uncounted'
  BY <1>1 DEF IInv, TypeOK, Uncounted
<1> QED
  BY <1>2, <1>3, <1>4, <1>5, <1>6 DEF IInv

\* Every step preserves the invariant.
LEMMA StepInv == IInv /\ [Next]_vars => IInv'
<1> SUFFICES ASSUME IInv, [Next]_vars PROVE IInv'
  OBVIOUS
<1>1. ASSUME NEW m \in Msg, EnqueueMail(m) \/ RecordDeadMail(m) PROVE IInv'
  BY <1>1, EnqueueInv
<1>2. ASSUME NEW s \in Sender, Drain(s) PROVE IInv'
  BY <1>2, PassInv, ClaimInv, DeliverInv, MarkInv DEF Drain
<1>3. ASSUME NEW s \in Sender, Faulty(s) PROVE IInv'
  BY <1>3, LossInv, ClaimLostInv DEF Faulty
<1>4. CASE UNCHANGED vars
  BY <1>4 DEF vars, IInv, TypeOK, HandsOff, DeliveriesBounded, OutcomeJustified, InHand, Uncounted
<1> QED
  BY <1>1, <1>2, <1>3, <1>4 DEF Next

\* The inductive invariant holds in every reachable state.
THEOREM Invariance == Spec => []IInv
<1>1. Init => IInv
  BY InitInv
<1>2. IInv /\ [Next]_vars => IInv'
  BY StepInv
<1> QED
  BY <1>1, <1>2, PTL DEF Spec

\* The unconditional marks are safe: try_claim_mail is serialization enough.
THEOREM MarksAreSafe == Spec => []HandsOff
  BY Invariance, PTL DEF IInv

\* The relay takes no message more than MAX_ATTEMPTS times, and rows say why they
\* are settled: send_one.
THEOREM Delivery == Spec => [](DeliveriesBounded /\ OutcomeJustified)
  BY Invariance, PTL DEF IInv

-----------------------------------------------------------------------------
(* One attempt per pass.                                                    *)

\* What a pass has still to try it has not tried.
Apart == \A s \in Sender : batch[s] \cap tried[s] = {}

LEMMA ApartStep == ASSUME IInv, Apart, [Next]_vars PROVE Apart'
<1>1. batch \in [Sender -> SUBSET Msg] /\ tried \in [Sender -> SUBSET Msg]
  BY DEF IInv, TypeOK
<1>2. CASE \E s \in Sender, m \in Msg : ClaimMail(s, m)
  BY <1>1, <1>2 DEF Apart, ClaimMail, Oldest
<1>3. CASE \E s \in Sender : ReadQueue(s)
  BY <1>1, <1>3 DEF Apart, ReadQueue
<1>4. CASE \E s \in Sender, m \in Msg : Crash(s) \/ ClaimAnswerLost(s, m)
  BY <1>1, <1>4 DEF Apart, Crash, ClaimAnswerLost, Abandon
<1>5. CASE UNCHANGED <<batch, tried>>
  BY <1>5 DEF Apart
<1>6. \/ UNCHANGED <<batch, tried>>
      \/ \E s \in Sender, m \in Msg : ClaimMail(s, m) \/ ClaimAnswerLost(s, m)
      \/ \E s \in Sender : ReadQueue(s) \/ Crash(s)
  BY DEF Next, EnqueueMail, RecordDeadMail, thread, Drain, Deliver, Mark, EndPass, Faulty,
     MarkFails, vars
<1>7. CASE \E s \in Sender : Crash(s)
  BY <1>1, <1>7 DEF Apart, Crash, Abandon
<1> QED
  BY <1>2, <1>3, <1>4, <1>5, <1>6, <1>7

\* drain: what a sender takes in hand it has not tried since it read the queue.
THEOREM OneTryPerPass == Spec => OncePerPass
<1> DEFINE A == \A s \in Sender, m \in Msg : ~Carries(s, m) /\ Carries(s, m)' => m \notin tried[s]
<1>1. Init => Apart
  BY DEF Init, Apart
<1>2. IInv /\ Apart /\ [Next]_vars => Apart'
  BY ApartStep
<1>3. IInv /\ Apart /\ [Next]_vars => A
  <2> SUFFICES ASSUME IInv, Apart, [Next]_vars, NEW s \in Sender, NEW m \in Msg,
                      ~(pc[s] \in {"deliver", "mark"} /\ held[s].msg = m),
                      pc'[s] \in {"deliver", "mark"}, held'[s].msg = m
               PROVE  m \notin tried[s]
    OBVIOUS
  <2>1. pc \in [Sender -> {"idle", "drain", "deliver", "mark"}]
        /\ held \in [Sender -> [msg : Msg \cup {NoMsg}, attempts : 0 .. MaxAttempts]]
    BY DEF IInv, TypeOK
  <2>2. \E n \in Msg : ClaimMail(s, n) /\ pc' # pc
    <3>1. ASSUME NEW t \in Sender, ReadQueue(t) \/ EndPass(t) \/ Deliver(t) PROVE FALSE
      BY <2>1, <3>1 DEF ReadQueue, EndPass, Deliver
    <3>2. ASSUME NEW t \in Sender, Mark(t) \/ MarkFails(t) PROVE FALSE
      BY <2>1, <3>2 DEF Mark, MarkFails
    <3>3. ASSUME NEW t \in Sender, NEW n \in Msg, Crash(t) \/ ClaimAnswerLost(t, n) PROVE FALSE
      BY <2>1, <3>3 DEF Crash, ClaimAnswerLost, Abandon
    <3>4. ASSUME UNCHANGED <<pc, held>> PROVE FALSE
      BY <3>4
    <3>5. ASSUME NEW t \in Sender \ {s}, NEW n \in Msg, ClaimMail(t, n) PROVE FALSE
      BY <2>1, <3>5 DEF ClaimMail
    <3>6. ASSUME NEW n \in Msg, ClaimMail(s, n) PROVE ClaimMail(s, n) /\ pc' # pc
      BY <2>1, <3>6, <3>4 DEF ClaimMail
    <3>7. UNCHANGED <<pc, held>> \/ \E t \in Sender : Drain(t) \/ Faulty(t)
      BY DEF Next, EnqueueMail, RecordDeadMail, thread, vars
    <3> QED
      BY <3>1, <3>2, <3>3, <3>4, <3>5, <3>6, <3>7 DEF Drain, Faulty
  <2>3. PICK n \in Msg : ClaimMail(s, n) /\ pc' # pc
    BY <2>2
  <2>4. n = m
    BY <2>1, <2>3 DEF ClaimMail
  <2>5. m \in batch[s]
    BY <2>3, <2>4 DEF ClaimMail, Oldest
  <2> QED
    BY <2>5 DEF Apart
<1>4. IInv /\ Apart /\ [Next]_vars => [A]_vars
  BY <1>3
<1> QED
  BY <1>1, <1>2, <1>4, Invariance, PTL DEF Spec, OncePerPass

-----------------------------------------------------------------------------
(* One loss per fault.                                                      *)

\* Stranded messages are finitely many, and no more than the faults.
Few == IsFiniteSet(Stranded) /\ Cardinality(Stranded) <= faults

\* A set that gains one element at most.
LEMMA OneMore ==
  ASSUME NEW S, NEW T, NEW x, IsFiniteSet(S), T \subseteq S \cup {x}
  PROVE  IsFiniteSet(T) /\ Cardinality(T) <= Cardinality(S) + 1
<1>1. IsFiniteSet(S \cup {x}) /\ Cardinality(S) \in Nat
  BY FS_AddElement, FS_CardinalityType
<1>2. Cardinality(S \cup {x}) \in Nat /\ Cardinality(S \cup {x}) <= Cardinality(S) + 1
  <2>1. Cardinality(S \cup {x}) = Cardinality(S) \/ Cardinality(S \cup {x}) = Cardinality(S) + 1
    BY FS_AddElement
  <2> QED
    BY <1>1, <2>1
<1>3. IsFiniteSet(T) /\ Cardinality(T) \in Nat /\ Cardinality(T) <= Cardinality(S \cup {x})
  BY <1>1, FS_Subset, FS_CardinalityType
<1> QED
  BY <1>1, <1>2, <1>3

\* A set that gains nothing.
LEMMA NoMore ==
  ASSUME NEW S, NEW T, IsFiniteSet(S), T \subseteq S
  PROVE  IsFiniteSet(T) /\ Cardinality(T) <= Cardinality(S)
BY FS_Subset

\* A step without a fault strands nothing.
LEMMA NoneStranded ==
  ASSUME IInv, \/ \E m \in Msg : EnqueueMail(m) \/ RecordDeadMail(m)
               \/ \E s \in Sender : Drain(s)
               \/ UNCHANGED vars
  PROVE  Stranded' \subseteq Stranded /\ faults' = faults
<1>1. /\ row \in [Msg -> MailRows]
      /\ pc \in [Sender -> {"idle", "drain", "deliver", "mark"}]
      /\ held \in [Sender -> [msg : Msg \cup {NoMsg}, attempts : 0 .. MaxAttempts]]
  BY DEF IInv, TypeOK
<1>2. CASE UNCHANGED vars
  BY <1>2 DEF vars, Stranded
<1>3. ASSUME NEW m \in Msg, EnqueueMail(m) \/ RecordDeadMail(m)
      PROVE  Stranded' \subseteq Stranded /\ faults' = faults
  BY <1>1, <1>3 DEF EnqueueMail, RecordDeadMail, thread, Stranded
<1>4. ASSUME NEW s \in Sender, ReadQueue(s) \/ EndPass(s) \/ Deliver(s)
      PROVE  Stranded' \subseteq Stranded /\ faults' = faults
  <2>1. /\ UNCHANGED <<row, held, faults>>
        /\ \A t \in Sender \ {s} : pc'[t] = pc[t]
        /\ pc[s] \in {"deliver", "mark"} <=> pc'[s] \in {"deliver", "mark"}
    BY <1>1, <1>4 DEF ReadQueue, EndPass, Deliver
  <2> QED
    BY <2>1 DEF Stranded
<1>5. ASSUME NEW s \in Sender, NEW m \in Msg, ClaimMail(s, m)
      PROVE  Stranded' \subseteq Stranded /\ faults' = faults
  <2>1. CASE UNCHANGED <<row, held, pc>>
    BY <1>5, <2>1 DEF ClaimMail, Stranded
  <2>2. CASE row' # row \/ held' # held \/ pc' # pc
    <3>1. /\ pc[s] = "drain" /\ faults' = faults
          /\ row' = [row EXCEPT ![m].status = "sending"]
          /\ held' = [held EXCEPT ![s] = [msg |-> m, attempts |-> row[m].attempts]]
          /\ pc' = [pc EXCEPT ![s] = "deliver"]
      BY <1>5, <2>2 DEF ClaimMail
    <3>2. /\ pc'[s] = "deliver" /\ held'[s].msg = m
          /\ \A t \in Sender \ {s} : pc'[t] = pc[t] /\ held'[t] = held[t]
          /\ \A n \in Msg \ {m} : row'[n] = row[n]
      BY <1>1, <3>1
    <3> QED
      BY <3>1, <3>2 DEF Stranded
  <2> QED
    BY <2>1, <2>2
<1>6. ASSUME NEW s \in Sender, Mark(s)
      PROVE  Stranded' \subseteq Stranded /\ faults' = faults
  <2> DEFINE m == held[s].msg
  <2>1. pc[s] = "mark" /\ m \in Msg /\ faults' = faults
    BY <1>6 DEF Mark, IInv, InHand
  <2>2. /\ row'[m].status # "sending"
        /\ \A n \in Msg \ {m} : row'[n] = row[n]
        /\ \A t \in Sender \ {s} : pc'[t] = pc[t] /\ held'[t] = held[t]
        /\ pc'[s] = "drain"
    BY <1>1, <1>6, <2>1 DEF Mark, AfterDelivery, AfterFailure
  <2> QED
    BY <2>1, <2>2 DEF Stranded
<1> QED
  BY <1>2, <1>3, <1>4, <1>5, <1>6 DEF Drain

\* A fault strands the one message that was in hand, or being claimed.
LEMMA OneStranded ==
  ASSUME IInv, NEW s \in Sender, Faulty(s)
  PROVE  faults' = faults + 1 /\ \E x : Stranded' \subseteq Stranded \cup {x}
<1>1. /\ row \in [Msg -> MailRows]
      /\ pc \in [Sender -> {"idle", "drain", "deliver", "mark"}]
      /\ held \in [Sender -> [msg : Msg \cup {NoMsg}, attempts : 0 .. MaxAttempts]]
  BY DEF IInv, TypeOK
<1>2. /\ faults' = faults + 1
      /\ \A t \in Sender \ {s} : pc'[t] = pc[t] /\ held'[t] = held[t]
  BY <1>1 DEF Faulty, Crash, MarkFails, ClaimAnswerLost, Abandon, Fault
<1>3. CASE Crash(s) \/ MarkFails(s)
  <2>1. row' = row
    BY <1>3 DEF Crash, MarkFails
  <2>2. Stranded' \subseteq Stranded \cup {held[s].msg}
    BY <1>2, <2>1 DEF Stranded
  <2> QED
    BY <1>2, <2>2
<1>4. ASSUME NEW m \in Msg, ClaimAnswerLost(s, m)
      PROVE  Stranded' \subseteq Stranded \cup {m}
  <2>1. pc[s] = "drain" /\ \A n \in Msg \ {m} : row'[n] = row[n]
    BY <1>1, <1>4 DEF ClaimAnswerLost
  <2> QED
    BY <1>2, <2>1 DEF Stranded
<1> QED
  BY <1>2, <1>3, <1>4 DEF Faulty

\* send_one: a crash, a lost answer or a failed mark strands one message each.
THEOREM OneLossEach == Spec => []OneLossPerFault
<1>1. Init => Few
  <2> SUFFICES ASSUME Init PROVE Few
    OBVIOUS
  <2>1. Stranded = {}
    BY DEF Init, Stranded
  <2> QED
    BY <2>1, FS_EmptySet DEF Init, Few
<1>2. IInv /\ Few /\ [Next]_vars => Few'
  <2> SUFFICES ASSUME IInv, Few, [Next]_vars PROVE Few'
    OBVIOUS
  <2>1. faults \in Nat /\ Cardinality(Stranded) \in Nat
    BY FS_CardinalityType DEF IInv, TypeOK, Few
  <2>2. CASE \E s \in Sender : Faulty(s)
    <3>1. PICK x : faults' = faults + 1 /\ Stranded' \subseteq Stranded \cup {x}
      BY <2>2, OneStranded
    <3>2. IsFiniteSet(Stranded') /\ Cardinality(Stranded') <= Cardinality(Stranded) + 1
      BY <3>1, OneMore DEF Few
    <3>3. Cardinality(Stranded') \in Nat
      BY <3>2, FS_CardinalityType
    <3> QED
      BY <2>1, <3>1, <3>2, <3>3 DEF Few
  <2>3. CASE ~\E s \in Sender : Faulty(s)
    <3>1. Stranded' \subseteq Stranded /\ faults' = faults
      BY <2>3, NoneStranded DEF Next
    <3>2. IsFiniteSet(Stranded') /\ Cardinality(Stranded') <= Cardinality(Stranded)
      BY <3>1, NoMore DEF Few
    <3>3. Cardinality(Stranded') \in Nat
      BY <3>2, FS_CardinalityType
    <3> QED
      BY <2>1, <3>1, <3>2, <3>3 DEF Few
  <2> QED
    BY <2>2, <2>3
<1>3. Few => OneLossPerFault
  BY DEF Few, OneLossPerFault
<1> QED
  BY <1>1, <1>2, <1>3, Invariance, PTL DEF Spec
=============================================================================
