------------------------------ MODULE Fairness ------------------------------
(***************************************************************************)
(* The two doors of fairness.rs: the token bucket every verb of a tenant   *)
(* passes, and the order in which a worker's round offers the jobs of the  *)
(* tenants (claim_next in worker.rs).                                      *)
(*                                                                         *)
(* A round reads, per tenant, the heads of its queue, orders them by       *)
(* fair_round and claims the first one that is still there; other workers  *)
(* take jobs between the reading and the claim.  The tenants with work     *)
(* come in an order of the database that does not change, as a GROUP BY    *)
(* gives them.                                                             *)
(*                                                                         *)
(* Abstracted: tokens are whole numbers and the clock ticks; the counter   *)
(* of the rounds is kept modulo Period, which every number of tenants      *)
(* divides; what a claim is has a module of its own (JobQueue).            *)
(***************************************************************************)
EXTENDS Integers, SequencesExt

CONSTANTS Group,          \* tenants
          Order,          \* their order in the database, a sequence
          Drainer,        \* worker threads
          Task,           \* jobs
          GroupOf,        \* [Task -> Group]
          Rate, Burst,    \* the policy of every tenant that has one
          Shaped,         \* the tenants with a policy of their own
          JobsPerRound,   \* [Group -> Nat \ {0}]
          MaxGroups,      \* MAX_TENANTS_PER_ROUND
          HeadPerGroup,   \* HEAD_PER_TENANT
          Period,         \* modulus of the counter of rounds
          MaxClock        \* bound of the model

ASSUME FairnessAssumption ==
  /\ Order \in Seq(Group) /\ ToSet(Order) = Group /\ IsInjective(Order)
  /\ GroupOf \in [Task -> Group]
  /\ Rate \in Nat /\ Burst \in Nat /\ Shaped \subseteq Group
  /\ JobsPerRound \in [Group -> Nat \ {0}]
  /\ MaxGroups \in Nat \ {0} /\ HeadPerGroup \in Nat \ {0}
  /\ \A n \in 1 .. Len(Order) : Period % n = 0
  /\ MaxClock \in Nat

VARIABLES bucket,   \* tokens and the moment they were counted
          spent,    \* history: verbs admitted up to the end of each tick, since the policies
                    \* were loaded
          clock,
          queue,    \* eligible jobs in the order they were enqueued
          round,    \* ROUND
          offers,   \* the jobs a worker's round still has to try
          served    \* history: the tenant whose job was claimed last

bucketVars == <<bucket, spent, clock>>
roundVars == <<queue, round, offers, served>>
fairnessVars == <<bucketVars, roundVars>>

NothingSpent == [c \in 0 .. MaxClock |-> 0]

FairnessInit ==
  /\ bucket = [g \in Group |-> [tokens |-> Burst, last |-> 0]]
  /\ spent  = [g \in Group |-> NothingSpent]
  /\ clock  = 0
  /\ queue  = <<>>
  /\ round  = 0
  /\ offers = [d \in Drainer |-> <<>>]
  /\ served = Order[1]

-----------------------------------------------------------------------------
(* Mutated forms of definitions below; no action uses them.                 *)

RefillUncapped(g) == bucket[g].tokens + (clock - bucket[g].last) * Rate

NoRotation(n) == 0                    \* every round starts at the first tenant

-----------------------------------------------------------------------------
(* The bucket.                                                              *)

Refilled(g) ==
  LET grown == bucket[g].tokens + (clock - bucket[g].last) * Rate
  IN IF grown < Burst THEN grown ELSE Burst

\* take: a refusal counts the tokens anew as well.
AdmitVerb(g) ==
  /\ LET tokens == Refilled(g) IN
     IF g \notin Shaped THEN UNCHANGED <<bucket, spent>>
     ELSE IF tokens >= 1
       THEN /\ bucket' = [bucket EXCEPT ![g] = [tokens |-> tokens - 1, last |-> clock]]
            /\ spent' = [spent EXCEPT ![g][clock] = @ + 1]
       ELSE /\ bucket' = [bucket EXCEPT ![g] = [tokens |-> tokens, last |-> clock]]
            /\ UNCHANGED spent
  /\ UNCHANGED <<clock, roundVars>>

Tick ==
  /\ clock < MaxClock
  /\ clock' = clock + 1
  /\ spent' = [g \in Group |-> [spent[g] EXCEPT ![clock + 1] = spent[g][clock]]]
  /\ UNCHANGED <<bucket, roundVars>>

\* Boot loads the policies: every bucket is full again.
LoadPolicies ==
  /\ bucket' = [g \in Group |-> [tokens |-> Burst, last |-> clock]]
  /\ spent' = [g \in Group |-> NothingSpent]
  /\ UNCHANGED clock

-----------------------------------------------------------------------------
(* The rounds.                                                              *)

\* The jobs of a tenant that claim_next reads, oldest first.
Heads(g) ==
  LET mine == SelectSeq(queue, LAMBDA j : GroupOf[j] = g)
  IN SubSeq(mine, 1, IF Len(mine) < HeadPerGroup THEN Len(mine) ELSE HeadPerGroup)

WithWork == {GroupOf[j] : j \in ToSet(queue)}

\* SELECT tenant .. GROUP BY tenant, of which the first MaxGroups are asked.
Present ==
  LET asked == SelectSeq(Order, LAMBDA g : g \in WithWork)
  IN SubSeq(asked, 1, IF Len(asked) < MaxGroups THEN Len(asked) ELSE MaxGroups)

StartAt(n) == round % n

RotateLeft(s, k) == SubSeq(s, k + 1, Len(s)) \o SubSeq(s, 1, k)

\* The k-th pass over the tenants, whose shares of the round end at their caps.
Pass(groups, k) ==
  LET more == SelectSeq(groups, LAMBDA g : k <= JobsPerRound[g] /\ k <= Len(Heads(g)))
  IN [i \in 1 .. Len(more) |-> Heads(more[i])[k]]

\* fair_round: pass after pass, from a start that moves on with every round.
FairRound ==
  LET groups == IF Len(Present) > 1 THEN RotateLeft(Present, StartAt(Len(Present))) ELSE Present
  IN FlattenSeq([k \in 1 .. HeadPerGroup |-> Pass(groups, k)])

ReadHeads(d) ==
  /\ offers[d] = <<>> /\ queue # <<>>
  /\ offers' = [offers EXCEPT ![d] = FairRound]
  /\ round' = IF Len(Present) > 1 THEN (round + 1) % Period ELSE round
  /\ UNCHANGED <<queue, served, bucketVars>>

\* try_claim: a job that another worker took is passed over.
TryClaim(d) ==
  /\ offers[d] # <<>>
  /\ LET j == Head(offers[d]) IN
     IF j \in ToSet(queue)
       THEN /\ queue' = SelectSeq(queue, LAMBDA i : i # j)
            /\ served' = GroupOf[j]
            /\ offers' = [offers EXCEPT ![d] = <<>>]
       ELSE /\ offers' = [offers EXCEPT ![d] = Tail(@)]
            /\ UNCHANGED <<queue, served>>
  /\ UNCHANGED <<round, bucketVars>>

\* A job enters the queue, for the first time or again.
EnqueueTask(j) ==
  /\ j \notin ToSet(queue)
  /\ queue' = Append(queue, j)
  /\ UNCHANGED <<round, offers, served, bucketVars>>

ForgetRounds ==
  /\ round' = 0
  /\ offers' = [d \in Drainer |-> <<>>]
  /\ UNCHANGED <<queue, served>>

DrainStep(d) == ReadHeads(d) \/ TryClaim(d)

-----------------------------------------------------------------------------
(* Properties.                                                              *)

FairnessTypeOK ==
  /\ bucket \in [Group -> [tokens : 0 .. Burst, last : 0 .. MaxClock]]
  /\ spent \in [Group -> [0 .. MaxClock -> Nat]]
  /\ clock \in 0 .. MaxClock
  /\ queue \in Seq(Task) /\ round \in 0 .. Period - 1
  /\ offers \in [Drainer -> Seq(Task)] /\ served \in Group

AdmittedSince(g, from) == spent[g][clock] - IF from = 0 THEN 0 ELSE spent[g][from - 1]

\* In no span of time is a tenant admitted beyond its burst and its rate, whatever
\* it was refused or left unused before (fairness.rs:51).
WithinBudget ==
  \A g \in Shaped : \A from \in 0 .. clock :
    AdmittedSince(g, from) <= Burst + (clock - from) * Rate

\* As long as the same tenants are asked round after round, each of them is served again
\* and again, however deep the others' backlogs are and whatever other workers take
\* meanwhile (fairness.rs:137).  Of a tenant beyond the cap it says nothing.
Considered == ToSet(Present)
RoundBegins == \E d \in Drainer : ReadHeads(d)

EveryTenantServed ==
  \A S \in SUBSET Group :
    []<><<RoundBegins>>_fairnessVars /\ <>[][RoundBegins => Considered = S]_fairnessVars =>
      \A g \in S : []<>(served = g)

\* worker.rs:62, of the tenants beyond the cap: they "are picked up on the next tick (the
\* round starts from the DB's grouping each time, so nobody is permanently skipped)".
NobodySkipped ==
  \A g \in Group : \/ []<>(g \notin WithWork)
                   \/ []<><<RoundBegins /\ g \in Considered>>_fairnessVars
=============================================================================
