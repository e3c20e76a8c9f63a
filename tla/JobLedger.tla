----------------------------- MODULE JobLedger -----------------------------
(***************************************************************************)
(* What the job queue of the kernel promises to the callers of `enqueue`,   *)
(* with no workers, leases or tokens in it.                                 *)
(*                                                                         *)
(* A submitted job is run at most MaxAttempts times.  Each run creates the *)
(* job's document at most once, and may do so late, even after the job has *)
(* been settled by another run: the queue is at-least-once.  A job is      *)
(* settled once, and for good:                                             *)
(*   done     only if some run created the document,                       *)
(*   dead     only when its runs are used up,                              *)
(*   denied   only after a run was started.                                *)
(* JobQueue implements this specification (JobQueue!LedgerSpec).           *)
(***************************************************************************)
EXTENDS Naturals

CONSTANTS Job,         \* the job records
          MaxAttempts  \* how often a job may be run

VARIABLES state,  \* state[j]: absent, pending, or how j was settled
          runs,   \* runs[j]: how many runs of j were started
          docs    \* docs[j]: the runs of j that created the document

vars == <<state, runs, docs>>

Init ==
  /\ state = [j \in Job |-> "absent"]
  /\ runs  = [j \in Job |-> 0]
  /\ docs  = [j \in Job |-> {}]

Submit(j) ==
  /\ state[j] = "absent"
  /\ state' = [state EXCEPT ![j] = "pending"]
  /\ UNCHANGED <<runs, docs>>

Begin(j) ==
  /\ state[j] = "pending"
  /\ runs[j] < MaxAttempts
  /\ runs' = [runs EXCEPT ![j] = runs[j] + 1]
  /\ UNCHANGED <<state, docs>>

CreateDocument(j, n) ==
  /\ n \in (1 .. runs[j]) \ docs[j]
  /\ docs' = [docs EXCEPT ![j] = docs[j] \cup {n}]
  /\ UNCHANGED <<state, runs>>

Settle(j, verdict) ==
  /\ state[j] = "pending"
  /\ runs[j] > 0
  /\ verdict = "done" => docs[j] # {}
  /\ state' = [state EXCEPT ![j] = verdict]
  /\ UNCHANGED <<runs, docs>>

\* Any number of jobs whose runs are used up are given up together.
Bury(S) ==
  /\ \A j \in S : state[j] = "pending" /\ runs[j] = MaxAttempts
  /\ state' = [j \in Job |-> IF j \in S THEN "dead" ELSE state[j]]
  /\ UNCHANGED <<runs, docs>>

Next ==
  \/ \E j \in Job :
       \/ Submit(j)
       \/ Begin(j)
       \/ \E n \in 1 .. MaxAttempts : CreateDocument(j, n)
       \/ \E verdict \in {"done", "denied"} : Settle(j, verdict)
  \/ \E S \in SUBSET Job : Bury(S)

Spec == Init /\ [][Next]_vars
=============================================================================
