----------------------------- MODULE JobQueueMC -----------------------------
(* Instances of JobQueue for TLC.                                          *)
EXTENDS JobQueue

CONSTANTS j1, w1, w2, u1

\* All jobs of one requester, all workers under one name, as two processes that
\* serve the same tenant roster have it.
OneRequester == [j \in Job |-> u1]
SameName == [w \in Worker |-> "resident-0"]
=============================================================================
