---------------------------- MODULE SchemaSyncMC ----------------------------
(* Instances of SchemaSync for TLC.                                         *)
EXTENDS SchemaSync, TLC

CONSTANTS r1, r2, kernel

\* Threads of one process.
OneProcess == [r \in Runner |-> kernel]

Interchangeable == Permutations(Field) \cup Permutations(Runner)
=============================================================================
