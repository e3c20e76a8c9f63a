------------------------------ MODULE RollupMC ------------------------------
(* Instances of Rollup for TLC.                                             *)
EXTENDS Rollup, TLC

CONSTANTS l1, l2, k1, k2

EachItsOwn == l1 :> k1 @@ l2 :> k2
=============================================================================
