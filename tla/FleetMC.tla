------------------------------- MODULE FleetMC -------------------------------
(* Instances of Fleet for TLC.                                              *)
EXTENDS Fleet, TLC

CONSTANTS a, b, n, people, notes

D(type, option) == [type |-> type, option |-> option, readonly |-> FALSE, default |-> "", assert |-> ""]

TablesOf == [c \in Column |-> IF c = n THEN notes ELSE people]

\* 2 widens a, drops b and adds the table of n; 3 makes b an int where it is
\* missing, a an int again, and asserts n.
Shapes ==
  1 :> (a :> D("int", FALSE)    @@ b :> D("string", TRUE) @@ n :> NoField) @@
  2 :> (a :> D("float", FALSE)  @@ b :> NoField           @@ n :> D("string", FALSE)) @@
  3 :> (a :> D("int", FALSE)    @@ b :> D("int", TRUE)    @@
        n :> [D("string", FALSE) EXCEPT !.assert = "$value != ''"])

Calm == [operators |-> {"o1"}, stages |-> {"plain"}, sizes |-> {1}, approvals |-> {TRUE},
         first |-> 1, known |-> {people}, returns |-> FALSE, values |-> {}, stores |-> 0,
         deploys |-> 0, statuses |-> 0, byHand |-> 0, faults |-> 0]

\* Crashes and failures, a canary before a rollout, two operators at once, approvals
\* withheld while documents are stored and the schema is changed by hand.
Resumed == [Calm EXCEPT !.deploys = 2, !.statuses = 1, !.faults = 1]
Promoted == [Calm EXCEPT !.stages = {"canary", "rollout"}, !.sizes = {1, 2},
                     !.deploys = 1, !.statuses = 1, !.faults = 1]
Contended == [Calm EXCEPT !.operators = {"o1", "o2"}, !.stages = {"canary", "rollout"},
                   !.first = 2, !.faults = 1]
Edited == [Calm EXCEPT !.approvals = BOOLEAN, !.values = {"int", "float", "string"},
                   !.first = 2, !.stores = 1, !.deploys = 1, !.byHand = 1]

Mixed == {Resumed, Promoted, Contended, Edited}

Returning == {[Calm EXCEPT !.deploys = 2, !.returns = TRUE]}
==============================================================================
