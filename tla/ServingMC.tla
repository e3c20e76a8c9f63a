------------------------------ MODULE ServingMC ------------------------------
(* Instances of Serving for TLC.                                            *)
EXTENDS Serving

CONSTANTS t1, t2, u1, u2, x1, x2, t3, j1, j2, j3, j4

SameSecret == [t \in Tenant |-> {Row(x1, IF t = t1 THEN u1 ELSE u2)}]
TwoUsers == [t \in Tenant |-> IF t = t1 THEN {Row(x1, u1), Row(x2, u2)} ELSE {}]
NoneYet == [t \in Tenant |-> {}]
OneOnly == [t \in Tenant |-> IF t = t1 THEN {Row(x1, u1)} ELSE {}]

W(does, earlier, subs) == [does |-> does, earlier |-> earlier, subs |-> subs, stores |-> {}, jobs |-> {}]
M(does, stores) == [W(does, NoneYet, 0) EXCEPT !.stores = stores]
J(jobs) == [W({"job"}, NoneYet, 0) EXCEPT !.jobs = jobs]

Mixed == {W({"login", "call"}, TwoUsers, 0),
          W({"call", "logout", "expiry", "removal"}, SameSecret, 0),
          W({"call", "revoke", "logout", "expiry"}, TwoUsers, 0),
          W({"subscribe", "events", "unsubscribe", "change"}, OneOnly, 1),
          W({"subscribe"}, OneOnly, 3),
          W({"call", "tick", "restart"}, OneOnly, 0),
          W({"root", "restart"}, NoneYet, 0),
          J({j1, j2, j3}),
          J({j1, j3, j4}),
          M({"fire", "update"}, {t1}),
          M({"fire", "extend"}, {t1}),
          M({"fire", "detach"}, {t1}),
          M({"fire"}, {t1, t2}),
          M({"read", "rule", "restart"}, {t1}),
          M({"tell", "rule", "sync"}, {t1})}

JustJobs == {J({j1, j3, j4})}

Queue == <<t1, t2, t3>>
TasksOf == j1 :> t1 @@ j2 :> t1 @@ j3 :> t2 @@ j4 :> t3
OneEach == [kind \in Edits |-> 1]
Shares == [g \in Group |-> IF g = t1 THEN 2 ELSE 1]
=============================================================================
