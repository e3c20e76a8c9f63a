------------------------------ MODULE StartupMC ------------------------------
(* Instances of Startup for TLC.                                            *)
EXTENDS Startup

CONSTANTS k1, k2, k3, frust, prod, desk, a, b, pid1

Unused == [s \in Setting |-> Unset]
Make(topology, setting, roster) == [topology |-> topology, setting |-> setting, roster |-> roster]

OfTheirOwn  == Make("database-per-tenant", Unused, <<a, b>>)
Shared      == Make("single", [Unused EXCEPT !["database"] = desk], <<a, b>>)
Namespaces  == Make("namespace-per-tenant", [Unused EXCEPT !["database"] = desk], <<a>>)
Contradiction == Make("database-per-tenant", [Unused EXCEPT !["database"] = desk], <<a>>)

AllConfigs == {OfTheirOwn, Shared, Namespaces, Contradiction}

FewForTwo == [c \in Configs |-> IF Len(c.roster) = 1 THEN 4 ELSE IF IsolatedPlan(c) THEN 2 ELSE 1]

SamePid == [k \in Kernel |-> pid1]
OneVersion == [k \in Kernel |-> 2]
MigrateAccepts == [k \in Kernel |-> k \notin Server]
=============================================================================
