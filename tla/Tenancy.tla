------------------------------- MODULE Tenancy -------------------------------
(***************************************************************************)
(* Where a tenant's data lives (kernel/src/tenancy.rs): the four           *)
(* topologies, the configurations a process accepts, the home each         *)
(* registered tenant is given and what may be done to that home alone.     *)
(*                                                                         *)
(* A name is a member of Name when it is a plain identifier.  A tenant's   *)
(* canonical id is its slug.  The connection settings are left out.        *)
(***************************************************************************)
EXTENDS Naturals, Sequences

CONSTANTS Name,        \* plain identifiers, the names of the environments among them
          DefaultNs,   \* DEFAULT_NAMESPACE
          Env,         \* DeploymentEnvironment: production, sandbox, test
          Garbled,     \* a setting that is not a plain identifier
          Unset        \* a setting that is not given

ASSUME TenancyAssumption ==
  /\ DefaultNs \in Name
  /\ Env \subseteq Name
  /\ Garbled \notin Name
  /\ Unset \notin Name

Topology == {"database-per-tenant", "single", "namespace-per-tenant",
             "namespace-per-tenant-env"}
Setting == {"namespace", "database", "environment"}

\* What an operator can write: FRUST_TENANCY, FRUST_NS, FRUST_DATABASE,
\* FRUST_ENVIRONMENT and the roster FRUST_TENANTS.
Config == [topology : Topology \cup {Garbled},
           setting  : [Setting -> Name \cup {Garbled, Unset}],
           roster   : Seq(Name \cup {Garbled})]

\* Mutated form of IsolatedPlan below: isolation inferred from "a database is named".
IsolatedByShape(c) == TRUE

PerNamespace == {"namespace-per-tenant", "namespace-per-tenant-env"}

Uses(topology, s) ==
  CASE s = "namespace"   -> topology \notin PerNamespace
    [] s = "database"    -> topology \in {"single", "namespace-per-tenant"}
    [] s = "environment" -> topology = "namespace-per-tenant-env"

\* A setting the topology does not use is a contradiction, not a spare part.
Refuses(c) == {s \in Setting : ~Uses(c.topology, s) /\ c.setting[s] # Unset}

Registered(c) == {c.roster[i] : i \in DOMAIN c.roster}

RosterStands(c) ==
  /\ c.roster # <<>>
  /\ Registered(c) \subseteq Name
  /\ \A i, j \in DOMAIN c.roster : c.roster[i] = c.roster[j] => i = j

SettingsStand(c) ==
  /\ Uses(c.topology, "namespace")   => c.setting["namespace"] \in Name \cup {Unset}
  /\ Uses(c.topology, "database")    => c.setting["database"] \in Name
  /\ Uses(c.topology, "environment") => c.setting["environment"] \in Env

\* Tenancy::from_config returns a Tenancy.
Accepted(c) ==
  /\ RosterStands(c)
  /\ c.topology \in Topology
  /\ Refuses(c) = {}
  /\ SettingsStand(c)

SharedNs(c) == IF c.setting["namespace"] = Unset THEN DefaultNs ELSE c.setting["namespace"]

\* TenancyStrategy::resolve: where each topology puts a canonical tenant.
DatabasePerTenant(c, t)  == [ns |-> SharedNs(c), db |-> t]
SingleTenant(c, t)       == [ns |-> SharedNs(c), db |-> c.setting["database"]]
NamespacePerTenant(c, t) == [ns |-> t, db |-> c.setting["database"]]
NamespacePerTenantEnvironment(c, t) == [ns |-> t, db |-> c.setting["environment"]]

\* Tenancy::resolve for a registered tenant.
Home(c, t) ==
  CASE c.topology = "database-per-tenant"      -> DatabasePerTenant(c, t)
    [] c.topology = "single"                   -> SingleTenant(c, t)
    [] c.topology = "namespace-per-tenant"     -> NamespacePerTenant(c, t)
    [] c.topology = "namespace-per-tenant-env" -> NamespacePerTenantEnvironment(c, t)

Homes(c) == {Home(c, t) : t \in Registered(c)}

\* BackupPlan::is_tenant_isolated: restoring the home touches this tenant only.
IsolatedPlan(c) == c.topology # "single"
=============================================================================
