------------------------------ MODULE Sessions ------------------------------
(***************************************************************************)
(* Sessions of one kernel process: the login, the bearer token and its     *)
(* routing (router.rs), the session cache with its generations             *)
(* (tenant_gen.rs), logout and revocation (rest.rs).                       *)
(*                                                                         *)
(* A session is a row of the tenant's own database; the process caches     *)
(* what it read of it, under the generation it had loaded BEFORE it read.  *)
(* Logout and revocation delete rows and bump the generation, in two       *)
(* steps; a row that is deleted behind the kernel's back is noticed when   *)
(* the entry's time is up.                                                 *)
(*                                                                         *)
(* Abstracted: a secret is a model value that is drawn once per tenant (64 *)
(* random characters), the time to live is a flag that time clears, the    *)
(* credentials and the status of an account are either answer, and the JWT *)
(* that goes along with a session is left out.                             *)
(***************************************************************************)
EXTENDS Naturals, FiniteSets

CONSTANTS Worker,         \* request threads of the process
          Tenant,         \* the router's contexts
          Stranger,       \* a name the router has no context for
          NoHint,         \* a login that names no tenant
          User,
          Managers,       \* users whose role may revoke
          Secret,
          Nobody,
          MaxRevocations, \* bound of the model: logouts and revocations
          MaxLosses       \* bound of the model: rows deleted by hand

ASSUME SessionAssumption ==
  /\ Managers \subseteq User
  /\ Stranger \notin Tenant /\ NoHint \notin Tenant \cup {Stranger}
  /\ Nobody \notin Tenant \cup User \cup Secret
  /\ MaxRevocations \in Nat /\ MaxLosses \in Nat

VARIABLES session,     \* the rows of _frust_session in each tenant's database
          issued,      \* history: every session there ever was
          generation,  \* the session generation of each tenant in this process
          cache,       \* the session cache of this process
          req,         \* what each request thread is doing
          over,        \* history: tokens whose logout or revocation was answered
          revocations, losses

sessionVars == <<session, issued, generation, cache, req, over, revocations, losses>>

NoRequest == [pc |-> "idle", kind |-> "none", tenant |-> Nobody, secret |-> Nobody,
              user |-> Nobody, target |-> Nobody, gen |-> 0, ended |-> {}, late |-> FALSE]

Row(s, u) == [secret |-> s, user |-> u]
Rows == [secret : Secret, user : User]

\* Sessions outlive the process: `earlier` are those of the one before.
SessionInit(earlier) ==
  /\ session     = earlier
  /\ issued      = earlier
  /\ generation  = [t \in Tenant |-> 0]
  /\ cache       = {}
  /\ req         = [w \in Worker |-> NoRequest]
  /\ over        = {}
  /\ revocations = 0
  /\ losses      = 0

-----------------------------------------------------------------------------
(* Mutated forms of definitions below; no action uses them.                 *)

KeyBySecret(t, s) == <<Nobody, s>>             \* the cache key is the token alone

GenerationNow(w) == generation[req[w].tenant]  \* the generation is loaded at the insertion

UpToDateForever(w, e) == e.gen = req[w].gen    \* entries have no time to live

-----------------------------------------------------------------------------
GoTo(w, pc) == req' = [req EXCEPT ![w].pc = pc]
Answer(w) == req' = [req EXCEPT ![w] = NoRequest]
At(w, pc) == req[w].pc = pc

(* Login.                                                                   *)

\* login_context: a hint that is there and names no tenant is refused; without
\* one, the only tenant.
LoginContext(hint) ==
  IF hint # NoHint THEN {hint} \cap Tenant
  ELSE {t \in Tenant : Tenant = {t}}

Login(w, hint, u) ==
  /\ At(w, "idle")
  /\ \E t \in LoginContext(hint) :
       req' = [req EXCEPT ![w] = [NoRequest EXCEPT !.pc = "signin", !.kind = "login",
                                                   !.tenant = t, !.user = u]]
  /\ UNCHANGED <<session, issued, generation, cache, over, revocations, losses>>

\* signin, and the status of the account: either may refuse.
SignIn(w) ==
  /\ At(w, "signin")
  /\ GoTo(w, "mint") \/ Answer(w)
  /\ UNCHANGED <<session, issued, generation, cache, over, revocations, losses>>

\* One CREATE; the answer carries `<tenant>.<secret>`.
MintSession(w) ==
  /\ At(w, "mint")
  /\ LET t == req[w].tenant IN
     \E s \in Secret \ {row.secret : row \in issued[t]} :
       /\ session' = [session EXCEPT ![t] = @ \cup {Row(s, req[w].user)}]
       /\ issued' = [issued EXCEPT ![t] = @ \cup {Row(s, req[w].user)}]
  /\ Answer(w)
  /\ UNCHANGED <<generation, cache, over, revocations, losses>>

-----------------------------------------------------------------------------
(* A request with a bearer token.                                           *)

Revoking(kind) == kind \in {"logout", "revoke"}

\* route_token comes before any call of a database: a prefix the router does not
\* know is refused.
Arrive(w, t, s, kind, target) ==
  /\ At(w, "idle")
  /\ t \in Tenant
  /\ Revoking(kind) => revocations < MaxRevocations
  /\ revocations' = IF Revoking(kind) THEN revocations + 1 ELSE revocations
  /\ req' = [req EXCEPT ![w] = [NoRequest EXCEPT !.pc = "load", !.kind = kind, !.tenant = t,
                !.secret = s, !.target = target, !.late = <<t, s>> \in over]]
  /\ UNCHANGED <<session, issued, generation, cache, over, losses>>

LoadGeneration(w) ==
  /\ At(w, "load")
  /\ req' = [req EXCEPT ![w].pc = "lookup", ![w].gen = generation[req[w].tenant]]
  /\ UNCHANGED <<session, issued, generation, cache, over, revocations, losses>>

Key(t, s) == <<t, s>>
KeyOf(w) == Key(req[w].tenant, req[w].secret)

\* The generation matches and the entry is inside its SESSION_TTL.
UpToDate(w, e) == e.gen = req[w].gen /\ e.fresh

Admit(w, u) == req' = [req EXCEPT ![w].pc = "admitted", ![w].user = u]

LookUp(w) ==
  /\ At(w, "lookup")
  /\ LET hits == {e \in cache : e.key = KeyOf(w) /\ UpToDate(w, e)} IN
     \/ \E e \in hits : Admit(w, e.user)
     \/ hits = {} /\ GoTo(w, "select")
  /\ UNCHANGED <<session, issued, generation, cache, over, revocations, losses>>

\* SELECT .. WHERE token = ..; no row is E_UNAUTHENTICATED.
ReadSession(w) ==
  /\ At(w, "select")
  /\ LET found == {row \in session[req[w].tenant] : row.secret = req[w].secret} IN
     \/ \E row \in found : req' = [req EXCEPT ![w].pc = "keep", ![w].user = row.user]
     \/ found = {} /\ Answer(w)
  /\ UNCHANGED <<session, issued, generation, cache, over, revocations, losses>>

\* The generation loaded before the row was read goes into the entry.
GenerationKept(w) == req[w].gen

KeepSession(w) ==
  /\ At(w, "keep")
  /\ cache' = {e \in cache : e.key # KeyOf(w)} \cup
       {[key |-> KeyOf(w), gen |-> GenerationKept(w), user |-> req[w].user, fresh |-> TRUE]}
  /\ Admit(w, req[w].user)
  /\ UNCHANGED <<session, issued, generation, over, revocations, losses>>

-----------------------------------------------------------------------------
(* Logout and revocation, once admitted.                                    *)

DeleteRows(w, rows) ==
  /\ session' = [session EXCEPT ![req[w].tenant] = @ \ rows]
  /\ req' = [req EXCEPT ![w].pc = "bump",
                ![w].ended = {row.secret : row \in rows} \cup
                  (IF req[w].kind = "logout" THEN {req[w].secret} ELSE {})]

Logout(w) ==
  /\ At(w, "admitted") /\ req[w].kind = "logout"
  /\ DeleteRows(w, {row \in session[req[w].tenant] : row.secret = req[w].secret})
  /\ UNCHANGED <<issued, generation, cache, over, revocations, losses>>

\* Every session of the user named; managers only.
Revoke(w) ==
  /\ At(w, "admitted") /\ req[w].kind = "revoke"
  /\ IF req[w].user \in Managers
       THEN DeleteRows(w, {row \in session[req[w].tenant] : row.user = req[w].target})
       ELSE Answer(w) /\ UNCHANGED session
  /\ UNCHANGED <<issued, generation, cache, over, revocations, losses>>

\* invalidate_sessions, and the answer.
Bump(w) ==
  /\ At(w, "bump")
  /\ generation' = [generation EXCEPT ![req[w].tenant] = @ + 1]
  /\ over' = over \cup {<<req[w].tenant, s>> : s \in req[w].ended}
  /\ Answer(w)
  /\ UNCHANGED <<session, issued, cache, revocations, losses>>

-----------------------------------------------------------------------------
(* Time, operators and faults.                                              *)

\* SESSION_TTL passes.
Lapse(e) ==
  /\ e \in cache /\ e.fresh
  /\ cache' = (cache \ {e}) \cup {[e EXCEPT !.fresh = FALSE]}
  /\ UNCHANGED <<session, issued, generation, req, over, revocations, losses>>

\* A row is deleted out of band.
RemoveRow(t, row) ==
  /\ row \in session[t]
  /\ losses < MaxLosses
  /\ losses' = losses + 1
  /\ session' = [session EXCEPT ![t] = @ \ {row}]
  /\ UNCHANGED <<issued, generation, cache, req, over, revocations>>

\* A call of the database fails, or its answer is lost: the request ends, and a
\* revocation that deleted rows does so without its bump.
RequestFails(w) ==
  /\ req[w].pc \in {"signin", "mint", "select", "bump"}
  /\ Answer(w)
  /\ UNCHANGED <<session, issued, generation, cache, over, revocations, losses>>

\* The process restarts: what it held in memory is gone, the rows stay.
ForgetSessions ==
  /\ generation' = [t \in Tenant |-> 0]
  /\ cache' = {}
  /\ req' = [w \in Worker |-> NoRequest]
  /\ UNCHANGED <<session, issued, over, revocations, losses>>

SessionStep(w) ==
  SignIn(w) \/ MintSession(w) \/ LoadGeneration(w) \/ LookUp(w) \/ ReadSession(w)
    \/ KeepSession(w) \/ Logout(w) \/ Revoke(w) \/ Bump(w)

-----------------------------------------------------------------------------
(* Properties.                                                              *)

Entries == [key : Tenant \X Secret, gen : Nat, user : User, fresh : BOOLEAN]

Kinds == {"none", "login", "call", "subscribe", "events", "unsubscribe", "logout", "revoke"}
Asking == [pc : {"idle", "signin", "mint", "load", "lookup", "select", "keep", "admitted",
                 "subscribe", "bump"},
           kind : Kinds, tenant : Tenant \cup {Nobody}, secret : Secret \cup {Nobody},
           user : User \cup {Nobody}, target : User \cup {Nobody}, gen : Nat,
           ended : SUBSET Secret, late : BOOLEAN]

\* Types of the rows, the cache and the requests.
SessionTypeOK ==
  /\ session \in [Tenant -> SUBSET Rows]
  /\ issued \in [Tenant -> SUBSET Rows]
  /\ generation \in [Tenant -> Nat]
  /\ cache \subseteq Entries
  /\ req \in [Worker -> Asking]
  /\ over \subseteq Tenant \X Secret
  /\ revocations \in Nat /\ losses \in Nat

\* Whoever a request acts as is the user whose session the token names in the
\* token's tenant, also when two tenants drew the same secret (rest.rs:78).
AdmittedAsOwner ==
  \A w \in Worker : At(w, "admitted") =>
    Row(req[w].secret, req[w].user) \in issued[req[w].tenant]

\* No request that begins after a logout or a revocation has been answered is let
\* in with a session it ended, whatever lookups were under way at that moment
\* (rest.rs:57, rest.rs:438).
LogoutIsFinal ==
  \A w \in Worker : At(w, "admitted") => ~req[w].late

\* A token whose row is gone is refused in the end, whoever deleted the row
\* (rest.rs:63).
GoneIsRefused ==
  \A t \in Tenant, s \in Secret :
    <>[](\A row \in session[t] : row.secret # s) =>
      <>[](\A w \in Worker : ~(At(w, "admitted") /\ req[w].tenant = t /\ req[w].secret = s))

-----------------------------------------------------------------------------
(* The inductive invariant of the proofs.                                   *)

RequestShape ==
  \A w \in Worker :
    /\ req[w].pc # "idle" => req[w].tenant \in Tenant
    /\ req[w].pc \in {"load", "lookup", "select", "keep", "admitted"} => req[w].secret \in Secret
    /\ req[w].pc \in {"mint", "signin", "keep", "admitted", "subscribe"} => req[w].user \in User

\* A secret is drawn once per tenant.
RowsIssued ==
  \A t \in Tenant :
    /\ session[t] \subseteq issued[t]
    /\ \A r1, r2 \in issued[t] : r1.secret = r2.secret => r1 = r2

\* What the cache and a request under way believe of a token was true once.
Believed ==
  /\ \A e \in cache : Row(e.key[2], e.user) \in issued[e.key[1]]
  /\ \A w \in Worker : req[w].pc \in {"keep", "admitted"} =>
       Row(req[w].secret, req[w].user) \in issued[req[w].tenant]

\* A session that was ended has no row any more, from the DELETE on.
Ended(t, s) ==
  /\ \E row \in issued[t] : row.secret = s
  /\ \A row \in session[t] : row.secret # s

EndedAreGone ==
  /\ \A k \in over : Ended(k[1], k[2])
  /\ \A w \in Worker : req[w].pc = "bump" => \A s \in req[w].ended : Ended(req[w].tenant, s)

\* What was read of an ended session before its DELETE carries an older generation.
Outdated ==
  /\ \A e \in cache : /\ e.gen <= generation[e.key[1]]
                      /\ e.key \in over => e.gen < generation[e.key[1]]
  /\ \A w \in Worker :
       /\ req[w].pc \in {"lookup", "select", "keep"} => req[w].gen <= generation[req[w].tenant]
       /\ req[w].pc = "keep" /\ <<req[w].tenant, req[w].secret>> \in over =>
            req[w].gen < generation[req[w].tenant]

\* A late request has loaded a generation above all of these.
LateOutrun ==
  \A w \in Worker : req[w].late =>
    /\ <<req[w].tenant, req[w].secret>> \in over
    /\ req[w].pc \in {"load", "lookup", "select"}
    /\ req[w].pc = "lookup" =>
         /\ \A e \in cache : e.key = <<req[w].tenant, req[w].secret>> => e.gen < req[w].gen
         /\ \A v \in Worker : /\ req[v].pc = "keep"
                              /\ req[v].tenant = req[w].tenant /\ req[v].secret = req[w].secret
                              => req[v].gen < req[w].gen

SessionInv ==
  /\ SessionTypeOK /\ RequestShape /\ RowsIssued /\ Believed
  /\ EndedAreGone /\ Outdated /\ LateOutrun
=============================================================================
