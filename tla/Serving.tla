------------------------------- MODULE Serving -------------------------------
(***************************************************************************)
(* One serving process: the worker threads of rest.rs take requests, admit *)
(* them (Sessions) and dispatch them to the verbs of the broker (the       *)
(* bucket of Fairness) or to the live subscriptions (Realtime); the        *)
(* maintenance thread reaps, the job workers drain (the rounds of          *)
(* Fairness), everything the kernel does as itself goes through the root   *)
(* credential (RootToken), and what a verb knows of its DocType, the       *)
(* scripts it runs among it, comes from the caches of Metadata.            *)
(*                                                                         *)
(* A thread serves one request at a time.  What the parts keep in memory   *)
(* is lost together when the process restarts, and the policies are loaded *)
(* anew.                                                                   *)
(*                                                                         *)
(* A workload is what the clients and the deployment do in one behaviour;  *)
(* the instance has several, so that the parts that do interact are        *)
(* explored together and those that do not are not multiplied.             *)
(***************************************************************************)
EXTENDS Sessions, Realtime, RootToken, Fairness, Metadata

CONSTANTS Workloads,   \* records: the activities, the sessions there are already, how
                       \* many subscriptions may be opened, the DocTypes and jobs there are
          MaxRestarts  \* bound of the model

Requests == {"call", "subscribe", "events", "unsubscribe", "logout", "revoke"}
Activities == Requests \cup {"login", "change", "root", "job", "tick", "expiry", "removal", "restart"}
                \cup Reads \cup Edits

ASSUME ServingAssumption ==
  /\ Client = Worker /\ Owner = User /\ Scope = Tenant /\ Tenant \subseteq Group
  /\ Workloads \subseteq [does : SUBSET Activities, earlier : [Tenant -> SUBSET Rows],
                     subs : Nat, stores : SUBSET Store, jobs : SUBSET Task]
  /\ \A k \in Workloads, t \in Tenant : \A r1, r2 \in k.earlier[t] :
       r1.secret = r2.secret => r1 = r2
  /\ MaxRestarts \in Nat

VARIABLES workload, restarts

vars == <<sessionVars, realtimeVars, rootVars, fairnessVars, metadataVars, workload, restarts>>

Goes(activity) == activity \in workload.does

Init ==
  /\ workload \in Workloads
  /\ restarts = 0
  /\ SessionInit(workload.earlier)
  /\ RealtimeInit
  /\ RootInit
  /\ FairnessInit
  /\ MetadataInit

-----------------------------------------------------------------------------
\* One part moves and the others rest.
InSessions == UNCHANGED <<realtimeVars, rootVars, fairnessVars, metadataVars, workload, restarts>>
InRealtime == UNCHANGED <<sessionVars, rootVars, fairnessVars, metadataVars, workload, restarts>>
InRoot == UNCHANGED <<sessionVars, realtimeVars, fairnessVars, metadataVars, workload, restarts>>
InFairness == UNCHANGED <<sessionVars, realtimeVars, rootVars, metadataVars, workload, restarts>>
InMetadata == UNCHANGED <<sessionVars, realtimeVars, rootVars, fairnessVars, workload, restarts>>

Free(w) == At(w, "idle") /\ Standing(w, "idle")

\* POST /login
LoginRequest(w) ==
  /\ Goes("login") /\ Free(w)
  /\ \E hint \in Tenant \cup {Stranger, NoHint}, u \in User : Login(w, hint, u)
  /\ InSessions

Known == UNION {{<<t, row.secret>> : row \in issued[t]} : t \in Tenant}

\* Subscriptions, the requested ones included.
Asked ==
  Cardinality(Sub \ Fresh)
    + Cardinality({w \in Worker : req[w].kind = "subscribe" \/ Standing(w, "connect")})

\* Any other request, with a token that was issued once, of this tenant or,
\* against the rules, with the name of another one before it.
Request(w) ==
  /\ Free(w)
  /\ \E kind \in Requests \cap workload.does, t \in Tenant, s \in {k[2] : k \in Known} :
       /\ kind = "subscribe" => Asked < workload.subs
       /\ IF kind = "revoke" THEN \E u \in User : Arrive(w, t, s, kind, u)
          ELSE Arrive(w, t, s, kind, Nobody)
  /\ InSessions

Authenticate(w) == SessionStep(w) /\ InSessions

-----------------------------------------------------------------------------
(* dispatch, once the caller is known.                                      *)

Dispatched(w, kind) == At(w, "admitted") /\ req[w].kind = kind

RestOfSessions == <<session, issued, generation, cache, over, revocations, losses>>

\* A verb: instrument admits it or answers E_THROTTLED.
Verb(w) ==
  /\ Dispatched(w, "call")
  /\ AdmitVerb(req[w].tenant)
  /\ Answer(w)
  /\ UNCHANGED <<RestOfSessions, realtimeVars, rootVars, metadataVars, workload, restarts>>

\* session_jwt: the credential of the subscription is read from the row, whatever
\* the cache said.
SessionJwt(w) ==
  /\ Dispatched(w, "subscribe")
  /\ IF \E row \in session[req[w].tenant] : row.secret = req[w].secret
       THEN GoTo(w, "subscribe") ELSE Answer(w)
  /\ UNCHANGED <<RestOfSessions, realtimeVars, rootVars, fairnessVars, metadataVars, workload, restarts>>

OverBudget(t) == ListFree /\ Full(CountForTable(t)) /\ UNCHANGED realtimeVars

SubscribeRequest(w) ==
  /\ At(w, "subscribe")
  /\ Subscribe(w, req[w].user, req[w].tenant) \/ OverBudget(req[w].tenant)
  /\ Answer(w)
  /\ UNCHANGED <<RestOfSessions, rootVars, fairnessVars, metadataVars, workload, restarts>>

\* E_UNKNOWN_SUB for what is not listed, and for what is another user's.
Foreign(w, s) ==
  /\ ListFree
  /\ ~(sub[s].stage = "listed" /\ sub[s].user = req[w].user)
  /\ UNCHANGED realtimeVars

EventsRequest(w) ==
  /\ Dispatched(w, "events")
  /\ \E s \in Sub : Poll(w, req[w].user, s) \/ Foreign(w, s)
  /\ Answer(w)
  /\ UNCHANGED <<RestOfSessions, rootVars, fairnessVars, metadataVars, workload, restarts>>

UnsubscribeRequest(w) ==
  /\ Dispatched(w, "unsubscribe")
  /\ \E s \in Sub : Unsubscribe(w, req[w].user, s) \/ Foreign(w, s)
  /\ Answer(w)
  /\ UNCHANGED <<RestOfSessions, rootVars, fairnessVars, metadataVars, workload, restarts>>

Dispatch(w) ==
  Verb(w) \/ SessionJwt(w) \/ SubscribeRequest(w) \/ EventsRequest(w) \/ UnsubscribeRequest(w)

Converse(w) == RealtimeStep(w) /\ InRealtime

-----------------------------------------------------------------------------
(* The other threads, time and faults.                                      *)

Maintenance == Reaping /\ InRealtime

Connections ==
  /\ \E s \in Sub : (Goes("change") /\ Change(s)) \/ Die(s)
  /\ InRealtime
Delivery(s) == Notify(s) /\ InRealtime
Idling(s) == GrowIdle(s) /\ InRealtime

Drain(d) == Goes("job") /\ DrainStep(d) /\ InFairness
Enqueue == Goes("job") /\ (\E j \in workload.jobs : EnqueueTask(j)) /\ InFairness
Clock == Goes("tick") /\ Tick /\ InFairness

AsRoot(c) == RootStep(c) /\ InRoot
RootTraffic ==
  /\ Goes("root")
  /\ (\E c \in Caller : RootCall(c)) \/ FallDue \/ Revocation
  /\ InRoot

Metadata(w) == (WriteStep(w) \/ EditStep(w)) /\ InMetadata
Manage(w) ==
  /\ \/ \E t \in workload.stores :
          \/ \E kind \in Reads \cap workload.does : BeginPart(w, t, kind)
          \/ \E kind \in Edits \cap workload.does : BeginEdit(w, t, kind)
     \/ BreakOff(w)
  /\ InMetadata

Expiry(k) == Goes("expiry") /\ (\E e \in cache : e.key = k /\ Lapse(e)) /\ InSessions
Removal == Goes("removal") /\ (\E t \in Tenant, row \in Rows : RemoveRow(t, row)) /\ InSessions
Failure == (\E w \in Worker : RequestFails(w)) /\ InSessions

Restart ==
  /\ Goes("restart") /\ restarts < MaxRestarts
  /\ restarts' = restarts + 1
  /\ ForgetSessions /\ ForgetSubscriptions /\ ForgetRoot /\ LoadPolicies /\ ForgetRounds
  /\ ForgetMetadata
  /\ UNCHANGED workload

Next ==
  \/ \E w \in Worker : LoginRequest(w) \/ Request(w) \/ Authenticate(w) \/ Dispatch(w)
                         \/ Converse(w)
  \/ Maintenance \/ Connections
  \/ \E s \in Sub : Delivery(s) \/ Idling(s)
  \/ \E d \in Drainer : Drain(d)
  \/ Enqueue \/ Clock
  \/ \E c \in Caller : AsRoot(c)
  \/ \E w \in Thread : Metadata(w) \/ Manage(w)
  \/ RootTraffic \/ (\E k \in Tenant \X Secret : Expiry(k)) \/ Removal \/ Failure \/ Restart

Spec == Init /\ [][Next]_vars

\* Threads run, entries age, unpolled subscriptions grow idle.
Fairness ==
  /\ \A w \in Worker : WF_vars(Authenticate(w)) /\ WF_vars(Dispatch(w)) /\ WF_vars(Converse(w))
  /\ \A s \in Sub : WF_vars(Delivery(s)) /\ WF_vars(Idling(s))
  /\ \A d \in Drainer : WF_vars(Drain(d))
  /\ \A k \in Tenant \X Secret : WF_vars(Expiry(k))
  /\ WF_vars(Maintenance)

FairSpec == Spec /\ Fairness
=============================================================================
