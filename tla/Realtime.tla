------------------------------ MODULE Realtime ------------------------------
(***************************************************************************)
(* Live subscriptions of one kernel process (realtime.rs, wsrpc.rs): a     *)
(* request opens a connection of its own to the database and lists it, the *)
(* connection's reader thread buffers a tick per change, polls take the    *)
(* ticks, and the maintenance thread reaps what is idle or dead.           *)
(*                                                                         *)
(* The budget is read before the connection is made and the subscription   *)
(* is listed after it; the list and the buffers have locks of their own,   *)
(* so polls, unsubscriptions and the reaper interleave.                    *)
(*                                                                         *)
(* Abstracted: every tenant has one table; a tick carries no content, and  *)
(* of the changes only matters whether the client has yet to be told of    *)
(* one; IDLE_REAP is a flag that time sets and a poll clears.              *)
(***************************************************************************)
EXTENDS Naturals, FiniteSets

CONSTANTS Client,    \* request threads
          Owner,     \* users
          Scope,     \* tenants
          Sub,       \* subscription ids, each drawn once
          NoSub,
          Budget,    \* LIVE_SUB_BUDGET_PER_TABLE
          BufferCap  \* TICK_BUFFER_CAP

ASSUME RealtimeAssumption ==
  /\ IsFiniteSet(Client) /\ NoSub \notin Sub
  /\ Budget \in Nat \ {0} /\ BufferCap \in Nat \ {0}

VARIABLES sub,    \* the subscriptions
          rt,     \* where each request stands
          reaper  \* the subscriptions the maintenance thread is closing

realtimeVars == <<sub, rt, reaper>>

\* stage: "unused", "opening" before it is listed, "listed", "gone"; live: the
\* database has taken its LIVE SELECT.
Unused == [stage |-> "unused", user |-> NoSub, tenant |-> NoSub, reading |-> FALSE,
           alive |-> FALSE, live |-> FALSE, ticks |-> 0, idle |-> FALSE, coming |-> FALSE, owed |-> FALSE]
NoCall == [pc |-> "idle", sub |-> NoSub, user |-> NoSub, tenant |-> NoSub,
           taken |-> 0, up |-> FALSE]

RealtimeInit ==
  /\ sub    = [s \in Sub |-> Unused]
  /\ rt     = [c \in Client |-> NoCall]
  /\ reaper = [pc |-> "idle", doomed |-> {}]

-----------------------------------------------------------------------------
(* Mutated forms of definitions below; no action uses them.                 *)

FullBeyond(n) == n > Budget                \* off by one

AliveFirst == <<"alive", "take">>          \* is_alive is read before the ticks

NeverIdle(s) == ~sub[s].alive              \* only the dead are reaped

-----------------------------------------------------------------------------
Listed(t) == {s \in Sub : sub[s].stage = "listed" /\ sub[s].tenant = t}
CountForTable(t) == Cardinality(Listed(t))

Standing(c, pc) == rt[c].pc = pc
Move(c, pc) == rt' = [rt EXCEPT ![c].pc = pc]
Hang(c) == rt' = [rt EXCEPT ![c] = NoCall]

\* The list is locked while the reaper empties it.
ListFree == reaper.pc # "drain"

Full(n) == n >= Budget

\* E_SUB_BUDGET, or on to the connection.
Subscribe(c, u, t) ==
  /\ Standing(c, "idle") /\ ListFree
  /\ ~Full(CountForTable(t))
  /\ rt' = [rt EXCEPT ![c] = [NoCall EXCEPT !.pc = "connect", !.user = u, !.tenant = t]]
  /\ UNCHANGED <<sub, reaper>>

\* Ids that were never drawn: which of them comes next makes no difference.
Fresh == {s \in Sub : sub[s].stage = "unused"}

\* WsRpc::connect: the reader thread runs from here on.
Connect(c) ==
  /\ Standing(c, "connect")
  /\ \/ Hang(c) /\ UNCHANGED sub
     \/ /\ Fresh # {}
        /\ LET s == CHOOSE s \in Fresh : TRUE IN
          /\ sub' = [sub EXCEPT ![s] = [Unused EXCEPT !.stage = "opening", !.user = rt[c].user,
                       !.tenant = rt[c].tenant, !.reading = TRUE, !.alive = TRUE]]
          /\ rt' = [rt EXCEPT ![c].pc = "live", ![c].sub = s]
  /\ UNCHANGED reaper

\* authenticate, use and LIVE SELECT; when one of the calls fails the request ends
\* and nothing closes the connection.  Only the call is looked at: a statement that
\* is refused inside a successful answer goes on like one that was taken.  What
\* the client is owed counts from here.
GoLive(c) ==
  /\ Standing(c, "live")
  /\ \/ \E taken \in BOOLEAN :
          /\ sub' = [sub EXCEPT ![rt[c].sub].live = taken, ![rt[c].sub].owed = FALSE]
          /\ Move(c, "insert")
     \/ Hang(c) /\ UNCHANGED sub
  /\ UNCHANGED reaper

Insert(c) ==
  /\ Standing(c, "insert") /\ ListFree
  /\ sub' = [sub EXCEPT ![rt[c].sub].stage = "listed"]
  /\ Hang(c)
  /\ UNCHANGED reaper

-----------------------------------------------------------------------------
(* The connection.                                                          *)

\* The request is past its LIVE SELECT.
Subscribed(s) ==
  \/ sub[s].stage = "listed"
  \/ \E c \in Client : rt[c].sub = s /\ Standing(c, "insert")

\* A change that the subscriber may see; the database tells of it if it has the
\* LIVE SELECT.
Change(s) ==
  /\ Subscribed(s) /\ sub[s].reading
  /\ sub' = [sub EXCEPT ![s].coming = sub[s].live, ![s].owed = TRUE]
  /\ UNCHANGED <<rt, reaper>>

\* on_notify; a full buffer drops its oldest tick.
Buffered(n) == IF n = BufferCap THEN n ELSE n + 1

Notify(s) ==
  /\ sub[s].reading /\ sub[s].coming
  /\ sub' = [sub EXCEPT ![s].coming = FALSE, ![s].ticks = Buffered(@)]
  /\ UNCHANGED <<rt, reaper>>

\* The reader thread meets an error and ends; what was under way is lost.
Die(s) ==
  /\ sub[s].reading
  /\ sub' = [sub EXCEPT ![s].reading = FALSE, ![s].alive = FALSE, ![s].coming = FALSE]
  /\ UNCHANGED <<rt, reaper>>

-----------------------------------------------------------------------------
(* Polls.                                                                   *)

\* drain evaluates its answer from left to right.
PollOrder == <<"take", "alive">>
After(pc) == IF pc = PollOrder[1] THEN PollOrder[2] ELSE "answer"

Poll(c, u, s) ==
  /\ Standing(c, "idle") /\ ListFree
  /\ sub[s].stage = "listed" /\ sub[s].user = u
  /\ sub' = [sub EXCEPT ![s].idle = FALSE]
  /\ rt' = [rt EXCEPT ![c] = [NoCall EXCEPT !.pc = PollOrder[1], !.sub = s, !.user = u]]
  /\ UNCHANGED reaper

\* A tick makes the client read everything again.
Take(c) ==
  /\ Standing(c, "take")
  /\ LET s == rt[c].sub IN
     /\ sub' = [sub EXCEPT ![s].ticks = 0, ![s].owed = @ /\ sub[s].ticks = 0]
     /\ rt' = [rt EXCEPT ![c].pc = After("take"), ![c].taken = sub[s].ticks]
  /\ UNCHANGED reaper

ReadAlive(c) ==
  /\ Standing(c, "alive")
  /\ rt' = [rt EXCEPT ![c].pc = After("alive"), ![c].up = sub[rt[c].sub].alive]
  /\ UNCHANGED <<sub, reaper>>

Reply(c) ==
  /\ Standing(c, "answer")
  /\ Hang(c)
  /\ UNCHANGED <<sub, reaper>>

-----------------------------------------------------------------------------
(* The end of a subscription.                                               *)

Unsubscribe(c, u, s) ==
  /\ Standing(c, "idle") /\ ListFree
  /\ sub[s].stage = "listed" /\ sub[s].user = u
  /\ sub' = [sub EXCEPT ![s].stage = "gone"]
  /\ rt' = [rt EXCEPT ![c] = [NoCall EXCEPT !.pc = "close", !.sub = s]]
  /\ UNCHANGED reaper

Close(c) ==
  /\ Standing(c, "close")
  /\ sub' = [sub EXCEPT ![rt[c].sub].alive = FALSE]
  /\ Hang(c)
  /\ UNCHANGED reaper

Doomed(s) == ~sub[s].alive \/ sub[s].idle

\* The first look, under the lock of the list.
Survey ==
  /\ reaper.pc = "idle"
  /\ LET doomed == {s \in Sub : sub[s].stage = "listed" /\ Doomed(s)} IN
     /\ doomed # {}
     /\ reaper' = [pc |-> "close", doomed |-> doomed]
  /\ UNCHANGED <<sub, rt>>

\* The list is locked again; whatever was polled or unsubscribed meanwhile is
\* removed and closed all the same.
Reap ==
  /\ reaper.pc = "close"
  /\ sub' = [s \in Sub |-> IF s \in reaper.doomed
               THEN [sub[s] EXCEPT !.stage = "gone", !.alive = FALSE] ELSE sub[s]]
  /\ reaper' = [reaper EXCEPT !.pc = "drain"]
  /\ UNCHANGED rt

DropTicks ==
  /\ reaper.pc = "drain"
  /\ sub' = [s \in Sub |-> IF s \in reaper.doomed
               THEN [sub[s] EXCEPT !.ticks = 0] ELSE sub[s]]
  /\ reaper' = [pc |-> "idle", doomed |-> {}]
  /\ UNCHANGED rt

\* IDLE_REAP passes without a poll.
GrowIdle(s) ==
  /\ sub[s].stage = "listed" /\ ~sub[s].idle
  /\ sub' = [sub EXCEPT ![s].idle = TRUE]
  /\ UNCHANGED <<rt, reaper>>

\* The process restarts, and its connections end with it.
ForgetSubscriptions ==
  /\ sub' = [s \in Sub |-> IF sub[s].stage = "unused" THEN Unused
               ELSE [Unused EXCEPT !.stage = "gone"]]
  /\ rt' = [c \in Client |-> NoCall]
  /\ reaper' = [pc |-> "idle", doomed |-> {}]

RealtimeStep(c) ==
  Connect(c) \/ GoLive(c) \/ Insert(c) \/ Take(c) \/ ReadAlive(c) \/ Reply(c)
    \/ Close(c)

Reaping == Survey \/ Reap \/ DropTicks

-----------------------------------------------------------------------------
(* Properties.                                                              *)

RealtimeTypeOK ==
  /\ sub \in [Sub -> [stage : {"unused", "opening", "listed", "gone"},
                      user : Owner \cup {NoSub}, tenant : Scope \cup {NoSub},
                      reading : BOOLEAN, alive : BOOLEAN, live : BOOLEAN,
                      ticks : 0 .. BufferCap, idle : BOOLEAN, coming : BOOLEAN,
                      owed : BOOLEAN]]
  /\ rt \in [Client -> [pc : {"idle", "connect", "live", "insert", "take", "alive", "answer",
                              "close"},
                        sub : Sub \cup {NoSub}, user : Owner \cup {NoSub},
                        tenant : Scope \cup {NoSub}, taken : 0 .. BufferCap, up : BOOLEAN]]
  /\ reaper \in [pc : {"idle", "close", "drain"}, doomed : SUBSET Sub]

\* Requests that passed the check together exceed the budget of a table by at most
\* the other threads (realtime.rs:103).
OverrunBounded ==
  \A t \in Scope : CountForTable(t) < Budget + Cardinality(Client)

\* A poll that answers `no events, alive` hides nothing: what the client is owed is
\* still on its way to the next poll, also when the reaper or another poll empties
\* the buffer meanwhile (realtime.rs:171).  It says so of the subscriptions whose
\* LIVE SELECT the database took; the others answer so for good (wsrpc.rs:210).
QuietHidesNothing ==
  [][\A c \in Client : \A s \in {rt[c].sub} \cap Sub :
       ~Standing(c, "answer") /\ rt'[c].pc = "answer" /\ rt'[c].taken = 0 /\ rt'[c].up
         /\ sub'[s].live /\ sub'[s].owed => sub'[s].coming \/ sub'[s].ticks > 0]_realtimeVars

\* A subscription that nobody polls any more is not listed for ever (realtime.rs:206).
IdleAreReaped ==
  \A s \in Sub :
    <>[](sub[s].stage = "listed") => []<>(\E c \in Client : rt[c].sub = s)
=============================================================================
