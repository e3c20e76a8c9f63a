----------------------------- MODULE RootToken -----------------------------
(***************************************************************************)
(* The root credential every thread of a kernel shares (db.rs): a token is *)
(* minted once, sent by every call the kernel makes as itself, minted anew *)
(* when its time is nearly up, and dropped and minted anew when the store  *)
(* rejects it, once per call.                                              *)
(*                                                                         *)
(* Threads read the cached token under a shared lock and mint under the    *)
(* exclusive one.  The store counts the tokens it has issued and rejects   *)
(* those up to `dead`: the expired and the revoked ones.                   *)
(***************************************************************************)
EXTENDS Naturals

CONSTANTS Caller,      \* threads
          NoCaller,
          MaxTokens,   \* bound of the model: signins
          MaxRefusals  \* bound of the model: signins that fail

ASSUME RootAssumption ==
  /\ NoCaller \notin Caller
  /\ MaxTokens \in Nat /\ MaxRefusals \in Nat

VARIABLES root,     \* RootAuth, with 0 for no token
          writer,   \* who holds its lock exclusively
          call,     \* where each thread's call stands
          issuedTo, \* the tokens the store has issued
          dead,     \* the last of them that the store rejects
          refusals

rootVars == <<root, writer, call, issuedTo, dead, refusals>>

Password == MaxTokens + 1     \* the Basic credential, which the store always takes
NoAuth == [pc |-> "idle", auth |-> 0, again |-> FALSE, hit |-> FALSE]

RootInit ==
  /\ root     = [token |-> 0, due |-> FALSE, basic |-> FALSE]
  /\ writer   = NoCaller
  /\ call     = [c \in Caller |-> NoAuth]
  /\ issuedTo = 0
  /\ dead     = 0
  /\ refusals = 0

-----------------------------------------------------------------------------
(* Mutated forms of definitions below; no action uses them.                 *)

Unlocked == TRUE     \* the token is dropped without the lock

-----------------------------------------------------------------------------
CallAt(c, pc) == call[c].pc = pc
Proceed(c, pc) == call' = [call EXCEPT ![c].pc = pc]
Carry(c, auth) == call' = [call EXCEPT ![c].pc = "send", ![c].auth = auth]

RootCall(c) ==
  /\ CallAt(c, "idle")
  /\ Proceed(c, "auth")
  /\ UNCHANGED <<root, writer, issuedTo, dead, refusals>>

Lockable == writer = NoCaller
Trusted == root.token # 0 /\ ~root.due

\* root_auth, the fast path: what is there to be sent without a signin.
FastPath(c) ==
  /\ CallAt(c, "auth") /\ Lockable
  /\ \/ root.basic /\ Carry(c, Password)
     \/ ~root.basic /\ Trusted /\ Carry(c, root.token)
     \/ ~root.basic /\ ~Trusted /\ Proceed(c, "lock")
  /\ UNCHANGED <<root, writer, issuedTo, dead, refusals>>

\* The exclusive lock, and the second look under it: two threads may have come
\* here together.
SecondLook(c) ==
  /\ CallAt(c, "lock") /\ Lockable
  /\ \/ root.basic /\ Carry(c, Password) /\ UNCHANGED writer
     \/ ~root.basic /\ Trusted /\ Carry(c, root.token) /\ UNCHANGED writer
     \/ ~root.basic /\ ~Trusted /\ Proceed(c, "mint") /\ writer' = c
  /\ UNCHANGED <<root, issuedTo, dead, refusals>>

\* root_signin at the store.
RootSignIn(c) ==
  /\ CallAt(c, "mint")
  /\ issuedTo < MaxTokens
  /\ issuedTo' = issuedTo + 1
  /\ call' = [call EXCEPT ![c].pc = "keep", ![c].auth = issuedTo + 1]
  /\ UNCHANGED <<root, writer, dead, refusals>>

\* Its answer goes into the cache.
KeepToken(c) ==
  /\ CallAt(c, "keep")
  /\ root' = [root EXCEPT !.token = call[c].auth, !.due = FALSE]
  /\ writer' = NoCaller
  /\ Carry(c, call[c].auth)
  /\ UNCHANGED <<issuedTo, dead, refusals>>

\* A signin that fails turns the process to Basic for good.
FallBack(c) ==
  /\ CallAt(c, "mint")
  /\ refusals < MaxRefusals
  /\ refusals' = refusals + 1
  /\ root' = [root EXCEPT !.basic = TRUE]
  /\ writer' = NoCaller
  /\ Carry(c, Password)
  /\ UNCHANGED <<issuedTo, dead>>

Rejected(c) == call[c].auth <= dead

\* The statement itself, and is_auth_failure.
Send(c) ==
  /\ CallAt(c, "send")
  /\ \/ ~Rejected(c) /\ call' = [call EXCEPT ![c] = NoAuth]
     \/ Rejected(c) /\ Proceed(c, IF call[c].again THEN "failed" ELSE "drop")
  /\ UNCHANGED <<root, writer, issuedTo, dead, refusals>>

DropLockable == writer = NoCaller

\* invalidate_root_token drops whatever token is cached by now.
DropToken(c) ==
  /\ CallAt(c, "drop") /\ DropLockable
  /\ root' = [root EXCEPT !.token = 0]
  /\ call' = [call EXCEPT ![c] = [NoAuth EXCEPT !.pc = "auth", !.again = TRUE]]
  /\ UNCHANGED <<writer, issuedTo, dead, refusals>>

\* The error reaches whoever asked.
GiveUp(c) ==
  /\ CallAt(c, "failed")
  /\ call' = [call EXCEPT ![c] = NoAuth]
  /\ UNCHANGED <<root, writer, issuedTo, dead, refusals>>

\* 75% of the token's life is over.
FallDue ==
  /\ root.token # 0 /\ ~root.due
  /\ root' = [root EXCEPT !.due = TRUE]
  /\ UNCHANGED <<writer, call, issuedTo, dead, refusals>>

\* The store rejects the tokens of now from now on: they expired, or its keys
\* were changed.
Revocation ==
  /\ dead < issuedTo
  /\ dead' = issuedTo
  /\ call' = [c \in Caller |-> [call[c] EXCEPT !.hit = @ \/ call[c].pc # "idle"]]
  /\ UNCHANGED <<root, writer, issuedTo, refusals>>

ForgetRoot ==
  /\ root' = [token |-> 0, due |-> FALSE, basic |-> FALSE]
  /\ writer' = NoCaller
  /\ call' = [c \in Caller |-> NoAuth]
  /\ UNCHANGED <<issuedTo, dead, refusals>>

RootStep(c) ==
  FastPath(c) \/ SecondLook(c) \/ RootSignIn(c) \/ KeepToken(c) \/ FallBack(c)
    \/ Send(c) \/ DropToken(c) \/ GiveUp(c)

-----------------------------------------------------------------------------
(* Properties.                                                              *)

RootTypeOK ==
  /\ root \in [token : 0 .. MaxTokens, due : BOOLEAN, basic : BOOLEAN]
  /\ writer \in Caller \cup {NoCaller}
  /\ call \in [Caller -> [pc : {"idle", "auth", "lock", "mint", "keep", "send", "drop", "failed"},
                          auth : 0 .. MaxTokens + 1, again : BOOLEAN, hit : BOOLEAN]]
  /\ issuedTo \in 0 .. MaxTokens /\ dead \in 0 .. MaxTokens
  /\ refusals \in 0 .. MaxRefusals

\* A call fails on its credential only if the store revoked tokens again after the
\* call had dropped the first one: a token minted before a revocation never comes
\* back into the cache behind the drop (db.rs:773).
RootCallsSurvive ==
  \A c \in Caller : CallAt(c, "failed") => call[c].hit
=============================================================================
