------------------------------ MODULE Metadata ------------------------------
(***************************************************************************)
(* What one process keeps of a DocType's metadata, and the server scripts   *)
(* it runs from it: the DocType cache and the notification rules of a      *)
(* broker, the script cache and the pooled instances of hooks.rs, and the  *)
(* generation of tenant_gen.rs that invalidates the first three.           *)
(*                                                                         *)
(* A write looks its DocType up, dispatches the chains of the hook classes *)
(* it fires, is stored, and looks up the rules; these parts share nothing  *)
(* but the generation, so that a request here is one of them.  Each lookup *)
(* loads the generation, looks into its cache, and on a miss reads the row *)
(* and keeps what it read under the generation it had loaded.  Managers    *)
(* edit the metadata in several statements, and bump after the last.       *)
(*                                                                         *)
(* One DocType per store, with an owner and one app that extends it.  The  *)
(* text of a script is a number; an instance that trapped is built anew    *)
(* from the same text, so that instances are nothing but their text here.  *)
(***************************************************************************)
EXTENDS Naturals, Sequences, FiniteSets

CONSTANTS Thread,      \* the threads that serve requests
          Store,       \* the tenants' databases
          Early,       \* the classes a write fires before validate: before_insert, on_submit
          MaxEdits,    \* bound of the model: edits of each kind
          MaxBreaks    \* bound of the model: edits that break off

Hook == Early \cup {"validate"}
Contributor == {"owner", "extension"}
Caches == {"doctype", "scripts", "rules"}
Reads == {"read", "fire", "tell"}
Edits == {"update", "extend", "detach", "rule", "sync"}

ASSUME MetadataAssumption ==
  /\ "validate" \notin Early
  /\ MaxEdits \in [Edits -> Nat] /\ MaxBreaks \in Nat

VARIABLES scripts,  \* the server_script list of the row
          version,  \* how many statements have changed the metadata of each store
          metaGen,  \* the generation of each store
          kept,     \* the caches: content under a generation
          pool,     \* the text of each pooled instance
          write,    \* the write each thread serves
          edit,     \* the edit each thread serves
          edits, breaks,
          bumped    \* history: the version at the last bump

metadataVars == <<scripts, version, metaGen, kept, pool, write, edit, edits, breaks, bumped>>

Script(app, hook, text) == [app |-> app, hook |-> hook, text |-> text]
NoWrite == [pc |-> "idle"]
NoEdit == [pc |-> "idle"]

\* A DocType that came with POST /doctype, which stores the list as it is given.
MetadataInit ==
  /\ scripts = [t \in Store |-> <<Script("extension", "validate", <<t, 0>>),
                                  Script("owner", "validate", <<t, 0>>)>>]
  /\ version = [t \in Store |-> 0]
  /\ metaGen = [t \in Store |-> 0]
  /\ kept = [what \in Caches |-> {}]
  /\ pool = [slot \in Store \X Contributor \X Hook |-> <<>>]
  /\ write = [w \in Thread |-> NoWrite]
  /\ edit = [w \in Thread |-> NoEdit]
  /\ edits = [kind \in Edits |-> 0]
  /\ breaks = 0
  /\ bumped = [t \in Store |-> 0]

Rests(w) == write[w] = NoWrite /\ edit[w] = NoEdit

WriteAt(w, pc) == write[w].pc = pc
Stage(w) == write[w].stage

-----------------------------------------------------------------------------
(* Mutated forms of definitions below; no action uses them.                 *)

KeptUnderLatest(w) == metaGen[write[w].store]   \* the generation as it is by now
FitsAnyway(instance, script) == instance # <<>>  \* an instance once built is never rebuilt

-----------------------------------------------------------------------------
(* The lookups of a write.                                                  *)

CacheOf(stage) == IF stage \in Hook THEN "scripts" ELSE stage

\* The k-th of some places is the one that has k of them up to it.
Place(places, k) == CHOOSE i \in places : Cardinality({j \in places : j <= i}) = k

\* What an app has in a list, of some classes, in the order of the list.
Only(app, list, hooks) ==
  LET places == {i \in DOMAIN list : list[i].app = app /\ list[i].hook \in hooks}
  IN [k \in 1 .. Cardinality(places) |-> list[Place(places, k)]]

\* load_server_scripts and the dispatcher's filter: the class's scripts, the owner's first.
Of(app, list, hook) == Only(app, list, {hook})
Chain(list, hook) == Of("owner", list, hook) \o Of("extension", list, hook)

WritesRest == UNCHANGED <<scripts, version, metaGen, edit, edits, breaks, bumped>>
Nothing(t) == [version |-> bumped[t], list |-> <<>>]

\* The parts of a write: its lookup of the DocType, which reads and deletes do as well;
\* the hooks it fires; its lookup of the rules.
Parts(kind) ==
  CASE kind = "read" -> {<<"doctype">>}
    [] kind = "fire" -> {<<"validate">>} \cup {<<h, "validate">> : h \in Early}
    [] kind = "tell" -> {<<"rules">>}

BeginPart(w, t, kind) ==
  /\ Rests(w)
  /\ \E part \in Parts(kind) :
       write' = [write EXCEPT ![w] =
         [pc |-> "next", store |-> t, stage |-> "none", stages |-> part, gen |-> 0,
          since |-> bumped[t], found |-> Nothing(t), left |-> <<>>, ran |-> <<>>]]
  /\ UNCHANGED <<kept, pool>> /\ WritesRest

\* The next lookup; the generation is loaded before anything is read.
BeginLookup(w) ==
  /\ WriteAt(w, "next") /\ write[w].stages # <<>>
  /\ LET t == write[w].store IN
       write' = [write EXCEPT ![w].pc = "look", ![w].stage = Head(write[w].stages),
                              ![w].stages = Tail(@), ![w].gen = metaGen[t],
                              ![w].found = Nothing(t), ![w].ran = <<>>]
  /\ UNCHANGED <<kept, pool>> /\ WritesRest

\* What a lookup found is used at once: a chain begins, or the write goes on.
Taken(w, found) ==
  LET chain == IF Stage(w) \in Hook THEN Chain(found.list, Stage(w)) ELSE <<>>
  IN [write[w] EXCEPT !.pc = IF chain = <<>> THEN "next" ELSE "run",
                      !.left = chain, !.found = found]

Hit(w, e) == e.store = write[w].store /\ e.gen = write[w].gen
Cached(w) == kept[CacheOf(Stage(w))]

Look(w) ==
  /\ WriteAt(w, "look")
  /\ \/ \E e \in Cached(w) : Hit(w, e) /\ write' = [write EXCEPT ![w] = Taken(w, e.found)]
     \/ (\A e \in Cached(w) : ~Hit(w, e)) /\ write' = [write EXCEPT ![w].pc = "load"]
  /\ UNCHANGED <<kept, pool>> /\ WritesRest

\* What is stored, of the rows a cache is filled from.
Stored(t, what) ==
  [version |-> version[t], list |-> IF what = "scripts" THEN scripts[t] ELSE <<>>]

\* The row is read, or the read fails and the write with it.
LoadRow(w) ==
  /\ WriteAt(w, "load")
  /\ \/ write' = [write EXCEPT ![w].pc = "keep",
                    ![w].found = Stored(write[w].store, CacheOf(Stage(w)))]
     \/ write' = [write EXCEPT ![w] = NoWrite]
  /\ UNCHANGED <<kept, pool>> /\ WritesRest

KeptUnder(w) == write[w].gen

KeepContent(w) ==
  /\ WriteAt(w, "keep")
  /\ kept' = [kept EXCEPT ![CacheOf(Stage(w))] =
       {e \in @ : e.store # write[w].store}
         \cup {[store |-> write[w].store, gen |-> KeptUnder(w), found |-> write[w].found]}]
  /\ write' = [write EXCEPT ![w] = Taken(w, write[w].found)]
  /\ UNCHANGED pool /\ WritesRest

\* live-mutable: an edited script replaces its pooled instance.
Fits(instance, script) == instance = script.text

\* One script of the chain runs, in its instance, under the lock of the pool: it passes
\* the document on, or rejects it or traps, which ends the write.
RunScript(w) ==
  /\ WriteAt(w, "run")
  /\ LET script == Head(write[w].left)
         slot == <<write[w].store, script.app, script.hook>>
         text == IF Fits(pool[slot], script) THEN pool[slot] ELSE script.text
         rest == Tail(write[w].left)
     IN /\ pool' = [pool EXCEPT ![slot] = text]
        /\ \/ write' = [write EXCEPT ![w].pc = IF rest = <<>> THEN "next" ELSE "run",
                                     ![w].left = rest,
                                     ![w].ran = Append(@, Script(script.app, script.hook, text))]
           \/ write' = [write EXCEPT ![w] = NoWrite]
  /\ UNCHANGED kept /\ WritesRest

Finish(w) ==
  /\ WriteAt(w, "next") /\ write[w].stages = <<>>
  /\ write' = [write EXCEPT ![w] = NoWrite]
  /\ UNCHANGED <<kept, pool>> /\ WritesRest

WriteStep(w) ==
  BeginLookup(w) \/ Look(w) \/ LoadRow(w) \/ KeepContent(w) \/ RunScript(w) \/ Finish(w)

-----------------------------------------------------------------------------
(* The edits of managers (rest.rs).                                         *)

EditsRest == UNCHANGED <<kept, pool, write, edits, breaks>>
EditAt(w, t, pc) == edit[w].pc = pc /\ edit[w].store = t

Editing(t, pc, own, field, back) ==
  [pc |-> pc, store |-> t, own |-> own, field |-> field, back |-> back]

NewText(t) == <<t, version[t] + 1>>

\* The owner's scripts as its manifest has them.
Manifests(text) ==
  {<<>>, <<Script("owner", "validate", text)>>}
    \cup {<<Script("owner", h, text), Script("owner", "validate", text)>> : h \in Early}

\* What the handlers do after what they read: attach_metadata, the owner's update, which
\* restores what the extension put there; attach_extensions; detach_extensions, at
\* uninstall; POST /notification; and the bump that a sync begins with.
Begun(t, kind) ==
  CASE kind = "update" ->
         {Editing(t, "upsert", own, Only("extension", scripts[t], Hook) # <<>>,
                  Only("extension", scripts[t], Hook)) : own \in Manifests(NewText(t))}
    [] kind = "extend" ->
         {Editing(t, "strip", <<>>, TRUE, <<Script("extension", h, NewText(t))>>) : h \in Hook}
    [] kind = "detach" -> {Editing(t, "strip", <<>>, FALSE, <<>>)}
    [] kind = "rule" -> {Editing(t, "rule", <<>>, FALSE, <<>>)}
    [] kind = "sync" -> {Editing(t, "bump", <<>>, FALSE, <<>>)}

BeginEdit(w, t, kind) ==
  /\ Rests(w) /\ edits[kind] < MaxEdits[kind]
  /\ edits' = [edits EXCEPT ![kind] = @ + 1]
  /\ \E e \in Begun(t, kind) : edit' = [edit EXCEPT ![w] = e]
  /\ UNCHANGED <<scripts, version, metaGen, kept, pool, write, breaks, bumped>>

\* A statement that leaves `list` behind, and what is left to do of the edit.
Statement(w, t, list, e) ==
  /\ scripts' = [scripts EXCEPT ![t] = list]
  /\ version' = [version EXCEPT ![t] = @ + 1]
  /\ edit' = [edit EXCEPT ![w] = [e EXCEPT !.pc =
       IF e.field THEN "field" ELSE IF e.back # <<>> THEN "script" ELSE "bump"]]
  /\ UNCHANGED <<metaGen, bumped>> /\ EditsRest

\* UPSERT doctype CONTENT: the whole record, as the owner declares it.
Upsert(w, t) == EditAt(w, t, "upsert") /\ Statement(w, t, edit[w].own, edit[w])

Strip(w, t) ==
  /\ EditAt(w, t, "strip")
  /\ Statement(w, t, Only("owner", scripts[t], Hook), edit[w])

\* SET fields +=
AddField(w, t) ==
  /\ EditAt(w, t, "field")
  /\ Statement(w, t, scripts[t], [edit[w] EXCEPT !.field = FALSE])

\* SET server_script +=
AddScript(w, t) ==
  /\ EditAt(w, t, "script")
  /\ Statement(w, t, Append(scripts[t], Head(edit[w].back)), [edit[w] EXCEPT !.back = Tail(@)])

\* CREATE notification
AddRule(w, t) == EditAt(w, t, "rule") /\ Statement(w, t, scripts[t], edit[w])

\* invalidate_meta, and the answer.
BumpMeta(w, t) ==
  /\ EditAt(w, t, "bump")
  /\ metaGen' = [metaGen EXCEPT ![t] = @ + 1]
  /\ bumped' = [bumped EXCEPT ![t] = version[t]]
  /\ edit' = [edit EXCEPT ![w] = NoEdit]
  /\ UNCHANGED <<scripts, version>> /\ EditsRest

\* A statement fails, or is stored and its answer lost: nothing is bumped.
BreakOff(w) ==
  /\ edit[w] # NoEdit /\ breaks < MaxBreaks
  /\ breaks' = breaks + 1
  /\ edit' = [edit EXCEPT ![w] = NoEdit]
  /\ UNCHANGED <<scripts, version, metaGen, kept, pool, write, edits, bumped>>

EditStep(w) ==
  \E t \in Store :
    Upsert(w, t) \/ Strip(w, t) \/ AddField(w, t) \/ AddScript(w, t) \/ AddRule(w, t) \/ BumpMeta(w, t)

ForgetMetadata ==
  /\ metaGen' = [t \in Store |-> 0]
  /\ kept' = [what \in Caches |-> {}]
  /\ pool' = [slot \in Store \X Contributor \X Hook |-> <<>>]
  /\ write' = [w \in Thread |-> NoWrite]
  /\ edit' = [w \in Thread |-> NoEdit]
  /\ bumped' = version
  /\ UNCHANGED <<scripts, version, edits, breaks>>

-----------------------------------------------------------------------------
(* Properties.                                                              *)

\* What a write goes by is no older than the last bump before it began.
MetadataIsRecent ==
  \A w \in Thread : write[w].pc \in {"run", "next"} => write[w].found.version >= write[w].since

\* The scripts it runs are those of the plan it found, the owner's before the extension's.
ChainFollowsPlan(w) ==
  LET ran == write[w].ran  list == write[w].found.list
      own == Of("owner", list, Stage(w))
  IN \A i \in 1 .. Len(ran) :
       /\ ran[i].hook = Stage(w) /\ \E j \in 1 .. Len(list) : list[j] = ran[i]
       /\ i <= Len(own) => ran[i].app = "owner"

\* load_doctype, notification_rules, scripts_for: an edit that was answered is what every
\* later write goes by, although a slow lookup may still keep what it read before, and
\* whichever plan another thread has built the instances for.
WritesFollowMetadata ==
  MetadataIsRecent /\ \A w \in Thread : WriteAt(w, "run") \/ WriteAt(w, "next") => ChainFollowsPlan(w)
=============================================================================
