----------------------------- MODULE SchemaDiff -----------------------------
(***************************************************************************)
(* The pure part of the migrator: what a definition says (field.rs), how   *)
(* two snapshots of a schema differ (schema.rs), how each difference is    *)
(* classified (field.rs, classify.rs), what the policy allows              *)
(* (decision.rs, the gates of lib.rs) and what applying it leaves behind.  *)
(*                                                                         *)
(* A snapshot is a function from columns to definitions, NoField where the *)
(* table has no such field.  A definition is the record of the clauses of  *)
(* its DEFINE FIELD statement that the classifier reads.                   *)
(*                                                                         *)
(* Abstracted: names, the order of statements, indexes and events (applied *)
(* like fields, never destructive and never classified).                   *)
(***************************************************************************)
EXTENDS Naturals, FiniteSets

CONSTANTS Column,   \* the fields of all tables
          NoField   \* the field does not exist

-----------------------------------------------------------------------------
(* What a definition says.                                                  *)

\* SurrealType::parse_inner recognises these; a missing TYPE clause is "any",
\* everything else (a union, a misspelling) is Other.  Both are opaque.
Recognised == {"int", "float", "decimal", "string"}
Opaque(ty) == ty \notin Recognised

\* The clauses of a DEFINE FIELD statement, each as it is written.
Definition == [type : STRING, option : BOOLEAN, readonly : BOOLEAN, default : STRING, assert : STRING]
Snapshot == [Column -> Definition \cup {NoField}]

\* FieldSnapshot::parse, of a DEFINE FIELD: no TYPE clause reads as optional; of
\* VALUE, DEFAULT and ASSERT only the presence is kept.
Parsed(def) ==
  [ty       |-> IF def.type = "" THEN "any" ELSE def.type,
   optional |-> def.option \/ def.type = "",
   readonly |-> def.readonly,
   valued   |-> def.default # "",
   asserted |-> def.assert # ""]

-----------------------------------------------------------------------------
(* Mutated forms of definitions below; no other definition uses them.       *)

WideningNumbers == {<<"int", "float">>, <<"float", "int">>}   \* the direction is lost

DefinedIfMissing(live, old, new, cols) ==                     \* OVERWRITE is lost
  [c \in Column |-> IF c \notin cols \/ (live[c] # NoField /\ new[c] # NoField)
                    THEN live[c] ELSE new[c]]

-----------------------------------------------------------------------------
(* How severe a change is: FieldClass.                                      *)

AttributesChanged(o, n) ==
  o.readonly # n.readonly \/ o.valued # n.valued \/ o.asserted # n.asserted

\* is_widening
Widening == {<<"int", "float">>, <<"int", "decimal">>, <<"float", "decimal">>}

ClassOfAdded(n, tableIsNew) ==
  IF n.optional \/ n.valued \/ tableIsNew THEN "safe" ELSE "needs_backfill"

\* classify_modify
ClassOfModified(o, n) ==
  LET narrows == o.optional /\ ~n.optional
      widens  == ~o.optional /\ n.optional
  IN  IF Opaque(o.ty) \/ Opaque(n.ty) THEN IF o = n THEN "safe" ELSE "blocked"
      ELSE IF o.ty # n.ty /\ <<o.ty, n.ty>> \notin Widening THEN "blocked"
      ELSE IF narrows THEN "needs_backfill"
      ELSE IF o.ty = n.ty /\ ~widens /\ AttributesChanged(o, n) THEN "warn"
      ELSE "safe"

\* classify_field_change, with the correction of classify_diff for a new table.
ClassOf(old, new, tableIsNew) ==
  IF old = NoField THEN ClassOfAdded(Parsed(new), tableIsNew)
  ELSE IF new = NoField THEN "blocked"
  ELSE ClassOfModified(Parsed(old), Parsed(new))

-----------------------------------------------------------------------------
(* The difference of two snapshots, on some columns.                        *)

Creates(old, new, cols) == {c \in cols : old[c] = NoField /\ new[c] # NoField}
Alters(old, new, cols) ==
  {c \in cols : old[c] # NoField /\ new[c] # NoField /\ old[c] # new[c]}
Drops(old, new, cols) == {c \in cols : old[c] # NoField /\ new[c] = NoField}

\* SchemaDiff::is_empty
Same(old, new, cols) == \A c \in cols : old[c] = new[c]

\* classify_diff and non_drop_summary: the classes of the fields that stay.
NonDropClasses(old, new, cols, tableIsNew) ==
  {ClassOf(old[c], new[c], tableIsNew) : c \in Creates(old, new, cols) \cup Alters(old, new, cols)}

-----------------------------------------------------------------------------
(* The policy.                                                              *)

\* decide, by the worst class there is: BootDecision::is_refuse.
DecideRefuses(environment, classes, acknowledge) ==
  /\ classes \cap {"needs_backfill", "blocked"} # {}
  /\ environment = "prod"
  /\ ~acknowledge

\* The two gates of a run: drops need allow_destructive, the rest goes by decide.
GateRefuses(environment, opts, old, new, cols, tableIsNew) ==
  \/ Drops(old, new, cols) # {} /\ ~opts.allow
  \/ DecideRefuses(environment, NonDropClasses(old, new, cols, tableIsNew), opts.acknowledge)

-----------------------------------------------------------------------------
(* The database.                                                            *)

\* SchemaDiff::statements, executed: DEFINE .. OVERWRITE for what is created or
\* altered, REMOVE .. IF EXISTS for what is dropped, nothing for the rest.
Applied(live, old, new, cols) ==
  [c \in Column |->
     CASE c \in Creates(old, new, cols) \cup Alters(old, new, cols) -> new[c]
       [] c \in Drops(old, new, cols) -> NoField
       [] OTHER -> live[c]]

\* detect_scope_drift: the objects that are missing or unexpected; only presence
\* is compared.
Drift(live, recorded, cols) ==
  {c \in cols : (live[c] = NoField) # (recorded[c] = NoField)}

\* What a stored value needs in order to be read under a definition.
Fits(ty) ==
  CASE ty = "float" -> {"int", "float"}
    [] ty = "decimal" -> {"int", "float", "decimal"}
    [] Opaque(ty) -> {"int", "float", "decimal", "string"}
    [] OTHER -> {ty}

Readable(def, value) == def # NoField /\ value \in Fits(Parsed(def).ty)

=============================================================================
