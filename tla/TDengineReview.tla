--------------------------- MODULE TDengineReview ---------------------------
(***************************************************************************)
(* TDengineEngine.execute_check: the check that follows what the earlier   *)
(* statements of a ticket create.  Databases follow the rules of tables,   *)
(* in a namespace of their own; here every object is a table of some kind. *)
(***************************************************************************)
EXTENDS EngineReview

Nothing == [o \in Objects |-> "none"]

\* What the server has comes first, then what the ticket made.
workflow_obj_check(schema, made) ==
  [o \in Objects |-> IF Exists(schema, o) THEN schema[o] ELSE made[o]]

\* seen is the outcome of workflow_obj_check for every object.
create_passes(s, seen) ==
  /\ s.lax \/ ~ Exists(seen, s.obj)
  /\ SubtableOf(s) /\ ~ Exists(seen, s.obj) => seen[s.using] = "stable"

alter_passes(s, seen) == Exists(seen, s.obj) /\ (s.kind = "stable") = (seen[s.obj] = "stable")

\* Of a super table the column tbname has to be given, here kind = "stable".
insert_passes(s, seen) ==
  IF SubtableOf(s) THEN seen[s.using] = "stable" /\ seen[s.obj] \in {"none", "ctable"}
  ELSE Exists(seen, s.obj) /\ (seen[s.obj] = "stable" => s.kind = "stable")

delete_passes(s, seen) == Exists(seen, s.obj)

drop_passes(s, seen) ==
  /\ s.lax \/ Exists(seen, s.obj)
  /\ Exists(seen, s.obj) => (s.kind = "stable") = (seen[s.obj] = "stable")

\* good: the clauses have the syntax that the check knows.
tdengine_level(s, seen) ==
  Level(~ (/\ s.verb # "query" /\ ~ s.critical /\ s.good
           /\ \/ s.verb = "create" /\ create_passes(s, seen)
              \/ s.verb = "alter" /\ alter_passes(s, seen)
              \/ s.verb = "insert" /\ insert_passes(s, seen)
              \/ s.verb = "delete" /\ delete_passes(s, seen)
              \/ s.verb = "drop" /\ drop_passes(s, seen)), FALSE)

\* Slip: only the super tables that the ticket creates are remembered.
mark_stable_created(made, s, level) ==
  IF s.verb = "create" /\ level = 0 /\ s.kind = "stable"
  THEN [made EXCEPT ![s.obj] = s.kind] ELSE made

\* A creation that passed is remembered with its kind; what is dropped is not forgotten,
\* and what INSERT ... USING creates is not remembered.
mark_table_created(made, s, level) ==
  IF s.verb = "create" /\ level = 0 THEN [made EXCEPT ![s.obj] = s.kind] ELSE made

\* What is remembered before statement number n + 1.
tdengine_made(script, schema, n) ==
  LET made[k \in 0..n] ==
        IF k = 0 THEN Nothing
        ELSE mark_table_created(made[k - 1], script[k],
               tdengine_level(script[k], workflow_obj_check(schema, made[k - 1])))
  IN made[n]

tdengine_execute_check(script, schema) ==
  [i \in DOMAIN script |->
     LET seen == workflow_obj_check(schema, tdengine_made(script, schema, i - 1))
     IN Row(i, tdengine_level(script[i], seen))]
=============================================================================
