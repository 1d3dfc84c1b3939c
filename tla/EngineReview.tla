---------------------------- MODULE EngineReview ----------------------------
(***************************************************************************)
(* What the engines say of an SQL ticket when it is submitted, and what    *)
(* the servers answer when its statements are sent.                        *)
(*                                                                         *)
(* A statement is what the checks and the servers tell apart: its verb,    *)
(* its object, the kind of object it names, and a few marks.  A server is  *)
(* a function from objects to their types.  No state: EngineRun has it.    *)
(***************************************************************************)
EXTENDS Naturals, Sequences, SequencesExt

CONSTANT Objects   \* tables, indices, collections, keys

Engines == {"mysql", "pgsql", "oracle", "mssql", "clickhouse", "tdengine", "doris",
            "cassandra", "phoenix", "redis", "elasticsearch", "mongo", "memcached"}

Verbs == {"query", "create", "alter", "drop", "truncate", "insert", "update", "delete", "index"}
Changes == {"insert", "update", "delete"}                \* DML
Types == {"none", "table", "stable", "ctable", "view"}   \* "view" stands for engines that do not alter

\* using: the super table named in USING.  lax: IF [NOT] EXISTS, OR REPLACE.  where: a
\* condition, a document id, background: true.  critical: matches critical_ddl_regex.
\* named: the name of the object can be read.  big: touches more rows than the warning limit.
Statement == [verb : Verbs, obj : Objects, kind : Types, using : Objects \cup {"none"},
              lax : BOOLEAN, where : BOOLEAN, critical : BOOLEAN, good : BOOLEAN,
              named : BOOLEAN, big : BOOLEAN]

Schema == [Objects -> Types]

-----------------------------------------------------------------------------
(* The servers.                                                            *)

Exists(schema, o) == schema[o] # "none"

SubtableOf(s) == s.using # "none"

\* Super tables are altered and dropped as such, and written to with the column tbname,
\* here kind = "stable".
FitsKind(schema, s) ==
  CASE s.verb \in {"alter", "drop"} -> (s.kind = "stable") = (schema[s.obj] = "stable")
    [] s.verb = "insert" -> IF SubtableOf(s) THEN schema[s.obj] \in {"none", "ctable"}
                            ELSE schema[s.obj] = "stable" => s.kind = "stable"
    [] OTHER -> TRUE

CreatesOk(schema, s) == ~ Exists(schema, s.obj) /\ (SubtableOf(s) => schema[s.using] = "stable")

\* What a server with tables answers to a statement.
SqlAnswer(schema, s) ==
  IF ~ s.good THEN "invalid"
  ELSE IF s.verb = "create" THEN
    IF Exists(schema, s.obj) THEN IF s.lax THEN "ok" ELSE "exists"
    ELSE IF CreatesOk(schema, s) THEN "ok" ELSE "missing"
  ELSE IF s.verb = "insert" /\ SubtableOf(s) THEN
    IF schema[s.using] = "stable" /\ FitsKind(schema, s) THEN "ok" ELSE "missing"
  ELSE IF ~ Exists(schema, s.obj) THEN IF s.verb = "drop" /\ s.lax THEN "ok" ELSE "missing"
  ELSE IF FitsKind(schema, s) THEN "ok" ELSE "invalid"

\* Document stores and key-value stores make what they are told to write.
StoreAnswer(engine, schema, s) ==
  IF ~ s.good THEN "invalid"
  ELSE IF s.verb = "create" THEN IF Exists(schema, s.obj) THEN "exists" ELSE "ok"
  ELSE IF s.verb \in {"update", "delete"} /\ engine \in {"elasticsearch", "memcached"}
          /\ ~ Exists(schema, s.obj) THEN "missing"
  ELSE "ok"

Stores == {"redis", "elasticsearch", "mongo", "memcached"}

Answer(engine, schema, s) ==
  IF engine \in Stores THEN StoreAnswer(engine, schema, s) ELSE SqlAnswer(schema, s)

\* The objects after a statement that was taken.
After(engine, schema, s) ==
  CASE s.verb = "create" /\ ~ Exists(schema, s.obj) -> [schema EXCEPT ![s.obj] = s.kind]
    [] s.verb = "drop" -> [schema EXCEPT ![s.obj] = "none"]
    [] s.verb = "insert" /\ SubtableOf(s) -> [schema EXCEPT ![s.obj] = "ctable"]
    [] s.verb = "insert" /\ engine \in Stores /\ ~ Exists(schema, s.obj) ->
         [schema EXCEPT ![s.obj] = "table"]
    [] OTHER -> schema

-----------------------------------------------------------------------------
(* execute_check: the level of each statement, 0 passed, 1 warning, 2 error. *)

Level(refused, warned) == IF refused THEN 2 ELSE IF warned THEN 1 ELSE 0

\* Slip: rows are numbered from zero.
RowFromZero(i, level) == [at |-> i - 1, level |-> level]

Row(i, level) == [at |-> i, level |-> level]

EachBy(script, level(_)) == [i \in DOMAIN script |-> Row(i, level(script[i]))]

\* Updates and deletes of everything.
Unbounded(s) == s.verb \in {"update", "delete"} /\ ~ s.where

pgsql_level(s) ==
  Level(s.verb \in {"query", "drop", "truncate"} \/ ~ s.good \/ s.critical, Unbounded(s))

\* Without a connection only the rules are checked.
mssql_level(s, connected) ==
  Level(s.verb = "query" \/ s.critical \/ (connected /\ ~ s.good), FALSE)

\* Tables are looked up on the server as it is now; whatever an earlier statement of the
\* ticket creates is not there yet.
clickhouse_level(s, schema) ==
  Level(\/ s.verb = "query"
        \/ s.critical
        \/ s.verb \in {"alter", "truncate", "insert"} /\ ~ Exists(schema, s.obj)
        \/ s.verb \in {"alter", "truncate"} /\ schema[s.obj] = "view"
        \/ ~ s.good, FALSE)

doris_level(s) == Level(s.verb = "query" \/ s.critical \/ Unbounded(s), FALSE)

\* dummy_audit: nothing is looked at.
cassandra_level(s) == 0
phoenix_level(s) == 0

\* Commands that write, in the list of those allowed.
redis_level(s) == Level(s.verb = "query" \/ s.verb \notin Changes, FALSE)
memcached_level(s) == Level(s.verb \notin Changes, FALSE)

\* A document is written with or without an id, and changed or deleted by its id only.
elasticsearch_level(s) ==
  Level(\/ s.verb \notin {"create"} \cup Changes
        \/ Unbounded(s)
        \/ s.verb = "create" /\ ~ s.good, FALSE)

\* In the background, and better not on a large collection.
mongo_index_level(s, schema) == Level(~ s.where, Exists(schema, s.obj) /\ s.big)

\* The arguments of a method are not decoded by the check.
mongo_level(s, schema) ==
  IF \/ s.verb = "query" \/ ~ s.named
     \/ s.verb = "create" /\ Exists(schema, s.obj)
     \/ s.verb \in {"drop", "update", "delete"} /\ ~ Exists(schema, s.obj)
  THEN 2
  ELSE IF s.verb = "index" THEN mongo_index_level(s, schema) ELSE 0

-----------------------------------------------------------------------------
(* Checks that remember the statements before.                             *)

\* Oracle: made are the objects created so far by this ticket; kind = "view" is PL/SQL.
oracle_refused(s) == s.verb = "query" \/ s.critical \/ Unbounded(s)

MadeHere(s, made) == s.obj \in made

object_name_check(s, schema, made) == Exists(schema, s.obj) \/ MadeHere(s, made)

\* The server explains statements on tables, except on a table that is yet to be made; of a DELETE
\* FROM get_dml_table takes "from" for the table, so that it is always explained.
oracle_explained(s, schema, made) ==
  IF s.verb \in Changes \ {"delete"} /\ MadeHere(s, made) THEN 1
  ELSE Level(\/ ~ s.good
             \/ s.verb \in Changes /\ ~ Exists(schema, s.obj)
             \/ s.verb = "create" /\ object_name_check(s, schema, made), s.big)

\* Of the others only the object is looked up, and they are warned of.
oracle_looked_up(s, schema, made) ==
  Level(\/ s.verb = "alter" /\ ~ object_name_check(s, schema, made)
        \/ s.verb = "create" /\ ~ s.lax /\ object_name_check(s, schema, made), TRUE)

oracle_level(s, schema, made) ==
  IF oracle_refused(s) THEN 2
  ELSE IF s.verb \in Changes \cup {"create"} /\ s.kind # "view"
       THEN oracle_explained(s, schema, made)
       ELSE oracle_looked_up(s, schema, made)

\* What the ticket has made before its statement number n + 1.
oracle_made(script, schema, n) ==
  LET note(made, s) == IF s.verb = "create" /\ oracle_level(s, schema, made) < 2
                       THEN made \cup {s.obj} ELSE made
  IN FoldLeft(note, {}, SubSeq(script, 1, n))

\* A statement whose object cannot be read raises an error inside the loop: the rows found
\* so far are the review, and the serializer does not look at the error.
oracle_execute_check(script, schema) ==
  LET unreadable == {i \in DOMAIN script : script[i].verb \in {"create", "alter"} /\ ~ script[i].named}
      reached == {i \in DOMAIN script : \A j \in unreadable : i < j}
  IN [i \in reached |-> Row(i, oracle_level(script[i], schema, oracle_made(script, schema, i - 1)))]

\* goInception (outside) follows the objects through the ticket.
ServerAfter(script, schema, n) ==
  FoldLeft(LAMBDA sch, s : IF SqlAnswer(sch, s) = "ok" THEN After("mysql", sch, s) ELSE sch,
           schema, SubSeq(script, 1, n))

GoInceptionLevels(script, schema) ==
  [i \in DOMAIN script |->
     Row(i, Level(SqlAnswer(ServerAfter(script, schema, i - 1), script[i]) # "ok", Unbounded(script[i])))]

\* mysql: on top of goInception's rows; separated is ddl_dml_separation.
Kind(s) == IF s.verb = "query" THEN "none" ELSE IF s.verb \in Changes THEN "DML" ELSE "DDL"

mysql_execute_check(script, schema, separated) ==
  LET rows == GoInceptionLevels(script, schema)
      plain(i) == script[i].verb # "query" /\ ~ script[i].critical
      flag == {i \in DOMAIN script : plain(i) /\ \A j \in 1..(i - 1) : ~ plain(j)}
      mixed(i) == separated /\ plain(i) /\ \E j \in flag : Kind(script[i]) # Kind(script[j])
  IN [i \in DOMAIN script |-> IF ~ plain(i) \/ mixed(i) THEN Row(i, 2) ELSE rows[i]]
=============================================================================
