------------------------------ MODULE SchemaDiff ------------------------------
(***************************************************************************)
(* The comparison of the tables of two MySQL schemas: what is read of      *)
(* either, the differences that are found, and the ALTER that makes the    *)
(* target like the source (patch) and the one that takes it back (revert). *)
(* DBShield does not run them; a ticket of the user's does.  How MySQL     *)
(* carries an ALTER out is modelled from how the service writes them.      *)
(* The columns of a table are a set: where a column stands is told by no   *)
(* signature and by no property, so the FIRST and AFTER of a clause are    *)
(* left out (that MySQL may refuse one only makes it take fewer ALTERs),   *)
(* and the renames, which the code pairs off in the order of the columns,  *)
(* may be paired off in any order.                                         *)
(***************************************************************************)
EXTENDS Naturals, Sequences, Functions

CONSTANTS
  TableNames, BadNames,  \* names of tables, and those with characters that are refused
  DiffSchemas,           \* schemas to begin with: name -> table, or NoTable
  NoTable,
  MaxDrifts              \* bound: changes that others make

Sides == {"source", "target"}

ColumnType == [name : STRING, def : STRING, coll : STRING, comment : STRING]
IndexType == [name : STRING, kind : STRING, columns : Seq(STRING)]
OptionType == [engine : STRING, coll : STRING, comment : STRING, auto : Nat]

Names(columns) == {c.name : c \in columns}

Charactered(col) == col.def \in {"text", "textN", "null", "word", "call", "enum", "ENUM"}

\* What MySQL tells of a table: names are unique, an index is on columns of the table, a column of
\* characters has a collation and no other has one, a view has no collation and no engine, and a
\* value of AUTO_INCREMENT is a column's, and above the highest that its rows have (which the service
\* does not read).
TableShape(t) ==
  /\ t \in [columns : SUBSET ColumnType, indexes : SUBSET IndexType, options : OptionType, highest : Nat]
  /\ \A c, d \in t.columns : c.name = d.name => c = d
  /\ \A i, j \in t.indexes : i.name = j.name => i = j
  /\ \A i \in t.indexes : Range(i.columns) \subseteq Names(t.columns)
  /\ \A c \in t.columns : c.coll # "" <=> Charactered(c)
  /\ t.options.coll = "" => t.options.engine = ""
  /\ t.options.auto # 0 => t.options.auto > t.highest /\ \E c \in t.columns : c.def = "seq"

ASSUME SchemaDiffAssumption ==
  /\ BadNames \subseteq TableNames /\ MaxDrifts \in Nat
  /\ \A schema \in DiffSchemas :
       /\ schema = [n \in TableNames |-> schema[n]]
       /\ \A n \in TableNames : schema[n] = NoTable \/ TableShape(schema[n])

VARIABLES
  schemas,     \* side -> name -> table
  compared,    \* how far the comparison is
  wish,        \* tables asked for (all of them, if none), and what else is to be told apart
  reads,       \* queries of it that were answered
  seen,        \* side -> what the queries told
  shown,       \* name -> the differences shown
  drifts,      \* changes by others
  disturbed,   \* ghost: there was one since the comparison began
  taken        \* ghost: the last ALTER that went through, and what the table was before the first

diffVars == <<schemas, compared, wish, reads, seen, shown, drifts, disturbed, taken>>

NoDiff == <<>>

NoWish == [tables |-> {}, auto |-> FALSE, comments |-> FALSE]

SchemaDiffTypeOK ==
  /\ \A side \in Sides : DOMAIN schemas[side] = TableNames
  /\ compared \in {"no", "reading", "shown", "refused", "failed"}
  /\ wish \in [tables : SUBSET TableNames, auto : BOOLEAN, comments : BOOLEAN]
  /\ reads \in 0..6 /\ DOMAIN shown \subseteq TableNames
  /\ drifts \in 0..MaxDrifts /\ disturbed \in BOOLEAN

-----------------------------------------------------------------------------
(* What is compared of a column, an index and a table.  def is a column's  *)
(* type with its NULL, default and EXTRA; to MySQL "now()" and "now" are   *)
(* one default, as are "text" and "textN" (a DEFAULT NULL that 8.0 tells). *)
(* "sum" is generated, and else an "int"; "call" has an expression for its *)
(* default and "word" the text of it, "null" the text NULL; "ENUM" and     *)
(* "enum" have values that differ in their case.                           *)

normalize_collation(name) == IF name = "utf8mb3" THEN "utf8" ELSE name

normalized_default(def) ==
  CASE def = "now()" -> "now"
    [] def = "textN" -> "text"
    [] OTHER         -> def

\* The service reads EXTRA for AUTO_INCREMENT and ON UPDATE, puts an expression in quotes, and takes
\* the text NULL for no default.
DefinitionWritten(def) ==
  CASE def = "sum"  -> "int"
    [] def = "call" -> "word"
    [] def = "null" -> "text"
    [] OTHER        -> normalized_default(def)

\* It compares types in lower case.
DefinitionTold(def) == IF def = "ENUM" THEN "enum" ELSE DefinitionWritten(def)

column_signature(col, comments) ==
  <<DefinitionTold(col.def), normalize_collation(col.coll), IF comments THEN col.comment ELSE "">>

\* The character set is written where it is not the table's.
charset_clause(col, table_collation) ==
  IF normalize_collation(table_collation) \in {"", normalize_collation(col.coll)} THEN "" ELSE col.coll

\* Slip: no character set is written.
column_definition_plain(col, table_collation) ==
  [name |-> col.name, def |-> DefinitionWritten(col.def), coll |-> "", comment |-> col.comment]

\* The column as the ALTER writes it: with the comment, asked for or not.
column_definition(col, table_collation) ==
  [name |-> col.name, def |-> DefinitionWritten(col.def), coll |-> charset_clause(col, table_collation),
   comment |-> col.comment]

Column(columns, name) == CHOOSE c \in columns : c.name = name

-----------------------------------------------------------------------------
(* diff_table.  An item has the clause of the patch and that of the        *)
(* revert; danger is the mark of the page.                                 *)

Clause(op, name, col) == [op |-> op, name |-> name, col |-> col]
IndexClause(op, idx) == [op |-> op, index |-> idx]
OptionClause(field, value) == [op |-> "option", field |-> field, value |-> value]

NoColumn == [name |-> "", def |-> "", coll |-> "", comment |-> ""]

Item(kind, action, object, danger, patch, revert) ==
  [kind |-> kind, action |-> action, object |-> object, danger |-> danger, patch |-> patch, revert |-> revert]

\* Slip: no column is taken for renamed.
Renames_none(src, dst) == {{}}

\* A column that went and one that came with the same signature are one column renamed: one after
\* the other is paired with one that is free yet, as long as there is any.
Renames(src, dst) ==
  LET added   == {c \in src : c.name \notin Names(dst)}
      removed == {c \in dst : c.name \notin Names(src)}
      pairs   == {p \in [from : removed, to : added] :
                    column_signature(p.from, FALSE) = column_signature(p.to, FALSE)}
  IN {m \in SUBSET pairs :
        /\ \A p, q \in m : p.from = q.from \/ p.to = q.to => p = q
        /\ \A p \in pairs : \E q \in m : p.from = q.from \/ p.to = q.to}

column_items(s, d, coll, comments, renames) ==
  LET added   == {c \in s : c.name \notin Names(d) /\ \A p \in renames : p.to # c}
      removed == {c \in d : c.name \notin Names(s) /\ \A p \in renames : p.from # c}
      changed == {c \in s : /\ c.name \in Names(d)
                            /\ column_signature(c, comments)
                                 # column_signature(Column(d, c.name), comments)}
      Def(side, c) == column_definition(c, coll[side])
  IN {Item("column", "rename", p.from.name, FALSE, Clause("change", p.from.name, Def("source", p.to)),
           Clause("change", p.to.name, Def("target", p.from))) : p \in renames}
     \cup {Item("column", "add", c.name, FALSE, Clause("add", c.name, Def("source", c)),
                Clause("drop", c.name, NoColumn)) : c \in added}
     \cup {Item("column", "drop", c.name, TRUE, Clause("drop", c.name, NoColumn),
                Clause("add", c.name, Def("target", c))) : c \in removed}
     \cup {Item("column", "modify", c.name, FALSE, Clause("modify", c.name, Def("source", c)),
                Clause("modify", c.name, Def("target", Column(d, c.name)))) : c \in changed}

\* An index that changed is dropped and made again, in a clause whose two halves are joined by a
\* comma that is none of SQL's: "swap" is text that MySQL does not read.
index_items(src, dst) ==
  LET added   == {i \in src : i.name \notin Names(dst)}
      removed == {i \in dst : i.name \notin Names(src)}
      changed == {i \in src \ dst : i.name \in Names(dst)}
  IN {Item("index", "add", i.name, FALSE, IndexClause("make", i), IndexClause("unmake", i)) : i \in added}
     \cup {Item("index", "drop", i.name, i.name = "PRIMARY", IndexClause("unmake", i),
                IndexClause("make", i)) : i \in removed}
     \cup {Item("index", "modify", i.name, i.name = "PRIMARY", IndexClause("swap", i),
                IndexClause("swap", i)) : i \in changed}

table_option_diffs(src, dst, comments, auto) ==
  LET Diff(field, from, to, compares) ==
        IF compares /\ from # to
        THEN {Item("option", "modify", field, FALSE, OptionClause(field, from), OptionClause(field, to))} ELSE {}
  IN Diff("engine", src.engine, dst.engine, TRUE)
     \cup Diff("coll", normalize_collation(src.coll), normalize_collation(dst.coll), TRUE)
     \cup Diff("comment", src.comment, dst.comment, comments)
     \cup Diff("auto", src.auto, dst.auto, auto /\ src.auto # 0)

diff_table(src, dst, w, renames) ==
  column_items(src.columns, dst.columns, [source |-> src.options.coll, target |-> dst.options.coll],
               w.comments, renames)
    \cup index_items(src.indexes, dst.indexes)
    \cup table_option_diffs(src.options, dst.options, w.comments, w.auto)

\* One ALTER of all the clauses; a collation that there is none of has no clause.
build_alter(items, side) ==
  {c \in {IF side = "patch" THEN i.patch ELSE i.revert : i \in items} :
     ~(c.op = "option" /\ c.field = "coll" /\ c.value = "")}

-----------------------------------------------------------------------------
(* MySQL: an ALTER is carried out as a whole or refused as a whole.        *)

Clauses(alter, ops) == {c \in alter : c.op \in ops}

ColumnOps == {"change", "add", "drop", "modify"}

OptionAfter(table, alter, field) ==
  IF \E c \in alter : c.op = "option" /\ c.field = field
  THEN (CHOOSE c \in alter : c.op = "option" /\ c.field = field).value
  ELSE table.options[field]

ColumnsAfter(table, alter) ==
  LET gone == {c.name : c \in Clauses(alter, {"change", "drop", "modify"})}
  IN {c \in table.columns : c.name \notin gone} \cup {c.col : c \in Clauses(alter, {"change", "add", "modify"})}

\* A column of characters that is told no character set has its table's.
Filled(col, table_collation) ==
  IF Charactered(col) /\ col.coll = "" THEN [col EXCEPT !.coll = table_collation] ELSE col

\* An index follows the columns that are renamed.
IndexesAfter(table, alter) ==
  LET changes == Clauses(alter, {"change"})
      Renamed(name) == IF \E c \in changes : c.name = name
                       THEN (CHOOSE c \in changes : c.name = name).col.name ELSE name
      kept == {i \in table.indexes : \A c \in Clauses(alter, {"unmake"}) : c.index.name # i.name}
  IN {[i EXCEPT !.columns = [k \in DOMAIN i.columns |-> Renamed(i.columns[k])]] : i \in kept}
       \cup {c.index : c \in Clauses(alter, {"make"})}

\* A value of AUTO_INCREMENT that the rows have reached is ignored.
AutoAfter(table, alter) ==
  LET wanted == OptionAfter(table, alter, "auto")
  IN IF wanted > table.highest THEN wanted ELSE table.highest + 1

Altered(table, alter) ==
  LET coll == OptionAfter(table, alter, "coll")
      columns == {Filled(c, coll) : c \in ColumnsAfter(table, alter)}
  IN [columns |-> columns,
      indexes |-> IndexesAfter(table, alter),
      options |-> [engine |-> OptionAfter(table, alter, "engine"), coll |-> coll,
                   comment |-> OptionAfter(table, alter, "comment"),
                   auto |-> IF \E c \in columns : c.def = "seq" THEN AutoAfter(table, alter) ELSE 0],
      highest |-> table.highest]

\* A clause about a column or an index that is not there, or about a new one that is; the default of
\* now(), which is written in quotes; the AUTO_INCREMENT of None of a table that has none.
ClauseRefused(table, alter, c) ==
  \/ c.op = "swap"
  \/ c.op \in {"change", "drop", "modify"} /\ c.name \notin Names(table.columns)
  \/ c.op \in {"change", "add"} /\ c.col.name \in Names(table.columns)
  \/ c.op \in ColumnOps /\ c.col.def = "now"
  \/ c.op = "option" /\ c.field = "engine" /\ c.value = ""
  \/ c.op = "option" /\ c.field = "auto" /\ c.value = 0
  \/ c.op = "unmake" /\ c.index.name \notin Names(table.indexes)
  \/ /\ c.op = "make" /\ c.index.name \in Names(table.indexes)
     /\ \A d \in Clauses(alter, {"unmake"}) : d.index.name # c.index.name

\* A view is altered like a table; a table keeps a column, those that its indexes are on, and an
\* index that its AUTO_INCREMENT column leads.
MySQLRefuses(table, alter) ==
  LET new == Altered(table, alter) IN
  \/ \E c \in alter : ClauseRefused(table, alter, c)
  \/ table.options.engine = "" \/ new.columns = {}
  \/ \E i \in new.indexes : ~(Range(i.columns) \subseteq Names(new.columns))
  \/ \E c \in new.columns : c.def = "seq" /\ \A i \in new.indexes : i.columns[1] # c.name

-----------------------------------------------------------------------------
(* The request, the queries of either side one after the other, and what   *)
(* is shown.                                                               *)

DiffInit ==
  /\ schemas \in [Sides -> DiffSchemas]
  /\ compared = "no" /\ wish = NoWish /\ reads = 0 /\ seen = NoDiff /\ shown = NoDiff
  /\ drifts = 0 /\ disturbed = FALSE /\ taken = NoDiff

TableDiffView ==
  /\ compared = "no"
  /\ wish' \in [tables : SUBSET TableNames, auto : BOOLEAN, comments : BOOLEAN]
  /\ compared' = IF wish'.tables \cap BadNames # {} THEN "refused" ELSE "reading"
  /\ disturbed' = FALSE
  /\ UNCHANGED <<schemas, reads, seen, shown, drifts, taken>>

\* An instance that is not MySQL's, not there, or not of the user's groups.
ResolveFails ==
  /\ compared = "reading" /\ reads = 0
  /\ compared' = "failed"
  /\ UNCHANGED <<schemas, wish, reads, seen, shown, drifts, disturbed, taken>>

Listed(side) ==
  {n \in TableNames : schemas[side][n] # NoTable /\ (wish.tables = {} \/ n \in wish.tables)}

Queries ==
  <<[side |-> "source", of |-> "options"], [side |-> "source", of |-> "columns"],
    [side |-> "source", of |-> "indexes"], [side |-> "target", of |-> "options"],
    [side |-> "target", of |-> "columns"], [side |-> "target", of |-> "indexes"]>>

get_tables_schema ==
  /\ compared = "reading" /\ reads < Len(Queries)
  /\ LET q == Queries[reads + 1]
         rows == [n \in Listed(q.side) |-> schemas[q.side][n][q.of]]
     IN seen' = Append(seen, rows)
  /\ reads' = reads + 1
  /\ UNCHANGED <<schemas, compared, wish, shown, drifts, disturbed, taken>>

QueryFails ==
  /\ compared = "reading" /\ reads \in 1..5
  /\ compared' = "failed" /\ seen' = NoDiff /\ reads' = 0
  /\ UNCHANGED <<schemas, wish, shown, drifts, disturbed, taken>>

\* A side's table, as its three answers tell it.
Fetched(side, n) ==
  LET k == IF side = "source" THEN 0 ELSE 3
  IN [options |-> seen[k + 1][n],
      columns |-> IF n \in DOMAIN seen[k + 2] THEN seen[k + 2][n] ELSE {},
      indexes |-> IF n \in DOMAIN seen[k + 3] THEN seen[k + 3][n] ELSE {}]

\* A table that one side has not is shown, and has no SQL.
diff_schemas ==
  /\ compared = "reading" /\ reads = Len(Queries)
  /\ LET both == DOMAIN seen[1] \cap DOMAIN seen[4]
         Found(n) == Renames(Fetched("source", n).columns, Fetched("target", n).columns)
     IN \E renames \in [both -> UNION {Found(n) : n \in both}] :
          /\ \A n \in both : renames[n] \in Found(n)
          /\ shown' = [n \in both |-> diff_table(Fetched("source", n), Fetched("target", n), wish, renames[n])]
  /\ compared' = "shown" /\ seen' = NoDiff /\ reads' = 0
  /\ UNCHANGED <<schemas, wish, drifts, disturbed, taken>>

-----------------------------------------------------------------------------
(* The ticket of a patch, and that of its revert.                          *)

RunTicket(n, side) ==
  LET before == schemas["target"][n]
      alter  == build_alter(shown[n], side)
      after  == Altered(before, alter)
  IN /\ compared = "shown" /\ n \in DOMAIN shown
     /\ before # NoTable /\ alter # {} /\ ~MySQLRefuses(before, alter)
     /\ schemas' = [schemas EXCEPT !["target"][n] = after]
     /\ taken' = [table |-> n, of |-> side, after |-> after,
                   original |-> IF taken = NoDiff THEN before ELSE taken.original]
     /\ UNCHANGED <<compared, wish, reads, seen, shown, drifts, disturbed>>

RunPatch == taken = NoDiff /\ \E n \in DOMAIN shown : RunTicket(n, "patch")

RunRevert == /\ taken # NoDiff /\ taken.of = "patch" /\ RunTicket(taken.table, "revert")

\* Others drop a table, or a column that is not its last and that no index needs, on either side.
Drift ==
  /\ drifts < MaxDrifts /\ compared \in {"reading", "shown"}
  /\ \E side \in Sides, n \in TableNames :
       LET table == schemas[side][n] IN
       /\ table # NoTable
       /\ \/ schemas' = [schemas EXCEPT ![side][n] = NoTable]
          \/ \E c \in table.columns :
               /\ table.columns # {c} /\ \A i \in table.indexes : c.name \notin Range(i.columns)
               /\ schemas' = [schemas EXCEPT ![side][n].columns = @ \ {c}]
  /\ drifts' = drifts + 1 /\ disturbed' = TRUE
  /\ UNCHANGED <<compared, wish, reads, seen, shown, taken>>

DiffNext ==
  \/ TableDiffView \/ ResolveFails \/ get_tables_schema \/ QueryFails \/ diff_schemas
  \/ RunPatch \/ RunRevert \/ Drift

DiffSpec == DiffInit /\ [][DiffNext]_diffVars

-----------------------------------------------------------------------------
(* Properties.                                                             *)

\* What the comparison cannot tell apart and the ALTER does not write.
Untold == {"sum", "call", "null", "ENUM"}

SameDefinition(x, y) ==
  \/ normalized_default(x) = normalized_default(y)
  \/ {x, y} \cap Untold # {} /\ DefinitionTold(x) = DefinitionTold(y)

SameColumns(s, t, comments) ==
  /\ Names(s) = Names(t)
  /\ \A n \in Names(s) :
       LET x == Column(s, n)  y == Column(t, n) IN
       /\ SameDefinition(x.def, y.def)
       /\ normalize_collation(x.coll) = normalize_collation(y.coll)
       /\ comments => x.comment = y.comment

SameOptions(s, t) ==
  s.engine = t.engine /\ normalize_collation(s.coll) = normalize_collation(t.coll)

\* Equal in all that was asked for; the order of the columns is not compared.
Alike(s, t) ==
  /\ SameColumns(s.columns, t.columns, wish.comments)
  /\ s.indexes = t.indexes
  /\ SameOptions(s.options, t.options)
  /\ wish.comments => s.options.comment = t.options.comment
  /\ wish.auto /\ s.options.auto > t.highest => s.options.auto = t.options.auto

ColumnItems(action, name) ==
  {i \in shown[taken.table] : i.kind = "column" /\ i.action = action /\ i.object = name}

\* The columns that the patch took away, with their data, and those that it brought.
Lost == {n \in Names(taken.original.columns) \ Names(taken.after.columns) : ColumnItems("rename", n) = {}}

Came == {n \in Names(taken.after.columns) \ Names(taken.original.columns) : ColumnItems("add", n) # {}}

\* The two ALTERs do what the page says of them (schema_diff_service.py:1-10, and the note on
\* renames at :234).  Of the ALTERs that MySQL takes: when nobody else changed a table since the
\* comparison was asked for, the target is like its source after the patch, and as it was, comments
\* included, after the revert.  But that a column is generated, that its default is an expression
\* or the text NULL, and the case of its type's values may be lost or stay as they were, for the
\* comparison does not tell them; and an AUTO_INCREMENT is the source's only where it is above what
\* the target's rows have.  (No text has a backslash, which _escape_string leaves as it is; prefix
\* lengths of indexes, and what else is never read, are not in the tables.)  And whatever others did:
\* a column's data goes only where the page marked the drop as dangerous, and never while a column
\* of the same signature is added.
PatchesDoWhatTheySay ==
  taken # NoDiff =>
    /\ taken.of = "patch" /\ ~disturbed => Alike(schemas["source"][taken.table], taken.after)
    /\ taken.of = "revert" /\ ~disturbed =>
         LET was == taken.original IN
         /\ SameColumns(was.columns, taken.after.columns, TRUE)
         /\ was.indexes = taken.after.indexes
         /\ SameOptions(was.options, taken.after.options)
         /\ was.options.comment = taken.after.options.comment
    /\ taken.of = "patch" => \A n \in Lost :
         /\ \E item \in ColumnItems("drop", n) : item.danger
         /\ \A m \in Came : column_signature(Column(taken.original.columns, n), FALSE)
                               # column_signature(Column(taken.after.columns, m), FALSE)

=============================================================================
