------------------------------ MODULE MCEngines ------------------------------
(***************************************************************************)
(* The engines for TLC: a ticket that is run, a query, an export, the      *)
(* management of an instance, the comparison of two schemas or the SQL of  *)
(* a binlog.  One run explores the one and the others; the parts not       *)
(* chosen in the beginning stay as they are.                               *)
(***************************************************************************)
EXTENDS EngineRun, Export, InstanceAdmin, SchemaDiff, My2sql, TLC

MCObjects == {"t", "s"}

S(verb, obj) ==
  [verb |-> verb, obj |-> obj, kind |-> "table", using |-> "none", lax |-> FALSE, where |-> TRUE,
   critical |-> FALSE, good |-> TRUE, named |-> TRUE, big |-> FALSE]

Tables ==
  {S("create", "t"), S("insert", "t"), S("drop", "t"), S("query", "t"),
   [S("update", "t") EXCEPT !.where = FALSE], [S("alter", "t") EXCEPT !.critical = TRUE],
   [S("insert", "t") EXCEPT !.good = FALSE]}

Documents ==
  {S("create", "t"), S("insert", "t"), S("update", "t"), S("delete", "t"), S("query", "t"),
   [S("insert", "s") EXCEPT !.good = FALSE]}

SuperTables ==
  {[S("create", "s") EXCEPT !.kind = "stable"], [S("alter", "s") EXCEPT !.kind = "stable"],
   [S("create", "t") EXCEPT !.kind = "ctable", !.using = "s"],
   [S("create", "t") EXCEPT !.lax = TRUE],
   [S("insert", "t") EXCEPT !.using = "s"], S("insert", "t"), S("drop", "t"),
   [S("delete", "t") EXCEPT !.critical = TRUE], [S("create", "t") EXCEPT !.critical = TRUE]}

Procedures ==
  {S("create", "t"), S("insert", "t"), S("drop", "t"),
   [S("create", "s") EXCEPT !.kind = "view"], [S("alter", "t") EXCEPT !.named = FALSE],
   [S("update", "t") EXCEPT !.critical = TRUE], [S("insert", "t") EXCEPT !.big = TRUE]}

MCMenu ==
  [e \in Engines |->
     CASE e = "tdengine"   -> SuperTables
       [] e = "oracle"     -> Procedures
       [] e = "clickhouse" -> Tables \cup {S("truncate", "t")}
       [] e = "mongo"      -> Documents \cup {[S("index", "t") EXCEPT !.big = TRUE], S("drop", "t")}
       [] e \in Stores     -> Documents
       [] OTHER            -> Tables]

MCSchemas ==
  {[o \in MCObjects |-> "none"], [o \in MCObjects |-> IF o = "t" THEN "table" ELSE "none"],
   [o \in MCObjects |-> IF o = "s" THEN "stable" ELSE "none"]}

Q(head) ==
  [head |-> head, form |-> "none", own |-> 1, tail |-> FALSE, star |-> FALSE, banned |-> FALSE,
   good |-> TRUE, tables |-> TRUE, hidden |-> FALSE]

Own(form, n) == [Q("select") EXCEPT !.form = form, !.own = n]

MCQueryEngines == Engines \cup {"odps"}

MCForms ==
  [e \in MCQueryEngines |->
     CASE e = "mssql"     -> {"top", "fetch"}
       [] e = "odps"      -> {"n", "offset", "comma"} \cup OdpsForms
       [] e = "oracle"    -> {"fetch"}
       [] e = "mongo"     -> {"n"} \cup FindForms
       [] e = "cassandra" -> {"n", "comma"}
       [] e \in {"redis", "memcached"} -> {}
       [] OTHER           -> {"n", "offset", "comma"}]

MCReads ==
  [e \in MCQueryEngines |->
     CASE e = "mongo"      -> {Q("aggregate"), [Q("aggregate") EXCEPT !.hidden = TRUE], Q("count"),
                               Q("distinct"), [Q("aggregate") EXCEPT !.form = "n", !.own = MaxRows]}
       [] e = "redis"      -> {Q("read"), Q("scan")}
       [] e = "memcached"  -> {Q("read")}
       [] e = "elasticsearch" -> {Q("read"), [Q("read") EXCEPT !.form = "size", !.own = MaxRows]}
       [] e = "mssql"      -> {[Q("showplan") EXCEPT !.tail = TRUE], [Q("select") EXCEPT !.hidden = TRUE]}
       [] e = "pgsql"      -> {[Q("explain") EXCEPT !.hidden = TRUE], [Q("select") EXCEPT !.hidden = TRUE]}
       [] e = "mysql"      -> {[Q("select") EXCEPT !.tables = FALSE], [Q("show") EXCEPT !.tables = FALSE]}
       [] e \in {"clickhouse", "tdengine", "oracle"} -> {Q("with")}
       [] OTHER            -> {}]

MCQueryMenu ==
  [e \in MCQueryEngines |->
     {Q("write"), Q("explain")} \cup MCReads[e]
       \cup (IF e \in {"redis", "memcached"} THEN {}
             ELSE {[Q("select") EXCEPT !.tail = TRUE, !.star = TRUE], [Q("select") EXCEPT !.good = FALSE],
                   [Q("select") EXCEPT !.banned = TRUE]})
       \cup {Own(form, MaxRows) : form \in MCForms[e]} \cup {Own(form, 1) : form \in MCForms[e] \ {"offset", "comma"}}]

MCKindOf == "files" :> "local" @@ "bucket" :> "s3c" @@ "typo" :> "other"

Col(name, def) ==
  [name |-> name, def |-> def, coll |-> IF Charactered([def |-> def]) THEN "utf8" ELSE "", comment |-> ""]

Idx(name, columns) == [name |-> name, kind |-> "unique", columns |-> columns]

Tbl(columns, indexes) ==
  [columns |-> columns, indexes |-> indexes,
   options |-> [engine |-> "innodb", coll |-> "utf8", comment |-> "",
                auto |-> IF \E c \in columns : c.def = "seq" THEN 5 ELSE 0],
   highest |-> IF \E c \in columns : c.def = "seq" THEN 4 ELSE 0]

MCDiffTables ==
  LET a == Col("a", "int")  x == Col("a", "text")  b == Col("b", "int")  c == Col("c", "text") d == Col("d", "int")
      n == Col("a", "textN") k == Col("a", "seq")
      says == [a EXCEPT !.comment = "says"]  latin == [c EXCEPT !.coll = "latin"]
      old == [c EXCEPT !.coll = "utf8mb3"]
  IN {Tbl({a}, {}), Tbl({a, b, c}, {}), Tbl({says, c}, {}), Tbl({d, b}, {}),
      Tbl({x, b}, {}), Tbl({b, n}, {}), Tbl({latin, a}, {}), Tbl({a, Col("b", "now")}, {}), Tbl({a, Col("b", "now()")}, {}),
      Tbl({a, b}, {Idx("PRIMARY", <<"a">>)}), Tbl({a, b}, {Idx("PRIMARY", <<"a">>), Idx("i", <<"b">>)}),
      Tbl({a, b}, {Idx("i", <<"a", "b">>)}),
      Tbl({k, b}, {Idx("PRIMARY", <<"a">>)}), [Tbl({k}, {Idx("PRIMARY", <<"a">>)}) EXCEPT !.options.auto = 9, !.highest = 6],
      [Tbl({a, c}, {}) EXCEPT !.options.coll = "latin"], [Tbl({a, old}, {}) EXCEPT !.options.coll = "utf8mb3"],
      [Tbl({a}, {}) EXCEPT !.options.comment = "says", !.options.engine = "myisam"],
      [Tbl({a}, {}) EXCEPT !.options.coll = "", !.options.engine = ""],
      Tbl({Col("a", "sum"), Col("b", "call")}, {}), Tbl({a, Col("b", "word"), Col("c", "ENUM")}, {}),
      Tbl({a, Col("b", "null"), Col("c", "enum")}, {})}

NoSchema == [n \in TableNames |-> NoTable]

MCDiffSchemas ==
  {NoSchema} \cup
  {[n \in TableNames |-> IF n = "t" THEN t ELSE NoTable] : t \in MCDiffTables}
    \cup {[n \in TableNames |-> IF n = "u" THEN Tbl({Col("a", "int")}, {}) ELSE NoTable]}

\* A quote gets a backslash.
MCEscaped == [p \in Passwords |-> IF p = "it's" THEN "it\\'s" ELSE p]

\* 8M and 8388608 are one value, told in bytes.
MCPlain == [s \in Settings |-> IF s = "8m" THEN "8" ELSE s]

MCTableOf == 1 :> 1 @@ 2 :> 2

MCSymmetry == Permutations(Visits) \cup Permutations(Accounts)

VARIABLE part

\* An engine and a schema to stand still on; the parameter begins as 8.
Idle == engine = "mysql" /\ schema = [o \in MCObjects |-> "none"]

DiffIdle == schemas["source"] = NoSchema /\ schemas["target"] = NoSchema

AdminIdle == dbType = "mysql"

MCInit ==
  /\ Init /\ QueryInit /\ InstanceInit /\ ExportInit /\ DiffInit /\ My2sqlInit
  /\ part \in {"ticket", "query", "export", "admin", "diff", "binlog"}
  /\ runtime = "8"
  /\ part # "export" => storage = "files"
  /\ part # "ticket" => Idle
  /\ part # "admin" => AdminIdle
  /\ part # "diff" => DiffIdle

MCNext ==
  \/ part = "ticket" /\ Next /\ UNCHANGED <<part, queryVars, exportOwnVars, instanceVars, diffVars, my2sqlVars>>
  \/ part = "query" /\ QueryNext /\ UNCHANGED <<part, vars, exportOwnVars, instanceVars, diffVars, my2sqlVars>>
  \/ part = "export" /\ ExportNext /\ UNCHANGED <<part, vars, instanceVars, diffVars, my2sqlVars>>
  \/ part = "admin" /\ InstanceNext /\ UNCHANGED <<part, vars, queryVars, exportOwnVars, diffVars, my2sqlVars>>
  \/ part = "diff" /\ DiffNext /\ UNCHANGED <<part, vars, queryVars, exportOwnVars, instanceVars, my2sqlVars>>
  \/ part = "binlog" /\ My2sqlNext /\ UNCHANGED <<part, vars, queryVars, exportOwnVars, instanceVars, diffVars>>

\* The types of all.
EnginesTypeOK == EngineTypeOK /\ QueryTypeOK /\ ExportTypeOK /\ InstanceTypeOK /\ SchemaDiffTypeOK /\ My2sqlTypeOK

MCSpec == MCInit /\ [][MCNext]_<<part, vars, queryVars, exportOwnVars, instanceVars, diffVars, my2sqlVars>>
=============================================================================
