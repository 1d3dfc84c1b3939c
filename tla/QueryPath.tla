----------------------------- MODULE QueryPath ------------------------------
(***************************************************************************)
(* One query on an instance: execute_sql_query, and what the engine of the *)
(* instance does in it.  The engine checks the statement, the privileges   *)
(* give a limit, the engine writes the limit into the statement, a         *)
(* schedule is to kill its connection, the statement runs, its rows are    *)
(* masked, and a log row is written.                                       *)
(*                                                                         *)
(* A statement is what these steps tell apart; of the rows only their      *)
(* number and whether they are masked.  granted, served, written    *)
(* and mode are ghosts, read by properties only.                           *)
(***************************************************************************)
EXTENDS Naturals

CONSTANTS QueryEngines,
          QueryMenu,    \* for each engine, statements to ask for
          MaxRows,      \* bound: rows that a statement meets
          DefaultSize, PageSize  \* Elasticsearch: rows without a size (100), rows of a page (1000)

Heads == {"select", "with", "show", "explain", "showplan", "read", "scan", "aggregate", "count",
          "distinct", "write"}

OdpsForms == {"upper", "line", "name"}
FindForms == {"empty", "negative"}

\* form: how the statement limits its rows, to own of them.  For ODPS: a limit in capitals
\* ("upper"), with its number on the next line ("line"), or the word in a name only ("name");
\* for a find of MongoDB: limit() without a number ("empty") or with a negative one.
\* tail: another statement, a
\* write, follows.  star: it has a *.  banned: words that the check forbids, or mysql.user.
\* good: the server can run it (MongoDB: the collection is there).  tables: it refers to some.
\* hidden: to run it writes, for all that it begins like a read (EXPLAIN ANALYZE DELETE, $out).
QueryStatement ==
  [head : Heads, form : {"none", "n", "offset", "comma", "top", "fetch", "size"} \cup OdpsForms \cup FindForms,
   own : 1..MaxRows, tail : BOOLEAN, star : BOOLEAN, banned : BOOLEAN, good : BOOLEAN, tables : BOOLEAN, hidden : BOOLEAN]

\* The engines that answer queries; OpenSearch is Elasticsearch's, goInception is only for tickets.
AllQueryEngines ==
  {"mysql", "doris", "clickhouse", "tdengine", "oracle", "pgsql", "phoenix", "cassandra", "mssql",
   "odps", "elasticsearch", "redis", "memcached", "mongo"}

\* A body of Elasticsearch has a size or none; of what MongoDB reads only a pipeline can write ($out).
ASSUME QueryPathAssumption ==
  /\ {MaxRows, DefaultSize, PageSize} \subseteq Nat \ {0}
  /\ QueryEngines \subseteq AllQueryEngines
  /\ \A e \in QueryEngines : QueryMenu[e] \subseteq QueryStatement
  /\ \A e \in QueryEngines : \A s \in QueryMenu[e] :
       /\ e = "elasticsearch" /\ s.head = "read" => s.form \in {"none", "size"}
       /\ e = "mongo" /\ s.hidden => s.head = "aggregate"
       /\ s.form \in OdpsForms => e = "odps"
       /\ s.form \in FindForms => e = "mongo" /\ s.head = "select"

\* The cap of a statement that has none.
Uncapped == MaxRows

Text  == [cap : 0..MaxRows, good : BOOLEAN, tail : BOOLEAN]
Reply == [rows : 0..(MaxRows + 1), affected : 0..(MaxRows + 1), error : BOOLEAN,
          masked : BOOLEAN, is_masked : BOOLEAN]

NoReply == [rows |-> 0, affected |-> 0, error |-> FALSE, masked |-> FALSE, is_masked |-> FALSE]
NoData  == [rows |-> 0, masked |-> FALSE]
NoRequest ==
  [engine |-> "none", limit |-> 0, hits |-> 0,
   statement |-> [head |-> "select", form |-> "none", own |-> 1, tail |-> FALSE, star |-> FALSE,
                  banned |-> FALSE, good |-> TRUE, tables |-> TRUE, hidden |-> FALSE]]
NoLog   == [written |-> FALSE, effect_row |-> 0, masking |-> FALSE]

VARIABLES
  asked,       \* the request: engine, statement, limit_num (0 for none), the rows it meets
  stage,       \* how far the request is
  text,        \* the statement as it is to be sent
  limit_num,
  opened,      \* connections opened so far, numbered from 1
  conn,        \* the one that is open, 0 for none
  thread_id, killing,  \* the engine's, and the one scheduled to be killed
  reply,       \* the engine's ResultSet
  answer_status, data, \* the answer
  log,         \* its QueryLog row
  granted, served, written, mode

request == <<asked, granted>>
threads == <<opened, conn, thread_id, killing>>
given   == <<answer_status, data>>
ran     == <<served, written>>
queryVars == <<asked, stage, text, limit_num, opened, conn, thread_id, killing, reply,
               answer_status, data, log, granted, served, written, mode>>

Lesser(m, n) == IF m <= n THEN m ELSE n

eng  == asked.engine
stmt == asked.statement

Thread == 0..2

QueryTypeOK ==
  /\ stage # "idle" => eng \in QueryEngines /\ stmt \in QueryMenu[eng]
  /\ stage \in {"idle", "asked", "checked", "granted", "connected", "measured", "ran", "masked", "answered", "dead"}
  /\ text \in Text /\ limit_num \in 0..MaxRows
  /\ {opened, conn, thread_id, killing} \subseteq Thread
  /\ reply \in Reply
  /\ answer_status \in 0..2 /\ data \in [rows : 0..(MaxRows + 1), masked : BOOLEAN]
  /\ log \in [written : BOOLEAN, effect_row : 0..(MaxRows + 1), masking : BOOLEAN]

Refuse(status) ==
  /\ stage' = "answered" /\ answer_status' = status
  /\ UNCHANGED <<request, text, limit_num, threads, reply, data, log, ran, mode>>

\* A request for an instance of the user's resource groups; others are refused at once.
ask ==
  /\ stage = "idle"
  /\ \E e \in QueryEngines, limit, hits \in 0..MaxRows :
     \E statement \in QueryMenu[e] :
       asked' = [engine |-> e, statement |-> statement, limit |-> limit, hits |-> hits]
  /\ stage' = "asked"
  /\ UNCHANGED <<text, limit_num, threads, reply, given, log, granted, ran, mode>>

-----------------------------------------------------------------------------
(* query_check: reads only, and of several statements the first.           *)

Begins(heads) == stmt.head \in heads

\* The server explains a select first.
Explained == stmt.head = "select" => stmt.good

mysql_query_check == Begins({"select", "show", "explain"}) /\ Explained /\ ~ stmt.banned

\* ClickHouse explains since 20.6.3; old is before that.
clickhouse_query_check(old) ==
  /\ Begins({"select", "show", "explain", "with"})
  /\ IF old THEN stmt.head # "explain" ELSE Explained

tdengine_query_check == Begins({"select", "show", "explain", "with"}) /\ Explained
oracle_query_check == Begins({"select", "with", "explain"})
pgsql_query_check == Begins({"select", "explain"})
phoenix_query_check == Begins({"select", "explain"})
cassandra_query_check == Begins({"select", "show"})
mssql_query_check == Begins({"select", "show", "showplan"}) /\ ~ stmt.banned
odps_query_check == Begins({"select"})
elasticsearch_query_check == Begins({"select", "read"})
redis_query_check == Begins({"read", "scan"})
memcached_query_check == Begins({"read"})

\* The collection is looked up as well.
mongo_query_check == Begins({"select", "aggregate", "count", "distinct", "explain"}) /\ stmt.good

PassesCheck(old) ==
  CASE eng \in {"mysql", "doris"} -> mysql_query_check
    [] eng = "clickhouse"    -> clickhouse_query_check(old)
    [] eng = "tdengine"      -> tdengine_query_check
    [] eng = "oracle"        -> oracle_query_check
    [] eng = "pgsql"         -> pgsql_query_check
    [] eng = "phoenix"       -> phoenix_query_check
    [] eng = "cassandra"     -> cassandra_query_check
    [] eng = "mssql"         -> mssql_query_check
    [] eng = "odps"          -> odps_query_check
    [] eng = "elasticsearch" -> elasticsearch_query_check
    [] eng = "redis"         -> redis_query_check
    [] eng = "memcached"     -> memcached_query_check
    [] eng = "mongo"         -> mongo_query_check

\* Engines whose check finds a *.
NamesStars == {"mysql", "doris", "clickhouse", "tdengine", "pgsql", "cassandra", "mssql", "oracle"}

\* A plan of SQL Server keeps its SET statements; the rest is split off elsewhere.
KeepsTail(engine, head) == engine = "mssql" /\ head = "showplan"

\* Only MySQL's explain opens a connection that matters later; it is closed again.
query_check ==
  /\ stage = "asked"
  /\ \E old, disable_star \in BOOLEAN :
       IF ~ PassesCheck(old) \/ (disable_star /\ stmt.star /\ eng \in NamesStars)
       THEN Refuse(1)
       ELSE /\ stage' = "checked"
            /\ text' = [cap |-> Uncapped, good |-> stmt.good, tail |-> stmt.tail /\ KeepsTail(eng, stmt.head)]
            /\ opened' = IF eng \in {"mysql", "doris"} /\ stmt.head = "select" THEN opened + 1 ELSE opened
            /\ UNCHANGED <<request, limit_num, conn, thread_id, killing, reply, given, log, ran, mode>>

\* query_priv_check (the module QueryPrivileges has it in full): g is the limit of the
\* privileges, none for a statement that MySQL does not look up.  An explain has no limit.
query_priv_check ==
  /\ stage = "checked"
  /\ \/ Refuse(2)
     \/ /\ \E g \in 1..MaxRows, limit \in 0..MaxRows :
             /\ \/ limit = (IF asked.limit = 0 THEN g ELSE Lesser(g, asked.limit))
                \/ eng = "mysql" /\ ~ stmt.tables /\ limit = asked.limit
                \/ eng = "mysql" /\ stmt.head = "show" /\ limit = 0
             /\ granted' = g
             /\ limit_num' = IF stmt.head = "explain" /\ eng # "mongo" THEN 0 ELSE limit
        /\ stage' = "granted"
        /\ UNCHANGED <<asked, text, threads, reply, given, log, ran, mode>>

-----------------------------------------------------------------------------
(* filter_sql: the cap the statement carries, and whether it is still one. *)

Bounded(cap, good) == [cap |-> cap, good |-> good]
AsItIs == Bounded(IF stmt.form \in {"none", "name", "empty"} THEN Uncapped ELSE stmt.own, TRUE)

\* Slip: in LIMIT m,n the first number is taken for the limit, and n is left.
rewrite_limit_sql_comma(limit) ==
  IF stmt.head # "select" \/ stmt.form = "comma" THEN AsItIs
  ELSE Bounded(IF stmt.form = "none" THEN limit ELSE Lesser(limit, stmt.own), TRUE)

\* LIMIT n, LIMIT n OFFSET m and LIMIT m,n are cut down, and a select without any gets one.
rewrite_limit_sql(limit) ==
  IF stmt.head # "select" THEN AsItIs
  ELSE Bounded(IF stmt.form = "none" THEN limit ELSE Lesser(limit, stmt.own), TRUE)

\* A second LIMIT after one with an offset is no statement; LIMIT m,n is none for PostgreSQL.
pgsql_filter_sql(limit) ==
  IF stmt.head # "select" THEN AsItIs
  ELSE IF stmt.form = "none" THEN Bounded(limit, TRUE)
  ELSE Bounded(stmt.own, stmt.form = "n")

cassandra_filter_sql(limit) ==
  IF stmt.head # "select" THEN AsItIs
  ELSE Bounded(IF stmt.form = "none" THEN limit ELSE Lesser(limit, stmt.own), stmt.form \in {"none", "n"})

phoenix_filter_sql(limit) ==
  IF stmt.head = "select" /\ stmt.form = "none" THEN Bounded(limit, TRUE) ELSE AsItIs

\* TOP, unless there is a TOP or a FETCH NEXT.
mssql_filter_sql(limit) ==
  IF stmt.head = "select" /\ stmt.form = "none" /\ limit > 0 THEN Bounded(limit, TRUE) ELSE AsItIs

filter_sql(limit) ==
  CASE eng \in {"mysql", "doris", "clickhouse", "tdengine"} -> rewrite_limit_sql(limit)
    [] eng = "elasticsearch" -> rewrite_limit_sql(limit)
    [] eng = "pgsql"         -> pgsql_filter_sql(limit)
    [] eng = "cassandra"     -> cassandra_filter_sql(limit)
    [] eng = "phoenix"       -> phoenix_filter_sql(limit)
    [] eng = "mssql"         -> mssql_filter_sql(limit)
    [] OTHER               -> AsItIs

\* filter_sql, the connection, and for MySQL the schedule that is to kill it.
connect ==
  /\ stage = "granted"
  /\ text' = [cap |-> filter_sql(limit_num).cap, good |-> text.good /\ filter_sql(limit_num).good,
              tail |-> text.tail]
  /\ opened' = opened + 1 /\ conn' = opened'
  /\ thread_id' = IF eng \in {"mysql", "doris"} THEN conn' ELSE 0
  /\ killing' = thread_id'
  /\ stage' = "connected"
  /\ UNCHANGED <<request, limit_num, reply, given, log, ran, mode>>

\* The engine cannot connect: the handler around everything answers.
connect_fails == stage = "granted" /\ Refuse(1)

seconds_behind_master ==
  /\ stage = "connected"
  /\ stage' = "measured"
  /\ UNCHANGED <<request, text, limit_num, threads, reply, given, log, ran, mode>>

-----------------------------------------------------------------------------
(* query: the engine's last word on the statement, the server, the rows.   *)

\* Slip: a LIMIT that is there is left alone.
odps_cap_kept(limit) == IF stmt.form = "none" THEN limit ELSE stmt.own

\* ODPS writes its limit in place of the one there is, a smaller one too, or behind the
\* statement.  Where it finds the word, and no number after it on the line, it does neither.
odps_cap(limit) ==
  CASE stmt.form = "name" -> Uncapped [] stmt.form = "line" -> stmt.own [] OTHER -> limit

\* Capitals it does not find: its own comes after them, which is no statement.
odps_text(limit) == Bounded(odps_cap(limit), stmt.form # "upper")

\* Slip: $limit is not appended.
aggregate_cap_own(limit) == AsItIs

\* MongoDB: $limit ends the pipeline, and an $out before it is refused, as is a $limit of 0.
aggregate_cap(limit) == Bounded(Lesser(limit, AsItIs.cap), ~ stmt.hidden /\ limit > 0)

\* A limit of 0, the page's or the lesser of it and find's own, is none, and so is limit().
\* A negative one is the lesser always, and the server returns as many rows.
find_cap(limit) ==
  IF stmt.form = "negative" THEN stmt.own
  ELSE IF stmt.form = "empty" \/ limit = 0 THEN Uncapped
  ELSE IF stmt.form = "none" THEN limit ELSE Lesser(limit, stmt.own)

mongo_text(limit) ==
  CASE stmt.head = "select"    -> Bounded(find_cap(limit), TRUE)
    [] stmt.head = "aggregate" -> aggregate_cap(limit)
    [] OTHER                -> AsItIs

\* Elasticsearch: size, where the body has none; of a select's rows the first page.
size_text(limit) ==
  CASE stmt.head = "select" -> Bounded(Lesser(text.cap, PageSize), TRUE)
    [] stmt.head = "read" /\ stmt.form = "none" -> Bounded(IF limit > 0 THEN limit ELSE DefaultSize, TRUE)
    [] OTHER -> Bounded(text.cap, TRUE)

Sent(limit) ==
  CASE eng = "odps"          -> Bounded(odps_text(limit).cap, text.good /\ odps_text(limit).good)
    [] eng = "mongo"         -> Bounded(mongo_text(limit).cap, text.good /\ mongo_text(limit).good)
    [] eng = "elasticsearch" -> Bounded(size_text(limit).cap, text.good)
    [] OTHER               -> Bounded(text.cap, text.good)

ReadOnly == eng = "pgsql"

\* The server: what it makes of the statement, and of a statement after it.
Serves(sent) == sent.good /\ ~ (stmt.hidden /\ ReadOnly)
Rows(sent)   == IF stmt.head = "count" THEN 1 ELSE Lesser(asked.hits, sent.cap)

\* The ResultSet of n rows that the server has: rows, affected_rows.
Got(rows, affected) == [NoReply EXCEPT !.rows = rows, !.affected = affected]
Everything(n) == Got(n, n)

\* By fetchmany, or by a slice.
Within(n)    == IF limit_num > 0 THEN Lesser(limit_num, n) ELSE n
fetchmany(n) == Got(Within(n), Within(n))

\* MySQL counts the rows of the cursor.
mysql_query(n)      == Got(Within(n), n)
clickhouse_query(n) == fetchmany(n)
tdengine_query(n)   == fetchmany(n)
pgsql_query(n)      == fetchmany(n)
oracle_query(n)     == fetchmany(n)
phoenix_query(n)    == fetchmany(n)
cassandra_query(n)  == fetchmany(n)

\* A plan is fetched as a whole.
mssql_query(n) == IF stmt.head = "showplan" THEN Everything(n) ELSE fetchmany(n)

\* A SCAN has its cursor in a row before the keys, and counts the keys.
redis_query(n) == Got(Within(IF stmt.head = "scan" THEN n + 1 ELSE n), n)

odps_query(n)          == Everything(n)
mongo_query(n)         == Everything(n)
elasticsearch_query(n) == Everything(n)
memcached_query(n)     == Everything(n)

Result(n) ==
  CASE eng \in {"mysql", "doris"} -> mysql_query(n)
    [] eng = "clickhouse"    -> clickhouse_query(n)
    [] eng = "tdengine"      -> tdengine_query(n)
    [] eng = "oracle"        -> oracle_query(n)
    [] eng = "pgsql"         -> pgsql_query(n)
    [] eng = "phoenix"       -> phoenix_query(n)
    [] eng = "cassandra"     -> cassandra_query(n)
    [] eng = "mssql"         -> mssql_query(n)
    [] eng = "odps"          -> odps_query(n)
    [] eng = "elasticsearch" -> elasticsearch_query(n)
    [] eng = "redis"         -> redis_query(n)
    [] eng = "memcached"     -> memcached_query(n)
    [] eng = "mongo"         -> mongo_query(n)

\* Elasticsearch raises what fails, MongoDB arguments that it cannot decode.
query_raises ==
  /\ stage = "measured" /\ eng \in {"elasticsearch", "mongo"}
  /\ stage' = "answered" /\ answer_status' = 1
  /\ UNCHANGED <<request, text, limit_num, threads, reply, data, log, ran, mode>>

\* An open connection is used, and closed; a schedule that did its work in time is deleted.
query ==
  /\ stage = "measured"
  /\ LET sent == Sent(limit_num)
         n == Rows(sent)
     IN \E fails \in BOOLEAN :
          /\ (~ Serves(sent) => fails)
          /\ fails => eng # "elasticsearch"
          /\ reply' = IF fails THEN [NoReply EXCEPT !.error = TRUE]
                      ELSE Result(n)
          /\ served' = IF fails THEN 0 ELSE n
          /\ written' = (~ fails /\ (stmt.hidden \/ (text.tail /\ stmt.head # "showplan")))
  /\ opened' = IF conn = 0 THEN opened + 1 ELSE opened
  /\ conn' = 0
  /\ stage' = "ran"
  /\ UNCHANGED <<request, text, limit_num, thread_id, killing, given, log, mode>>

-----------------------------------------------------------------------------
(* The rows are masked, the answer is written, and the log.                *)

\* query_masking: selects only, but for MongoDB.
Masks == /\ eng \in {"mysql", "doris", "pgsql", "oracle", "mssql", "mongo"}
         /\ stmt.head = "select" \/ eng = "mongo"

Masking(masked, is_masked, error) ==
  [reply EXCEPT !.masked = masked, !.is_masked = is_masked, !.error = error]

\* Slip: is_masked is set before the rows are masked.
data_masking_early(fails) == Masking(~ fails, TRUE, fails)

\* MySQL and MongoDB: is_masked comes last, and a failure is an error of the result.
data_masking(fails) == Masking(~ fails, ~ fails, fails)

\* PostgreSQL and Oracle: is_masked whatever happened.
simple_column_mask(fails) == Masking(~ fails, TRUE, fails)

\* SQL Server: a failure is raised.
brute_mask(fails) == Masking(~ fails, ~ fails, FALSE)

query_masking(fails) ==
  CASE ~ Masks                            -> reply
    [] Masks /\ eng \in {"pgsql", "oracle"} -> simple_column_mask(fails)
    [] Masks /\ eng = "mssql"             -> brute_mask(fails)
    [] OTHER                              -> data_masking(fails)

Release == [rows |-> reply.rows, masked |-> reply'.masked]

\* Slip: rows whose masking failed are shown all the same.
Shown_always(fails, query_check_on) == Release

\* query_check: a failure of the masking refuses the answer, or lets the rows pass as they are.
Shown(fails, query_check_on) == IF fails /\ query_check_on THEN NoData ELSE Release

mask ==
  /\ stage = "ran" /\ ~ reply.error
  /\ \E masking_on, query_check_on, fails \in BOOLEAN :
       /\ fails => masking_on /\ Masks
       /\ mode' = [masking |-> masking_on, strict |-> query_check_on]
       /\ reply' = IF ~ masking_on THEN reply
                   ELSE IF query_check_on THEN query_masking(fails)
                   ELSE [query_masking(fails) EXCEPT !.error = FALSE]
       /\ data' = Shown(fails, query_check_on)
       /\ answer_status' = IF fails /\ query_check_on THEN 1 ELSE 0
  /\ killing' = 0 /\ stage' = "masked"
  /\ UNCHANGED <<request, text, limit_num, opened, conn, thread_id, log, ran>>

mask_error ==
  /\ stage = "ran" /\ reply.error
  /\ answer_status' = 1 /\ killing' = 0 /\ stage' = "masked"
  /\ UNCHANGED <<request, text, limit_num, opened, conn, thread_id, reply, data, log, ran, mode>>

effect_row ==
  IF reply.error THEN 0
  ELSE IF limit_num = 0 THEN reply.affected ELSE Lesser(limit_num, reply.affected)

write_log ==
  /\ stage = "masked"
  /\ log' = [written |-> TRUE, effect_row |-> effect_row, masking |-> reply.is_masked]
  /\ stage' = "answered"
  /\ UNCHANGED <<request, text, limit_num, threads, reply, given, ran, mode>>

\* The rows stay in an answer that is an error.
write_log_fails ==
  /\ stage = "masked"
  /\ answer_status' = 1 /\ stage' = "answered"
  /\ UNCHANGED <<request, text, limit_num, threads, reply, data, log, ran, mode>>

\* The process dies; the schedule stays.
die ==
  /\ stage \notin {"idle", "answered", "dead"}
  /\ stage' = "dead"
  /\ UNCHANGED <<request, text, limit_num, threads, reply, given, log, ran, mode>>

-----------------------------------------------------------------------------
QueryInit ==
  /\ asked = NoRequest /\ stage = "idle"
  /\ text = [cap |-> Uncapped, good |-> TRUE, tail |-> FALSE]
  /\ limit_num = 0 /\ opened = 0 /\ conn = 0 /\ thread_id = 0 /\ killing = 0
  /\ reply = NoReply /\ answer_status = 0 /\ data = NoData /\ log = NoLog
  /\ granted = 0 /\ served = 0 /\ written = FALSE
  /\ mode = [masking |-> FALSE, strict |-> FALSE]

QueryNext ==
  \/ ask \/ query_check \/ query_priv_check \/ connect \/ connect_fails \/ seconds_behind_master
  \/ query \/ query_raises \/ mask \/ mask_error \/ write_log \/ write_log_fails \/ die

QuerySpec == QueryInit /\ [][QueryNext]_queryVars

-----------------------------------------------------------------------------
\* Rows that are limited: not plans, counts, MongoDB's distinct, or what has no table; Memcached
\* and Elasticsearch's own size know no limit.  What ODPS and find leave as it is (odps_cap,
\* find_cap) is shown and logged without one.
IsLimited ==
  /\ stmt.tables /\ stmt.head \in {"select", "aggregate", "with", "read", "scan"}
  /\ eng # "memcached" /\ ~ (eng = "elasticsearch" /\ stmt.form = "size")
  /\ stmt.form \notin {"name", "line"} \cup FindForms

Ceiling == IF asked.limit = 0 THEN granted ELSE Lesser(granted, asked.limit)

\* Nobody is shown more rows than both his privileges and his request allow, by a statement
\* whose rows are limited and in whatever form it has a LIMIT of its own; and for the engines that write the limit into the statement,
\* the server too produces no more.
RowsWithinLimit ==
  IsLimited =>
    /\ data.rows <= Ceiling
    /\ stmt.head \in {"select", "aggregate"}
         /\ eng \in {"mysql", "doris", "clickhouse", "tdengine", "cassandra", "odps", "mongo",
                     "elasticsearch"}
       => served <= Ceiling

\* A query changes nothing, not by a second statement, and, where the system rather than the
\* instance's account stands for it, not by a read that writes.
QueriesChangeNothing == written => stmt.hidden /\ eng \notin {"pgsql", "mongo"}

\* With data_masking and query_check, rows are shown masked or not at all.
MaskedOrNothing == mode.masking /\ mode.strict /\ Masks => data.rows = 0 \/ data.masked

\* An answer without error is in the log, with a count that is no less than the rows shown
\* where these are limited (the count is cut down to the limit even if the rows were not), and
\* as masked only if they are.  (The cursor of a SCAN is not counted; PostgreSQL and Oracle
\* call masked what failed to be and was let through.)
AnswersAreLogged ==
  stage = "answered" /\ answer_status = 0 =>
    /\ log.written
    /\ IsLimited /\ stmt.head # "scan" => log.effect_row >= data.rows
    /\ log.masking => data.masked \/ eng \in {"pgsql", "oracle"}

\* What is shown, and what the log tells of it (sql_api/query_execute.py).
AnswersAreAccounted == MaskedOrNothing /\ AnswersAreLogged

=============================================================================
