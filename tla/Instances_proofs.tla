-------------------------- MODULE Instances_proofs ---------------------------
(***************************************************************************)
(* What is asked of one instance: queries, exports, the management of the  *)
(* server and the SQL of its binlog, for every menu of statements and      *)
(* every number of rows, requests, accounts, downloads and faults.         *)
(*   QueryInv     what a query has, stage by stage;                        *)
(*   ExportInv    what the review of an export saw, and where its file is; *)
(*   AdminInv     what a request to the server still has to do;            *)
(*   BinlogInv    what an end of my2sql says of the SQL it wrote.          *)
(* In the end the engines as one run explores them: the composition        *)
(* implements its parts, and has their types.                              *)
(***************************************************************************)
EXTENDS MCEngines, Engines_proofs, SchemaDiff_proofs, FiniteSetTheorems

-----------------------------------------------------------------------------
(* One query.                                                              *)

Checked == \E old \in BOOLEAN : PassesCheck(old)

AskedType ==
  /\ asked \in [engine : QueryEngines \cup {"none"}, statement : QueryStatement,
                limit : 0..MaxRows, hits : 0..MaxRows]
  /\ granted \in 0..MaxRows /\ served \in 0..(MaxRows + 1)
  /\ mode \in [masking : BOOLEAN, strict : BOOLEAN]

\* Engines that write the limit into the statement, or whose statements take it.
WritesLimit ==
  eng \in {"mysql", "doris", "clickhouse", "tdengine", "cassandra", "odps", "mongo", "elasticsearch"}

Cuts == IsLimited /\ stmt.head \in {"select", "aggregate"} /\ WritesLimit

\* What is sent carries the limit, from the connection on.
Limited == text.cap = filter_sql(limit_num).cap

\* The rows that came are within the limit, and counted.
Counted ==
  IsLimited => /\ reply.rows <= limit_num
               /\ stmt.head # "scan" => reply.rows <= reply.affected

\* The answer that is about to be logged.
AnswerFits ==
  answer_status = 0 =>
    /\ ~ reply.error /\ data.rows <= reply.rows /\ data.masked = reply.masked
    /\ reply.is_masked => reply.masked \/ eng \in {"pgsql", "oracle"}

StageInv ==
  /\ stage \in {"idle", "asked"} => opened = 0
  /\ stage \in {"checked", "granted"} => opened \in {0, 1}
  /\ stage \in {"idle", "asked"} => ~ text.tail
  /\ stage \in {"checked", "granted", "connected", "measured", "ran", "masked"} => Checked
  /\ stage # "idle" => (text.tail => stmt.head = "showplan")
  /\ stage \in {"granted", "connected", "measured", "ran", "masked"} =>
       granted >= 1 /\ (IsLimited => limit_num = Ceiling)
  /\ stage \in {"connected", "measured"} => Limited
  /\ stage \in {"connected", "measured"} => thread_id \in {0, conn} /\ conn # 0
  /\ stage \in {"idle", "asked", "checked", "granted", "connected", "measured"} =>
       served = 0 /\ ~ written /\ ~ reply.is_masked
  /\ stage \in {"ran", "masked"} => Counted
  /\ stage = "ran" => ~ reply.is_masked
  /\ stage \notin {"masked", "answered", "dead"} => data = NoData /\ ~ mode.masking
  /\ stage = "masked" => AnswerFits

QueryInv ==
  /\ AskedType /\ QueryTypeOK /\ StageInv
  /\ RowsWithinLimit /\ QueriesChangeNothing /\ AnswersAreAccounted

\* One query for one instance keeps the limit of the statement, or cuts it.
LEMMA FilterType ==
  ASSUME stmt \in QueryStatement, NEW limit \in 0..MaxRows
  PROVE  /\ AsItIs \in [cap : 0..MaxRows, good : BOOLEAN]
         /\ eng \in AllQueryEngines => filter_sql(limit) \in [cap : 0..MaxRows, good : BOOLEAN]
<1>0. MaxRows \in Nat \ {0} /\ stmt.own \in 1..MaxRows
  BY QueryPathAssumption DEF QueryStatement
<1>1. AsItIs \in [cap : 0..MaxRows, good : BOOLEAN]
  BY <1>0 DEF AsItIs, Bounded, Uncapped
<1>2. rewrite_limit_sql(limit) \in [cap : 0..MaxRows, good : BOOLEAN]
  BY <1>0, <1>1 DEF rewrite_limit_sql, Bounded, Lesser
<1>3. pgsql_filter_sql(limit) \in [cap : 0..MaxRows, good : BOOLEAN]
  BY <1>0, <1>1 DEF pgsql_filter_sql, Bounded
<1>4. cassandra_filter_sql(limit) \in [cap : 0..MaxRows, good : BOOLEAN]
  BY <1>0, <1>1 DEF cassandra_filter_sql, Bounded, Lesser
<1>5. phoenix_filter_sql(limit) \in [cap : 0..MaxRows, good : BOOLEAN]
  BY <1>0, <1>1 DEF phoenix_filter_sql, Bounded
<1>6. mssql_filter_sql(limit) \in [cap : 0..MaxRows, good : BOOLEAN]
  BY <1>0, <1>1 DEF mssql_filter_sql, Bounded
<1> QED
  BY <1>1, <1>2, <1>3, <1>4, <1>5, <1>6 DEF filter_sql, AllQueryEngines

\* What the check lets through, engine by engine.
LEMMA WhatPasses ==
  ASSUME Checked, eng \in AllQueryEngines
  PROVE  /\ eng \in {"mysql", "doris", "phoenix", "pgsql"} => stmt.head \in {"select", "show", "explain"}
         /\ eng \in {"clickhouse", "tdengine", "oracle"} => stmt.head \in {"select", "show", "explain", "with"}
         /\ eng = "cassandra" => stmt.head \in {"select", "show"}
         /\ eng = "mssql" => stmt.head \in {"select", "show", "showplan"}
         /\ eng = "odps" => stmt.head = "select"
         /\ eng = "elasticsearch" => stmt.head \in {"select", "read"}
         /\ eng = "redis" => stmt.head \in {"read", "scan"}
         /\ eng = "memcached" => stmt.head = "read"
         /\ eng = "mongo" => stmt.head \in {"select", "aggregate", "count", "distinct", "explain"}
<1>1. PICK old \in BOOLEAN : PassesCheck(old)
  BY DEF Checked
<1> QED
  BY <1>1 DEF PassesCheck, AllQueryEngines, Begins, mysql_query_check, clickhouse_query_check,
     tdengine_query_check, oracle_query_check, pgsql_query_check, phoenix_query_check,
     cassandra_query_check, mssql_query_check, odps_query_check, elasticsearch_query_check,
     redis_query_check, memcached_query_check, mongo_query_check

\* What the engine cuts by the statement itself.
LEMMA FilterCuts ==
  ASSUME stmt \in QueryStatement, Checked, eng \in QueryEngines, NEW limit \in 1..MaxRows,
         stmt.head = "select",
         eng \in {"mysql", "doris", "clickhouse", "tdengine", "cassandra", "elasticsearch"}
  PROVE  filter_sql(limit).cap <= limit
<1>0. MaxRows \in Nat /\ stmt.own \in 1..MaxRows
  BY QueryPathAssumption DEF QueryStatement
<1>1. rewrite_limit_sql(limit).cap <= limit /\ cassandra_filter_sql(limit).cap <= limit
  BY <1>0 DEF rewrite_limit_sql, cassandra_filter_sql, Bounded, Lesser
<1> QED
  BY <1>1 DEF filter_sql

\* The rows of the server: no more than it meets, and within the limit where that is sent.
LEMMA ServedRows ==
  ASSUME AskedType, stage # "idle", QueryTypeOK, Checked, Limited
  PROVE  /\ Rows(Sent(limit_num)) \in 0..MaxRows
         /\ limit_num >= 1 =>
              /\ Cuts => Rows(Sent(limit_num)) <= limit_num
              /\ IsLimited /\ eng \in {"odps", "mongo", "elasticsearch"} => Rows(Sent(limit_num)) <= limit_num
<1> DEFINE asSent == Sent(limit_num)
<1>0. /\ MaxRows \in Nat \ {0} /\ DefaultSize \in Nat \ {0} /\ PageSize \in Nat \ {0}
      /\ eng \in QueryEngines /\ eng \in AllQueryEngines /\ stmt \in QueryStatement
      /\ stmt.own \in 1..MaxRows /\ asked.hits \in 0..MaxRows /\ limit_num \in 0..MaxRows
      /\ text.cap \in 0..MaxRows
      /\ eng = "elasticsearch" /\ stmt.head = "read" => stmt.form \in {"none", "size"}
  BY QueryPathAssumption DEF AskedType, QueryTypeOK, QueryStatement, Text
<1>odps. odps_text(limit_num).cap \in 0..MaxRows
  BY <1>0 DEF odps_text, odps_cap, Bounded, Uncapped
<1>1. AsItIs.cap \in 0..MaxRows
  BY <1>0, FilterType
<1>2. mongo_text(limit_num).cap \in 0..MaxRows
  BY <1>0, <1>1 DEF mongo_text, find_cap, aggregate_cap, Bounded, Lesser, Uncapped
<1>3. size_text(limit_num).cap \in Nat
  BY <1>0 DEF size_text, Bounded, Lesser
<1>4. asSent.cap \in Nat
  BY <1>0, <1>2, <1>3, <1>odps DEF Sent, Bounded
<1>5. Rows(asSent) \in 0..MaxRows /\ (stmt.head # "count" => Rows(asSent) <= asSent.cap)
  BY <1>0, <1>4 DEF Rows, Lesser
<1>6. ASSUME limit_num >= 1, Cuts
      PROVE  asSent.cap <= limit_num /\ stmt.head # "count"
  <2>1. stmt.head \in {"select", "aggregate"} /\ WritesLimit
    BY <1>6 DEF Cuts
  <2>2. CASE eng \in {"mysql", "doris", "clickhouse", "tdengine", "cassandra", "elasticsearch"}
    <3>1. stmt.head = "select"
      BY <2>1, <2>2, <1>0, WhatPasses
    <3>2. text.cap <= limit_num
      BY <3>1, <2>2, <1>0, <1>6, FilterCuts DEF Limited
    <3> QED
      BY <3>1, <3>2, <2>2, <1>0 DEF Sent, Bounded, size_text, Lesser
  <2>3. CASE eng = "odps"
    <3>1. odps_text(limit_num).cap = limit_num
      BY <1>6 DEF Cuts, IsLimited, odps_text, odps_cap, Bounded
    <3> QED
      BY <3>1, <2>1, <2>3, <1>0, WhatPasses DEF Sent, Bounded
  <2>4. CASE eng = "mongo"
    <3>1. stmt.form \notin FindForms
      BY <1>6 DEF Cuts, IsLimited
    <3>2. find_cap(limit_num) <= limit_num
      BY <3>1, <1>0, <1>6 DEF find_cap, FindForms, Lesser
    <3>3. Lesser(limit_num, AsItIs.cap) <= limit_num
      BY <1>0, <1>1 DEF Lesser
    <3> QED
      BY <3>2, <3>3, <2>1, <2>4 DEF Sent, Bounded, mongo_text, aggregate_cap
  <2> QED
    BY <2>1, <2>2, <2>3, <2>4 DEF WritesLimit
<1>7. ASSUME limit_num >= 1, IsLimited, eng \in {"odps", "mongo", "elasticsearch"}, ~ Cuts
      PROVE  asSent.cap <= limit_num /\ stmt.head # "count"
  <2>1. eng = "elasticsearch" /\ stmt.head = "read" /\ stmt.form = "none"
    BY <1>7, <1>0, WhatPasses DEF Cuts, IsLimited, WritesLimit
  <2> QED
    BY <2>1, <1>0, <1>7 DEF Sent, Bounded, size_text
<1> HIDE DEF asSent
<1> QED
  BY <1>0, <1>4, <1>5, <1>6, <1>7 DEF asSent

\* The ResultSet of what the server has.
LEMMA ResultFits ==
  ASSUME AskedType, stage # "idle", QueryTypeOK, Checked, NEW n \in 0..MaxRows,
         limit_num >= 1 /\ IsLimited /\ eng \in {"odps", "mongo", "elasticsearch"} => n <= limit_num
  PROVE  /\ Result(n) \in Reply /\ ~ Result(n).error /\ ~ Result(n).is_masked /\ ~ Result(n).masked
         /\ limit_num >= 1 /\ IsLimited =>
              /\ Result(n).rows <= limit_num
              /\ stmt.head # "scan" => Result(n).rows <= Result(n).affected
<1>0. MaxRows \in Nat \ {0} /\ eng \in AllQueryEngines /\ limit_num \in 0..MaxRows /\ n \in Nat
  BY QueryPathAssumption DEF AskedType, QueryTypeOK
<1> DEFINE R == Result(n)
           Fits == \E many \in 0..(MaxRows + 1), affected \in 0..(MaxRows + 1) :
                     /\ R = Got(many, affected)
                     /\ limit_num >= 1 /\ IsLimited =>
                          many <= limit_num /\ (stmt.head # "scan" => many <= affected)
<1>a. ASSUME NEW r \in 0..(MaxRows + 1), NEW a \in 0..(MaxRows + 1), R = Got(r, a),
             limit_num >= 1 /\ IsLimited => r <= limit_num /\ (stmt.head # "scan" => r <= a)
      PROVE  Fits
  BY <1>a, Zenon
<1>b. \A k \in 0..n : k \in 0..(MaxRows + 1) /\ k + 1 \in 0..(MaxRows + 1)
  BY <1>0
<1> HIDE DEF Fits
<1>1. Within(n) \in 0..n /\ (limit_num >= 1 => Within(n) <= limit_num)
      /\ Within(n + 1) \in 0..(n + 1) /\ (limit_num >= 1 => Within(n + 1) <= limit_num)
  BY <1>0 DEF Within, Lesser
<1>2. ASSUME eng \in {"mysql", "doris"}
      PROVE  Fits
  <2>1. R = Got(Within(n), n)
    BY <1>2 DEF Result, mysql_query
  <2> QED
    BY <2>1, <1>0, <1>1, <1>a, <1>b
<1>3. ASSUME eng \in {"clickhouse", "tdengine", "oracle", "pgsql", "phoenix", "cassandra"}
      PROVE  Fits
  <2>1. R = Got(Within(n), Within(n))
    BY <1>3 DEF Result, clickhouse_query, tdengine_query, oracle_query, pgsql_query, phoenix_query,
       cassandra_query, fetchmany
  <2> QED
    BY <2>1, <1>0, <1>1, <1>a, <1>b
<1>4. ASSUME eng = "mssql"
      PROVE  Fits
  <2>1. R = IF stmt.head = "showplan" THEN Got(n, n) ELSE Got(Within(n), Within(n))
    BY <1>4 DEF Result, mssql_query, fetchmany, Everything
  <2>2. stmt.head = "showplan" => ~ IsLimited
    BY DEF IsLimited
  <2>3. CASE stmt.head = "showplan"
    BY <2>1, <2>2, <2>3, <1>0, <1>a, <1>b
  <2>4. CASE stmt.head # "showplan"
    BY <2>1, <2>4, <1>0, <1>1, <1>a, <1>b
  <2> QED
    BY <2>3, <2>4
<1>5. ASSUME eng = "redis"
      PROVE  Fits
  <2>1. R = Got(Within(IF stmt.head = "scan" THEN n + 1 ELSE n), n)
    BY <1>5 DEF Result, redis_query
  <2>3. CASE stmt.head = "scan"
    BY <2>1, <2>3, <1>0, <1>1, <1>a, <1>b
  <2>4. CASE stmt.head # "scan"
    BY <2>1, <2>4, <1>0, <1>1, <1>a, <1>b
  <2> QED
    BY <2>3, <2>4
<1>6. ASSUME eng \in {"odps", "mongo", "elasticsearch", "memcached"}
      PROVE  Fits
  <2>1. R = Got(n, n)
    BY <1>6 DEF Result, odps_query, mongo_query, elasticsearch_query, memcached_query, Everything
  <2>2. eng = "memcached" => ~ IsLimited
    BY DEF IsLimited
  <2> QED
    BY <2>1, <2>2, <1>0, <1>6, <1>a, <1>b
<1>7. Fits
  BY <1>0, <1>2, <1>3, <1>4, <1>5, <1>6 DEF AllQueryEngines
<1> HIDE DEF R
<1>8. \A many, affected \in 0..(MaxRows + 1) :
        /\ Got(many, affected) \in Reply
        /\ Got(many, affected).rows = many /\ Got(many, affected).affected = affected
        /\ ~ Got(many, affected).error /\ ~ Got(many, affected).is_masked /\ ~ Got(many, affected).masked
  BY DEF Got, NoReply, Reply
<1> QED
  BY <1>7, <1>8 DEF R, Fits

\* In the beginning nothing is asked.
LEMMA QueryBegins == QueryInit => QueryInv
<1> SUFFICES ASSUME QueryInit PROVE QueryInv
  OBVIOUS
<1>0. MaxRows \in Nat \ {0}
  BY QueryPathAssumption
<1>1. AskedType
  <2>1. NoRequest.statement \in QueryStatement
    BY <1>0 DEF NoRequest, QueryStatement, Heads
  <2> QED
    BY <1>0, <2>1 DEF QueryInit, AskedType, NoRequest
<1>2. QueryTypeOK
  BY <1>0 DEF QueryInit, QueryTypeOK, Uncapped, Text, Reply, NoReply, NoData, NoLog, Thread
<1>3. StageInv
  BY DEF QueryInit, StageInv, NoReply, NoData
<1>4. RowsWithinLimit /\ QueriesChangeNothing /\ AnswersAreAccounted
  BY DEF QueryInit, RowsWithinLimit, Ceiling, Lesser, QueriesChangeNothing, AnswersAreAccounted,
     MaskedOrNothing, AnswersAreLogged, NoRequest, NoData
<1> QED
  BY <1>1, <1>2, <1>3, <1>4 DEF QueryInv

\* The statement and the privileges of a request stay.
LEMMA SameRequest ==
  ASSUME UNCHANGED asked
  PROVE  /\ eng' = eng /\ stmt' = stmt /\ IsLimited' = IsLimited /\ Checked' = Checked
         /\ WritesLimit' = WritesLimit /\ Masks' = Masks
         /\ granted' = granted => Ceiling' = Ceiling
<1>1. eng' = eng /\ stmt' = stmt
  BY DEF eng, stmt
<1>2. \A old : PassesCheck(old)' = PassesCheck(old)
  BY <1>1 DEF PassesCheck, Begins, Explained, mysql_query_check, clickhouse_query_check,
     tdengine_query_check, oracle_query_check, pgsql_query_check, phoenix_query_check,
     cassandra_query_check, mssql_query_check, odps_query_check, elasticsearch_query_check,
     redis_query_check, memcached_query_check, mongo_query_check
<1> QED
  BY <1>1, <1>2 DEF IsLimited, Checked, WritesLimit, Masks, Ceiling

\* A request.
LEMMA AskKeeps == QueryInv /\ ask => QueryInv'
<1> SUFFICES ASSUME QueryInv, ask PROVE QueryInv'
  OBVIOUS
<1>0. MaxRows \in Nat \ {0} /\ AskedType /\ QueryTypeOK /\ StageInv
  BY QueryPathAssumption DEF QueryInv
<1>1. PICK e \in QueryEngines, limit \in 0..MaxRows, hits \in 0..MaxRows :
        \E statement \in QueryMenu[e] :
          asked' = [engine |-> e, statement |-> statement, limit |-> limit, hits |-> hits]
  BY DEF ask
<1>2. /\ AskedType' /\ stage = "idle" /\ stage' = "asked"
      /\ eng' \in QueryEngines /\ stmt' \in QueryMenu[eng']
  BY <1>0, <1>1, QueryPathAssumption DEF ask, AskedType, request, given, ran, threads, eng, stmt
<1>3. QueryTypeOK'
  BY <1>0, <1>2 DEF ask, QueryTypeOK, threads, given
<1>4. data = NoData /\ served = 0 /\ ~ written /\ ~ mode.masking /\ ~ text.tail
  BY <1>0, <1>2 DEF StageInv
<1>5. StageInv'
  BY <1>0, <1>2, <1>4 DEF ask, StageInv, threads, given, ran
<1>6. Ceiling' \in Nat
  BY <1>0, <1>2 DEF AskedType, Ceiling, Lesser
<1>7. RowsWithinLimit' /\ QueriesChangeNothing' /\ AnswersAreAccounted'
  BY <1>2, <1>4, <1>6 DEF ask, given, ran, RowsWithinLimit, QueriesChangeNothing, AnswersAreAccounted,
     MaskedOrNothing, AnswersAreLogged, NoData
<1> QED
  BY <1>2, <1>3, <1>5, <1>7 DEF QueryInv

\* A request that is refused, raises or dies: what it has, it keeps, and it is an error or no answer.
LEMMA RefusedKeeps ==
  ASSUME QueryInv, stage \in {"asked", "checked", "granted", "connected", "measured", "ran", "masked"},
         UNCHANGED <<request, text, limit_num, threads, reply, data, log, ran, mode>>,
         \/ stage' = "answered" /\ answer_status' \in {1, 2}
         \/ stage' = "dead" /\ answer_status' = answer_status
  PROVE  QueryInv'
<1>1. UNCHANGED asked /\ UNCHANGED <<granted, opened, conn, thread_id, killing, served, written>>
  BY DEF request, threads, ran
<1>2. /\ eng' = eng /\ stmt' = stmt /\ IsLimited' = IsLimited /\ Masks' = Masks /\ Ceiling' = Ceiling
  BY <1>1, SameRequest
<1>3. AskedType' /\ QueryTypeOK'
  BY <1>1, <1>2 DEF QueryInv, AskedType, QueryTypeOK
<1>4. StageInv'
  BY <1>1, <1>2 DEF QueryInv, StageInv
<1>5. RowsWithinLimit' /\ QueriesChangeNothing' /\ AnswersAreAccounted'
  BY <1>1, <1>2 DEF QueryInv, RowsWithinLimit, QueriesChangeNothing, AnswersAreAccounted,
     MaskedOrNothing, AnswersAreLogged
<1> QED
  BY <1>3, <1>4, <1>5 DEF QueryInv

\* The check of the statement.
LEMMA CheckKeeps == QueryInv /\ query_check => QueryInv'
<1> SUFFICES ASSUME QueryInv, query_check PROVE QueryInv'
  OBVIOUS
<1>1. CASE Refuse(1)
  BY <1>1, RefusedKeeps DEF query_check, Refuse
<1>2. CASE ~ Refuse(1)
  <2>1. /\ Checked /\ stage = "asked" /\ stage' = "checked"
        /\ text' = [cap |-> Uncapped, good |-> stmt.good, tail |-> stmt.tail /\ KeepsTail(eng, stmt.head)]
        /\ opened' \in {opened, opened + 1}
        /\ UNCHANGED <<request, limit_num, conn, thread_id, killing, reply, given, log, ran, mode>>
    BY <1>2 DEF query_check, Checked
  <2>2. UNCHANGED <<asked, granted, answer_status, data, served, written>>
    BY <2>1 DEF request, given, ran
  <2>3. /\ eng' = eng /\ stmt' = stmt /\ IsLimited' = IsLimited /\ Masks' = Masks /\ Ceiling' = Ceiling
        /\ Checked'
    BY <2>1, <2>2, SameRequest
  <2>4. AskedType'
    BY <2>1, <2>2 DEF QueryInv, AskedType
  <2>5. stmt \in QueryStatement /\ MaxRows \in Nat
    BY QueryPathAssumption DEF QueryInv, AskedType, stmt
  <2>6. text' \in Text /\ (text'.tail => stmt.head = "showplan")
    <3>1. stmt.good \in BOOLEAN /\ stmt.tail \in BOOLEAN
      BY <2>5 DEF QueryStatement
    <3>2. KeepsTail(eng, stmt.head) \in BOOLEAN /\ (KeepsTail(eng, stmt.head) => stmt.head = "showplan")
      BY DEF KeepsTail
    <3> DEFINE t == stmt.tail /\ KeepsTail(eng, stmt.head)
    <3>3. t \in BOOLEAN /\ (t => stmt.head = "showplan")
      BY <3>1, <3>2
    <3>4. text' = [cap |-> Uncapped, good |-> stmt.good, tail |-> t]
      BY <2>1, Zenon
    <3> HIDE DEF t
    <3> QED
      BY <2>5, <3>1, <3>3, <3>4 DEF Text, Uncapped
  <2>7. opened = 0 /\ data = NoData /\ served = 0 /\ ~ written /\ ~ mode.masking /\ ~ reply.is_masked
    BY <2>1 DEF QueryInv, StageInv
  <2>8. QueryTypeOK'
    BY <2>1, <2>2, <2>3, <2>6, <2>7 DEF QueryInv, QueryTypeOK, Thread
  <2>9. StageInv'
    BY <2>1, <2>2, <2>3, <2>6, <2>7 DEF StageInv
  <2>10. RowsWithinLimit' /\ QueriesChangeNothing' /\ AnswersAreAccounted'
    BY <2>1, <2>2, <2>3, <2>7 DEF QueryInv, RowsWithinLimit, QueriesChangeNothing, AnswersAreAccounted,
       MaskedOrNothing, AnswersAreLogged, NoData
  <2> QED
    BY <2>4, <2>8, <2>9, <2>10 DEF QueryInv
<1> QED
  BY <1>1, <1>2

\* The privileges, and the limit they give.
LEMMA PrivilegesKeep == QueryInv /\ query_priv_check => QueryInv'
<1> SUFFICES ASSUME QueryInv, query_priv_check PROVE QueryInv'
  OBVIOUS
<1>1. CASE Refuse(2)
  BY <1>1, RefusedKeeps DEF query_priv_check, Refuse
<1>2. CASE ~ Refuse(2)
  <2>0. MaxRows \in Nat \ {0} /\ AskedType /\ QueryTypeOK /\ StageInv
    BY QueryPathAssumption DEF QueryInv
  <2>1. PICK g \in 1..MaxRows, limit \in 0..MaxRows :
          /\ \/ limit = (IF asked.limit = 0 THEN g ELSE Lesser(g, asked.limit))
             \/ eng = "mysql" /\ ~ stmt.tables /\ limit = asked.limit
             \/ eng = "mysql" /\ stmt.head = "show" /\ limit = 0
          /\ granted' = g
          /\ limit_num' = IF stmt.head = "explain" /\ eng # "mongo" THEN 0 ELSE limit
    BY <1>2 DEF query_priv_check
  <2>2. /\ stage = "checked" /\ stage' = "granted"
        /\ UNCHANGED <<asked, text, opened, conn, thread_id, killing, reply, answer_status, data, log,
                       served, written, mode>>
    BY <1>2 DEF query_priv_check, threads, given, ran
  <2>3. eng' = eng /\ stmt' = stmt /\ IsLimited' = IsLimited /\ Masks' = Masks /\ Checked' = Checked
    BY <2>2, SameRequest
  <2>4. /\ Ceiling' = IF asked.limit = 0 THEN g ELSE Lesser(g, asked.limit)
        /\ IsLimited => limit_num' = Ceiling' /\ stmt.tables
    BY <2>1, <2>2, <2>3 DEF Ceiling, IsLimited
  <2>5. Ceiling' \in Nat
    BY <2>0, <2>1, <2>4 DEF AskedType, Lesser
  <2>6. data = NoData /\ served = 0 /\ ~ written /\ ~ mode.masking
    BY <2>0, <2>2 DEF StageInv
  <2>7. AskedType' /\ QueryTypeOK'
    BY <2>0, <2>1, <2>2, <2>3 DEF AskedType, QueryTypeOK
  <2>8. StageInv'
    BY <2>0, <2>1, <2>2, <2>3, <2>4 DEF StageInv
  <2>9. RowsWithinLimit' /\ QueriesChangeNothing' /\ AnswersAreAccounted'
    BY <2>2, <2>3, <2>5, <2>6 DEF RowsWithinLimit, QueriesChangeNothing, AnswersAreAccounted,
       MaskedOrNothing, AnswersAreLogged, NoData
  <2> QED
    BY <2>7, <2>8, <2>9 DEF QueryInv
<1> QED
  BY <1>1, <1>2

\* The limit goes into the statement, and the connection is opened.
LEMMA ConnectKeeps == QueryInv /\ connect => QueryInv'
<1> SUFFICES ASSUME QueryInv, connect PROVE QueryInv'
  OBVIOUS
<1>0. MaxRows \in Nat \ {0} /\ AskedType /\ QueryTypeOK /\ StageInv
  BY QueryPathAssumption DEF QueryInv
<1>1. /\ stage = "granted" /\ stage' = "connected"
      /\ opened' = opened + 1 /\ conn' = opened' /\ thread_id' \in {0, conn'} /\ killing' = thread_id'
      /\ UNCHANGED <<asked, granted, limit_num, reply, answer_status, data, log, served, written, mode>>
  BY DEF connect, request, given, ran
<1>2. /\ eng' = eng /\ stmt' = stmt /\ IsLimited' = IsLimited /\ Masks' = Masks /\ Checked' = Checked
      /\ Ceiling' = Ceiling
  BY <1>1, SameRequest
<1>3. stmt \in QueryStatement /\ eng \in AllQueryEngines
  BY <1>0, <1>1, QueryPathAssumption DEF AskedType, QueryTypeOK, stmt
<1>4. filter_sql(limit_num) \in [cap : 0..MaxRows, good : BOOLEAN]
  BY <1>0, <1>3, FilterType DEF QueryTypeOK
<1>5. /\ text' \in Text /\ text'.tail = text.tail /\ text'.cap = filter_sql(limit_num).cap
  <2> DEFINE good == text.good /\ filter_sql(limit_num).good
  <2>1. good \in BOOLEAN
    BY <1>0, <1>4, Zenon DEF QueryTypeOK, Text
  <2>2. text' = [cap |-> filter_sql(limit_num).cap, good |-> good, tail |-> text.tail]
    BY Zenon DEF connect
  <2> HIDE DEF good
  <2> QED
    BY <1>0, <1>4, <2>1, <2>2 DEF QueryTypeOK, Text
<1>6. filter_sql(limit_num)' = filter_sql(limit_num)
  BY <1>1, <1>2 DEF filter_sql, rewrite_limit_sql, pgsql_filter_sql, cassandra_filter_sql,
     phoenix_filter_sql, mssql_filter_sql, AsItIs
<1>7. opened \in {0, 1} /\ served = 0 /\ ~ written /\ data = NoData /\ ~ mode.masking
  BY <1>0, <1>1 DEF StageInv
<1>8. AskedType' /\ QueryTypeOK'
  BY <1>0, <1>1, <1>2, <1>5, <1>7 DEF AskedType, QueryTypeOK, Thread
<1>9. StageInv'
  BY <1>0, <1>1, <1>2, <1>5, <1>6, <1>7 DEF StageInv, Limited
<1>10. RowsWithinLimit' /\ QueriesChangeNothing' /\ AnswersAreAccounted'
  BY <1>1, <1>2, <1>7 DEF QueryInv, RowsWithinLimit, QueriesChangeNothing, AnswersAreAccounted,
     MaskedOrNothing, AnswersAreLogged
<1> QED
  BY <1>8, <1>9, <1>10 DEF QueryInv

\* The replica is asked how far behind it is.
LEMMA MeasureKeeps == QueryInv /\ seconds_behind_master => QueryInv'
<1> SUFFICES ASSUME QueryInv, seconds_behind_master PROVE QueryInv'
  OBVIOUS
<1>1. /\ stage = "connected" /\ stage' = "measured"
      /\ UNCHANGED <<asked, granted, text, limit_num, opened, conn, thread_id, killing, reply, answer_status,
                     data, log, served, written, mode>>
  BY DEF seconds_behind_master, request, threads, given, ran
<1>2. /\ eng' = eng /\ stmt' = stmt /\ IsLimited' = IsLimited /\ Masks' = Masks /\ Checked' = Checked
      /\ Ceiling' = Ceiling
  BY <1>1, SameRequest
<1>3. Limited' = Limited
  BY <1>1, <1>2 DEF Limited, filter_sql, rewrite_limit_sql, pgsql_filter_sql, cassandra_filter_sql,
     phoenix_filter_sql, mssql_filter_sql, AsItIs
<1>4. AskedType' /\ QueryTypeOK'
  BY <1>1, <1>2 DEF QueryInv, AskedType, QueryTypeOK
<1>5. StageInv'
  BY <1>1, <1>2, <1>3 DEF QueryInv, StageInv
<1>6. RowsWithinLimit' /\ QueriesChangeNothing' /\ AnswersAreAccounted'
  BY <1>1, <1>2 DEF QueryInv, RowsWithinLimit, QueriesChangeNothing, AnswersAreAccounted,
     MaskedOrNothing, AnswersAreLogged
<1> QED
  BY <1>4, <1>5, <1>6 DEF QueryInv

\* A statement that writes is not served, unless the account of the instance has to stand for it.
LEMMA ServesReads ==
  ASSUME QueryInv, stage = "measured", Serves(Sent(limit_num))
  PROVE  (stmt.hidden \/ (text.tail /\ stmt.head # "showplan")) => stmt.hidden /\ eng \notin {"pgsql", "mongo"}
<1>1. /\ ~ (stmt.hidden /\ eng = "pgsql") /\ Sent(limit_num).good
      /\ text.tail => stmt.head = "showplan"
  BY DEF Serves, ReadOnly, QueryInv, StageInv
<1>2. ASSUME eng = "mongo", stmt.hidden
      PROVE  FALSE
  <2>1. eng \in QueryEngines /\ stmt \in QueryMenu[eng]
    BY DEF QueryInv, QueryTypeOK
  <2>2. stmt.head = "aggregate"
    BY <1>2, <2>1, QueryPathAssumption
  <2> QED
    BY <1>1, <1>2, <2>2 DEF Sent, mongo_text, aggregate_cap, Bounded
<1> QED
  BY <1>1, <1>2

\* The server answers.
LEMMA AnswerKeeps == QueryInv /\ query => QueryInv'
<1> SUFFICES ASSUME QueryInv, query PROVE QueryInv'
  OBVIOUS
<1> DEFINE n == Rows(Sent(limit_num))
<1>0. MaxRows \in Nat \ {0} /\ AskedType /\ QueryTypeOK /\ StageInv
  BY QueryPathAssumption DEF QueryInv
<1>1. PICK fails \in BOOLEAN :
        /\ ~ Serves(Sent(limit_num)) => fails
        /\ reply' = IF fails THEN [NoReply EXCEPT !.error = TRUE] ELSE Result(n)
        /\ served' = IF fails THEN 0 ELSE n
        /\ written' = (~ fails /\ (stmt.hidden \/ (text.tail /\ stmt.head # "showplan")))
  BY Zenon DEF query
<1>2. /\ stage = "measured" /\ stage' = "ran" /\ conn' = 0 /\ opened' = opened
      /\ UNCHANGED <<asked, granted, text, limit_num, thread_id, killing, answer_status, data, log, mode>>
  BY <1>0 DEF query, request, given, StageInv
<1>3. /\ eng' = eng /\ stmt' = stmt /\ IsLimited' = IsLimited /\ Masks' = Masks /\ Checked' = Checked
      /\ Ceiling' = Ceiling /\ WritesLimit' = WritesLimit
  BY <1>2, SameRequest
<1>4. Checked /\ Limited /\ granted >= 1 /\ (IsLimited => limit_num = Ceiling) /\ data = NoData
      /\ ~ mode.masking
  BY <1>0, <1>2 DEF StageInv
<1>5. IsLimited => limit_num >= 1
  BY <1>0, <1>4 DEF AskedType, Ceiling, Lesser
<1>6. /\ n \in 0..MaxRows
      /\ limit_num >= 1 => /\ Cuts => n <= limit_num
                           /\ IsLimited /\ eng \in {"odps", "mongo", "elasticsearch"} => n <= limit_num
  BY <1>0, <1>2, <1>4, ServedRows
<1>7. limit_num \in Nat /\ Ceiling \in Nat
  BY <1>0 DEF QueryTypeOK, AskedType, Ceiling, Lesser
<1> HIDE DEF n
<1>8. /\ Result(n) \in Reply /\ ~ Result(n).error /\ ~ Result(n).is_masked /\ ~ Result(n).masked
      /\ limit_num >= 1 /\ IsLimited =>
           /\ Result(n).rows <= limit_num
           /\ stmt.head # "scan" => Result(n).rows <= Result(n).affected
  BY <1>0, <1>2, <1>4, <1>6, ResultFits
<1>9. /\ reply' \in Reply /\ ~ reply'.is_masked
      /\ IsLimited => reply'.rows <= limit_num /\ (stmt.head # "scan" => reply'.rows <= reply'.affected)
      /\ served' \in 0..(MaxRows + 1) /\ (Cuts => served' <= limit_num)
  <2>1. CASE fails
    <3>1. reply' = [rows |-> 0, affected |-> 0, error |-> TRUE, masked |-> FALSE, is_masked |-> FALSE]
          /\ served' = 0
      BY <1>1, <2>1 DEF NoReply
    <3>2. reply' \in Reply
      BY <1>0, <3>1 DEF Reply
    <3> QED
      BY <1>0, <1>7, <3>1, <3>2
  <2>2. CASE ~ fails
    BY <1>0, <1>1, <1>5, <1>6, <1>8, <2>2 DEF Cuts
  <2> QED
    BY <2>1, <2>2
<1>10. QueriesChangeNothing'
  BY <1>1, <1>2, <1>3, ServesReads DEF QueriesChangeNothing
<1>11. AskedType' /\ QueryTypeOK'
  BY <1>0, <1>2, <1>3, <1>9 DEF AskedType, QueryTypeOK, Thread
<1>12. StageInv'
  BY <1>0, <1>2, <1>3, <1>4, <1>9 DEF StageInv, Counted
<1>13. RowsWithinLimit'
  <2>1. Cuts => served' <= Ceiling
    BY <1>4, <1>9 DEF Cuts
  <2> QED
    BY <1>2, <1>3, <1>4, <1>7, <2>1 DEF RowsWithinLimit, Cuts, WritesLimit, NoData
<1>14. AnswersAreAccounted'
  BY <1>2, <1>4 DEF AnswersAreAccounted, MaskedOrNothing, AnswersAreLogged
<1> QED
  BY <1>10, <1>11, <1>12, <1>13, <1>14 DEF QueryInv

\* The masking, by the parts of its outcome.
LEMMA MaskingTells ==
  ASSUME reply \in Reply, ~ reply.is_masked, eng \in AllQueryEngines, NEW fails \in BOOLEAN, fails => Masks,
         NEW m, m = query_masking(fails)
  PROVE  /\ m \in Reply /\ m.rows = reply.rows /\ m.affected = reply.affected
         /\ m.is_masked => m.masked \/ eng \in {"pgsql", "oracle"}
         /\ Masks /\ ~ fails => m.masked
         /\ ~ fails => m.error \in {reply.error, FALSE}
<1>1. \A masked, is_masked, fault \in BOOLEAN :
        /\ Masking(masked, is_masked, fault) \in Reply
        /\ Masking(masked, is_masked, fault).rows = reply.rows
        /\ Masking(masked, is_masked, fault).affected = reply.affected
        /\ Masking(masked, is_masked, fault).masked = masked
        /\ Masking(masked, is_masked, fault).is_masked = is_masked
        /\ Masking(masked, is_masked, fault).error = fault
  BY DEF Masking, Reply
<1>2. CASE ~ Masks
  BY <1>2 DEF query_masking
<1>3. CASE Masks /\ eng \in {"pgsql", "oracle"}
  <2>1. m = Masking(~ fails, TRUE, fails)
    BY <1>3 DEF query_masking, simple_column_mask
  <2>2. CASE fails
    <3>1. m = Masking(FALSE, TRUE, TRUE)
      BY <2>1, <2>2
    <3> QED
      BY <1>1, <1>3, <2>2, <3>1
  <2>3. CASE ~ fails
    <3>1. m = Masking(TRUE, TRUE, FALSE)
      BY <2>1, <2>3
    <3> QED
      BY <1>1, <1>3, <2>3, <3>1
  <2> QED
    BY <2>2, <2>3
<1>4. CASE Masks /\ eng = "mssql"
  <2>1. m = Masking(~ fails, ~ fails, FALSE)
    BY <1>4 DEF query_masking, brute_mask
  <2> QED
    BY <1>1, <1>4, <2>1
<1>5. CASE Masks /\ eng \notin {"pgsql", "oracle", "mssql"}
  <2>1. m = Masking(~ fails, ~ fails, fails)
    BY <1>5 DEF query_masking, data_masking
  <2>2. CASE fails
    <3>1. m = Masking(FALSE, FALSE, TRUE)
      BY <2>1, <2>2
    <3> QED
      BY <1>1, <1>5, <2>2, <3>1
  <2>3. CASE ~ fails
    <3>1. m = Masking(TRUE, TRUE, FALSE)
      BY <2>1, <2>3
    <3> QED
      BY <1>1, <1>5, <2>3, <3>1
  <2> QED
    BY <2>2, <2>3
<1> QED
  BY <1>2, <1>3, <1>4, <1>5

\* The rows are masked, or not.
LEMMA MaskKeeps == QueryInv /\ mask => QueryInv'
<1> SUFFICES ASSUME QueryInv, mask PROVE QueryInv'
  OBVIOUS
<1>0. MaxRows \in Nat \ {0} /\ AskedType /\ QueryTypeOK /\ StageInv
  BY QueryPathAssumption DEF QueryInv
<1>1. PICK masking_on \in BOOLEAN, query_check_on \in BOOLEAN, fails \in BOOLEAN :
        /\ fails => masking_on /\ Masks
        /\ mode' = [masking |-> masking_on, strict |-> query_check_on]
        /\ reply' = IF ~ masking_on THEN reply
                    ELSE IF query_check_on THEN query_masking(fails)
                    ELSE [query_masking(fails) EXCEPT !.error = FALSE]
        /\ data' = IF fails /\ query_check_on THEN NoData ELSE [rows |-> reply.rows, masked |-> reply'.masked]
        /\ answer_status' = IF fails /\ query_check_on THEN 1 ELSE 0
  BY DEF mask, Shown, Release
<1>2. /\ stage = "ran" /\ stage' = "masked" /\ killing' = 0 /\ ~ reply.error
      /\ UNCHANGED <<asked, granted, text, limit_num, opened, conn, thread_id, log, served, written>>
  BY DEF mask, request, ran
<1>3. /\ eng' = eng /\ stmt' = stmt /\ IsLimited' = IsLimited /\ Masks' = Masks /\ Checked' = Checked
      /\ Ceiling' = Ceiling /\ WritesLimit' = WritesLimit
  BY <1>2, SameRequest
<1>4. /\ Checked /\ granted >= 1 /\ (IsLimited => limit_num = Ceiling) /\ Counted
      /\ ~ reply.is_masked /\ reply \in Reply /\ eng \in AllQueryEngines /\ limit_num \in Nat
      /\ Ceiling \in Nat
  BY <1>0, <1>2, QueryPathAssumption DEF StageInv, QueryTypeOK, AskedType, Ceiling, Lesser
<1> DEFINE m == query_masking(fails)
<1>5. /\ m \in Reply /\ m.rows = reply.rows /\ m.affected = reply.affected
      /\ m.is_masked => m.masked \/ eng \in {"pgsql", "oracle"}
      /\ Masks /\ ~ fails => m.masked
      /\ ~ fails => m.error \in {reply.error, FALSE}
  BY <1>1, <1>4, MaskingTells
<1> HIDE DEF m
<1>6. /\ reply' \in Reply /\ reply'.rows = reply.rows /\ reply'.affected = reply.affected
      /\ reply'.is_masked => reply'.masked \/ eng \in {"pgsql", "oracle"}
      /\ masking_on /\ Masks /\ ~ fails => reply'.masked
      /\ ~ (fails /\ query_check_on) => ~ reply'.error
  <2>1. CASE ~ masking_on
    BY <1>1, <1>2, <1>4, <2>1
  <2>2. CASE masking_on /\ query_check_on
    <3>1. reply' = m
      BY <1>1, <2>2 DEF m
    <3> QED
      BY <1>2, <1>5, <2>2, <3>1
  <2>3. CASE masking_on /\ ~ query_check_on
    <3>1. reply' = [m EXCEPT !.error = FALSE]
      BY <1>1, <2>3 DEF m
    <3> QED
      BY <1>5, <3>1 DEF Reply
  <2> QED
    BY <2>1, <2>2, <2>3
<1>7. /\ data' \in [rows : 0..(MaxRows + 1), masked : BOOLEAN] /\ data'.rows \in {0, reply.rows}
      /\ ~ (fails /\ query_check_on) => data' = [rows |-> reply.rows, masked |-> reply'.masked]
      /\ fails /\ query_check_on => data'.rows = 0 /\ answer_status' = 1
      /\ answer_status' \in 0..2
  <2>1. reply.rows \in 0..(MaxRows + 1) /\ reply'.masked \in BOOLEAN
    BY <1>4, <1>6 DEF Reply
  <2>2. CASE fails /\ query_check_on
    BY <1>0, <1>1, <2>2 DEF NoData
  <2>3. CASE ~ (fails /\ query_check_on)
    BY <1>1, <2>1, <2>3
  <2> QED
    BY <2>2, <2>3
<1>8. AskedType' /\ QueryTypeOK'
  BY <1>0, <1>1, <1>2, <1>3, <1>6, <1>7 DEF AskedType, QueryTypeOK, Thread
<1>9. AnswerFits'
  <2> SUFFICES ASSUME answer_status' = 0
               PROVE  /\ ~ reply'.error /\ data'.rows <= reply'.rows /\ data'.masked = reply'.masked
                      /\ reply'.is_masked => reply'.masked \/ eng' \in {"pgsql", "oracle"}
    BY DEF AnswerFits
  <2>1. ~ (fails /\ query_check_on)
    BY <1>1
  <2>2. reply.rows \in Nat
    BY <1>4 DEF Reply
  <2> QED
    BY <1>3, <1>6, <1>7, <2>1, <2>2
<1>10. StageInv'
  BY <1>0, <1>2, <1>3, <1>4, <1>6, <1>9 DEF StageInv, Counted
<1>11. RowsWithinLimit'
  <2>1. IsLimited => data'.rows <= Ceiling
    BY <1>4, <1>7 DEF Counted
  <2>2. RowsWithinLimit
    BY DEF QueryInv
  <2> QED
    BY <1>2, <1>3, <2>1, <2>2 DEF RowsWithinLimit
<1>12. QueriesChangeNothing'
  BY <1>2, <1>3 DEF QueryInv, QueriesChangeNothing
<1>13. AnswersAreAccounted'
  BY <1>1, <1>2, <1>3, <1>6, <1>7 DEF AnswersAreAccounted, MaskedOrNothing, AnswersAreLogged
<1> QED
  BY <1>8, <1>10, <1>11, <1>12, <1>13 DEF QueryInv

\* The engine answers with an error.
LEMMA MaskErrorKeeps == QueryInv /\ mask_error => QueryInv'
<1> SUFFICES ASSUME QueryInv, mask_error PROVE QueryInv'
  OBVIOUS
<1>1. /\ stage = "ran" /\ stage' = "masked" /\ killing' = 0 /\ answer_status' = 1
      /\ UNCHANGED <<asked, granted, text, limit_num, opened, conn, thread_id, reply, data, log,
                     served, written, mode>>
  BY DEF mask_error, request, ran
<1>2. /\ eng' = eng /\ stmt' = stmt /\ IsLimited' = IsLimited /\ Masks' = Masks /\ Checked' = Checked
      /\ Ceiling' = Ceiling
  BY <1>1, SameRequest
<1>3. AskedType' /\ QueryTypeOK'
  BY <1>1, <1>2 DEF QueryInv, AskedType, QueryTypeOK, Thread
<1>4. StageInv'
  BY <1>1, <1>2 DEF QueryInv, StageInv, Counted, AnswerFits
<1>5. RowsWithinLimit' /\ QueriesChangeNothing' /\ AnswersAreAccounted'
  BY <1>1, <1>2 DEF QueryInv, RowsWithinLimit, QueriesChangeNothing, AnswersAreAccounted,
     MaskedOrNothing, AnswersAreLogged
<1> QED
  BY <1>3, <1>4, <1>5 DEF QueryInv

\* The log row.
LEMMA LogKeeps == QueryInv /\ write_log => QueryInv'
<1> SUFFICES ASSUME QueryInv, write_log PROVE QueryInv'
  OBVIOUS
<1>0. MaxRows \in Nat \ {0} /\ AskedType /\ QueryTypeOK /\ StageInv
  BY QueryPathAssumption DEF QueryInv
<1>1. /\ stage = "masked" /\ stage' = "answered"
      /\ log' = [written |-> TRUE, effect_row |-> effect_row, masking |-> reply.is_masked]
      /\ UNCHANGED <<asked, granted, text, limit_num, opened, conn, thread_id, killing, reply,
                     answer_status, data, served, written, mode>>
  BY DEF write_log, request, threads, given, ran
<1>2. /\ eng' = eng /\ stmt' = stmt /\ IsLimited' = IsLimited /\ Masks' = Masks /\ Ceiling' = Ceiling
  BY <1>1, SameRequest
<1>3. /\ reply \in Reply /\ Counted /\ AnswerFits /\ limit_num \in 0..MaxRows
      /\ IsLimited => limit_num = Ceiling /\ limit_num >= 1
  BY <1>0, <1>1 DEF StageInv, QueryTypeOK, AskedType, Ceiling, Lesser
<1>4. /\ effect_row \in 0..(MaxRows + 1)
      /\ IsLimited /\ stmt.head # "scan" /\ ~ reply.error => effect_row >= reply.rows
  <2>1. reply.rows \in 0..(MaxRows + 1) /\ reply.affected \in 0..(MaxRows + 1)
    BY <1>3 DEF Reply
  <2> QED
    BY <1>0, <1>3, <2>1 DEF effect_row, Lesser, Counted
<1>5. AskedType' /\ QueryTypeOK'
  BY <1>0, <1>1, <1>2, <1>3, <1>4 DEF AskedType, QueryTypeOK, Reply
<1>6. StageInv'
  BY <1>0, <1>1, <1>2 DEF StageInv
<1>7. AnswersAreLogged'
  <2> SUFFICES ASSUME answer_status = 0
               PROVE  /\ IsLimited /\ stmt.head # "scan" => effect_row >= data.rows
                      /\ reply.is_masked => data.masked \/ eng \in {"pgsql", "oracle"}
    BY <1>1, <1>2 DEF AnswersAreLogged
  <2>1. data.rows \in Nat /\ reply.rows \in Nat
    BY <1>0, <1>3 DEF QueryTypeOK, Reply
  <2> QED
    BY <1>3, <1>4, <2>1 DEF AnswerFits
<1>8. RowsWithinLimit' /\ QueriesChangeNothing' /\ MaskedOrNothing'
  BY <1>1, <1>2 DEF QueryInv, RowsWithinLimit, QueriesChangeNothing, AnswersAreAccounted, MaskedOrNothing
<1> QED
  BY <1>5, <1>6, <1>7, <1>8 DEF QueryInv, AnswersAreAccounted

\* Every step of a query, and doing nothing.
LEMMA QueryStep == QueryInv /\ [QueryNext]_queryVars => QueryInv'
<1> SUFFICES ASSUME QueryInv, [QueryNext]_queryVars PROVE QueryInv'
  OBVIOUS
<1>1. CASE UNCHANGED queryVars
  <2>1. UNCHANGED <<asked, granted, text, limit_num, opened, conn, thread_id, killing, reply, answer_status,
                    data, log, served, written, mode, stage>>
    BY <1>1 DEF queryVars
  <2>2. /\ eng' = eng /\ stmt' = stmt /\ IsLimited' = IsLimited /\ Masks' = Masks /\ Checked' = Checked
        /\ Ceiling' = Ceiling
    BY <2>1, SameRequest
  <2>3. Limited' = Limited
    BY <2>1, <2>2 DEF Limited, filter_sql, rewrite_limit_sql, pgsql_filter_sql, cassandra_filter_sql,
       phoenix_filter_sql, mssql_filter_sql, AsItIs
  <2>4. AskedType' /\ QueryTypeOK'
    BY <2>1, <2>2 DEF QueryInv, AskedType, QueryTypeOK
  <2>5. StageInv'
    BY <2>1, <2>2, <2>3 DEF QueryInv, StageInv, Counted, AnswerFits
  <2>6. RowsWithinLimit' /\ QueriesChangeNothing' /\ AnswersAreAccounted'
    BY <2>1, <2>2 DEF QueryInv, RowsWithinLimit, QueriesChangeNothing, AnswersAreAccounted,
       MaskedOrNothing, AnswersAreLogged
  <2> QED
    BY <2>4, <2>5, <2>6 DEF QueryInv
<1>2. CASE connect_fails \/ query_raises \/ write_log_fails
  <2>1. /\ stage \in {"granted", "measured", "masked"} /\ stage' = "answered" /\ answer_status' = 1
        /\ UNCHANGED <<request, text, limit_num, threads, reply, data, log, ran, mode>>
    BY <1>2 DEF connect_fails, query_raises, write_log_fails, Refuse
  <2> QED
    BY <2>1, RefusedKeeps
<1>3. CASE die
  <2>1. stage \in {"asked", "checked", "granted", "connected", "measured", "ran", "masked"}
    BY <1>3 DEF die, QueryInv, QueryTypeOK
  <2> QED
    BY <1>3, <2>1, RefusedKeeps DEF die, given
<1> QED
  BY <1>1, <1>2, <1>3, AskKeeps, CheckKeeps, PrivilegesKeep, ConnectKeeps, MeasureKeeps, AnswerKeeps,
     MaskKeeps, MaskErrorKeeps, LogKeeps DEF QueryNext

\* The types of a query, its stages and what it may never do.
LEMMA QueryIsKept == QuerySpec => []QueryInv
BY QueryBegins, QueryStep, PTL DEF QuerySpec

\* Nobody is shown, and no engine that is told the limit produces, more rows than the privileges
\* and the request allow: for every form of LIMIT, on every engine (query_execute.py, filter_sql).
THEOREM RowsAreLimited == QuerySpec => []RowsWithinLimit
<1>1. QueryInv => RowsWithinLimit
  BY DEF QueryInv
<1> QED
  BY <1>1, QueryIsKept, PTL

\* A query writes nothing, neither by a second statement nor, on PostgreSQL and MongoDB, by a
\* read that writes (query_check and the read-only transaction).
THEOREM QueriesOnlyRead == QuerySpec => []QueriesChangeNothing
<1>1. QueryInv => QueriesChangeNothing
  BY DEF QueryInv
<1> QED
  BY <1>1, QueryIsKept, PTL

\* What is shown is masked where masking is on and strict, and what is answered is in the log
\* with a count no less than the rows shown (query_execute.py).
THEOREM AnswersAreTold == QuerySpec => []AnswersAreAccounted
<1>1. QueryInv => AnswersAreAccounted
  BY DEF QueryInv
<1> QED
  BY <1>1, QueryIsKept, PTL

-----------------------------------------------------------------------------
(* The export of a statement's rows.                                       *)

RequestType ==
  /\ asked \in [engine : QueryEngines \cup {"none"}, statement : QueryStatement,
                limit : 0..MaxRows, hits : 0..MaxRows]
  /\ export # "new" => eng \in QueryEngines /\ stmt \in QueryMenu[eng]
  /\ text \in Text /\ limit_num \in 0..MaxRows

\* What the properties say of one file.
AllThere(f) ==
  /\ KeepsAllRows => f.rows = AllRows + Cursor
  /\ KeepsAllRows /\ rejects /\ ~ changed => f.rows <= MaxExportRows + Cursor
  /\ "long" \notin f.cut

\* The review: the statement as it is, then with room for one row too many; and what it saw.
ReviewInv ==
  /\ export \in {"counting", "limiting"} => text.cap = AsItIs.cap /\ Checked
  /\ export = "limited" => text.cap = filter_sql(RowsToRead).cap /\ limit_num = RowsToRead
  /\ export \in {"submitted", "executing", "made", "stored", "finish"} =>
       (KeepsAllRows /\ rejects /\ ~ changed => AllRows <= MaxExportRows)
  /\ export = "executing" => text.cap = AsItIs.cap /\ limit_num = 0

\* There is one file, first in the temporary directory and then where it was saved.
FileInv ==
  /\ export \notin {"made", "dead"} => made = {}
  /\ export = "made" => made # {}
  /\ export \in {"executing", "made", "stored", "finish"} => savedTo \in Storages
  /\ export \in {"new", "asked", "counting", "limiting", "limited", "submitted", "rejected"} =>
       savedTo = NoPlace
  /\ \A p \in Storages : files[p] # {} => p = savedTo /\ export \in {"stored", "finish", "exception", "dead"}
  /\ export \in {"stored", "finish"} => files[savedTo] # {}
  /\ \A f \in made : AllThere(f)
  /\ \A p \in Storages : \A f \in files[p] : AllThere(f)
  /\ file_name <=> export = "finish"
  /\ download.said \in {"stream", "url"} => export = "finish" /\ download.from = savedTo

ExportInv == RequestType /\ ExportTypeOK /\ ReviewInv /\ FileInv

\* Each engine has its own forms of a limit.
FormsFit ==
  /\ stmt.form \in OdpsForms => eng = "odps"
  /\ stmt.form \in FindForms => eng = "mongo" /\ stmt.head = "select"

\* The limit of RowsToRead leaves one row too many, if there is one.
LEMMA LimitLeavesOne ==
  ASSUME stmt \in QueryStatement, eng \in AllQueryEngines, NEW limit \in 1..MaxRows,
         text.cap = filter_sql(limit).cap, KeepsAllRows,
         FormsFit
  PROVE  Sent(limit).cap \in {AsItIs.cap, Lesser(limit, AsItIs.cap)}
<1>0. MaxRows \in Nat /\ stmt.own \in 1..MaxRows
  BY QueryPathAssumption DEF QueryStatement
<1> DEFINE Both == {AsItIs.cap, Lesser(limit, AsItIs.cap)}
<1>1. AsItIs.cap = IF stmt.form \in {"none", "name", "empty"} THEN MaxRows ELSE stmt.own
  BY DEF AsItIs, Bounded, Uncapped
<1>2. CASE eng = "mongo"
  <2>1. CASE stmt.head = "select"
    <3>1. Sent(limit).cap = find_cap(limit) /\ stmt.form \in {"none", "empty", "negative"}
      BY <1>2, <2>1 DEF Sent, mongo_text, Bounded, KeepsAllRows, FindForms
    <3>2. find_cap(limit) = CASE stmt.form = "negative" -> stmt.own
                             [] stmt.form = "empty"    -> MaxRows
                             [] OTHER                 -> limit
      BY <3>1 DEF find_cap, Uncapped
    <3>3. stmt.form = "none" => Lesser(limit, AsItIs.cap) = limit
      BY <1>0, <1>1 DEF Lesser
    <3> QED
      BY <3>1, <3>2, <3>3, <1>1
  <2>2. CASE stmt.head # "select"
    BY <1>2, <2>2 DEF Sent, mongo_text, aggregate_cap, AsItIs, Bounded
  <2> QED
    BY <2>1, <2>2
<1>3. CASE eng # "mongo"
  <2>1. stmt.form \notin {"name", "empty"}
    BY <1>3 DEF FormsFit, KeepsAllRows, OdpsForms, FindForms
  <2>2. AsItIs.cap = IF stmt.form = "none" THEN MaxRows ELSE stmt.own
    BY <2>1, <1>1
  <2>3. rewrite_limit_sql(limit).cap \in Both /\ pgsql_filter_sql(limit).cap \in Both
        /\ cassandra_filter_sql(limit).cap \in Both /\ phoenix_filter_sql(limit).cap \in Both
        /\ mssql_filter_sql(limit).cap \in Both
    <3> HIDE DEF Both
    <3>1. AsItIs.cap \in Both /\ Lesser(limit, AsItIs.cap) \in Both
      BY DEF Both
    <3>2. stmt.form = "none" => limit \in Both
      BY <1>0, <2>2, <3>1 DEF Lesser
    <3>3. stmt.form # "none" => stmt.own \in Both /\ Lesser(limit, stmt.own) \in Both
      BY <2>2, <3>1
    <3> QED
      BY <3>1, <3>2, <3>3 DEF rewrite_limit_sql, pgsql_filter_sql, cassandra_filter_sql, phoenix_filter_sql,
         mssql_filter_sql, Bounded
  <2>4. filter_sql(limit).cap \in Both
    BY <2>3 DEF filter_sql
  <2> QED
    BY <2>4, <1>3 DEF KeepsAllRows, Sent, Bounded
<1> QED
  BY <1>2, <1>3

\* Without a limit all rows are sent.
LEMMA AllAreSent ==
  ASSUME stmt \in QueryStatement, eng \in AllQueryEngines, KeepsAllRows,
         text.cap = AsItIs.cap, Serves(Sent(0))
  PROVE  Rows(Sent(0)) = AllRows
<1>1. CASE eng = "mongo"
  <2>1. Sent(0).cap = mongo_text(0).cap /\ mongo_text(0).good
    BY <1>1 DEF Serves, Sent, Bounded
  <2>2. CASE stmt.head = "select"
    <3>1. mongo_text(0).cap = AsItIs.cap
      <4>1. mongo_text(0).cap = find_cap(0) /\ stmt.form \in {"none", "empty", "negative"}
        BY <1>1, <2>2 DEF mongo_text, Bounded, KeepsAllRows, FindForms
      <4>2. AsItIs.cap = IF stmt.form \in {"none", "name", "empty"} THEN Uncapped ELSE stmt.own
        BY DEF AsItIs, Bounded
      <4>3. find_cap(0) = IF stmt.form = "negative" THEN stmt.own ELSE Uncapped
        BY <4>1 DEF find_cap
      <4> QED
        BY <4>1, <4>2, <4>3
    <3> QED
      BY <2>1, <2>2, <3>1 DEF Rows, AllRows
  <2>3. CASE stmt.head = "aggregate"
    <3>1. mongo_text(0) = aggregate_cap(0)
      BY <2>3 DEF mongo_text
    <3>2. aggregate_cap(0).good = (~ stmt.hidden /\ 0 > 0)
      BY DEF aggregate_cap, Bounded
    <3>3. ~ (0 > 0)
      OBVIOUS
    <3> QED
      BY <2>1, <3>1, <3>2, <3>3, Zenon
  <2>4. CASE stmt.head \notin {"select", "aggregate"}
    <3>1. mongo_text(0).cap = AsItIs.cap
      BY <2>4 DEF mongo_text
    <3> QED
      BY <2>1, <3>1 DEF Rows, AllRows
  <2> QED
    BY <2>2, <2>3, <2>4
<1>2. CASE eng # "mongo"
  BY <1>2 DEF KeepsAllRows, Sent, Bounded, Rows, AllRows
<1> QED
  BY <1>1, <1>2

\* What an engine gives of n rows, and how many it counts.
LEMMA ResultCounts ==
  ASSUME eng \in AllQueryEngines, NEW n \in Nat, limit_num \in Nat
  PROVE  /\ Result(n).affected \in {n, Within(n)}
         /\ Result(n).rows \in 0..(n + 1)
         /\ limit_num = 0 => Result(n).rows = n + Cursor
<1>0. Within(n) \in 0..n /\ Within(n + 1) \in 0..(n + 1)
      /\ (limit_num = 0 => Within(n) = n /\ Within(n + 1) = n + 1)
  BY DEF Within, Lesser
<1>1. \A many, affected \in Nat : Got(many, affected).rows = many /\ Got(many, affected).affected = affected
  BY DEF Got, NoReply
<1>2. CASE eng \in {"mysql", "doris"}
  <2>1. Result(n) = Got(Within(n), n)
    BY <1>2 DEF Result, mysql_query
  <2> QED
    BY <2>1, <1>0, <1>1, <1>2 DEF Cursor
<1>3. CASE eng \in {"clickhouse", "tdengine", "oracle", "pgsql", "phoenix", "cassandra"}
  <2>1. Result(n) = Got(Within(n), Within(n))
    BY <1>3 DEF Result, clickhouse_query, tdengine_query, oracle_query, pgsql_query, phoenix_query,
       cassandra_query, fetchmany
  <2> QED
    BY <2>1, <1>0, <1>1, <1>3 DEF Cursor
<1>4. CASE eng = "mssql"
  <2>1. Result(n) = IF stmt.head = "showplan" THEN Got(n, n) ELSE Got(Within(n), Within(n))
    BY <1>4 DEF Result, mssql_query, fetchmany, Everything
  <2> QED
    BY <2>1, <1>0, <1>1, <1>4 DEF Cursor
<1>5. CASE eng = "redis"
  <2>1. Result(n) = Got(Within(IF stmt.head = "scan" THEN n + 1 ELSE n), n)
    BY <1>5 DEF Result, redis_query
  <2> QED
    BY <2>1, <1>0, <1>1, <1>5 DEF Cursor
<1>6. CASE eng \in {"odps", "mongo", "elasticsearch", "memcached"}
  <2>1. Result(n) = Got(n, n)
    BY <1>6 DEF Result, odps_query, mongo_query, elasticsearch_query, memcached_query, Everything
  <2> QED
    BY <2>1, <1>0, <1>1, <1>6 DEF Cursor
<1> QED
  BY <1>2, <1>3, <1>4, <1>5, <1>6 DEF AllQueryEngines

\* As long as the ticket is the same, so is what it asks for.
LEMMA SameTicket ==
  ASSUME UNCHANGED asked
  PROVE  /\ eng' = eng /\ stmt' = stmt /\ Checked' = Checked /\ AsItIs' = AsItIs
         /\ AllRows' = AllRows /\ KeepsAllRows' = KeepsAllRows /\ Cursor' = Cursor
         /\ filter_sql(RowsToRead)' = filter_sql(RowsToRead)
<1>1. eng' = eng /\ stmt' = stmt /\ Checked' = Checked
  BY SameRequest
<1>2. AsItIs' = AsItIs
  BY <1>1 DEF AsItIs
<1> QED
  BY <1>1, <1>2 DEF AllRows, KeepsAllRows, Cursor, filter_sql, rewrite_limit_sql, pgsql_filter_sql,
     cassandra_filter_sql, phoenix_filter_sql, mssql_filter_sql

\* What a file is, it stays.
LEMMA SameFile ==
  ASSUME UNCHANGED <<asked, rejects, changed>>, NEW f
  PROVE  AllThere(f)' = AllThere(f)
<1>1. AllRows' = AllRows /\ KeepsAllRows' = KeepsAllRows /\ Cursor' = Cursor
  BY SameTicket
<1> QED
  BY <1>1 DEF AllThere

LEMMA ExportNumbers ==
  /\ MaxRows \in Nat \ {0} /\ MaxExportRows \in Nat /\ MaxExportRows < MaxRows
  /\ RowsToRead \in 1..MaxRows /\ NoPlace \notin Storages
BY QueryPathAssumption, ExportAssumption DEF RowsToRead

LEMMA ExportBegins == QueryInit /\ ExportInit => ExportInv
<1> SUFFICES ASSUME QueryInit, ExportInit PROVE ExportInv
  OBVIOUS
<1>1. RequestType
  <2>1. NoRequest.statement \in QueryStatement
    BY ExportNumbers DEF NoRequest, QueryStatement, Heads
  <2> QED
    BY ExportNumbers, <2>1 DEF QueryInit, ExportInit, RequestType, NoRequest, Text, Uncapped
<1>2. ExportTypeOK
  <2>1. files \in [Storages -> SUBSET ExportFile] /\ made \subseteq ExportFile
    BY DEF ExportInit
  <2>2. download \in [said : {"none", "refused", "missing", "failed", "stream", "url"},
                      from : Storages \cup {NoPlace}]
    BY DEF ExportInit
  <2>3. moves \in 0..MaxMoves
    BY ExportAssumption DEF ExportInit
  <2> QED
    BY <2>1, <2>2, <2>3 DEF ExportInit, ExportTypeOK
<1>3. ReviewInv
  BY DEF ExportInit, ReviewInv
<1>4. FileInv
  BY DEF ExportInit, FileInv
<1> QED
  BY <1>1, <1>2, <1>3, <1>4 DEF ExportInv

\* Before the run there is no file anywhere.
LEMMA NoFileYet ==
  ASSUME ExportInv,
         export \in {"new", "asked", "counting", "limiting", "limited", "submitted", "rejected"}
  PROVE  made = {} /\ (\A p \in Storages : files[p] = {}) /\ ~ file_name
         /\ download.said \notin {"stream", "url"}
BY DEF ExportInv, FileInv

\* A step of the review: of the files it leaves none, and it goes on, ends or has seen enough.
LEMMA ReviewKeeps ==
  ASSUME ExportInv, export \in {"asked", "counting", "limiting", "limited"},
         UNCHANGED <<asked, rejects, storage, files, made, savedTo, file_name, download, moves, changed>>,
         text' \in Text, limit_num' \in 0..MaxRows,
         export' \in {"counting", "limiting", "limited", "submitted", "rejected"},
         ReviewInv'
  PROVE  ExportInv'
<1>1. made = {} /\ (\A p \in Storages : files[p] = {}) /\ ~ file_name /\ savedTo = NoPlace
      /\ download.said \notin {"stream", "url"}
  BY NoFileYet DEF ExportInv, FileInv
<1>2. RequestType'
  BY SameTicket DEF ExportInv, RequestType
<1>3. ExportTypeOK'
  BY DEF ExportInv, ExportTypeOK
<1>4. FileInv'
  BY <1>1 DEF FileInv
<1> QED
  BY <1>2, <1>3, <1>4 DEF ExportInv

\* The review ends, having seen no more rows than allowed unless it says so.
LEMMA ReviewedKeeps ==
  ASSUME ExportInv, export \in {"asked", "counting", "limiting", "limited"}, NEW fault,
         Reviewed(fault), ~ fault /\ KeepsAllRows => AllRows <= MaxExportRows
  PROVE  ExportInv'
<1>1. /\ export' \in {"submitted", "rejected"} /\ (export' = "submitted" /\ rejects => ~ fault)
      /\ text' = NoText /\ limit_num' = 0
      /\ UNCHANGED <<asked, rejects, storage, files, made, savedTo, file_name, download, moves, changed>>
  BY DEF Reviewed, Return, exportTicket, exportFiles
<1>2. AllRows' = AllRows /\ KeepsAllRows' = KeepsAllRows
  BY <1>1, SameTicket
<1>3. text' \in Text /\ limit_num' \in 0..MaxRows
  BY <1>1, ExportNumbers DEF NoText, Text, Uncapped
<1>4. ReviewInv'
  BY <1>1, <1>2 DEF ReviewInv
<1> QED
  BY <1>1, <1>3, <1>4, ReviewKeeps

LEMMA FillKeeps == ExportInv /\ Fill => ExportInv'
<1> SUFFICES ASSUME ExportInv, Fill PROVE ExportInv'
  OBVIOUS
<1>1. /\ export = "new" /\ export' = "asked" /\ rejects' \in BOOLEAN
      /\ UNCHANGED <<text, limit_num, storage, files, made, savedTo, file_name, download, moves, changed>>
  BY DEF Fill, exportFiles
<1>2. PICK e \in QueryEngines, hits \in 0..MaxRows : \E statement \in QueryMenu[e] :
        asked' = [engine |-> e, statement |-> statement, limit |-> 0, hits |-> hits]
  BY DEF Fill
<1>3. RequestType'
  BY <1>1, <1>2, ExportNumbers, QueryPathAssumption DEF ExportInv, RequestType, eng, stmt
<1>4. ExportTypeOK'
  BY <1>1 DEF ExportInv, ExportTypeOK
<1>5. ReviewInv'
  BY <1>1 DEF ReviewInv
<1>6. FileInv'
  BY <1>1, NoFileYet DEF ExportInv, FileInv
<1> QED
  BY <1>3, <1>4, <1>5, <1>6 DEF ExportInv

\* The statement as it is.
LEMMA AsItIsText ==
  ASSUME stmt \in QueryStatement
  PROVE  [cap |-> AsItIs.cap, good |-> stmt.good, tail |-> FALSE] \in Text
<1>1. AsItIs.cap \in 0..MaxRows
  BY ExportNumbers, FilterType
<1>2. stmt.good \in BOOLEAN
  BY DEF QueryStatement
<1> QED
  BY <1>1, <1>2 DEF Text

LEMMA PreCountKeeps == ExportInv /\ pre_count_check => ExportInv'
<1> SUFFICES ASSUME ExportInv, pre_count_check PROVE ExportInv'
  OBVIOUS
<1>1. CASE Reviewed(TRUE)
  BY <1>1, ReviewedKeeps DEF pre_count_check
<1>2. CASE ~ Reviewed(TRUE)
  <2>1. /\ export = "asked" /\ export' \in {"counting", "limiting"} /\ Checked
        /\ text' = [cap |-> AsItIs.cap, good |-> stmt.good, tail |-> FALSE]
        /\ UNCHANGED <<asked, rejects, limit_num, storage, files, made, savedTo, file_name, download,
                       moves, changed>>
    BY <1>2 DEF pre_count_check, exportTicket, exportFiles, Checked
  <2>2. text' \in Text
    BY <2>1, AsItIsText DEF ExportInv, RequestType, stmt
  <2>3. AsItIs' = AsItIs /\ Checked'
    BY <2>1, SameTicket
  <2>4. ReviewInv'
    BY <2>1, <2>3 DEF ReviewInv
  <2>5. limit_num' \in 0..MaxRows
    BY <2>1 DEF ExportInv, RequestType
  <2> QED
    BY <2>1, <2>2, <2>4, <2>5, ReviewKeeps
<1> QED
  BY <1>1, <1>2

\* The rows are counted by the server.
LEMMA CountKeeps == ExportInv /\ CountRows => ExportInv'
<1> SUFFICES ASSUME ExportInv, CountRows PROVE ExportInv'
  OBVIOUS
<1> DEFINE fault == TooManyRows
<1>1. export = "counting" /\ stmt.head \in {"select", "with"} /\ Reviewed(fault) /\ text.cap = AsItIs.cap
  BY DEF CountRows, ExportInv, ReviewInv
<1>2. ~ fault /\ KeepsAllRows => AllRows <= MaxExportRows
  <2>1. AsItIs.cap \in 0..MaxRows /\ asked.hits \in 0..MaxRows
    BY ExportNumbers, FilterType DEF ExportInv, RequestType, stmt
  <2>2. Rows(text) = AllRows /\ AllRows \in Nat
    BY <1>1, <2>1, ExportNumbers DEF Rows, AllRows, Lesser
  <2>3. KeepsAllRows /\ ~ TooManyRows => ~ (Rows(text) > MaxExportRows)
    <3>1. KeepsAllRows => eng # "odps"
      BY DEF KeepsAllRows
    <3>2. eng # "odps" /\ Rows(text) > MaxExportRows => TooManyRows
      BY DEF TooManyRows
    <3> QED
      BY <3>1, <3>2
  <2>4. MaxExportRows \in Nat
    BY ExportNumbers
  <2> HIDE DEF fault
  <2>5. ~ fault => ~ TooManyRows
    BY DEF fault
  <2> QED
    BY <2>2, <2>3, <2>4, <2>5
<1> HIDE DEF fault
<1> QED
  BY <1>1, <1>2, ReviewedKeeps

\* They are to be read.
LEMMA ReadKeeps == ExportInv /\ ReadRows => ExportInv'
<1> SUFFICES ASSUME ExportInv, ReadRows PROVE ExportInv'
  OBVIOUS
<1> DEFINE good == text.good /\ filter_sql(RowsToRead).good
<1>1. /\ export \in {"counting", "limiting"} /\ export' = "limited" /\ limit_num' = RowsToRead
      /\ UNCHANGED <<asked, rejects, storage, files, made, savedTo, file_name, download, moves, changed>>
  BY DEF ReadRows, exportTicket, exportFiles
<1>2. text' = [cap |-> filter_sql(RowsToRead).cap, good |-> good, tail |-> FALSE]
  BY Zenon DEF ReadRows
<1>3. stmt \in QueryStatement /\ eng \in AllQueryEngines
  BY <1>1, QueryPathAssumption DEF ExportInv, RequestType, stmt
<1>4. filter_sql(RowsToRead) \in [cap : 0..MaxRows, good : BOOLEAN]
  BY <1>3, ExportNumbers, FilterType
<1>5. good \in BOOLEAN
  BY <1>4, Zenon DEF ExportInv, RequestType, Text
<1> HIDE DEF good
<1>6. text' \in Text
  BY <1>2, <1>4, <1>5 DEF Text
<1>7. filter_sql(RowsToRead)' = filter_sql(RowsToRead)
  BY <1>1, SameTicket
<1>8. text'.cap = filter_sql(RowsToRead)'.cap /\ limit_num' = RowsToRead'
  BY <1>1, <1>2, <1>7 DEF RowsToRead
<1>9. ReviewInv'
  BY <1>1, <1>8 DEF ReviewInv
<1> QED
  BY <1>1, <1>6, <1>9, ExportNumbers, ReviewKeeps

\* The rows that were read are counted.
LEMMA CheckRowsKeeps == ExportInv /\ CheckRows => ExportInv'
<1> SUFFICES ASSUME ExportInv, CheckRows PROVE ExportInv'
  OBVIOUS
<1>1. CASE Reviewed(TRUE)
  BY <1>1, ReviewedKeeps DEF CheckRows
<1>2. CASE Reviewed(actual_rows_check > MaxExportRows)
  <2> DEFINE n == Rows(Sent(limit_num))
             fault == actual_rows_check > MaxExportRows
  <2>1. export = "limited" /\ text.cap = filter_sql(RowsToRead).cap /\ limit_num = RowsToRead
    BY DEF CheckRows, ExportInv, ReviewInv
  <2>2. stmt \in QueryStatement /\ eng \in AllQueryEngines /\ asked.hits \in 0..MaxRows /\ FormsFit
    BY <2>1, QueryPathAssumption DEF ExportInv, RequestType, FormsFit, stmt
  <2>3. AsItIs.cap \in 0..MaxRows
    BY <2>2, ExportNumbers, FilterType
  <2>4. ASSUME ~ fault, KeepsAllRows
        PROVE  AllRows <= MaxExportRows
    <3>1. Sent(limit_num).cap \in {AsItIs.cap, Lesser(limit_num, AsItIs.cap)}
      BY <2>1, <2>2, <2>4, ExportNumbers, LimitLeavesOne
    <3>2. n \in Nat /\ AllRows \in Nat /\ (n <= MaxExportRows => AllRows <= MaxExportRows)
      BY <2>1, <2>2, <2>3, <3>1, ExportNumbers DEF Rows, AllRows, Lesser, RowsToRead
    <3>3. limit_num \in Nat /\ limit_num = MaxExportRows + 1
      BY <2>1, ExportNumbers DEF RowsToRead
    <3> HIDE DEF n
    <3>4. Result(n).affected \in {n, Within(n)} /\ Result(n).rows \in 0..(n + 1)
      BY <2>2, <3>2, <3>3, ResultCounts
    <3>5. Within(n) \in Nat /\ (Within(n) = n \/ Within(n) = MaxExportRows + 1)
      BY <3>2, <3>3, ExportNumbers DEF Within, Lesser
    <3>6. actual_rows_check = IF Result(n).affected = 0 THEN Result(n).rows ELSE Result(n).affected
      BY DEF actual_rows_check, n
    <3>7. n <= MaxExportRows
      BY <2>4, <3>2, <3>4, <3>5, <3>6, ExportNumbers
    <3> QED
      BY <3>2, <3>7
  <2> HIDE DEF fault
  <2>5. Reviewed(fault)
    BY <1>2 DEF fault
  <2> QED
    BY <2>1, <2>4, <2>5, ReviewedKeeps
<1> QED
  BY <1>1, <1>2 DEF CheckRows

\* The rows change after the review; what it saw is then not said any more.
LEMMA ChangeKeeps == ExportInv /\ DataChange => ExportInv'
<1> SUFFICES ASSUME ExportInv, DataChange PROVE ExportInv'
  OBVIOUS
<1>1. PICK hits \in (0..MaxRows) \ {asked.hits} : asked' = [asked EXCEPT !.hits = hits]
  BY DEF DataChange
<1>2. /\ export = "submitted" /\ export' = export /\ changed' = TRUE
      /\ UNCHANGED <<text, limit_num, rejects, storage, files, made, savedTo, file_name, download, moves>>
  BY DEF DataChange, exportFiles
<1>3. RequestType'
  BY <1>1, <1>2 DEF ExportInv, RequestType, eng, stmt
<1>4. ExportTypeOK'
  BY <1>2 DEF ExportInv, ExportTypeOK
<1>5. ReviewInv'
  BY <1>2 DEF ReviewInv
<1>6. made = {} /\ (\A p \in Storages : files[p] = {}) /\ ~ file_name /\ download.said \notin {"stream", "url"}
      /\ savedTo = NoPlace
  BY <1>2, NoFileYet DEF ExportInv, FileInv
<1>7. FileInv'
  BY <1>2, <1>6 DEF FileInv
<1> QED
  BY <1>3, <1>4, <1>5, <1>7 DEF ExportInv

\* What the files are, they stay, in every step after the review but the one that makes one.
LEMMA FilesKeep ==
  ASSUME ExportInv, UNCHANGED <<asked, rejects, changed>>
  PROVE  /\ \A f \in made : AllThere(f)'
         /\ \A p \in Storages : \A f \in files[p] : AllThere(f)'
BY SameFile DEF ExportInv, FileInv

\* The end of a step of the run.
LEMMA EndsType ==
  ASSUME ExportInv, export # "new", NEW end, Ends(end)
  PROVE  /\ export' = end /\ UNCHANGED <<asked, rejects, storage, moves, changed>>
         /\ RequestType'
<1>1. /\ export' = end /\ UNCHANGED <<asked, rejects, storage, moves, changed>>
      /\ text' = NoText /\ limit_num' = 0
  BY DEF Ends, Return, exportTicket
<1>2. text' \in Text /\ limit_num' \in 0..MaxRows
  BY <1>1, ExportNumbers DEF NoText, Text, Uncapped
<1> QED
  BY <1>1, <1>2, SameTicket DEF ExportInv, RequestType

LEMMA StorageKeeps == ExportInv /\ DynamicStorage => ExportInv'
<1> SUFFICES ASSUME ExportInv, DynamicStorage PROVE ExportInv'
  OBVIOUS
<1>1. /\ export = "submitted" /\ export' = "executing" /\ savedTo' = storage /\ limit_num' = 0
      /\ text' = [cap |-> AsItIs.cap, good |-> stmt.good, tail |-> FALSE]
      /\ UNCHANGED <<asked, rejects, storage, files, made, file_name, download, moves, changed>>
  BY DEF DynamicStorage, exportTicket
<1>2. /\ made = {} /\ (\A p \in Storages : files[p] = {}) /\ ~ file_name
      /\ download.said \notin {"stream", "url"}
  BY <1>1, NoFileYet
<1>3. text' \in Text
  BY <1>1, AsItIsText DEF ExportInv, RequestType, stmt
<1>4. AsItIs' = AsItIs /\ AllRows' = AllRows /\ KeepsAllRows' = KeepsAllRows
  BY <1>1, SameTicket
<1>5. RequestType'
  BY <1>1, <1>3, ExportNumbers, SameTicket DEF ExportInv, RequestType
<1>6. ExportTypeOK'
  BY <1>1 DEF ExportInv, ExportTypeOK
<1>7. ReviewInv'
  BY <1>1, <1>4 DEF ExportInv, ReviewInv
<1>8. FileInv'
  BY <1>1, <1>2 DEF ExportInv, ExportTypeOK, FileInv
<1> QED
  BY <1>5, <1>6, <1>7, <1>8 DEF ExportInv

LEMMA NoStorageKeeps == ExportInv /\ NoStorage => ExportInv'
<1> SUFFICES ASSUME ExportInv, NoStorage PROVE ExportInv'
  OBVIOUS
<1>1. /\ export = "submitted" /\ export' = "exception" /\ RequestType'
      /\ UNCHANGED <<asked, rejects, storage, moves, changed, files, made, savedTo, file_name, download>>
  BY EndsType DEF NoStorage, exportFiles
<1>2. ExportTypeOK' /\ ReviewInv'
  BY <1>1 DEF ExportInv, ExportTypeOK, ReviewInv
<1>3. FileInv'
  BY <1>1, NoFileYet DEF FileInv
<1> QED
  BY <1>1, <1>2, <1>3 DEF ExportInv

\* No integer of 16 digits is written as a number where a spreadsheet reads it.
LEMMA NothingCut ==
  ASSUME NEW format \in Formats, NEW cell \in Cells, NEW many,
         NEW mark, mark = save_to_format_file(format, cell, many), mark # Fails
  PROVE  /\ NumbersCut(format, cell, mark) \in SUBSET {"long", "decimal"}
         /\ "long" \notin NumbersCut(format, cell, mark)
<1>1. ASSUME "long" \in NumbersCut(format, cell, mark)
      PROVE  FALSE
  <2>1. cell = "long" /\ format \in {"csv", "xlsx"} /\ mark = "number"
    BY <1>1 DEF NumbersCut, Spreadsheets
  <2>2. CASE format = "csv"
    BY <2>1, <2>2 DEF save_to_format_file, save_csv, excel_safe_cell
  <2>3. CASE format = "xlsx"
    BY <2>1, <2>3 DEF save_to_format_file, save_xlsx, Fails
  <2> QED
    BY <2>1, <2>2, <2>3
<1> QED
  BY <1>1 DEF NumbersCut

\* The statement runs and its rows are written into the file.
LEMMA QueryMakes == ExportInv /\ Query => ExportInv'
<1> SUFFICES ASSUME ExportInv, Query PROVE ExportInv'
  OBVIOUS
<1> DEFINE n == Rows(Sent(limit_num))
<1>1. /\ export = "executing" /\ export' = "made" /\ RequestType' /\ Serves(Sent(limit_num))
      /\ UNCHANGED <<asked, rejects, storage, moves, changed, files, savedTo, file_name, download>>
  BY EndsType DEF Query
<1>2. PICK format \in Formats, cell \in Cells :
        LET mark == save_to_format_file(format, cell, Result(n).rows) IN
        /\ mark # Fails
        /\ made' = {[rows |-> Result(n).rows, cut |-> NumbersCut(format, cell, mark)]}
  BY DEF Query
<1> DEFINE cut == NumbersCut(format, cell, save_to_format_file(format, cell, Result(n).rows))
           file == [rows |-> Result(n).rows, cut |-> cut]
<1>3. made' = {file} /\ cut \in SUBSET {"long", "decimal"} /\ "long" \notin cut
  BY <1>2, NothingCut
<1>4. text.cap = AsItIs.cap /\ limit_num = 0 /\ (KeepsAllRows /\ rejects /\ ~ changed => AllRows <= MaxExportRows)
  BY <1>1 DEF ExportInv, ReviewInv
<1>5. stmt \in QueryStatement /\ eng \in AllQueryEngines /\ asked.hits \in 0..MaxRows
  BY <1>1, QueryPathAssumption DEF ExportInv, RequestType, stmt
<1>6. Sent(0).cap \in Nat
  <2>1. AsItIs.cap \in 0..MaxRows
    BY <1>5, ExportNumbers, FilterType
  <2>2. mongo_text(0).cap \in Nat
    BY <2>1, <1>5, ExportNumbers DEF mongo_text, find_cap, aggregate_cap, Bounded, Lesser, Uncapped, QueryStatement
  <2>3. size_text(0).cap \in Nat
    BY <2>1, <1>4, QueryPathAssumption DEF size_text, Bounded, Lesser
  <2> QED
    <3>1. odps_text(0).cap \in Nat
      BY <1>5, ExportNumbers DEF odps_text, odps_cap, Bounded, Uncapped, QueryStatement
    <3> QED
      BY <2>1, <2>2, <2>3, <3>1, <1>4 DEF Sent, Bounded
<1>7. n \in 0..MaxRows
  BY <1>4, <1>5, <1>6, ExportNumbers DEF Rows, Lesser
<1>8. KeepsAllRows => n = AllRows
  BY <1>1, <1>4, <1>5, AllAreSent
<1> HIDE DEF n
<1>9. Result(n).rows = n + Cursor /\ Result(n).rows \in 0..(n + 1) /\ Cursor \in {0, 1}
  BY <1>4, <1>5, <1>7, ResultCounts DEF Cursor
<1> HIDE DEF cut
<1>10. /\ file \in ExportFile /\ file.rows = n + Cursor /\ file.cut = cut
  BY <1>3, <1>7, <1>9, ExportNumbers DEF ExportFile
<1> HIDE DEF file
<1>f. PICK f : f = file
  OBVIOUS
<1>11. AllThere(f)
  BY <1>3, <1>4, <1>7, <1>8, <1>9, <1>10, <1>f, ExportNumbers DEF AllThere
<1>12. AllThere(f)'
  BY <1>1, <1>11, SameFile
<1>13. ExportTypeOK'
  BY <1>1, <1>3, <1>10 DEF ExportInv, ExportTypeOK
<1>14. ReviewInv'
  BY <1>1, <1>4, SameTicket DEF ReviewInv
<1>15. FileInv'
  BY <1>1, <1>3, <1>f, <1>12, FilesKeep DEF ExportInv, FileInv
<1> QED
  BY <1>1, <1>13, <1>14, <1>15 DEF ExportInv

\* The file is stored where the run's storage is.
LEMMA StoreKeeps == ExportInv /\ Store => ExportInv'
<1> SUFFICES ASSUME ExportInv, Store PROVE ExportInv'
  OBVIOUS
<1>1. /\ export = "made" /\ export' = "stored" /\ RequestType' /\ made' = {}
      /\ files' = [files EXCEPT ![savedTo] = made]
      /\ UNCHANGED <<asked, rejects, storage, moves, changed, savedTo, file_name, download>>
  BY EndsType DEF Store
<1>2. /\ savedTo \in Storages /\ made # {} /\ made \subseteq ExportFile
      /\ \A p \in Storages : files[p] = {}
      /\ files \in [Storages -> SUBSET ExportFile] /\ ~ file_name /\ download.said \notin {"stream", "url"}
  BY <1>1 DEF ExportInv, FileInv, ExportTypeOK
<1>3. ExportTypeOK'
  BY <1>1, <1>2 DEF ExportInv, ExportTypeOK
<1>4. ReviewInv'
  BY <1>1, SameTicket DEF ExportInv, ReviewInv
<1>5. FileInv'
  BY <1>1, <1>2, FilesKeep DEF FileInv
<1> QED
  BY <1>1, <1>3, <1>4, <1>5 DEF ExportInv

LEMMA SaveNameKeeps == ExportInv /\ SaveName => ExportInv'
<1> SUFFICES ASSUME ExportInv, SaveName PROVE ExportInv'
  OBVIOUS
<1>1. /\ export = "stored" /\ export' = "finish" /\ RequestType' /\ file_name' = TRUE
      /\ UNCHANGED <<asked, rejects, storage, moves, changed, files, made, savedTo, download>>
  BY EndsType DEF SaveName
<1>2. ExportTypeOK'
  BY <1>1 DEF ExportInv, ExportTypeOK
<1>3. ReviewInv'
  BY <1>1, SameTicket DEF ExportInv, ReviewInv
<1>4. FileInv'
  BY <1>1, FilesKeep DEF ExportInv, FileInv
<1> QED
  BY <1>1, <1>2, <1>3, <1>4 DEF ExportInv

LEMMA RunFailsKeeps == ExportInv /\ RunFails => ExportInv'
<1> SUFFICES ASSUME ExportInv, RunFails PROVE ExportInv'
  OBVIOUS
<1>1. /\ export \in {"executing", "made", "stored"} /\ export' = "exception" /\ RequestType' /\ made' = {}
      /\ UNCHANGED <<asked, rejects, storage, moves, changed, files, savedTo, file_name, download>>
  BY EndsType DEF RunFails
<1>2. ExportTypeOK' /\ ReviewInv'
  BY <1>1 DEF ExportInv, ExportTypeOK, ReviewInv
<1>3. FileInv'
  BY <1>1, FilesKeep DEF ExportInv, FileInv
<1> QED
  BY <1>1, <1>2, <1>3 DEF ExportInv

LEMMA WorkerDiesKeeps == ExportInv /\ WorkerDies => ExportInv'
<1> SUFFICES ASSUME ExportInv, WorkerDies PROVE ExportInv'
  OBVIOUS
<1>1. /\ export \in {"executing", "made", "stored"} /\ export' = "dead" /\ RequestType'
      /\ UNCHANGED <<asked, rejects, storage, moves, changed, files, made, savedTo, file_name, download>>
  BY EndsType DEF WorkerDies, exportFiles
<1>2. ExportTypeOK' /\ ReviewInv'
  BY <1>1 DEF ExportInv, ExportTypeOK, ReviewInv
<1>3. FileInv'
  BY <1>1, FilesKeep DEF ExportInv, FileInv
<1> QED
  BY <1>1, <1>2, <1>3 DEF ExportInv

LEMMA ConfigureKeeps == ExportInv /\ Configure => ExportInv'
<1> SUFFICES ASSUME ExportInv, Configure PROVE ExportInv'
  OBVIOUS
<1>1. /\ export # "new" /\ moves < MaxMoves /\ moves' = moves + 1 /\ storage' \in Storages
      /\ UNCHANGED <<asked, rejects, text, limit_num, export, files, made, savedTo, file_name, download, changed>>
  BY DEF Configure, exportTicket, exportFiles
<1>2. RequestType'
  BY <1>1, SameTicket DEF ExportInv, RequestType
<1>3. ExportTypeOK'
  BY <1>1, ExportAssumption DEF ExportInv, ExportTypeOK
<1>4. ReviewInv'
  BY <1>1, SameTicket DEF ExportInv, ReviewInv, RowsToRead
<1>5. FileInv'
  BY <1>1, FilesKeep DEF ExportInv, FileInv
<1> QED
  BY <1>2, <1>3, <1>4, <1>5 DEF ExportInv

\* What is downloaded is what was saved, or nothing: another storage has no such file.
LEMMA DownloadKeeps == ExportInv /\ DownloadFileView => ExportInv'
<1> SUFFICES ASSUME ExportInv, DownloadFileView PROVE ExportInv'
  OBVIOUS
<1>1. /\ export \in {"finish", "exception", "dead"}
      /\ UNCHANGED <<asked, rejects, text, limit_num, export, storage, files, made, savedTo, file_name,
                     moves, changed>>
  BY DEF DownloadFileView, exportTicket
<1>2. PICK mine \in BOOLEAN, works \in BOOLEAN :
        download' = [said |-> Said(mine, works),
                     from |-> IF Said(mine, works) \in {"stream", "url"} THEN storage ELSE NoPlace]
  BY DEF DownloadFileView
<1> DEFINE said == Said(mine, works)
<1>3. /\ said \in {"refused", "missing", "failed", "stream", "url"}
      /\ said \in {"stream", "url"} => file_name /\ files[storage] # {}
  <2>1. CASE ~ mine \/ ~ file_name
    BY <2>1 DEF Said
  <2>2. CASE mine /\ file_name /\ (~ CanBeMade(storage) \/ ~ works)
    BY <2>2 DEF Said
  <2>3. CASE mine /\ file_name /\ CanBeMade(storage) /\ works
    BY <2>3 DEF Said
  <2> QED
    BY <2>1, <2>2, <2>3
<1> HIDE DEF said
<1>4. /\ download'.said = said /\ download'.from \in Storages \cup {NoPlace}
      /\ download' \in [said : {"none", "refused", "missing", "failed", "stream", "url"},
                        from : Storages \cup {NoPlace}]
      /\ said \in {"stream", "url"} => download'.from = storage
  BY <1>2, <1>3 DEF ExportInv, ExportTypeOK, said
<1>5. said \in {"stream", "url"} => export = "finish" /\ storage = savedTo
  BY <1>3 DEF ExportInv, ExportTypeOK, FileInv
<1>6. RequestType'
  BY <1>1, SameTicket DEF ExportInv, RequestType
<1>7. ExportTypeOK'
  BY <1>1, <1>4 DEF ExportInv, ExportTypeOK
<1>8. ReviewInv'
  BY <1>1, SameTicket DEF ExportInv, ReviewInv
<1>9. FileInv'
  BY <1>1, <1>4, <1>5, FilesKeep DEF ExportInv, FileInv
<1> QED
  BY <1>6, <1>7, <1>8, <1>9 DEF ExportInv

LEMMA ExportStep == ExportInv /\ [ExportNext]_<<queryVars, exportOwnVars>> => ExportInv'
<1> SUFFICES ASSUME ExportInv, [ExportNext]_<<queryVars, exportOwnVars>> PROVE ExportInv'
  OBVIOUS
<1>1. CASE UNCHANGED <<queryVars, exportOwnVars>>
  <2>1. UNCHANGED <<asked, rejects, text, limit_num, export, storage, files, made, savedTo, file_name,
                    download, moves, changed>>
    BY <1>1 DEF queryVars, exportOwnVars
  <2>2. RequestType'
    BY <2>1, SameTicket DEF ExportInv, RequestType
  <2>3. ExportTypeOK'
    BY <2>1 DEF ExportInv, ExportTypeOK
  <2>4. ReviewInv'
    BY <2>1, SameTicket DEF ExportInv, ReviewInv, RowsToRead
  <2>5. FileInv'
    BY <2>1, FilesKeep DEF ExportInv, FileInv
  <2> QED
    BY <2>2, <2>3, <2>4, <2>5 DEF ExportInv
<1> QED
  BY <1>1, FillKeeps, PreCountKeeps, CountKeeps, ReadKeeps, CheckRowsKeeps, ChangeKeeps, StorageKeeps,
     NoStorageKeeps, QueryMakes, StoreKeeps, SaveNameKeeps, RunFailsKeeps, WorkerDiesKeeps, ConfigureKeeps,
     DownloadKeeps DEF ExportNext

\* The file of an export ticket has every row of the reviewed statement, no more than the limit
\* unless they have become more since, and no integer that a spreadsheet cuts; a finished ticket
\* has one, and a download is of that one, wherever the storage has been moved to
\* (offlinedownload.py: pre_count_check, execute_offline_download, DownloadFileView).
THEOREM ExportsAreWhole == ExportSpec => []ExportIsWhole
<1>1. ExportInv => ExportIsWhole
  BY DEF ExportInv, FileInv, AllThere, ExportIsWhole
<1> QED
  BY <1>1, ExportBegins, ExportStep, PTL DEF ExportSpec

-----------------------------------------------------------------------------
(* The SQL of a binlog.                                                    *)

\* Of n things with different ranks from 1 to n, as many as k and n allow have a rank up to k.
LEMMA FirstRanks ==
  ASSUME NEW some, IsFiniteSet(some), NEW r \in [some -> 1..Cardinality(some)],
         \A s, t \in some : r[s] = r[t] => s = t, NEW k \in Nat
  PROVE  Cardinality({s \in some : r[s] <= k}) = IF k <= Cardinality(some) THEN k ELSE Cardinality(some)
<1> DEFINE n == Cardinality(some)
           m == IF k <= n THEN k ELSE n
           T == {s \in some : r[s] <= k}
           g == [s \in T |-> r[s]]
<1>1. n \in Nat
  BY FS_CardinalityType
<1> HIDE DEF n
<1>2. m \in Nat /\ IsFiniteSet(1..m) /\ Cardinality(1..m) = m
  BY <1>1, FS_Interval
<1>3. IsFiniteSet(1..n) /\ Cardinality(1..n) = n
  BY <1>1, FS_Interval
<1>4. r \in Injection(some, 1..n)
  BY DEF Injection, IsInjective, n
<1>5. r \in Surjection(some, 1..n)
  BY <1>3, <1>4, FS_Injection DEF n
<1>6. g \in [T -> 1..m] /\ \A i \in 1..m : \E s \in T : g[s] = i
  <2>1. \A s \in T : r[s] \in 1..m
    BY <1>1 DEF n
  <2>2. ASSUME NEW i \in 1..m
        PROVE  \E s \in T : r[s] = i
    <3>1. i \in 1..n /\ i <= k
      BY <1>1
    <3>2. PICK s \in some : r[s] = i
      BY <1>5, <3>1 DEF Surjection
    <3> QED
      BY <3>1, <3>2
  <2> QED
    BY <2>1, <2>2
<1>7. g \in Bijection(T, 1..m)
  BY <1>6 DEF Bijection, Injection, IsInjective, Surjection
<1>8. IsFiniteSet(T)
  BY FS_Subset
<1>9. Cardinality(1..m) = Cardinality(T)
  BY <1>7, <1>8, FS_Bijection DEF ExistsBijection
<1> QED
  BY <1>2, <1>9 DEF n

\* The order of the files' names, and of the lines in one file.
NotAfter(r, s) == FileOf(r) < FileOf(s) \/ (FileOf(r) = FileOf(s) /\ r <= s)

LEMMA LinesInOrder ==
  ASSUME NEW some \in SUBSET Binlog
  PROVE  /\ \A s \in some : NotAfter(s, s)
         /\ \A r, s \in some : NotAfter(r, s) \/ NotAfter(s, r)
         /\ \A r, s \in some : NotAfter(r, s) /\ NotAfter(s, r) => r = s
         /\ \A r, s, t \in some : NotAfter(r, s) /\ NotAfter(s, t) => NotAfter(r, t)
<1>1. \A s \in some : s \in Nat /\ FileOf(s) \in Nat
  BY My2sqlAssumption DEF FileOf
<1> QED
  BY <1>1 DEF NotAfter

\* A page of rows has as many as are asked for and there are.
LEMMA PageIsFull ==
  ASSUME NEW some \in SUBSET Binlog, Num \in Nat
  PROVE  /\ IsFiniteSet(some) /\ Cardinality(some) \in 0..Cardinality(Binlog)
         /\ collect_sql_rows(some) \subseteq some
         /\ Cardinality(collect_sql_rows(some)) = Min({Num, Cardinality(some)})
<1> DEFINE n == Cardinality(some)
           D(s) == {r \in some : NotAfter(r, s)}
           rank == [s \in some |-> Cardinality(D(s))]
<1>1. IsFiniteSet(some) /\ n \in Nat /\ n <= Cardinality(Binlog) /\ Cardinality(Binlog) \in Nat
  BY My2sqlAssumption, FS_Subset, FS_CardinalityType
<1>2. ASSUME NEW s \in some
      PROVE  IsFiniteSet(D(s)) /\ Cardinality(D(s)) \in 1..n
  <2>1. D(s) \in SUBSET some /\ s \in D(s)
    BY LinesInOrder
  <2>2. IsFiniteSet(D(s)) /\ Cardinality(D(s)) <= n
    BY <1>1, <2>1, FS_Subset
  <2>3. Cardinality(D(s)) \in Nat /\ Cardinality(D(s)) # 0
    BY <2>1, <2>2, FS_CardinalityType, FS_EmptySet
  <2> QED
    BY <1>1, <2>2, <2>3
<1>3. rank \in [some -> 1..n]
  BY <1>2
<1>4. ASSUME NEW s \in some, NEW t \in some, Cardinality(D(s)) = Cardinality(D(t)), NotAfter(s, t)
      PROVE  s = t
  <2>1. D(s) \in SUBSET D(t)
    BY <1>4, LinesInOrder
  <2>2. D(s) = D(t)
    BY <1>2, <1>4, <2>1, FS_Subset
  <2>3. t \in D(s)
    BY <2>2, LinesInOrder
  <2> QED
    BY <1>4, <2>3, LinesInOrder
<1>5. \A s, t \in some : rank[s] = rank[t] => s = t
  BY <1>4, LinesInOrder
<1>6. collect_sql_rows(some) = {s \in some : rank[s] <= Num}
  BY DEF collect_sql_rows, NotAfter
<1> HIDE DEF rank, n
<1>7. Cardinality({s \in some : rank[s] <= Num}) = IF Num <= n THEN Num ELSE n
  BY <1>1, <1>3, <1>5, FirstRanks DEF n
<1>8. Min({Num, n}) = IF Num <= n THEN Num ELSE n
  BY <1>1 DEF Min
<1> QED
  BY <1>1, <1>6, <1>7, <1>8 DEF n

\* my2sql has written all, from its good end on; what is said of a success rests on that.
WrittenInv ==
  /\ output \subseteq wanted
  /\ exit = "ok" => output = wanted
  /\ parse \in {"ended", "answered", "done"} => exit # "none"
  /\ parse = "new" => ~ opts.save_sql /\ output = {} /\ exit = "none" /\ task.state = "none"
  /\ parse = "queued" => exit = "none"
  /\ parse = "answered" =>
       shownRows \subseteq wanted /\ Cardinality(shownRows) = Min({Num, Cardinality(wanted)})
  /\ task.state = "success" => task.count = Cardinality(wanted) /\ exit = "ok" /\ opts.save_sql /\ parse = "done"
  /\ notified = "failure" => parse = "done" /\ exit \notin {"ok", "none"}

ToldInv ==
  /\ parse = "new" => told.state = "none"
  /\ told.state \in {"success", "failure"} => Owns(told.to)
  /\ told.state = "success" => told.count = Cardinality(wanted)

\* What a download that writes the zip still has to add.
Adding(l) ==
  /\ zip.exists /\ ~ zip.closed /\ exit = "ok" /\ Owns(l.by) /\ l.left \subseteq Files
  /\ zip.has = {s \in output : FileOf(s) \notin l.left}

ZipInv ==
  /\ parse = "new" => ~ zip.exists /\ \A d \in Downloads : loads[d] = NoLoad
  /\ \A d \in Downloads : loads[d].pc = "zipping" => Adding(loads[d])
  /\ \A d, e \in Downloads : loads[d].pc = "zipping" /\ loads[e].pc = "zipping" => d = e
  /\ zip.closed => zip.exists /\ exit = "ok" /\ (zips = 0 => zip.has = wanted)
  /\ \A d \in Downloads : loads[d].pc = "got" => Owns(loads[d].by) /\ (zips = 0 => loads[d].got = wanted)
  /\ \A d \in Downloads : loads[d].pc \in {"zipping", "got"} => exit = "ok"

BinlogInv == My2sqlTypeOK /\ WrittenInv /\ ToldInv /\ ZipInv

LEMMA BinlogBegins == My2sqlInit => BinlogInv
<1> SUFFICES ASSUME My2sqlInit PROVE BinlogInv
  OBVIOUS
<1>1. Cardinality(Binlog) \in Nat /\ MaxZips \in Nat
  BY My2sqlAssumption, FS_CardinalityType
<1>2. My2sqlTypeOK
  BY <1>1 DEF My2sqlInit, My2sqlTypeOK, NoOptions, Options, NoTask, NotTold, NoZip, NoLoad
<1>3. WrittenInv
  BY DEF My2sqlInit, WrittenInv, NoOptions, NoTask
<1>4. ToldInv /\ ZipInv
  BY DEF My2sqlInit, ToldInv, ZipInv, NotTold, NoZip, NoLoad
<1> QED
  BY <1>2, <1>3, <1>4 DEF BinlogInv

\* As long as the request is the same, so are its owners and its files.
LEMMA SameBinlog ==
  ASSUME UNCHANGED <<opts, submitter>>
  PROVE  /\ \A u : Owns(u)' = Owns(u)
         /\ \A s : FileOf(s)' = FileOf(s)
         /\ Num' = Num
         /\ output' = output => Files' = Files
<1>1. \A s : FileOf(s)' = FileOf(s)
  BY DEF FileOf
<1> QED
  BY <1>1 DEF Owns, Num, Files

\* The zip and the downloads, when the page is not asked for the file.
LEMMA SameZip ==
  ASSUME BinlogInv, UNCHANGED <<opts, submitter, wanted, zip, loads, zips>>,
         parse' # "new", exit = "ok" => exit' = "ok" /\ output' = output
  PROVE  ZipInv'
<1>1. \A d \in Downloads : loads[d].pc = "zipping" => exit = "ok" /\ (Adding(loads[d]) => Adding(loads[d])')
  BY SameBinlog DEF BinlogInv, ZipInv, Adding
<1> QED
  BY <1>1, SameBinlog DEF BinlogInv, ZipInv

\* So with what was told.
LEMMA SameTold ==
  ASSUME BinlogInv, UNCHANGED <<opts, submitter, wanted, told>>, parse' # "new"
  PROVE  ToldInv'
BY SameBinlog DEF BinlogInv, ToldInv

LEMMA PostKeeps == BinlogInv /\ (\E u \in Viewers : Post(u)) => BinlogInv'
<1> SUFFICES ASSUME BinlogInv, NEW u \in Viewers, Post(u) PROVE BinlogInv'
  OBVIOUS
<1>1. /\ parse = "new" /\ opts' \in Options /\ submitter' = u /\ wanted' \in SUBSET Binlog
      /\ parse' \in {"refused", "queued", "running"}
      /\ UNCHANGED <<output, exit, shownRows, task, told, notified, zip, loads, zips>>
  BY DEF Post, taskVars, fileVars
<1>2. /\ output = {} /\ exit = "none" /\ told.state = "none" /\ ~ zip.exists /\ ~ zip.closed
      /\ task.state # "success" /\ notified # "failure" /\ \A d \in Downloads : loads[d] = NoLoad
  BY <1>1 DEF BinlogInv, WrittenInv, ToldInv, ZipInv
<1>3. My2sqlTypeOK'
  BY <1>1 DEF BinlogInv, My2sqlTypeOK
<1>4. WrittenInv' /\ ToldInv'
  BY <1>1, <1>2 DEF WrittenInv, ToldInv
<1>5. ZipInv'
  BY <1>1, <1>2 DEF ZipInv, NoLoad
<1> QED
  BY <1>3, <1>4, <1>5 DEF BinlogInv

\* The run of my2sql, up to its end.
LEMMA RunKeepsSql == BinlogInv /\ (CannotRun \/ TaskBegins \/ Write \/ Exit \/ ParserDies) => BinlogInv'
<1> SUFFICES ASSUME BinlogInv, CannotRun \/ TaskBegins \/ Write \/ Exit \/ ParserDies PROVE BinlogInv'
  OBVIOUS
<1>1. /\ parse \in {"queued", "running", "ended"} /\ parse' \in {"ended", "refused", "running", "lost"}
      /\ UNCHANGED <<opts, submitter, wanted, shownRows, task, told, notified, zip, loads, zips>>
  BY DEF CannotRun, TaskBegins, Write, Exit, ParserDies, taskVars, fileVars
<1>2. task.state # "success" /\ notified # "failure"
  BY <1>1 DEF BinlogInv, WrittenInv
<1>3. ToldInv'
  BY <1>1, SameTold
<1>4. /\ output' \subseteq wanted /\ exit' \in {"none", "ok", "fatal", "error", "warned", "late"}
      /\ exit' = "ok" => output' = wanted
      /\ exit = "ok" => exit' = "ok" /\ output' = output
      /\ parse' = "ended" => exit' # "none"
  <2>1. CASE CannotRun
    BY <2>1 DEF BinlogInv, WrittenInv, My2sqlTypeOK, CannotRun
  <2>2. CASE TaskBegins \/ ParserDies
    BY <2>2 DEF BinlogInv, WrittenInv, My2sqlTypeOK, TaskBegins, ParserDies
  <2>3. CASE Write
    BY <2>3 DEF BinlogInv, WrittenInv, My2sqlTypeOK, Write
  <2>4. CASE Exit
    BY <2>4 DEF BinlogInv, WrittenInv, My2sqlTypeOK, Exit
  <2> QED
    BY <2>1, <2>2, <2>3, <2>4
<1>5. My2sqlTypeOK'
  BY <1>1, <1>4 DEF BinlogInv, My2sqlTypeOK
<1>6. WrittenInv'
  BY <1>1, <1>2, <1>4 DEF WrittenInv
<1>7. ZipInv'
  BY <1>1, <1>4, SameZip
<1> QED
  BY <1>3, <1>5, <1>6, <1>7 DEF BinlogInv

\* The end of it is told: by a page, by the row of the task, or by a notice.
LEMMA EndKeepsSql == BinlogInv /\ (ShowRows \/ my2sql_execute \/ notify_for_my2sql \/ TaskCleared) => BinlogInv'
<1> SUFFICES ASSUME BinlogInv, ShowRows \/ my2sql_execute \/ notify_for_my2sql \/ TaskCleared PROVE BinlogInv'
  OBVIOUS
<1>0. /\ Num \in Nat /\ wanted \subseteq Binlog
      /\ output \subseteq Binlog /\ Cardinality(output) \in 0..Cardinality(Binlog)
      /\ 0 \in 0..Cardinality(Binlog)
  <2>1. Num \in Nat /\ wanted \subseteq Binlog /\ output \subseteq Binlog
    BY My2sqlAssumption DEF Num, BinlogInv, My2sqlTypeOK, Options
  <2>2. Cardinality(Binlog) \in Nat
    BY My2sqlAssumption, FS_CardinalityType
  <2>3. output \in SUBSET Binlog
    BY <2>1
  <2>4. Cardinality(output) \in 0..Cardinality(Binlog)
    BY <2>1, <2>3, PageIsFull
  <2> QED
    BY <2>1, <2>2, <2>4
<1>1. /\ UNCHANGED <<opts, submitter, wanted, exit, told, zip, loads, zips>> /\ parse' # "new"
      /\ output' \subseteq output /\ (exit = "ok" => output' = output)
  <2>1. remove_sql_files => output' \subseteq output
    BY DEF remove_sql_files
  <2>2. CASE ShowRows
    BY <2>1, <2>2 DEF ShowRows, taskVars, fileVars, Failed, is_failure
  <2>3. CASE my2sql_execute
    BY <2>1, <2>3 DEF my2sql_execute, fileVars, Failed, is_failure
  <2>4. CASE notify_for_my2sql
    BY <2>4 DEF notify_for_my2sql, fileVars
  <2>5. CASE TaskCleared
    BY <2>5 DEF TaskCleared, fileVars, BinlogInv, WrittenInv, My2sqlTypeOK
  <2> QED
    BY <2>2, <2>3, <2>4, <2>5
<1>2. ToldInv' /\ ZipInv'
  BY <1>1, SameTold, SameZip
<1>3. exit # "none" /\ ~ Failed => exit = "ok"
  BY DEF Failed, is_failure, BinlogInv, My2sqlTypeOK
<1>4. Num' = Num
  BY <1>1, SameBinlog
<1>5. exit = "ok" => output = wanted
  BY DEF BinlogInv, WrittenInv
<1>6. My2sqlTypeOK' /\ WrittenInv'
  <2>1. CASE ShowRows
    <3>1. /\ parse = "ended" /\ parse' \in {"refused", "answered"} /\ exit # "none"
          /\ UNCHANGED <<task, notified>>
          /\ parse' = "answered" => exit = "ok" /\ shownRows' = collect_sql_rows(wanted)
          /\ parse' = "refused" => shownRows' = shownRows
      BY <2>1, <1>3, <1>5 DEF ShowRows, taskVars, BinlogInv, WrittenInv
    <3>2. collect_sql_rows(wanted) \subseteq wanted
          /\ Cardinality(collect_sql_rows(wanted)) = Min({Num, Cardinality(wanted)})
      BY <1>0, PageIsFull
    <3>3. My2sqlTypeOK'
      BY <1>0, <1>1, <3>1, <3>2 DEF BinlogInv, My2sqlTypeOK
    <3>4. WrittenInv'
      BY <1>1, <1>4, <1>5, <3>1, <3>2 DEF BinlogInv, WrittenInv
    <3> QED
      BY <3>3, <3>4
  <2>2. CASE my2sql_execute
    <3>1. /\ parse = "ended" /\ parse' = "done" /\ opts.save_sql /\ exit # "none"
          /\ UNCHANGED <<shownRows, notified>>
          /\ \/ task' = [state |-> "failure", count |-> 0]
             \/ task' = [state |-> "success", count |-> Cardinality(output)] /\ exit = "ok"
      BY <2>2, <1>3 DEF my2sql_execute, BinlogInv, WrittenInv
    <3>2. My2sqlTypeOK'
      BY <1>0, <1>1, <3>1 DEF BinlogInv, My2sqlTypeOK
    <3>3. WrittenInv'
      BY <1>1, <1>4, <1>5, <3>1 DEF BinlogInv, WrittenInv
    <3> QED
      BY <3>2, <3>3
  <2>3. CASE notify_for_my2sql
    <3>1. /\ parse = "done" /\ UNCHANGED <<parse, output, shownRows, task>>
          /\ notified' \in {"failure", "success"} /\ (notified' = "failure" => exit # "ok")
      BY <2>3 DEF notify_for_my2sql, Failed, is_failure
    <3> QED
      BY <1>1, <1>4, <3>1 DEF BinlogInv, WrittenInv, My2sqlTypeOK
  <2>4. CASE TaskCleared
    <3>1. UNCHANGED <<parse, output, shownRows, notified>> /\ task' = [state |-> "cleared", count |-> 0]
      BY <2>4 DEF TaskCleared
    <3> QED
      BY <1>0, <1>1, <1>4, <3>1 DEF BinlogInv, WrittenInv, My2sqlTypeOK
  <2> QED
    BY <2>1, <2>2, <2>3, <2>4
<1> QED
  BY <1>2, <1>6 DEF BinlogInv

\* The page is told the state of the task, by whom it may be told.
LEMMA StateKeepsSql == BinlogInv /\ (\E u \in Viewers : TaskState(u)) => BinlogInv'
<1> SUFFICES ASSUME BinlogInv, NEW u \in Viewers, TaskState(u) PROVE BinlogInv'
  OBVIOUS
<1>1. /\ UNCHANGED <<parse, opts, submitter, wanted, output, exit, shownRows, task, notified, zip, loads, zips>>
      /\ opts.save_sql
      /\ \/ told' = [state |-> "queued", count |-> 0, to |-> u]
         \/ told' = [state |-> "refused", count |-> 0, to |-> u]
         \/ Owns(u) /\ told' = [state |-> task.state, count |-> task.count, to |-> u]
  BY DEF TaskState, fileVars
<1>2. parse # "new"
  BY <1>1 DEF BinlogInv, WrittenInv
<1>3. My2sqlTypeOK' /\ WrittenInv'
  BY <1>1, SameBinlog DEF BinlogInv, My2sqlTypeOK, WrittenInv
<1>4. ToldInv'
  BY <1>1, <1>2, SameBinlog DEF BinlogInv, WrittenInv, ToldInv
<1>5. ZipInv'
  BY <1>1, <1>2, SameZip
<1> QED
  BY <1>3, <1>4, <1>5 DEF BinlogInv

\* A step of a download changes nothing else.
LEMMA LoadChanges ==
  ASSUME BinlogInv, parse # "new",
         UNCHANGED <<parse, opts, submitter, wanted, output, exit, shownRows, task, told, notified>>,
         ZipInv', zips' \in 0..MaxZips,
         zip' \in [exists : BOOLEAN, has : SUBSET Binlog, closed : BOOLEAN],
         loads' \in [Downloads -> [pc : {"idle", "zipping", "none", "got", "spoilt"},
                                   by : Viewers \cup {NoViewer}, left : SUBSET BinlogTables, got : SUBSET Binlog]]
  PROVE  BinlogInv'
<1>1. My2sqlTypeOK' /\ WrittenInv'
  BY SameBinlog DEF BinlogInv, My2sqlTypeOK, WrittenInv
<1>2. ToldInv'
  BY SameTold
<1> QED
  BY <1>1, <1>2 DEF BinlogInv

\* The record of a download.
OneLoad == [pc : {"idle", "zipping", "none", "got", "spoilt"}, by : Viewers \cup {NoViewer},
            left : SUBSET BinlogTables, got : SUBSET Binlog]

\* Two of its fields are replaced.
LEMMA LoadGot ==
  ASSUME NEW r \in OneLoad, NEW pc, NEW got, NEW q, q = [r EXCEPT !.pc = pc, !.got = got]
  PROVE  q = [pc |-> pc, by |-> r.by, left |-> r.left, got |-> got]
<1>1. q = [x \in {"pc", "by", "left", "got"} |-> q[x]]
  BY DEF OneLoad
<1>2. q.pc = pc /\ q.got = got /\ q.by = r.by /\ q.left = r.left
  BY DEF OneLoad
<1>3. q = [pc |-> q.pc, by |-> q.by, left |-> q.left, got |-> q.got]
  BY <1>1
<1> QED
  BY <1>2, <1>3

LEMMA LoadZips ==
  ASSUME NEW r \in OneLoad, NEW pc, NEW left, NEW q, q = [r EXCEPT !.pc = pc, !.left = left]
  PROVE  q = [pc |-> pc, by |-> r.by, left |-> left, got |-> r.got]
<1>1. q = [x \in {"pc", "by", "left", "got"} |-> q[x]]
  BY DEF OneLoad
<1>2. q.pc = pc /\ q.left = left /\ q.by = r.by /\ q.got = r.got
  BY DEF OneLoad
<1>3. q = [pc |-> q.pc, by |-> q.by, left |-> q.left, got |-> q.got]
  BY <1>1
<1> QED
  BY <1>2, <1>3

LEMMA LoadLeaves ==
  ASSUME NEW r \in OneLoad, NEW left, NEW q, q = [r EXCEPT !.left = left]
  PROVE  q = [pc |-> r.pc, by |-> r.by, left |-> left, got |-> r.got]
<1>1. q = [x \in {"pc", "by", "left", "got"} |-> q[x]]
  BY DEF OneLoad
<1>2. q.left = left /\ q.pc = r.pc /\ q.by = r.by /\ q.got = r.got
  BY DEF OneLoad
<1>3. q = [pc |-> q.pc, by |-> q.by, left |-> q.left, got |-> q.got]
  BY <1>1
<1> QED
  BY <1>2, <1>3

LEMMA LoadEnded ==
  ASSUME loads \in [Downloads -> OneLoad], NEW d \in Downloads, NEW pc, NEW got, LoadEnds(d, pc, got)
  PROVE  loads' = [loads EXCEPT ![d] = [pc |-> pc, by |-> loads[d].by, left |-> loads[d].left, got |-> got]]
<1>1. loads[d] \in OneLoad
  OBVIOUS
<1>2. loads' = [loads EXCEPT ![d] = [loads[d] EXCEPT !.pc = pc, !.got = got]]
  BY Zenon DEF LoadEnds
<1>3. [loads[d] EXCEPT !.pc = pc, !.got = got] = [pc |-> pc, by |-> loads[d].by, left |-> loads[d].left, got |-> got]
  BY <1>1, LoadGot, Zenon
<1> QED
  BY <1>2, <1>3, Zenon

\* The types of the zip and of one download's record, field by field.
LEMMA TypedLoads ==
  ASSUME zip \in [exists : BOOLEAN, has : SUBSET Binlog, closed : BOOLEAN],
         loads \in [Downloads -> [pc : {"idle", "zipping", "none", "got", "spoilt"},
                                  by : Viewers \cup {NoViewer}, left : SUBSET BinlogTables, got : SUBSET Binlog]],
         NEW d \in Downloads, NEW pc \in {"idle", "zipping", "none", "got", "spoilt"},
         NEW left \in SUBSET BinlogTables, NEW got \in SUBSET Binlog,
         NEW has \in SUBSET Binlog, NEW closed \in BOOLEAN,
         zip' = [exists |-> zip.exists, has |-> has, closed |-> closed],
         loads' = [loads EXCEPT ![d] = [pc |-> pc, by |-> loads[d].by, left |-> left, got |-> got]]
  PROVE  /\ zip' \in [exists : BOOLEAN, has : SUBSET Binlog, closed : BOOLEAN]
         /\ loads' \in [Downloads -> [pc : {"idle", "zipping", "none", "got", "spoilt"},
                         by : Viewers \cup {NoViewer}, left : SUBSET BinlogTables, got : SUBSET Binlog]]
  OBVIOUS

\* Several files are those of tables.
LEMMA SeveralFiles ==
  ASSUME output \in SUBSET Binlog, Files # {}, Cardinality(Files) # 1
  PROVE  Files \subseteq BinlogTables
<1>1. CASE opts.file_per_table
  BY <1>1 DEF Files, FileOf, BinlogTables
<1>2. CASE ~ opts.file_per_table
  <2>1. Files = {0}
    BY <1>2 DEF Files, FileOf
  <2> QED
    BY <2>1, FS_Singleton
<1> QED
  BY <1>1, <1>2

LEMMA DownloadsKeepSql == BinlogInv /\ (\E d \in Downloads : \E u \in Viewers : Download(d, u)) => BinlogInv'
<1> SUFFICES ASSUME BinlogInv, NEW d \in Downloads, NEW u \in Viewers, Download(d, u) PROVE BinlogInv'
  OBVIOUS
<1> DEFINE asks == [NoLoad EXCEPT !.by = u]
<1>0. /\ [asks EXCEPT !.pc = "none"] = [pc |-> "none", by |-> u, left |-> {}, got |-> {}]
      /\ [asks EXCEPT !.pc = "zipping", !.left = Files] = [pc |-> "zipping", by |-> u, left |-> Files, got |-> {}]
      /\ \A pc, got : [asks EXCEPT !.pc = pc, !.got = got] = [pc |-> pc, by |-> u, left |-> {}, got |-> got]
  <2>1. asks = [pc |-> "idle", by |-> u, left |-> {}, got |-> {}]
    BY DEF NoLoad
  <2> HIDE DEF asks
  <2>2. [asks EXCEPT !.pc = "none"] = [pc |-> "none", by |-> u, left |-> {}, got |-> {}]
    BY <2>1
  <2>5. asks \in OneLoad /\ asks.by = u /\ asks.left = {} /\ asks.got = {}
    BY <2>1 DEF OneLoad
  <2>3. [asks EXCEPT !.pc = "zipping", !.left = Files] = [pc |-> "zipping", by |-> u, left |-> Files, got |-> {}]
    <3>1. [asks EXCEPT !.pc = "zipping", !.left = Files]
          = [pc |-> "zipping", by |-> asks.by, left |-> Files, got |-> asks.got]
      BY <2>5, LoadZips, Zenon
    <3> QED
      BY <2>5, <3>1, Zenon
  <2>4. ASSUME NEW pc, NEW got
        PROVE  [asks EXCEPT !.pc = pc, !.got = got] = [pc |-> pc, by |-> u, left |-> {}, got |-> got]
    <3>1. [asks EXCEPT !.pc = pc, !.got = got] = [pc |-> pc, by |-> asks.by, left |-> asks.left, got |-> got]
      BY <2>5, LoadGot, Zenon
    <3> QED
      BY <2>5, <3>1, Zenon
  <2> QED
    BY <2>2, <2>3, <2>4
<1>1. /\ UNCHANGED <<parse, opts, submitter, wanted, output, exit, shownRows, task, told, notified, zips>>
      /\ opts.save_sql /\ loads[d].pc = "idle"
  BY DEF Download, taskVars
<1>2. /\ parse # "new" /\ output \in SUBSET Binlog /\ zips \in 0..MaxZips
      /\ zip \in [exists : BOOLEAN, has : SUBSET Binlog, closed : BOOLEAN]
      /\ loads \in [Downloads -> [pc : {"idle", "zipping", "none", "got", "spoilt"},
                                  by : Viewers \cup {NoViewer}, left : SUBSET BinlogTables, got : SUBSET Binlog]]
  BY <1>1 DEF BinlogInv, WrittenInv, My2sqlTypeOK
<1> DEFINE MayLoad == task.state = "success" /\ Owns(u) /\ Files # {}
           Gets(pc, left, got) == loads' = [loads EXCEPT ![d] = [pc |-> pc, by |-> u, left |-> left, got |-> got]]
<1>3. \/ Gets("none", {}, {}) /\ zip' = zip
      \/ MayLoad /\ Gets("got", {}, output) /\ zip' = zip
      \/ MayLoad /\ zip.closed /\ Gets("got", {}, zip.has) /\ zip' = zip
      \/ Gets("spoilt", {}, {}) /\ zip' = zip
      \/ /\ MayLoad /\ Cardinality(Files) # 1 /\ ~ zip.exists /\ Gets("zipping", Files, {})
         /\ zip' = [exists |-> TRUE, has |-> {}, closed |-> FALSE]
  <2>1. CASE ~ MayLoad
    <3>1. loads' = [loads EXCEPT ![d] = [asks EXCEPT !.pc = "none"]] /\ zip' = zip
      BY <2>1, Zenon DEF Download
    <3> HIDE DEF asks
    <3> QED
      BY <1>0, <2>1, <3>1
  <2>2. CASE MayLoad /\ Cardinality(Files) = 1
    <3>1. loads' = [loads EXCEPT ![d] = [asks EXCEPT !.pc = "got", !.got = output]] /\ zip' = zip
      BY <2>2, Zenon DEF Download
    <3> HIDE DEF asks
    <3> QED
      BY <1>0, <2>2, <3>1
  <2>3. CASE MayLoad /\ Cardinality(Files) # 1 /\ zip.exists
    <3>1. /\ loads' = [loads EXCEPT ![d] = [asks EXCEPT !.pc = IF zip.closed THEN "got" ELSE "spoilt",
                                                       !.got = IF zip.closed THEN zip.has ELSE {}]]
          /\ zip' = zip
      BY <2>3, Zenon DEF Download
    <3> HIDE DEF asks
    <3> QED
      BY <1>0, <2>3, <3>1
  <2>4. CASE MayLoad /\ Cardinality(Files) # 1 /\ ~ zip.exists
    <3>1. /\ loads' = [loads EXCEPT ![d] = [asks EXCEPT !.pc = "zipping", !.left = Files]]
          /\ zip' = [exists |-> TRUE, has |-> {}, closed |-> FALSE]
      BY <2>4, Zenon DEF Download
    <3> HIDE DEF asks
    <3> QED
      BY <1>0, <2>4, <3>1
  <2> QED
    BY <2>1, <2>2, <2>3, <2>4
<1>4. /\ \A v : Owns(v)' = Owns(v)
      /\ Files' = Files /\ \A s : FileOf(s)' = FileOf(s)
  BY <1>1, SameBinlog
<1>5. MayLoad => exit = "ok" /\ output = wanted
  BY DEF BinlogInv, WrittenInv
<1>6. ZipInv
  BY DEF BinlogInv
<1> HIDE DEF MayLoad
<1>7. ASSUME NEW pc \in {"none", "got", "spoilt"}, NEW got \in SUBSET Binlog, Gets(pc, {}, got), zip' = zip,
             pc = "got" => Owns(u) /\ exit = "ok" /\ (zips = 0 => got = wanted)
      PROVE  BinlogInv'
  <2>1. loads'[d] = [pc |-> pc, by |-> u, left |-> {}, got |-> got] /\ \A e \in Downloads \ {d} : loads'[e] = loads[e]
    BY <1>2, <1>7
  <2>2. \A e \in Downloads : loads'[e].pc = "zipping" => e # d /\ loads'[e] = loads[e]
    BY <1>2, <1>7, <2>1
  <2>3. \A e \in Downloads \ {d} : loads[e].pc = "zipping" => Adding(loads[e])'
    BY <1>1, <1>4, <1>6, <1>7, <2>1 DEF ZipInv, Adding
  <2>4. ZipInv'
    BY <1>1, <1>2, <1>4, <1>6, <1>7, <2>1, <2>2, <2>3 DEF ZipInv
  <2> QED
    BY <1>1, <1>2, <1>7, <2>4, LoadChanges
<1>8. CASE /\ MayLoad /\ Cardinality(Files) # 1 /\ ~ zip.exists /\ Gets("zipping", Files, {})
           /\ zip' = [exists |-> TRUE, has |-> {}, closed |-> FALSE]
  <2>1. /\ loads'[d] = [pc |-> "zipping", by |-> u, left |-> Files, got |-> {}]
        /\ \A e \in Downloads \ {d} : loads'[e] = loads[e] /\ loads[e].pc # "zipping"
    BY <1>2, <1>6, <1>8 DEF ZipInv, Adding
  <2>2. Files \subseteq BinlogTables
    BY <1>2, <1>8, SeveralFiles DEF MayLoad
  <2>3. Adding(loads[d])'
    BY <1>1, <1>4, <1>5, <1>8, <2>1 DEF Adding, MayLoad, Files
  <2>4. ZipInv'
    BY <1>1, <1>2, <1>4, <1>5, <1>6, <1>8, <2>1, <2>3 DEF ZipInv
  <2> QED
    BY <1>1, <1>2, <1>8, <2>2, <2>4, LoadChanges
<1>9. MayLoad => Owns(u)
  BY DEF MayLoad
<1>10. zip.has \in SUBSET Binlog /\ (zip.closed => (zips = 0 => zip.has = wanted))
  BY <1>2, <1>6 DEF ZipInv
<1> QED
  BY <1>2, <1>3, <1>5, <1>7, <1>8, <1>9, <1>10

\* The zip is written, file by file, and closed.
LEMMA AddingKeepsSql == BinlogInv /\ (\E d \in Downloads : AddFile(d)) => BinlogInv'
<1> SUFFICES ASSUME BinlogInv, NEW d \in Downloads, AddFile(d) PROVE BinlogInv'
  OBVIOUS
<1>1. /\ UNCHANGED <<parse, opts, submitter, wanted, output, exit, shownRows, task, told, notified, zips>>
      /\ loads[d].pc = "zipping"
  BY DEF AddFile, taskVars
<1>2. /\ output \in SUBSET Binlog /\ zips \in 0..MaxZips
      /\ zip \in [exists : BOOLEAN, has : SUBSET Binlog, closed : BOOLEAN]
      /\ loads \in [Downloads -> [pc : {"idle", "zipping", "none", "got", "spoilt"},
                                  by : Viewers \cup {NoViewer}, left : SUBSET BinlogTables, got : SUBSET Binlog]]
      /\ ZipInv /\ (exit = "ok" => output = wanted)
  BY DEF BinlogInv, WrittenInv, My2sqlTypeOK
<1>3. /\ Adding(loads[d]) /\ exit = "ok" /\ output = wanted
      /\ \A e \in Downloads \ {d} : loads[e].pc # "zipping"
      /\ parse # "new"
  <2>1. Adding(loads[d])
    BY <1>1, <1>2 DEF ZipInv
  <2> QED
    BY <1>1, <1>2, <2>1 DEF ZipInv, Adding, NoLoad
<1>4. /\ \A v : Owns(v)' = Owns(v)
      /\ Files' = Files /\ \A s : FileOf(s)' = FileOf(s)
  BY <1>1, SameBinlog
<1>5. CASE loads[d].left = {}
  <2>1. /\ zip' = [zip EXCEPT !.closed = TRUE]
        /\ loads' = [loads EXCEPT ![d] = [@ EXCEPT !.pc = "got", !.got = zip.has]]
    BY <1>5 DEF AddFile, LoadEnds
  <2>2. zip.has = wanted
    BY <1>3, <1>5 DEF Adding
  <2>3. /\ loads'[d].pc = "got" /\ loads'[d].got = wanted /\ loads'[d].by = loads[d].by
        /\ \A e \in Downloads \ {d} : loads'[e] = loads[e]
        /\ zip'.exists = zip.exists /\ zip'.closed /\ zip'.has = zip.has
    BY <1>2, <2>1, <2>2
  <2>4. ZipInv'
    BY <1>1, <1>2, <1>3, <1>4, <2>2, <2>3 DEF ZipInv, Adding
  <2>5. /\ zip' \in [exists : BOOLEAN, has : SUBSET Binlog, closed : BOOLEAN]
        /\ loads' \in [Downloads -> [pc : {"idle", "zipping", "none", "got", "spoilt"},
                        by : Viewers \cup {NoViewer}, left : SUBSET BinlogTables, got : SUBSET Binlog]]
    <3>1. zip' = [exists |-> zip.exists, has |-> zip.has, closed |-> TRUE]
      BY <1>2, <2>1
    <3>2. loads' = [loads EXCEPT ![d] = [pc |-> "got", by |-> loads[d].by, left |-> loads[d].left, got |-> zip.has]]
      BY <1>2, <1>5, LoadEnded DEF AddFile, OneLoad
    <3>3. zip.has \in SUBSET Binlog /\ loads[d].left \in SUBSET BinlogTables
      BY <1>2
    <3> QED
      BY <1>2, <3>1, <3>2, <3>3, TypedLoads
  <2> QED
    BY <1>1, <1>2, <1>3, <2>4, <2>5, LoadChanges
<1>6. CASE loads[d].left # {}
  <2>1. PICK f \in loads[d].left :
          /\ zip' = [zip EXCEPT !.has = @ \cup {s \in output : FileOf(s) = f}]
          /\ loads' = [loads EXCEPT ![d].left = @ \ {f}]
    BY <1>6 DEF AddFile
  <2>2. /\ loads'[d].pc = "zipping" /\ loads'[d].left = loads[d].left \ {f} /\ loads'[d].by = loads[d].by
        /\ \A e \in Downloads \ {d} : loads'[e] = loads[e]
        /\ zip'.exists = zip.exists /\ zip'.closed = zip.closed
        /\ zip'.has = zip.has \cup {s \in output : FileOf(s) = f}
    BY <1>1, <1>2, <2>1
  <2>3. zip'.has = {s \in output : FileOf(s) \notin loads[d].left \ {f}}
    BY <1>3, <2>1, <2>2 DEF Adding
  <2>4. Adding(loads[d])'
    BY <1>1, <1>3, <1>4, <2>2, <2>3 DEF Adding
  <2>5. ZipInv'
    BY <1>1, <1>2, <1>3, <1>4, <2>2, <2>4 DEF ZipInv, Adding
  <2>6. /\ zip' \in [exists : BOOLEAN, has : SUBSET Binlog, closed : BOOLEAN]
        /\ loads' \in [Downloads -> [pc : {"idle", "zipping", "none", "got", "spoilt"},
                        by : Viewers \cup {NoViewer}, left : SUBSET BinlogTables, got : SUBSET Binlog]]
    <3> DEFINE more == {s \in output : FileOf(s) = f}
    <3>1. zip' = [exists |-> zip.exists, has |-> zip.has \cup more, closed |-> zip.closed]
      BY <1>2, <2>1
    <3>2. loads' = [loads EXCEPT ![d] = [pc |-> loads[d].pc, by |-> loads[d].by, left |-> loads[d].left \ {f},
                                         got |-> loads[d].got]]
      <4>1. [loads[d] EXCEPT !.left = loads[d].left \ {f}]
            = [pc |-> loads[d].pc, by |-> loads[d].by, left |-> loads[d].left \ {f}, got |-> loads[d].got]
        <5>1. loads[d] \in OneLoad
          BY <1>2 DEF OneLoad
        <5> QED
          BY <5>1, LoadLeaves, Zenon
      <4>2. loads' = [loads EXCEPT ![d] = [loads[d] EXCEPT !.left = loads[d].left \ {f}]]
        BY <2>1, Zenon
      <4> QED
        BY <4>1, <4>2, Zenon
    <3>3. /\ zip.has \cup more \in SUBSET Binlog /\ loads[d].left \ {f} \in SUBSET BinlogTables
          /\ loads[d].got \in SUBSET Binlog /\ loads[d].pc \in {"idle", "zipping", "none", "got", "spoilt"}
          /\ zip.closed \in BOOLEAN
      BY <1>2
    <3> HIDE DEF more
    <3> QED
      BY <1>2, <3>1, <3>2, <3>3, TypedLoads
  <2> QED
    BY <1>1, <1>2, <1>3, <2>5, <2>6, LoadChanges
<1> QED
  BY <1>5, <1>6

\* The zip breaks off: nothing is said of the next downloads' content.
LEMMA BreakingKeepsSql == BinlogInv /\ (\E d \in Downloads : ZipBreaks(d)) => BinlogInv'
<1> SUFFICES ASSUME BinlogInv, NEW d \in Downloads, ZipBreaks(d) PROVE BinlogInv'
  OBVIOUS
<1>1. /\ UNCHANGED <<parse, opts, submitter, wanted, output, exit, shownRows, task, told, notified>>
      /\ loads[d].pc = "zipping" /\ zips < MaxZips /\ zips' = zips + 1
      /\ zip' \in {zip, [zip EXCEPT !.closed = TRUE]}
      /\ loads' = [loads EXCEPT ![d] = [@ EXCEPT !.pc = "none", !.got = {}]]
  BY DEF ZipBreaks, LoadEnds, taskVars
<1>2. /\ zips \in 0..MaxZips /\ MaxZips \in Nat
      /\ zip \in [exists : BOOLEAN, has : SUBSET Binlog, closed : BOOLEAN]
      /\ loads \in [Downloads -> [pc : {"idle", "zipping", "none", "got", "spoilt"},
                                  by : Viewers \cup {NoViewer}, left : SUBSET BinlogTables, got : SUBSET Binlog]]
      /\ ZipInv
  BY My2sqlAssumption DEF BinlogInv, My2sqlTypeOK
<1>3. /\ zip.exists /\ exit = "ok" /\ parse # "new"
      /\ \A e \in Downloads \ {d} : loads[e].pc # "zipping"
  BY <1>1, <1>2 DEF ZipInv, Adding, NoLoad
<1>4. \A v : Owns(v)' = Owns(v)
  BY <1>1, SameBinlog
<1>5. /\ loads'[d].pc = "none" /\ \A e \in Downloads \ {d} : loads'[e] = loads[e]
      /\ zip'.exists /\ zips' \in 1..MaxZips
  BY <1>1, <1>2, <1>3
<1>6. ZipInv'
  BY <1>1, <1>2, <1>3, <1>4, <1>5 DEF ZipInv
<1>7. /\ zip' \in [exists : BOOLEAN, has : SUBSET Binlog, closed : BOOLEAN]
      /\ loads' \in [Downloads -> [pc : {"idle", "zipping", "none", "got", "spoilt"},
                      by : Viewers \cup {NoViewer}, left : SUBSET BinlogTables, got : SUBSET Binlog]]
  <2>1. PICK closed \in BOOLEAN : zip' = [exists |-> zip.exists, has |-> zip.has, closed |-> closed]
    <3>1. CASE zip' = zip
      BY <1>2, <3>1
    <3>2. CASE zip' = [zip EXCEPT !.closed = TRUE]
      BY <1>2, <3>2
    <3> QED
      BY <1>1, <3>1, <3>2
  <2>2. loads' = [loads EXCEPT ![d] = [pc |-> "none", by |-> loads[d].by, left |-> loads[d].left, got |-> {}]]
    BY <1>2, LoadEnded DEF ZipBreaks, OneLoad
  <2>3. zip.has \in SUBSET Binlog /\ loads[d].left \in SUBSET BinlogTables
    BY <1>2
  <2> QED
    BY <1>2, <2>1, <2>2, <2>3, TypedLoads
<1>8. zips' \in 0..MaxZips
  BY <1>5
<1> QED
  BY <1>1, <1>3, <1>6, <1>7, <1>8, LoadChanges

LEMMA BinlogStep == BinlogInv /\ [My2sqlNext]_my2sqlVars => BinlogInv'
<1> SUFFICES ASSUME BinlogInv, [My2sqlNext]_my2sqlVars PROVE BinlogInv'
  OBVIOUS
<1>1. CASE UNCHANGED my2sqlVars
  <2>1. UNCHANGED <<parse, opts, submitter, wanted, output, exit, shownRows, task, told, notified, zip, loads, zips>>
    BY <1>1 DEF my2sqlVars
  <2>2. \A l : Adding(l)' = Adding(l)
    BY <2>1, SameBinlog DEF Adding
  <2> QED
    BY <2>1, <2>2, SameBinlog DEF BinlogInv, My2sqlTypeOK, WrittenInv, ToldInv, ZipInv
<1> QED
  BY <1>1, PostKeeps, RunKeepsSql, EndKeepsSql, StateKeepsSql, DownloadsKeepSql, AddingKeepsSql, BreakingKeepsSql
     DEF My2sqlNext

\* SQL of a binlog that was cut off is nowhere taken for all of it: a page has as many rows as are
\* asked for and there are, a success is counted whole, and a download is whole and its owner's,
\* unless a zip broke off (api_misc.py and plugins/my2sql.py).
THEOREM SqlIsNotCut == My2sqlSpec => []SqlIsWhole
<1>1. BinlogInv => SqlIsWhole
  BY DEF BinlogInv, WrittenInv, ToldInv, ZipInv, SqlIsWhole
<1> QED
  BY <1>1, BinlogBegins, BinlogStep, PTL DEF My2sqlSpec


-----------------------------------------------------------------------------
(* The management of the server.                                           *)

AccountKinds == {"reset", "lock", "unlock", "delete", "grant", "revoke"}

\* What a request is about, and what it has left to do there.
Shape(w) ==
  /\ w.kind = "create" => /\ w.about \subseteq Accounts /\ w.todo \subseteq w.about /\ w.pwd \in Passwords
                          /\ dbType = "mongo" => \A a, b \in w.about : a = b
  /\ w.kind \in AccountKinds => w.acct \in Accounts /\ w.about = {w.acct}
  /\ w.kind \in {"reset", "lock", "unlock", "delete"} => w.todo \subseteq {w.acct}
  /\ w.kind = "reset" => w.pwd \in Passwords
  /\ w.kind \in {"grant", "revoke"} => w.asked \subseteq Scopes /\ w.todo \subseteq w.asked
  /\ w.kind = "revoke" => dbType # "mongo"
  /\ w.kind = "database" => /\ w.about \subseteq Databases /\ w.todo \subseteq w.about /\ w.owner \in Owners
                            /\ \A a, b \in w.about : a = b
  /\ w.kind = "param" => "param" \in w.about /\ w.todo \subseteq {"param"}
  /\ w.kind = "nothing" => w.todo = {}

\* What it has left is what the server has not done.
Progress(w) ==
  /\ w.kind = "create" => \A a \in w.about \ w.todo : users[a].pwd = w.pwd
  /\ w.kind \in {"reset", "lock", "unlock", "delete"} /\ w.acct \notin w.todo =>
       /\ w.kind = "reset"  => users[w.acct].pwd = w.pwd
       /\ w.kind = "lock"   => users[w.acct].locked
       /\ w.kind = "unlock" => ~ users[w.acct].locked
       /\ w.kind = "delete" => ~ there(w.acct)
  /\ w.kind = "grant"    => w.asked \ w.todo \subseteq users[w.acct].privs
  /\ w.kind = "revoke"   => (w.asked \ w.todo) \cap users[w.acct].privs = {}
  /\ w.kind = "database" => w.about \ w.todo \subseteq databases
  /\ w.kind = "param" /\ w.todo = {} => runtime = Plain[w.new] \/ dbType = "pgsql"

\* The rows of one that was answered with success.
Stored(w) ==
  /\ w.kind \in {"create", "reset"} =>
       \A a \in w.about : passwords[a].there /\ (~ Misspelt(w) => passwords[a].pwd = w.pwd)
  /\ w.kind = "delete"   => (w.all => ~ passwords[w.acct].there)
  /\ w.kind = "database" => \A d \in w.about : owners[d] = w.owner

\* One request, as long as nobody else is or was about the same.
Fine(v) ==
  /\ visits[v].alone \/ Open(v) => Shape(visits[v])
  /\ Open(v) => ~ visits[v].ok
  /\ visits[v].pc = "store" \/ visits[v].ok => visits[v].todo = {}
  /\ visits[v].alone /\ (Open(v) \/ visits[v].ok) => Progress(visits[v])
  /\ visits[v].alone /\ visits[v].ok => Stored(visits[v])

\* Nobody works on what another is alone with.
Apart == \A u, v \in Visits : u # v /\ visits[v].alone /\ Open(u) => visits[u].about \cap visits[v].about = {}

Alters(v) == Open(v) /\ visits[v].kind = "param"
Recording(v) == Alters(v) /\ visits[v].pc = "store"
LastIs(s) == Len(history) # 0 => Plain[history[Len(history)].new] = s

\* The history of the parameter, with the one change of it that may be under way.
ParamInv ==
  dbType # "pgsql" /\ ~ crossed =>
    /\ \A u, v \in Visits : Alters(u) /\ Alters(v) => u = v
    /\ Plain[runtime] = runtime
    /\ \A i \in 1..(Len(history) - 1) : Plain[history[i].new] = history[i + 1].old
    /\ \A v \in Visits : Alters(v) /\ visits[v].pc = "server" => visits[v].old = runtime
    /\ \A v \in Visits : Recording(v) => runtime = Plain[visits[v].new] /\ LastIs(visits[v].old)
    /\ (\A v \in Visits : ~ Recording(v)) => LastIs(runtime)

AdminInv ==
  /\ InstanceTypeOK
  /\ \A v \in Visits : Fine(v)
  /\ Apart
  /\ ParamInv

\* A request is the same but for who else is about its things.
Same(w, z) ==
  /\ w.kind = z.kind /\ w.pc = z.pc /\ w.about = z.about /\ w.todo = z.todo /\ w.acct = z.acct
  /\ w.asked = z.asked /\ w.pwd = z.pwd /\ w.all = z.all /\ w.owner = z.owner
  /\ w.old = z.old /\ w.new = z.new /\ w.ok = z.ok

\* The things a request is about stay as they are.
Untouched(w) ==
  /\ \A a \in w.about \cap Accounts : users'[a] = users[a] /\ passwords'[a] = passwords[a]
  /\ \A d \in w.about \cap Databases : owners'[d] = owners[d]
  /\ databases \subseteq databases'
  /\ "param" \in w.about /\ dbType # "pgsql" => runtime' = runtime

LEMMA SameVisits == ASSUME NEW w, NEW z, Same(w, z), dbType' = dbType PROVE Shape(w) => Shape(z)'
  BY DEF Same, Shape

LEMMA UntouchedVisits ==
  ASSUME NEW w, NEW z, Same(w, z), dbType' = dbType, Shape(w), Untouched(w)
  PROVE  (Progress(w) => Progress(z)') /\ (Stored(w) => Stored(z)')
<1>1. w.kind \in AccountKinds => users'[w.acct] = users[w.acct] /\ passwords'[w.acct] = passwords[w.acct]
  BY DEF Shape, Untouched
<1>2. w.kind = "create" => \A a \in w.about : users'[a] = users[a] /\ passwords'[a] = passwords[a]
  BY DEF Shape, Untouched
<1>3. w.kind = "database" => databases \subseteq databases' /\ \A d \in w.about : owners'[d] = owners[d]
  BY DEF Shape, Untouched
<1>4. w.kind = "param" => dbType = "pgsql" \/ runtime' = runtime
  BY DEF Shape, Untouched
<1>5. ASSUME Progress(w) PROVE Progress(z)'
  <2>1. z.kind = "create" => \A a \in z.about \ z.todo : users'[a].pwd = z.pwd
    BY <1>2, <1>5 DEF Progress, Same
  <2>2. z.kind \in {"reset", "lock", "unlock", "delete"} /\ z.acct \notin z.todo =>
          /\ z.kind = "reset"  => users'[z.acct].pwd = z.pwd
          /\ z.kind = "lock"   => users'[z.acct].locked
          /\ z.kind = "unlock" => ~ users'[z.acct].locked
          /\ z.kind = "delete" => ~ there(z.acct)'
    BY <1>1, <1>5 DEF Progress, Same, AccountKinds, there
  <2>3. /\ z.kind = "grant"  => z.asked \ z.todo \subseteq users'[z.acct].privs
        /\ z.kind = "revoke" => (z.asked \ z.todo) \cap users'[z.acct].privs = {}
    BY <1>1, <1>5 DEF Progress, Same, AccountKinds
  <2>4. /\ z.kind = "database" => z.about \ z.todo \subseteq databases'
        /\ z.kind = "param" /\ z.todo = {} => runtime' = Plain[z.new] \/ dbType' = "pgsql"
    BY <1>3, <1>4, <1>5 DEF Progress, Same
  <2> QED
    BY <2>1, <2>2, <2>3, <2>4 DEF Progress
<1>6. ASSUME Stored(w) PROVE Stored(z)'
  BY <1>1, <1>2, <1>3, <1>6 DEF Stored, Misspelt, Same, Shape, AccountKinds
<1> QED
  BY <1>5, <1>6

\* A request that nobody disturbs stays fine, and one that is disturbed is not alone.
LEMMA FineElsewhere ==
  ASSUME NEW u, Fine(u), Same(visits[u], visits'[u]), dbType' = dbType,
         visits'[u].alone => visits[u].alone /\ Untouched(visits[u])
  PROVE  Fine(u)'
<1>1. PICK w : w = visits[u]
  OBVIOUS
<1>2. PICK z : z = visits'[u]
  OBVIOUS
<1>3. /\ Same(w, z) /\ (z.alone => w.alone /\ Untouched(w))
      /\ w.alone \/ w.pc # "ended" => Shape(w)
      /\ w.pc # "ended" => ~ w.ok
      /\ w.pc = "store" \/ w.ok => w.todo = {}
      /\ w.alone /\ (w.pc # "ended" \/ w.ok) => Progress(w)
      /\ w.alone /\ w.ok => Stored(w)
  BY <1>1, <1>2 DEF Fine, Open
<1>4. z.pc = w.pc /\ z.ok = w.ok /\ z.todo = w.todo
  BY <1>3 DEF Same
<1>5. /\ z.alone \/ z.pc # "ended" => Shape(z)'
      /\ z.alone /\ (z.pc # "ended" \/ z.ok) => Progress(z)'
      /\ z.alone /\ z.ok => Stored(z)'
  BY <1>3, <1>4, SameVisits, UntouchedVisits
<1> HIDE DEF Shape, Progress, Stored
<1> QED
  BY <1>2, <1>3, <1>4, <1>5 DEF Fine, Open

\* A change of who is alone changes nothing else.
LEMMA SetAlone ==
  ASSUME NEW n \in Visit, NEW b \in BOOLEAN, NEW m, m = [n EXCEPT !.alone = b]
  PROVE  m \in Visit /\ Same(n, m) /\ m.alone = b
  BY DEF Visit, Same

LEMMA SameIsSame == ASSUME NEW w PROVE Same(w, w)
  BY DEF Same

LEMMA ParamFrame ==
  ASSUME ParamInv, UNCHANGED <<dbType, runtime, history, crossed>>,
         \A u \in Visits : Alters(u)' = Alters(u) /\ (Alters(u) => Same(visits[u], visits'[u]))
  PROVE  ParamInv'
<1>1. \A u \in Visits : Alters(u) => /\ visits'[u].pc = visits[u].pc /\ visits'[u].old = visits[u].old
                                      /\ visits'[u].new = visits[u].new
  BY DEF Same
<1>2. \A u \in Visits : Recording(u)' <=> Recording(u)
  BY <1>1 DEF Recording
<1>3. \A s : LastIs(s)' = LastIs(s)
  BY DEF LastIs
<1> HIDE DEF Alters, Recording, LastIs
<1>4. SUFFICES ASSUME dbType # "pgsql", ~ crossed
               PROVE  /\ \A u, v \in Visits : Alters(u)' /\ Alters(v)' => u = v
                      /\ Plain[runtime'] = runtime'
                      /\ \A i \in 1..(Len(history') - 1) : Plain[history'[i].new] = history'[i + 1].old
                      /\ \A v \in Visits : Alters(v)' /\ visits'[v].pc = "server" => visits'[v].old = runtime'
                      /\ \A v \in Visits : Recording(v)' => runtime' = Plain[visits'[v].new] /\ LastIs(visits[v].old)'
                      /\ (\A v \in Visits : ~ Recording(v)') => LastIs(runtime)'
  BY DEF ParamInv
<1>5. \A v \in Visits : Recording(v) => Alters(v)
  BY DEF Recording
<1>6. \A v \in Visits : Recording(v)' => runtime' = Plain[visits'[v].new] /\ LastIs(visits[v].old)'
  <2> SUFFICES ASSUME NEW v \in Visits, Recording(v)
               PROVE  runtime' = Plain[visits'[v].new] /\ LastIs(visits[v].old)'
    BY <1>2
  <2>1. PICK s : s = visits[v].old
    OBVIOUS
  <2>2. visits'[v].old = s /\ visits'[v].new = visits[v].new
    BY <1>1, <1>5, <2>1
  <2>3. LastIs(s) /\ runtime = Plain[visits[v].new]
    BY <1>4, <2>1 DEF ParamInv
  <2>4. LastIs(s)'
    BY <1>3, <2>3
  <2>5. LastIs(visits[v].old)'
    BY <2>2, <2>4 DEF LastIs
  <2> QED
    BY <2>2, <2>3, <2>5
<1>7. (\A v \in Visits : ~ Recording(v)') => LastIs(runtime)'
  <2>1. (\A v \in Visits : ~ Recording(v)) => LastIs(runtime)
    BY <1>4 DEF ParamInv
  <2> QED
    BY <1>2, <2>1 DEF LastIs
<1>8. /\ \A u, v \in Visits : Alters(u)' /\ Alters(v)' => u = v
      /\ Plain[runtime'] = runtime'
      /\ \A i \in 1..(Len(history') - 1) : Plain[history'[i].new] = history'[i + 1].old
      /\ \A v \in Visits : Alters(v)' /\ visits'[v].pc = "server" => visits'[v].old = runtime'
  BY <1>1, <1>4 DEF ParamInv
<1> QED
  BY <1>6, <1>7, <1>8

\* A request begins.
LEMMA EnterKeeps ==
  ASSUME AdminInv, NEW v \in Visits, NEW n \in Visit, Enter(v, n),
         n.pc = "server", ~ n.ok, Shape(n), Progress(n), n.kind = "param" => n.old = runtime
  PROVE  AdminInv'
<1>1. PICK alone \in BOOLEAN :
        /\ alone <=> \A u \in Visits : Open(u) => ~ Meets(u, n.about)
        /\ visits' = [u \in Visits |->
             IF u = v THEN [n EXCEPT !.alone = alone]
             ELSE IF Meets(u, n.about) THEN [visits[u] EXCEPT !.alone = FALSE] ELSE visits[u]]
        /\ crossed' = (crossed \/ (n.kind = "param" /\ ~ alone))
  <2> DEFINE al == \A u \in Visits : Open(u) => ~ Meets(u, n.about)
  <2>1. /\ visits' = [u \in Visits |->
             IF u = v THEN [n EXCEPT !.alone = al]
             ELSE IF Meets(u, n.about) THEN [visits[u] EXCEPT !.alone = FALSE] ELSE visits[u]]
        /\ crossed' = (crossed \/ (n.kind = "param" /\ ~ al))
    BY Zenon DEF Enter
  <2>2. al \in BOOLEAN
    BY Zenon
  <2> WITNESS al \in BOOLEAN
  <2> QED
    BY <2>1, Zenon
<1>2. /\ ~ Open(v) /\ begun < MaxVisits /\ begun' = begun + 1
      /\ UNCHANGED <<dbType, users, databases, runtime, pending, passwords, owners, history, cuts>>
  BY DEF Enter, server, stored
<1>3. /\ InstanceTypeOK /\ visits \in [Visits -> Visit] /\ Apart /\ ParamInv
      /\ \A u \in Visits : Fine(u)
  BY DEF AdminInv, InstanceTypeOK
<1>4. PICK m : m = [n EXCEPT !.alone = alone]
  OBVIOUS
<1>5. m \in Visit /\ Same(n, m) /\ m.alone = alone /\ visits'[v] = m
  BY <1>1, <1>4, SetAlone
<1>6. \A u \in Visits \ {v} : /\ visits'[u] \in Visit /\ Same(visits[u], visits'[u])
                              /\ visits'[u].alone => visits[u].alone /\ ~ Meets(u, n.about)
  <2> SUFFICES ASSUME NEW u \in Visits \ {v}
               PROVE  /\ visits'[u] \in Visit /\ Same(visits[u], visits'[u])
                      /\ visits'[u].alone => visits[u].alone /\ ~ Meets(u, n.about)
    OBVIOUS
  <2>1. PICK w \in Visit : w = visits[u]
    BY <1>3
  <2>2. CASE Meets(u, n.about)
    <3>1. PICK z : z = [w EXCEPT !.alone = FALSE]
      OBVIOUS
    <3>2. visits'[u] = z
      BY <1>1, <2>1, <2>2, <3>1
    <3> QED
      BY <2>1, <3>1, <3>2, SetAlone
  <2>3. CASE ~ Meets(u, n.about)
    <3>1. visits'[u] = visits[u]
      BY <1>1, <2>3
    <3> QED
      BY <2>1, <2>3, <3>1, SameIsSame
  <2> QED
    BY <2>2, <2>3
<1>7. InstanceTypeOK'
  <2>1. visits' \in [Visits -> Visit]
    BY <1>1, <1>5, <1>6
  <2>2. crossed' \in BOOLEAN
    BY <1>1, <1>3 DEF InstanceTypeOK
  <2>3. begun' \in 0..MaxVisits
    BY <1>2, <1>3, InstanceAssumption DEF InstanceTypeOK
  <2> QED
    BY <1>2, <1>3, <2>1, <2>2, <2>3 DEF InstanceTypeOK
<1>8. ASSUME NEW u \in Visits PROVE Fine(u)'
  <2>1. CASE u # v
    <3>1. Untouched(visits[u])
      BY <1>2 DEF Untouched
    <3> QED
      BY <1>2, <1>3, <1>6, <2>1, <3>1, FineElsewhere
  <2>2. CASE u = v
    <3>1. Untouched(n)
      BY <1>2 DEF Untouched
    <3>2. Shape(m)' /\ Progress(m)'
      BY <1>2, <1>5, <3>1, SameVisits, UntouchedVisits
    <3>3. m.pc = "server" /\ ~ m.ok
      BY <1>5 DEF Same
    <3> HIDE DEF Shape, Progress
    <3> QED
      BY <1>5, <2>2, <3>2, <3>3 DEF Fine, Open
  <2> QED
    BY <2>1, <2>2
<1>9. Apart'
  <2> SUFFICES ASSUME NEW u \in Visits, NEW w \in Visits, u # w, visits'[w].alone, visits'[u].pc # "ended"
               PROVE  visits'[u].about \cap visits'[w].about = {}
    BY DEF Apart, Open
  <2>1. CASE w = v
    <3>1. visits'[w].about = n.about /\ visits'[u].about = visits[u].about /\ visits[u].pc # "ended"
      BY <1>5, <1>6, <2>1 DEF Same
    <3>2. alone
      BY <1>5, <2>1
    <3>3. ~ Meets(u, n.about)
      BY <1>1, <3>1, <3>2 DEF Open
    <3> QED
      BY <3>1, <3>3 DEF Meets
  <2>2. CASE u = v
    <3>1. visits'[u].about = n.about /\ visits'[w].about = visits[w].about
      BY <1>5, <1>6, <2>2 DEF Same
    <3>2. ~ Meets(w, n.about)
      BY <1>6, <2>2
    <3> QED
      BY <3>1, <3>2 DEF Meets
  <2>3. CASE u # v /\ w # v
    BY <1>3, <1>6, <2>3 DEF Apart, Same, Open
  <2> QED
    BY <2>1, <2>2, <2>3
<1>10. ParamInv'
  <2>1. \A u \in Visits \ {v} : Alters(u)' = Alters(u)
    BY <1>6 DEF Alters, Same, Open
  <2>2. ~ Alters(v) /\ ~ Recording(v)' /\ (Alters(v)' => n.kind = "param")
    BY <1>2, <1>5 DEF Alters, Recording, Same, Open
  <2>3. CASE n.kind # "param"
    <3>1. crossed' = crossed
      BY <1>1, <1>3, <2>3 DEF InstanceTypeOK
    <3>2. \A u \in Visits : Alters(u)' = Alters(u)
      BY <2>1, <2>2, <2>3 DEF Alters
    <3>3. \A u \in Visits : Alters(u) => Same(visits[u], visits'[u])
      BY <1>6, <2>2
    <3> QED
      BY <1>2, <1>3, <3>1, <3>2, <3>3, ParamFrame
  <2>4. CASE n.kind = "param"
    <3> SUFFICES ASSUME dbType # "pgsql", ~ crossed, alone PROVE ParamInv'
      BY <1>1, <1>2, <2>4 DEF ParamInv
    <3>1. \A u \in Visits : ~ Alters(u)
      <4> SUFFICES ASSUME NEW u \in Visits, Alters(u) PROVE FALSE
        OBVIOUS
      <4>1. "param" \in visits[u].about /\ "param" \in n.about
        BY <1>3, <2>4 DEF Fine, Shape, Alters
      <4> QED
        BY <1>1, <4>1 DEF Meets, Alters
    <3>2. \A u \in Visits : Alters(u)' => u = v
      BY <2>1, <3>1
    <3>3. \A u \in Visits : ~ Recording(u)'
      BY <2>2, <3>2 DEF Recording
    <3>4. \A u \in Visits : ~ Recording(u)
      BY <3>1 DEF Recording
    <3>5. visits'[v].old = runtime
      BY <1>5, <2>4 DEF Same
    <3>6. LastIs(runtime)'
      BY <1>2, <1>3, <3>4 DEF ParamInv, LastIs
    <3>7. /\ Plain[runtime] = runtime
          /\ \A i \in 1..(Len(history) - 1) : Plain[history[i].new] = history[i + 1].old
      BY <1>3 DEF ParamInv
    <3> HIDE DEF Alters, Recording, LastIs
    <3>8. /\ \A u, w \in Visits : Alters(u)' /\ Alters(w)' => u = w
          /\ Plain[runtime'] = runtime'
          /\ \A i \in 1..(Len(history') - 1) : Plain[history'[i].new] = history'[i + 1].old
          /\ \A u \in Visits : Alters(u)' /\ visits'[u].pc = "server" => visits'[u].old = runtime'
      BY <1>2, <3>2, <3>5, <3>7
    <3> QED
      BY <3>3, <3>6, <3>8 DEF ParamInv
  <2> QED
    BY <2>3, <2>4
<1> QED
  BY <1>7, <1>8, <1>9, <1>10 DEF AdminInv

VisitFields == {"kind", "pc", "about", "todo", "acct", "asked", "pwd", "all", "owner", "old", "new", "ok", "alone"}

\* The fields of a new request.
Fresh(n, kind, about, todo) ==
  /\ n = [x \in VisitFields |-> n[x]]
  /\ n.kind = kind /\ n.pc = "server" /\ n.about = about /\ n.todo = todo
  /\ n.acct = NoAccount /\ n.asked = {} /\ n.pwd = NoPassword /\ n.all = FALSE /\ n.owner = NoOwner
  /\ n.old = runtime /\ n.new = runtime /\ n.ok = FALSE /\ n.alone = FALSE

LEMMA NewFields ==
  ASSUME NEW kind, NEW about, NEW todo
  PROVE  \A n : n = New(kind, about, todo) => Fresh(n, kind, about, todo)
<1> SUFFICES ASSUME NEW n, n = New(kind, about, todo) PROVE Fresh(n, kind, about, todo)
  OBVIOUS
<1>1. PICK b : b = Blank(runtime)
  OBVIOUS
<1>2. /\ b = [x \in VisitFields |-> b[x]]
      /\ b.kind = "lock" /\ b.pc = "ended" /\ b.about = {} /\ b.todo = {} /\ b.acct = NoAccount
      /\ b.asked = {} /\ b.pwd = NoPassword /\ b.all = FALSE /\ b.owner = NoOwner
      /\ b.old = runtime /\ b.new = runtime /\ b.ok = FALSE /\ b.alone = FALSE
  BY <1>1 DEF Blank, VisitFields
<1>3. n = [b EXCEPT !.kind = kind, !.pc = "server", !.about = about, !.todo = todo]
  BY <1>1, Zenon DEF New
<1>4. n = [x \in VisitFields |-> n[x]]
  BY <1>2, <1>3 DEF VisitFields
<1> QED
  BY <1>2, <1>3, <1>4 DEF VisitFields, Fresh

LEMMA VisitTyped ==
  ASSUME NEW n, n = [x \in VisitFields |-> n[x]],
         n.kind \in {"create", "grant", "revoke", "reset", "lock", "unlock", "nothing", "delete", "database", "param"},
         n.pc \in {"server", "store", "ended"}, n.about \in SUBSET (Accounts \cup Databases \cup {"param"}),
         n.todo \in SUBSET (Accounts \cup Scopes \cup Databases \cup {"param"}),
         n.acct \in Accounts \cup {NoAccount}, n.asked \in SUBSET Scopes, n.pwd \in Passwords \cup {NoPassword},
         n.all \in BOOLEAN, n.owner \in Owners \cup {NoOwner}, n.old \in Settings, n.new \in Settings,
         n.ok \in BOOLEAN, n.alone \in BOOLEAN
  PROVE  n \in Visit
<1>1. n = [kind |-> n.kind, pc |-> n.pc, about |-> n.about, todo |-> n.todo, acct |-> n.acct, asked |-> n.asked,
           pwd |-> n.pwd, all |-> n.all, owner |-> n.owner, old |-> n.old, new |-> n.new, ok |-> n.ok,
           alone |-> n.alone]
  BY DEF VisitFields
<1> QED
  BY <1>1 DEF Visit

LEMMA CreatesBegin == ASSUME AdminInv, NEW v \in Visits, AccountCreateView(v) PROVE AdminInv'
<1>1. PICK as \in SUBSET Accounts, p \in Passwords :
        (dbType = "mongo" => Cardinality(as) = 1) /\ Enter(v, [New("create", as, as) EXCEPT !.pwd = p])
  BY DEF AccountCreateView
<1>2. PICK r : r = New("create", as, as)
  OBVIOUS
<1>3. PICK n : n = [r EXCEPT !.pwd = p]
  OBVIOUS
<1>4. Fresh(r, "create", as, as)
  BY <1>2, NewFields
<1>5. /\ n = [x \in VisitFields |-> n[x]]
      /\ n.kind = "create" /\ n.pc = "server" /\ n.about = as /\ n.todo = as
      /\ n.acct = NoAccount /\ n.asked = {} /\ n.pwd = p /\ n.all = FALSE /\ n.owner = NoOwner
      /\ n.old = runtime /\ n.new = runtime /\ n.ok = FALSE /\ n.alone = FALSE
  BY <1>3, <1>4 DEF VisitFields, Fresh
<1>6. n \in Visit
  BY <1>5, VisitTyped DEF AdminInv, InstanceTypeOK
<1>7. dbType = "mongo" => \A a, b \in as : a = b
  <2>1. IsFiniteSet(as)
    BY FS_Subset, InstanceAssumption
  <2> QED
    <3>1. ASSUME Cardinality(as) = 1 PROVE \A a, b \in as : a = b
      <4>1. PICK x : as = {x}
        BY <2>1, <3>1, FS_Singleton, Zenon
      <4> QED
        BY <4>1
    <3> QED
      BY <1>1, <3>1
<1>8. Shape(n) /\ Progress(n)
  BY <1>5, <1>7 DEF Shape, Progress, AccountKinds
<1>9. Enter(v, n)
  BY <1>1, <1>2, <1>3
<1> QED
  BY <1>5, <1>6, <1>8, <1>9, EnterKeeps

\* A request of an operation that is not known has nothing to do.
LEMMA OthersBegin == ASSUME AdminInv, NEW v \in Visits, OtherOperation(v) PROVE AdminInv'
<1>1. PICK n : n = New("nothing", {}, {})
  OBVIOUS
<1>2. Enter(v, n)
  BY <1>1 DEF OtherOperation
<1>3. Fresh(n, "nothing", {}, {})
  BY <1>1, NewFields
<1>4. n \in Visit
  BY <1>3, VisitTyped DEF Fresh, AdminInv, InstanceTypeOK
<1>5. Shape(n) /\ Progress(n)
  BY <1>3 DEF Fresh, Shape, Progress, AccountKinds
<1>6. n.pc = "server" /\ ~ n.ok /\ n.kind # "param"
  BY <1>3 DEF Fresh
<1> QED
  BY <1>2, <1>4, <1>5, <1>6, EnterKeeps

LEMMA GrantsBegin == ASSUME AdminInv, NEW v \in Visits, AccountGrantView(v), ~ OtherOperation(v) PROVE AdminInv'
<1>1. PICK a \in Accounts, ss \in SUBSET Scopes, kind \in {"grant", "revoke"} :
        (dbType = "mongo" => kind = "grant") /\ Enter(v, [New(kind, {a}, ss) EXCEPT !.acct = a, !.asked = ss])
  BY DEF AccountGrantView
<1>2. PICK r : r = New(kind, {a}, ss)
  OBVIOUS
<1>3. PICK n : n = [r EXCEPT !.acct = a, !.asked = ss]
  OBVIOUS
<1>4. Fresh(r, kind, {a}, ss)
  BY <1>2, NewFields
<1>5. /\ n = [x \in VisitFields |-> n[x]]
      /\ n.kind = kind /\ n.pc = "server" /\ n.about = {a} /\ n.todo = ss
      /\ n.acct = a /\ n.asked = ss /\ n.pwd = NoPassword /\ n.all = FALSE /\ n.owner = NoOwner
      /\ n.old = runtime /\ n.new = runtime /\ n.ok = FALSE /\ n.alone = FALSE
  BY <1>3, <1>4 DEF VisitFields, Fresh
<1>6. n \in Visit
  BY <1>5, VisitTyped DEF AdminInv, InstanceTypeOK
<1>7. Shape(n) /\ Progress(n)
  BY <1>1, <1>5 DEF Shape, Progress, AccountKinds
<1>8. Enter(v, n)
  BY <1>1, <1>2, <1>3
<1> QED
  BY <1>5, <1>6, <1>7, <1>8, EnterKeeps

LEMMA ResetsBegin == ASSUME AdminInv, NEW v \in Visits, AccountResetPwdView(v) PROVE AdminInv'
<1>1. PICK a \in Accounts, p \in Passwords :
        Enter(v, [New("reset", {a}, {a}) EXCEPT !.acct = a, !.pwd = p, !.all = TRUE])
  BY DEF AccountResetPwdView
<1>2. PICK r : r = New("reset", {a}, {a})
  OBVIOUS
<1>3. PICK n : n = [r EXCEPT !.acct = a, !.pwd = p, !.all = TRUE]
  OBVIOUS
<1>4. Fresh(r, "reset", {a}, {a})
  BY <1>2, NewFields
<1>5. /\ n = [x \in VisitFields |-> n[x]]
      /\ n.kind = "reset" /\ n.pc = "server" /\ n.about = {a} /\ n.todo = {a}
      /\ n.acct = a /\ n.asked = {} /\ n.pwd = p /\ n.all = TRUE /\ n.owner = NoOwner
      /\ n.old = runtime /\ n.new = runtime /\ n.ok = FALSE /\ n.alone = FALSE
  BY <1>3, <1>4 DEF VisitFields, Fresh
<1>6. n \in Visit
  BY <1>5, VisitTyped DEF AdminInv, InstanceTypeOK
<1>7. Shape(n) /\ Progress(n)
  BY <1>5 DEF Shape, Progress, AccountKinds
<1>8. Enter(v, n)
  BY <1>1, <1>2, <1>3
<1> QED
  BY <1>5, <1>6, <1>7, <1>8, EnterKeeps

LEMMA LocksBegin == ASSUME AdminInv, NEW v \in Visits, AccountLockView(v), ~ OtherOperation(v) PROVE AdminInv'
<1>1. PICK a \in Accounts, kind \in {"lock", "unlock"} : Enter(v, [New(kind, {a}, {a}) EXCEPT !.acct = a])
  BY DEF AccountLockView
<1>2. PICK r : r = New(kind, {a}, {a})
  OBVIOUS
<1>3. PICK n : n = [r EXCEPT !.acct = a]
  OBVIOUS
<1>4. Fresh(r, kind, {a}, {a})
  BY <1>2, NewFields
<1>5. /\ n = [x \in VisitFields |-> n[x]]
      /\ n.kind = kind /\ n.pc = "server" /\ n.about = {a} /\ n.todo = {a}
      /\ n.acct = a /\ n.asked = {} /\ n.pwd = NoPassword /\ n.all = FALSE /\ n.owner = NoOwner
      /\ n.old = runtime /\ n.new = runtime /\ n.ok = FALSE /\ n.alone = FALSE
  BY <1>3, <1>4 DEF VisitFields, Fresh
<1>6. n \in Visit
  BY <1>5, VisitTyped DEF AdminInv, InstanceTypeOK
<1>7. Shape(n) /\ Progress(n)
  BY <1>1, <1>5 DEF Shape, Progress, AccountKinds
<1>8. Enter(v, n)
  BY <1>1, <1>2, <1>3
<1> QED
  BY <1>5, <1>6, <1>7, <1>8, EnterKeeps

LEMMA DeletesBegin == ASSUME AdminInv, NEW v \in Visits, AccountDeleteView(v) PROVE AdminInv'
<1>1. PICK a \in Accounts, all \in BOOLEAN : Enter(v, [New("delete", {a}, {a}) EXCEPT !.acct = a, !.all = all])
  BY DEF AccountDeleteView
<1>2. PICK r : r = New("delete", {a}, {a})
  OBVIOUS
<1>3. PICK n : n = [r EXCEPT !.acct = a, !.all = all]
  OBVIOUS
<1>4. Fresh(r, "delete", {a}, {a})
  BY <1>2, NewFields
<1>5. /\ n = [x \in VisitFields |-> n[x]]
      /\ n.kind = "delete" /\ n.pc = "server" /\ n.about = {a} /\ n.todo = {a}
      /\ n.acct = a /\ n.asked = {} /\ n.pwd = NoPassword /\ n.all = all /\ n.owner = NoOwner
      /\ n.old = runtime /\ n.new = runtime /\ n.ok = FALSE /\ n.alone = FALSE
  BY <1>3, <1>4 DEF VisitFields, Fresh
<1>6. n \in Visit
  BY <1>5, VisitTyped DEF AdminInv, InstanceTypeOK
<1>7. Shape(n) /\ Progress(n)
  BY <1>5 DEF Shape, Progress, AccountKinds
<1>8. Enter(v, n)
  BY <1>1, <1>2, <1>3
<1> QED
  BY <1>5, <1>6, <1>7, <1>8, EnterKeeps

LEMMA DatabasesBegin == ASSUME AdminInv, NEW v \in Visits, DatabaseCreateView(v) PROVE AdminInv'
<1>1. PICK d \in Databases, o \in Owners : Enter(v, [New("database", {d}, {d}) EXCEPT !.owner = o])
  BY DEF DatabaseCreateView
<1>2. PICK r : r = New("database", {d}, {d})
  OBVIOUS
<1>3. PICK n : n = [r EXCEPT !.owner = o]
  OBVIOUS
<1>4. Fresh(r, "database", {d}, {d})
  BY <1>2, NewFields
<1>5. /\ n = [x \in VisitFields |-> n[x]]
      /\ n.kind = "database" /\ n.pc = "server" /\ n.about = {d} /\ n.todo = {d}
      /\ n.acct = NoAccount /\ n.asked = {} /\ n.pwd = NoPassword /\ n.all = FALSE /\ n.owner = o
      /\ n.old = runtime /\ n.new = runtime /\ n.ok = FALSE /\ n.alone = FALSE
  BY <1>3, <1>4 DEF VisitFields, Fresh
<1>6. n \in Visit
  BY <1>5, VisitTyped DEF AdminInv, InstanceTypeOK
<1>7. Shape(n) /\ Progress(n)
  BY <1>5 DEF Shape, Progress, AccountKinds
<1>8. Enter(v, n)
  BY <1>1, <1>2, <1>3
<1> QED
  BY <1>5, <1>6, <1>7, <1>8, EnterKeeps

LEMMA ParamsBegin == ASSUME AdminInv, NEW v \in Visits, ParamEditView(v) PROVE AdminInv'
<1>1. PICK s \in Settings : Enter(v, [New("param", {"param"}, {"param"}) EXCEPT !.new = s])
  BY DEF ParamEditView
<1>2. PICK r : r = New("param", {"param"}, {"param"})
  OBVIOUS
<1>3. PICK n : n = [r EXCEPT !.new = s]
  OBVIOUS
<1>4. Fresh(r, "param", {"param"}, {"param"})
  BY <1>2, NewFields
<1>5. /\ n = [x \in VisitFields |-> n[x]]
      /\ n.kind = "param" /\ n.pc = "server" /\ n.about = {"param"} /\ n.todo = {"param"}
      /\ n.acct = NoAccount /\ n.asked = {} /\ n.pwd = NoPassword /\ n.all = FALSE /\ n.owner = NoOwner
      /\ n.old = runtime /\ n.new = s /\ n.ok = FALSE /\ n.alone = FALSE
  BY <1>3, <1>4 DEF VisitFields, Fresh
<1>6. n \in Visit
  BY <1>5, VisitTyped DEF AdminInv, InstanceTypeOK
<1>7. Shape(n) /\ Progress(n)
  BY <1>5 DEF Shape, Progress, AccountKinds
<1>8. Enter(v, n)
  BY <1>1, <1>2, <1>3
<1> QED
  BY <1>5, <1>6, <1>7, <1>8, EnterKeeps

\* The tables change under requests: those about what changes are not alone with it any more.
LEMMA DisturbKeeps ==
  ASSUME AdminInv, InstanceTypeOK', UNCHANGED <<dbType, runtime, history, crossed>>,
         \A u \in Visits : /\ Same(visits[u], visits'[u])
                           /\ visits'[u].alone => visits[u].alone /\ Untouched(visits[u])
  PROVE  AdminInv'
<1>1. \A u \in Visits : Fine(u)'
  BY FineElsewhere DEF AdminInv
<1>2. Apart'
  BY DEF AdminInv, Apart, Same, Open
<1>3. \A u \in Visits : Alters(u)' = Alters(u)
  BY DEF Alters, Same, Open
<1>4. ParamInv'
  BY <1>3, ParamFrame DEF AdminInv
<1> QED
  BY <1>1, <1>2, <1>4 DEF AdminInv

LEMMA AccountEditKeeps == ASSUME AdminInv, NEW v \in Visits, AccountEditView(v) PROVE AdminInv'
<1>1. PICK a \in Accounts, p \in Passwords \cup {NoPassword} :
        /\ passwords' = [passwords EXCEPT ![a] =
             [there |-> TRUE, pwd |-> IF p = NoPassword THEN passwords[a].pwd ELSE p]]
        /\ visits' = [u \in Visits |-> [visits[u] EXCEPT !.alone = visits[u].alone /\ a \notin visits[u].about]]
  BY Zenon DEF AccountEditView
<1>2. /\ begun < MaxVisits /\ begun' = begun + 1
      /\ UNCHANGED <<dbType, users, databases, runtime, pending, owners, history, cuts, crossed>>
  BY DEF AccountEditView, server
<1>3. InstanceTypeOK /\ visits \in [Visits -> Visit]
  BY DEF AdminInv, InstanceTypeOK
<1>4. ASSUME NEW u \in Visits
      PROVE  /\ visits'[u] \in Visit /\ Same(visits[u], visits'[u])
             /\ visits'[u].alone => visits[u].alone /\ Untouched(visits[u])
  <2>1. PICK w \in Visit : w = visits[u]
    BY <1>3
  <2>2. PICK b \in BOOLEAN : b <=> w.alone /\ a \notin w.about
    OBVIOUS
  <2>3. PICK z : z = [w EXCEPT !.alone = b]
    OBVIOUS
  <2>4. w.alone \in BOOLEAN
    BY DEF Visit
  <2>5. b = (w.alone /\ a \notin w.about)
    BY <2>2, <2>4, Zenon
  <2>6. visits'[u] = z
    BY <1>1, <2>1, <2>3, <2>5
  <2>7. z \in Visit /\ Same(w, z) /\ z.alone = b
    BY <2>3, SetAlone
  <2>8. a \notin w.about => Untouched(w)
    BY <1>1, <1>2 DEF Untouched
  <2> QED
    BY <2>1, <2>2, <2>6, <2>7, <2>8
<1>5. InstanceTypeOK'
  <2>1. visits' \in [Visits -> Visit]
    BY <1>1, <1>4
  <2>2. passwords' \in [Accounts -> AccountRow]
    BY <1>1, <1>3 DEF InstanceTypeOK, AccountRow
  <2>3. begun' \in 0..MaxVisits
    BY <1>2, <1>3, InstanceAssumption DEF InstanceTypeOK
  <2> QED
    BY <1>2, <1>3, <2>1, <2>2, <2>3 DEF InstanceTypeOK
<1> QED
  BY <1>2, <1>4, <1>5, DisturbKeeps

LEMMA DatabaseEditKeeps == ASSUME AdminInv, NEW v \in Visits, DatabaseEditView(v) PROVE AdminInv'
<1>1. PICK d \in Databases, o \in Owners :
        /\ owners' = [owners EXCEPT ![d] = o]
        /\ visits' = [u \in Visits |-> [visits[u] EXCEPT !.alone = visits[u].alone /\ d \notin visits[u].about]]
  BY Zenon DEF DatabaseEditView
<1>2. /\ begun < MaxVisits /\ begun' = begun + 1
      /\ UNCHANGED <<dbType, users, databases, runtime, pending, passwords, history, cuts, crossed>>
  BY DEF DatabaseEditView, server
<1>3. InstanceTypeOK /\ visits \in [Visits -> Visit]
  BY DEF AdminInv, InstanceTypeOK
<1>4. ASSUME NEW u \in Visits
      PROVE  /\ visits'[u] \in Visit /\ Same(visits[u], visits'[u])
             /\ visits'[u].alone => visits[u].alone /\ Untouched(visits[u])
  <2>1. PICK w \in Visit : w = visits[u]
    BY <1>3
  <2>2. PICK b \in BOOLEAN : b <=> w.alone /\ d \notin w.about
    OBVIOUS
  <2>3. PICK z : z = [w EXCEPT !.alone = b]
    OBVIOUS
  <2>4. w.alone \in BOOLEAN
    BY DEF Visit
  <2>5. b = (w.alone /\ d \notin w.about)
    BY <2>2, <2>4, Zenon
  <2>6. visits'[u] = z
    BY <1>1, <2>1, <2>3, <2>5
  <2>7. z \in Visit /\ Same(w, z) /\ z.alone = b
    BY <2>3, SetAlone
  <2>8. d \notin w.about => Untouched(w)
    BY <1>1, <1>2 DEF Untouched
  <2> QED
    BY <2>1, <2>2, <2>6, <2>7, <2>8
<1>5. InstanceTypeOK'
  <2>1. visits' \in [Visits -> Visit]
    BY <1>1, <1>4
  <2>2. owners' \in [Databases -> Owners \cup {NoOwner}]
    BY <1>1, <1>3 DEF InstanceTypeOK
  <2>3. begun' \in 0..MaxVisits
    BY <1>2, <1>3, InstanceAssumption DEF InstanceTypeOK
  <2> QED
    BY <1>2, <1>3, <2>1, <2>2, <2>3 DEF InstanceTypeOK
<1> QED
  BY <1>2, <1>4, <1>5, DisturbKeeps

LEMMA ReloadKeeps == ASSUME AdminInv, ReloadConf PROVE AdminInv'
<1>1. /\ dbType = "pgsql" /\ runtime' = Plain[pending]
      /\ UNCHANGED <<dbType, users, databases, pending, passwords, owners, history, visits, begun, cuts, crossed>>
  BY DEF ReloadConf, stored
<1>2. InstanceTypeOK'
  BY <1>1, InstanceAssumption DEF AdminInv, InstanceTypeOK
<1>3. ParamInv'
  BY <1>1 DEF ParamInv
<1>4. \A u \in Visits : Fine(u)'
  <2> SUFFICES ASSUME NEW u \in Visits PROVE Fine(u)'
    OBVIOUS
  <2>1. Same(visits[u], visits'[u])
    BY <1>1 DEF Same
  <2>2. Untouched(visits[u])
    BY <1>1 DEF Untouched
  <2> QED
    BY <1>1, <2>1, <2>2, FineElsewhere DEF AdminInv
<1> QED
  BY <1>1, <1>2, <1>3, <1>4 DEF AdminInv, Apart, Open

\* What a request keeps of itself, to its end.
Keeps(w, z) ==
  /\ w.kind = z.kind /\ w.about = z.about /\ w.acct = z.acct /\ w.asked = z.asked /\ w.pwd = z.pwd
  /\ w.all = z.all /\ w.owner = z.owner /\ w.old = z.old /\ w.new = z.new /\ w.alone = z.alone
  /\ z.todo \subseteq w.todo

\* A request works: on its own things only.
LEMMA WorkKeeps ==
  ASSUME AdminInv, NEW v \in Visits, Open(v), \A u \in Visits \ {v} : visits'[u] = visits[u],
         NEW n, visits'[v] = n, Keeps(visits[v], n), InstanceTypeOK', ParamInv', dbType' = dbType,
         \A a \in Accounts \ n.about : users'[a] = users[a] /\ passwords'[a] = passwords[a],
         \A d \in Databases \ n.about : owners'[d] = owners[d],
         databases \subseteq databases', "param" \notin n.about /\ dbType # "pgsql" => runtime' = runtime,
         n.pc # "ended" => ~ n.ok, n.pc = "store" \/ n.ok => n.todo = {},
         n.alone /\ (n.pc # "ended" \/ n.ok) => Progress(n)', n.alone /\ n.ok => Stored(n)'
  PROVE  AdminInv'
<1>1. PICK w : w = visits[v]
  OBVIOUS
<1>2. Shape(w) /\ Keeps(w, n) /\ w.pc # "ended"
  BY <1>1 DEF AdminInv, Fine, Open
<1>3. Shape(n)'
  BY <1>2 DEF Shape, Keeps
<1>4. Fine(v)'
  <2> HIDE DEF Shape, Progress, Stored
  <2> QED
    BY <1>3 DEF Fine, Open
<1>5. \A u \in Visits : Fine(u)'
  <2> SUFFICES ASSUME NEW u \in Visits, u # v PROVE Fine(u)'
    BY <1>4
  <2>1. visits'[u] = visits[u]
    OBVIOUS
  <2>2. visits[u].alone => visits[v].about \cap visits[u].about = {}
    BY DEF AdminInv, Apart
  <2>3. visits[u].alone => Untouched(visits[u])
    BY <1>1, <1>2, <2>2 DEF Untouched, Keeps
  <2> QED
    BY <2>1, <2>3, FineElsewhere, SameIsSame DEF AdminInv
<1>6. Apart'
  <2>1. \A u \in Visits : /\ visits'[u].about = visits[u].about /\ visits'[u].alone = visits[u].alone
                          /\ Open(u)' => Open(u)
    BY <1>1, <1>2 DEF Keeps, Open
  <2> QED
    BY <2>1 DEF AdminInv, Apart
<1> QED
  BY <1>5, <1>6 DEF AdminInv

\* No change of the parameter is on the way from the server to the history, or begins or ends.
LEMMA OtherKinds ==
  ASSUME AdminInv, NEW v \in Visits, visits[v].kind # "param", UNCHANGED <<dbType, runtime, history, crossed>>,
         \A u \in Visits \ {v} : visits'[u] = visits[u], visits'[v].kind = visits[v].kind
  PROVE  ParamInv'
<1>1. \A u \in Visits : Alters(u)' = Alters(u) /\ (Alters(u) => Same(visits[u], visits'[u]))
  <2> SUFFICES ASSUME NEW u \in Visits
               PROVE  Alters(u)' = Alters(u) /\ (Alters(u) => Same(visits[u], visits'[u]))
    OBVIOUS
  <2>1. CASE u = v
    BY <2>1 DEF Alters
  <2>2. CASE u # v
    <3>1. visits'[u] = visits[u]
      BY <2>2
    <3> QED
      BY <3>1, SameIsSame DEF Alters, Open
  <2> QED
    BY <2>1, <2>2
<1> QED
  BY <1>1, ParamFrame DEF AdminInv

\* A statement of a change of accounts.
LEMMA UserChanges ==
  ASSUME AdminInv, NEW v \in Visits, Open(v), visits[v].kind \in AccountKinds, NEW x \in visits[v].todo,
         Accepted(v, x), NEW after, after = UserAfter(v, x), NEW left, left = Left(v, x)
  PROVE  /\ after \in Account \cup {NoUser}
         /\ visits[v].kind = "reset"  => after.pwd = visits[v].pwd
         /\ visits[v].kind = "lock"   => after.locked
         /\ visits[v].kind = "unlock" => ~ after.locked
         /\ visits[v].kind = "delete" => after = NoUser
         /\ visits[v].kind = "grant" =>
              (visits[v].asked \ visits[v].todo \subseteq users[visits[v].acct].privs
                 => visits[v].asked \ left \subseteq after.privs)
         /\ visits[v].kind = "revoke" =>
              ((visits[v].asked \ visits[v].todo) \cap users[visits[v].acct].privs = {}
                 => (visits[v].asked \ left) \cap after.privs = {})
<1>1. PICK w : w = visits[v]
  OBVIOUS
<1>2. /\ w \in Visit /\ Shape(w) /\ w.acct \in Accounts /\ users \in [Accounts -> Account \cup {NoUser}]
      /\ w.kind \in AccountKinds
  BY <1>1 DEF AdminInv, InstanceTypeOK, Fine, Shape
<1>3. PICK user : user = users[w.acct]
  OBVIOUS
<1>4. user # NoUser
  BY <1>1, <1>2, <1>3 DEF Accepted, AccountKinds, there
<1>5. user \in Account
  BY <1>2, <1>3, <1>4
<1>6. user.pwd \in Passwords /\ user.locked \in BOOLEAN /\ user.privs \subseteq Scopes
  BY <1>5 DEF Account
<1>7. CASE w.kind = "grant"
  <2>1. after = [user EXCEPT !.privs = IF dbType = "mongo" THEN w.asked ELSE user.privs \cup {x}]
    BY <1>1, <1>3, <1>7 DEF UserAfter
  <2>2. w.asked \subseteq Scopes /\ x \in w.asked
    BY <1>1, <1>2, <1>7 DEF Shape
  <2>3. CASE dbType = "mongo"
    <3>1. after = [user EXCEPT !.privs = w.asked]
      BY <2>1, <2>3
    <3>2. after \in Account /\ after.privs = w.asked
      BY <1>5, <2>2, <3>1 DEF Account
    <3> QED
      BY <1>1, <1>7, <3>2
  <2>4. CASE dbType # "mongo"
    <3>1. after = [user EXCEPT !.privs = user.privs \cup {x}]
      BY <2>1, <2>4
    <3>2. after \in Account /\ after.privs = user.privs \cup {x}
      BY <1>5, <1>6, <2>2, <3>1 DEF Account
    <3>3. left = w.todo \ {x}
      BY <1>1, <2>4 DEF Left
    <3> QED
      BY <1>1, <1>3, <1>7, <3>2, <3>3
  <2> QED
    BY <2>3, <2>4
<1>8. CASE w.kind = "revoke"
  <2>1. after = [user EXCEPT !.privs = user.privs \ {x}]
    BY <1>1, <1>3, <1>8 DEF UserAfter
  <2>2. after \in Account /\ after.privs = user.privs \ {x}
    BY <1>5, <1>6, <2>1 DEF Account
  <2>3. left = w.todo \ {x}
    BY <1>1, <1>2, <1>8 DEF Left, Shape
  <2> QED
    BY <1>1, <1>3, <1>8, <2>2, <2>3
<1>9. CASE w.kind = "reset"
  <2>1. after = [user EXCEPT !.pwd = w.pwd]
    BY <1>1, <1>3, <1>9 DEF UserAfter
  <2>2. w.pwd \in Passwords
    BY <1>2, <1>9 DEF Shape
  <2> QED
    BY <1>1, <1>5, <1>9, <2>1, <2>2 DEF Account
<1>10. CASE w.kind = "lock"
  <2>1. after = [user EXCEPT !.locked = TRUE]
    BY <1>1, <1>3, <1>10 DEF UserAfter
  <2> QED
    BY <1>1, <1>5, <1>10, <2>1 DEF Account
<1>11. CASE w.kind = "unlock"
  <2>1. after = [user EXCEPT !.locked = FALSE]
    BY <1>1, <1>3, <1>11 DEF UserAfter
  <2> QED
    BY <1>1, <1>5, <1>11, <2>1 DEF Account
<1>12. CASE w.kind = "delete"
  BY <1>1, <1>12 DEF UserAfter
<1> QED
  BY <1>2, <1>7, <1>8, <1>9, <1>10, <1>11, <1>12 DEF AccountKinds

LEMMA StatementKeeps == ASSUME AdminInv, NEW v \in Visits, ServerStatement(v) PROVE AdminInv'
<1>1. PICK x \in visits[v].todo :
        /\ Accepted(v, x)
        /\ CASE visits[v].kind = "create"   -> create_instance_user(v, x)
             [] visits[v].kind = "database" -> create_database(x)
             [] visits[v].kind = "param"    -> set_variable(visits[v].new)
             [] OTHER                       -> alter_user(v, x)
        /\ visits' = [visits EXCEPT ![v].todo = Left(v, x),
                                    ![v].pc = IF Left(v, x) = {} THEN "store" ELSE "server"]
  BY Zenon DEF ServerStatement
<1>2. /\ visits[v].pc = "server"
      /\ UNCHANGED <<dbType, passwords, owners, history, begun, cuts, crossed>>
  BY DEF ServerStatement, stored
<1>3. PICK left : left = Left(v, x)
  OBVIOUS
<1>4. PICK w : w = visits[v]
  OBVIOUS
<1>5. PICK n : n = visits'[v]
  OBVIOUS
<1>6. /\ InstanceTypeOK /\ visits \in [Visits -> Visit] /\ w \in Visit /\ Shape(w) /\ ~ w.ok /\ w.pc = "server"
      /\ w.alone => Progress(w)
  BY <1>2, <1>4 DEF AdminInv, InstanceTypeOK, Fine, Open
<1>7. left \subseteq w.todo /\ w.todo \ {x} \subseteq w.todo /\ x \in w.todo
  BY <1>1, <1>3, <1>4 DEF Left
<1>8. /\ visits' = [visits EXCEPT ![v].todo = left, ![v].pc = IF left = {} THEN "store" ELSE "server"]
      /\ \A u \in Visits \ {v} : visits'[u] = visits[u]
  BY <1>1, <1>3, <1>6
<1>9. /\ Keeps(w, n) /\ n.todo = left /\ n.ok = w.ok /\ n.pc = (IF left = {} THEN "store" ELSE "server")
      /\ n \in Visit /\ visits' \in [Visits -> Visit]
  <2>1. n = [w EXCEPT !.todo = left, !.pc = IF left = {} THEN "store" ELSE "server"]
    BY <1>4, <1>5, <1>6, <1>8
  <2>2. w = [f \in VisitFields |-> w[f]]
    BY <1>6 DEF Visit, VisitFields
  <2>3. n = [f \in VisitFields |-> n[f]]
    BY <2>1, <2>2 DEF VisitFields
  <2>4. /\ n.todo = left /\ n.pc = (IF left = {} THEN "store" ELSE "server")
        /\ n.kind = w.kind /\ n.about = w.about /\ n.acct = w.acct /\ n.asked = w.asked /\ n.pwd = w.pwd
        /\ n.all = w.all /\ n.owner = w.owner /\ n.old = w.old /\ n.new = w.new
    BY <2>1, <2>2 DEF VisitFields
  <2>5. n.ok = w.ok /\ n.alone = w.alone
    BY <2>1, <2>2 DEF VisitFields
  <2>6. n \in Visit
    <3>1. left \in SUBSET (Accounts \cup Scopes \cup Databases \cup {"param"})
      BY <1>6, <1>7 DEF Visit
    <3>2. n.pc \in {"server", "store", "ended"}
      BY <2>4
    <3> QED
      BY <1>6, <2>3, <2>4, <2>5, <3>1, <3>2, VisitTyped DEF Visit
  <2> QED
    BY <1>5, <1>6, <1>7, <1>8, <2>4, <2>5, <2>6 DEF Keeps
<1>10. ~ n.ok /\ (n.pc = "store" \/ n.ok => n.todo = {}) /\ n.alone = w.alone
  BY <1>6, <1>9 DEF Keeps
<1> HIDE DEF Visit
<1>11. CASE w.kind = "create"
  <2>1. /\ users' = [users EXCEPT ![x] = [pwd |-> w.pwd, locked |-> FALSE, privs |-> {}]]
        /\ UNCHANGED <<databases, runtime, pending>>
    BY <1>1, <1>4, <1>11 DEF create_instance_user
  <2>2. x \in Accounts /\ x \in w.about /\ w.pwd \in Passwords
    BY <1>6, <1>7, <1>11 DEF Shape
  <2>3. users' \in [Accounts -> Account \cup {NoUser}]
    BY <1>6, <2>1, <2>2 DEF InstanceTypeOK, Account
  <2>4. \A a \in w.about \ left : a = x \/ a \notin w.todo
    BY <1>3, <1>4, <1>6, <1>11, <2>2 DEF Left, Shape
  <2>5. w.alone => Progress(n)'
    <3>1. \A a \in w.about : a \in Accounts
      BY <1>6, <1>11 DEF Shape
    <3>2. users'[x].pwd = w.pwd /\ \A a \in Accounts : a # x => users'[a] = users[a]
      BY <1>6, <2>1, <2>2 DEF InstanceTypeOK
    <3>3. w.alone => \A a \in w.about \ left : users'[a].pwd = w.pwd
      BY <1>6, <1>11, <2>4, <3>1, <3>2 DEF Progress
    <3> QED
      BY <1>9, <1>11, <3>3 DEF Progress, Keeps
  <2>6. InstanceTypeOK'
    BY <1>2, <1>6, <1>9, <2>1, <2>3 DEF InstanceTypeOK
  <2>7. ParamInv'
    BY <1>2, <1>4, <1>5, <1>8, <1>9, <1>11, <2>1, OtherKinds DEF Keeps
  <2>8. \A a \in Accounts \ n.about : users'[a] = users[a]
    BY <1>6, <1>9, <2>1, <2>2 DEF InstanceTypeOK, Keeps
  <2> HIDE DEF Progress, Shape
  <2> QED
    BY <1>2, <1>4, <1>5, <1>6, <1>8, <1>9, <1>10, <2>1, <2>5, <2>6, <2>7, <2>8, WorkKeeps DEF Open
<1>12. CASE w.kind = "database"
  <2>1. databases' = databases \cup {x} /\ UNCHANGED <<users, runtime, pending>>
    BY <1>1, <1>4, <1>12 DEF create_database
  <2>2. x \in Databases /\ x \in w.about
    BY <1>6, <1>7, <1>12 DEF Shape
  <2>3. \A d \in w.about \ left : d = x \/ d \notin w.todo
    BY <1>3, <1>4, <1>6, <1>12, <2>2 DEF Left, Shape
  <2>4. w.alone => Progress(n)'
    BY <1>6, <1>9, <1>12, <2>1, <2>3 DEF Progress, Keeps
  <2>5. InstanceTypeOK'
    BY <1>2, <1>6, <1>9, <2>1, <2>2 DEF InstanceTypeOK
  <2>6. ParamInv'
    BY <1>2, <1>4, <1>5, <1>8, <1>9, <1>12, <2>1, OtherKinds DEF Keeps
  <2> HIDE DEF Progress, Shape
  <2> QED
    BY <1>2, <1>4, <1>5, <1>6, <1>8, <1>9, <1>10, <2>1, <2>4, <2>5, <2>6, WorkKeeps DEF Open
<1>13. CASE w.kind = "param"
  <2>1. /\ IF dbType = "pgsql" THEN pending' = w.new /\ UNCHANGED runtime
           ELSE runtime' = Plain[w.new] /\ UNCHANGED pending
        /\ UNCHANGED <<users, databases>>
    BY <1>1, <1>4, <1>13 DEF set_variable
  <2>2. w.new \in Settings /\ Plain[w.new] \in Settings
    BY <1>6, InstanceAssumption DEF Visit
  <2>3. InstanceTypeOK'
    BY <1>2, <1>6, <1>9, <2>1, <2>2 DEF InstanceTypeOK
  <2>4. left = {} /\ "param" \in w.about
    BY <1>3, <1>4, <1>6, <1>7, <1>13 DEF Left, Shape
  <2>5. Progress(n)'
    BY <1>2, <1>9, <1>13, <2>1 DEF Progress, Keeps
  <2>6. ParamInv'
    <3> SUFFICES ASSUME dbType # "pgsql", ~ crossed PROVE ParamInv'
      BY <1>2 DEF ParamInv
    <3>1. Alters(v) /\ ~ Recording(v) /\ n.pc = "store" /\ n.kind = "param"
      BY <1>4, <1>6, <1>9, <1>13, <2>4 DEF Alters, Recording, Open, Keeps
    <3>2. \A u \in Visits : Alters(u) => u = v
      BY <3>1 DEF AdminInv, ParamInv
    <3>3. \A u \in Visits \ {v} : Alters(u)' = Alters(u)
      BY <1>8 DEF Alters, Open
    <3>4. \A u \in Visits : Alters(u)' => u = v
      BY <3>2, <3>3
    <3>5. \A u \in Visits : ~ Recording(u)
      BY <3>1, <3>2 DEF Recording
    <3>6. Recording(v)'
      BY <1>5, <3>1 DEF Recording, Alters, Open
    <3>7. w.old = runtime /\ LastIs(runtime)
      BY <1>2, <1>4, <3>1, <3>5 DEF AdminInv, ParamInv
    <3>8. /\ runtime' = Plain[n.new] /\ Plain[runtime'] = runtime' /\ n.old = runtime
      BY <1>9, <2>1, <2>2, <3>7, InstanceAssumption DEF Keeps
    <3>9. LastIs(visits[v].old)'
      BY <1>2, <1>5, <3>7, <3>8 DEF LastIs
    <3>10. \A i \in 1..(Len(history) - 1) : Plain[history[i].new] = history[i + 1].old
      BY DEF AdminInv, ParamInv
    <3>11. \A u \in Visits : Recording(u)' => u = v
      BY <3>4 DEF Recording
    <3>12. /\ \A u, z \in Visits : Alters(u)' /\ Alters(z)' => u = z
           /\ \A u \in Visits : Alters(u)' /\ visits'[u].pc = "server" => visits'[u].old = runtime'
      BY <1>5, <3>1, <3>4
    <3>13. \A u \in Visits : Recording(u)' => runtime' = Plain[visits'[u].new] /\ LastIs(visits[u].old)'
      BY <1>5, <3>8, <3>9, <3>11
    <3> HIDE DEF Alters, Recording, LastIs
    <3> QED
      BY <1>2, <3>6, <3>8, <3>10, <3>12, <3>13 DEF ParamInv
  <2>7. "param" \in n.about
    BY <1>9, <2>4 DEF Keeps
  <2> HIDE DEF Progress, Shape
  <2> QED
    BY <1>2, <1>4, <1>5, <1>6, <1>8, <1>9, <1>10, <2>1, <2>3, <2>5, <2>6, <2>7, WorkKeeps DEF Open
<1>14. CASE w.kind \in AccountKinds
  <2>1. PICK after : after = UserAfter(v, x)
    OBVIOUS
  <2>2. users' = [users EXCEPT ![w.acct] = after] /\ UNCHANGED <<databases, runtime, pending>>
    BY <1>1, <1>4, <1>14, <2>1 DEF alter_user, AccountKinds
  <2>3. w.acct \in Accounts /\ w.about = {w.acct}
    BY <1>6, <1>14 DEF Shape
  <2>4. /\ after \in Account \cup {NoUser}
        /\ w.kind = "reset"  => after.pwd = w.pwd
        /\ w.kind = "lock"   => after.locked
        /\ w.kind = "unlock" => ~ after.locked
        /\ w.kind = "delete" => after = NoUser
        /\ w.kind = "grant" => (w.asked \ w.todo \subseteq users[w.acct].privs => w.asked \ left \subseteq after.privs)
        /\ w.kind = "revoke" => ((w.asked \ w.todo) \cap users[w.acct].privs = {}
                                   => (w.asked \ left) \cap after.privs = {})
    BY <1>1, <1>3, <1>4, <1>6, <1>14, <2>1, UserChanges DEF Open
  <2>5. users'[w.acct] = after /\ \A a \in Accounts \ {w.acct} : users'[a] = users[a]
    BY <1>6, <2>2, <2>3 DEF InstanceTypeOK
  <2>6. InstanceTypeOK'
    BY <1>2, <1>6, <1>9, <2>2, <2>3, <2>4 DEF InstanceTypeOK
  <2>7. w.alone => Progress(n)'
    BY <1>6, <1>9, <1>14, <2>4, <2>5 DEF Progress, Keeps, AccountKinds, there
  <2>8. ParamInv'
    BY <1>2, <1>4, <1>5, <1>8, <1>9, <1>14, <2>2, OtherKinds DEF Keeps, AccountKinds
  <2>9. \A a \in Accounts \ n.about : users'[a] = users[a]
    BY <1>9, <2>3, <2>5 DEF Keeps
  <2> HIDE DEF Progress, Shape
  <2> QED
    BY <1>2, <1>4, <1>5, <1>6, <1>8, <1>9, <1>10, <2>2, <2>6, <2>7, <2>8, <2>9, WorkKeeps DEF Open
<1>15. w.kind \in {"create", "database", "param"} \cup AccountKinds
  <2>1. w.kind # "nothing"
    BY <1>6, <1>7 DEF Shape
  <2> QED
    BY <1>6, <2>1 DEF Visit, AccountKinds
<1> QED
  BY <1>11, <1>12, <1>13, <1>14, <1>15

\* A request ends, with its rows or without.
LEMMA RequestEnds ==
  ASSUME AdminInv, NEW v \in Visits, Open(v), NEW ok \in BOOLEAN,
         visits' = [visits EXCEPT ![v].pc = "ended", ![v].ok = ok],
         UNCHANGED <<dbType, users, databases, runtime, pending, begun>>,
         passwords' \in [Accounts -> AccountRow], owners' \in [Databases -> Owners \cup {NoOwner}],
         history' \in Seq(History), cuts' \in 0..MaxCuts, crossed' \in BOOLEAN, ParamInv',
         \A a \in Accounts \ visits[v].about : passwords'[a] = passwords[a],
         \A d \in Databases \ visits[v].about : owners'[d] = owners[d],
         ok => visits[v].todo = {},
         NEW w, w = visits[v], ok => Stored(w)'
  PROVE  AdminInv'
<1>1. PICK n : n = visits'[v]
  OBVIOUS
<1>2. /\ InstanceTypeOK /\ visits \in [Visits -> Visit] /\ w \in Visit
      /\ w.alone => Progress(w)
  BY DEF AdminInv, InstanceTypeOK, Fine, Open
<1>3. /\ \A u \in Visits \ {v} : visits'[u] = visits[u]
      /\ n = [w EXCEPT !.pc = "ended", !.ok = ok]
  BY <1>1, <1>2
<1>4. w = [f \in VisitFields |-> w[f]]
  BY <1>2 DEF Visit, VisitFields
<1>5. n = [f \in VisitFields |-> n[f]]
  BY <1>3, <1>4 DEF VisitFields
<1>6. /\ n.pc = "ended" /\ n.todo = w.todo
      /\ n.kind = w.kind /\ n.about = w.about /\ n.acct = w.acct /\ n.asked = w.asked /\ n.pwd = w.pwd
      /\ n.all = w.all /\ n.owner = w.owner /\ n.old = w.old /\ n.new = w.new
  BY <1>3, <1>4 DEF VisitFields
<1>7. n.ok = ok /\ n.alone = w.alone
  BY <1>3, <1>4 DEF VisitFields
<1>8. n \in Visit /\ Keeps(w, n)
  <2>1. n \in Visit
    <3>1. n.pc \in {"server", "store", "ended"}
      BY <1>6
    <3>2. n.ok \in BOOLEAN
      BY <1>7
    <3> QED
      BY <1>2, <1>5, <1>6, <1>7, <3>1, <3>2, VisitTyped DEF Visit
  <2> QED
    BY <1>6, <1>7, <2>1 DEF Keeps
<1> HIDE DEF Visit
<1>9. InstanceTypeOK'
  <2>1. visits' \in [Visits -> Visit]
    BY <1>1, <1>2, <1>3, <1>8
  <2> QED
    BY <1>2, <2>1 DEF InstanceTypeOK
<1>10. n.alone /\ n.ok => Progress(n)'
  BY <1>2, <1>6, <1>7 DEF Progress, there
<1>11. n.ok => Stored(n)'
  BY <1>2, <1>6, <1>7 DEF Stored, Misspelt
<1>12. n.pc = "store" \/ n.ok => n.todo = {}
  BY <1>6, <1>7
<1>13. /\ \A a \in Accounts \ n.about : users'[a] = users[a] /\ passwords'[a] = passwords[a]
       /\ \A d \in Databases \ n.about : owners'[d] = owners[d]
  BY <1>6
<1> HIDE DEF Progress, Stored
<1> QED
  BY <1>1, <1>3, <1>6, <1>8, <1>9, <1>10, <1>11, <1>12, <1>13, WorkKeeps

\* An ending leaves the history as it was, or adds the change that ends.
LEMMA LeavesHistory ==
  ASSUME AdminInv, NEW v \in Visits, Open(v), visits'[v].pc = "ended",
         \A u \in Visits \ {v} : visits'[u] = visits[u], UNCHANGED <<dbType, runtime, history, crossed>>,
         Recording(v) => crossed
  PROVE  ParamInv'
<1> SUFFICES ASSUME dbType # "pgsql", ~ crossed PROVE ParamInv'
  BY DEF ParamInv
<1>1. ParamInv
  BY DEF AdminInv
<1>2. ~ Alters(v)' /\ ~ Recording(v)'
  BY DEF Alters, Recording, Open
<1>3. \A u \in Visits \ {v} : Alters(u)' = Alters(u) /\ Recording(u)' = Recording(u)
  BY DEF Alters, Recording, Open
<1>4. /\ \A u, z \in Visits : Alters(u)' /\ Alters(z)' => u = z
      /\ Plain[runtime'] = runtime'
      /\ \A i \in 1..(Len(history') - 1) : Plain[history'[i].new] = history'[i + 1].old
      /\ \A u \in Visits : Alters(u)' /\ visits'[u].pc = "server" => visits'[u].old = runtime'
  BY <1>1, <1>2, <1>3 DEF ParamInv
<1>5. \A u \in Visits : Recording(u)' => runtime' = Plain[visits'[u].new] /\ LastIs(visits[u].old)'
  <2> SUFFICES ASSUME NEW u \in Visits, Recording(u)'
               PROVE  runtime' = Plain[visits'[u].new] /\ LastIs(visits[u].old)'
    OBVIOUS
  <2>1. u # v /\ Recording(u)
    BY <1>2, <1>3
  <2>2. visits'[u] = visits[u]
    BY <2>1
  <2>3. runtime = Plain[visits[u].new] /\ LastIs(visits[u].old)
    BY <1>1, <2>1 DEF ParamInv
  <2> QED
    BY <2>2, <2>3 DEF LastIs
<1>6. (\A u \in Visits : ~ Recording(u)') => LastIs(runtime)'
  <2> SUFFICES ASSUME \A u \in Visits : ~ Recording(u)' PROVE LastIs(runtime)'
    OBVIOUS
  <2>1. \A u \in Visits : ~ Recording(u)
    BY <1>3
  <2>2. LastIs(runtime)
    BY <1>1, <2>1 DEF ParamInv
  <2> QED
    BY <2>2 DEF LastIs
<1> HIDE DEF Alters, Recording, LastIs
<1> QED
  BY <1>4, <1>5, <1>6 DEF ParamInv

LEMMA RefusedEnds == ASSUME AdminInv, NEW v \in Visits, Refused(v) PROVE AdminInv'
<1>1. /\ visits[v].pc = "server" /\ visits' = [visits EXCEPT ![v].pc = "ended"]
      /\ UNCHANGED <<dbType, users, databases, runtime, pending, passwords, owners, history, begun, cuts, crossed>>
  BY DEF Refused, server, stored
<1>2. /\ InstanceTypeOK /\ visits \in [Visits -> Visit] /\ visits[v].ok = FALSE
  BY <1>1 DEF AdminInv, InstanceTypeOK, Fine, Open, Visit
<1>3. Open(v) /\ ~ Recording(v)
  BY <1>1 DEF Open, Recording
<1>4. visits'[v].pc = "ended" /\ \A u \in Visits \ {v} : visits'[u] = visits[u]
  BY <1>1, <1>2
<1>5. ParamInv'
  BY <1>1, <1>3, <1>4, LeavesHistory
<1>6. visits' = [visits EXCEPT ![v].pc = "ended", ![v].ok = FALSE]
  BY <1>1, <1>2 DEF Visit
<1> QED
  BY <1>1, <1>2, <1>3, <1>5, <1>6, RequestEnds DEF InstanceTypeOK

LEMMA CutKeeps == ASSUME AdminInv, NEW v \in Visits, Cut(v) PROVE AdminInv'
<1>1. /\ Open(v) /\ cuts < MaxCuts /\ cuts' = cuts + 1 /\ visits' = [visits EXCEPT ![v].pc = "ended"]
      /\ crossed' = (crossed \/ visits[v].kind = "param")
      /\ UNCHANGED <<dbType, users, databases, runtime, pending, passwords, owners, history, begun>>
  BY DEF Cut, server, stored
<1>2. InstanceTypeOK /\ visits \in [Visits -> Visit] /\ visits[v].ok = FALSE
  BY <1>1 DEF AdminInv, InstanceTypeOK, Fine, Visit
<1>3. visits'[v].pc = "ended" /\ \A u \in Visits \ {v} : visits'[u] = visits[u]
  BY <1>1, <1>2
<1>4. ParamInv'
  <2>1. CASE visits[v].kind = "param"
    BY <1>1, <2>1 DEF ParamInv
  <2>2. CASE visits[v].kind # "param"
    <3>1. visits'[v].kind = visits[v].kind
      BY <1>1, <1>2
    <3>2. crossed' = crossed
      BY <1>1, <1>2, <2>2 DEF InstanceTypeOK
    <3> QED
      BY <1>1, <1>3, <2>2, <3>1, <3>2, OtherKinds
  <2> QED
    BY <2>1, <2>2
<1>5. visits' = [visits EXCEPT ![v].pc = "ended", ![v].ok = FALSE]
  BY <1>1, <1>2 DEF Visit
<1>6. cuts' \in 0..MaxCuts /\ crossed' \in BOOLEAN
  BY <1>1, <1>2, InstanceAssumption DEF InstanceTypeOK
<1> QED
  BY <1>1, <1>2, <1>4, <1>5, <1>6, RequestEnds DEF InstanceTypeOK

\* What the answers have in common.
LEMMA Answering ==
  ASSUME AdminInv, NEW v \in Visits, visits[v].pc = "store", NEW ok \in BOOLEAN, Answered(v, ok)
  PROVE  /\ Open(v) /\ visits' = [visits EXCEPT ![v].pc = "ended", ![v].ok = ok]
         /\ UNCHANGED <<dbType, users, databases, runtime, pending, begun, cuts, crossed>>
         /\ cuts' \in 0..MaxCuts /\ crossed' \in BOOLEAN /\ visits[v].todo = {} /\ Shape(visits[v])
         /\ InstanceTypeOK /\ visits[v] \in Visit
         /\ visits'[v].pc = "ended" /\ \A u \in Visits \ {v} : visits'[u] = visits[u]
  BY DEF Answered, server, Open, AdminInv, InstanceTypeOK, Fine

LEMMA StoreAccountsKeeps == ASSUME AdminInv, NEW v \in Visits, StoreAccounts(v) PROVE AdminInv'
<1>1. PICK free \in BOOLEAN :
        /\ passwords' = [a \in Accounts |-> IF free /\ a \in visits[v].about
                                            THEN [there |-> TRUE, pwd |-> RowPassword(visits[v].pwd)]
                                            ELSE passwords[a]]
        /\ Answered(v, free)
  <2> DEFINE fr == \A a \in visits[v].about : ~ passwords[a].there
  <2>1. /\ passwords' = [a \in Accounts |-> IF fr /\ a \in visits[v].about
                                            THEN [there |-> TRUE, pwd |-> RowPassword(visits[v].pwd)]
                                            ELSE passwords[a]]
        /\ Answered(v, fr)
    BY Zenon DEF StoreAccounts
  <2>2. fr \in BOOLEAN
    BY Zenon
  <2> WITNESS fr \in BOOLEAN
  <2> QED
    BY <2>1, Zenon
<1>2. visits[v].pc = "store" /\ visits[v].kind = "create" /\ UNCHANGED <<owners, history>>
  BY DEF StoreAccounts
<1>3. PICK w : w = visits[v]
  OBVIOUS
<1>4. /\ Open(v) /\ visits' = [visits EXCEPT ![v].pc = "ended", ![v].ok = free]
      /\ UNCHANGED <<dbType, users, databases, runtime, pending, begun, cuts, crossed>>
      /\ cuts' \in 0..MaxCuts /\ crossed' \in BOOLEAN /\ w.todo = {} /\ Shape(w)
      /\ InstanceTypeOK /\ w \in Visit
      /\ visits'[v].pc = "ended" /\ \A u \in Visits \ {v} : visits'[u] = visits[u]
  BY <1>1, <1>2, <1>3, Answering
<1>5. w.pwd \in Passwords /\ w.about \subseteq Accounts
  BY <1>2, <1>3, <1>4 DEF Shape
<1>p. PICK p : p = RowPassword(w.pwd)
  OBVIOUS
<1>q. p \in Passwords \cup Spellings /\ (~ Misspelt(w) => p = w.pwd)
  BY <1>2, <1>3, <1>5, <1>p DEF RowPassword, Spellings, Misspelt
<1>r. passwords' = [a \in Accounts |-> IF free /\ a \in w.about THEN [there |-> TRUE, pwd |-> p] ELSE passwords[a]]
  BY <1>1, <1>3, <1>p
<1>6. passwords' \in [Accounts -> AccountRow]
  BY <1>4, <1>q, <1>r DEF InstanceTypeOK, AccountRow
<1>7. \A a \in Accounts \ w.about : passwords'[a] = passwords[a]
  BY <1>r
<1>8. free => Stored(w)'
  BY <1>2, <1>3, <1>4, <1>5, <1>q, <1>r DEF Stored, Misspelt
<1>9. ParamInv'
  BY <1>2, <1>4, LeavesHistory DEF Recording, Alters
<1> HIDE DEF Shape, Stored, Answered
<1> QED
  BY <1>2, <1>3, <1>4, <1>6, <1>7, <1>8, <1>9, RequestEnds DEF InstanceTypeOK

LEMMA StorePasswordKeeps == ASSUME AdminInv, NEW v \in Visits, StorePassword(v) PROVE AdminInv'
<1>1. /\ visits[v].pc = "store" /\ visits[v].kind = "reset" /\ UNCHANGED <<owners, history>>
      /\ Answered(v, TRUE)
  BY DEF StorePassword
<1>2. PICK w : w = visits[v]
  OBVIOUS
<1>3. passwords' = [passwords EXCEPT ![w.acct] = [there |-> TRUE, pwd |-> w.pwd]]
  BY <1>2 DEF StorePassword
<1>4. /\ Open(v) /\ visits' = [visits EXCEPT ![v].pc = "ended", ![v].ok = TRUE]
      /\ UNCHANGED <<dbType, users, databases, runtime, pending, begun, cuts, crossed>>
      /\ cuts' \in 0..MaxCuts /\ crossed' \in BOOLEAN /\ w.todo = {} /\ Shape(w)
      /\ InstanceTypeOK /\ w \in Visit
      /\ visits'[v].pc = "ended" /\ \A u \in Visits \ {v} : visits'[u] = visits[u]
  BY <1>1, <1>2, Answering
<1>5. w.pwd \in Passwords /\ w.acct \in Accounts /\ w.about = {w.acct}
  BY <1>1, <1>2, <1>4 DEF Shape, AccountKinds
<1>6. passwords' \in [Accounts -> AccountRow]
  BY <1>3, <1>4, <1>5 DEF InstanceTypeOK, AccountRow
<1>7. \A a \in Accounts \ w.about : passwords'[a] = passwords[a]
  BY <1>3, <1>4, <1>5 DEF InstanceTypeOK
<1>8. Stored(w)'
  BY <1>1, <1>2, <1>3, <1>4, <1>5 DEF Stored, InstanceTypeOK
<1>9. ParamInv'
  BY <1>1, <1>4, LeavesHistory DEF Recording, Alters
<1> HIDE DEF Shape, Stored, Answered
<1> QED
  BY <1>1, <1>2, <1>4, <1>6, <1>7, <1>8, <1>9, RequestEnds DEF InstanceTypeOK

LEMMA DeleteAccountKeeps == ASSUME AdminInv, NEW v \in Visits, DeleteAccount(v) PROVE AdminInv'
<1>1. /\ visits[v].pc = "store" /\ visits[v].kind = "delete" /\ UNCHANGED <<owners, history>>
      /\ Answered(v, TRUE)
  BY DEF DeleteAccount
<1>2. PICK w : w = visits[v]
  OBVIOUS
<1>3. passwords' = IF w.all THEN [passwords EXCEPT ![w.acct] = NoAccountRow] ELSE passwords
  BY <1>2 DEF DeleteAccount
<1>4. /\ Open(v) /\ visits' = [visits EXCEPT ![v].pc = "ended", ![v].ok = TRUE]
      /\ UNCHANGED <<dbType, users, databases, runtime, pending, begun, cuts, crossed>>
      /\ cuts' \in 0..MaxCuts /\ crossed' \in BOOLEAN /\ w.todo = {} /\ Shape(w)
      /\ InstanceTypeOK /\ w \in Visit
      /\ visits'[v].pc = "ended" /\ \A u \in Visits \ {v} : visits'[u] = visits[u]
  BY <1>1, <1>2, Answering
<1>5. w.acct \in Accounts /\ w.about = {w.acct}
  BY <1>1, <1>2, <1>4 DEF Shape, AccountKinds
<1>6. passwords' \in [Accounts -> AccountRow]
  BY <1>3, <1>4, <1>5 DEF InstanceTypeOK, AccountRow, NoAccountRow
<1>7. \A a \in Accounts \ w.about : passwords'[a] = passwords[a]
  BY <1>3, <1>4, <1>5 DEF InstanceTypeOK
<1>8. Stored(w)'
  BY <1>1, <1>2, <1>3, <1>4, <1>5 DEF Stored, InstanceTypeOK, NoAccountRow
<1>9. ParamInv'
  BY <1>1, <1>4, LeavesHistory DEF Recording, Alters
<1> HIDE DEF Shape, Stored, Answered
<1> QED
  BY <1>1, <1>2, <1>4, <1>6, <1>7, <1>8, <1>9, RequestEnds DEF InstanceTypeOK

LEMMA StoreNothingKeeps == ASSUME AdminInv, NEW v \in Visits, StoreNothing(v) PROVE AdminInv'
<1>1. /\ \/ visits[v].pc = "store" /\ visits[v].kind \in {"grant", "revoke", "lock", "unlock"}
         \/ visits[v].pc = "server" /\ visits[v].kind = "nothing"
      /\ UNCHANGED <<passwords, owners, history>> /\ Answered(v, TRUE)
  BY DEF StoreNothing, stored
<1>2. PICK w : w = visits[v]
  OBVIOUS
<1>3. w.todo = {} /\ Open(v)
  BY <1>1, <1>2 DEF AdminInv, Fine, Open, Shape
<1>4. /\ Open(v) /\ visits' = [visits EXCEPT ![v].pc = "ended", ![v].ok = TRUE]
      /\ UNCHANGED <<dbType, users, databases, runtime, pending, begun, cuts, crossed>>
      /\ cuts' \in 0..MaxCuts /\ crossed' \in BOOLEAN /\ w.todo = {}
      /\ InstanceTypeOK /\ w \in Visit
      /\ visits'[v].pc = "ended" /\ \A u \in Visits \ {v} : visits'[u] = visits[u]
  BY <1>1, <1>2, <1>3 DEF Answered, server, AdminInv, InstanceTypeOK
<1>5. Stored(w)'
  BY <1>1, <1>2 DEF Stored
<1>6. ParamInv'
  BY <1>1, <1>4, LeavesHistory DEF Recording, Alters
<1> HIDE DEF Shape, Stored, Answered
<1> QED
  BY <1>1, <1>2, <1>4, <1>5, <1>6, RequestEnds DEF InstanceTypeOK

LEMMA StoreDatabaseKeeps == ASSUME AdminInv, NEW v \in Visits, StoreDatabase(v) PROVE AdminInv'
<1>1. visits[v].pc = "store" /\ visits[v].kind = "database" /\ UNCHANGED <<passwords, history>>
  BY DEF StoreDatabase
<1>2. PICK w : w = visits[v]
  OBVIOUS
<1>3. PICK d \in w.about, ok \in BOOLEAN :
        /\ owners' = [owners EXCEPT ![d] = IF owners[d] = NoOwner THEN w.owner ELSE owners[d]]
        /\ ok <=> owners[d] = NoOwner
        /\ Answered(v, ok)
  <2>1. PICK d \in w.about : /\ owners' = [owners EXCEPT ![d] = IF @ = NoOwner THEN w.owner ELSE @]
                             /\ Answered(v, owners[d] = NoOwner)
    BY <1>2 DEF StoreDatabase
  <2>2. (owners[d] = NoOwner) \in BOOLEAN
    BY Zenon
  <2> DEFINE ok == owners[d] = NoOwner
  <2> WITNESS d \in w.about, ok \in BOOLEAN
  <2> QED
    BY <2>1, Zenon
<1>4. /\ Open(v) /\ visits' = [visits EXCEPT ![v].pc = "ended", ![v].ok = ok]
      /\ UNCHANGED <<dbType, users, databases, runtime, pending, begun, cuts, crossed>>
      /\ cuts' \in 0..MaxCuts /\ crossed' \in BOOLEAN /\ w.todo = {} /\ Shape(w)
      /\ InstanceTypeOK /\ w \in Visit
      /\ visits'[v].pc = "ended" /\ \A u \in Visits \ {v} : visits'[u] = visits[u]
  BY <1>1, <1>2, <1>3, Answering
<1>5. d \in Databases /\ w.owner \in Owners /\ \A e \in w.about : e = d
  BY <1>1, <1>2, <1>3, <1>4 DEF Shape
<1>6. owners' \in [Databases -> Owners \cup {NoOwner}]
  BY <1>3, <1>4, <1>5 DEF InstanceTypeOK
<1>7. \A e \in Databases \ w.about : owners'[e] = owners[e]
  BY <1>3, <1>4, <1>5 DEF InstanceTypeOK
<1>8. ok => Stored(w)'
  BY <1>1, <1>2, <1>3, <1>4, <1>5 DEF Stored, InstanceTypeOK
<1>9. ParamInv'
  BY <1>1, <1>4, LeavesHistory DEF Recording, Alters
<1> HIDE DEF Shape, Stored, Answered
<1> QED
  BY <1>1, <1>2, <1>4, <1>6, <1>7, <1>8, <1>9, RequestEnds DEF InstanceTypeOK

LEMMA StoreHistoryKeeps == ASSUME AdminInv, NEW v \in Visits, StoreHistory(v) PROVE AdminInv'
<1>1. /\ visits[v].pc = "store" /\ visits[v].kind = "param" /\ UNCHANGED <<passwords, owners>>
      /\ Answered(v, TRUE)
  BY DEF StoreHistory
<1>2. PICK w : w = visits[v]
  OBVIOUS
<1>3. PICK entry : entry = [old |-> w.old, new |-> w.new]
  OBVIOUS
<1>4. history' = Append(history, entry)
  BY <1>2, <1>3 DEF StoreHistory
<1>5. /\ Open(v) /\ visits' = [visits EXCEPT ![v].pc = "ended", ![v].ok = TRUE]
      /\ UNCHANGED <<dbType, users, databases, runtime, pending, begun, cuts, crossed>>
      /\ cuts' \in 0..MaxCuts /\ crossed' \in BOOLEAN /\ w.todo = {} /\ Shape(w)
      /\ InstanceTypeOK /\ w \in Visit
      /\ visits'[v].pc = "ended" /\ \A u \in Visits \ {v} : visits'[u] = visits[u]
  BY <1>1, <1>2, Answering
<1>6. entry \in History /\ history \in Seq(History)
  BY <1>3, <1>5 DEF History, Visit, InstanceTypeOK
<1>7. /\ history' \in Seq(History) /\ Len(history') = Len(history) + 1
      /\ history'[Len(history) + 1] = entry /\ \A i \in 1..Len(history) : history'[i] = history[i]
  BY <1>4, <1>6
<1>8. Len(history) \in Nat
  BY <1>6
<1>9. Stored(w)'
  BY <1>1, <1>2 DEF Stored
<1>10. ParamInv'
  <2> SUFFICES ASSUME dbType # "pgsql", ~ crossed PROVE ParamInv'
    BY <1>5 DEF ParamInv
  <2>1. Alters(v) /\ Recording(v)
    BY <1>1, <1>5 DEF Alters, Recording
  <2>2. \A u \in Visits : Alters(u) => u = v
    BY <2>1 DEF AdminInv, ParamInv
  <2>3. \A u \in Visits : ~ Alters(u)'
    <3>1. ~ Alters(v)'
      BY <1>5 DEF Alters, Open
    <3>2. \A u \in Visits \ {v} : Alters(u)' = Alters(u)
      BY <1>5 DEF Alters, Open
    <3> QED
      BY <2>2, <3>1, <3>2
  <2>4. \A u \in Visits : ~ Recording(u)'
    BY <2>3 DEF Recording
  <2>5. runtime = Plain[w.new] /\ LastIs(w.old)
    BY <1>2, <2>1 DEF AdminInv, ParamInv
  <2>6. LastIs(runtime)'
    BY <1>3, <1>5, <1>7, <2>5 DEF LastIs
  <2>7. \A i \in 1..(Len(history') - 1) : Plain[history'[i].new] = history'[i + 1].old
    <3> SUFFICES ASSUME NEW i \in 1..Len(history) PROVE Plain[history'[i].new] = history'[i + 1].old
      BY <1>7, <1>8
    <3>1. CASE i = Len(history)
      <4>1. Plain[history[Len(history)].new] = w.old
        BY <1>8, <2>5, <3>1 DEF LastIs
      <4> QED
        BY <1>3, <1>7, <3>1, <4>1
    <3>2. CASE i # Len(history)
      <4>1. i \in 1..(Len(history) - 1) /\ i + 1 \in 1..Len(history)
        BY <1>8, <3>2
      <4>2. Plain[history[i].new] = history[i + 1].old
        BY <4>1 DEF AdminInv, ParamInv
      <4> QED
        BY <1>7, <4>1, <4>2
    <3> QED
      BY <3>1, <3>2
  <2>8. Plain[runtime'] = runtime'
    BY <1>5 DEF AdminInv, ParamInv
  <2> HIDE DEF Alters, Recording, LastIs
  <2> QED
    BY <2>3, <2>4, <2>6, <2>7, <2>8 DEF ParamInv
<1> HIDE DEF Shape, Stored, Answered
<1> QED
  BY <1>1, <1>2, <1>5, <1>7, <1>9, <1>10, RequestEnds DEF InstanceTypeOK

LEMMA AdminBegins == InstanceInit => AdminInv
<1> SUFFICES ASSUME InstanceInit PROVE AdminInv
  OBVIOUS
<1>1. /\ runtime \in Settings /\ Plain[runtime] = runtime
      /\ visits = [v \in Visits |-> Blank(runtime)]
  BY DEF InstanceInit
<1>2. PICK b : b = Blank(runtime)
  OBVIOUS
<1>3. /\ b \in Visit /\ b.pc = "ended" /\ b.ok = FALSE /\ b.alone = FALSE
  BY <1>1, <1>2 DEF Blank, Visit
<1>4. \A v \in Visits : visits[v] = b
  BY <1>1, <1>2
<1>5. visits \in [Visits -> Visit]
  BY <1>1, <1>2, <1>3
<1>6. InstanceTypeOK
  <2>1. history \in Seq(History)
    BY DEF InstanceInit
  <2>2. users \in [Accounts -> Account \cup {NoUser}] /\ passwords \in [Accounts -> AccountRow]
    BY DEF InstanceInit, AccountRow, NoAccountRow
  <2>3. /\ dbType \in SUPPORTED_MANAGEMENT_DB_TYPE \cup WithParameters /\ databases \subseteq Databases
        /\ owners \in [Databases -> Owners \cup {NoOwner}] /\ pending \in Settings
        /\ begun \in 0..MaxVisits /\ cuts \in 0..MaxCuts /\ crossed \in BOOLEAN
    <3>1. begun \in 0..MaxVisits /\ cuts \in 0..MaxCuts
      BY InstanceAssumption DEF InstanceInit
    <3>2. owners \in [Databases -> Owners \cup {NoOwner}] /\ databases \subseteq Databases
      BY DEF InstanceInit
    <3>3. pending \in Settings /\ crossed \in BOOLEAN
      BY <1>1 DEF InstanceInit
    <3>4. dbType \in SUPPORTED_MANAGEMENT_DB_TYPE \cup WithParameters
      BY DEF InstanceInit
    <3> QED
      BY <3>1, <3>2, <3>3, <3>4
  <2> QED
    BY <1>1, <1>5, <2>1, <2>2, <2>3 DEF InstanceTypeOK
<1>7. \A v \in Visits : Fine(v)
  BY <1>3, <1>4 DEF Fine, Open
<1>8. Apart
  BY <1>3, <1>4 DEF Apart
<1>9. ParamInv
  <2>1. \A v \in Visits : ~ Alters(v) /\ ~ Recording(v)
    BY <1>3, <1>4 DEF Alters, Recording, Open
  <2>2. Len(history) = 0
    BY DEF InstanceInit
  <2>3. LastIs(runtime) /\ 1..(Len(history) - 1) = {}
    BY <2>2 DEF LastIs
  <2> HIDE DEF Alters, Recording, LastIs
  <2> QED
    BY <1>1, <2>1, <2>3 DEF ParamInv
<1> QED
  BY <1>6, <1>7, <1>8, <1>9 DEF AdminInv

LEMMA AdminStep == AdminInv /\ [InstanceNext]_instanceVars => AdminInv'
<1> SUFFICES ASSUME AdminInv, [InstanceNext]_instanceVars PROVE AdminInv'
  OBVIOUS
<1>1. CASE UNCHANGED instanceVars
  <2>1. UNCHANGED <<dbType, users, databases, runtime, pending, passwords, owners, history, visits, begun, cuts,
                    crossed>>
    BY <1>1 DEF instanceVars, server, stored
  <2>2. InstanceTypeOK'
    BY <2>1 DEF AdminInv, InstanceTypeOK
  <2>3. \A u \in Visits : Untouched(visits[u])
    BY <2>1 DEF Untouched
  <2> QED
    BY <2>1, <2>2, <2>3, SameIsSame, DisturbKeeps
<1>2. ASSUME NEW v \in Visits, InstanceStep(v) PROVE AdminInv'
  BY <1>2, CreatesBegin, AccountEditKeeps, OthersBegin, GrantsBegin, ResetsBegin, LocksBegin, DeletesBegin, DatabasesBegin,
     DatabaseEditKeeps, ParamsBegin, StatementKeeps, RefusedEnds, StoreAccountsKeeps, StorePasswordKeeps,
     DeleteAccountKeeps, StoreNothingKeeps, StoreDatabaseKeeps, StoreHistoryKeeps, CutKeeps DEF InstanceStep
<1>3. CASE ReloadConf
  BY <1>3, ReloadKeeps
<1> QED
  BY <1>1, <1>2, <1>3 DEF InstanceNext

\* What the management says of the server is true of it: a request that was answered with success has
\* done all of its work on the server and in its table, if nobody else was about the same, and the
\* history of the parameter leads to the value in force (sql_api/api_instance_admin.py).
THEOREM RecordsAreTrue == InstanceSpec => []RecordsTellTheServer
<1>1. InstanceInit => AdminInv
  BY AdminBegins
<1>2. AdminInv /\ [InstanceNext]_instanceVars => AdminInv'
  BY AdminStep
<1>3. AdminInv => RecordsTellTheServer
  <2> SUFFICES ASSUME AdminInv PROVE RecordsTellTheServer
    OBVIOUS
  <2>1. SuccessIsWhole
    <3> SUFFICES ASSUME NEW v \in Visits, ~ Open(v), visits[v].ok, visits[v].alone PROVE Done(visits[v])
      BY DEF SuccessIsWhole
    <3>1. PICK w : w = visits[v]
      OBVIOUS
    <3>2. w \in Visit /\ Shape(w) /\ Progress(w) /\ Stored(w) /\ w.todo = {}
      BY <3>1 DEF AdminInv, InstanceTypeOK, Fine
    <3>3. Done(w)
      <4>1. CASE w.kind \in {"create", "reset"}
        BY <3>2, <4>1 DEF Done, Shape, Progress, Stored, AccountKinds, Misspelt
      <4>2. CASE w.kind = "delete"
        BY <3>2, <4>2 DEF Done, Progress, Stored
      <4>3. CASE w.kind \in {"grant", "revoke", "lock", "unlock", "nothing"}
        BY <3>2, <4>3 DEF Done, Progress
      <4>4. CASE w.kind \in {"database", "param"}
        BY <3>2, <4>4 DEF Done, Progress, Stored
      <4> QED
        BY <3>2, <4>1, <4>2, <4>3, <4>4 DEF Visit
    <3> QED
      BY <3>1, <3>3
  <2>2. HistoryTellsRuntime
    <3> SUFFICES ASSUME dbType # "pgsql", ~ crossed, \A v \in Visits : Open(v) => visits[v].kind # "param",
                        NEW i \in 1..Len(history)
                 PROVE  Plain[history[i].new] = IF i = Len(history) THEN runtime ELSE history[i + 1].old
      BY DEF HistoryTellsRuntime
    <3>1. Len(history) \in Nat
      BY DEF AdminInv, InstanceTypeOK
    <3>2. LastIs(runtime)
      BY DEF AdminInv, ParamInv, Recording, Alters
    <3>3. CASE i = Len(history)
      BY <3>1, <3>2, <3>3 DEF LastIs
    <3>4. CASE i # Len(history)
      <4>1. i \in 1..(Len(history) - 1)
        BY <3>1, <3>4
      <4> QED
        BY <3>4, <4>1 DEF AdminInv, ParamInv
    <3> QED
      BY <3>3, <3>4
  <2> QED
    BY <2>1, <2>2 DEF RecordsTellTheServer
<1> QED
  BY <1>1, <1>2, <1>3, PTL DEF InstanceSpec

-----------------------------------------------------------------------------
(* Types, and the composition: what is true of a part is true of the whole.*)

\* Every reachable state of a query has its types, for every menu and number of rows
\* (execute_sql_query and the engines' filter_sql and query).
THEOREM QueryTypes == QuerySpec => []QueryTypeOK
<1>1. QueryInv => QueryTypeOK
  BY DEF QueryInv
<1> QED
  BY <1>1, QueryBegins, QueryStep, PTL DEF QuerySpec

\* So has every state of an export (offlinedownload.py): what is stored, and what is in the temporary
\* directory, are files of rows that there are.
THEOREM ExportTypes == ExportSpec => []ExportTypeOK
<1>1. ExportInv => ExportTypeOK
  BY DEF ExportInv
<1> QED
  BY <1>1, ExportBegins, ExportStep, PTL DEF ExportSpec

\* Every reachable state of the management of a server has its types (api_instance_admin.py).
THEOREM AdminTypes == InstanceSpec => []InstanceTypeOK
<1>1. AdminInv => InstanceTypeOK
  BY DEF AdminInv
<1> QED
  BY <1>1, AdminBegins, AdminStep, PTL DEF InstanceSpec

\* Every reachable state of a run of my2sql has its types (my2sql.py and api_misc.py).
THEOREM BinlogTypes == My2sqlSpec => []My2sqlTypeOK
<1>1. BinlogInv => My2sqlTypeOK
  BY DEF BinlogInv
<1> QED
  BY <1>1, BinlogBegins, BinlogStep, PTL DEF My2sqlSpec

\* The parts that share no state: the composition implements each of them, so that all that is proved of
\* them is true of what the run explores.
THEOREM EnginesAreTheirParts == MCSpec => Spec /\ InstanceSpec /\ DiffSpec /\ My2sqlSpec
<1>1. MCInit => Init /\ InstanceInit /\ DiffInit /\ My2sqlInit
  BY DEF MCInit
<1>2. [MCNext]_<<part, vars, queryVars, exportOwnVars, instanceVars, diffVars, my2sqlVars>>
        => [Next]_vars /\ [InstanceNext]_instanceVars /\ [DiffNext]_diffVars /\ [My2sqlNext]_my2sqlVars
  BY Zenon DEF MCNext
<1> QED
  BY <1>1, <1>2, PTL DEF MCSpec, Spec, InstanceSpec, DiffSpec, My2sqlSpec

\* A query and an export share the request, the statement and its limit: the one that is not chosen
\* does nothing.
SharedInv ==
  /\ part = "export" => ExportInv /\ stage = "idle" /\ QueryTypeOK
  /\ part # "export" => QueryInv /\ ExportTypeOK

\* In the beginning both have done nothing.
LEMMA SharedBegins == MCInit => SharedInv
<1>1. MCInit => QueryInv /\ ExportInv /\ stage = "idle"
  BY QueryBegins, ExportBegins DEF MCInit, QueryInit
<1> QED
  BY <1>1 DEF SharedInv, QueryInv, ExportInv

\* What is left of a query while an export goes on.
LEMMA ExportLeavesQuery ==
  ASSUME ExportInv', QueryTypeOK, stage = "idle", ExportNext PROVE stage' = "idle" /\ QueryTypeOK'
<1>1. UNCHANGED unasked
  BY DEF ExportNext, Fill, pre_count_check, CountRows, ReadRows, CheckRows, DataChange, DynamicStorage, NoStorage,
     Query, Store, SaveName, RunFails, WorkerDies, Configure, DownloadFileView, Reviewed, Ends
<1>2. text' \in Text /\ limit_num' \in 0..MaxRows
  BY DEF ExportInv, RequestType
<1>3. UNCHANGED <<stage, opened, conn, thread_id, killing, reply, answer_status, data, log>>
  BY <1>1 DEF unasked, threads, given
<1> QED
  BY <1>2, <1>3 DEF QueryTypeOK

\* Every step is one of the part that is chosen.
LEMMA SharedNext ==
  SharedInv /\ [MCNext]_<<part, vars, queryVars, exportOwnVars, instanceVars, diffVars, my2sqlVars>> => SharedInv'
<1> SUFFICES ASSUME SharedInv, [MCNext]_<<part, vars, queryVars, exportOwnVars, instanceVars, diffVars, my2sqlVars>>
             PROVE  SharedInv'
  OBVIOUS
<1>1. part' = part
  BY DEF MCNext
<1>2. CASE part = "export"
  <2>1. ExportNext \/ UNCHANGED <<queryVars, exportOwnVars>>
    BY <1>2 DEF MCNext
  <2>2. ExportInv'
    BY <2>1, <1>2, ExportStep DEF SharedInv
  <2>3. stage' = "idle" /\ QueryTypeOK'
    <3>1. CASE ExportNext
      BY <3>1, <1>2, <2>2, ExportLeavesQuery DEF SharedInv
    <3>2. CASE UNCHANGED queryVars
      BY <3>2, <1>2 DEF SharedInv, QueryTypeOK, queryVars, eng, stmt
    <3> QED
      BY <2>1, <3>1, <3>2
  <2> QED
    BY <1>1, <1>2, <2>2, <2>3 DEF SharedInv
<1>3. CASE part # "export"
  <2>1. [QueryNext]_queryVars /\ UNCHANGED exportOwnVars
    BY <1>3 DEF MCNext
  <2>2. QueryInv'
    BY <1>3, <2>1, QueryStep DEF SharedInv
  <2>3. ExportTypeOK'
    BY <1>3, <2>1 DEF SharedInv, ExportTypeOK, exportOwnVars
  <2> QED
    BY <1>1, <1>3, <2>2, <2>3 DEF SharedInv
<1> QED
  BY <1>2, <1>3

\* Every state that the run of the engines may reach has the types of all its parts, whichever is chosen
\* and for every instance of them.
THEOREM EnginesTypes == MCSpec => []EnginesTypeOK
<1>1. MCSpec => []SharedInv
  BY SharedBegins, SharedNext, PTL DEF MCSpec
<1>2. SharedInv => QueryTypeOK /\ ExportTypeOK
  BY DEF SharedInv, QueryInv, ExportInv
<1>3. EngineTypeOK /\ QueryTypeOK /\ ExportTypeOK /\ InstanceTypeOK /\ SchemaDiffTypeOK /\ My2sqlTypeOK
        => EnginesTypeOK
  BY DEF EnginesTypeOK
<1> QED
  BY <1>1, <1>2, <1>3, EnginesAreTheirParts, EngineRunTypes, AdminTypes, ComparisonTypes, BinlogTypes, PTL

\* While a query is under way, what is proved of queries is true of it, and while an export is, what is
\* proved of exports, for all that they share (sql_api/query_execute.py, sql/offlinedownload.py).
THEOREM SharedIsSafe ==
  MCSpec => [](IF part = "export" THEN ExportIsWhole
               ELSE RowsWithinLimit /\ QueriesChangeNothing /\ AnswersAreAccounted)
<1>1. MCSpec => []SharedInv
  BY SharedBegins, SharedNext, PTL DEF MCSpec
<1>2. SharedInv => IF part = "export" THEN ExportIsWhole
                   ELSE RowsWithinLimit /\ QueriesChangeNothing /\ AnswersAreAccounted
  <2>1. ExportInv => ExportIsWhole
    BY DEF ExportInv, FileInv, AllThere, ExportIsWhole
  <2> QED
    BY <2>1 DEF SharedInv, QueryInv
<1> QED
  BY <1>1, <1>2, PTL
=============================================================================
