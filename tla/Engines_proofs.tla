--------------------------- MODULE Engines_proofs ---------------------------
(***************************************************************************)
(* Proofs about the run of a ticket on its server, for any statements, any *)
(* objects, any length of the script and any number of failures.           *)
(***************************************************************************)
EXTENDS EngineRun, TLAPS, WellFoundedInduction

-----------------------------------------------------------------------------
(* The checks.                                                             *)

\* What no check of an engine lets through.
Harmless(e, s) ==
  /\ e \in {"mysql", "pgsql", "oracle", "mssql", "clickhouse", "tdengine", "doris"} =>
       s.verb # "query" /\ ~ s.critical
  /\ e \in Stores => s.verb # "query"

\* The row of a check about one statement.
GoodRow(e, s, i, row) ==
  /\ row.at = i /\ row \in [at : DOMAIN s, level : 0..2]
  /\ row.level # 2 => Harmless(e, s[i])

\* A check has a row for each statement, and lets no query and nothing critical through
\* (execute_check of each engine); Oracle's ends at a statement whose object it cannot read.
GoodReview(e, s, r) ==
  /\ r \in Seq([at : DOMAIN s, level : 0..2])
  /\ e # "oracle" => DOMAIN r = DOMAIN s
  /\ DOMAIN r \subseteq DOMAIN s
  /\ \A i \in DOMAIN r : GoodRow(e, s, i, r[i])

LEMMA LevelType == \A a, b : Level(a, b) \in 0..2
  BY DEF Level

\* A row for each statement of the script makes a review.
LEMMA RowsMakeReview ==
  ASSUME NEW e, NEW s \in Seq(Statement), NEW r,
         r = [i \in DOMAIN s |-> r[i]],
         \A i \in DOMAIN s : GoodRow(e, s, i, r[i])
  PROVE  GoodReview(e, s, r)
<1> DEFINE T == [at : DOMAIN s, level : 0..2]
<1>1. DOMAIN s = 1..Len(s) /\ Len(s) \in Nat
  OBVIOUS
<1>2. DOMAIN r = 1..Len(s)
  BY <1>1
<1>3. \A i \in 1..Len(s) : r[i] \in T
  BY <1>1 DEF GoodRow
<1> HIDE DEF T
<1>4. r \in Seq(T)
  <2>1. r \in [1..Len(s) -> T]
    BY <1>1, <1>2, <1>3
  <2> QED
    BY <1>1, <2>1
<1> QED
  BY <1>1, <1>2, <1>4 DEF GoodReview, T

\* A set of numbers that is not empty has a least one.
LEMMA LeastNumber ==
  ASSUME NEW S \in SUBSET Nat, S # {}
  PROVE  \E i \in S : \A j \in S : i <= j
<1> DEFINE Less == OpToRel(<, Nat)
<1>1. PICK i \in S : \A j \in S : <<j, i>> \notin Less
  BY NatLessThanWellFounded, WFMin
<1>2. ASSUME NEW j \in S, j < i
      PROVE  <<j, i>> \in Less
  BY <1>2 DEF OpToRel
<1>3. \A j \in S : ~ (j < i)
  BY <1>1, <1>2
<1> QED
  BY <1>3

\* The statements before the first of some are a beginning of the script.
LEMMA BeforeTheFirst ==
  ASSUME NEW n \in Nat, NEW U \in SUBSET (1..n)
  PROVE  \E m \in 0..n : {i \in 1..n : \A j \in U : i < j} = 1..m
<1>1. CASE U = {}
  BY <1>1
<1>2. CASE U # {}
  <2>1. PICK f \in U : \A j \in U : f <= j
    BY <1>2, LeastNumber
  <2>2. f - 1 \in 0..n /\ {i \in 1..n : \A j \in U : i < j} = 1..(f - 1)
    BY <2>1
  <2> QED
    BY <2>2
<1> QED
  BY <1>1, <1>2

\* Oracle's review.
LEMMA OracleReview ==
  ASSUME NEW s \in Seq(Statement), NEW sch
  PROVE  GoodReview("oracle", s, oracle_execute_check(s, sch))
<1> DEFINE U == {i \in DOMAIN s : s[i].verb \in {"create", "alter"} /\ ~ s[i].named}
           D == {i \in DOMAIN s : \A j \in U : i < j}
           R == oracle_execute_check(s, sch)
<1>1. DOMAIN s = 1..Len(s) /\ Len(s) \in Nat
  OBVIOUS
<1>2. PICK m \in 0..Len(s) : D = 1..m
  <2>1. U \in SUBSET (1..Len(s))
    BY <1>1
  <2>2. D = {i \in 1..Len(s) : \A j \in U : i < j}
    BY <1>1
  <2> HIDE DEF U, D
  <2> QED
    BY <1>1, <2>1, <2>2, BeforeTheFirst
<1>3. R = [i \in D |-> Row(i, oracle_level(s[i], sch, oracle_made(s, sch, i - 1)))]
  BY DEF oracle_execute_check
<1> HIDE DEF U, D, R
<1>4. ASSUME NEW i \in 1..m
      PROVE  R[i] \in [at : DOMAIN s, level : 0..2] /\ GoodRow("oracle", s, i, R[i])
  <2> DEFINE l == oracle_level(s[i], sch, oracle_made(s, sch, i - 1))
  <2>1. R[i] = Row(i, l)
    BY <1>2, <1>3
  <2>2. l \in 0..2 /\ (l # 2 => s[i].verb # "query" /\ ~ s[i].critical)
    <3>1. l \in 0..2
      <4>1. 1 \in 0..2 /\ 2 \in 0..2
        OBVIOUS
      <4> QED
        BY <4>1, LevelType, Zenon DEF oracle_level, oracle_explained, oracle_looked_up
    <3>2. oracle_refused(s[i]) => l = 2
      BY DEF oracle_level
    <3>3. ~ oracle_refused(s[i]) => s[i].verb # "query" /\ ~ s[i].critical
      BY Zenon DEF oracle_refused
    <3> QED
      BY <3>1, <3>2, <3>3
  <2> HIDE DEF l
  <2> QED
    BY <1>1, <2>1, <2>2 DEF Row, GoodRow, Harmless, Stores
<1>5. R \in Seq([at : DOMAIN s, level : 0..2])
  <2> DEFINE T == [at : DOMAIN s, level : 0..2]
  <2>1. R \in [1..m -> T]
    BY <1>2, <1>3, <1>4
  <2>2. m \in Nat
    BY <1>1
  <2> HIDE DEF T
  <2>3. R \in Seq(T)
    BY <2>1, <2>2
  <2> QED
    BY <2>3 DEF T
<1>6. DOMAIN R \subseteq DOMAIN s /\ \A i \in DOMAIN R : GoodRow("oracle", s, i, R[i])
  BY <1>1, <1>2, <1>3, <1>4
<1>7. GoodReview("oracle", s, R)
  BY <1>5, <1>6 DEF GoodReview
<1> QED
  BY <1>7 DEF R

\* The review of each engine is good, whatever the server and the configuration.
LEMMA ReviewsAreGood ==
  ASSUME NEW e \in Engines, NEW s \in Seq(Statement), NEW separated \in BOOLEAN,
         NEW connected \in BOOLEAN
  PROVE  GoodReview(e, s, execute_check(e, s, separated, connected))
<1>0. DOMAIN s = 1..Len(s) /\ Len(s) \in Nat
  OBVIOUS
<1> DEFINE Lets(l, x) == l \in 0..2 /\ (l # 2 => Harmless(e, x))
           R == execute_check(e, s, separated, connected)
<1> SUFFICES GoodReview(e, s, R)
  OBVIOUS
<1> HIDE DEF R
<1>a. ASSUME NEW level, R = [i \in DOMAIN s |-> Row(i, level[i])],
             \A i \in DOMAIN s : Lets(level[i], s[i])
      PROVE  GoodReview(e, s, R)
  <2>1. R = [i \in DOMAIN s |-> R[i]]
    BY <1>a
  <2>2. \A i \in DOMAIN s : GoodRow(e, s, i, R[i])
    BY <1>a DEF GoodRow, Row
  <2> QED
    BY <2>1, <2>2, RowsMakeReview
<1>1. CASE e = "oracle"
  BY <1>1, OracleReview DEF R, execute_check
<1>2. CASE e = "mysql"
  <2> DEFINE first == GoInceptionLevels(s, schema)
             plain(i) == s[i].verb # "query" /\ ~ s[i].critical
  <2>1. \A i \in DOMAIN s : first[i].level \in 0..2 /\ first[i] = Row(i, first[i].level)
    BY LevelType DEF GoInceptionLevels, Row
  <2>2. PICK mixed : R = [i \in DOMAIN s |-> IF ~ plain(i) \/ mixed[i] THEN Row(i, 2) ELSE first[i]]
    <3> DEFINE flag == {i \in DOMAIN s : plain(i) /\ \A j \in 1..(i - 1) : ~ plain(j)}
               mix(i) == separated /\ plain(i) /\ \E j \in flag : Kind(s[i]) # Kind(s[j])
    <3>1. R = [i \in DOMAIN s |-> IF ~ plain(i) \/ mix(i) THEN Row(i, 2) ELSE first[i]]
      BY <1>2, Zenon DEF R, execute_check, mysql_execute_check
    <3> HIDE DEF mix
    <3> WITNESS [i \in DOMAIN s |-> mix(i)]
    <3> QED
      BY <3>1
  <2> DEFINE level == [i \in DOMAIN s |-> IF ~ plain(i) \/ mixed[i] THEN 2 ELSE first[i].level]
  <2>3. R = [i \in DOMAIN s |-> Row(i, level[i])]
    BY <2>1, <2>2
  <2>4. \A i \in DOMAIN s : Lets(level[i], s[i])
    BY <2>1, <1>2 DEF Harmless, Stores
  <2> HIDE DEF level
  <2> QED
    BY <1>a, <2>3, <2>4
<1>3. CASE e = "tdengine"
  <2> DEFINE level == [i \in DOMAIN s |->
                tdengine_level(s[i], workflow_obj_check(schema, tdengine_made(s, schema, i - 1)))]
  <2>1. R = [i \in DOMAIN s |-> Row(i, level[i])]
    BY <1>3 DEF R, execute_check, tdengine_execute_check
  <2>2. ASSUME NEW i \in DOMAIN s
        PROVE  Lets(level[i], s[i])
    <3>1. level[i] \in 0..2 /\ (level[i] # 2 => s[i].verb # "query" /\ ~ s[i].critical)
      BY LevelType DEF tdengine_level, Level
    <3> HIDE DEF level
    <3> QED
      BY <1>3, <3>1 DEF Harmless, Stores
  <2> HIDE DEF level
  <2> QED
    BY <1>a, <2>1, <2>2
<1>4. CASE e = "pgsql"
  <2> DEFINE level == [i \in DOMAIN s |-> pgsql_level(s[i])]
  <2>1. R = [i \in DOMAIN s |-> Row(i, level[i])]
    BY <1>4 DEF R, execute_check, EachBy
  <2>2. \A i \in DOMAIN s : Lets(level[i], s[i])
    BY <1>4 DEF pgsql_level, Level, Harmless, Stores
  <2> HIDE DEF level
  <2> QED
    BY <1>a, <2>1, <2>2
<1>5. CASE e = "mssql"
  <2> DEFINE level == [i \in DOMAIN s |-> mssql_level(s[i], connected)]
  <2>1. R = [i \in DOMAIN s |-> Row(i, level[i])]
    BY <1>5 DEF R, execute_check, EachBy
  <2>2. \A i \in DOMAIN s : Lets(level[i], s[i])
    BY <1>5 DEF mssql_level, Level, Harmless, Stores
  <2> HIDE DEF level
  <2> QED
    BY <1>a, <2>1, <2>2
<1>6. CASE e = "clickhouse"
  <2> DEFINE level == [i \in DOMAIN s |-> clickhouse_level(s[i], schema)]
  <2>1. R = [i \in DOMAIN s |-> Row(i, level[i])]
    BY <1>6 DEF R, execute_check, EachBy
  <2>2. \A i \in DOMAIN s : Lets(level[i], s[i])
    BY <1>6 DEF clickhouse_level, Level, Harmless, Stores
  <2> HIDE DEF level
  <2> QED
    BY <1>a, <2>1, <2>2
<1>7. CASE e = "doris"
  <2> DEFINE level == [i \in DOMAIN s |-> doris_level(s[i])]
  <2>1. R = [i \in DOMAIN s |-> Row(i, level[i])]
    BY <1>7 DEF R, execute_check, EachBy
  <2>2. \A i \in DOMAIN s : Lets(level[i], s[i])
    BY <1>7 DEF doris_level, Level, Harmless, Stores
  <2> HIDE DEF level
  <2> QED
    BY <1>a, <2>1, <2>2
<1>8. CASE e = "cassandra"
  <2> DEFINE level == [i \in DOMAIN s |-> cassandra_level(s[i])]
  <2>1. R = [i \in DOMAIN s |-> Row(i, level[i])]
    BY <1>8 DEF R, execute_check, EachBy
  <2>2. \A i \in DOMAIN s : Lets(level[i], s[i])
    BY <1>8 DEF cassandra_level, Level, Harmless, Stores
  <2> HIDE DEF level
  <2> QED
    BY <1>a, <2>1, <2>2
<1>9. CASE e = "phoenix"
  <2> DEFINE level == [i \in DOMAIN s |-> phoenix_level(s[i])]
  <2>1. R = [i \in DOMAIN s |-> Row(i, level[i])]
    BY <1>9 DEF R, execute_check, EachBy
  <2>2. \A i \in DOMAIN s : Lets(level[i], s[i])
    BY <1>9 DEF phoenix_level, Level, Harmless, Stores
  <2> HIDE DEF level
  <2> QED
    BY <1>a, <2>1, <2>2
<1>10. CASE e = "redis"
  <2> DEFINE level == [i \in DOMAIN s |-> redis_level(s[i])]
  <2>1. R = [i \in DOMAIN s |-> Row(i, level[i])]
    BY <1>10 DEF R, execute_check, EachBy
  <2>2. \A i \in DOMAIN s : Lets(level[i], s[i])
    BY <1>10 DEF redis_level, Level, Harmless, Stores
  <2> HIDE DEF level
  <2> QED
    BY <1>a, <2>1, <2>2
<1>11. CASE e = "memcached"
  <2> DEFINE level == [i \in DOMAIN s |-> memcached_level(s[i])]
  <2>1. R = [i \in DOMAIN s |-> Row(i, level[i])]
    BY <1>11 DEF R, execute_check, EachBy
  <2>2. \A i \in DOMAIN s : Lets(level[i], s[i])
    BY <1>11 DEF memcached_level, Changes, Level, Harmless, Stores
  <2> HIDE DEF level
  <2> QED
    BY <1>a, <2>1, <2>2
<1>12. CASE e = "elasticsearch"
  <2> DEFINE level == [i \in DOMAIN s |-> elasticsearch_level(s[i])]
  <2>1. R = [i \in DOMAIN s |-> Row(i, level[i])]
    BY <1>12 DEF R, execute_check, EachBy
  <2>2. \A i \in DOMAIN s : Lets(level[i], s[i])
    BY <1>12 DEF elasticsearch_level, Changes, Level, Harmless, Stores
  <2> HIDE DEF level
  <2> QED
    BY <1>a, <2>1, <2>2
<1>13. CASE e = "mongo"
  <2> DEFINE level == [i \in DOMAIN s |-> mongo_level(s[i], schema)]
  <2>1. R = [i \in DOMAIN s |-> Row(i, level[i])]
    BY <1>13 DEF R, execute_check, EachBy
  <2>2. \A i \in DOMAIN s : Lets(level[i], s[i])
    BY <1>13 DEF mongo_level, mongo_index_level, Level, Harmless, Stores
  <2> HIDE DEF level
  <2> QED
    BY <1>a, <2>1, <2>2
<1> QED
  BY <1>1, <1>2, <1>3, <1>4, <1>5, <1>6, <1>7, <1>8, <1>9, <1>10, <1>11, <1>12, <1>13 DEF Engines

-----------------------------------------------------------------------------
(* The plan of a run.                                                      *)

\* SQL Server and Cassandra begin with USE.
Ahead == IF engine \in {"mssql", "cassandra"} THEN 1 ELSE 0

\* The plan has the statements in their order, and none twice (get_exec_sqlitem_list and
\* the loops of the engines).
LEMMA PlanIsInOrder ==
  ASSUME script \in Seq(Statement), Len(script) <= MaxStatements,
         GoodReview(engine, script, rows)
  PROVE  /\ Planned \in Seq(Places)
         /\ Len(Planned) = Ahead + IF engine = "oracle" THEN Len(rows) ELSE Len(script)
         /\ \A k \in DOMAIN Planned : Planned[k] = k - Ahead
         /\ \A k \in DOMAIN Planned : Planned[k] # Use => Planned[k] \in DOMAIN rows
<1>1. DOMAIN script = 1..Len(script) /\ Len(script) \in Nat /\ MaxStatements \in Nat
  BY EngineAssumption
<1>2. DOMAIN rows = 1..Len(rows) /\ Len(rows) \in Nat
  BY DEF GoodReview
<1>3. DOMAIN rows \subseteq DOMAIN script /\ \A i \in DOMAIN rows : rows[i].at = i
  BY DEF GoodReview, GoodRow
<1>4. CASE engine = "oracle"
  <2>1. Planned = [i \in 1..Len(rows) |-> i]
    BY <1>2, <1>3, <1>4 DEF Planned
  <2>2. \A i \in 1..Len(rows) : i \in Places
    BY <1>1, <1>2, <1>3 DEF Places, Whole
  <2>3. Planned \in [1..Len(rows) -> Places]
    BY <2>1, <2>2
  <2>4. Planned \in Seq(Places) /\ Len(Planned) = Len(rows)
    <3> HIDE DEF Places
    <3> QED
      BY <1>2, <2>1, <2>3
  <2> QED
    BY <1>2, <1>4, <2>1, <2>4 DEF Ahead
<1>5. CASE engine # "oracle"
  <2> DEFINE all == [i \in 1..Len(script) |-> i]
  <2>1. \A i \in 1..Len(script) : i \in Places
    BY <1>1 DEF Places, Whole
  <2>2. all \in [1..Len(script) -> Places] /\ 0 \in Places
    BY <1>1, <2>1 DEF Places, Whole
  <2>3. all \in Seq(Places) /\ Len(all) = Len(script)
    <3> HIDE DEF Places
    <3> QED
      BY <1>1, <2>2
  <2>4. DOMAIN rows = 1..Len(script)
    BY <1>1, <1>5 DEF GoodReview
  <2>5. CASE engine \in {"mssql", "cassandra"}
    <3>1. Planned = <<0>> \o all
      BY <1>1, <1>5, <2>5 DEF Planned, Use
    <3>2. <<0>> \in Seq(Places) /\ Len(<<0>>) = 1 /\ <<0>>[1] = 0
      BY <2>2
    <3>3. /\ Planned \in Seq(Places) /\ Len(Planned) = 1 + Len(script)
          /\ \A k \in 1..(1 + Len(script)) : Planned[k] = IF k = 1 THEN 0 ELSE all[k - 1]
      <4> HIDE DEF Places, all
      <4> QED
        BY <1>1, <2>3, <3>1, <3>2
    <3>4. ASSUME NEW k \in 1..(1 + Len(script))
          PROVE  Planned[k] = k - 1
      <4>1. k \in Nat /\ (k # 1 => k - 1 \in 1..Len(script))
        BY <1>1
      <4>2. k # 1 => all[k - 1] = k - 1
        BY <4>1
      <4>3. Planned[k] = IF k = 1 THEN 0 ELSE all[k - 1]
        BY <3>3
      <4> HIDE DEF all
      <4> QED
        BY <4>1, <4>2, <4>3
    <3>5. DOMAIN Planned = 1..(1 + Len(script))
      <4> HIDE DEF Places
      <4> QED
        BY <3>3
    <3>6. Ahead = 1 /\ Use = 0
      BY <2>5 DEF Ahead, Use
    <3>7. \A k \in DOMAIN Planned : Planned[k] = k - Ahead /\ (Planned[k] # Use => Planned[k] \in DOMAIN rows)
      BY <1>1, <2>4, <3>4, <3>5, <3>6
    <3> QED
      BY <1>5, <3>3, <3>6, <3>7
  <2>6. CASE engine \notin {"mssql", "cassandra"}
    <3>1. Planned = << >> \o all
      BY <1>1, <1>5, <2>6 DEF Planned
    <3>2. Planned = all
      <4>1. \A q \in Seq(Places) : << >> \o q = q
        OBVIOUS
      <4> HIDE DEF all
      <4> QED
        BY <2>3, <3>1, <4>1
    <3>3. DOMAIN Planned = 1..Len(script) /\ \A k \in 1..Len(script) : Planned[k] = k
      BY <3>2
    <3> QED
      BY <1>1, <1>5, <2>3, <2>4, <2>6, <3>2, <3>3 DEF Ahead
  <2> QED
    BY <2>5, <2>6
<1> QED
  BY <1>4, <1>5

-----------------------------------------------------------------------------
(* What all engines have in common.  Each step of a run is one of three:   *)
(* a statement is sent and the run goes on, a statement is refused and the *)
(* run is over, or the run is over for another reason.                     *)

\* A row about a statement that was sent.
TellsOf(row, at, answer) ==
  /\ row.at = at /\ row \in [at : Places, level : 0..2, word : {"ok", "noted", "failed"}]
  /\ row.word = "ok" <=> answer = "ok"
  /\ row.word = "noted" => answer \in Settled(engine)

GoesOn == engine = "mongo" \/ (engine = "mssql" /\ plan[next] = Use)

Took ==
  /\ Running /\ next <= Len(plan)
  /\ \E answer \in AnswersTo(plan[next]) :
       /\ Send(plan[next], answer)
       /\ answer \in Settled(engine) \/ GoesOn
       /\ error' = (error \/ answer \notin Settled(engine))
       /\ schema' = Effect(plan[next], answer)
       /\ \/ \E row : TellsOf(row, plan[next], answer) /\ results' = Append(results, row)
          \/ engine = "mongo" /\ answer = "invalid" /\ results' = results
  /\ next' = next + 1
  /\ UNCHANGED done
  /\ RunKeeps

Broke ==
  /\ Running /\ next <= Len(plan)
  /\ \E answer \in AnswersTo(plan[next]) :
       /\ Send(plan[next], answer)
       /\ answer \notin Settled(engine)
       /\ schema' = IF engine = "pgsql" THEN before ELSE Effect(plan[next], answer)
  /\ next' = next /\ done' = TRUE /\ error' = TRUE
  /\ \/ results' = WholeFailed
     \/ \E skip \in {Skipped, SkippedAsError, ToldAsFailed} :
          /\ skip = ToldAsFailed => engine \in {"cassandra", "phoenix"}
          /\ results' = Append(results, Told(plan[next], 2, "failed")) \o RestTold(skip)
  /\ RunKeeps

Quit ==
  /\ Running /\ Trouble
  /\ UNCHANGED <<engine, ticket, status, touched, before, plan, next, sent>>
  /\ \/ engine # "memcached" /\ raised' = TRUE /\ UNCHANGED <<schema, results, error, done>>
     \/ /\ error' = TRUE /\ done' = TRUE /\ raised' = raised
        /\ \/ /\ schema' = schema
              /\ \/ results' = WholeFailed
                 \/ next = 1 /\ results' = WholeFailed \o RestTold(Skipped)
           \/ /\ engine = "pgsql" /\ next > Len(plan) /\ schema' = before
              /\ results' = Append(results, Told(plan[Len(plan)], 2, "failed"))

\* The run of each engine.
LEMMA RunCases ==
  ASSUME Run, error \in BOOLEAN,
         next \in Nat \ {0}, plan \in Seq(Places),
         engine = "memcached" /\ next <= Len(plan) => results = << >>
  PROVE  Took \/ Broke \/ Quit
<1>0. ASSUME next <= Len(plan)
      PROVE  plan[next] \in Places
  BY <1>0
<1>1. ASSUME NEW noted, NEW skip \in {Skipped, SkippedAsError, ToldAsFailed}, NEW undo,
             StopAtFailure(noted, skip, undo),
             noted \cup {"ok"} = Settled(engine),
             skip = ToldAsFailed => engine \in {"cassandra", "phoenix"},
             undo = (engine = "pgsql")
      PROVE  Took \/ Broke
  <2>1. Running /\ next <= Len(plan) /\ RunKeeps
    BY <1>1 DEF StopAtFailure
  <2>2. PICK answer \in AnswersTo(plan[next]) :
          /\ Send(plan[next], answer)
          /\ \/ /\ answer \in noted \cup {"ok"}
                /\ results' = Append(results, IF answer = "ok" THEN Told(plan[next], 0, "ok")
                                              ELSE Told(plan[next], 1, "noted"))
                /\ schema' = Effect(plan[next], answer) /\ next' = next + 1
                /\ UNCHANGED <<error, done>>
             \/ /\ answer \notin noted \cup {"ok"}
                /\ results' = Append(results, Told(plan[next], 2, "failed")) \o RestTold(skip)
                /\ schema' = IF undo THEN before ELSE Effect(plan[next], answer)
                /\ error' = TRUE /\ done' = TRUE /\ next' = next
    BY <1>1, Zenon DEF StopAtFailure
  <2>3. CASE answer \in Settled(engine)
    <3> DEFINE row == IF answer = "ok" THEN Told(plan[next], 0, "ok")
                      ELSE Told(plan[next], 1, "noted")
    <3>1. TellsOf(row, plan[next], answer)
      BY <1>0, <2>1, <2>3 DEF TellsOf, Told
    <3>2. results' = Append(results, row) /\ error' = error /\ done' = done
          /\ schema' = Effect(plan[next], answer) /\ next' = next + 1
      BY <1>1, <2>2, <2>3, Zenon
    <3> HIDE DEF row
    <3>3. \E r : TellsOf(r, plan[next], answer) /\ results' = Append(results, r)
      BY <3>1, <3>2, Zenon
    <3>4. error' = (error \/ answer \notin Settled(engine))
      BY <2>3, <3>2
    <3> QED
      BY <2>1, <2>2, <2>3, <3>2, <3>3, <3>4, Zenon DEF Took
  <2>4. CASE answer \notin Settled(engine)
    <3>1. schema' = IF engine = "pgsql" THEN before ELSE Effect(plan[next], answer)
      BY <1>1, <2>2, <2>4
    <3>2. results' = Append(results, Told(plan[next], 2, "failed")) \o RestTold(skip)
      BY <1>1, <2>2, <2>4, Zenon
    <3>3. next' = next /\ done' = TRUE /\ error' = TRUE
      BY <1>1, <2>2, <2>4, Zenon
    <3> QED
      BY <1>1, <2>1, <2>2, <2>4, <3>1, <3>2, <3>3, Zenon DEF Broke
  <2> QED
    BY <2>3, <2>4
<1>2. ASSUME NEW told, GoOn(told), Settled(engine) = {"ok"}, GoesOn,
             \A answer \in AnswersTo(plan[next]) :
               answer \in told \cup {"ok"} \/ (engine = "mongo" /\ answer = "invalid")
      PROVE  Took
  <2>1. Running /\ next <= Len(plan) /\ RunKeeps /\ next' = next + 1 /\ done' = done
    BY <1>2 DEF GoOn
  <2>2. PICK answer \in AnswersTo(plan[next]) :
          /\ Send(plan[next], answer)
          /\ results' = IF answer = "ok" THEN Append(results, Told(plan[next], 0, "ok"))
                        ELSE IF answer \in told THEN Append(results, Told(plan[next], 2, "failed"))
                        ELSE results
          /\ error' = (error \/ answer # "ok")
          /\ schema' = Effect(plan[next], answer)
    BY <1>2, Zenon DEF GoOn
  <2>3. error' = (error \/ answer \notin Settled(engine))
    BY <1>2, <2>2
  <2>4. \/ \E row : TellsOf(row, plan[next], answer) /\ results' = Append(results, row)
        \/ engine = "mongo" /\ answer = "invalid" /\ results' = results
    <3>1. CASE answer = "ok"
      <4>1. TellsOf(Told(plan[next], 0, "ok"), plan[next], answer)
        BY <1>0, <2>1, <3>1 DEF TellsOf, Told
      <4> QED
        BY <2>2, <3>1, <4>1, Zenon
    <3>2. CASE answer # "ok" /\ answer \in told
      <4>1. TellsOf(Told(plan[next], 2, "failed"), plan[next], answer)
        BY <1>0, <2>1, <3>2 DEF TellsOf, Told
      <4> QED
        BY <2>2, <3>2, <4>1, Zenon
    <3>3. CASE answer # "ok" /\ answer \notin told
      BY <1>2, <2>2, <3>3, Zenon
    <3> QED
      BY <3>1, <3>2, <3>3
  <2> QED
    BY <1>2, <2>1, <2>2, <2>3, <2>4, Zenon DEF Took
<1>3. ASSUME NEW answer \in AnswersTo(plan[next]), next <= Len(plan)
      PROVE  answer \in Answers
  BY <1>3 DEF AnswersTo, Answers, Answer, StoreAnswer, SqlAnswer
<1>4. CASE oracle_execute \/ clickhouse_execute \/ tdengine_execute \/ redis_execute
           \/ doris_execute \/ cassandra_execute \/ phoenix_execute \/ goinception_execute
           \/ elasticsearch_execute \/ pgsql_execute
  <2>0. Skipped # ToldAsFailed /\ SkippedAsError # ToldAsFailed
    BY DEF Skipped, SkippedAsError, ToldAsFailed
  <2> USE DEF Settled
  <2>1. CASE oracle_execute
    BY <1>1, <2>0, <2>1 DEF oracle_execute
  <2>2. CASE clickhouse_execute
    BY <1>1, <2>0, <2>2 DEF clickhouse_execute
  <2>3. CASE tdengine_execute
    BY <1>1, <2>0, <2>3 DEF tdengine_execute
  <2>4. CASE redis_execute
    BY <1>1, <2>0, <2>4 DEF redis_execute
  <2>5. CASE doris_execute
    BY <1>1, <2>0, <2>5 DEF doris_execute
  <2>6. CASE cassandra_execute
    BY <1>1, <2>0, <2>6 DEF cassandra_execute
  <2>7. CASE phoenix_execute
    BY <1>1, <2>0, <2>7 DEF phoenix_execute
  <2>8. CASE goinception_execute
    BY <1>1, <2>0, <2>8 DEF goinception_execute
  <2>9. CASE elasticsearch_execute
    BY <1>1, <2>0, <2>9 DEF elasticsearch_execute
  <2>10. CASE pgsql_execute
    BY <1>1, <2>0, <2>10 DEF pgsql_execute
  <2> QED
    BY <1>4, <2>1, <2>2, <2>3, <2>4, <2>5, <2>6, <2>7, <2>8, <2>9, <2>10
<1>5. CASE mongo_execute
  <2>1. engine = "mongo" /\ GoOn(Answers \ {"invalid"}) /\ next <= Len(plan)
    BY <1>5 DEF mongo_execute, GoOn
  <2>2. Settled(engine) = {"ok"} /\ GoesOn
    BY <2>1 DEF Settled, GoesOn
  <2> QED
    BY <1>2, <1>3, <2>1, <2>2
<1>6. CASE mssql_execute
  <2>1. engine = "mssql" /\ Settled(engine) = {"ok"}
    BY <1>6 DEF mssql_execute, Settled
  <2>2. CASE next <= Len(plan) /\ plan[next] = Use
    <3>1. GoOn(Answers) /\ GoesOn
      BY <1>6, <2>1, <2>2 DEF mssql_execute, GoesOn
    <3> QED
      BY <1>2, <1>3, <2>1, <2>2, <3>1
  <2>3. CASE ~ (next <= Len(plan) /\ plan[next] = Use)
    <3>1. StopAtFailure({}, Skipped, FALSE)
      BY <1>6, <2>3, Zenon DEF mssql_execute
    <3>2. Skipped # ToldAsFailed /\ {} \cup {"ok"} = Settled(engine) /\ FALSE = (engine = "pgsql")
      BY <2>1 DEF Skipped, ToldAsFailed
    <3> QED
      BY <1>1, <3>1, <3>2
  <2> QED
    BY <2>2, <2>3
<1>7. CASE memcached_execute
  <2>1. /\ engine = "memcached" /\ Running /\ next <= Len(plan) /\ RunKeeps /\ results = << >>
        /\ Settled(engine) = {"ok", "missing"}
    BY <1>7 DEF memcached_execute, Settled
  <2>2. PICK answer \in AnswersTo(plan[next]) :
       /\ Send(plan[next], answer)
       /\ schema' = Effect(plan[next], answer)
       /\ IF answer \in {"ok", "missing"}
          THEN /\ results' = <<Told(plan[next], 0, IF answer = "ok" THEN "ok" ELSE "failed")>>
               /\ next' = next + 1
               /\ UNCHANGED <<error, done>>
          ELSE GiveUp(WholeFailed) /\ UNCHANGED next
    BY <1>7, Zenon DEF memcached_execute
  <2>3. CASE answer \in {"ok", "missing"}
    <3> DEFINE row == Told(plan[next], 0, IF answer = "ok" THEN "ok" ELSE "failed")
    <3>1. results' = <<row>> /\ next' = next + 1 /\ error' = error /\ done' = done
      BY <2>2, <2>3, Zenon
    <3>2. TellsOf(row, plan[next], answer)
      BY <1>0, <2>1, <2>3 DEF TellsOf, Told
    <3> HIDE DEF row
    <3>3. results' = Append(results, row)
      BY <2>1, <3>1
    <3>4. error' = (error \/ answer \notin Settled(engine))
      BY <2>1, <2>3, <3>1
    <3> QED
      BY <2>1, <2>2, <2>3, <3>1, <3>2, <3>3, <3>4, Zenon DEF Took
  <2>4. CASE answer \notin {"ok", "missing"}
    BY <2>1, <2>2, <2>4 DEF GiveUp, Broke
  <2> QED
    BY <2>3, <2>4
<1>8. CASE mysql_read_only \/ goinception_crash \/ pgsql_commit_fails
  BY <1>8 DEF mysql_read_only, goinception_crash, pgsql_commit_fails, GiveUp, Quit, RunKeeps, ticket
<1>9. CASE NotConnected \/ ReconnectFails
  BY <1>9 DEF NotConnected, ReconnectFails, GiveUp, Quit, RunKeeps, ticket, instance, outcome
<1> QED
  BY <1>4, <1>5, <1>6, <1>7, <1>8, <1>9 DEF Run

-----------------------------------------------------------------------------
(* Types, and how far a ticket is.                                         *)

Beginning == {"draft", "autoreviewwrong", "manreviewing", "review_pass"}

\* How far the ticket is: nothing of a run is there before it; then the plan is that of
\* the script or of its review, and no row of the review is an error.
Phase ==
  /\ status \in Beginning =>
       /\ plan = << >> /\ next = 1 /\ results = << >> /\ sent = << >>
       /\ ~ error /\ ~ done /\ ~ raised
  /\ status = "draft" => script = << >> /\ rows = << >>
  /\ status # "draft" =>
       /\ Len(script) >= 1 /\ (engine = "memcached" => Len(script) = 1)
       /\ GoodReview(engine, script, rows)
  /\ status \notin {"draft", "autoreviewwrong"} => \A i \in DOMAIN rows : rows[i].level # 2
  /\ status \notin Beginning => plan = Planned
  /\ Ended => done \/ raised
  /\ ~ (done /\ raised)
  /\ Ended /\ raised => results = WholeFailed
  \* Memcached's only statement has the only row, and its engine raises nothing.
  /\ engine = "memcached" => ~ raised
  /\ engine = "memcached" /\ ~ done => Len(results) = next - 1

TypePhase == EngineTypeOK /\ Phase

LEMMA PhaseInit == Init => TypePhase
<1> SUFFICES ASSUME Init PROVE TypePhase
  OBVIOUS
<1>1. schema \in Schema
  BY EngineAssumption DEF Init
<1>2. EngineTypeOK
  <2>1. \A S : << >> \in Seq(S)
    OBVIOUS
  <2>2. script \in Seq(Menu[engine]) /\ rows \in Seq([at : DOMAIN script, level : 0..2])
    BY <2>1 DEF Init
  <2>3. /\ plan \in Seq(Places) /\ results \in Seq([at : Places, level : 0..2, word : Words])
        /\ sent \in Seq([at : Places, answer : Answers])
    BY <2>1 DEF Init
  <2>4. Len(script) <= MaxStatements /\ next \in 1..(Len(plan) + 1) /\ faults \in 0..MaxFaults
    BY EngineAssumption DEF Init
  <2> QED
    BY <1>1, <2>2, <2>3, <2>4 DEF Init, EngineTypeOK
<1>3. Phase
  BY DEF Init, Phase, Beginning, Ended
<1> QED
  BY <1>2, <1>3 DEF TypePhase

\* What a script is made of.
LEMMA ScriptsAreStatements ==
  ASSUME EngineTypeOK
  PROVE  script \in Seq(Statement)
<1>1. Menu[engine] \subseteq Statement
  BY EngineAssumption DEF EngineTypeOK
<1>2. script \in Seq(Menu[engine])
  BY DEF EngineTypeOK
<1> HIDE DEF Statement
<1> QED
  BY <1>1, <1>2

\* A statement leaves a server with types (Effect, After).
LEMMA EffectTypes ==
  ASSUME EngineTypeOK, NEW answer,
         NEW at \in Places, at # Use => at \in DOMAIN script
  PROVE  Effect(at, answer) \in Schema
<1>1. CASE at # Use /\ answer \in {"ok", "uncompiled"}
  <2>1. script[at] \in Statement
    BY <1>1, ScriptsAreStatements
  <2>2. script[at].obj \in Objects /\ script[at].kind \in Types /\ schema \in [Objects -> Types]
    BY <2>1 DEF Statement, EngineTypeOK, Schema
  <2>3. {"none", "ctable", "table"} \subseteq Types
    BY DEF Types
  <2>4. \A t \in Types : [schema EXCEPT ![script[at].obj] = t] \in [Objects -> Types]
    BY <2>2
  <2>5. After(engine, schema, script[at]) \in [Objects -> Types]
    BY <2>2, <2>3, <2>4 DEF After
  <2> QED
    BY <1>1, <2>5 DEF Effect, Schema
<1>2. CASE ~ (at # Use /\ answer \in {"ok", "uncompiled"})
  BY <1>2 DEF Effect, EngineTypeOK
<1> QED
  BY <1>1, <1>2

\* What the server answers.
LEMMA AnswersAreAnswers ==
  ASSUME NEW at
  PROVE  AnswersTo(at) \subseteq Answers
  BY DEF AnswersTo, Answers, Answer, StoreAnswer, SqlAnswer

\* The steps before a run.
LEMMA PhaseBeforeRun ==
  ASSUME TypePhase, Submit \/ Approve \/ Interfere \/ Begin
  PROVE  TypePhase'
<1> USE DEF TypePhase
<1>1. CASE Submit
  <2>1. /\ status = "draft" /\ UNCHANGED <<instance, touched, before, plan, next, outcome, done,
                                           raised, sent, faults>>
        /\ status' \in {"autoreviewwrong", "manreviewing", "review_pass"}
    BY <1>1 DEF Submit
  <2>2. PICK s \in Scripts(engine), separated \in BOOLEAN, connected \in BOOLEAN,
             strict \in BOOLEAN :
          /\ script' = s /\ rows' = execute_check(engine, s, separated, connected)
          /\ is_auto_reject(execute_check(engine, s, separated, connected), strict) =>
               status' = "autoreviewwrong"
    BY <1>1, Zenon DEF Submit
  <2>3. /\ s \in Seq(Menu[engine]) /\ Len(s) \in 1..MaxStatements
        /\ engine = "memcached" => Len(s) = 1
    <3> DEFINE top == IF engine = "memcached" THEN 1 ELSE MaxStatements
    <3>1. PICK n \in 1..top : s \in [1..n -> Menu[engine]]
      BY <2>2 DEF Scripts
    <3>2. n \in Nat /\ n \in 1..MaxStatements /\ (engine = "memcached" => n = 1)
      BY <3>1, EngineAssumption
    <3>3. s \in Seq(Menu[engine]) /\ Len(s) = n
      BY <3>1, <3>2
    <3> QED
      BY <3>2, <3>3
  <2>4. s \in Seq(Statement)
    <3>1. Menu[engine] \subseteq Statement
      BY EngineAssumption DEF EngineTypeOK
    <3> HIDE DEF Statement
    <3> QED
      BY <2>3, <3>1
  <2>5. GoodReview(engine, s, rows')
    BY <2>2, <2>4, ReviewsAreGood DEF EngineTypeOK
  <2>6. status' # "autoreviewwrong" => \A i \in DOMAIN rows' : rows'[i].level # 2
    BY <2>2 DEF is_auto_reject
  <2>7. EngineTypeOK'
    <3>1. rows' \in Seq([at : DOMAIN s, level : 0..2])
      BY <2>5 DEF GoodReview
    <3>2. script' \in Seq(Menu'[engine']) /\ Len(script') <= MaxStatements
      BY <2>1, <2>2, <2>3 DEF instance
    <3> QED
      BY <2>1, <2>2, <3>1, <3>2 DEF EngineTypeOK, instance, outcome
  <2>8. GoodReview(engine, script, rows)' /\ Len(script') >= 1
        /\ (engine' = "memcached" => Len(script') = 1)
    BY <2>1, <2>2, <2>3, <2>5 DEF instance, GoodReview, GoodRow
  <2>9. Phase'
    BY <2>1, <2>6, <2>8 DEF Phase, Beginning, Ended, instance, outcome
  <2> QED
    BY <2>7, <2>9
<1>2. CASE Approve
  <2>1. /\ status = "manreviewing" /\ status' = "review_pass"
        /\ UNCHANGED <<engine, schema, script, rows, touched, before, plan, next, results, error,
                       done, raised, sent, faults>>
    BY <1>2 DEF Approve, instance, ticket, outcome
  <2>2. EngineTypeOK'
    BY <2>1 DEF EngineTypeOK
  <2>3. GoodReview(engine, script, rows)'
    BY <2>1 DEF Phase, GoodReview, GoodRow
  <2>4. Phase'
    BY <2>1, <2>3 DEF Phase, Beginning, Ended
  <2> QED
    BY <2>2, <2>4
<1>3. CASE Interfere
  <2>1. /\ UNCHANGED <<engine, script, rows, status, before, plan, next, results, error,
                       done, raised, sent, faults>>
        /\ touched' = TRUE /\ status \in Beginning
        /\ \E o \in Objects, t \in {"none", "table"} : schema' = [schema EXCEPT ![o] = t]
    BY <1>3 DEF Interfere, ticket, outcome, Beginning
  <2>2. schema' \in Schema
    <3>1. {"none", "table"} \subseteq Types
      BY DEF Types
    <3> QED
      BY <2>1, <3>1 DEF EngineTypeOK, Schema
  <2>3. EngineTypeOK'
    BY <2>1, <2>2 DEF EngineTypeOK
  <2>4. GoodReview(engine, script, rows)' <=> GoodReview(engine, script, rows)
    BY <2>1 DEF GoodReview, GoodRow
  <2>5. Phase'
    BY <2>1, <2>4 DEF Phase, Beginning, Ended
  <2> QED
    BY <2>3, <2>5
<1>4. CASE Begin
  <2>1. /\ status = "review_pass" /\ status' = "executing" /\ plan' = Planned /\ before' = schema
        /\ UNCHANGED <<engine, schema, script, rows, touched, next, results, error, done, raised,
                       sent, faults>>
    BY <1>4 DEF Begin, instance, ticket, outcome
  <2>2. GoodReview(engine, script, rows) /\ Len(script) <= MaxStatements
    BY <2>1 DEF Phase, EngineTypeOK
  <2>3. plan' \in Seq(Places) /\ next = 1
    BY <2>1, <2>2, ScriptsAreStatements, PlanIsInOrder DEF Phase, Beginning
  <2>4. EngineTypeOK'
    <3>1. next' \in 1..(Len(plan') + 1)
      BY <2>1, <2>3
    <3> QED
      BY <2>1, <2>3, <3>1 DEF EngineTypeOK
  <2>5. Planned' = Planned /\ GoodReview(engine, script, rows)'
    BY <2>1, <2>2 DEF Planned, GoodReview, GoodRow
  <2>6. Phase'
    BY <2>1, <2>5 DEF Phase, Beginning, Ended
  <2> QED
    BY <2>4, <2>6
<1> QED
  BY <1>1, <1>2, <1>3, <1>4

Telling == [at : Places, level : 0..2, word : Words]

\* The statements that follow, as they are told when they are not sent.
LEMMA RestIsTold ==
  ASSUME plan \in Seq(Places), next \in 1..(Len(plan) + 1),
         NEW skip \in {Skipped, SkippedAsError, ToldAsFailed}
  PROVE  /\ RestTold(skip) \in Seq(Telling)
         /\ next <= Len(plan) => Len(RestTold(skip)) = Len(plan) - next
         /\ \A i \in 1..Len(RestTold(skip)) :
              /\ next + i <= Len(plan)
              /\ RestTold(skip)[i] = Told(plan[next + i], skip.level, skip.word)
<1> DEFINE R == SubSeq(plan, next + 1, Len(plan))
           n == IF next <= Len(plan) THEN Len(plan) - next ELSE 0
<1>1. Len(plan) \in Nat /\ next \in Nat /\ n \in Nat
  OBVIOUS
<1>2. R \in Seq(Places) /\ Len(R) = n /\ \A i \in 1..n : R[i] = plan[next + i]
  <2> HIDE DEF Places
  <2> QED
    BY <1>1
<1>3. DOMAIN R = 1..n /\ \A i \in 1..n : R[i] \in Places
  <2> HIDE DEF Places, R
  <2> QED
    BY <1>1, <1>2
<1> HIDE DEF R
<1>4. RestTold(skip) = [i \in 1..n |-> Told(R[i], skip.level, skip.word)]
  BY <1>3 DEF RestTold, Rest, R
<1>5. skip.level \in 0..2 /\ skip.word \in Words
  BY DEF Skipped, SkippedAsError, ToldAsFailed, Words
<1>6. \A i \in 1..n : Told(R[i], skip.level, skip.word) \in Telling
  BY <1>3, <1>5 DEF Told, Telling
<1>7. RestTold(skip) \in [1..n -> Telling]
  BY <1>4, <1>6
<1>8. RestTold(skip) \in Seq(Telling) /\ Len(RestTold(skip)) = n
  <2> HIDE DEF n
  <2> QED
    BY <1>1, <1>7
<1>9. \A i \in 1..n : next + i <= Len(plan) /\ RestTold(skip)[i] = Told(plan[next + i], skip.level, skip.word)
  BY <1>1, <1>2, <1>4
<1> QED
  BY <1>8, <1>9

\* A run is under way: what the invariant says of it.
LEMMA Underway ==
  ASSUME TypePhase, Running
  PROVE  /\ status = "executing" /\ plan = Planned /\ plan \in Seq(Places)
         /\ GoodReview(engine, script, rows) /\ script \in Seq(Statement)
         /\ \A k \in DOMAIN plan : plan[k] # Use => plan[k] \in DOMAIN script
         /\ Len(plan) \in Nat /\ next \in 1..(Len(plan) + 1)
         /\ engine = "memcached" /\ next <= Len(plan) => next = 1 /\ results = << >>
<1> USE DEF TypePhase
<1>1. status = "executing" /\ status \notin Beginning /\ ~ done /\ ~ raised
  BY DEF Running, Beginning
<1>2. plan = Planned /\ GoodReview(engine, script, rows) /\ Len(script) <= MaxStatements
  BY <1>1 DEF Phase, EngineTypeOK
<1>3. /\ plan \in Seq(Places)
      /\ \A k \in DOMAIN plan : plan[k] # Use => plan[k] \in DOMAIN rows
      /\ engine = "memcached" => Len(plan) = Len(script)
  <2>1. script \in Seq(Statement)
    BY ScriptsAreStatements
  <2>2. /\ Planned \in Seq(Places)
        /\ Len(Planned) = Ahead + IF engine = "oracle" THEN Len(rows) ELSE Len(script)
        /\ \A k \in DOMAIN Planned : Planned[k] # Use => Planned[k] \in DOMAIN rows
    BY <1>2, <2>1, PlanIsInOrder
  <2>3. engine = "memcached" => Ahead = 0
    BY DEF Ahead
  <2>4. Len(script) \in Nat
    BY <2>1
  <2> HIDE DEF TypePhase
  <2> QED
    BY <1>2, <2>2, <2>3, <2>4
<1>4. DOMAIN rows \subseteq DOMAIN script
  BY <1>2 DEF GoodReview
<1>5. Len(plan) \in Nat /\ next \in 1..(Len(plan) + 1)
  BY <1>3 DEF EngineTypeOK
<1>6. ASSUME engine = "memcached", next <= Len(plan)
      PROVE  next = 1 /\ results = << >>
  <2>1. Len(plan) = 1 /\ next = 1
    BY <1>1, <1>3, <1>5, <1>6 DEF Phase
  <2>2. Len(results) = 0
    BY <1>1, <1>6, <2>1 DEF Phase
  <2>3. results \in Seq(Telling)
    BY DEF EngineTypeOK, Telling
  <2>4. results = << >>
    <3> HIDE DEF Telling
    <3> QED
      BY <2>2, <2>3
  <2> QED
    BY <2>1, <2>4
<1> QED
  BY <1>1, <1>2, <1>3, <1>4, <1>5, <1>6, ScriptsAreStatements

\* What each step of a run finds.
LEMMA RunIsOne ==
  ASSUME TypePhase, Run
  PROVE  Running /\ (Took \/ Broke \/ Quit)
<1>1. Running
  BY DEF Run, oracle_execute, clickhouse_execute, tdengine_execute, redis_execute, doris_execute,
     cassandra_execute, phoenix_execute, goinception_execute, mysql_read_only, goinception_crash,
     elasticsearch_execute, mongo_execute, memcached_execute, pgsql_execute, pgsql_commit_fails,
     mssql_execute, NotConnected, ReconnectFails, StopAtFailure, GoOn
<1>2. error \in BOOLEAN
  BY DEF TypePhase, EngineTypeOK
<1> QED
  BY <1>1, <1>2, Underway, RunCases

LEMMA WholeIsTold == WholeFailed \in Seq(Telling) /\ Told(Whole, 2, "failed") \in Telling
<1>1. Told(Whole, 2, "failed") \in Telling
  BY EngineAssumption DEF Told, Whole, Telling, Places, Words
<1> QED
  BY <1>1 DEF WholeFailed

\* One more statement sent: the types of the trace and of the failures.
LEMMA SendTypes ==
  ASSUME EngineTypeOK, NEW at \in Places, NEW answer \in AnswersTo(at), Send(at, answer)
  PROVE  /\ sent' \in Seq([at : Places, answer : Answers])
         /\ faults' \in 0..MaxFaults
<1>1. [at |-> at, answer |-> answer] \in [at : Places, answer : Answers]
  BY AnswersAreAnswers
<1>2. sent' \in Seq([at : Places, answer : Answers])
  <2> DEFINE S == [at : Places, answer : Answers]
             x == [at |-> at, answer |-> answer]
  <2>1. sent \in Seq(S) /\ x \in S /\ sent' = Append(sent, x)
    BY <1>1 DEF EngineTypeOK, Send
  <2> HIDE DEF S, x
  <2>2. sent' \in Seq(S)
    BY <2>1
  <2> QED
    BY <2>2 DEF S
<1>3. faults = MaxFaults => answer \notin {"fault", "uncompiled"}
  BY DEF AnswersTo, Answer, StoreAnswer, SqlAnswer
<1>4. faults' \in 0..MaxFaults
  BY <1>3, EngineAssumption DEF Send, EngineTypeOK
<1> QED
  BY <1>2, <1>4

\* What the steps of a run leave alone is as it was.
LEMMA PhaseKept ==
  ASSUME TypePhase, Running,
         UNCHANGED <<engine, script, rows, touched, status, before, plan>>,
         <<error, done, raised>>' \in BOOLEAN \X BOOLEAN \X BOOLEAN,
         ~ (done' /\ raised'), engine = "memcached" => ~ raised',
         next' \in 1..(Len(plan) + 1), results' \in Seq(Telling),
         sent' \in Seq([at : Places, answer : Answers]), faults' \in 0..MaxFaults,
         schema' \in Schema,
         engine = "memcached" /\ ~ done' => Len(results') = next' - 1
  PROVE  TypePhase'
<1> USE DEF TypePhase
<1>1. status = "executing" /\ status' = "executing" /\ plan = Planned
      /\ GoodReview(engine, script, rows)
  BY Underway DEF Running
<1>2. EngineTypeOK'
  BY DEF EngineTypeOK, Telling
<1>3. Planned' = Planned /\ GoodReview(engine, script, rows)'
  BY <1>1 DEF Planned, GoodReview, GoodRow
<1>4. Phase'
  BY <1>1, <1>3 DEF Phase, Beginning, Ended
<1> QED
  BY <1>2, <1>4

LEMMA PhaseRun ==
  ASSUME TypePhase, Took \/ Broke \/ Quit
  PROVE  TypePhase'
<1>0. Running
  BY DEF Took, Broke, Quit
<1>1. /\ plan \in Seq(Places) /\ Len(plan) \in Nat /\ next \in 1..(Len(plan) + 1)
      /\ \A k \in DOMAIN plan : plan[k] # Use => plan[k] \in DOMAIN script
      /\ engine = "memcached" /\ next <= Len(plan) => next = 1 /\ results = << >>
  BY <1>0, Underway
<1>2. EngineTypeOK /\ results \in Seq(Telling) /\ schema \in Schema /\ before \in Schema
      /\ {error, done, raised} \subseteq BOOLEAN /\ ~ done /\ ~ raised /\ faults \in 0..MaxFaults
      /\ sent \in Seq([at : Places, answer : Answers])
  BY <1>0 DEF TypePhase, EngineTypeOK, Telling, Running
<1>3. ASSUME next <= Len(plan)
      PROVE  next \in DOMAIN plan /\ plan[next] \in Places
             /\ (plan[next] # Use => plan[next] \in DOMAIN script)
  <2> HIDE DEF Places
  <2> QED
    BY <1>1, <1>3
<1>4. CASE Took
  <2>1. /\ next <= Len(plan) /\ next' = next + 1 /\ done' = done
        /\ UNCHANGED <<engine, script, rows, touched, status, before, plan, raised>>
    BY <1>4 DEF Took, RunKeeps, ticket
  <2>2. PICK answer \in AnswersTo(plan[next]) :
          /\ Send(plan[next], answer) /\ error' \in BOOLEAN
          /\ schema' = Effect(plan[next], answer)
          /\ \/ \E row : TellsOf(row, plan[next], answer) /\ results' = Append(results, row)
             \/ engine = "mongo" /\ results' = results
    <3>1. PICK answer \in AnswersTo(plan[next]) :
          /\ Send(plan[next], answer)
          /\ error' = (error \/ answer \notin Settled(engine))
          /\ schema' = Effect(plan[next], answer)
          /\ \/ \E row : TellsOf(row, plan[next], answer) /\ results' = Append(results, row)
             \/ engine = "mongo" /\ answer = "invalid" /\ results' = results
      BY <1>4, Zenon DEF Took
    <3>2. error' \in BOOLEAN
      BY <3>1
    <3> QED
      BY <3>1, <3>2, Zenon
  <2>3. results' \in Seq(Telling) /\ (engine = "memcached" => Len(results') = next' - 1)
    <3>1. CASE results' = results /\ engine = "mongo"
      BY <1>2, <3>1
    <3>2. ASSUME NEW row, TellsOf(row, plan[next], 0) \/ row \in Telling, results' = Append(results, row),
                 row \in Telling
          PROVE  results' \in Seq(Telling) /\ (engine = "memcached" => Len(results') = next' - 1)
      <4> HIDE DEF Telling
      <4>1. results' \in Seq(Telling) /\ Len(results') = Len(results) + 1
        BY <1>2, <3>2
      <4>2. engine = "memcached" => Len(results) = 0 /\ next = 1
        BY <1>1, <2>1
      <4> QED
        BY <2>1, <4>1, <4>2
    <3>3. \A row : TellsOf(row, plan[next], answer) => row \in Telling
      BY DEF TellsOf, Telling, Words
    <3> QED
      BY <2>2, <3>1, <3>2, <3>3
  <2>4. schema' \in Schema /\ sent' \in Seq([at : Places, answer : Answers]) /\ faults' \in 0..MaxFaults
    BY <1>2, <1>3, <2>1, <2>2, EffectTypes, SendTypes
  <2>5. next' \in 1..(Len(plan) + 1)
    BY <1>1, <2>1
  <2> QED
    BY <1>0, <1>2, <2>1, <2>2, <2>3, <2>4, <2>5, PhaseKept
<1>5. CASE Broke
  <2>1. /\ next <= Len(plan) /\ next' = next /\ done' = TRUE /\ error' = TRUE
        /\ UNCHANGED <<engine, script, rows, touched, status, before, plan, raised>>
    BY <1>5 DEF Broke, RunKeeps, ticket
  <2>2. PICK answer \in AnswersTo(plan[next]) :
          /\ Send(plan[next], answer)
          /\ schema' = IF engine = "pgsql" THEN before ELSE Effect(plan[next], answer)
    BY <1>5 DEF Broke
  <2>3. results' \in Seq(Telling)
    <3>1. CASE results' = WholeFailed
      BY <3>1, WholeIsTold
    <3>2. ASSUME NEW skip \in {Skipped, SkippedAsError, ToldAsFailed},
                 results' = Append(results, Told(plan[next], 2, "failed")) \o RestTold(skip)
          PROVE  results' \in Seq(Telling)
      <4>1. Told(plan[next], 2, "failed") \in Telling
        BY <1>3, <2>1 DEF Told, Telling, Words
      <4>2. RestTold(skip) \in Seq(Telling)
        BY <1>1, RestIsTold
      <4> HIDE DEF Telling
      <4> QED
        BY <1>2, <3>2, <4>1, <4>2
    <3> QED
      BY <1>5, <3>1, <3>2 DEF Broke
  <2>4. schema' \in Schema /\ sent' \in Seq([at : Places, answer : Answers]) /\ faults' \in 0..MaxFaults
    BY <1>2, <1>3, <2>1, <2>2, EffectTypes, SendTypes
  <2> QED
    BY <1>0, <1>1, <1>2, <2>1, <2>3, <2>4, PhaseKept
<1>6. CASE Quit
  <2>1. /\ UNCHANGED <<engine, script, rows, touched, status, before, plan, next, sent>>
        /\ faults' \in 0..MaxFaults
    BY <1>2, <1>6, EngineAssumption DEF Quit, ticket, Trouble
  <2>2. CASE engine # "memcached" /\ raised' = TRUE /\ UNCHANGED <<schema, results, error, done>>
    <3>1. engine = "memcached" /\ ~ done => Len(results) = next - 1
      BY DEF TypePhase, Phase
    <3> QED
      BY <1>0, <1>1, <1>2, <2>1, <2>2, <3>1, PhaseKept
  <2>3. CASE ~ (engine # "memcached" /\ raised' = TRUE /\ UNCHANGED <<schema, results, error, done>>)
    <3>1. /\ error' = TRUE /\ done' = TRUE /\ raised' = raised
          /\ schema' \in {schema, before}
          /\ \/ results' = WholeFailed
             \/ results' = WholeFailed \o RestTold(Skipped)
             \/ next > Len(plan) /\ engine = "pgsql" /\ results' = Append(results, Told(plan[Len(plan)], 2, "failed"))
      BY <1>6, <2>3 DEF Quit
    <3>2. results' \in Seq(Telling)
      <4>1. RestTold(Skipped) \in Seq(Telling)
        BY <1>1, RestIsTold
      <4>2. ASSUME engine = "pgsql"
            PROVE  Told(plan[Len(plan)], 2, "failed") \in Telling
        <5>1. script \in Seq(Statement) /\ Len(script) >= 1 /\ GoodReview(engine, script, rows)
              /\ Len(script) <= MaxStatements /\ plan = Planned
          BY <1>0, Underway DEF TypePhase, EngineTypeOK, Phase, Running
        <5>2. Len(plan) = Len(script)
          <6>1. Len(plan) = 0 + Len(script) /\ Len(script) \in Nat
            BY <4>2, <5>1, PlanIsInOrder DEF Ahead
          <6> QED
            BY <6>1
        <5>3. plan[Len(plan)] \in Places
          <6> HIDE DEF Places
          <6> QED
            BY <1>1, <5>1, <5>2
        <5> QED
          BY <5>3 DEF Told, Telling, Words
      <4>3. WholeFailed \in Seq(Telling)
        BY WholeIsTold
      <4>4. \A q, r \in Seq(Telling) : q \o r \in Seq(Telling)
        OBVIOUS
      <4>5. \A q \in Seq(Telling), x \in Telling : Append(q, x) \in Seq(Telling)
        OBVIOUS
      <4> QED
        BY <1>2, <3>1, <4>1, <4>2, <4>3, <4>4, <4>5, Zenon
    <3> QED
      BY <1>0, <1>1, <1>2, <2>1, <3>1, <3>2, PhaseKept
  <2> QED
    BY <2>2, <2>3
<1> QED
  BY <1>4, <1>5, <1>6

LEMMA PhaseNext == TypePhase /\ [Next]_vars => TypePhase'
<1> SUFFICES ASSUME TypePhase, [Next]_vars
             PROVE  TypePhase'
  OBVIOUS
<1>1. CASE Submit \/ Approve \/ Interfere \/ Begin
  BY <1>1, PhaseBeforeRun
<1>2. CASE Run
  BY <1>2, RunIsOne, PhaseRun
<1>3. CASE Returns
  <2>1. Running /\ next > Len(plan) /\ done' = TRUE
        /\ UNCHANGED <<engine, schema, script, rows, touched, status, before, plan, next, results,
                       error, raised, sent, faults>>
    BY <1>3 DEF Returns, instance, ticket, outcome
  <2> QED
    BY <2>1, PhaseKept DEF TypePhase, EngineTypeOK, Telling, Running
<1>4. CASE execute_callback
  <2>1. /\ status = "executing" /\ (done \/ raised) /\ status' \in {"exception", "finish"}
        /\ results' = IF raised THEN WholeFailed ELSE results
        /\ UNCHANGED <<engine, schema, script, rows, touched, before, plan, next, error, done,
                       raised, sent, faults>>
    BY <1>4 DEF execute_callback, instance, ticket
  <2>2. EngineTypeOK'
    BY <2>1, WholeIsTold DEF TypePhase, EngineTypeOK, Telling
  <2>3. GoodReview(engine, script, rows)' /\ plan' = Planned'
    BY <2>1 DEF TypePhase, Phase, Beginning, GoodReview, GoodRow, Planned
  <2>4. Phase'
    BY <2>1, <2>3 DEF TypePhase, Phase, Beginning, Ended
  <2> QED
    BY <2>2, <2>4 DEF TypePhase
<1>5. CASE UNCHANGED vars
  <2>1. EngineTypeOK'
    BY <1>5 DEF vars, TypePhase, EngineTypeOK
  <2>2. GoodReview(engine, script, rows)' <=> GoodReview(engine, script, rows)
    BY <1>5 DEF vars, GoodReview, GoodRow
  <2>3. Planned' = Planned
    BY <1>5 DEF vars, Planned
  <2>4. Phase'
    BY <1>5, <2>2, <2>3 DEF vars, TypePhase, Phase, Beginning, Ended
  <2> QED
    BY <2>1, <2>4 DEF TypePhase
<1> QED
  BY <1>1, <1>2, <1>3, <1>4, <1>5 DEF Next

LEMMA PhaseCorrect == Spec => []TypePhase
  BY PhaseInit, PhaseNext, PTL DEF Spec

\* The variables of a run have their types, whatever the statements, the engine and the
\* failures.
THEOREM EngineRunTypes == Spec => []EngineTypeOK
<1>1. TypePhase => EngineTypeOK
  BY DEF TypePhase
<1> QED
  BY PhaseCorrect, <1>1, PTL

-----------------------------------------------------------------------------
(* What was sent.  The trace is a beginning of the plan, and all of it but *)
(* what ended the run was taken by the engine for done.                    *)

TakenForDone(j) ==
  \/ sent[j].answer \in Settled(engine)
  \/ engine = "mongo"
  \/ engine = "mssql" /\ sent[j].at = Use

TraceInv ==
  /\ \A j \in 1..Len(sent) : j <= Len(plan) /\ sent[j].at = plan[j]
  /\ Len(sent) = next - 1 \/ (Len(sent) = next /\ done /\ error)
  /\ \A j \in 1..(next - 1) : TakenForDone(j)
  /\ ~ error => \A j \in 1..Len(sent) : sent[j].answer \in Settled(engine)
  /\ done /\ ~ error => next = Len(plan) + 1
  /\ status = "finish" => done /\ ~ error
  /\ status = "exception" => raised \/ error

LEMMA TraceInit == Init => TraceInv
  BY DEF Init, TraceInv

\* One more in the trace.
LEMMA SentOne ==
  ASSUME EngineTypeOK, NEW at, NEW answer, Send(at, answer)
  PROVE  /\ Len(sent) \in Nat /\ Len(sent') = Len(sent) + 1
         /\ \A j \in 1..Len(sent) : sent'[j] = sent[j]
         /\ sent'[Len(sent) + 1].at = at /\ sent'[Len(sent) + 1].answer = answer
<1> DEFINE T == [at : Places, answer : Answers]
           x == [at |-> at, answer |-> answer]
<1>1. sent \in Seq(T) /\ sent' = Append(sent, x)
  BY DEF EngineTypeOK, Send
<1>2. x.at = at /\ x.answer = answer
  OBVIOUS
<1> HIDE DEF T, x
<1>3. /\ Len(sent) \in Nat /\ Len(sent') = Len(sent) + 1
      /\ \A j \in 1..Len(sent) : sent'[j] = sent[j]
      /\ sent'[Len(sent) + 1] = x
  BY <1>1
<1> QED
  BY <1>2, <1>3

LEMMA TraceNext == TypePhase /\ TraceInv /\ [Next]_vars => TraceInv'
<1> SUFFICES ASSUME TypePhase, TraceInv, [Next]_vars
             PROVE  TraceInv'
  OBVIOUS
<1>0. Len(plan) \in Nat /\ next \in 1..(Len(plan) + 1) /\ EngineTypeOK /\ Len(sent) \in Nat
  BY DEF TypePhase, EngineTypeOK
<1>1. CASE Submit \/ Approve \/ Interfere \/ Begin
  <2>1. /\ sent = << >> /\ next = 1 /\ ~ done
        /\ sent' = sent /\ next' = next /\ done' = done /\ error' = error
        /\ status' \notin {"finish", "exception"}
    BY <1>1 DEF TypePhase, Phase, Beginning, Submit, Approve, Interfere, Begin, outcome
  <2> QED
    BY <2>1 DEF TraceInv
<1>2. CASE Took
  <2>1. /\ Running /\ next <= Len(plan) /\ next' = next + 1 /\ done' = done
        /\ UNCHANGED <<engine, plan, status, raised>>
    BY <1>2 DEF Took, RunKeeps
  <2>2. PICK answer \in AnswersTo(plan[next]) :
          /\ Send(plan[next], answer)
          /\ answer \in Settled(engine) \/ GoesOn
          /\ error' = (error \/ answer \notin Settled(engine))
    BY <1>2 DEF Took
  <2>3. /\ Len(sent) = next - 1 /\ Len(sent') = next
        /\ \A j \in 1..(next - 1) : sent'[j] = sent[j]
        /\ sent'[next].at = plan[next] /\ sent'[next].answer = answer
    BY <1>0, <2>1, <2>2, SentOne DEF TraceInv, Running
  <2>4. ASSUME NEW j \in 1..next
        PROVE  TakenForDone(j)'
    <3>1. CASE j = next
      BY <2>1, <2>2, <2>3, <3>1 DEF TakenForDone, GoesOn, Settled
    <3>2. CASE j # next
      <4>1. j \in 1..(next - 1) /\ sent'[j] = sent[j]
        BY <1>0, <2>3, <3>2
      <4>2. TakenForDone(j)
        BY <4>1 DEF TraceInv
      <4> QED
        BY <2>1, <4>1, <4>2 DEF TakenForDone, Settled
    <3> QED
      BY <3>1, <3>2
  <2>5. ASSUME ~ error', NEW j \in 1..Len(sent')
        PROVE  sent'[j].answer \in Settled(engine)
    <3>1. ~ error /\ answer \in Settled(engine)
      BY <2>2, <2>5
    <3>2. j = next \/ (j \in 1..Len(sent) /\ sent'[j] = sent[j])
      BY <1>0, <2>3
    <3> QED
      BY <2>3, <3>1, <3>2 DEF TraceInv
  <2>6. \A j \in 1..Len(sent') : j <= Len(plan) /\ sent'[j].at = plan[j]
    BY <1>0, <2>1, <2>3 DEF TraceInv
  <2>7. status = "executing" /\ ~ done
    BY <2>1 DEF Running
  <2>8. Settled(engine') = Settled(engine)
    BY <2>1
  <2> QED
    BY <1>0, <2>1, <2>3, <2>4, <2>5, <2>6, <2>7, <2>8 DEF TraceInv
<1>3. CASE Broke
  <2>1. /\ Running /\ next <= Len(plan) /\ next' = next /\ done' = TRUE /\ error' = TRUE
        /\ UNCHANGED <<engine, plan, status, raised>>
    BY <1>3 DEF Broke, RunKeeps
  <2>2. PICK answer \in AnswersTo(plan[next]) : Send(plan[next], answer)
    BY <1>3 DEF Broke
  <2>3. /\ Len(sent) = next - 1 /\ Len(sent') = next
        /\ \A j \in 1..(next - 1) : sent'[j] = sent[j]
        /\ sent'[next].at = plan[next]
    BY <1>0, <2>1, <2>2, SentOne DEF TraceInv, Running
  <2>4. \A j \in 1..(next - 1) : TakenForDone(j)'
    BY <2>1, <2>3 DEF TraceInv, TakenForDone, Settled
  <2>5. \A j \in 1..Len(sent') : j <= Len(plan) /\ sent'[j].at = plan[j]
    BY <1>0, <2>1, <2>3 DEF TraceInv
  <2>6. status = "executing"
    BY <2>1 DEF Running
  <2> QED
    BY <1>0, <2>1, <2>3, <2>4, <2>5, <2>6 DEF TraceInv
<1>4. CASE Quit \/ Returns
  <2>1. /\ status = "executing" /\ ~ done /\ Len(sent) = next - 1
        /\ UNCHANGED <<engine, plan, status, next, sent>>
        /\ \/ error' = error /\ done' = done
           \/ error' = TRUE /\ done' = TRUE
           \/ error' = error /\ next > Len(plan)
    <3>1. status = "executing" /\ ~ done /\ Len(sent) = next - 1
      BY <1>4 DEF Quit, Returns, Running, TraceInv
    <3>2. UNCHANGED <<engine, plan, status, next, sent>>
      BY <1>4 DEF Quit, Returns, instance
    <3>3. \/ error' = error /\ done' = done
          \/ error' = TRUE /\ done' = TRUE
          \/ error' = error /\ next > Len(plan)
      BY <1>4 DEF Quit, Returns, outcome
    <3> QED
      BY <3>1, <3>2, <3>3
  <2>2. \A j \in 1..(next - 1) : TakenForDone(j)' <=> TakenForDone(j)
    BY <2>1 DEF TakenForDone, Settled
  <2> QED
    BY <1>0, <2>1, <2>2 DEF TraceInv
<1>5. CASE execute_callback \/ UNCHANGED vars
  <2>1. /\ UNCHANGED <<engine, plan, next, sent, error, done, raised>>
        /\ status' = "finish" => status = "finish" \/ (~ raised /\ ~ error /\ (done \/ raised))
        /\ status' = "exception" => status = "exception" \/ raised \/ error
    BY <1>5 DEF execute_callback, vars, instance
  <2>2. \A j \in 1..(next - 1) : TakenForDone(j)' <=> TakenForDone(j)
    BY <2>1 DEF TakenForDone, Settled
  <2> QED
    BY <1>0, <2>1, <2>2 DEF TraceInv
<1> QED
  BY <1>1, <1>2, <1>3, <1>4, <1>5, RunIsOne DEF Next

LEMMA TraceCorrect == Spec => [](TypePhase /\ TraceInv)
<1>1. TypePhase /\ TraceInv /\ [Next]_vars => (TypePhase /\ TraceInv)'
  BY PhaseNext, TraceNext
<1> QED
  BY PhaseInit, TraceInit, <1>1, PTL DEF Spec

\* Once a statement has failed, no later one is sent, but for MongoDB and for the USE of
\* SQL Server (the loops of execute_workflow of each engine).
THEOREM FailuresEndRuns == Spec => []NothingAfterFailure
<1>1. TypePhase /\ TraceInv => NothingAfterFailure
  <2> SUFFICES ASSUME TypePhase, TraceInv, engine # "mongo", NEW j \in 1..(Len(sent) - 1)
               PROVE  sent[j].answer \in Settled(engine) \/ (engine = "mssql" /\ sent[j].at = Use)
    BY DEF NothingAfterFailure
  <2>1. Len(sent) \in Nat /\ next \in Nat
    BY DEF TypePhase, EngineTypeOK
  <2>2. j \in 1..(next - 1)
    BY <2>1 DEF TraceInv
  <2> QED
    BY <2>2 DEF TraceInv, TakenForDone
<1> QED
  BY TraceCorrect, <1>1, PTL

\* What the review says of the statements that were sent.
LEMMA SentWereReviewed ==
  ASSUME TypePhase, TraceInv, NEW j \in DOMAIN sent, sent[j].at # Use
  PROVE  sent[j].at \in DOMAIN rows /\ Harmless(engine, script[sent[j].at])
<1>1. DOMAIN sent = 1..Len(sent) /\ Len(sent) \in Nat /\ sent # << >>
  BY DEF TypePhase, EngineTypeOK
<1>2. status \notin Beginning
  BY <1>1 DEF TypePhase, Phase
<1>3. /\ plan = Planned /\ plan \in Seq(Places) /\ GoodReview(engine, script, rows)
      /\ Len(script) <= MaxStatements /\ script \in Seq(Statement)
      /\ \A i \in DOMAIN rows : rows[i].level # 2
  BY <1>2, ScriptsAreStatements DEF TypePhase, Phase, EngineTypeOK, Beginning
<1>4. j \in DOMAIN plan /\ sent[j].at = plan[j]
  <2>1. j <= Len(plan) /\ sent[j].at = plan[j]
    BY <1>1 DEF TraceInv
  <2> HIDE DEF Places
  <2> QED
    BY <1>1, <1>3, <2>1
<1>5. plan[j] \in DOMAIN rows
  BY <1>3, <1>4, PlanIsInOrder
<1>6. Harmless(engine, script[plan[j]])
  BY <1>3, <1>5 DEF GoodReview, GoodRow
<1> QED
  BY <1>4, <1>5, <1>6

\* No run sends a query or a statement that matches critical_ddl_regex to an engine whose
\* check refuses them (execute_check, is_auto_reject, and what execute_workflow takes its
\* statements from).
THEOREM CriticalIsNeverSent == Spec => []CriticalNeverRuns
<1>1. TypePhase /\ TraceInv => CriticalNeverRuns
  BY SentWereReviewed DEF CriticalNeverRuns, Harmless
<1> QED
  BY TraceCorrect, <1>1, PTL

\* A ticket shown as finished did all that was reviewed (execute_callback decides by the
\* error of the ReviewSet and by the exception).
THEOREM FinishedIsDone == Spec => []FinishMeansDone
<1>1. TypePhase /\ TraceInv => FinishMeansDone
  <2> SUFFICES ASSUME TypePhase, TraceInv, status = "finish", NEW i \in DOMAIN rows
               PROVE  AnswersOf(rows[i].at) # {} /\ AnswersOf(rows[i].at) \subseteq Settled(engine)
    BY DEF FinishMeansDone
  <2>1. /\ plan = Planned /\ plan \in Seq(Places) /\ GoodReview(engine, script, rows)
        /\ Len(script) <= MaxStatements /\ script \in Seq(Statement)
    BY ScriptsAreStatements DEF TypePhase, Phase, EngineTypeOK, Beginning
  <2>2. DOMAIN sent = 1..Len(sent) /\ Len(sent) \in Nat /\ Len(plan) \in Nat
    BY DEF TypePhase, EngineTypeOK
  <2>3. Len(sent) = Len(plan)
    <3>1. next \in Nat
      BY <2>2 DEF TypePhase, EngineTypeOK
    <3>2. done /\ ~ error
      BY DEF TraceInv
    <3>3. next = Len(plan) + 1 /\ Len(sent) = next - 1
      BY <3>2, Zenon DEF TraceInv
    <3> QED
      BY <2>2, <3>1, <3>3
  <2>4. PICK k \in 1..Len(plan) : plan[k] = rows[i].at
    <3>1. rows[i].at = i /\ DOMAIN rows = 1..Len(rows) /\ Len(rows) \in Nat
          /\ (engine # "oracle" => DOMAIN rows = DOMAIN script)
          /\ Len(script) \in Nat /\ DOMAIN script = 1..Len(script)
      BY <2>1 DEF GoodReview, GoodRow
    <3>2. Ahead \in {0, 1} /\ (engine = "oracle" => Ahead = 0)
      BY DEF Ahead
    <3>3. Len(plan) = Ahead + (IF engine = "oracle" THEN Len(rows) ELSE Len(script))
          /\ \A k \in DOMAIN plan : plan[k] = k - Ahead
      BY <2>1, PlanIsInOrder
    <3>4. i \in Nat /\ i + Ahead \in 1..Len(plan)
      <4> DEFINE n == IF engine = "oracle" THEN Len(rows) ELSE Len(script)
      <4>1. i \in 1..n /\ n \in Nat
        BY <3>1
      <4> HIDE DEF n
      <4> QED
        BY <3>2, <3>3, <4>1 DEF n
    <3>5. DOMAIN plan = 1..Len(plan)
      BY <2>1
    <3>6. plan[i + Ahead] = i
      BY <3>2, <3>3, <3>4, <3>5
    <3> QED
      BY <3>1, <3>4, <3>6
  <2>5. sent[k].at = rows[i].at /\ k \in DOMAIN sent
    BY <2>2, <2>3, <2>4 DEF TraceInv
  <2>6. \A j \in DOMAIN sent : sent[j].answer \in Settled(engine)
    BY <2>2 DEF TraceInv
  <2> QED
    BY <2>5, <2>6 DEF AnswersOf
<1> QED
  BY TraceCorrect, <1>1, PTL

-----------------------------------------------------------------------------
(* What was told.                                                          *)

\* A row of the result is true of the statement at its place of the plan.
Says(k) ==
  /\ results[k].at = plan[k]
  /\ results[k].word = "ok"      => k <= Len(sent) /\ sent[k].answer = "ok"
  /\ results[k].word = "noted"   => k <= Len(sent) /\ sent[k].answer \in Settled(engine)
  /\ results[k].word = "failed"  => IF k <= Len(sent) THEN sent[k].answer # "ok"
                                    ELSE engine \in {"cassandra", "phoenix"}
  /\ results[k].word = "skipped" => k > Len(sent)

AllDecoded == engine = "mongo" => \A i \in DOMAIN script : script[i].good

\* While it runs the result is about the statements sent so far; in the end it is about the
\* plan, or about the ticket as a whole.
TellInv ==
  AllDecoded =>
    /\ status = "executing" /\ ~ done =>
         Len(results) = next - 1 /\ \A k \in 1..(next - 1) : Says(k)
    /\ done /\ ~ ToldAsAWhole =>
         /\ Len(results) = Len(plan) \/ (engine = "pgsql" /\ error /\ Len(results) = Len(plan) + 1)
         /\ \A k \in 1..Len(plan) : Says(k)

LEMMA TellInit == Init => TellInv
  BY DEF Init, TellInv

LEMMA ToldIsWhole ==
  /\ WholeFailed # << >> /\ WholeFailed[1].at = Whole
  /\ \A q \in Seq(Telling) : WholeFailed \o q # << >> /\ (WholeFailed \o q)[1].at = Whole
<1> DEFINE x == Told(Whole, 2, "failed")
<1>1. x \in Telling /\ x.at = Whole /\ WholeFailed = <<x>>
  BY WholeIsTold DEF Told, WholeFailed
<1> HIDE DEF x
<1>2. \A q \in Seq(Telling) : (<<x>> \o q) # << >> /\ (<<x>> \o q)[1] = x
  <2> HIDE DEF Telling
  <2> QED
    BY <1>1
<1> QED
  BY <1>1, <1>2

\* An engine whose arguments can all be decoded answers nothing else.
LEMMA NothingInvalid ==
  ASSUME TypePhase, Running, next <= Len(plan), AllDecoded, engine = "mongo"
  PROVE  "invalid" \notin AnswersTo(plan[next])
<1>1. plan[next] # Use => plan[next] \in DOMAIN script
  <2>1. plan \in Seq(Places) /\ next \in 1..Len(plan)
        /\ \A k \in DOMAIN plan : plan[k] # Use => plan[k] \in DOMAIN script
    BY Underway
  <2> HIDE DEF Places
  <2> QED
    BY <2>1
<1>2. plan[next] # Use => script[plan[next]].good
  BY <1>1 DEF AllDecoded
<1> QED
  BY <1>2 DEF AnswersTo, Answer, StoreAnswer, Stores

\* What concatenation returns, stated once for the lists of results that are padded after a failure.
LEMMA ConcatIs ==
  ASSUME NEW S, NEW p \in Seq(S), NEW q \in Seq(S)
  PROVE  /\ Len(p \o q) = Len(p) + Len(q)
         /\ \A k \in 1..(Len(p) + Len(q)) :
              (p \o q)[k] = IF k <= Len(p) THEN p[k] ELSE q[k - Len(p)]
OBVIOUS

LEMMA TellNext == TypePhase /\ TraceInv /\ TellInv /\ [Next]_vars => TellInv'
<1> SUFFICES ASSUME TypePhase, TraceInv, TellInv, [Next]_vars, AllDecoded'
             PROVE  TellInv'
  BY DEF TellInv
<1>0. /\ Len(plan) \in Nat /\ next \in 1..(Len(plan) + 1) /\ EngineTypeOK /\ Len(sent) \in Nat
      /\ results \in Seq(Telling) /\ sent \in Seq([at : Places, answer : Answers])
      /\ plan \in Seq(Places)
  BY DEF TypePhase, EngineTypeOK, Telling
<1>1. CASE Submit \/ Approve \/ Interfere \/ Begin
  <2>1. /\ results = << >> /\ next = 1 /\ ~ done /\ ~ raised
        /\ results' = results /\ next' = next /\ done' = done /\ raised' = raised
    BY <1>1 DEF TypePhase, Phase, Beginning, Submit, Approve, Interfere, Begin, outcome
  <2> QED
    BY <2>1 DEF TellInv
<1>2. ASSUME Took \/ Broke \/ Quit \/ Returns
      PROVE  /\ Running /\ AllDecoded /\ Len(sent) = next - 1
             /\ status' = "executing" /\ UNCHANGED <<engine, plan>>
             /\ Len(results) = next - 1 /\ \A k \in 1..(next - 1) : Says(k)
  <2>1. Running /\ UNCHANGED <<engine, plan, script, status>>
    BY <1>2 DEF Took, Broke, Quit, Returns, RunKeeps, ticket, instance
  <2>2. AllDecoded
    BY <2>1 DEF AllDecoded
  <2> QED
    BY <2>1, <2>2 DEF TellInv, TraceInv, Running
<1>3. CASE Took
  <2>1. next <= Len(plan) /\ next' = next + 1 /\ done' = done /\ raised' = raised
    BY <1>3 DEF Took, RunKeeps
  <2>0. PICK answer \in AnswersTo(plan[next]) :
          /\ Send(plan[next], answer)
          /\ \E row : TellsOf(row, plan[next], answer) /\ results' = Append(results, row)
    <3>1. PICK answer \in AnswersTo(plan[next]) :
            /\ Send(plan[next], answer)
            /\ \/ \E row : TellsOf(row, plan[next], answer) /\ results' = Append(results, row)
               \/ engine = "mongo" /\ answer = "invalid" /\ results' = results
      BY <1>3 DEF Took
    <3>2. ~ (engine = "mongo" /\ answer = "invalid")
      BY <1>2, <1>3, <2>1, <3>1, NothingInvalid
    <3> QED
      BY <3>1, <3>2
  <2>2. PICK row :
          /\ Send(plan[next], answer)
          /\ TellsOf(row, plan[next], answer) /\ results' = Append(results, row)
    BY <2>0
  <2>3. /\ Len(sent') = next /\ \A j \in 1..(next - 1) : sent'[j] = sent[j]
        /\ sent'[next].at = plan[next] /\ sent'[next].answer = answer
    BY <1>0, <1>2, <1>3, <2>2, SentOne
  <2>4. /\ Len(results') = next /\ results'[next] = row
        /\ \A j \in 1..(next - 1) : results'[j] = results[j]
    <3>1. row \in Telling
      BY <2>2 DEF TellsOf, Telling, Words
    <3> HIDE DEF Telling
    <3> QED
      BY <1>0, <1>2, <1>3, <2>2, <3>1
  <2>5. ASSUME NEW k \in 1..next
        PROVE  Says(k)'
    <3>1. CASE k = next
      BY <1>0, <1>2, <1>3, <2>2, <2>3, <2>4, <3>1 DEF Says, TellsOf, Settled
    <3>2. CASE k # next
      <4>1. k \in 1..(next - 1) /\ Says(k) /\ results'[k] = results[k] /\ sent'[k] = sent[k]
        BY <1>0, <1>2, <1>3, <2>3, <2>4, <3>2
      <4> QED
        BY <1>0, <1>2, <1>3, <2>3, <4>1 DEF Says, Settled
    <3> QED
      BY <3>1, <3>2
  <2>6. ~ done /\ ~ raised /\ ~ Ended'
    BY <1>2, <1>3 DEF Running, Ended
  <2> QED
    BY <1>0, <1>2, <1>3, <2>1, <2>4, <2>5, <2>6 DEF TellInv
<1>4. CASE Broke
  <2>1. next <= Len(plan) /\ next' = next /\ done' = TRUE /\ error' = TRUE /\ raised' = raised
    BY <1>4 DEF Broke, RunKeeps
  <2>2. PICK answer \in AnswersTo(plan[next]) :
          Send(plan[next], answer) /\ answer \notin Settled(engine)
    BY <1>4 DEF Broke
  <2>3. /\ Len(sent') = next /\ \A j \in 1..(next - 1) : sent'[j] = sent[j]
        /\ sent'[next].at = plan[next] /\ sent'[next].answer = answer /\ answer # "ok"
    BY <1>0, <1>2, <1>4, <2>2, SentOne DEF Settled
  <2>4. CASE results' = WholeFailed
    BY <2>1, <2>4, <1>2, <1>4, ToldIsWhole DEF TellInv, ToldAsAWhole
  <2>5. ASSUME NEW skip \in {Skipped, SkippedAsError, ToldAsFailed},
               skip = ToldAsFailed => engine \in {"cassandra", "phoenix"},
               results' = Append(results, Told(plan[next], 2, "failed")) \o RestTold(skip)
        PROVE  Len(results') = Len(plan) /\ \A k \in 1..Len(plan) : Says(k)'
    <3> DEFINE x == Told(plan[next], 2, "failed")
    <3>1. /\ RestTold(skip) \in Seq(Telling) /\ Len(RestTold(skip)) = Len(plan) - next
          /\ \A i \in 1..(Len(plan) - next) :
               RestTold(skip)[i] = Told(plan[next + i], skip.level, skip.word)
      BY <1>0, <2>1, <2>5, RestIsTold
    <3>2. x \in Telling /\ x.at = plan[next] /\ x.word = "failed"
      <4>1. plan[next] \in Places
        <5> HIDE DEF Places
        <5> QED
          BY <1>0, <2>1
      <4> QED
        BY <4>1 DEF Told, Telling, Words
    <3> HIDE DEF x
    <3>3. /\ Len(results') = Len(plan) /\ results'[next] = x
          /\ \A k \in 1..(next - 1) : results'[k] = results[k]
          /\ \A k \in (next + 1)..Len(plan) : results'[k] = RestTold(skip)[k - next]
      <4>1. results' = Append(results, x) \o RestTold(skip)
        BY <2>5 DEF x
      <4>2. Append(results, x) \in Seq(Telling) /\ Len(Append(results, x)) = next
            /\ Append(results, x)[next] = x
            /\ \A k \in 1..(next - 1) : Append(results, x)[k] = results[k]
        <5> HIDE DEF Telling
        <5> QED
          BY <1>0, <1>2, <1>4, <3>2
      <4> DEFINE p == Append(results, x)
                 q == RestTold(skip)
      <4>3. /\ p \in Seq(Telling) /\ q \in Seq(Telling) /\ results' = p \o q
            /\ Len(p) = next /\ Len(q) = Len(plan) - next /\ p[next] = x
            /\ \A k \in 1..(next - 1) : p[k] = results[k]
        BY <3>1, <4>1, <4>2
      <4>4. next \in Nat /\ next >= 1 /\ Len(plan) \in Nat /\ next <= Len(plan)
        BY <1>0, <2>1
      <4> HIDE DEF Telling, p, q
      <4>5. /\ Len(results') = Len(p) + Len(q)
            /\ \A k \in 1..(Len(p) + Len(q)) :
                 results'[k] = IF k <= Len(p) THEN p[k] ELSE q[k - Len(p)]
        BY <4>3, ConcatIs
      <4>6. Len(results') = Len(plan)
        BY <4>3, <4>4, <4>5
      <4>7. results'[next] = x
        BY <4>3, <4>4, <4>5
      <4>8. \A k \in 1..(next - 1) : results'[k] = results[k]
        BY <4>3, <4>4, <4>5
      <4>9. \A k \in (next + 1)..Len(plan) : results'[k] = q[k - next]
        BY <4>3, <4>4, <4>5
      <4> QED
        BY <4>6, <4>7, <4>8, <4>9 DEF q
    <3>4. ASSUME NEW k \in 1..Len(plan)
          PROVE  Says(k)'
      <4>1. CASE k < next
        <5>1. k \in 1..(next - 1) /\ Says(k) /\ results'[k] = results[k] /\ sent'[k] = sent[k]
          BY <1>0, <1>2, <1>4, <2>3, <3>3, <4>1
        <5> QED
          BY <1>0, <1>2, <1>4, <2>3, <5>1 DEF Says, Settled
      <4>2. CASE k = next
        BY <1>0, <1>2, <1>4, <2>3, <3>2, <3>3, <4>2 DEF Says, Settled
      <4>3. CASE k > next
        <5>1. results'[k] = Told(plan[k], skip.level, skip.word)
          <6>1. k - next \in 1..(Len(plan) - next) /\ next + (k - next) = k
                /\ k \in (next + 1)..Len(plan)
            BY <1>0, <4>3
          <6> QED
            BY <3>1, <3>3, <6>1
        <5>2. skip.word = "skipped" \/ (skip.word = "failed" /\ engine \in {"cassandra", "phoenix"})
          BY <2>5 DEF Skipped, SkippedAsError, ToldAsFailed
        <5> QED
          BY <1>0, <1>2, <1>4, <2>3, <4>3, <5>1, <5>2 DEF Says, Told
      <4> QED
        BY <1>0, <4>1, <4>2, <4>3
    <3> QED
      BY <3>3, <3>4
  <2>6. ~ raised /\ ~ Ended'
    BY <1>2, <1>4 DEF Running, Ended
  <2>7. CASE results' # WholeFailed
    <3>1. Len(results') = Len(plan) /\ \A k \in 1..Len(plan) : Says(k)'
      BY <1>4, <2>5, <2>7 DEF Broke
    <3> QED
      BY <1>2, <1>4, <2>1, <2>6, <3>1 DEF TellInv
  <2> QED
    BY <2>4, <2>7
<1>5. CASE Quit
  <2>1. next' = next /\ sent' = sent /\ ~ Ended' /\ ~ done /\ ~ raised
    BY <1>2, <1>5 DEF Quit, Ended, Running
  <2>2. CASE raised' = TRUE /\ UNCHANGED <<schema, results, error, done>>
    <3>1. \A k \in 1..(next - 1) : Says(k)' <=> Says(k)
      BY <1>2, <1>5, <2>1, <2>2 DEF Says, Settled
    <3> QED
      BY <1>2, <1>5, <2>1, <2>2, <3>1 DEF TellInv
  <2>3. CASE ToldAsAWhole' /\ done' = TRUE
    BY <2>1, <2>3 DEF TellInv
  <2>4. CASE engine = "pgsql" /\ next > Len(plan) /\ done' = TRUE /\ error' = TRUE /\ raised' = raised
             /\ results' = Append(results, Told(plan[Len(plan)], 2, "failed"))
    <3>1. next = Len(plan) + 1
      BY <1>0, <2>4
    <3>2. /\ Len(results') = Len(plan) + 1
          /\ \A k \in 1..Len(plan) : results'[k] = results[k]
      <4> DEFINE x == Told(plan[Len(plan)], 2, "failed")
      <4> HIDE DEF x, Telling
      <4>1. results' = Append(results, x) /\ Len(results) = Len(plan)
        BY <1>0, <1>2, <1>5, <2>4, <3>1 DEF x
      <4> QED
        BY <1>0, <4>1
    <3>3. \A k \in 1..Len(plan) : Says(k)' <=> Says(k)
      BY <1>2, <1>5, <2>1, <3>2 DEF Says, Settled
    <3>4. \A k \in 1..Len(plan) : Says(k)'
      BY <1>0, <1>2, <1>5, <3>1, <3>3
    <3> QED
      BY <1>2, <1>5, <2>1, <2>4, <3>2, <3>4 DEF TellInv
  <2>5. RestTold(Skipped) \in Seq(Telling)
    BY <1>0, RestIsTold
  <2> QED
    BY <1>5, <2>2, <2>3, <2>4, <2>5, ToldIsWhole DEF Quit, ToldAsAWhole
<1>6. CASE Returns
  <2>1. next > Len(plan) /\ done' = TRUE /\ UNCHANGED <<next, results, sent, raised>> /\ ~ Ended'
    BY <1>2, <1>6 DEF Returns, outcome, Ended
  <2>2. next = Len(plan) + 1
    BY <1>0, <2>1
  <2>3. \A k \in 1..Len(plan) : Says(k)' <=> Says(k)
    BY <1>2, <1>6, <2>1 DEF Says, Settled
  <2> QED
    BY <1>0, <1>2, <1>6, <2>1, <2>2, <2>3 DEF TellInv
<1>7. CASE execute_callback
  <2>1. /\ status = "executing" /\ (done \/ raised) /\ status' \in {"exception", "finish"}
        /\ results' = IF raised THEN WholeFailed ELSE results
        /\ UNCHANGED <<engine, script, plan, next, error, done, raised, sent>>
    BY <1>7 DEF execute_callback, instance, ticket
  <2>2. AllDecoded
    BY <2>1 DEF AllDecoded
  <2>3. CASE raised
    BY <2>1, <2>3, ToldIsWhole DEF TellInv, ToldAsAWhole
  <2>4. CASE ~ raised
    <3>1. done /\ results' = results /\ ~ raised'
      BY <2>1, <2>4
    <3>2. \A k \in 1..Len(plan) : Says(k)' <=> Says(k)
      BY <2>1, <3>1 DEF Says, Settled
    <3>3. ToldAsAWhole' <=> ToldAsAWhole
      BY <2>1, <3>1 DEF ToldAsAWhole
    <3> QED
      BY <2>1, <2>2, <3>1, <3>2, <3>3 DEF TellInv
  <2> QED
    BY <2>3, <2>4
<1>8. CASE UNCHANGED vars
  <2>1. UNCHANGED <<engine, script, plan, next, results, error, done, raised, sent, status>>
    BY <1>8 DEF vars
  <2>2. AllDecoded
    BY <2>1 DEF AllDecoded
  <2>3. \A k : Says(k)' <=> Says(k)
    BY <2>1 DEF Says, Settled
  <2> QED
    BY <2>1, <2>2, <2>3 DEF TellInv, ToldAsAWhole, Ended
<1> QED
  BY <1>1, <1>3, <1>4, <1>5, <1>6, <1>7, <1>8, RunIsOne DEF Next

LEMMA TellCorrect == Spec => [](TypePhase /\ TraceInv /\ TellInv)
<1>1. TypePhase /\ TraceInv /\ TellInv /\ [Next]_vars => (TypePhase /\ TraceInv /\ TellInv)'
  BY PhaseNext, TraceNext, TellNext
<1> QED
  BY PhaseInit, TraceInit, TellInit, <1>1, PTL DEF Spec

\* A statement is sent once: what was answered to it is what its place in the trace says.
LEMMA AnsweredOnce ==
  ASSUME TypePhase, TraceInv, status \notin Beginning, NEW k \in 1..Len(plan)
  PROVE  AnswersOf(plan[k]) = IF k <= Len(sent) THEN {sent[k].answer} ELSE {}
<1>1. /\ plan = Planned /\ plan \in Seq(Places) /\ GoodReview(engine, script, rows)
      /\ Len(script) <= MaxStatements /\ script \in Seq(Statement)
  BY ScriptsAreStatements DEF TypePhase, Phase, EngineTypeOK, Beginning
<1>2. DOMAIN sent = 1..Len(sent) /\ Len(sent) \in Nat /\ Len(plan) \in Nat /\ DOMAIN plan = 1..Len(plan)
  BY <1>1 DEF TypePhase, EngineTypeOK
<1>3. \A j \in 1..Len(plan) : plan[j] = j - Ahead
  BY <1>1, <1>2, PlanIsInOrder
<1>4. Ahead \in {0, 1}
  BY DEF Ahead
<1>5. \A j \in 1..Len(plan) : plan[j] = plan[k] => j = k
  BY <1>2, <1>3, <1>4
<1>6. \A j \in 1..Len(sent) : sent[j].at = plan[k] <=> j = k
  BY <1>2, <1>5 DEF TraceInv
<1>7. {j \in DOMAIN sent : sent[j].at = plan[k]} = IF k <= Len(sent) THEN {k} ELSE {}
  BY <1>2, <1>6
<1> QED
  BY <1>7 DEF AnswersOf

\* What the result tells of each statement is what happened to it (the rows that
\* execute_workflow of each engine appends, and those it adds for what is left).
THEOREM EachIsTold == Spec => []StatementsAreTold
<1>1. TypePhase /\ TraceInv /\ TellInv => StatementsAreTold
  <2> SUFFICES ASSUME TypePhase, TraceInv, TellInv, Ended, ~ ToldAsAWhole, AllDecoded
               PROVE  /\ Len(results) = Len(plan) \/ (engine = "pgsql" /\ error /\ Len(results) = Len(plan) + 1)
                      /\ \A k \in DOMAIN plan :
                           /\ results[k].at = plan[k]
                           /\ CASE results[k].word = "ok"      -> AnswersOf(plan[k]) = {"ok"}
                                [] results[k].word = "noted"   -> AnswersOf(plan[k]) \subseteq Settled(engine)
                                [] results[k].word = "skipped" -> AnswersOf(plan[k]) = {}
                                [] results[k].word = "failed"  ->
                                     /\ "ok" \notin AnswersOf(plan[k])
                                     /\ AnswersOf(plan[k]) = {} => engine \in {"cassandra", "phoenix"}
    BY Zenon DEF StatementsAreTold, AllDecoded
  <2>1. done /\ status \notin Beginning
    BY ToldIsWhole DEF ToldAsAWhole, TypePhase, Phase, Ended, Beginning
  <2>2. /\ Len(results) = Len(plan) \/ (engine = "pgsql" /\ error /\ Len(results) = Len(plan) + 1)
        /\ \A k \in 1..Len(plan) : Says(k)
    BY <2>1, Zenon DEF TellInv
  <2>3. /\ DOMAIN plan = 1..Len(plan) /\ Len(plan) \in Nat /\ Len(sent) \in Nat
        /\ results \in Seq(Telling)
    BY DEF TypePhase, EngineTypeOK, Telling
  <2>4. ASSUME NEW k \in 1..Len(plan)
        PROVE  /\ results[k].at = plan[k]
               /\ CASE results[k].word = "ok"      -> AnswersOf(plan[k]) = {"ok"}
                    [] results[k].word = "noted"   -> AnswersOf(plan[k]) \subseteq Settled(engine)
                    [] results[k].word = "skipped" -> AnswersOf(plan[k]) = {}
                    [] results[k].word = "failed"  ->
                         /\ "ok" \notin AnswersOf(plan[k])
                         /\ AnswersOf(plan[k]) = {} => engine \in {"cassandra", "phoenix"}
    <3>1. AnswersOf(plan[k]) = IF k <= Len(sent) THEN {sent[k].answer} ELSE {}
      BY <2>1, AnsweredOnce
    <3>2. results[k].word \in Words
      <4>1. k \in DOMAIN results
        BY <2>2, <2>3
      <4>2. results[k] \in Telling
        <5> HIDE DEF Telling
        <5> QED
          BY <2>3, <4>1
      <4> QED
        BY <4>2 DEF Telling
    <3>3. Says(k)
      BY <2>2
    <3>4. CASE results[k].word = "ok"
      BY <2>3, <3>1, <3>3, <3>4 DEF Says
    <3>5. CASE results[k].word = "noted"
      BY <2>3, <3>1, <3>3, <3>5 DEF Says
    <3>6. CASE results[k].word = "skipped"
      BY <2>3, <3>1, <3>3, <3>6 DEF Says
    <3>7. CASE results[k].word = "failed"
      BY <2>3, <3>1, <3>3, <3>7 DEF Says
    <3> QED
      BY <3>2, <3>4, <3>5, <3>6, <3>7 DEF Words
  <2> QED
    BY <2>2, <2>3, <2>4
<1> QED
  BY TellCorrect, <1>1, PTL

-----------------------------------------------------------------------------
(* What is left on the server.                                             *)

\* The objects after one more row of a result.
OneMore(sch, row) ==
  IF row.word = "ok" /\ row.at # Use THEN After(engine, sch, script[row.at]) ELSE sch

\* h has the objects after each row of a result, from those at the beginning of the run.
HistoryOf(h, told) ==
  h = [k \in 0..Len(told) |-> IF k = 0 THEN before ELSE OneMore(h[k - 1], told[k])]

\* There is only one such history, and LeftAfter follows it.
LEMMA LeftIsHistory ==
  ASSUME results \in Seq(Telling), NEW h, HistoryOf(h, results)
  PROVE  LeftAfter(Len(results)) = h[Len(results)]
<1> DEFINE n == Len(results)
           IsLeft(f) == f = [k \in 0..n |->
                               IF k = 0 THEN before
                               ELSE IF results[k].word = "ok" /\ results[k].at # Use
                                    THEN After(engine, f[k - 1], script[results[k].at])
                                    ELSE f[k - 1]]
           left == CHOOSE f : IsLeft(f)
<1>1. n \in Nat
  OBVIOUS
<1>2. LeftAfter(n) = left[n]
  BY Zenon DEF LeftAfter
<1>3. \A f : IsLeft(f) <=> HistoryOf(f, results)
  BY DEF HistoryOf, OneMore
<1> HIDE DEF IsLeft, n
<1>4. HistoryOf(left, results)
  BY <1>3
<1> HIDE DEF left
<1>5. \A k \in 0..n : left[k] = h[k]
  <2> DEFINE Apart == {k \in 0..n : left[k] # h[k]}
  <2> SUFFICES ASSUME Apart # {} PROVE FALSE
    OBVIOUS
  <2>1. PICK k \in Apart : \A j \in Apart : k <= j
    <3>1. Apart \in SUBSET Nat
      BY <1>1
    <3> HIDE DEF Apart
    <3> QED
      BY <3>1, LeastNumber
  <2>2. k \in 0..n /\ left[k] # h[k]
    BY <2>1
  <2>3. CASE k = 0
    BY <1>1, <1>4, <2>2, <2>3 DEF HistoryOf, n
  <2>4. CASE k # 0
    <3>1. k - 1 \in 0..n /\ k - 1 \notin Apart
      BY <1>1, <2>1, <2>2, <2>4
    <3>2. left[k - 1] = h[k - 1]
      BY <3>1
    <3>3. left[k] = OneMore(left[k - 1], results[k]) /\ h[k] = OneMore(h[k - 1], results[k])
      BY <1>1, <1>4, <2>2, <2>4 DEF HistoryOf, n
    <3> QED
      BY <2>2, <3>2, <3>3
  <2> QED
    BY <2>3, <2>4
<1> QED
  BY <1>1, <1>2, <1>5 DEF n

\* A history goes on with one more row.
LEMMA HistoryGoesOn ==
  ASSUME NEW told \in Seq(Telling), NEW row \in Telling, NEW h, HistoryOf(h, told)
  PROVE  \E g : /\ HistoryOf(g, Append(told, row))
                /\ g[Len(told) + 1] = OneMore(h[Len(told)], row)
<1> DEFINE n == Len(told)
           more == Append(told, row)
           g == [k \in 0..(n + 1) |-> IF k = n + 1 THEN OneMore(h[n], row) ELSE h[k]]
<1>1. /\ n \in Nat /\ Len(more) = n + 1 /\ more[n + 1] = row
      /\ \A k \in 1..n : more[k] = told[k]
  <2> HIDE DEF Telling
  <2> QED
    OBVIOUS
<1> HIDE DEF more
<1>2. ASSUME NEW k \in 0..(n + 1)
      PROVE  g[k] = IF k = 0 THEN before ELSE OneMore(g[k - 1], more[k])
  <2>1. CASE k = n + 1
    <3>1. k # 0 /\ k - 1 = n /\ n \in 0..(n + 1) /\ n # n + 1
      BY <1>1, <2>1
    <3>2. g[k] = OneMore(h[n], row) /\ g[n] = h[n]
      BY <1>1, <2>1, <3>1
    <3> HIDE DEF g, n
    <3> QED
      BY <1>1, <2>1, <3>1, <3>2
  <2>2. CASE k \in 1..n
    <3>1. k - 1 \in 0..n /\ k # n + 1 /\ k - 1 # n + 1 /\ k # 0 /\ k - 1 \in 0..(n + 1) /\ k \in 0..n
      BY <1>1, <2>2
    <3>2. g[k] = h[k] /\ g[k - 1] = h[k - 1]
      BY <3>1
    <3>3. h[k] = OneMore(h[k - 1], told[k])
      BY <3>1 DEF HistoryOf
    <3> HIDE DEF g, n
    <3> QED
      BY <1>1, <2>2, <3>1, <3>2, <3>3
  <2>3. CASE k = 0
    <3>1. g[0] = h[0] /\ h[0] = before
      BY <1>1 DEF HistoryOf
    <3> HIDE DEF g, n
    <3> QED
      BY <2>3, <3>1
  <2> QED
    BY <1>1, <2>1, <2>2, <2>3
<1>3. g = [k \in 0..(n + 1) |-> g[k]]
  OBVIOUS
<1>4. g[n + 1] = OneMore(h[n], row)
  BY <1>1
<1> HIDE DEF g
<1>5. HistoryOf(g, more)
  <2> HIDE DEF n
  <2>1. g = [k \in 0..(n + 1) |-> IF k = 0 THEN before ELSE OneMore(g[k - 1], more[k])]
    BY <1>2, <1>3
  <2> QED
    BY <1>1, <2>1 DEF HistoryOf
<1> QED
  BY <1>4, <1>5 DEF more

\* Rows of statements that were not taken leave no trace on the server.
LEMMA HistoryEnds ==
  ASSUME NEW told \in Seq(Telling), NEW rest \in Seq(Telling), NEW h, HistoryOf(h, told),
         \A i \in 1..Len(rest) : rest[i].word # "ok"
  PROVE  \E g : /\ HistoryOf(g, told \o rest)
                /\ g[Len(told \o rest)] = h[Len(told)]
<1> DEFINE n == Len(told)
           m == Len(rest)
           all == told \o rest
           g == [k \in 0..(n + m) |-> IF k <= n THEN h[k] ELSE h[n]]
<1>1. /\ n \in Nat /\ m \in Nat /\ Len(all) = n + m
      /\ \A k \in 1..n : all[k] = told[k]
      /\ \A k \in (n + 1)..(n + m) : all[k] = rest[k - n]
  <2> HIDE DEF Telling
  <2> QED
    OBVIOUS
<1> HIDE DEF all
<1>2. ASSUME NEW k \in 0..(n + m)
      PROVE  g[k] = IF k = 0 THEN before ELSE OneMore(g[k - 1], all[k])
  <2>1. CASE k > n
    <3>1. k - n \in 1..m /\ k \in (n + 1)..(n + m) /\ k # 0 /\ k - 1 \in 0..(n + m) /\ k - 1 >= n
      BY <1>1, <2>1
    <3>2. g[k] = h[n] /\ g[k - 1] = h[n]
      <4>1. k - 1 <= n => k - 1 = n
        BY <1>1, <3>1
      <4>2. ~ (k <= n)
        BY <1>1, <2>1
      <4> QED
        BY <3>1, <4>1, <4>2
    <3>3. all[k].word # "ok"
      BY <1>1, <3>1
    <3> HIDE DEF g, n, m
    <3> QED
      BY <3>1, <3>2, <3>3 DEF OneMore
  <2>2. CASE k \in 1..n
    <3>1. k - 1 \in 0..n /\ k <= n /\ k - 1 <= n /\ k # 0 /\ k - 1 \in 0..(n + m) /\ k \in 0..n
      BY <1>1, <2>2
    <3>2. g[k] = h[k] /\ g[k - 1] = h[k - 1]
      BY <3>1
    <3>3. h[k] = OneMore(h[k - 1], told[k])
      BY <3>1 DEF HistoryOf
    <3> HIDE DEF g, n
    <3> QED
      BY <1>1, <2>2, <3>1, <3>2, <3>3
  <2>3. CASE k = 0
    <3>1. g[0] = h[0] /\ h[0] = before
      BY <1>1 DEF HistoryOf
    <3> HIDE DEF g, n
    <3> QED
      BY <2>3, <3>1
  <2> QED
    BY <1>1, <2>1, <2>2, <2>3
<1>3. g = [k \in 0..(n + m) |-> g[k]]
  OBVIOUS
<1>4. g[n + m] = h[n]
  BY <1>1
<1> HIDE DEF g
<1>5. HistoryOf(g, all)
  <2> HIDE DEF n, m
  <2>1. g = [k \in 0..(n + m) |-> IF k = 0 THEN before ELSE OneMore(g[k - 1], all[k])]
    BY <1>2, <1>3
  <2> QED
    BY <1>1, <2>1 DEF HistoryOf
<1> QED
  BY <1>1, <1>4, <1>5 DEF all

Compiled == "uncompiled" \notin {sent[j].answer : j \in DOMAIN sent}

LeftBehind == \E h : HistoryOf(h, results) /\ h[Len(results)] = schema

\* The server has what the rows told as ok leave behind; PostgreSQL has nothing of a run that
\* failed.
EffectInv ==
  /\ engine = "pgsql" /\ ~ done => ~ error
  /\ Compiled =>
       /\ Running => LeftBehind
       /\ done /\ ~ ToldAsAWhole =>
            IF engine = "pgsql" /\ error THEN schema = before ELSE LeftBehind

LEMMA EffectInit == Init => EffectInv
  BY DEF Init, EffectInv, Running

LEMMA EffectNext == TypePhase /\ TraceInv /\ EffectInv /\ [Next]_vars => EffectInv'
<1> SUFFICES ASSUME TypePhase, TraceInv, EffectInv, [Next]_vars
             PROVE  EffectInv'
  OBVIOUS
<1>0. /\ Len(plan) \in Nat /\ next \in 1..(Len(plan) + 1) /\ EngineTypeOK
      /\ results \in Seq(Telling) /\ sent \in Seq([at : Places, answer : Answers])
      /\ plan \in Seq(Places) /\ DOMAIN sent = 1..Len(sent) /\ Len(sent) \in Nat
      /\ error \in BOOLEAN
  BY DEF TypePhase, EngineTypeOK, Telling
<1>1. CASE Submit \/ Approve \/ Interfere
  <2>1. /\ ~ done /\ ~ error
        /\ done' = done /\ error' = error /\ status' # "executing"
    BY <1>1 DEF TypePhase, Phase, Beginning, Submit, Approve, Interfere, outcome
  <2> QED
    BY <2>1 DEF EffectInv, Running
<1>2. CASE Begin
  <2>1. /\ ~ done /\ ~ error /\ done' = done /\ error' = error
        /\ results' = << >> /\ schema' = schema /\ before' = schema
    BY <1>2 DEF TypePhase, Phase, Beginning, Begin, instance, outcome
  <2> DEFINE h == [k \in 0..0 |-> schema]
  <2>2. h[0] = schema /\ Len(<< >>) = 0
    OBVIOUS
  <2>3. HistoryOf(h, results)'
    BY <2>1 DEF HistoryOf
  <2>4. LeftBehind'
    BY <2>1, <2>2, <2>3 DEF LeftBehind
  <2> QED
    BY <2>1, <2>4 DEF EffectInv
<1>3. ASSUME Took \/ Broke \/ Quit \/ Returns
      PROVE  /\ Running /\ UNCHANGED <<engine, script, before, plan, status>>
             /\ \A g : HistoryOf(g, results') => HistoryOf(g, results)'
  <2>1. Running /\ UNCHANGED <<engine, script, before, plan, status>>
    BY <1>3 DEF Took, Broke, Quit, Returns, RunKeeps, ticket, instance
  <2> QED
    BY <2>1 DEF HistoryOf, OneMore
<1>4. ASSUME NEW at, NEW answer, Send(at, answer), Compiled'
      PROVE  Compiled /\ answer # "uncompiled"
  <2>1. /\ Len(sent') = Len(sent) + 1 /\ \A j \in 1..Len(sent) : sent'[j] = sent[j]
        /\ sent'[Len(sent) + 1].answer = answer
    BY <1>0, <1>4, SentOne
  <2>2. DOMAIN sent' = 1..(Len(sent) + 1)
    <3> DEFINE x == [at |-> at, answer |-> answer]
    <3> HIDE DEF x
    <3>1. sent' = Append(sent, x)
      BY <1>4 DEF Send, x
    <3> QED
      BY <1>0, <3>1
  <2> QED
    BY <1>0, <1>4, <2>1, <2>2 DEF Compiled
<1>5. CASE Took
  <2>1. next <= Len(plan) /\ done' = done /\ raised' = raised
    BY <1>5 DEF Took, RunKeeps
  <2>2. PICK answer \in AnswersTo(plan[next]) :
          /\ Send(plan[next], answer)
          /\ answer \in Settled(engine) \/ GoesOn
          /\ error' = (error \/ answer \notin Settled(engine))
          /\ schema' = Effect(plan[next], answer)
          /\ \/ \E row : TellsOf(row, plan[next], answer) /\ results' = Append(results, row)
             \/ engine = "mongo" /\ answer = "invalid" /\ results' = results
    BY <1>5 DEF Took
  <2>3. engine = "pgsql" => error' = error
    BY <1>0, <2>2 DEF GoesOn
  <2>4. ASSUME Compiled'
        PROVE  LeftBehind'
    <3>1. Compiled /\ answer # "uncompiled"
      BY <2>2, <2>4, <1>4
    <3>2. PICK h : HistoryOf(h, results) /\ h[Len(results)] = schema
      BY <1>3, <1>5, <3>1 DEF EffectInv, LeftBehind
    <3>3. CASE results' = results /\ answer = "invalid"
      <4>1. schema' = schema
        BY <2>2, <3>3 DEF Effect
      <4> QED
        BY <1>3, <1>5, <3>2, <3>3, <4>1 DEF LeftBehind
    <3>4. ASSUME NEW row, TellsOf(row, plan[next], answer), results' = Append(results, row)
          PROVE  LeftBehind'
      <4>1. row \in Telling
        BY <3>4 DEF TellsOf, Telling, Words
      <4>2. PICK g : /\ HistoryOf(g, results') /\ g[Len(results) + 1] = OneMore(schema, row)
        BY <1>0, <3>2, <3>4, <4>1, HistoryGoesOn
      <4>3. schema' = OneMore(schema, row)
        BY <2>2, <3>1, <3>4 DEF OneMore, Effect, TellsOf
      <4>4. Len(results') = Len(results) + 1
        <5> HIDE DEF Telling
        <5> QED
          BY <1>0, <3>4, <4>1
      <4> QED
        BY <1>3, <1>5, <4>2, <4>3, <4>4 DEF LeftBehind
    <3> QED
      BY <2>2, <3>3, <3>4
  <2> QED
    BY <1>3, <1>5, <2>1, <2>3, <2>4 DEF EffectInv, Running
<1>6. CASE Broke
  <2>1. /\ next <= Len(plan) /\ done' = TRUE /\ error' = TRUE /\ raised' = raised
        /\ plan[next] \in Places
    <3>1. next <= Len(plan) /\ done' = TRUE /\ error' = TRUE /\ raised' = raised
      BY <1>6 DEF Broke, RunKeeps
    <3> HIDE DEF Places
    <3> QED
      BY <1>0, <3>1
  <2>2. PICK answer \in AnswersTo(plan[next]) :
          /\ Send(plan[next], answer)
          /\ answer \notin Settled(engine)
          /\ schema' = IF engine = "pgsql" THEN before ELSE Effect(plan[next], answer)
    BY <1>6 DEF Broke
  <2>3. ~ Running'
    BY <2>1 DEF Running
  <2>4. CASE results' = WholeFailed
    BY <2>1, <2>3, <2>4, ToldIsWhole DEF EffectInv, ToldAsAWhole
  <2>5. CASE engine = "pgsql"
    BY <1>3, <1>6, <2>1, <2>2, <2>3, <2>5 DEF EffectInv
  <2>6. ASSUME engine # "pgsql", Compiled', NEW skip \in {Skipped, SkippedAsError, ToldAsFailed},
               results' = Append(results, Told(plan[next], 2, "failed")) \o RestTold(skip)
        PROVE  LeftBehind'
    <3>1. Compiled /\ answer # "uncompiled" /\ answer # "ok"
      BY <2>2, <2>6, <1>4 DEF Settled
    <3>2. PICK h : HistoryOf(h, results) /\ h[Len(results)] = schema
      BY <1>3, <1>6, <3>1 DEF EffectInv, LeftBehind
    <3> DEFINE x == Told(plan[next], 2, "failed")
               told == Append(results, x)
    <3>3. x \in Telling /\ x.word # "ok"
      BY <2>1 DEF Told, Telling, Words
    <3>4. told \in Seq(Telling) /\ Len(told) = Len(results) + 1
      <4> HIDE DEF x, Telling
      <4> QED
        BY <1>0, <3>3
    <3>5. OneMore(schema, x) = schema
      BY <3>3 DEF OneMore
    <3>6. PICK g : HistoryOf(g, told) /\ g[Len(told)] = schema
      <4> HIDE DEF x
      <4> QED
        BY <1>0, <3>2, <3>3, <3>4, <3>5, HistoryGoesOn
    <3>7. /\ RestTold(skip) \in Seq(Telling)
          /\ \A i \in 1..Len(RestTold(skip)) : RestTold(skip)[i].word # "ok"
      <4>1. skip.word # "ok"
        BY DEF Skipped, SkippedAsError, ToldAsFailed
      <4>2. \A y : Told(y, skip.level, skip.word).word = skip.word
        BY DEF Told
      <4> QED
        BY <1>0, <4>1, <4>2, RestIsTold
    <3>8. results' = told \o RestTold(skip)
      BY <2>6
    <3> HIDE DEF told
    <3>9. PICK f : HistoryOf(f, results') /\ f[Len(results')] = schema
      BY <3>4, <3>6, <3>7, <3>8, HistoryEnds
    <3>10. schema' = schema
      BY <2>2, <2>6, <3>1 DEF Effect
    <3> QED
      BY <1>3, <1>6, <3>9, <3>10 DEF LeftBehind
  <2>7. CASE engine # "pgsql" /\ results' # WholeFailed
    <3>1. Compiled' => LeftBehind'
      BY <1>6, <2>6, <2>7 DEF Broke
    <3> QED
      BY <1>3, <1>6, <2>1, <2>3, <2>7, <3>1 DEF EffectInv
  <2> QED
    BY <2>4, <2>5, <2>7
<1>7. CASE Quit
  <2>1. sent' = sent /\ ~ done /\ (engine = "pgsql" => ~ error)
    BY <1>3, <1>7 DEF Quit, Running, EffectInv
  <2>2. CASE raised' = TRUE /\ UNCHANGED <<schema, results, error, done>>
    BY <1>3, <1>7, <2>1, <2>2 DEF EffectInv, Running
  <2>3. CASE ToldAsAWhole' /\ done' = TRUE
    BY <2>3 DEF EffectInv, Running
  <2>4. CASE engine = "pgsql" /\ done' = TRUE /\ error' = TRUE /\ schema' = before
    BY <1>3, <1>7, <2>4 DEF EffectInv, Running
  <2>5. RestTold(Skipped) \in Seq(Telling)
    BY <1>0, RestIsTold
  <2> QED
    BY <1>7, <2>2, <2>3, <2>4, <2>5, ToldIsWhole DEF Quit, ToldAsAWhole
<1>8. CASE Returns
  <2>1. /\ done' = TRUE /\ UNCHANGED <<schema, results, error, sent>>
        /\ ~ done /\ (engine = "pgsql" => ~ error)
    BY <1>3, <1>8 DEF Returns, Running, instance, outcome, EffectInv
  <2>2. Compiled' => LeftBehind'
    <3>1. Compiled' => LeftBehind
      BY <1>3, <1>8, <2>1 DEF EffectInv, Compiled
    <3> QED
      BY <1>3, <1>8, <2>1, <3>1 DEF LeftBehind
  <2> QED
    BY <1>3, <1>8, <2>1, <2>2 DEF EffectInv, Running
<1>9. CASE execute_callback \/ UNCHANGED vars
  <2>1. /\ UNCHANGED <<engine, script, schema, before, error, done, raised, sent>>
        /\ status' = status \/ (status' # "executing" /\ (done \/ raised))
        /\ results' = results \/ (raised /\ ~ done)
    BY <1>9 DEF execute_callback, vars, instance, ticket, TypePhase, Phase
  <2>2. CASE results' = results
    <3>1. \A g : HistoryOf(g, results)' <=> HistoryOf(g, results)
      BY <2>1, <2>2 DEF HistoryOf, OneMore
    <3>2. (LeftBehind' <=> LeftBehind) /\ (Compiled' <=> Compiled) /\ (ToldAsAWhole' <=> ToldAsAWhole)
          /\ (Running' => Running)
      BY <2>1, <2>2, <3>1 DEF LeftBehind, Compiled, ToldAsAWhole, Running
    <3> QED
      BY <2>1, <3>2 DEF EffectInv
  <2>3. CASE raised /\ ~ done
    BY <2>1, <2>3 DEF EffectInv, Running
  <2> QED
    BY <2>1, <2>2, <2>3
<1> QED
  BY <1>1, <1>2, <1>5, <1>6, <1>7, <1>8, <1>9, RunIsOne DEF Next

LEMMA EffectCorrect == Spec => [](TypePhase /\ TraceInv /\ TellInv /\ EffectInv)
<1>1. TypePhase /\ TraceInv /\ EffectInv /\ [Next]_vars => EffectInv'
  BY EffectNext
<1> QED
  BY PhaseInit, TraceInit, EffectInit, PhaseNext, TraceNext, TellCorrect, <1>1, PTL DEF Spec

\* The result tells what became of each statement, and the objects on the server are those
\* that the statements told as ok leave behind (none of a run of PostgreSQL that failed).
THEOREM ResultIsTrue == Spec => []ResultTellsWhatHappened
<1>1. TypePhase /\ TraceInv /\ TellInv /\ EffectInv => EffectsAreTold
  <2> SUFFICES ASSUME TypePhase, TraceInv, TellInv, EffectInv, Ended, ~ ToldAsAWhole, Compiled
               PROVE  schema = IF engine = "pgsql" /\ status = "exception" THEN before
                               ELSE LeftAfter(Len(results))
    BY DEF EffectsAreTold, Compiled
  <2>1. done /\ ~ raised
    BY ToldIsWhole DEF ToldAsAWhole, TypePhase, Phase, Ended
  <2>2. results \in Seq(Telling)
    BY DEF TypePhase, EngineTypeOK, Telling
  <2>3. ASSUME LeftBehind
        PROVE  schema = LeftAfter(Len(results))
    BY <2>2, <2>3, LeftIsHistory DEF LeftBehind
  <2> QED
    BY <2>1, <2>3 DEF EffectInv, TraceInv, Ended
<1> QED
  BY EachIsTold, EffectCorrect, <1>1, PTL DEF ResultTellsWhatHappened

-----------------------------------------------------------------------------
(* TDengine's check.  Both loops, of the check and of the server, go       *)
(* through the same objects.                                               *)

\* A loop that turns one value of T into another, n times.
LEMMA LoopRuns ==
  ASSUME NEW T, NEW start \in T, NEW n \in Nat, NEW step \in [1..n -> [T -> T]]
  PROVE  \E f \in [0..n -> T] :
           \A k \in 0..n : f[k] = IF k = 0 THEN start ELSE step[k][f[k - 1]]
<1> DEFINE IsLoop(f, m) ==
             /\ f \in [0..m -> T]
             /\ \A k \in 0..m : f[k] = IF k = 0 THEN start ELSE step[k][f[k - 1]]
           Stuck == {m \in 0..n : ~ \E f : IsLoop(f, m)}
<1>1. CASE Stuck = {}
  <2>1. n \in 0..n
    OBVIOUS
  <2>2. PICK f : IsLoop(f, n)
    BY <1>1, <2>1
  <2> QED
    BY <2>2
<1>2. CASE Stuck # {}
  <2>1. PICK m \in Stuck : \A k \in Stuck : m <= k
    <3>1. Stuck \in SUBSET Nat
      OBVIOUS
    <3> HIDE DEF Stuck
    <3> QED
      BY <1>2, <3>1, LeastNumber
  <2>2. m \in 0..n /\ ~ \E f : IsLoop(f, m)
    BY <2>1
  <2>3. CASE m = 0
    <3>1. IsLoop([k \in 0..0 |-> start], 0)
      OBVIOUS
    <3> QED
      BY <2>2, <2>3, <3>1
  <2>4. CASE m # 0
    <3>1. m \in 1..n /\ m - 1 \in 0..n /\ ~ (m <= m - 1)
      BY <2>2, <2>4
    <3>2. m - 1 \notin Stuck
      BY <2>1, <3>1
    <3>3. PICK f : IsLoop(f, m - 1)
      BY <3>1, <3>2
    <3>4. f[m - 1] \in T /\ step[m] \in [T -> T]
      BY <3>1, <3>3
    <3> DEFINE g == [k \in 0..m |-> IF k = m THEN step[m][f[m - 1]] ELSE f[k]]
    <3>5. g \in [0..m -> T]
      <4>1. ASSUME NEW k \in 0..m, k # m
            PROVE  f[k] \in T
        BY <3>1, <3>3, <4>1
      <4>2. step[m][f[m - 1]] \in T
        BY <3>4
      <4> QED
        BY <4>1, <4>2
    <3>6. ASSUME NEW k \in 0..m
          PROVE  g[k] = IF k = 0 THEN start ELSE step[k][g[k - 1]]
      <4>1. CASE k = m
        <5>1. g[m] = step[m][f[m - 1]] /\ g[m - 1] = f[m - 1]
          BY <3>1
        <5> QED
          BY <2>4, <4>1, <5>1
      <4>2. CASE k # m
        <5>1. k \in 0..(m - 1) /\ g[k] = f[k]
          BY <3>1, <4>2
        <5>2. f[k] = IF k = 0 THEN start ELSE step[k][f[k - 1]]
          BY <3>3, <5>1
        <5>3. k # 0 => g[k - 1] = f[k - 1]
          BY <3>1, <5>1
        <5> QED
          BY <5>1, <5>2, <5>3
      <4> QED
        BY <4>1, <4>2
    <3> HIDE DEF g
    <3>7. IsLoop(g, m)
      BY <3>5, <3>6
    <3> QED
      BY <2>2, <3>7
  <2> QED
    BY <2>3, <2>4
<1> QED
  BY <1>1, <1>2

\* A statement that TDengine's check looks at passes when the server would take it.
LEMMA LevelIsAnswer ==
  ASSUME NEW s \in Statement, NEW sch
  PROVE  tdengine_level(s, sch) = 0 <=> Allowed(s) /\ Answer("tdengine", sch, s) = "ok"
<1>1. /\ s.verb \in Verbs /\ {s.lax, s.critical, s.good} \subseteq BOOLEAN
  BY DEF Statement
<1>2. Answer("tdengine", sch, s) = SqlAnswer(sch, s)
  BY DEF Answer, Stores
<1>3. tdengine_level(s, sch) = 0 <=>
        /\ s.verb # "query" /\ ~ s.critical /\ s.good
        /\ \/ s.verb = "create" /\ create_passes(s, sch)
           \/ s.verb = "alter" /\ alter_passes(s, sch)
           \/ s.verb = "insert" /\ insert_passes(s, sch)
           \/ s.verb = "delete" /\ delete_passes(s, sch)
           \/ s.verb = "drop" /\ drop_passes(s, sch)
  BY DEF tdengine_level, Level
<1>4. CASE s.verb = "create"
  BY <1>1, <1>2, <1>3, <1>4 DEF create_passes, SqlAnswer, CreatesOk, Allowed
<1>5. CASE s.verb = "alter"
  BY <1>1, <1>2, <1>3, <1>5 DEF alter_passes, SqlAnswer, FitsKind, Allowed
<1>6. CASE s.verb = "insert"
  BY <1>1, <1>2, <1>3, <1>6 DEF insert_passes, SqlAnswer, FitsKind, Allowed
<1>7. CASE s.verb = "delete"
  BY <1>1, <1>2, <1>3, <1>7 DEF delete_passes, SqlAnswer, FitsKind, Allowed
<1>8. CASE s.verb = "drop"
  BY <1>1, <1>2, <1>3, <1>8 DEF drop_passes, SqlAnswer, FitsKind, Allowed
<1> QED
  BY <1>1, <1>3, <1>4, <1>5, <1>6, <1>7, <1>8 DEF Verbs, Allowed

\* What the check notes of a statement, and what the server has after it.
Noted(sch, made, s) == mark_table_created(made, s, tdengine_level(s, workflow_obj_check(sch, made)))

Had(sch, s) ==
  IF Allowed(s) /\ Answer("tdengine", sch, s) = "ok" THEN After("tdengine", sch, s) ELSE sch

\* One statement of a ticket that drops nothing, makes no subtable by an INSERT, and has made nothing
\* of that name before: what the check then sees is what the server would have.
LEMMA OneIsFollowed ==
  ASSUME NEW s \in Statement, NEW sch \in Schema, NEW made \in Schema,
         s.verb # "drop", s.verb = "insert" => ~ SubtableOf(s),
         s.verb = "create" => made[s.obj] = "none"
  PROVE  /\ Noted(sch, made, s) \in Schema
         /\ workflow_obj_check(sch, Noted(sch, made, s)) = Had(workflow_obj_check(sch, made), s)
         /\ \A o \in Objects : Noted(sch, made, s)[o] # made[o] => s.verb = "create" /\ s.obj = o
<1> DEFINE seen == workflow_obj_check(sch, made)
           new == Noted(sch, made, s)
<1>1. s.obj \in Objects /\ s.kind \in Types
  BY DEF Statement
<1>2. seen \in Schema /\ \A o \in Objects : seen[o] = IF sch[o] # "none" THEN sch[o] ELSE made[o]
  BY DEF workflow_obj_check, Schema, Exists
<1>3. Allowed(s) /\ Answer("tdengine", seen, s) = "ok" <=> tdengine_level(s, seen) = 0
  BY LevelIsAnswer
<1>4. new = IF s.verb = "create" /\ tdengine_level(s, seen) = 0
            THEN [made EXCEPT ![s.obj] = s.kind] ELSE made
  BY DEF Noted, mark_table_created
<1>5. Had(seen, s) = IF tdengine_level(s, seen) = 0 THEN After("tdengine", seen, s) ELSE seen
  BY <1>3 DEF Had
<1> HIDE DEF seen, new
<1>6. After("tdengine", seen, s) = IF s.verb = "create" /\ seen[s.obj] = "none"
                                   THEN [seen EXCEPT ![s.obj] = s.kind] ELSE seen
  BY DEF After, Exists, Stores
<1>7. new \in Schema /\ \A o \in Objects : new[o] # made[o] => s.verb = "create" /\ s.obj = o
  BY <1>1, <1>4 DEF Schema
<1>8. workflow_obj_check(sch, new) = Had(seen, s)
  <2> DEFINE then == Had(seen, s)
  <2>1. then \in Schema
    BY <1>1, <1>2, <1>5, <1>6 DEF Schema
  <2>2. ASSUME NEW o \in Objects
        PROVE  then[o] = IF sch[o] # "none" THEN sch[o] ELSE new[o]
    <3>1. CASE s.verb = "create" /\ s.obj = o /\ tdengine_level(s, seen) = 0
      <4>1. made[o] = "none" /\ new[o] = s.kind
        BY <1>1, <1>4, <3>1 DEF Schema
      <4>2. seen[o] = sch[o]
        BY <1>2, <4>1
      <4>3. then[o] = IF seen[o] = "none" THEN s.kind ELSE seen[o]
        BY <1>1, <1>2, <1>5, <1>6, <3>1 DEF Schema
      <4> QED
        BY <4>1, <4>2, <4>3
    <3>2. CASE ~ (s.verb = "create" /\ s.obj = o /\ tdengine_level(s, seen) = 0)
      <4>1. new[o] = made[o]
        BY <1>1, <1>4, <3>2 DEF Schema
      <4>2. then[o] = seen[o]
        BY <1>1, <1>2, <1>5, <1>6, <3>2 DEF Schema
      <4> QED
        BY <1>2, <4>1, <4>2
    <3> QED
      BY <3>1, <3>2
  <2> HIDE DEF then
  <2>3. then = [o \in Objects |-> then[o]]
    BY <2>1 DEF Schema
  <2> QED
    BY <2>2, <2>3 DEF workflow_obj_check, Exists, then
<1> QED
  BY <1>7, <1>8 DEF new, seen

\* The types of both.
LEMMA FollowTypes ==
  ASSUME NEW s \in Statement, NEW sch \in Schema, NEW made \in Schema
  PROVE  Noted(sch, made, s) \in Schema /\ Had(made, s) \in Schema
<1>1. s.obj \in Objects /\ s.kind \in Types /\ {"none", "table", "ctable"} \subseteq Types
  BY DEF Statement, Types
<1>2. Noted(sch, made, s) \in Schema
  BY <1>1 DEF Noted, mark_table_created, Schema
<1>3. Had(made, s) \in Schema
  BY <1>1 DEF Had, After, Schema
<1> QED
  BY <1>2, <1>3

\* What the check remembers, statement by statement.
LEMMA MadeIsLoop ==
  ASSUME EngineTypeOK, NEW n \in 0..Len(script)
  PROVE  \E made :
           /\ tdengine_made(script, schema, n) = made[n]
           /\ made[0] = Nothing
           /\ \A k \in 1..n : made[k] = Noted(schema, made[k - 1], script[k])
<1> DEFINE IsLoop(f) ==
             f = [k \in 0..n |->
                    IF k = 0 THEN Nothing
                    ELSE mark_table_created(f[k - 1], script[k],
                           tdengine_level(script[k], workflow_obj_check(schema, f[k - 1])))]
           made == CHOOSE f : IsLoop(f)
           step == [k \in 1..n |-> [m \in Schema |-> Noted(schema, m, script[k])]]
<1>1. tdengine_made(script, schema, n) = made[n]
  BY Zenon DEF tdengine_made
<1>2. n \in Nat /\ (\A k \in 1..n : script[k] \in Statement) /\ schema \in Schema
  <2> HIDE DEF Statement
  <2> QED
    BY ScriptsAreStatements DEF EngineTypeOK
<1>3. Nothing \in Schema
  BY DEF Nothing, Schema, Types
<1>4. step \in [1..n -> [Schema -> Schema]]
  <2> HIDE DEF Statement, Schema
  <2> QED
    BY <1>2, FollowTypes
<1>5. PICK f \in [0..n -> Schema] : \A k \in 0..n : f[k] = IF k = 0 THEN Nothing ELSE step[k][f[k - 1]]
  <2> HIDE DEF step, Schema
  <2> QED
    BY <1>2, <1>3, <1>4, LoopRuns
<1>6. IsLoop(f)
  <2>1. ASSUME NEW k \in 0..n, k # 0
        PROVE  f[k] = mark_table_created(f[k - 1], script[k],
                        tdengine_level(script[k], workflow_obj_check(schema, f[k - 1])))
    <3> HIDE DEF Schema
    <3>1. k \in 1..n /\ k - 1 \in 0..n
      BY <1>2, <2>1
    <3>2. f[k] = step[k][f[k - 1]] /\ f[k - 1] \in Schema
      BY <1>5, <2>1, <3>1
    <3>3. f[k] = Noted(schema, f[k - 1], script[k])
      BY <3>1, <3>2
    <3> QED
      BY <3>3 DEF Noted
  <2>2. f = [k \in 0..n |-> f[k]] /\ f[0] = Nothing
    <3> HIDE DEF Schema, step
    <3>1. 0 \in 0..n
      BY <1>2
    <3> QED
      BY  <1>5, <3>1
  <2> QED
    BY <2>1, <2>2
<1>7. IsLoop(made)
  BY <1>6
<1> HIDE DEF made
<1>8. made[0] = Nothing
  BY <1>2, <1>7
<1>9. ASSUME NEW k \in 1..n
      PROVE  made[k] = Noted(schema, made[k - 1], script[k])
  <2>1. k \in 0..n /\ k # 0
    BY <1>2
  <2> QED
    BY <1>7, <2>1 DEF Noted
<1> QED
  BY <1>1, <1>8, <1>9

\* What the server has, statement by statement.
LEMMA HasIsLoop ==
  ASSUME EngineTypeOK, engine = "tdengine", NEW n \in 0..Len(script)
  PROVE  \E has :
           /\ ServerHas(n) = has[n]
           /\ has[0] = schema
           /\ \A k \in 1..n : has[k] = Had(has[k - 1], script[k])
<1> DEFINE IsLoop(f) ==
             f = [k \in 0..n |->
                    IF k = 0 THEN schema
                    ELSE IF Allowed(script[k]) /\ Answer(engine, f[k - 1], script[k]) = "ok"
                         THEN After(engine, f[k - 1], script[k])
                         ELSE f[k - 1]]
           has == CHOOSE f : IsLoop(f)
           step == [k \in 1..n |-> [m \in Schema |-> Had(m, script[k])]]
<1>1. ServerHas(n) = has[n]
  BY Zenon DEF ServerHas
<1>2. n \in Nat /\ (\A k \in 1..n : script[k] \in Statement) /\ schema \in Schema
  <2> HIDE DEF Statement
  <2> QED
    BY ScriptsAreStatements DEF EngineTypeOK
<1>3. step \in [1..n -> [Schema -> Schema]]
  <2> HIDE DEF Statement, Schema
  <2> QED
    BY <1>2, FollowTypes
<1>4. PICK f \in [0..n -> Schema] : \A k \in 0..n : f[k] = IF k = 0 THEN schema ELSE step[k][f[k - 1]]
  <2>1. n \in Nat /\ schema \in Schema
    BY <1>2
  <2> HIDE DEF step, Schema
  <2> QED
    BY <1>3, <2>1, LoopRuns
<1>5. IsLoop(f)
  <2>1. ASSUME NEW k \in 0..n, k # 0
        PROVE  f[k] = IF Allowed(script[k]) /\ Answer(engine, f[k - 1], script[k]) = "ok"
                      THEN After(engine, f[k - 1], script[k])
                      ELSE f[k - 1]
    <3> HIDE DEF Schema
    <3>1. k \in 1..n /\ k - 1 \in 0..n
      BY <1>2, <2>1
    <3>2. f[k] = step[k][f[k - 1]] /\ f[k - 1] \in Schema
      BY <1>4, <2>1, <3>1
    <3>3. f[k] = Had(f[k - 1], script[k])
      BY <3>1, <3>2
    <3> QED
      BY <3>3 DEF Had
  <2>2. f = [k \in 0..n |-> f[k]] /\ f[0] = schema
    <3> HIDE DEF Schema, step
    <3>1. 0 \in 0..n
      BY <1>2
    <3> QED
      BY  <1>4, <3>1
  <2> QED
    BY <2>1, <2>2
<1>6. IsLoop(has)
  BY <1>5
<1> HIDE DEF has
<1>7. has[0] = schema
  BY <1>2, <1>6
<1>8. ASSUME NEW k \in 1..n
      PROVE  has[k] = Had(has[k - 1], script[k])
  <2>1. k \in 0..n /\ k # 0
    BY <1>2
  <2> QED
    BY <1>6, <2>1 DEF Had
<1> QED
  BY <1>1, <1>7, <1>8

\* The check sees what the server would have, after any number of statements.
LEMMA CheckFollows ==
  ASSUME EngineTypeOK, engine = "tdengine", MakesEachOnce, NEW n \in 0..Len(script)
  PROVE  workflow_obj_check(schema, tdengine_made(script, schema, n)) = ServerHas(n)
<1>1. PICK made : /\ tdengine_made(script, schema, n) = made[n]
                  /\ made[0] = Nothing
                  /\ \A k \in 1..n : made[k] = Noted(schema, made[k - 1], script[k])
  BY MadeIsLoop
<1>2. PICK has : /\ ServerHas(n) = has[n]
                 /\ has[0] = schema
                 /\ \A k \in 1..n : has[k] = Had(has[k - 1], script[k])
  BY HasIsLoop
<1>3. /\ n \in Nat /\ Len(script) \in Nat /\ n <= Len(script) /\ DOMAIN script = 1..Len(script)
      /\ schema \in Schema
      /\ \A k \in 1..n : script[k] \in Statement
  <2> HIDE DEF Statement
  <2> QED
    BY ScriptsAreStatements DEF EngineTypeOK
<1> DEFINE Follows(k) ==
             /\ made[k] \in Schema
             /\ workflow_obj_check(schema, made[k]) = has[k]
             /\ \A o \in Objects : made[k][o] # "none" =>
                  \E j \in 1..k : script[j].verb = "create" /\ script[j].obj = o
           Lost == {k \in 0..n : ~ Follows(k)}
<1>4. Follows(0)
  <2>1. Nothing \in Schema /\ \A o \in Objects : Nothing[o] = "none"
    BY DEF Nothing, Schema, Types
  <2>2. workflow_obj_check(schema, Nothing) = [o \in Objects |-> schema[o]]
    BY DEF workflow_obj_check, Nothing, Exists
  <2>3. schema = [o \in Objects |-> schema[o]]
    BY <1>3 DEF Schema
  <2> QED
    BY <1>1, <1>2, <2>1, <2>2, <2>3
<1>5. ASSUME NEW k \in 1..n, Follows(k - 1)
      PROVE  Follows(k)
  <2> DEFINE s == script[k]
             old == made[k - 1]
  <2>1. s \in Statement /\ k \in DOMAIN script /\ k \in Nat
    BY <1>3
  <2>2. s.verb # "drop" /\ (s.verb = "insert" => ~ SubtableOf(s))
    BY <2>1 DEF MakesEachOnce
  <2>3. s.verb = "create" => old[s.obj] = "none"
    <3> SUFFICES ASSUME s.verb = "create", old[s.obj] # "none"
                 PROVE  FALSE
      OBVIOUS
    <3>1. s.obj \in Objects
      BY <2>1 DEF Statement
    <3>2. PICK j \in 1..(k - 1) : script[j].verb = "create" /\ script[j].obj = s.obj
      BY <1>5, <3>1
    <3>3. j \in DOMAIN script /\ j # k
      BY <1>3, <2>1
    <3> QED
      BY <2>1, <3>2, <3>3 DEF MakesEachOnce
  <2>4. made[k] = Noted(schema, old, s) /\ has[k] = Had(has[k - 1], s)
    BY <1>1, <1>2
  <2> HIDE DEF s, old
  <2>5. /\ made[k] \in Schema /\ workflow_obj_check(schema, made[k]) = has[k]
        /\ \A o \in Objects : made[k][o] # old[o] => s.verb = "create" /\ s.obj = o
    <3> HIDE DEF Statement, Schema
    <3>1. old \in Schema /\ workflow_obj_check(schema, old) = has[k - 1]
      BY <1>5 DEF old
    <3> QED
      BY <1>3, <2>1, <2>2, <2>3, <2>4, <3>1, OneIsFollowed
  <2>6. ASSUME NEW o \in Objects, made[k][o] # "none"
        PROVE  \E j \in 1..k : script[j].verb = "create" /\ script[j].obj = o
    <3>1. CASE old[o] = "none"
      BY <2>1, <2>5, <2>6, <3>1 DEF s
    <3>2. CASE old[o] # "none"
      <4>1. PICK j \in 1..(k - 1) : script[j].verb = "create" /\ script[j].obj = o
        BY <1>5, <3>2 DEF old
      <4>2. j \in 1..k
        BY <2>1
      <4> QED
        BY <4>1, <4>2
    <3> QED
      BY <3>1, <3>2
  <2> QED
    BY <2>5, <2>6
<1> HIDE DEF Follows
<1>6. Lost = {}
  <2> SUFFICES ASSUME Lost # {} PROVE FALSE
    OBVIOUS
  <2>1. PICK m \in Lost : \A k \in Lost : m <= k
    <3>1. Lost \in SUBSET Nat
      OBVIOUS
    <3> HIDE DEF Lost
    <3> QED
      BY <3>1, LeastNumber
  <2>2. m \in 0..n /\ ~ Follows(m)
    BY <2>1
  <2>3. m \in 1..n /\ m - 1 \in 0..n /\ ~ (m <= m - 1)
    BY <1>3, <1>4, <2>2
  <2>4. Follows(m - 1)
    BY <2>1, <2>3
  <2> QED
    BY <1>5, <2>2, <2>3, <2>4
<1>7. n \in 0..n
  BY <1>3
<1>8. Follows(n)
  BY <1>6, <1>7
<1> QED
  BY <1>1, <1>2, <1>8 DEF Follows

\* Until it runs, and as long as nobody touched its objects, a ticket has the rows of its check.
ReviewIsNow ==
  engine = "tdengine" /\ status \in {"autoreviewwrong", "manreviewing", "review_pass"} /\ ~ touched
  => rows = tdengine_execute_check(script, schema)

\* Whoever changes the objects before the run is noticed, and the run itself comes later.
LEMMA ReviewIsNowKept == TypePhase /\ ReviewIsNow /\ [Next]_vars => ReviewIsNow'
<1> SUFFICES ASSUME TypePhase, ReviewIsNow, [Next]_vars
             PROVE  ReviewIsNow'
  OBVIOUS
<1>1. CASE Submit
  <2>1. engine' = engine /\ schema' = schema
    BY <1>1 DEF Submit, instance
  <2>2. engine = "tdengine" => rows' = tdengine_execute_check(script', schema)
    BY <1>1 DEF Submit, execute_check
  <2> QED
    BY <2>1, <2>2 DEF ReviewIsNow
<1>2. CASE Approve
  BY <1>2 DEF Approve, ReviewIsNow, instance, ticket
<1>3. CASE Interfere
  BY <1>3 DEF Interfere, ReviewIsNow
<1>4. CASE Begin
  BY <1>4 DEF Begin, ReviewIsNow
<1>5. CASE Run
  <2>1. status' = "executing"
    BY <1>5, RunIsOne DEF Took, Broke, Quit, Running, RunKeeps
  <2> QED
    BY <2>1 DEF ReviewIsNow
<1>6. CASE Returns
  BY <1>6 DEF Returns, Running, ReviewIsNow
<1>7. CASE execute_callback
  BY <1>7 DEF execute_callback, ReviewIsNow
<1>8. CASE UNCHANGED vars
  BY <1>8 DEF vars, ReviewIsNow
<1> QED
  BY <1>1, <1>2, <1>3, <1>4, <1>5, <1>6, <1>7, <1>8 DEF Next

\* TDengine's check of a ticket that drops nothing and makes each object once follows the objects
\* through the ticket as the server would, for any number of statements (execute_check of
\* tdengine.py with its created_tables).
THEOREM CheckIsOfTheTicket == Spec => []CheckFollowsTheTicket
<1>1. Init => ReviewIsNow
  BY DEF Init, ReviewIsNow
<1>2. TypePhase /\ ReviewIsNow => CheckFollowsTheTicket
  <2> SUFFICES ASSUME TypePhase, ReviewIsNow, engine = "tdengine", ~ touched, MakesEachOnce,
                      status \in {"autoreviewwrong", "manreviewing", "review_pass"}, NEW i \in DOMAIN rows
               PROVE  rows[i].level = 0 <=> Allowed(script[i]) /\ Answer(engine, ServerHas(i - 1), script[i]) = "ok"
    BY DEF CheckFollowsTheTicket
  <2>1. EngineTypeOK /\ rows = tdengine_execute_check(script, schema)
    BY DEF TypePhase, ReviewIsNow
  <2> DEFINE seen == workflow_obj_check(schema, tdengine_made(script, schema, i - 1))
  <2>2. i \in DOMAIN script /\ rows[i].level = tdengine_level(script[i], seen)
    BY <2>1 DEF tdengine_execute_check, Row
  <2>3. i - 1 \in 0..Len(script) /\ script[i] \in Statement
    <3> HIDE DEF Statement
    <3> QED
      BY <2>1, <2>2, ScriptsAreStatements
  <2>4. seen = ServerHas(i - 1)
    BY <2>1, <2>3, CheckFollows
  <2> HIDE DEF seen
  <2> QED
    BY <2>2, <2>3, <2>4, LevelIsAnswer
<1> QED
  BY PhaseCorrect, <1>1, <1>2, ReviewIsNowKept, PTL DEF Spec
=============================================================================
