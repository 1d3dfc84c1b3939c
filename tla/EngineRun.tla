------------------------------ MODULE EngineRun ------------------------------
(***************************************************************************)
(* One SQL ticket from its submission to the result, as the engine of its  *)
(* instance checks and runs it.  SqlWorkflow has the races around a run    *)
(* and takes its outcome as given; here one run is looked into, statement  *)
(* by statement.  Every execute_workflow is a loop over statements that a  *)
(* server answers one at a time; others change the objects in between.     *)
(***************************************************************************)
EXTENDS TDengineReview, FiniteSets

CONSTANTS Menu,            \* for each engine, statements to write tickets with
          Schemas,         \* what a server may have in the beginning
          MaxStatements, MaxFaults

ASSUME EngineAssumption ==
  /\ MaxStatements \in Nat \ {0} /\ MaxFaults \in Nat
  /\ \A e \in Engines : Menu[e] \subseteq Statement
  /\ Schemas \subseteq Schema

VARIABLES engine, schema,      \* the instance
          script, rows,        \* the ticket and its review
          status,
          touched,             \* has anybody else changed an object since the review?
          before,              \* the objects when the run begins
          plan, next,          \* what the run sends, and how far it is
          results, error,      \* the ReviewSet it returns
          done, raised,        \* has it returned, or raised?
          sent,                \* ghost: the statements sent and their answers
          faults

instance == <<engine, schema>>
ticket   == <<script, rows>>
outcome  == <<results, error>>
vars == <<engine, schema, script, rows, status, touched, before, plan, next, results, error,
          done, raised, sent, faults>>

\* A place in a result: a statement of the script, the USE before them, or the whole ticket.
Use == 0
Whole == MaxStatements + 1
Places == 0..Whole

Words == {"ok", "failed", "skipped", "noted"}
Answers == {"ok", "invalid", "exists", "missing", "uncompiled", "fault"}

Told(at, level, word) == [at |-> at, level |-> level, word |-> word]

EngineTypeOK ==
  /\ engine \in Engines /\ schema \in Schema /\ before \in Schema
  /\ script \in Seq(Menu[engine]) /\ Len(script) <= MaxStatements
  /\ rows \in Seq([at : DOMAIN script, level : 0..2])
  /\ status \in {"draft", "autoreviewwrong", "manreviewing", "review_pass", "executing",
                 "finish", "exception"}
  /\ plan \in Seq(Places) /\ next \in 1..(Len(plan) + 1)
  /\ results \in Seq([at : Places, level : 0..2, word : Words])
  /\ sent \in Seq([at : Places, answer : Answers])
  /\ {touched, error, done, raised} \subseteq BOOLEAN
  /\ faults \in 0..MaxFaults

-----------------------------------------------------------------------------
(* Submission: the engine's check, and the system's own decision.          *)

execute_check(e, s, separated, connected) ==
  CASE e = "mysql"         -> mysql_execute_check(s, schema, separated)
    [] e = "oracle"        -> oracle_execute_check(s, schema)
    [] e = "tdengine"      -> tdengine_execute_check(s, schema)
    [] e = "pgsql"         -> EachBy(s, pgsql_level)
    [] e = "mssql"         -> EachBy(s, LAMBDA x : mssql_level(x, connected))
    [] e = "clickhouse"    -> EachBy(s, LAMBDA x : clickhouse_level(x, schema))
    [] e = "doris"         -> EachBy(s, doris_level)
    [] e = "cassandra"     -> EachBy(s, cassandra_level)
    [] e = "phoenix"       -> EachBy(s, phoenix_level)
    [] e = "redis"         -> EachBy(s, redis_level)
    [] e = "memcached"     -> EachBy(s, memcached_level)
    [] e = "elasticsearch" -> EachBy(s, elasticsearch_level)
    [] e = "mongo"         -> EachBy(s, LAMBDA x : mongo_level(x, schema))

\* Slip: only an error in the last row counts.
is_auto_reject_last(reviewed, strict) ==
  \E i \in DOMAIN reviewed :
    (reviewed[i].level = 2 /\ i = Len(reviewed)) \/ (strict /\ reviewed[i].level = 1)

\* strict: auto_review_wrong is 1, and warnings reject as well.
is_auto_reject(reviewed, strict) ==
  \E i \in DOMAIN reviewed : reviewed[i].level = 2 \/ (strict /\ reviewed[i].level = 1)

\* auto_review_regex as it is delivered: statements of mongo all start with "db.".
NeedsAnEye(e, s) ==
  CASE e = "mongo" -> FALSE
    [] e \in {"redis", "elasticsearch", "memcached"} -> s.verb = "delete"
    [] OTHER -> s.verb \in {"alter", "create", "drop", "truncate", "delete"}

\* enabled: auto_review is on, and the instance's type and tags are among those configured.
is_auto_review(e, s, reviewed, strict, enabled) ==
  /\ ~ is_auto_reject(reviewed, strict)
  /\ enabled
  /\ \A i \in DOMAIN reviewed :
       ~ NeedsAnEye(e, s[reviewed[i].at]) /\ ~ s[reviewed[i].at].big

\* Memcached takes one command to a ticket.
Scripts(e) ==
  UNION {[1..n -> Menu[e]] : n \in 1..(IF e = "memcached" THEN 1 ELSE MaxStatements)}

Submit ==
  /\ status = "draft"
  /\ \E s \in Scripts(engine) :
     \E separated, connected, strict, enabled \in BOOLEAN :
       LET reviewed == execute_check(engine, s, separated, connected)
       IN /\ script' = s /\ rows' = reviewed
          /\ status' = IF is_auto_reject(reviewed, strict) THEN "autoreviewwrong"
                       ELSE IF is_auto_review(engine, s, reviewed, strict, enabled)
                            THEN "review_pass" ELSE "manreviewing"
  /\ UNCHANGED <<instance, touched, before, plan, next, outcome, done, raised, sent, faults>>

Approve ==
  /\ status = "manreviewing"
  /\ status' = "review_pass"
  /\ UNCHANGED <<instance, ticket, touched, before, plan, next, outcome, done, raised, sent, faults>>

\* Somebody else makes or removes a table.
Interfere ==
  /\ status \in {"manreviewing", "review_pass"} /\ ~ touched
  /\ \E o \in Objects, t \in {"none", "table"} : schema' = [schema EXCEPT ![o] = t]
  /\ touched' = TRUE
  /\ UNCHANGED <<engine, ticket, status, before, plan, next, outcome, done, raised, sent, faults>>

-----------------------------------------------------------------------------
(* The run: execute_workflow of the engine.                                *)

\* Slip: Oracle takes its statements from the script.
PlannedScript ==
  (IF engine \in {"mssql", "cassandra"} THEN <<Use>> ELSE << >>) \o [i \in DOMAIN script |-> i]

\* Oracle runs the rows of the review; SQL Server and Cassandra begin with USE.
Planned ==
  IF engine = "oracle" THEN [i \in DOMAIN rows |-> rows[i].at]
  ELSE (IF engine \in {"mssql", "cassandra"} THEN <<Use>> ELSE << >>) \o [i \in DOMAIN script |-> i]

Begin ==
  /\ status = "review_pass"
  /\ status' = "executing" /\ plan' = Planned /\ before' = schema
  /\ UNCHANGED <<instance, ticket, touched, next, outcome, done, raised, sent, faults>>

Running == status = "executing" /\ ~ done /\ ~ raised

\* The server's answer, or a failure; a procedure of Oracle may be stored without compiling.
AnswersTo(at) ==
  {IF at = Use THEN "ok" ELSE Answer(engine, schema, script[at])}
    \cup IF faults = MaxFaults THEN {}
         ELSE {"fault"} \cup {a \in {"uncompiled"} : /\ engine = "oracle"
                                                     /\ Answer(engine, schema, script[at]) = "ok"
                                                     /\ script[at].verb = "create"
                                                     /\ script[at].kind = "view"}

Effect(at, answer) ==
  IF at # Use /\ answer \in {"ok", "uncompiled"} THEN After(engine, schema, script[at]) ELSE schema

Send(at, answer) ==
  /\ sent' = Append(sent, [at |-> at, answer |-> answer])
  /\ faults' = IF answer \in {"fault", "uncompiled"} THEN faults + 1 ELSE faults

\* Slip: the statement after the one that failed is left out.
RestOneShort(k) == SubSeq(plan, k + 2, Len(plan))

Rest(k) == SubSeq(plan, k + 1, Len(plan))

\* How the statements that are not sent are told.
Skipped        == [level |-> 0, word |-> "skipped"]
SkippedAsError == [level |-> 2, word |-> "skipped"]
ToldAsFailed   == [level |-> 2, word |-> "failed"]

RestTold(skip) == [i \in DOMAIN Rest(next) |-> Told(Rest(next)[i], skip.level, skip.word)]

RunKeeps == UNCHANGED <<engine, ticket, status, touched, before, plan, raised>>

\* One statement.  Answers in noted are warnings; any other failure ends the run, with the
\* statements that follow told as skip says, and with what was done undone if undo.
StopAtFailure(noted, skip, undo) ==
  /\ Running /\ next <= Len(plan)
  /\ LET at == plan[next]
     IN \E answer \in AnswersTo(at) :
          /\ Send(at, answer)
          /\ \/ /\ answer \in noted \cup {"ok"}
                /\ results' = Append(results, IF answer = "ok" THEN Told(at, 0, "ok")
                                              ELSE Told(at, 1, "noted"))
                /\ schema' = Effect(at, answer) /\ next' = next + 1
                /\ UNCHANGED <<error, done>>
             \/ /\ answer \notin noted \cup {"ok"}
                /\ results' = Append(results, Told(at, 2, "failed")) \o RestTold(skip)
                /\ schema' = IF undo THEN before ELSE Effect(at, answer)
                /\ error' = TRUE /\ done' = TRUE /\ next' = next
  /\ RunKeeps

\* One statement of a run that does not stop; told says which answers have a row.
GoOn(told) ==
  /\ Running /\ next <= Len(plan)
  /\ LET at == plan[next]
     IN \E answer \in AnswersTo(at) :
          /\ Send(at, answer)
          /\ results' = IF answer = "ok" THEN Append(results, Told(at, 0, "ok"))
                        ELSE IF answer \in told THEN Append(results, Told(at, 2, "failed"))
                        ELSE results
          /\ error' = (error \/ answer # "ok")
          /\ schema' = Effect(at, answer)
  /\ next' = next + 1
  /\ UNCHANGED done
  /\ RunKeeps

\* The engine gives up; nothing more is sent.
GiveUp(answer) == results' = answer /\ error' = TRUE /\ done' = TRUE

Trouble == faults < MaxFaults /\ faults' = faults + 1

WholeFailed == <<Told(Whole, 2, "failed")>>

\* Slip: the loop is not left after a failure.
phoenix_execute_on == engine = "phoenix" /\ GoOn(Answers)

oracle_execute     == engine = "oracle"     /\ StopAtFailure({}, Skipped, FALSE)
clickhouse_execute == engine = "clickhouse" /\ StopAtFailure({}, Skipped, FALSE)
tdengine_execute   == engine = "tdengine"   /\ StopAtFailure({}, Skipped, FALSE)
redis_execute      == engine = "redis"      /\ StopAtFailure({}, Skipped, FALSE)
doris_execute      == engine = "doris"      /\ StopAtFailure({}, SkippedAsError, FALSE)
cassandra_execute  == engine = "cassandra"  /\ StopAtFailure({}, ToldAsFailed, FALSE)
phoenix_execute    == engine = "phoenix"    /\ StopAtFailure({}, ToldAsFailed, FALSE)

\* goInception stops at the first error too.
goinception_execute == engine = "mysql" /\ StopAtFailure({}, Skipped, FALSE)

\* Documents that are not there, and indices that are, are told and passed over.
elasticsearch_execute ==
  engine = "elasticsearch" /\ StopAtFailure({"missing", "exists"}, Skipped, FALSE)

\* All statements are one transaction.
pgsql_execute == engine = "pgsql" /\ StopAtFailure({}, Skipped, TRUE)

pgsql_commit_fails ==
  /\ engine = "pgsql" /\ Running /\ next > Len(plan)
  /\ Trouble
  /\ GiveUp(Append(results, Told(plan[Len(plan)], 2, "failed")))
  /\ schema' = before
  /\ UNCHANGED <<next, sent>> /\ RunKeeps

\* A USE that fails is told, and the statements are run all the same.
mssql_execute ==
  /\ engine = "mssql"
  /\ IF next <= Len(plan) /\ plan[next] = Use THEN GoOn(Answers) ELSE StopAtFailure({}, Skipped, FALSE)

\* Arguments that cannot be decoded raise an error before there is a row.
mongo_execute == engine = "mongo" /\ GoOn(Answers \ {"invalid"})

\* FAIL is a row, and no error.
memcached_execute ==
  /\ engine = "memcached" /\ Running /\ next <= Len(plan)
  /\ \E answer \in AnswersTo(plan[next]) :
       /\ Send(plan[next], answer)
       /\ schema' = Effect(plan[next], answer)
       /\ IF answer \in {"ok", "missing"}
          THEN /\ results' = <<Told(plan[next], 0, IF answer = "ok" THEN "ok" ELSE "failed")>>
               /\ next' = next + 1
               /\ UNCHANGED <<error, done>>
          ELSE GiveUp(WholeFailed) /\ UNCHANGED next
  /\ RunKeeps

\* The server cannot be reached: an error for the whole ticket, or, where the connection is
\* opened outside of the try or its handler uses what is not there yet, an exception.
NotConnected ==
  /\ Running /\ next = 1 /\ sent = << >>
  /\ Trouble
  /\ \/ engine \in {"oracle", "redis"}
        /\ GiveUp(WholeFailed \o RestTold(Skipped))
        /\ UNCHANGED raised
     \/ engine = "memcached" /\ GiveUp(WholeFailed) /\ UNCHANGED raised
     \/ engine \in {"mysql", "pgsql", "mssql", "doris", "cassandra", "phoenix", "elasticsearch", "mongo"}
        /\ raised' = TRUE /\ UNCHANGED <<outcome, done>>
  /\ UNCHANGED <<instance, ticket, status, touched, before, plan, next, sent>>

\* ClickHouse and TDengine connect for every statement, and the rows so far are lost.
ReconnectFails ==
  /\ engine \in {"clickhouse", "tdengine"} /\ Running /\ next <= Len(plan)
  /\ Trouble
  /\ raised' = TRUE
  /\ UNCHANGED <<instance, ticket, status, touched, before, plan, next, outcome, done, sent>>

mysql_read_only ==
  /\ engine = "mysql" /\ Running /\ next = 1
  /\ Trouble
  /\ GiveUp(WholeFailed)
  /\ UNCHANGED <<schema, next, sent>> /\ RunKeeps

\* goInception is gone, whatever it has done by then.
goinception_crash ==
  /\ engine = "mysql" /\ Running
  /\ Trouble
  /\ GiveUp(WholeFailed)
  /\ UNCHANGED <<schema, next, sent>> /\ RunKeeps

Returns ==
  /\ Running /\ next > Len(plan)
  /\ done' = TRUE
  /\ UNCHANGED <<instance, ticket, status, touched, before, plan, next, outcome, raised, sent, faults>>

\* Slip: a run that did not raise is a success.
execute_callback_success ==
  /\ status = "executing" /\ (done \/ raised)
  /\ status' = IF raised THEN "exception" ELSE "finish"
  /\ results' = IF raised THEN WholeFailed ELSE results
  /\ UNCHANGED <<instance, ticket, touched, before, plan, next, error, done, raised, sent, faults>>

execute_callback ==
  /\ status = "executing" /\ (done \/ raised)
  /\ status' = IF raised \/ error THEN "exception" ELSE "finish"
  /\ results' = IF raised THEN WholeFailed ELSE results
  /\ UNCHANGED <<instance, ticket, touched, before, plan, next, error, done, raised, sent, faults>>

-----------------------------------------------------------------------------
Init ==
  /\ engine \in Engines /\ schema \in Schemas
  /\ script = << >> /\ rows = << >> /\ status = "draft"
  /\ touched = FALSE /\ before = schema
  /\ plan = << >> /\ next = 1
  /\ results = << >> /\ error = FALSE /\ done = FALSE /\ raised = FALSE
  /\ sent = << >> /\ faults = 0

Run ==
  \/ oracle_execute \/ clickhouse_execute \/ tdengine_execute \/ redis_execute
  \/ doris_execute \/ cassandra_execute \/ phoenix_execute
  \/ goinception_execute \/ mysql_read_only \/ goinception_crash
  \/ elasticsearch_execute \/ mongo_execute \/ memcached_execute
  \/ pgsql_execute \/ pgsql_commit_fails \/ mssql_execute
  \/ NotConnected \/ ReconnectFails

Next == Submit \/ Approve \/ Interfere \/ Begin \/ Run \/ Returns \/ execute_callback

Spec == Init /\ [][Next]_vars

-----------------------------------------------------------------------------
Ended == status \in {"finish", "exception"}

\* The result is about the ticket as a whole: no connection, an exception, a crash.
ToldAsAWhole == results # << >> /\ results[1].at = Whole

AnswersOf(at) == {sent[j].answer : j \in {j \in DOMAIN sent : sent[j].at = at}}

\* Answers that an engine takes for done, and goes on.
Settled(e) ==
  CASE e = "elasticsearch" -> {"ok", "missing", "exists"}
    [] e = "memcached" -> {"ok", "missing"}
    [] OTHER -> {"ok"}

\* Once a statement has failed, no later one is sent: ten engines run a script as far as it
\* goes.  (MongoDB runs the rest all the same, and SQL Server does after a failed USE.)
NothingAfterFailure ==
  engine # "mongo" =>
    \A j \in 1..(Len(sent) - 1) :
      sent[j].answer \in Settled(engine) \/ (engine = "mssql" /\ sent[j].at = Use)

\* What the result tells of each statement is what happened to it, in the order of the
\* script and with none left out: ok was taken, failed was refused, skipped was not sent.
\* Cassandra and Phoenix tell failed of those not sent, PostgreSQL a lost commit after them all,
\* and MongoDB nothing of arguments that cannot be decoded.
StatementsAreTold ==
  Ended /\ ~ ToldAsAWhole /\ (engine = "mongo" => \A i \in DOMAIN script : script[i].good) =>
    /\ Len(results) = Len(plan) \/ (engine = "pgsql" /\ error /\ Len(results) = Len(plan) + 1)
    /\ \A k \in DOMAIN plan :
         /\ results[k].at = plan[k]
         /\ CASE results[k].word = "ok"      -> AnswersOf(plan[k]) = {"ok"}
              [] results[k].word = "noted"   -> AnswersOf(plan[k]) \subseteq Settled(engine)
              [] results[k].word = "skipped" -> AnswersOf(plan[k]) = {}
              [] results[k].word = "failed"  ->
                   /\ "ok" \notin AnswersOf(plan[k])
                   /\ AnswersOf(plan[k]) = {} => engine \in {"cassandra", "phoenix"}

\* A ticket shown as finished did all that was reviewed: each row of its review was sent and
\* taken (or, for a document that is not there and a FAIL of Memcached, passed over).
FinishMeansDone ==
  status = "finish" =>
    \A i \in DOMAIN rows :
      AnswersOf(rows[i].at) # {} /\ AnswersOf(rows[i].at) \subseteq Settled(engine)

\* The objects once the first n statements of the result are there, those told as ok.
LeftAfter(n) ==
  LET left[k \in 0..n] ==
        IF k = 0 THEN before
        ELSE IF results[k].word = "ok" /\ results[k].at # Use
             THEN After(engine, left[k - 1], script[results[k].at])
             ELSE left[k - 1]
  IN left[n]

\* The objects on the server are those that the statements told as ok leave behind; for
\* PostgreSQL, whose run is one transaction, none of them unless the ticket is finished.
EffectsAreTold ==
  Ended /\ ~ ToldAsAWhole /\ "uncompiled" \notin {sent[j].answer : j \in DOMAIN sent} =>
    schema = IF engine = "pgsql" /\ status = "exception" THEN before ELSE LeftAfter(Len(results))

\* The result tells what became of each statement, and what is left on the server.
ResultTellsWhatHappened == StatementsAreTold /\ EffectsAreTold

\* No run sends a statement that its engine's check is to refuse, a query or one that matches
\* critical_ddl_regex, however the ticket was approved and whatever else is in it.
CriticalNeverRuns ==
  \A j \in DOMAIN sent :
    sent[j].at # Use =>
      /\ engine \in {"mysql", "pgsql", "oracle", "mssql", "clickhouse", "tdengine", "doris"} =>
           script[sent[j].at].verb # "query" /\ ~ script[sent[j].at].critical
      /\ engine \in Stores => script[sent[j].at].verb # "query"

\* Each object is made at most once, nothing is dropped, and no subtable is made by an INSERT.
MakesEachOnce ==
  /\ \A i \in DOMAIN script : script[i].verb # "drop" /\ (script[i].verb = "insert" => ~ SubtableOf(script[i]))
  /\ \A i, j \in DOMAIN script :
       script[i].verb = "create" /\ script[j].verb = "create" /\ i # j => script[i].obj # script[j].obj

\* A ticket for TDengine is of these statements.
Allowed(s) == s.verb \in {"create", "alter", "insert", "delete", "drop"} /\ ~ s.critical

\* The objects after the first n statements, without those that no ticket may have and those
\* that the server would refuse.
ServerHas(n) ==
  LET has[k \in 0..n] ==
        IF k = 0 THEN schema
        ELSE IF Allowed(script[k]) /\ Answer(engine, has[k - 1], script[k]) = "ok"
             THEN After(engine, has[k - 1], script[k])
             ELSE has[k - 1]
  IN has[n]

\* For such a ticket the check refuses nothing for its objects that the server would take,
\* and passes nothing it would not: an earlier statement counts as if it had been run, one that
\* is refused itself does not.  (What INSERT ... USING makes is not remembered: later uses of it
\* are refused.)
CheckFollowsTheTicket ==
  engine = "tdengine" /\ status \in {"autoreviewwrong", "manreviewing", "review_pass"} /\ ~ touched
  /\ MakesEachOnce
  => \A i \in DOMAIN rows :
       rows[i].level = 0 <=> Allowed(script[i]) /\ Answer(engine, ServerHas(i - 1), script[i]) = "ok"
=============================================================================
