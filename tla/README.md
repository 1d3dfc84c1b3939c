# DBShield in TLA+

DBShield is a Django application in front of a company's databases: developers submit SQL,
reviewers approve it, django-q workers run it, and around this core there are query
privileges, archives, slow-query collection, AI diagnosis and the administration of
users and settings.  This directory holds TLA+ specifications of the parts of it in which
several processes change the same rows, or in which one of many steps may fail, TLC
configurations that check them on small instances, and proofs, checked by TLAPS, of
safety properties for every instance.

All paths below are relative to the repository. Line numbers are those of this commit;
`PROJECT.json` maps each definition of the specifications to its lines.

Contents: [Inventory](#inventory), [Modules](#modules), [Runs](#runs),
[Theorems](#theorems), [Findings](#findings), [What is left out](#what-is-left-out),
[Plan](#plan).

## Inventory

### How the program runs

`supervisord.conf` starts gunicorn with four synchronous web processes and a django-q
cluster. A web process serves one request at a time. MySQL is used in autocommit: unless a
handler opens `transaction.atomic()`, every `save()` is a transaction of its own, and
`save()` without `update_fields` writes **all** columns from the copy in memory. django-q
keeps its schedule in a MySQL table and its queue in Redis; a task that a worker popped is
gone from the queue, and the result of every finished task, failed or not, goes to a single
monitor process, which runs the task's hook. Everything hard about this program comes from
those facts: a handler is a sequence of steps, its decisions rest on copies, and
nothing takes up the work of a process that died.

### Components

| Component | State | Operations | Interacts through | What makes it correct |
|---|---|---|---|---|
| **SQL release workflow** `sql_api/api_workflow.py`, `sql_api/serializers.py`, `sql/utils/sql_review.py` | `sql_workflow.status`, `is_offline_export`, the result text | submit, pass, cancel (withdraw or reject), execute (automatic or manual), time | writes the audit row, the django-q schedule and the Redis queue, each separately | nothing runs unapproved; each release runs once and is recorded; a cancelled ticket stays cancelled; no ticket is stuck |
| **Approval chain** `sql/utils/workflow_audit.py` | `workflow_audit`: status, `current_audit`, `next_audit` | create, pass, reject, abort; `can_operate`, `can_review`, `get_review_info` | called by the handlers of tickets, applications and archives | groups sign in turn; each shown signature was given; a refusal is final |
| **Ticket execution** `sql/utils/execute_sql.py`, `sql/utils/tasks.py` | schedule rows, the queue, running tasks | `execute`, its hook `execute_callback`, the schedule | the ticket's status under a row lock, then without one | runs exactly what was released; its result is its own |
| **Offline export** `sql/offlinedownload.py`, `sql/storage.py` | the file, `file_name` of the ticket | count, run the query, write and store the file, save the ticket, download | an engine; the storage configured at the time; whole-row save of the ticket | the file is whole or refused; does not undo decisions |
| **AI diagnosis** `sql/services/diagnosis.py`, `sql_api/api_slowquery_v2.py` | `ai_diagnosis_task`, its report, a thread pool and a semaphore per web process | ask, poll, run, mark as stale, sweep | the rows, with no lock | one open task per query; every task ends; no slot leaks; a success has its report |
| **AI optimisation** `sql_api/api_slowquery.py`, `sql_api/ai_optimizer.py` | tasks with their reports, a cache of reports, a pool and a semaphore | ask and wait, or submit and poll; the agent's rounds; mark as stale | a client of the AI service that counts tokens; the log of usages | a report is the named model's; what was spent is booked in full or not at all, and not twice; no slot leaks |
| **AI gateway, AI review** `common/utils/ai_gateway.py`, `sql/utils/ai_review.py` | a cache of verdicts, the verdicts on a ticket's rows | review in batches, one by one where a batch lacks an answer; merge at the submission | called by the checks of mysql, clickhouse, tdengine | a verdict is on the row of its statement; a failure blocks no ticket |
| **Query privileges** `sql/query_privileges.py`, `sql_api/api_query_priv.py` | applications, grants with expiry and limits | apply, review, delete, check | the approval chain; grants are created after the audit save | a grant exists iff its application passed |
| **Archive** `sql/archiver.py`, `sql_api/api_archiver.py` | configurations with status and switch, a log | apply, review, switch, run once or by schedule | the approval chain, django-q | only reviewed and switched-on configurations move rows |
| **Query execution** `sql/services/sqlquery_service.py`, `query_check`, `filter_sql`, `query` of the engines, `sql/utils/data_masking.py` | an answer, a log row, a one-shot kill schedule around each query | check, limit, run, mask, log | the privileges; the engine's connection; django-q | nothing is changed; no more rows than allowed; masked or nothing; what is shown is logged |
| **Instance administration** `sql_api/api_instance_admin.py` | passwords of accounts, owners of databases, history of parameters; the server's own | create, grant, reset, lock, delete; set a parameter | the managed server first, then the row, with nothing that ties them | what was answered with success is on the server and in the tables |
| **Schema comparison** `sql/services/schema_diff_service.py` | none: six queries, a page with ALTERs | compare, patch, revert | the user's own tickets | the patch makes the target like the source, the revert takes it back, no data goes unmarked |
| **SQL of a binlog** `sql_api/api_misc.py`, `sql/plugins/my2sql.py` | a directory of files, a task of django-q, a zip | parse at once or as a task, poll, download | the program my2sql; django-q | what broke off is nowhere taken for whole |
| **Database engines** `sql/engines/*.py` | none that lasts: a review, a connection, a result | `execute_check`, `execute_workflow` of thirteen servers | the ticket's review and result; the servers | what is checked is what runs; a failure stops the run; the result tells what happened |
| **Slow-query collection** `sql/collectors/` | collected rows, a cursor per instance, aggregates, a cache lock | collect, aggregate, retain, clear `mysql.slow_log` | django-q schedules; a lock in the cache; the managed server | no row is passed over; rounds that overlap do no harm; clearing loses nothing |
| Login `common/auth.py` | failure count and time per user | authenticate, lock, unlock | read-modify-write of the user row | n failures lock the account |
| Two-factor `common/twofa/` | one-time codes in the cache and the session | send, verify | login | a code is used once, in time |
| **Reload of settings** `common/auth_settings_reload.py`, `sql_api/api_auth_config.py` | Django settings, `.env`, `os.environ` | apply, roll back | four web processes | all three change or none |
| System configuration `common/config.py` | a table behind a cache | get, set, replace | every component | a reader sees what was set |
| Resource groups, permissions | group membership | administration | constants of the approval chain here | |
| Notifications | none | send after the fact | change no ticket | |
| CRUD of instances, SQL parsing, dashboards, OSC and other command lines, Windows patch | none, or plain CRUD | | | |

The parts in bold keep state that several processes change, or carry a request through many
steps of which one may fail: these are the subject of the specifications. `PROJECT.json` lists all parts with their status, and under `hazards` the
places where the code could go wrong in a way that a test would hardly reach.

## Modules

| Module | What it is |
|---|---|
| `AuditV2` | The approval rules as operators over an audit record: the chain, `SUPPORTED_OPERATION_GRID`, `can_operate`, `can_review`, what each operation writes, what the page shows. No state: tickets of all three kinds use it. |
| `SqlWorkflow` | One SQL ticket with everything that touches it: requests, the schedule, the queue, workers, the monitor, exports, deaths. |
| `ApprovalChain` | The abstract review: open, sign in turn, granted or refused. |
| `SqlWorkflowCalm` | `SqlWorkflow` under a discipline of use, and the refinement mapping to `ApprovalChain`. |
| `QueryPrivileges` | Applications for query privileges on `AuditV2`, the grants, and the two checks of a query. |
| `Archive` | One archive configuration on `AuditV2`: review, switch, three doors to a run. |
| `AuthReload` | How users log in: configuration, `.env`, `os.environ` and settings of several web processes. |
| `Diagnosis` | The diagnosis tasks: web processes, pools, jobs, markers, time and faults. |
| `Collector` | The slow-query collection of one instance: the server's log, rounds, the cursor. |
| `Aggregation` | The summaries of slow queries: rounds, the lapsing lock, the cleaning. |
| `EngineReview`, `TDengineReview` | What each engine's check says of a statement, and what its server answers: operators without state. |
| `EngineRun` | One ticket on one engine from its check to its result, statement by statement. |
| `QueryPath` | One query on one engine from its check to its answer. |
| `Export` | A ticket that exports rows, on the engines of `QueryPath`: count, run, file, storage, download. |
| `InstanceAdmin` | Requests that change a server's accounts, databases and parameters, and the tables beside it. |
| `AIGateway` | The client of the AI service and the model it is made for. |
| `Optimisation` | Advice on a statement, asked for and waited for, or by a task, on `AIGateway`. |
| `AIReview` | The AI review of a ticket's statements, up to the marks that its submission keeps. |
| `SchemaDiff` | The comparison of two schemas, the ALTERs it writes, and what MySQL makes of them. |
| `My2sql` | The SQL of a piece of binlog: run, task, page, downloads. |
| `MCSqlWorkflow`, `MCSqlWorkflowCalm`, `MCDiagnosis`, `MCCollector`, `MCServices`, `MCRequests`, `MCEngines` | Constants and symmetry for TLC. The last four put parts that share no state side by side: one is at work, the others rest. |
| `AuditV2_proofs` | Lemmas about the chain and the rows `operate` writes, for the proofs about tickets. |
| `SqlWorkflow_proofs` | Theorems about the ticket, on any day and on a calm one, and the refinement of `ApprovalChain`. |
| `Requests_proofs` | Theorems about the query privileges, the archive and the reload of the authentication settings, and their composition. |
| `Collector_proofs` | Theorems about the collection and the aggregation. |
| `Services_proofs` | Theorems about the diagnosis tasks, the optimisation and the AI review, and their composition. |
| `Engines_proofs` | Theorems about the run of a ticket on its engine. |
| `SchemaDiff_proofs` | Theorems about the comparison of schemas. |
| `Instances_proofs` | Theorems about queries, exports, the management of a server, and binlogs, and the composition of all that is asked of an instance. |

In every module some definitions are marked *Slip*. They are wrong on purpose and no action
uses them: each is a plausible mistake in the definition that follows it (a dropped check, a
missing save, a swapped order). Putting a slip in the place of its neighbour makes TLC
report the property that guards against it, which shows that the property can fail at all;
`PROJECT.json` lists the pairs under `mutants`.

### SqlWorkflow

The state is the ticket's row (`status`, `export`), its audit row (`audit`), whether its
one-shot schedule is still to fire (`armed`), what every request is about to do with the
copies it holds (`req`), the tasks of the queue and the workers (`task`), and which task the
stored result is of (`result`). `signed`, `autoPassed` and `ran` are ghosts.

A handler is cut where the code commits. `AuditWorkflow.post`, for instance, is

    AuditRead         read audit row and ticket, can_review, can_operate on the copy
    AuditSave         save the whole audit row from the copy
    AuditUnschedule   del_schedule, if the copy of the ticket was timed
    AuditStatus       save the ticket's status, derived from the copy

and any step of any other process may come between two of them. The same holds for
`ExecuteWorkflow.post` (`ExecuteCheck`, `ExecuteMark`, `ExecuteUnschedule`,
`ExecuteEnqueue`, or `ExecuteManual`), for `TimingTask.post` (`TimingCheck`, `TimingSave`), for
the submission (`SubmitCreate`, which is one transaction, and `SubmitStatus`, the save of
the whole ticket after it), for an export (`ExportCopy`, `ExportSave`) and for the hook
(`HookRead`, `HookSave`). Where the code holds a row lock across check and write
(`execute`), it is one step (`TaskStart`).

A task that `execute` refuses (`TaskRefuse`) raised; django-q treats it as a failed task and
calls its hook as well, so `refused` tasks reach `HookRead`. `TaskReturn` stands for all
that an engine may do: the outcome is just whether the hook will find neither error nor
warning. `RequestDies` and `TaskLost` are the deaths of a web process and of a worker or the
monitor. No code picks up after either, hence no recovery action.

### SqlWorkflowCalm

Some promises hold only if people do not act on one ticket at the same moment. `CalmSpec`
is the discipline that people can keep: one request at a time. They cannot keep the schedule
from firing or a worker from starting while a request is in flight, so `CalmSpec` does not
either; the ghost `crossed` remembers that a task was under way while a submission, an execute
or a timing request was. The review keeps its promise in any case. The others hold until the
first crossing, and a crossing does break them: if the schedule of a timed ticket fires and its task
starts between `can_execute` and the mark of one execute request, the mark reopens the ticket and the SQL runs twice.

### QueryPrivileges, Archive

Both have a review that comes in by two doors, and the difference between the doors is the
point of the modules. `QueryPrivAudit` and `ArchiveAudit` decide in a transaction (`Decide`,
`DecideArchive`: audit row, application or configuration, and grants in one step), but from what
they read before it (`QueryPrivAuditRead`, `ArchiveAuditRead`); `ArchiveAudit` even saves the whole
configuration from that copy, so that a switch turned meanwhile is lost. `AuditWorkflow`, the door
shared by all tickets, has no transaction: `SaveAudit`, `SaveApply`, one `SaveGrant` for each item,
and for an archive `SaveArchiveAudit` and `SaveColumns`. `ReviewDies` and `VisitDies` leave what is
saved as it is. The queries of `QueryPrivileges` go through `query_priv_check` (tables, then databases)
and `query_db_check` (databases only). In `Archive`, `AskForRun` is one of three doors: two look at
status and switch, `ArchiveOnceView` does not, nor does the task (`ArchiveRuns`).

### AuthReload

`auth_config` is the table, `envFile` the managed block of `.env` and the user's own lines,
`environ` and `settings` those of each process, `lock` the threading lock of each process, which
the others do not know. A reload (`ReloadStep`) goes in the order of the code: read the
configuration, write `.env` in its three steps (read, empty, write), change `os.environ`, execute the
settings module again, check the result, and on failure take back what was changed. The settings
module may raise, before it comes to logging in or at its end (`HalfEvaluated`); what
`importlib.reload` leaves in place (names that are not assigned again) is `kept` in `settings`, which
may then differ from the backends the process works with. A process may restart at any time and reads `.env` then.

### Diagnosis

`task` is the table, with the report as a flag and the age of the row in ticks; `web` the
request a web process is serving; `slots` its semaphore; `job` the job of a task in a
pool; `held` the copies that a poll or the sweep has read and will judge; `faults` counts
restarts and lost saves.

The request is `Ask` (no open task for the query), `Create`, `AcquireSlot`, and `Submit` or, when
there is no slot or the executor refuses, `Reject`. The job is `JobStart` (running),
`JobReport` (old report deleted and new one stored, one transaction), `JobSuccess`, `JobEnds`
(the usage is logged), or `JobFails`, and then `JobLeaves`, the `finally` that gives the slot
back. The markers are `PollRead`/`SweepRead` and `Judge`: the decision is made from the
copy's status and the row's creation time, and the save does not look at the row again.
`Restart` drops a process with its request, pool and jobs; `RejectLost` and `JobSaveLost`
are the database not taking a save.

### Collector

`log` is the server's slow log (a row has a time, a database and whether the detail table
can take it), `gone` its rows that the server dropped, `now` the clock in ticks of which
`PerSecond` make a second, `cursor` the row of `slow_query_cursor`, and `round` what each
worker that collects from this instance is doing. `kind` is the type of the instance, chosen in
the beginning; the three collectors that have a cursor share the operations of
`CursorManager` and differ in how they read and store:

    Begin      collect_slowquery_task: the bounds of the window, cursor and now
    ReadMySQL  one batch, in the order of time; StoreMySQL, row by row, and on to the next
    ReadMongo  one database; StoreOther after the last
    ReadRedis  the newest entries of SLOWLOG; StoreOther
    Commit     the cursor becomes the time of the newest row

Times lose their fractions in two places, and both are in the model as what they do:
`Floor` is `strftime` (the bounds of the query on `mysql.slow_log`), `Stored` is the
`DATETIME` column of the cursor, which rounds to the nearest second. `ReadMySQLFails` is an error of
the read, which the engine turns into an empty result; `BreakOff` is any other error, the
timeout or the death of the worker, after which nothing is committed.

### Aggregation

`details` are the rows of the detail table and `summary` the row of each fingerprint; `lock` is the
time the lock of the cache still has, and `agg` the round of each worker with its age. A round is
`aggregate_all_slowquery` (take the lock or go home), `CountDetails`, `calculate_p95_all` (a second
query, which may see other rows), and `bulk_upsert`, or `upsert_row_by_row` when the statement for all
rows fails; `AggregateFails` is the exception that is logged, `Finish` the deletion of
the lock in the `finally`, whoever holds it by now. A worker may be killed at any time, and has
to be after `Timeout`, but not at once: until then a round whose time is up may still
write and delete a lock, and the lock, which is as old, has lapsed. `StoreDetail` is a collector,
`BeginCleaning` to `CleanSummaries` the daily cleaning with a cutoff for each table. `version`, `told`
and `overran` are ghosts: what has changed, what has been written, and whether a round ended late.

### EngineReview, TDengineReview, EngineRun

A statement is what the checks and the servers tell apart: verb, object, kind of object, and
marks for what is decided in its text (syntax, a WHERE, the match of `critical_ddl_regex`, many
rows). `EngineReview` has one operator for each `execute_check` and `Answer`, the server.
`TDengineReview` adds the check that follows the objects a ticket creates itself.
`EngineRun` takes one ticket through `Submit` (the review, the automatic decision on it),
`Approve`, `Begin` (what the engine plans to send: the rows of the review for Oracle, the script for
the others), `Run` with one operator for each `execute_workflow` (stop, undo, go on, or skip), `Returns`
and `execute_callback`. `Interfere` is somebody else changing an object in between. Faults are a
connection that fails, a statement the server does not take, an exception.

### QueryPath

`execute_sql_query` for fourteen engines, in the order of the code: `query_check` of the engine,
`query_priv_check` with a limit, `filter_sql` (the limit is written into the statement, and forms
of LIMIT differ), the connection and the schedule that is to kill it, `seconds_behind_master`, `query` with the
engine's last change of the statement, `query_masking`, `write_log`. Every step may fail, and the process
may die. A statement is its head, its form of LIMIT, and marks; of the rows only their number and
whether they are masked are kept.

### Export

`asked` is the ticket's statement with the rows it meets now, which may change (`DataChange`). Before the
submission `pre_count_check` takes the first statement of the ticket; `CountRows` (engines with a COUNT) or
`ReadRows` (one row more than the limit) and `CheckRows` decide. The approved run reads without a limit (`Query`),
`save_to_format_file` writes a file whose data is the number of rows and which integers a spreadsheet would cut,
and `Store` and `SaveName` put it where the configuration points now. `Configure` changes the storage, and
`DownloadFileView` looks only in the storage configured at that time.

### InstanceAdmin

A visit is one request: what it asks (`about`), the statements it has yet to send (`todo`), and where it is. `server`
(`users`, `databases`, `runtime`, and `pending` for pgsql) is the managed server's, `stored` (`passwords`,
`owners`, `history`) DBShield's. Each view is an action that opens a visit; `ServerStatement` sends one
statement, `Refused` is the server's no, which ends the loop or not as the engine does; `StoreAccounts`,
`StorePassword`, `DeleteAccount`, `StoreDatabase`, `StoreHistory` write the rows; `Cut` is a request that dies.
Any steps of two visits may interleave; `alone` and `crossed` record whether they did on one thing.

### AIGateway, Optimisation, AIReview

A client is made for one operation with the model configured then, and counts its calls.
`Optimisation` has the request that waits (`OptimizeAIView`, the agent's `Round`s, `Book`, `StoreReport`) and
the one that submits a task (`Deduplicate`, `MarkOld`, `CreateAdvice`, `TakeSlot`, `SubmitTask`), the task in
the pool (`StartTask` to `LeavePool`), the polls that mark (`StatusViewMarks`), a switch of the model, a crash,
and reports that lapse (`Forget`). A report is the name of the model that made it.

`AIReview` goes through a ticket's statements in batches: `Hit` or `Miss` of the cache, `AskBatch` with the answers in
any order, doubled or missing, `AskOne` for each that is lacking, `KeepBatch`, `Attach`. `SubmitChecked` is the
submission, whose statements may have been edited, and `_merge_ai_review_fields`, which takes
the marks of the page's rows over by the text of the statement.

### SchemaDiff

A column is its name, its definition (a token), its collation and its comment; a table has a set of columns, a set of
indexes, options, and the highest value that its rows have of an AUTO_INCREMENT. The service makes less of a definition than
MySQL does: `DefinitionWritten` is what an ALTER has of it (a generated column is written as a plain one, a default that is an
expression in quotes, the text NULL as no default), `DefinitionTold` what is compared (types in lower case), `normalized_default` what
MySQL takes for one definition. Where a column stands is in no signature that the service compares, so `FIRST` and `AFTER` are left
out; the code pairs columns that went with columns that came in their order, `Renames` in any order. The metadata come in six
queries (`get_tables_schema`), between which others may drop a table or a column
(`Drift`). `diff_table` is the set of differences with a clause for the patch and one for the revert each;
`build_alter` joins them. `RunPatch` and `RunRevert` are the user's tickets, carried out by `Altered` and refused
by `MySQLRefuses`: MySQL is modelled from how the service writes for it.

### My2sql

`Binlog` is a set of numbered statements; `wanted` those in the range. `Post` answers at once or hands over
to django-q; `Write`, `Exit` (well, with an error that only stdout tells, killed by the timeout) and `my2sql_execute` are the run;
`TaskState` the poll, `TaskCleared` and `ParserDies` what leaves it "queued"; `Download` with `AddFile` and
`ZipBreaks` makes the zip that later downloads get.

## Runs

### What is checked

| Run | Specification | Checks | Result |
|---|---|---|---|
| `wf_concurrent` | `Spec`: two requests in flight, every endpoint, both kinds of ticket, one death | `ApprovedBeforeRun`, `ShownPassedWereSigned`, `ExecutingHasOwner` | hold |
| `wf_fair` | `FairSpec`: two requests in flight, one worker, both kinds of ticket, no deaths | `ReleaseIsHonoured`, `ExecutionEnds` | hold |
| `wf_calm` | `CalmSpec`: a chain of three, three releases | `RunsOnceUnlessCrossed`, `ResultIsOfRunUnlessCrossed`, `CancelledNeverStarts`, `SignaturesInTurn` (refinement of `ApprovalChain`) | hold |
| `wf_double_run` | `Spec` | `AtMostOneRun` | violated |
| `diag` | `ServicesSpec`: the diagnosis with two web processes, a poller, the sweep, a fault; or the optimisation with two requests, two models, a crash; or an AI review | `ServicesTypeOK`, `SlotsConserved`, `SuccessHasReport`, `ReportsTellTheirModel`, `CostsAreBooked`, `VerdictsAreTheModels` | hold |
| `diag_fair` | `FairSpec`: one web process, a fault | `Settles`, `PoolRecovers` | hold |
| `collect` | `MCSpec`: mysql, mongo and redis, two rounds, a fault; or two workers that aggregate, one cleaning, a fault | `PassedWereCollected`, `RoundsAreThorough`, `RoundsAreAlone`, `SummariesTellDetails` | hold |
| `collect_passed_over` | `Spec`: mongo, one round at a time | `NothingIsPassedOver` | violated |
| `requests` | `MCSpec`: two applications for privileges, or an archive, or the reload in two processes | `RequestsTypeOK`, `QueriesAreReviewed`, `DecisionsAgree`, `CheckedRunsAreReviewed`, `UserLinesSurvive`, `ReloadIsAllOrNothing` | hold |
| `reload_oidc` | `ReloadSpec`: one process, oidc | `FailedReloadRestores` | violated |
| `reload_backends` | `ReloadSpec`: one process, ldap | `ReloadActsAsStart` | violated |
| `engines` | `MCSpec`: a ticket on each of thirteen engines, or a query on each of fourteen, an export, two visits to an instance's pages, a schema comparison, or a binlog | `EnginesTypeOK`, `NothingAfterFailure`, `ResultTellsWhatHappened`, `FinishMeansDone`, `CriticalNeverRuns`, `CheckFollowsTheTicket`, `RowsWithinLimit`, `QueriesChangeNothing`, `AnswersAreAccounted`, `RecordsTellTheServer`, `ExportIsWhole`, `PatchesDoWhatTheySay`, `SqlIsWhole` | hold |

What they show, in words:

* Whatever stale copies are written back, **no SQL runs before everyone in the chain (or the
  system) approved it**, and the review page never shows a signature nobody gave. This is
  not obvious: a reviewer's request may rewind the audit row, and execution looks at
  the status column only.
* A ticket in `workflow_executing` has a task whose hook will come as long as no worker
  died. (One in `workflow_queuing` has its task, or a request about to enqueue it; that is proved.
  For an export it is not so: its late whole-row save may put `workflow_queuing` back.)
* As long as workers keep coming free, a queued or timed release does not stay so, and an execution whose engine
  has answered ends. Excepted is an export whose `workflow_queuing` an older task's whole-row save
  brought back when nothing was left to start it: that ticket stays there for ever. An engine
  that never answers keeps its ticket in `workflow_executing`, and its worker: the tasks have no timeout.
* With one request at a time the audit row behaves like the abstract chain, and as long as no task is under way during a
  release request, the SQL runs once, the result is its own, and a task never starts after a finished refusal.
* In the diagnosis no slot leaks on any path, also when the executor refuses; a success
  has its report, whatever marks and lost saves fall in between; every task ends for good, even after a restart with
  nobody polling; a full pool has a slot again.
* The cursor of a collection passes no row that was not dealt with, although rounds of one
  instance may overlap, put the cursor back and break off anywhere, with two exceptions:
  a row that has the same time as another, and a row between another's time and the whole
  second that time is rounded up to. A mysql round has everything in its window when it commits,
  although it reads in batches and moves its bound back to a whole second between them.
* The lock of the aggregation does not lapse under a round that has time left, and is not deleted by
  another; so once a round has counted the tables as they are, no round puts older numbers
  in the place of its own. A round that ends after its time, before the cluster kills it, is excepted:
  it deletes the lock of the next.
* No query, other than EXPLAIN and SHOW CREATE, which MySQL's check lets through without any grant and with
  no limit (`query_privileges.py:111-113`), passes the check of privileges on the strength of an application that some group has not signed,
  whichever door its reviews came in by, and no archive runs through a checked door without all
  signatures, although `ArchiveAudit` saves old columns. (`ArchiveOnceView` runs any configuration.)
* A reload that fails in the settings module puts `.env`, `os.environ` and the settings back, with one more
  exception to what its docstring promises: a module that raises at its end (a directory, `local_settings`:
  `dbshield/settings.py:600-611`) has assigned the new `AUTHENTICATION_BACKENDS`, and a rollback to local
  accounts, which assign none, takes them over. A rollback that raises too is logged, and what comes after it in
  that process is not claimed either. A reload that
  succeeds leaves the process with what the page saved, and with what a process started
  later will have. Two exceptions are violation runs. The user's own lines of `.env` survive unless two
  processes reload at once.
* A ticket's statements are sent in order up to the first failure (MongoDB goes on), nothing that the
  check refuses is ever sent, and the result, the objects on the server and the ticket's status tell the
  same. TDengine's check agrees with what its server will say of a ticket that makes each object once;
  a statement that is refused counts for nothing in those after it.
* A query whose rows are limited (`IsLimited`) yields no more of them than the privileges and the request allow,
  whatever LIMIT of its own it has, and the log's count is no less than what was shown. Not limited are plans, counts,
  what refers to no table, MongoDB's `distinct`, Memcached, and Elasticsearch with a size of its own;
  nor a statement of ODPS that has the word limit in a name, or a newline before the number, nor a `find` of MongoDB with
  `.limit()` or a negative limit: these the code leaves as they are, and `sqlquery_service.py:149` then
  logs the limit rather than the rows. Every query changes nothing (writes hidden in a read are up to the account
  for most engines), is shown masked or not at all where masking is strict, and is in the log when it was answered.
* An export's file has every row of its statement, and no more than `max_export_rows` unless the data
  changed after the count; a finished ticket has a file, and only that one is downloaded. No row is
  lost in a spreadsheet's sheet or digits, except those of DECIMALs.
* A visit to the pages of accounts, databases and parameters that says success has done all it was asked, on
  the server and in the tables, unless another visit was about the same thing. Two exceptions: the row of a new account
  of MySQL has the password as `escape_string` spelled it for the statement (`mysql.py:779`, `794`), which is another than the
  server's where it has a quote or a backslash; and a lock with an `is_locked` other than `N` and `Y`, or a grant with an
  unknown `op_type` or `priv_type`, sends nothing and is answered with success. Further, the history of a parameter leads to
  the value in force, unless a visit died or two overlapped.
* The AI's advice stands under the name of the model that gave it, except where a request waited while the configured model
  changed; what an operation cost is booked in full and never twice, or, where the log of usages
  refuses the row, not at all: `record_ai_usage` swallows that, and the cost is lost with a warning. A verdict on a row of a ticket is one of that model on that statement, whatever
  order its answers came in and however the ticket was edited before it was submitted.
* The ALTERs of a comparison, where MySQL takes them, make the target like the source and take it back, and a column's
  data goes only where the page says so. Four things do not follow, for the comparison cannot tell them: that a column is
  generated, that its default is an expression, that it is the text NULL, and the case of the values of an enum; the ALTER
  of such a column may take them away, and leaves them where the comparison finds no difference. And the
  target gets the source's AUTO_INCREMENT only if that is above what its rows have; a lower one MySQL takes and ignores.
* SQL of a binlog that broke off is not shown, counted or notified as whole, and its download belongs to the
  submitter and superusers.

### Bounds and why they are enough

* Requests in flight: two. Every conflict in these handlers is between one request holding a
  copy and one other actor; tasks, schedule and monitor come on top. Requests are
  anonymous, hence the symmetry in the safety run.
* `MaxAsks`: two accepted releases when concurrent (two tasks race), three when calm, so that
  timing, timing again and executing all fit. It also bounds the tasks.
* `Workers`: two where two tasks may run together, one in the liveness run, so that a task
  whose engine never answers keeps the other in the queue.
* The chain: two nodes (a first, a last) with the submitter in the first group, so that
  `ban_self_audit` matters; three in the calm run, so that a middle node exists; one for the
  liveness run, whose subject is the release.
* `MaxDeaths`: one. Each safety property either tolerates deaths or excludes them by its
  premise.
* Diagnosis: two tasks for one query, so that a second can be asked for while or after the first is
  open; one slot and one worker, so that both limits are reached; limits of 0 and 1 ticks (1 and
  2 in the liveness run), which keep the order of the thresholds in the code (5 and 12 minutes)
  and let a task wait longer than one and shorter than the other. Ages stop counting
  where no threshold is left to pass. One poller stands for any number: its copy may be
  arbitrarily old.
* Collection: two rounds, so that one overtakes the other; two databases, so that one is read
  before and one after a row is logged; two rows and one row to a batch, so that a batch is
  full and a row comes while another is in hand; three ticks to a second, so that times are
  exact, rounded down and rounded up (four in `collect_passed_over`, so that a row fits between a
  rounded time and its second); one fault. Rounds and databases are symmetric. That a row rounded over comes after a round
and is passed by the next takes a clock that is too long for TLC: there `RoundsReadToTheEnd` is proved.
* Aggregation: two workers and two ticks of time for a round, so that a lock lapses under one; two details
  of one fingerprint (fingerprints do not meet), so that one is stored between the two queries of a round.
* Requests: two applications of one user, of which one covers the tables of the other; two
  review requests, one of which may die; two days; an archive with two runs; two web processes, two saves
  of the page between ldap and local, two breaks, so that the settings raise again in the rollback. `CONSTRAINT Apart` ends a behaviour in which two processes
  reloaded at once: the properties say nothing about what comes then.
* Engines: tickets of up to three statements (one before and one after the one that fails) from a menu
  for each engine, which has every verb and mark its check looks at, over two objects; three schemas to begin with; one
  fault. Queries: four kinds of hit counts and limits (0 to 3, 0 is no limit), so that every limit may
  be the least; a menu for each engine with every form of LIMIT it knows.
* Export: three rows where two are allowed, and a sheet of two; three storages, one of a kind nobody knows,
  and one change of the configuration; one change of the data.
* Instances: two visits at once and three in all, on two accounts, one database and one parameter that begins
  as 8, of which one may die: a request meets another, and a third sees what both left. Visits and accounts are symmetric;
  passwords are not: one has a quote.
* AI services: two requests, two models and one switch, one slot, one crash, two tasks; two texts, one of them asked
  in rounds. A review of up to three of four statements in batches of two, so that a batch is full, another is
  not, and a row is beyond the maximum; two checks one after the other, so that the second finds the cache.
* Schemas: twenty-one shapes of one table (definitions that the comparison cannot tell and two values of AUTO_INCREMENT, one below the other table's rows, among them), no table, and a table of another name, each against each, of a size that has a column to
  rename, add, drop and modify at once, and one change by others. A binlog of two statements in two tables; a submitter and a superuser, two downloads, one broken zip.
* `CHECK_DEADLOCK FALSE` everywhere: the clock of the collection stops at its bound; a ticket that is finished and a task that is settled
  rest, and the bounds stop the requests.

### Fairness

`SqlWorkflow!FairSpec`: a request that has passed its checks is carried through by its web
process (weak fairness of its next save), a schedule that is due is fired by the django-q
scheduler. A queued task is taken by a worker if workers keep coming free (strong fairness: the Redis
queue is first in, first out). Nothing says that they do: the tasks are queued with `timeout=-1`
(`api_workflow.py:425`, `tasks.py:22`), so a call of the engine that never returns holds its worker for ever, as the
comment at `dbshield/settings.py:613` says. So the engine's call has no fairness; `ReleaseIsHonoured`
has `[]<>WorkerFree` as its premise, and `ExecutionEnds` speaks of tickets whose engine has answered. What is
left of a task after the engine (the two saves of an export, the hook) goes on. Hooks get strong
fairness: the single monitor works through the results in the order of a queue, while here
another task's hook may occupy it again and again, so a hook is enabled only repeatedly. Nobody is made to
send a request, and a schedule is not made to fire late or early. Other tickets' tasks are
not in the model: that they leave workers free is part of the same premise.

`Diagnosis!FairSpec`: time passes, the sweep is scheduled every ten minutes and goes through the
tasks, a request that created a task goes on, and a job goes on because every call to the
AI service has a timeout. `Settles` would hold without the last assumption: the sweep does
not wait for the job. `PoolRecovers` needs it. Polls are not fair: nobody has to poll.

Aggregation, requests, reloads, the engines and all parts beside them, the optimisation and the AI review have no fairness:
what is checked of them is safety.

## Theorems

TLC checks the instances above; TLAPS proves the following for every chain (also with a
repeated group), every company, and every number of requests, tasks, processes, slots,
queries, applications, databases, rows, workers, ticks, models, archive runs, statements, objects, accounts and faults. The assumptions
are those declared next to the constants, each checked by TLC on the constants of the runs: `ChainAssumption`,
`PeopleAssumption`, `BoundAssumption`, `QueryAssumption`, `ArchiveAssumption`, `ReloadAssumption`, `DiagnosisAssumption`, `CollectorAssumption`,
`AggregationAssumption`, `GatewayAssumption`, `OptimisationAssumption`, `ReviewAssumption`, `EngineAssumption`,
`QueryPathAssumption`, `ExportAssumption`, `InstanceAssumption`, `SchemaDiffAssumption` and `My2sqlAssumption`. They say of which kind a constant is
(a number that is not negative, a finite set, a menu of statements of the right shape, tables as MySQL tells of them); three theorems have a hypothesis of
their own, which the table names and the text explains.

| Theorem | States | Rests on |
|---|---|---|
| `TypeCorrect` | `Spec => []TypeOK` | `TypeInv` |
| `RunsAreApproved` | `Spec => []ApprovedBeforeRun` | `ApprovalInv` |
| `PassedNodesAreSigned` | `Spec => []ShownPassedWereSigned` | `ApprovalInv` |
| `ExecutingIsOwned` | `Spec => []ExecutingHasOwner` | `OwnerInv` |
| `QueuingIsServed` | `Spec => []QueuingWillStart` | `OwnerInv` |
| `RunsOnce` | `CalmSpec => []RunsOnceUnlessCrossed` | `CalmInv` |
| `ResultsAreOfRuns` | `CalmSpec => []ResultIsOfRunUnlessCrossed` | `CalmInv` |
| `CancelsAreFinal` | `CalmSpec => CancelledNeverStarts`, if `MaxDeaths = 0` | `CalmInv`, `CancelInv` |
| `ReviewImplementsChain` | `CalmSpec => SignaturesInTurn`, if `EachGroupOnce` | `ApprovalInv`, `ReviewInv` |
| `DiagnosisTypes` | `Spec => []TypeOK` | `SlotsAreConserved` |
| `SlotsAreConserved` | `Spec => []SlotsConserved` | `TaskHandInv` |
| `SuccessesHaveReports` | `Spec => []SuccessHasReport` | `ReportInv` |
| `OpenTasksAreServed` | `Spec => []OpenIsServed` | `TaskHandInv` |
| `CollectorTypes` | `Spec => []TypeOK` | `TypeInv` |
| `PassedAreCollected` | `Spec => []PassedWereCollected` | `CollectedInv` |
| `RoundsReadToTheEnd` | `Spec => []RoundsAreThorough` | `CollectedInv`, `ThoroughInv` |
| `RoundsAlone` | `AggSpec => []RoundsAreAlone` | `AloneInv` |
| `SummariesAreTold` | `AggSpec => []SummariesTellDetails` | `AloneInv`, `TellInv` |
| `PrivilegeTypes` | `QSpec => []QTypeOK` | `PrivInv` |
| `QueriesReviewed` | `QSpec => []QueriesAreReviewed` | `PrivInv`, `GrantInv` |
| `DecisionsAreOne` | `QSpec => []DecisionsAgree` | `PrivInv`, `AgreeInv` |
| `ArchiveTypes` | `ASpec => []ATypeOK` | `ArchiveInv` |
| `RunsAreReviewed` | `ASpec => []CheckedRunsAreReviewed` | `ArchiveInv`, `ReviewInv` |
| `LinesSurvive` | `ReloadSpec => []UserLinesSurvive` | `FileInv` |
| `ReloadsAreAllOrNothing` | `ReloadSpec => ReloadIsAllOrNothing`, if `"oidc" \notin Providers` | `LockInv`, `EnvironInv`, `SettledInv`, `FileInv` |
| `ReportsAreTheModels` | `OptimisationSpec => []ReportsTellTheirModel` | `HandInv`, `ModelInv` |
| `CostsBooked` | `OptimisationSpec => []CostsAreBooked` | `HandInv`, `CostInv` |
| `OptimisationTypes` | `OptimisationSpec => []OptimisationTypeOK` | `HandInv`, `RoundsInv`, `AdviceRows`, `HeldInv`, `SlotInv` |
| `VerdictsAreTrue` | `ReviewSpec => []VerdictsAreTheModels` | `ReviewInv` |
| `ReviewTypes` | `ReviewSpec => []ReviewTypeOK` | `ReviewInv`, `ReviewSizes` |
| `ServicesAreTheirParts` | `ServicesSpec => Spec /\ OptimisationSpec /\ ReviewSpec` | no step is of two parts |
| `ServicesTypes` | `ServicesSpec => []ServicesTypeOK` | the types of the parts |
| `RequestsAreTheirParts` | `MCSpec => QSpec /\ ASpec /\ ReloadSpec` | no step is of two parts |
| `RequestsTypes` | `MCSpec => []RequestsTypeOK` | the types of the parts |
| `EngineRunTypes` | `Spec => []EngineTypeOK` | `TypePhase` |
| `FailuresEndRuns` | `Spec => []NothingAfterFailure` | `TraceInv` |
| `CriticalIsNeverSent` | `Spec => []CriticalNeverRuns` | `TraceInv` |
| `FinishedIsDone` | `Spec => []FinishMeansDone` | `TraceInv` |
| `EachIsTold` | `Spec => []StatementsAreTold` | `TraceInv`, `TellInv` |
| `ResultIsTrue` | `Spec => []ResultTellsWhatHappened` | `TraceInv`, `TellInv`, `EffectInv` |
| `CheckIsOfTheTicket` | `Spec => []CheckFollowsTheTicket` | `TypePhase`, `ReviewIsNow` |
| `RowsAreLimited` | `QuerySpec => []RowsWithinLimit` | `QueryInv` |
| `QueriesOnlyRead` | `QuerySpec => []QueriesChangeNothing` | `QueryInv` |
| `AnswersAreTold` | `QuerySpec => []AnswersAreAccounted` | `QueryInv` |
| `ExportsAreWhole` | `ExportSpec => []ExportIsWhole` | `ExportInv` |
| `RecordsAreTrue` | `InstanceSpec => []RecordsTellTheServer` | `AdminInv` |
| `SqlIsNotCut` | `My2sqlSpec => []SqlIsWhole` | `BinlogInv` |
| `ComparisonTypes` | `DiffSpec => []SchemaDiffTypeOK` | `DiffInv` |
| `PatchesAreTrue` | `DiffSpec => []PatchesDoWhatTheySay` | `DiffInv` |
| `EnginesAreTheirParts` | `MCSpec => Spec /\ InstanceSpec /\ DiffSpec /\ My2sqlSpec` | no step is of two parts |
| `SharedIsSafe` | `MCSpec => []` the promises of an export while one is under way, of a query otherwise | `SharedInv` |
| `EnginesTypes` | `MCSpec => []EnginesTypeOK` | `SharedInv`, the types of the parts |

**The ticket.** `TypeOK` is not inductive: `operate_pass` looks up the place of the *next* group in
the chain, which is defined only for groups of the chain. `TypeInv` therefore says that
every audit row, the stored one and each copy in a request, has a current node of the chain
while it is waiting and a next node of the chain or none. For the approval,
`ApprovedBeforeRun` says nothing about rows, and a request may bring back an old row at
any time, so the invariant must cover the copies: `ApprovalInv` calls a row *sound* when every
group before its position has signed (all of them when it is passed), and says that the stored
row and each request's copy are sound in that sense, and that approval is complete wherever the
code takes it for granted: in a request past the check of the release, in a released status, in a
running task or a hook. It is inductive because `signed` only grows
(`SoundRowGrows`): a stale copy that was sound when it was read is still sound. `PassSound` is the
heart, a pass from a sound row gives a sound row; with a repeated group it needs that
`ChainIndex` is the *first* place. `OwnerInv` is
the two ownership properties together with the fact that only the task of an export copies the
ticket's row; `OwnerKept` covers all requests that neither mark nor enqueue.

**The calm day.** `CalmInv` holds until the first crossing and says why it takes one to break a promise: the one request at work holds a copy of
the audit row that is still true, nothing is released before the last signature, at most one task is under way, and then the schedule
is disarmed; a task that ran has left the ticket in a status that offers no release (`Spent`). It holds
whatever dies, and so do `RunsOnce` and `ResultsAreOfRuns`. `CancelsAreFinal` needs a day without deaths: a request that dies between
its two saves leaves a refused audit row beside a ticket that is still timed, and the schedule starts it (`CancelInv` is what
such a death breaks). `ReviewInv` is the part of it that no crossing touches: tasks never write the audit row.
`ReviewImplementsChain` maps each step to one of `ApprovalChain` or to a stutter. It needs that no group is in the
chain twice: `list.index` finds the first place of a group, so that a chain with a repeated one goes back there
after its second place, and signs again.

**The diagnosis.** `TypeInv` types the semaphore as a natural number only; that no
semaphore exceeds its bound follows afterwards from `SlotsConserved`. `TaskHandInv` says who can
hold what: a job's process, a request's task in each of its steps, no two hands on one
task. `ReportInv` adds to `SuccessHasReport` that a job past its report has one. `OpenIsServed` is
inductive relative to `TaskHandInv`. For `SlotsConserved` the jobs of a process are counted
(`JobsCounted`): a step that adds or removes a job changes one cardinality by one.

**The collection.** `TypeInv` adds to the types that no time is ahead of the clock and that stamps do
not go back. `CollectedInv` extends what `PassedWereCollected` says of the cursor to everything that
may become the cursor: the lower bound of each round, and its newest row, up to which it has
in hand or dealt with all rows of the databases it has read (for mongo up to the end of its
window, which is what makes reading one database after another safe). Each of these bounds is
zero or was reached by a row (`Reached`), so that a row logged now is beyond it,
tied with that row or rounded over: this is `LogKnows`. `SeenUpToMax` is what a commit needs.
`Floor` and `Stored` are monotone for every length of a second (`FloorFacts`, `StoredFacts`), which
is all the proof uses of them besides their definition in `RoundedOver`.

`RoundsAreThorough` is about a round that commits, and what has to be kept is said of its last batch: `ThoroughInv` is that
a round whose last batch was not full has nothing left to read before the end of its window. A row that is logged
then has a later time. The attempt to prove it found that the property said too much: a row logged after a commit, in the second that
the cursor was rounded up to, is passed by the next round, which begins after it. The run's clock ends too early for
that (a larger one takes TLC beyond its time, and shows it); the property now excepts such rows, as `PassedWereCollected` does.

**The aggregation.** `RoundsAreAlone` is not inductive: a round could begin while another has time left, if the lock
were free. `LockFollowsRound` says that it is not: the time of the lock and the age of a round that has time left
add up to `Timeout`, until a round ends late (`overran`). A round that ends frees the lock, and by
`RoundsAreAlone` nobody else has time left then; that is `EndKeepsAlone`. What a round has counted
plays no part, so `RoundShape` types only its step and its age.
`SummariesTellDetails` does need it, in `TellInv`: numbers counted at the present version are what the tables hold
(`CountsAreOfVersion`), and a round with time left has counted no earlier than what was written last (`CountsAreNew`),
which holds because whoever writes is then the only round with time left. Every change from outside raises the
version, so that all counts become old ones (`ChangeKeepsTelling`), and `SomeAreCounted` says that a fingerprint with
details is among the rows written. Both theorems hold for every number of workers and fingerprints.

**The query privileges.** `PrivInv` types rows and copies, and says that an item has one row: `update_or_create` looks a row up by its item, and
keeps it so. `GrantInv` is about signatures: the row of each application and the copy in each review are sound (`SoundRow`), a review past its
audit row has every signature, and each row of the grants is of an application that has them all (`GrantedBy`), with its limit and
day unless a manager changed them. It survives any overlap and any death, for `signed` only grows. Granting a whole application is a loop,
`GrantAll`, and what it does to the rows is `Renewed`: `AllRenewed` proves that of every turn, by the least turn for which it would be false.
`TightestFacts` and `MatchFacts` carry over what a row allows to what a query gets. `AgreeInv` is for `DecisionsAgree`: as long as reviews come one
at a time and none dies, the one under way tells where application, audit row and grants differ, and what it still has
to save (`OneReview`). Two overlapping reviews, or one that dies between two saves, do break it, which is why the property excepts them.

**The archive.** As for the ticket, a request may write back an old row at any time, by two doors here, and the task itself
looks at nothing. `ReviewInv` follows the way from the row to the run: the row and each request's copy are sound
(`SoundRow`, shared with the ticket through `AuditV2_proofs`), a passed configuration was reviewed, and so was whatever
made a request past a check, or a task it queued. `DecisionSound` is where both doors meet: what `operate` makes
of a sound copy is sound once its signature counts.

**The optimisation.** `HandInv` says that a task runs only while its row exists and that a request has a run only while
it waits, so that the text of a run does not change under it. `CostInv` then follows what the gateway's client has counted from
the call to the booking: before it is booked nothing is, and of a text that is asked once the last usage is the total.
`ModelInv` says that a waiting request's cache key and client have the configured model, or that the request was crossed by a
change of the configuration; that is why a cached report is by the model that its key names.
That the types hold takes more than types. What a run has cost is bounded by its rounds and the call that ends them
(`RoundsInv`: while it calls, each round has had one answer at most). That the semaphore does not exceed its bound is
again a sum: free slots, requests about to submit, and runs in the pool make it up (`SlotInv`); a step moves one from one place
to another, which `SlotTaken`, `SlotHandedOver` and `SlotGivenBack` say of the cardinalities. A slot that is handed over needs
that the task of the request has not run and is no other request's (`HeldInv`).

**The reload.** `LockInv` says that one process has one reload at a time, and that, until two processes reloaded at once or one died in a
reload (`mixed`), there is one at all. `EnvironInv` says what `os.environ` of the process is at every step: the snapshot, or the snapshot
with what is saved. `SettledInv` says that the settings of a process are what its `os.environ` makes of them, or
made of it before the reload that is about to evaluate them; that is why putting `os.environ` back and evaluating again puts the settings
back. Of the backends it says so only where `os.environ` names a way that assigns them (`Assigns`); elsewhere they are what
`importlib.reload` kept, and the theorem claims no more. `FileInv` follows `.env` and the original that a reload holds. Only the
file needs the absence of other processes, `os.environ` and the settings are each process's own.
`ReloadsAreAllOrNothing` is an action property: it compares the end of a reload with what it began with. It is stated without oidc, whose
button name raises in the middle and leaves `os.environ` changed (finding 3).

**The AI review.** `ReviewInv` is one predicate of a check (`GoodCheck`) and one of the cache. `ResultsFit` says that the results in
hand belong to the statements of the batch, in its order, however the answer was ordered or broken; `MarksFit` that the marks
belong to the rows; `MarkedSoFar` how far they have come. `KeptFits` is what lets another check use the cache:
what is kept for a model and a list of statements is that model's, statement by statement. The size of a batch, the number of
statements reviewed and the length of the ticket are arbitrary. For the types, `ReviewSizes` adds that a check which is not at work
has no results and that whatever the cache holds is of a batch (`BatchIsKey`); the rest of the sizes is `ResultsFit` and `MarksFit`.

**The engines.** Every action of a run is brought under one of three kinds (`Took`, `Broke`, `Quit`): a statement was sent and the run goes on,
was sent and the run ends, or the run ends by itself; what each of the thirteen engines does is proved once, and the invariants
are proved about the three. `TraceInv` says that what was sent is a beginning of the plan, that all of it but
the last was taken, and when there is an error. `CriticalNeverRuns` follows from it and from the reviews (`GoodReview`, for
every script and every check), for a run that begins has no row of level 2. `TellInv` says of each row of a result that it is true of its place, and in the
end of every place. `EffectInv` is about the objects: the recursive function of the property (what the rows told as ok leave
behind) is replaced by its histories, of which there is one (`HistoryOf`): a step makes a history one row longer, and two that differ would differ
at a least row, where the one before makes them equal. The theorems need only `EngineAssumption`.
`CheckIsOfTheTicket` compares two loops over the script, that of TDengine's check and that of the server. `LoopRuns` proves once that
such a loop exists for every length; `OneIsFollowed` is one turn of both, `CheckFollows` all of them, by the least turn at which they would part.
The attempt found the property too strong as it stood: it took it that a later statement may count on a `CREATE` that the
check refuses as critical. The server's side now leaves out what no ticket may have, the run has such a statement, and a premise
about the server's objects proved needless and is gone.

**Queries, exports, servers, binlogs.** `QueryInv` goes from stage to stage: what the check let through, what the limit became, what the
connection is told, what came back, what is shown. It is long since each of fourteen engines has its own way of limiting, and short of
each (`filter_sql` yields the lesser of two limits, or the statement's own). `ExportInv` builds on these lemmas: what the
review saw with its two statements, and where the one file of a ticket is. `AdminInv` says of a visit that nobody else is about
the same thing with, that what it has not left to do is done; and of the parameter that at most one change
is between the server and its history. `Apart` is why another visit does not disturb it. `BinlogInv` says what
is written, what is told of it, and what the zip has; a page has as many rows as are asked for, for the place of a row in
the order of the binlog counts the rows before it (`PageIsFull`).

**Schemas.** `PatchesDoWhatTheySay` compares what the service wrote for the tables it read with what MySQL makes of it, maybe after
others changed them. `DiffInv` follows the tables from the server to the page and back: `AnswersHold` says of each of the six
answers what is still true of the table (`StillThere`: others only take columns away, so what was read is at least what is there);
`ShownFits` that what is shown is the difference of two tables, which have the parts of those of the schemas if nobody else changed
them (`PartsCompared`);
`TakenFits` what a patch that was taken has left. The step that takes a patch is the algebra of `diff_table` and `Altered`,
for tables of any columns: `PatchIs` and `RevertIs` say which columns an ALTER leaves, keeps and writes, `RenamesAre` that the pairs are one
to one, `LostAndCame` that a renamed column and one that stays do not meet. `BecomeLike` is why a column that is written becomes like the one it
is told like the one it is written from, and `ToldAlikeMeans` what that leaves open: MySQL fills in the table's collation where the service wrote none (`FilledDefinition`), and the service writes none only where
they are the same. `PatchMakesAlike` and `RevertUndoes` put it together. Columns had to be a set for this: with the sequences and folds that the
module had before, what a pairing yields for every input needs an induction over data.

**Compositions.** The runs put parts that share no state side by side. A step of the composition is a step of one part and a
stutter of the others, so the composition implements each part by its own specification, and every theorem about
a part is one about what the run explores. Only `Export` shares variables with `QueryPath`: `SharedInv` is `ExportInv` with a query that has not
begun, or `QueryInv` with an export that has not.

The types of the ticket, the diagnosis, the collection and the aggregation, `QueuingWillStart` and `OpenIsServed` are proved
for every instance, and no run repeats them. `ReloadTypes`, `QueryTypes`, `ExportTypes`, `AdminTypes` and `BinlogTypes` are the types of the
parts that the table does not list.

**Only model-checked.** The liveness properties (`ReleaseIsHonoured`, `ExecutionEnds`, `Settles`, `PoolRecovers`) are temporal
under fairness and stay with TLC: the prover knows neither fairness nor `ENABLED`. So do the four runs that end in a counterexample. Every
safety property and every type invariant of the passing runs is proved. Three theorems have a
hypothesis: that cancellations are final needs `MaxDeaths = 0`, that a review implements its chain needs
`EachGroupOnce` (the constants of the runs satisfy both), and that a reload is all or nothing leaves out oidc, of which
finding 3 tells.

## Findings

Each is a run that TLC ends with a counterexample, and a statement in the repository that the
behaviour contradicts. `PROJECT.json` quotes the lines.

1. `wf_double_run`: two execute requests that both passed `can_execute` run the SQL of a ticket
   twice. The row lock that "prevents repeated execution" is released before
   `workflow_queuing` is written, and the write does not look at the status again. (One request on a
   timed ticket does the same if the schedule's task starts between the two.)
2. `collect_passed_over`: the cursor's column has no digits for fractions of a second, so MySQL rounds
   the cursor to the nearest second. Rounded up, it passes operations that MongoDB logs in the
   rest of that second after the round has read: they are never collected. (Rounded down,
   the rows of that second are read and stored again.)
3. `reload_oidc`: a reload with oidc raises when it takes `oidc_btn_name`, which has no variable, out of
   `os.environ`, after `.env` has been rewritten, and nothing is restored, against the promise of the docstring.
4. `reload_backends`: `importlib.reload` keeps `AUTHENTICATION_BACKENDS` when the new settings do not assign it: back
   from ldap to local accounts, the process goes on with the LDAP backend until it restarts.

Seen while modelling and not kept as runs: the hook of a task that `execute` refused may store
the refusal as the result of another task's run, if it is queued during a release request; a ticket can be withdrawn while
it executes or after it (`can_cancel` is not called by the API); two requests for one slow query create two diagnosis tasks;
a diagnosis task that waited long is marked as failed as soon as it runs; `AuditWorkflow` can only
pass an application or an archive (its cancel reads the attribute `engineer`, which these do not have);
an abort through `QueryPrivAudit` leaves the application waiting; the schedule that is to
kill a slow query names `sql.query.kill_query_conn`, which the source does not have any more.

## What is left out

Abstractions of the modelled parts. Those of the first group give the model more behaviours than the
code, so what holds in the model holds in the code; those of the second give it fewer.

More behaviours:

* The window in which a ticket may be executed, and `AlterRunDate`: they only stop requests.
* The queue is a set: any queued task may be taken next. Jobs of a pool are started in any order.
* The cached report and `force` of the diagnosis request decide only whether `Ask` happens.

* A read of mongo that is cut by its limit or fails, and a mysql batch, may contain any of the
  rows of one time; the timeout of a round may come at any step.
* The cleaning of details may end early at any row, as after an error; any subset of the summaries that
  are due may be left.
* Schemas: columns that were renamed may be paired in any order, and no `ALTER` is refused for its `FIRST` or `AFTER`.

Fewer behaviours:

* A request of the review reads audit row and ticket in one step; the code reads the one after the
  other, both before its first write. Of the ticket only whether it was timed is used
  later, to decide about the schedule.
* The death of the scheduler between enqueueing a task and committing the schedule row (it would
  enqueue the task twice) is not modelled.
* One ticket: tickets share nothing but the queue, the workers and the monitor.
* A server stamps a row with the time at which it logs it, and its clock is that of the
  application and does not go back. (If a server stamped a row with the start of a long query,
  the cursor could be past it before it is logged.)
* The seven days back that a collection without a cursor starts from lie before all rows.
* Users, groups and permissions do not change during a ticket's life. Users with the permission to query
  every instance bypass the grants and are left out.
* `update_or_create` is one step, and a request of the reload reads the configuration in one step.
* One parameter stands for all of a way to log in; lines `ENABLE_*` that somebody wrote into `.env` by hand
  are left out; a reload reaches only the process that answers it.
* Aggregation: one of the four types of instance, whose rows do not meet; a summary is its count, the last time and
  the presence of the percentile, for its twelve columns. Redis does not lose the lock.
* Engines: comments in scripts, and what is a matter of text alone, are marks; TDengine's databases are treated
  like its tables. A DELETE of Oracle has its FROM, and `get_dml_table` takes that for the table. Oracle's exception in the middle of a check leaves the part of the review it has, as in the
  code. goInception and the servers answer as the code expects them to.
* Queries: which columns a masking rule hits is not modelled, only whether masking succeeds; Memcached and
  Elasticsearch queries with a size of their own are not limited, PostgreSQL refuses LIMIT with OFFSET because
  a second LIMIT is appended, ODPS raises a smaller LIMIT to the one allowed and appends one behind a LIMIT in capitals: all as in the code. The log of PostgreSQL
  and Oracle says "masked" also when masking failed and was let through, and the cursor of a SCAN is not counted: the
  properties except these.
* Export: contents are one kind of cell; a reader keeps 15 digits of a number. The connection tests of the storage page
  are left out.
* Instances: one parameter; fields that are missing are refused before anything is done, and left out. The names of
  accounts have nothing to escape (`create_instance_user` would put an escaped user into the row as well).
* AI: a statement is a token, also after masking, and what the model finds in the database is only read. One web
  process for the optimisation: processes share rows and the cache only.
* Schemas: what the six queries do not read (prefix lengths, order and visibility of the parts of an index, functional indexes,
  invisible columns, foreign keys, checks, partitions) is not in the model's data, and no ALTER has it. A text has no backslash:
  `_escape_string` doubles quotes only, so a default or comment with one is another after the ALTER; binary defaults, which
  MySQL tells in hexadecimal and the ALTER quotes, are left out as well. Views, triggers and routines are compared by existence and without SQL, and left out.
  An `ALTER` is carried out as a whole or refused as a whole. The places of columns are not in the model.
* Binlog: looking for the zip and opening it is one step; directories, named by the time, differ; of the options only start, stop
  and their order count.

What the properties of these parts except, because the code is so:

* Export: `offlinedownload.py:78` takes `max_export_rows` as the time a query may run as well. A limit of 0 means everything for a find of MongoDB,
  makes its aggregates fail, and is written into ODPS's statement (where that finds a place for it); Elasticsearch reads a page. JSON
  cannot write dates. A storage that cannot be made leaves no object to close, and the `finally` fails.
  The storage a file went to is not remembered: after a change of the configuration its download is missing.
* AI review: "unknown" of a failed fallback is a valid result for the cache and stays for an hour, although `ai_review.py:281` says that bad
  results are not kept. Fallbacks that go well are not booked, and a failed batch books the tokens of the call before it.
  The engines of pgsql and mongo call the review and have no configuration: it never runs there. Of rows with equal SQL the last one's verdict counts.
* Optimisation: tasks that fail are not booked. The key of a report has no instance and no structure of tables (the comment at
  `api_slowquery.py:50` names the latter); an empty report is kept for a day as well.
* Schemas: an index that changed is dropped and added with a full-width comma in between, which a test
  (`test_schema_diff_service.py:181`) expects and MySQL refuses; `DEFAULT CURRENT_TIMESTAMP` is quoted, and refused; so is
  `AUTO_INCREMENT=None`, and the ALTER of a view. The order of columns alone is no difference, and a revert does not restore it.
* Binlog: a zip that broke off, or that another request is still writing, is given to the next download as it is. The
  poll says "queued" for ever of a task that was lost or cleared.

Not modelled at all: logging in with its lock-out (failures are counted by reading and saving the
row of a user: concurrent ones are lost, which needs no model), two-factor codes, prompts and NL2SQL, notifications, SQL parsers and
formatters, the CRUD of instances, users, groups and documents, dashboards, the dictionary, OSC control and other command
lines, the Windows patch. They are reads, calls to other services, or writes of one row.

## Plan

In this order; what exists comes first.

1. `AuditV2`, `SqlWorkflow`, `ApprovalChain`, `SqlWorkflowCalm`: the core. *Done.*
2. `Diagnosis`: tasks, pools and stale marks. *Done.*
3. `Collector`: the server's log, collection with cursors, the clearing of `mysql.slow_log`. *Done.*
   `Aggregation`: the lock in the cache, the recomputed summaries and the retention. *Done.* Left: the liveness of the
   collection (a row that no table can take, a full batch of one second) and pgsql's snapshots.
4. `QueryPrivileges` and `Archive` on `AuditV2`. *Done*, with the theorem that what may be queried has an application that
   every group of the chain signed.
5. `AuthReload`. *Done.*
6. `EngineReview`, `TDengineReview`, `EngineRun`: the check and the run of a ticket on thirteen engines. *Done.*
   `QueryPath`: a query on fourteen. `Export` on top of it. *Done.*
7. `AIGateway`, `Optimisation`, `AIReview`; `InstanceAdmin`; `SchemaDiff`; `My2sql`. *Done.* Left: the log-in with its lock-out, several
   web processes for the optimisation.
8. Proofs about every module with state, the calm day and its refinement among them, and about the compositions that the runs
   explore. *Done.* Left: the liveness properties, which this prover does not reach.
