-------------------------------- MODULE My2sql --------------------------------
(***************************************************************************)
(* The SQL of a piece of binlog: one request for it, answered at once or   *)
(* handed to django-q; the run of my2sql that writes *.sql files into a    *)
(* directory of the request's own; the state of the task as the page asks  *)
(* for it, and the downloads.  What my2sql does is modelled from how the   *)
(* plugin reads it: statements are known by a number, in their order.      *)
(***************************************************************************)
EXTENDS Naturals, FiniteSets, FiniteSetsExt

CONSTANTS
  Binlog,      \* statements of the binlog: a set of numbers
  TableOf,     \* statement -> its table, in the order of their names
  Viewers, Admins,  \* users with the menu, and the superusers among them
  NoViewer,
  DefaultNum,  \* 30, when no number of rows is given
  Downloads,   \* requests for the file
  MaxZips      \* bound: zips that break off

ASSUME My2sqlAssumption ==
  /\ Binlog \subseteq Nat \ {0} /\ IsFiniteSet(Binlog)
  /\ TableOf \in [Binlog -> Nat \ {0}]
  /\ Admins \subseteq Viewers /\ NoViewer \notin Viewers /\ DefaultNum \in Nat \ {0} /\ MaxZips \in Nat

\* from: a start file, or a time only, or neither; to: a stop file with its position, without, or none.
Ranges == [from : {"file", "time", "none"}, to : {"pos", "nopos", "none"}, ordered : BOOLEAN]

Options == [num : {0, 2}, save_sql : BOOLEAN, file_per_table : BOOLEAN]

NoOptions == [num |-> 0, save_sql |-> FALSE, file_per_table |-> FALSE]

VARIABLES
  parse,     \* how far the request or its task is
  opts, submitter,
  wanted,    \* the statements that range and filters stand for
  output,    \* those in the *.sql of the directory
  exit,      \* how my2sql ended
  shownRows, \* what a request at once has shown
  task,      \* the row of django-q
  told,      \* the last answer to the page: state of the task, and its count
  notified,  \* what notify_for_my2sql said
  zip,       \* the zip in the directory
  loads,     \* download -> what it is at
  zips       \* zips that broke off

my2sqlVars == <<parse, opts, submitter, wanted, output, exit, shownRows, task, told, notified, zip, loads, zips>>
taskVars == <<task, told, notified>>
fileVars == <<zip, loads, zips>>

NoTask == [state |-> "none", count |-> 0]
NotTold == [state |-> "none", count |-> 0, to |-> NoViewer]
NoZip == [exists |-> FALSE, has |-> {}, closed |-> FALSE]
NoLoad == [pc |-> "idle", by |-> NoViewer, left |-> {}, got |-> {}]

BinlogTables == {TableOf[s] : s \in Binlog}

My2sqlTypeOK ==
  /\ parse \in {"new", "refused", "queued", "running", "ended", "answered", "done", "lost"}
  /\ opts \in Options /\ submitter \in Viewers \cup {NoViewer}
  /\ wanted \subseteq Binlog /\ output \subseteq Binlog /\ shownRows \subseteq Binlog
  /\ exit \in {"none", "ok", "fatal", "error", "warned", "late"}
  /\ task \in [state : {"none", "success", "failure", "cleared"}, count : 0..Cardinality(Binlog)]
  /\ told.to \in Viewers \cup {NoViewer} /\ notified \in {"none", "success", "failure"}
  /\ zip \in [exists : BOOLEAN, has : SUBSET Binlog, closed : BOOLEAN] /\ zips \in 0..MaxZips
  /\ loads \in [Downloads -> [pc : {"idle", "zipping", "none", "got", "spoilt"}, by : Viewers \cup {NoViewer},
                              left : SUBSET BinlogTables, got : SUBSET Binlog]]

-----------------------------------------------------------------------------
(* The request.                                                            *)

\* A start file without a stop file is its own stop file; a stop file needs a position.
_parse_options(range) ==
  /\ range.from # "none"
  /\ range.to = "pos" \/ (range.to = "none" /\ range.from = "time")
  /\ range.ordered

Post(u) ==
  /\ parse = "new"
  /\ opts' \in Options /\ submitter' = u
  /\ wanted' \in SUBSET Binlog
  /\ \E reaches \in BOOLEAN, range \in Ranges :
       parse' = IF ~reaches \/ ~_parse_options(range) THEN "refused"
                ELSE IF opts'.save_sql THEN "queued" ELSE "running"
  /\ UNCHANGED <<output, exit, shownRows, taskVars, fileVars>>

\* No path to my2sql, or it cannot be started.
CannotRun ==
  /\ parse = "queued" \/ (parse = "running" /\ ~opts.save_sql /\ output = {} /\ exit = "none")
  /\ IF opts.save_sql
     THEN parse' = "ended" /\ exit' = "error"
     ELSE parse' = "refused" /\ exit' = exit
  /\ UNCHANGED <<opts, submitter, wanted, output, shownRows, taskVars, fileVars>>

TaskBegins ==
  /\ parse = "queued"
  /\ parse' = "running"
  /\ UNCHANGED <<opts, submitter, wanted, output, exit, shownRows, taskVars, fileVars>>

Write ==
  /\ parse = "running" /\ exit = "none"
  /\ \E s \in wanted \ output : (\A t \in wanted \ output : s <= t) /\ output' = output \cup {s}
  /\ UNCHANGED <<parse, opts, submitter, wanted, exit, shownRows, taskVars, fileVars>>

\* A [fatal] is told on stdout with 0 for the return code; what stderr has is a failure, too;
\* and the time may be up at any moment.
Exit ==
  /\ parse = "running" /\ exit = "none"
  /\ exit' \in {"fatal", "error", "late"} \cup (IF output = wanted THEN {"ok", "warned"} ELSE {})
  /\ parse' = "ended"
  /\ UNCHANGED <<opts, submitter, wanted, output, shownRows, taskVars, fileVars>>

\* Slip: the return code and stderr only.
is_failure_silent(e) == e \in {"error", "warned"}

is_failure(e) == e \in {"error", "warned", "fatal"}

Failed == exit = "late" \/ is_failure(exit)

FileOf(s) == IF opts.file_per_table THEN TableOf[s] ELSE 0

\* A file that cannot be removed stays.
remove_sql_files ==
  \E stay \in SUBSET {FileOf(s) : s \in output} : output' = {s \in output : FileOf(s) \in stay}

Num == IF opts.num = 0 THEN DefaultNum ELSE opts.num

\* The files in the order of their names, and the first num of their lines.
collect_sql_rows(found) ==
  {s \in found : Cardinality({r \in found : \/ FileOf(r) < FileOf(s)
                                            \/ FileOf(r) = FileOf(s) /\ r <= s}) <= Num}

ShowRows ==
  /\ parse = "ended" /\ ~opts.save_sql
  /\ IF Failed
     THEN remove_sql_files /\ parse' = "refused" /\ shownRows' = shownRows
     ELSE output' = output /\ parse' = "answered" /\ shownRows' = collect_sql_rows(output)
  /\ UNCHANGED <<opts, submitter, wanted, exit, taskVars, fileVars>>

-----------------------------------------------------------------------------
(* The task: its row is written when it has ended, and its hook is called. *)

my2sql_execute ==
  /\ parse = "ended" /\ opts.save_sql
  /\ IF Failed
     THEN remove_sql_files /\ task' = [state |-> "failure", count |-> 0]
     ELSE output' = output /\ task' = [state |-> "success", count |-> Cardinality(output)]
  /\ parse' = "done"
  /\ UNCHANGED <<opts, submitter, wanted, exit, shownRows, told, notified, fileVars>>

notify_for_my2sql ==
  /\ parse = "done" /\ notified = "none"
  /\ notified' = IF Failed THEN "failure" ELSE "success"
  /\ UNCHANGED <<parse, opts, submitter, wanted, output, exit, shownRows, task, told, fileVars>>

\* The worker dies: no row, no hook, and what was written stays.
ParserDies ==
  /\ opts.save_sql /\ parse \in {"running", "ended"}
  /\ parse' = "lost"
  /\ UNCHANGED <<opts, submitter, wanted, output, exit, shownRows, taskVars, fileVars>>

TaskCleared ==
  /\ task.state \in {"success", "failure"}
  /\ task' = [state |-> "cleared", count |-> 0]
  /\ UNCHANGED <<parse, opts, submitter, wanted, output, exit, shownRows, told, notified, fileVars>>

-----------------------------------------------------------------------------
(* The page: the state of the task, and the download.                      *)

Owns(u) == u = submitter \/ u \in Admins

\* Without a row the task is taken for queued, whoever asks, lost and cleared ones too.
TaskState(u) ==
  /\ opts.save_sql /\ parse # "refused"
  /\ told' = IF task.state \in {"none", "cleared"} THEN [state |-> "queued", count |-> 0, to |-> u]
             ELSE IF ~Owns(u) THEN [state |-> "refused", count |-> 0, to |-> u]
             ELSE [state |-> task.state, count |-> task.count, to |-> u]
  /\ UNCHANGED <<parse, opts, submitter, wanted, output, exit, shownRows, task, notified, fileVars>>

Files == {FileOf(s) : s \in output}

LoadEnds(d, pc, got) == loads' = [loads EXCEPT ![d] = [@ EXCEPT !.pc = pc, !.got = got]]

\* One file as it is; of more, the zip that is there, whether it is finished or not; else it is made.
Download(d, u) ==
  /\ opts.save_sql /\ loads[d].pc = "idle"
  /\ LET asks == [NoLoad EXCEPT !.by = u]
     IN IF task.state # "success" \/ ~Owns(u) \/ Files = {}
        THEN loads' = [loads EXCEPT ![d] = [asks EXCEPT !.pc = "none"]] /\ zip' = zip
        ELSE IF Cardinality(Files) = 1
        THEN loads' = [loads EXCEPT ![d] = [asks EXCEPT !.pc = "got", !.got = output]] /\ zip' = zip
        ELSE IF zip.exists
        THEN /\ loads' = [loads EXCEPT ![d] = [asks EXCEPT !.pc = IF zip.closed THEN "got" ELSE "spoilt",
                                                           !.got = IF zip.closed THEN zip.has ELSE {}]]
             /\ zip' = zip
        ELSE /\ loads' = [loads EXCEPT ![d] = [asks EXCEPT !.pc = "zipping", !.left = Files]]
             /\ zip' = [exists |-> TRUE, has |-> {}, closed |-> FALSE]
  /\ UNCHANGED <<parse, opts, submitter, wanted, output, exit, shownRows, taskVars, zips>>

AddFile(d) ==
  /\ loads[d].pc = "zipping"
  /\ IF loads[d].left = {}
     THEN zip' = [zip EXCEPT !.closed = TRUE] /\ LoadEnds(d, "got", zip.has)
     ELSE \E f \in loads[d].left :
            /\ zip' = [zip EXCEPT !.has = @ \cup {s \in output : FileOf(s) = f}]
            /\ loads' = [loads EXCEPT ![d].left = @ \ {f}]
  /\ UNCHANGED <<parse, opts, submitter, wanted, output, exit, shownRows, taskVars, zips>>

\* A file that cannot be added: the zip is closed as it is, and stays.  A request that dies leaves it open.
ZipBreaks(d) ==
  /\ loads[d].pc = "zipping" /\ zips < MaxZips
  /\ zip' \in {zip, [zip EXCEPT !.closed = TRUE]}
  /\ LoadEnds(d, "none", {})
  /\ zips' = zips + 1
  /\ UNCHANGED <<parse, opts, submitter, wanted, output, exit, shownRows, taskVars>>

My2sqlInit ==
  /\ parse = "new" /\ opts = NoOptions /\ submitter = NoViewer /\ wanted = {} /\ output = {}
  /\ exit = "none" /\ shownRows = {} /\ task = NoTask /\ told = NotTold /\ notified = "none"
  /\ zip = NoZip /\ loads = [d \in Downloads |-> NoLoad] /\ zips = 0

My2sqlNext ==
  \/ \E u \in Viewers : Post(u) \/ TaskState(u)
  \/ CannotRun \/ TaskBegins \/ Write \/ Exit \/ ShowRows
  \/ my2sql_execute \/ notify_for_my2sql \/ ParserDies \/ TaskCleared
  \/ \E d \in Downloads : (\E u \in Viewers : Download(d, u)) \/ AddFile(d) \/ ZipBreaks(d)

My2sqlSpec == My2sqlInit /\ [][My2sqlNext]_my2sqlVars

-----------------------------------------------------------------------------
(* Properties.                                                             *)

\* SQL that was cut off is nowhere taken for all of it (the comments at sql_api/api_misc.py:546 and
\* sql/plugins/my2sql.py:39): a page shows what my2sql wrote to its end, up to the number asked for;
\* the count of a success and its download are whole, for the submitter and superusers only.  A zip
\* that broke off is kept, and is what the next download gets: after one, nothing is said of downloads.
SqlIsWhole ==
  /\ parse = "answered" => shownRows \subseteq wanted /\ Cardinality(shownRows) = Min({Num, Cardinality(wanted)})
  /\ task.state = "success" => task.count = Cardinality(wanted) /\ notified # "failure"
  /\ told.state \in {"success", "failure"} => Owns(told.to)
  /\ told.state = "success" => told.count = Cardinality(wanted)
  /\ \A d \in Downloads : loads[d].pc = "got" => Owns(loads[d].by) /\ (zips = 0 => loads[d].got = wanted)

=============================================================================
