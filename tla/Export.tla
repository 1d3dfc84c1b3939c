------------------------------- MODULE Export -------------------------------
(***************************************************************************)
(* A ticket that exports the rows of one statement: the count before it is *)
(* submitted, the run that writes them into a file and stores it, and the  *)
(* download.  The engines are those of QueryPath: asked is the ticket's    *)
(* statement and the rows that it meets now; text and limit_num are what   *)
(* the engine is given.                                                    *)
(*                                                                         *)
(* The ticket's other steps, and the races on its row, are SqlWorkflow's;  *)
(* here one ticket is approved, and run once.                              *)
(***************************************************************************)
EXTENDS QueryPath

CONSTANTS
  MaxExportRows,   \* max_export_rows
  MaxMoves,        \* bound: changes of the storage
  Storages, KindOf,  \* storages that the configuration may name, and their storage_type
  SheetRows,       \* rows that a sheet of XLSX holds
  NoPlace

ASSUME ExportAssumption ==
  /\ MaxExportRows \in Nat /\ MaxExportRows < MaxRows /\ SheetRows \in Nat /\ MaxMoves \in Nat
  /\ NoPlace \notin Storages
  /\ \A p \in Storages : KindOf[p] \in {"local", "sftp", "s3c", "azure", "other"}

SQL_COUNT_ENGINES ==
  {"mysql", "mssql", "pgsql", "oracle", "phoenix", "odps", "clickhouse", "cassandra", "doris"}

Formats == {"csv", "json", "xml", "xlsx", "sql"}

\* Values that the formats tell apart: a date, an integer of 16 digits or more, such a DECIMAL.
Cells == {"text", "date", "long", "decimal"}

Fails == "fails"

\* cut: the integers that whoever opens the file does not see whole.
ExportFile == [rows : 0..(MaxRows + 1), cut : SUBSET {"long", "decimal"}]

VARIABLES
  export,      \* how far the ticket is
  rejects,     \* auto_review_wrong makes an error reject
  storage,     \* the place that the configuration names
  files,       \* what is stored: place -> the ticket's file, if any
  made,        \* the file in the temporary directory, if any
  savedTo,     \* the DynamicStorage of the run
  file_name,   \* the ticket has one
  download,    \* the last one: what it said, and where it looked
  moves,       \* changes of the storage
  changed      \* ghost: the rows changed since they were counted

exportTicket == <<asked, rejects>>
exportFiles  == <<files, made, savedTo, file_name, download>>
exportOwnVars == <<export, rejects, storage, files, made, savedTo, file_name, download, moves, changed>>

NoText == [cap |-> Uncapped, good |-> TRUE, tail |-> FALSE]

\* What the engine was given ends with the call.
Return == text' = NoText /\ limit_num' = 0

\* The rest of a query, which is not in this.
unasked == <<stage, threads, reply, given, log, granted, ran, mode>>

ExportTypeOK ==
  /\ export \in {"new", "asked", "counting", "limiting", "limited", "submitted", "rejected", "executing",
                 "made", "stored", "finish", "exception", "dead"}
  /\ rejects \in BOOLEAN /\ storage \in Storages
  /\ files \in [Storages -> SUBSET ExportFile] /\ made \subseteq ExportFile
  /\ savedTo \in Storages \cup {NoPlace} /\ file_name \in BOOLEAN /\ moves \in 0..MaxMoves /\ changed \in BOOLEAN
  /\ download \in [said : {"none", "refused", "missing", "failed", "stream", "url"},
                   from : Storages \cup {NoPlace}]

-----------------------------------------------------------------------------
(* pre_count_check, on the page and again in the submission.               *)

Fill ==
  /\ export = "new"
  /\ \E e \in QueryEngines, hits \in 0..MaxRows : \E statement \in QueryMenu[e] :
       asked' = [engine |-> e, statement |-> statement, limit |-> 0, hits |-> hits]
  /\ rejects' \in BOOLEAN
  /\ export' = "asked"
  /\ UNCHANGED <<unasked, text, limit_num, storage, exportFiles, moves, changed>>

\* The review is one row, with an error or without; what an error leads to is up to
\* auto_review_wrong.
Reviewed(error) ==
  /\ Return
  /\ export' = IF error /\ rejects THEN "rejected" ELSE "submitted"
  /\ UNCHANGED <<unasked, exportTicket, storage, exportFiles, moves, changed>>

\* get_single_export_statement: of several statements none is taken.
get_single_export_statement == ~ stmt.tail

pre_count_check ==
  /\ export = "asked"
  /\ \E old \in BOOLEAN :
       IF ~ get_single_export_statement \/ ~ PassesCheck(old)
       THEN Reviewed(TRUE)
       ELSE /\ export' = IF eng \in SQL_COUNT_ENGINES THEN "counting" ELSE "limiting"
            /\ text' = [cap |-> AsItIs.cap, good |-> stmt.good, tail |-> FALSE]
            /\ UNCHANGED <<unasked, exportTicket, limit_num, storage, exportFiles, moves, changed>>

\* SELECT COUNT( * ) FROM (the statement).  ODPS writes its limit, 0, into it: behind, and there
\* is no row to read; or in place of the one inside, and there is nothing to count; or nowhere.
TooManyRows ==
  CASE eng = "odps" /\ stmt.form \in {"none", "upper"}       -> TRUE
    [] eng = "odps" /\ stmt.form \in {"n", "offset", "comma"} -> FALSE
    [] OTHER                                               -> Rows(text) > MaxExportRows

CountRows ==
  /\ export = "counting"
  /\ stmt.head \in {"select", "with"} /\ Serves(text)
  /\ Reviewed(TooManyRows)

\* Slip: the rows are read up to the threshold only.
RowsToRead_short == MaxExportRows

\* One row more than the threshold is enough to know.
RowsToRead == MaxExportRows + 1

\* What cannot be counted is read; so is everything on the other engines.
ReadRows ==
  /\ export \in {"counting", "limiting"}
  /\ limit_num' = RowsToRead
  /\ text' = [cap |-> filter_sql(RowsToRead).cap, good |-> text.good /\ filter_sql(RowsToRead).good,
              tail |-> FALSE]
  /\ export' = "limited"
  /\ UNCHANGED <<unasked, exportTicket, storage, exportFiles, moves, changed>>

\* affected_rows, or the number of rows where that is 0.
actual_rows_check ==
  LET got == Result(Rows(Sent(limit_num))) IN IF got.affected = 0 THEN got.rows ELSE got.affected

CheckRows ==
  /\ export = "limited"
  /\ \/ Serves(Sent(limit_num)) /\ Reviewed(actual_rows_check > MaxExportRows)
     \/ Reviewed(TRUE)

-----------------------------------------------------------------------------
(* execute_offline_download: nothing limits the rows any more.             *)

\* The data change after the review.
DataChange ==
  /\ export = "submitted" /\ ~ changed
  /\ \E hits \in (0..MaxRows) \ {asked.hits} : asked' = [asked EXCEPT !.hits = hits]
  /\ changed' = TRUE
  /\ UNCHANGED <<unasked, text, limit_num, export, rejects, storage, exportFiles, moves>>

Ends(end) ==
  /\ export' = end
  /\ Return
  /\ UNCHANGED <<unasked, exportTicket, storage, moves, changed>>

\* The four kinds take their parameters from the configuration, and connect to nothing yet.
CanBeMade(place) == KindOf[place] \in {"local", "sftp", "s3c", "azure"}

DynamicStorage ==
  /\ export = "submitted" /\ CanBeMade(storage)
  /\ savedTo' = storage
  /\ text' = [cap |-> AsItIs.cap, good |-> stmt.good, tail |-> FALSE]
  /\ limit_num' = 0
  /\ export' = "executing"
  /\ UNCHANGED <<unasked, exportTicket, storage, files, made, file_name, download, moves, changed>>

\* A storage that cannot be made fails the task: there is none to close.
NoStorage == export = "submitted" /\ Ends("exception") /\ UNCHANGED exportFiles

\* How a value stands in a file: a formula is ="...", a number is left to the reader.  Integers
\* of 16 digits, told as numbers or as text, become formulas; a DECIMAL is neither.
excel_safe_cell(cell) ==
  CASE cell = "long" -> "formula" [] cell = "decimal" -> "number" [] OTHER -> "text"

Written(cell) == IF cell \in {"long", "decimal"} THEN "number" ELSE "text"

save_csv(cell)  == excel_safe_cell(cell)
save_json(cell) == IF cell = "date" THEN Fails ELSE Written(cell)
save_xml(cell)  == "text"
save_sql(cell)  == Written(cell)

\* All values are texts; a sheet has an end.
save_xlsx(rows) == IF rows > SheetRows THEN Fails ELSE "text"

save_to_format_file(format, cell, rows) ==
  CASE format = "csv"  -> save_csv(cell)
    [] format = "json" -> save_json(cell)
    [] format = "xml"  -> save_xml(cell)
    [] format = "xlsx" -> save_xlsx(rows)
    [] format = "sql"  -> save_sql(cell)

\* A spreadsheet keeps 15 digits of a number, the programs that read the other formats all.
Spreadsheets == {"csv", "xlsx"}
NumbersCut(format, cell, mark) == {c \in {"long", "decimal"} \cap {cell} : format \in Spreadsheets /\ mark = "number"}

\* The statement as it was asked for, without a limit; a column of the answer has such values.
Query ==
  /\ export = "executing" /\ Serves(Sent(limit_num))
  /\ LET rows == Result(Rows(Sent(limit_num))).rows IN
     \E format \in Formats, cell \in Cells :
       LET mark == save_to_format_file(format, cell, rows) IN
       /\ mark # Fails
       /\ made' = {[rows |-> rows, cut |-> NumbersCut(format, cell, mark)]}
  /\ Ends("made")
  /\ UNCHANGED <<files, savedTo, file_name, download>>

\* storage.save; the directory and what is in it go at the end of the run.
Store ==
  /\ export = "made"
  /\ files' = [files EXCEPT ![savedTo] = made]
  /\ made' = {}
  /\ Ends("stored")
  /\ UNCHANGED <<savedTo, file_name, download>>

\* The save of the ticket, and with it the run is over.
SaveName ==
  /\ export = "stored"
  /\ file_name' = TRUE
  /\ Ends("finish")
  /\ UNCHANGED <<files, made, savedTo, download>>

\* The query, the format, the storage or the save fails: the ticket has no file.
RunFails ==
  /\ export \in {"executing", "made", "stored"}
  /\ made' = {}
  /\ Ends("exception")
  /\ UNCHANGED <<files, savedTo, file_name, download>>

WorkerDies ==
  /\ export \in {"executing", "made", "stored"}
  /\ Ends("dead")
  /\ UNCHANGED exportFiles

-----------------------------------------------------------------------------
(* The configuration, and the download.                                    *)

Configure ==
  /\ export # "new" /\ moves < MaxMoves
  /\ moves' = moves + 1
  /\ storage' \in Storages \ {storage}
  /\ UNCHANGED <<unasked, exportTicket, text, limit_num, export, exportFiles, changed>>

Said(mine, works) ==
  CASE ~ mine \/ ~ file_name -> "refused"
    [] OTHER -> CASE ~ CanBeMade(storage) \/ ~ works -> "failed"
                  [] CanBeMade(storage) /\ works /\ files[storage] = {} -> "missing"
                  [] OTHER -> IF KindOf[storage] \in {"local", "sftp"} THEN "stream" ELSE "url"

\* The storage that is configured now is asked, whichever the file was saved to.
DownloadFileView ==
  /\ export \in {"finish", "exception", "dead"}
  /\ \E mine, works \in BOOLEAN :
       LET said == Said(mine, works) IN
       download' = [said |-> said, from |-> IF said \in {"stream", "url"} THEN storage ELSE NoPlace]
  /\ UNCHANGED <<unasked, exportTicket, text, limit_num, export, storage, files, made, savedTo,
                 file_name, moves, changed>>

-----------------------------------------------------------------------------
ExportInit ==
  /\ export = "new" /\ rejects = FALSE
  /\ storage \in Storages
  /\ files = [p \in Storages |-> {}] /\ made = {} /\ savedTo = NoPlace
  /\ file_name = FALSE /\ download = [said |-> "none", from |-> NoPlace] /\ moves = 0 /\ changed = FALSE

ExportNext ==
  \/ Fill \/ pre_count_check \/ CountRows \/ ReadRows \/ CheckRows \/ DataChange
  \/ DynamicStorage \/ NoStorage \/ Query \/ Store \/ SaveName \/ RunFails \/ WorkerDies
  \/ Configure \/ DownloadFileView

ExportSpec == QueryInit /\ ExportInit /\ [][ExportNext]_<<queryVars, exportOwnVars>>

-----------------------------------------------------------------------------
\* Rows that the ticket's statement has, by the limit it may have of its own.
AllRows == IF stmt.head = "count" THEN 1 ELSE Lesser(asked.hits, AsItIs.cap)

\* Where the engine does not take no limit for none: Elasticsearch has a size and a page of its
\* own, ODPS a limit of 0, and a find of MongoDB loses the limit that it has.
KeepsAllRows ==
  /\ eng \notin {"elasticsearch", "odps"}
  /\ eng = "mongo" /\ stmt.head = "select" => stmt.form \in {"none"} \cup FindForms

\* The cursor of a SCAN is a row of the file.
Cursor == IF eng = "redis" /\ stmt.head = "scan" THEN 1 ELSE 0

\* The file of a ticket holds every row of the reviewed statement, no more of them than
\* max_export_rows allows (unless they have become more since they were counted, or errors do
\* not reject), and no integer that a spreadsheet would cut; a finished ticket has one, and
\* what is downloaded is that one.
ExportIsWhole ==
  /\ file_name => \A f \in files[savedTo] :
       /\ KeepsAllRows => f.rows = AllRows + Cursor
       /\ KeepsAllRows /\ rejects /\ ~ changed => f.rows <= MaxExportRows + Cursor
       /\ "long" \notin f.cut
  /\ export = "finish" => file_name /\ files[savedTo] # {}
  /\ download.said \in {"stream", "url"} => export = "finish" /\ download.from = savedTo
=============================================================================
