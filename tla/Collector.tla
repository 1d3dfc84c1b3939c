----------------------------- MODULE Collector -----------------------------
(***************************************************************************)
(* The collection of one server's slow queries: the server's log, the      *)
(* rounds that copy it into the detail table every few minutes, and the    *)
(* cursor between them.  Nothing keeps two rounds of one instance apart: a *)
(* round may last ten minutes, and one is started every five.              *)
(*                                                                         *)
(* Three of the collectors work with a cursor, each in its own way:        *)
(*   - mysql reads mysql.slow_log in batches, and writes the bounds of the *)
(*     query in whole seconds;                                             *)
(*   - mongo reads system.profile, database by database, all with the same *)
(*     cursor, and goes on when a database fails;                          *)
(*   - redis reads the newest entries of SLOWLOG, which have times in      *)
(*     whole seconds.                                                      *)
(* All three keep the cursor in a DATETIME column, which rounds it.        *)
(* The ghost variable settled is read by properties only.                  *)
(***************************************************************************)
EXTENDS Naturals, Sequences, FiniteSets

CONSTANTS
  Kinds,     \* the collectors considered: a subset of {"mysql", "mongo", "redis"}
  Rounds,    \* workers that may run a round of this instance at the same time
  Dbs,       \* databases of the server
  Limit,     \* rows in one read
  PerSecond, \* ticks in a second
  MaxNow,    \* bound: the clock, in ticks
  MaxRows,   \* bound: rows the server logs
  MaxFaults  \* bound: reads that fail and rounds that break off

NoDb == "none"

ASSUME CollectorAssumption ==
  /\ Kinds \subseteq {"mysql", "mongo", "redis"}
  /\ NoDb \notin Dbs
  /\ Limit \in Nat \ {0}
  /\ PerSecond \in Nat \ {0}
  /\ MaxNow \in Nat /\ MaxNow >= PerSecond
  /\ MaxRows \in Nat
  /\ MaxFaults \in Nat

Time == 0..MaxNow

\* Definitions marked "Slip" are wrong on purpose; no action uses them.  Each stands
\* in for the definition after it to show which property would notice the mistake.

\* strftime("%Y-%m-%d %H:%M:%S")
Floor(t) == PerSecond * (t \div PerSecond)

\* What is left of a time in a DATETIME column: slow_query_cursor.sql gives last_cursor
\* no digits for fractions, and MySQL rounds them to the nearest second.
Stored(t) == PerSecond * ((2 * t + PerSecond) \div (2 * PerSecond))

\* fits: the detail table can take the row
\* db: the database of a system.profile; the other logs are one for the server
Entry == [at : Time, db : Dbs \cup {NoDb}, fits : BOOLEAN]

\* A round reads; stores what it has read; commits its cursor.  max is the _max_cursor
\* of its CursorManager, 0 for None; dbs are the databases still to be read; full says
\* that the last batch was as long as a batch can be.
Round == [pc : {"idle", "read", "store", "commit"}, from : 0..Stored(MaxNow), end : Time,
          max : Time, batch : SUBSET (1..MaxRows), full : BOOLEAN, dbs : SUBSET Dbs]
Idle  == [pc |-> "idle", from |-> 0, end |-> 0, max |-> 0,
          batch |-> {}, full |-> FALSE, dbs |-> {}]

VARIABLES
  kind,    \* the db_type of the instance
  now,     \* the clock
  log,     \* what the server has logged, in order; a row is known by its place
  gone,    \* the rows the server has dropped or that were cleared
  cursor,  \* last_cursor; 0 is the time before all rows, 7 days back
  round,   \* worker -> its round
  faults,  \* faults so far
  settled  \* ghost: the rows that were stored, or skipped one by one as impossible
           \* to store, or left out by a mongo or redis read that failed or was cut

server == <<kind, now, log, gone>>
vars   == <<kind, now, log, gone, cursor, round, faults, settled>>

Init ==
  /\ kind \in Kinds
  /\ now = PerSecond
  /\ log = << >>
  /\ gone = {}
  /\ cursor = 0
  /\ round = [r \in Rounds |-> Idle]
  /\ faults = 0
  /\ settled = {}

Fault == faults < MaxFaults /\ faults' = faults + 1

-----------------------------------------------------------------------------
(* The server.                                                             *)

Present == DOMAIN log \ gone

Tick ==
  /\ now < MaxNow
  /\ now' = now + 1
  /\ UNCHANGED <<kind, log, gone, cursor, round, faults, settled>>

Log ==
  /\ Len(log) < MaxRows
  /\ \E db \in IF kind = "mongo" THEN Dbs ELSE {NoDb}, fits \in BOOLEAN :
       log' = Append(log, [at   |-> IF kind = "redis" THEN Floor(now) ELSE now,
                           db   |-> db,
                           fits |-> fits])
  /\ UNCHANGED <<kind, now, gone, cursor, round, faults, settled>>

\* system.profile and SLOWLOG keep the newest entries only.
Evict ==
  /\ kind \in {"mongo", "redis"}
  /\ \E p \in Present :
       /\ \A q \in Present : p <= q
       /\ gone' = gone \cup {p}
  /\ UNCHANGED <<kind, now, log, cursor, round, faults, settled>>

\* TRUNCATE TABLE mysql.slow_log, every night.
Clear ==
  /\ kind = "mysql"
  /\ Present # {}
  /\ gone' = DOMAIN log
  /\ UNCHANGED <<kind, now, log, cursor, round, faults, settled>>

-----------------------------------------------------------------------------
(* A round: collect_detail.                                                *)

InRound(r, pc) == round[r].pc = pc

Begin(r) ==
  /\ InRound(r, "idle")
  /\ round' = [round EXCEPT ![r] =
       [Idle EXCEPT !.pc   = "read",
                    !.from = IF kind = "mysql" THEN Floor(cursor) ELSE cursor,
                    !.end  = IF kind = "mysql" THEN Floor(now) ELSE now,
                    !.dbs  = IF kind = "mongo" THEN Dbs ELSE {}]]
  /\ UNCHANGED <<server, cursor, faults, settled>>

\* Slip: no upper bound, so that a round sees what is logged while it lasts.
Window_open(r) == {p \in Present : round[r].from < log[p].at}

\* The rows the round asks for.
Window(r) == {p \in Present : round[r].from < log[p].at /\ log[p].at <= round[r].end}

\* B could be the beginning of S by time; rows of one time come in any order.
Earliest(B, S) ==
  /\ B \subseteq S
  /\ Cardinality(B) <= Limit
  /\ \A p \in B, q \in S \ B : log[p].at <= log[q].at

Complete(B, S) == Cardinality(B) = Limit \/ B = S

\* update_max_cursor, for all rows of B.
Later(t, B) ==
  CHOOSE m \in {t} \cup {log[p].at : p \in B} :
    m >= t /\ \A p \in B : m >= log[p].at

\* Slip: the first batch is taken for all there is.
ReadMySQL_once(r) ==
  /\ kind = "mysql"
  /\ InRound(r, "read")
  /\ \E B \in SUBSET Window(r) :
       /\ Earliest(B, Window(r)) /\ Complete(B, Window(r))
       /\ round' = [round EXCEPT ![r].batch = B,
                                 ![r].max = Later(@, B),
                                 ![r].pc = IF B = {} THEN "commit" ELSE "store"]
  /\ UNCHANGED <<server, cursor, faults, settled>>

ReadMySQL(r) ==
  /\ kind = "mysql"
  /\ InRound(r, "read")
  /\ \E B \in SUBSET Window(r) :
       /\ Earliest(B, Window(r)) /\ Complete(B, Window(r))
       /\ round' = [round EXCEPT ![r].batch = B,
                                 ![r].full = (Cardinality(B) = Limit),
                                 ![r].max = Later(@, B),
                                 ![r].pc = IF B = {} THEN "commit" ELSE "store"]
  /\ UNCHANGED <<server, cursor, faults, settled>>

\* The engine catches the error: the result has no rows, as if nothing were left.
ReadMySQLFails(r) ==
  /\ kind = "mysql"
  /\ InRound(r, "read")
  /\ Fault
  /\ round' = [round EXCEPT ![r].pc = "commit"]
  /\ UNCHANGED <<server, cursor, settled>>

\* One database.  When reading it fails, what was read of it before stays.
ReadMongo(r) ==
  /\ kind = "mongo"
  /\ InRound(r, "read")
  /\ \E db \in round[r].dbs :
       LET S == {p \in Window(r) : log[p].db = db}
       IN \E B \in SUBSET S :
            /\ Earliest(B, S)
            /\ \/ Complete(B, S) /\ UNCHANGED faults
               \/ Fault
            /\ settled' = settled \cup (S \ B)
            /\ round' = [round EXCEPT ![r].batch = @ \cup B,
                                      ![r].max = Later(@, B),
                                      ![r].dbs = @ \ {db},
                                      ![r].pc = IF round[r].dbs = {db}
                                                THEN "store" ELSE "read"]
  /\ UNCHANGED <<server, cursor>>

\* The newest Limit entries, of which those after the cursor are taken.
ReadRedis(r) ==
  /\ kind = "redis"
  /\ InRound(r, "read")
  /\ LET new == {p \in Present : log[p].at > round[r].from}
         B   == {p \in new : Cardinality({q \in Present : q > p}) < Limit}
     IN /\ settled' = settled \cup (new \ B)
        /\ round' = [round EXCEPT ![r].batch = B,
                                  ![r].max = Later(@, B),
                                  ![r].pc = "store"]
  /\ UNCHANGED <<server, cursor, faults>>

\* _insert_detail_rows, chunk by chunk; a row that does not fit is skipped.  After a
\* full batch the round reads on, from the second of its last row.
StoreMySQL(r) ==
  /\ kind = "mysql"
  /\ InRound(r, "store")
  /\ \E C \in SUBSET round[r].batch :
       /\ C # {}
       /\ settled' = settled \cup C
       /\ round' = [round EXCEPT ![r].batch = @ \ C,
                                 ![r].from = IF C = round[r].batch
                                             THEN Floor(round[r].max) ELSE @,
                                 ![r].pc = IF C # round[r].batch THEN "store"
                                          ELSE IF round[r].full THEN "read"
                                          ELSE "commit"]
  /\ UNCHANGED <<server, cursor, faults>>

\* One bulk_create, in one transaction; a row that does not fit ends the round.
StoreOther(r) ==
  /\ kind \in {"mongo", "redis"}
  /\ InRound(r, "store")
  /\ IF \A p \in round[r].batch : log[p].fits
     THEN /\ settled' = settled \cup round[r].batch
          /\ round' = [round EXCEPT ![r].batch = {}, ![r].pc = "commit"]
     ELSE /\ round' = [round EXCEPT ![r] = Idle]
          /\ UNCHANGED settled
  /\ UNCHANGED <<server, cursor, faults>>

\* commit: only when there was something new.
Commit(r) ==
  /\ InRound(r, "commit")
  /\ cursor' = IF round[r].max > 0 THEN Stored(round[r].max) ELSE cursor
  /\ round' = [round EXCEPT ![r] = Idle]
  /\ UNCHANGED <<server, faults, settled>>

\* The timeout of the task, an error outside the reads, or the worker dies.
BreakOff(r) ==
  /\ ~ InRound(r, "idle")
  /\ Fault
  /\ round' = [round EXCEPT ![r] = Idle]
  /\ UNCHANGED <<server, cursor, settled>>

-----------------------------------------------------------------------------
RoundStep(r) ==
  \/ ReadMySQL(r) \/ ReadMongo(r) \/ ReadRedis(r)
  \/ StoreMySQL(r) \/ StoreOther(r) \/ Commit(r)

Next ==
  \/ Tick \/ Log \/ Evict \/ Clear
  \/ \E r \in Rounds : Begin(r) \/ RoundStep(r) \/ ReadMySQLFails(r) \/ BreakOff(r)

Spec == Init /\ [][Next]_vars

-----------------------------------------------------------------------------
(* Properties.                                                             *)

\* The cursor is never ahead of the clock by more than its rounding: base.py's > would
\* miss all that comes.
TypeOK ==
  /\ kind \in Kinds
  /\ now \in Time
  /\ log \in Seq(Entry) /\ Len(log) <= MaxRows
  /\ gone \subseteq DOMAIN log
  /\ cursor \in 0..Stored(now)
  /\ round \in [Rounds -> Round]
  /\ faults \in 0..MaxFaults
  /\ settled \subseteq DOMAIN log

Others(p) == DOMAIN log \ {p}

Tied(p) == \E q \in Others(p) : log[q].at = log[p].at

\* Row p comes between another row and what the column makes of that row's time.
RoundedOver(p) ==
  \E q \in Others(p) : log[q].at < log[p].at /\ log[p].at <= Stored(log[q].at)

\* What is before the cursor has been collected and what is after it is still to come
\* (base.py:7, slow_query_cursor.sql:6), but for rows of the same time.
NothingIsPassedOver ==
  \A p \in DOMAIN log : log[p].at < cursor /\ ~ Tied(p) => p \in settled \cup gone

\* What the cursor has passed has been stored (or skipped as impossible to store), unless
\* the server dropped it first or a read left it out, however rounds overlap and break
\* off.  Excepted are rows of the same time as another, of which the strict comparison
\* (base.py:122) may miss the later one, and rows that the cursor's column rounds over.
PassedWereCollected ==
  \A p \in DOMAIN log :
    log[p].at <= cursor /\ ~ Tied(p) /\ ~ RoundedOver(p) => p \in settled \cup gone

\* A round whose reads did not fail has stored, by the time it commits, all that was
\* logged before its window ended: mysql_collector.py reads batch after batch until
\* one is not full, over a bound that it moves back to a whole second.  Excepted are the
\* rows of the property before, which a cursor of an earlier round may have passed over.
RoundsAreThorough ==
  \A r \in Rounds : kind = "mysql" /\ faults = 0 /\ InRound(r, "commit") =>
    \A p \in DOMAIN log :
      log[p].at < round[r].end /\ ~ Tied(p) /\ ~ RoundedOver(p) => p \in settled \cup gone
=============================================================================
