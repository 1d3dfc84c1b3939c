---------------------------- MODULE Aggregation -----------------------------
(***************************************************************************)
(* The aggregation of slow queries: every few minutes a round counts all   *)
(* details anew and writes a summary row for each fingerprint, while the   *)
(* collectors store details and the daily cleaning deletes old rows of     *)
(* both tables.  A lock in the cache, which lapses by itself, is to keep   *)
(* two rounds apart.  One type of instance stands for the four.            *)
(*                                                                         *)
(* version, told and overran are ghosts, read by properties only.          *)
(***************************************************************************)
EXTENDS Naturals, FiniteSets

CONSTANTS
  Aggregators,  \* workers that may run a round at the same time
  Prints,       \* fingerprints: sql_hash
  Timeout,      \* of the task and of the lock, in ticks
  Retention,    \* ticks a row is kept
  MaxDetails, MaxClock, MaxCleanings, MaxBreaks   \* bounds

ASSUME AggregationAssumption ==
  /\ Timeout \in Nat \ {0} /\ Retention \in Nat
  /\ MaxDetails \in Nat /\ MaxClock \in Nat /\ MaxCleanings \in Nat /\ MaxBreaks \in Nat

Clock  == 0..MaxClock
Detail == [id : 1..MaxDetails, print : Prints, seen : Clock, made : Clock]

\* A summary: how many details, the last time one was seen, and whether the percentile is there.
Summary == [count : 0..MaxDetails, last : Clock, p95 : BOOLEAN]
NoSummary == [count |-> 0, last |-> 0, p95 |-> FALSE]

\* A round: it counts, reads the times for the percentile, and writes.  at is the version it counted.
AggRound == [pc : {"idle", "count", "times", "upsert"}, age : 0..Timeout,
             stats : [Prints -> Summary], at : Nat]
NoRound  == [pc |-> "idle", age |-> 0, stats |-> [f \in Prints |-> NoSummary], at |-> 0]

VARIABLES
  clock,
  details,    \* the rows of the detail table
  stored,     \* details stored so far
  summary,    \* fingerprint -> its row
  lock,       \* ticks until the lock lapses, 0 if it is free
  agg,        \* worker -> its round
  cleaning,   \* what the daily cleaning is at, and its cutoff
  cleanings, breaks,
  version,    \* ghost: changes of the tables from outside of the rounds so far
  told,       \* ghost: the latest version that a round has written
  overran     \* ghost: a round came to its end after its time was up

tables  == <<details, stored, summary>>
aggBounds == <<cleanings, breaks>>
aggVars == <<clock, details, stored, summary, lock, agg, cleaning, cleanings, breaks,
             version, told, overran>>

AggTypeOK ==
  /\ clock \in Clock /\ stored \in 0..MaxDetails
  /\ details \subseteq Detail /\ Cardinality(details) <= stored
  /\ summary \in [Prints -> Summary]
  /\ lock \in 0..Timeout
  /\ agg \in [Aggregators -> AggRound]
  /\ cleaning \in [pc : {"idle", "details", "summaries"}, cutoff : Clock]
  /\ cleanings \in 0..MaxCleanings /\ breaks \in 0..MaxBreaks
  /\ version \in Nat /\ told \in 0..version /\ overran \in BOOLEAN

-----------------------------------------------------------------------------
(* A round: aggregate_all_slowquery.                                       *)

Of(f) == {d \in details : d.print = f}

Latest(times) == CHOOSE t \in times : \A u \in times : u <= t

Stat(f) ==
  IF Of(f) = {} THEN NoSummary
  ELSE [count |-> Cardinality(Of(f)), last |-> Latest({d.seen : d \in Of(f)}), p95 |-> FALSE]

\* Slip: the lock lapses before the task is killed.
LockTimeout_short == Timeout - 1

\* AGGREGATE_LOCK_TIMEOUT is the timeout of the task.
LockTimeout == Timeout

\* cache.add; a task that finds the lock held does nothing.
aggregate_all_slowquery(w) ==
  /\ agg[w].pc = "idle" /\ lock = 0
  /\ lock' = LockTimeout
  /\ agg' = [agg EXCEPT ![w] = [NoRound EXCEPT !.pc = "count"]]
  /\ UNCHANGED <<clock, tables, cleaning, aggBounds, version, told, overran>>

CountDetails(w) ==
  /\ agg[w].pc = "count"
  /\ agg' = [agg EXCEPT ![w].pc = "times", ![w].stats = [f \in Prints |-> Stat(f)], ![w].at = version]
  /\ UNCHANGED <<clock, tables, lock, cleaning, aggBounds, version, told, overran>>

\* The times are read by a second query, which may find other rows: no percentile is 0.
calculate_p95_all(w) ==
  /\ agg[w].pc = "times"
  /\ agg' = [agg EXCEPT ![w].pc = "upsert",
                        ![w].stats = [f \in Prints |-> [agg[w].stats[f] EXCEPT !.p95 = Of(f) # {}]]]
  /\ UNCHANGED <<clock, tables, lock, cleaning, aggBounds, version, told, overran>>

Counted(w) == {f \in Prints : agg[w].stats[f].count > 0}

Upsert(w, rows) ==
  summary' = [f \in Prints |-> IF f \in rows THEN agg[w].stats[f] ELSE summary[f]]

Larger(m, n) == IF m >= n THEN m ELSE n

\* cache.delete, whoever holds the lock by now.
Finish(w) ==
  /\ lock' = 0
  /\ agg' = [agg EXCEPT ![w] = NoRound]
  /\ overran' = (overran \/ agg[w].age = Timeout)

\* Fingerprints without details have no row written, and keep the one they have.
bulk_upsert(w) ==
  /\ agg[w].pc = "upsert"
  /\ Upsert(w, Counted(w))
  /\ told' = Larger(told, agg[w].at)
  /\ Finish(w)
  /\ UNCHANGED <<clock, details, stored, cleaning, aggBounds, version>>

\* The statement for all rows fails; row by row, some fail as well.
upsert_row_by_row(w) ==
  /\ agg[w].pc = "upsert" /\ breaks < MaxBreaks
  /\ \E rows \in SUBSET Counted(w) : Upsert(w, rows)
  /\ Finish(w)
  /\ breaks' = breaks + 1
  /\ UNCHANGED <<clock, details, stored, cleaning, cleanings, version, told>>

\* An error is logged, and the lock is deleted all the same.
AggregateFails(w) ==
  /\ agg[w].pc \in {"count", "times"} /\ breaks < MaxBreaks
  /\ Finish(w)
  /\ breaks' = breaks + 1
  /\ UNCHANGED <<clock, tables, cleaning, cleanings, version, told>>

\* The worker dies, or is killed once its time is up, as soon as the cluster sees it: the
\* lock stays.
WorkerKilled(w) ==
  /\ agg[w].pc # "idle"
  /\ \/ agg[w].age = Timeout /\ UNCHANGED breaks
     \/ breaks < MaxBreaks /\ breaks' = breaks + 1
  /\ agg' = [agg EXCEPT ![w] = NoRound]
  /\ UNCHANGED <<clock, tables, lock, cleaning, cleanings, version, told, overran>>

-----------------------------------------------------------------------------
(* The collectors, the cleaning and the time.                              *)

\* A collector stores a row of some time before.
StoreDetail ==
  /\ stored < MaxDetails
  /\ \E f \in Prints, seen \in 0..clock :
       details' = details \cup {[id |-> stored + 1, print |-> f, seen |-> seen, made |-> clock]}
  /\ stored' = stored + 1 /\ version' = version + 1
  /\ UNCHANGED <<clock, summary, lock, agg, cleaning, aggBounds, told, overran>>

\* cleanup_slowquery_data_task: details by the time they were stored, then summaries by the
\* time they were last seen.
BeginCleaning ==
  /\ cleaning.pc = "idle" /\ cleanings < MaxCleanings /\ clock >= Retention
  /\ cleaning' = [pc |-> "details", cutoff |-> clock - Retention]
  /\ cleanings' = cleanings + 1
  /\ UNCHANGED <<clock, tables, lock, agg, breaks, version, told, overran>>

\* _batch_delete: a batch, here of one row.
CleanDetail ==
  /\ cleaning.pc = "details"
  /\ \E d \in details : d.made < cleaning.cutoff /\ details' = details \ {d}
  /\ version' = version + 1
  /\ UNCHANGED <<clock, stored, summary, lock, agg, cleaning, aggBounds, told, overran>>

\* The last batch was short; or it failed, which is logged.
DetailsCleaned ==
  /\ cleaning.pc = "details"
  /\ cleaning' = [pc |-> "summaries", cutoff |-> clock - Retention]
  /\ UNCHANGED <<clock, tables, lock, agg, aggBounds, version, told, overran>>

\* A failure leaves the rows of some fingerprints.
CleanSummaries ==
  /\ cleaning.pc = "summaries"
  /\ \E left \in SUBSET Prints :
       summary' = [f \in Prints |-> IF f \notin left /\ summary[f].last < cleaning.cutoff
                                    THEN NoSummary ELSE summary[f]]
  /\ cleaning' = [pc |-> "idle", cutoff |-> 0]
  /\ version' = version + 1
  /\ UNCHANGED <<clock, details, stored, lock, agg, aggBounds, told, overran>>

\* A round whose time is up has the age Timeout until it is killed.
AggTick ==
  /\ clock < MaxClock
  /\ clock' = clock + 1
  /\ agg' = [w \in Aggregators |-> IF agg[w].pc = "idle" THEN agg[w]
                                    ELSE [agg[w] EXCEPT !.age = IF @ < Timeout THEN @ + 1 ELSE @]]
  /\ lock' = IF lock = 0 THEN 0 ELSE lock - 1
  /\ UNCHANGED <<tables, cleaning, aggBounds, version, told, overran>>

-----------------------------------------------------------------------------
AggInit ==
  /\ clock = 0 /\ details = {} /\ stored = 0
  /\ summary = [f \in Prints |-> NoSummary]
  /\ lock = 0 /\ agg = [w \in Aggregators |-> NoRound]
  /\ cleaning = [pc |-> "idle", cutoff |-> 0]
  /\ cleanings = 0 /\ breaks = 0 /\ version = 0 /\ told = 0 /\ overran = FALSE

AggStep(w) ==
  \/ aggregate_all_slowquery(w) \/ CountDetails(w) \/ calculate_p95_all(w)
  \/ bulk_upsert(w) \/ upsert_row_by_row(w) \/ AggregateFails(w) \/ WorkerKilled(w)

AggNext ==
  \/ \E w \in Aggregators : AggStep(w)
  \/ StoreDetail \/ BeginCleaning \/ CleanDetail \/ DetailsCleaned \/ CleanSummaries \/ AggTick

AggSpec == AggInit /\ [][AggNext]_aggVars

-----------------------------------------------------------------------------
\* Two rounds run together only from the time the elder's is up until it is killed, and never
\* if such a round is always killed before it ends: the lock does not lapse under a round that
\* has time left, nor is it deleted by another.
RoundsAreAlone ==
  ~overran =>
    \A v, w \in Aggregators :
      v # w /\ agg[v].pc # "idle" /\ agg[w].pc # "idle" => Timeout \in {agg[v].age, agg[w].age}

\* Once a round has counted the tables as they are and written its rows, no round puts older
\* numbers in their place: summaries, their percentiles read by a query of their own included,
\* and details agree until something changes again.
SummariesTellDetails ==
  told = version /\ ~overran =>
    \A f \in Prints : Of(f) # {} => summary[f] = [Stat(f) EXCEPT !.p95 = TRUE]
=============================================================================
