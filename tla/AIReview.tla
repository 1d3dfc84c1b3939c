------------------------------ MODULE AIReview ------------------------------
(***************************************************************************)
(* The AI review of a ticket's statements when they are checked: in        *)
(* batches, each answered by the cache or by one call, and statement by    *)
(* statement where that call gave nothing.  It never blocks: what fails    *)
(* leaves "unknown" on the row.  A statement is a masked statement, which  *)
(* is all that the service and the cache are told.                         *)
(***************************************************************************)
EXTENDS Naturals, Sequences

CONSTANTS
  ReviewModels,  \* what may be configured when a check begins
  Checks,        \* requests that check a ticket
  Sqls,          \* masked statements
  Batch,         \* BATCH_SIZE
  MaxReviewed,   \* MAX_STATEMENTS
  NoModelYet, NoSql,
  MaxChecks, MaxScript  \* bounds: checks, statements of a ticket

ASSUME ReviewAssumption ==
  /\ {Batch, MaxReviewed, MaxChecks, MaxScript} \subseteq Nat /\ Batch > 0
  /\ NoModelYet \notin ReviewModels

\* What stands where no verdict does.
Other(word) == [by |-> NoModelYet, of |-> word]
Unknown     == Other("unknown")   \* AI_REVIEW_FALLBACK, or nothing came
Missing     == Other("missing")   \* the answer to the batch has no item for the statement
Broken      == Other("broken")    \* the context of a statement asked for alone could not be collected
Unmarked    == Other("unmarked")

\* What the service says of a statement, told by whom and of what it is; the level is left out.
Verdict    == [by : ReviewModels, of : Sqls \cup {NoSql}]
Mark       == Verdict \cup {Unknown, Unmarked}
SeqUpTo(S, n) == UNION {[1..k -> S] : k \in 0..n}
Batches    == SeqUpTo(Sqls, Batch) \ {<<>>}
BatchKey   == ReviewModels \X Batches
NothingKept == [key \in {} |-> <<>>]

VARIABLES
  check,     \* request -> its review, and then the ticket that was submitted
  kept,      \* the cache: model and statements -> their levels
  checks

reviewVars == <<check, kept, checks>>

CheckRec ==
  [pc : {"idle", "batch", "call", "single", "attach", "told", "submitted"}, sqls : SeqUpTo(Sqls, MaxScript),
   model : ReviewModels \cup {NoModelYet}, at : 0..MaxScript,
   results : SeqUpTo(Verdict \cup {Unknown, Missing, Broken}, Batch),
   marks : SeqUpTo(Mark, MaxScript), checked : SUBSET Sqls]
NoCheck == [pc |-> "idle", sqls |-> <<>>, model |-> NoModelYet, at |-> 0, results |-> <<>>, marks |-> <<>>,
            checked |-> {}]


ReviewTypeOK ==
  /\ check \in [Checks -> CheckRec]
  /\ DOMAIN kept \subseteq BatchKey /\ \A key \in DOMAIN kept : kept[key] \in SeqUpTo(Verdict \cup {Unknown}, Batch)
  /\ checks \in 0..MaxChecks

-----------------------------------------------------------------------------
(* What the service answers.                                               *)

Item  == [index : 0..Batch, verdict : Verdict]

\* Answers to a batch: items for some of its statements, in any order, some of them twice, or for none.
Answers(model, sqls) ==
  {[k \in 1..Len(places) |->
      [index   |-> places[k],
       verdict |-> [by |-> model, of |-> IF places[k] < Len(sqls) THEN sqls[places[k] + 1] ELSE NoSql]]] :
     places \in SeqUpTo(0..Batch, Batch)}

\* Slip: the items are taken in the order of the answer.
parse_review_batch_inorder(items, n) ==
  [i \in 1..n |-> IF i <= Len(items) THEN items[i].verdict ELSE Missing]

\* For each statement the first item with its index; indices out of range are dropped.
parse_review_batch(items, n) ==
  [i \in 1..n |-> LET mine == {k \in 1..Len(items) : items[k].index = i - 1} IN
                    IF mine = {} THEN Missing ELSE items[CHOOSE k \in mine : \A l \in mine : k <= l].verdict]

NoItems(sqls) == [i \in 1..Len(sqls) |-> Missing]

-----------------------------------------------------------------------------
(* The review: run_ai_review and review_statements.                        *)

Eligible(c)   == IF Len(check[c].sqls) < MaxReviewed THEN Len(check[c].sqls) ELSE MaxReviewed
BatchEnd(c)   == IF check[c].at + Batch < Eligible(c) THEN check[c].at + Batch ELSE Eligible(c)
BatchOf(c)    == SubSeq(check[c].sqls, check[c].at + 1, BatchEnd(c))
KeyOf(c)      == <<check[c].model, BatchOf(c)>>

\* The switch is on and the service configured; the client is made, and keeps its model.  Statements
\* beyond the limit are marked as skipped.
run_ai_review(c) ==
  /\ check[c].pc \in {"idle", "submitted"} /\ checks < MaxChecks
  /\ checks' = checks + 1
  /\ \E sqls \in SeqUpTo(Sqls, MaxScript) \ {<<>>}, model \in ReviewModels :
       check' = [check EXCEPT ![c] =
         [NoCheck EXCEPT !.pc = "batch", !.sqls = sqls, !.model = model,
          !.marks = [i \in 1..Len(sqls) |-> IF i <= MaxReviewed THEN Unmarked ELSE Unknown]]]
  /\ UNCHANGED kept

SetResults(c, results, pc) == check' = [check EXCEPT ![c].results = results, ![c].pc = pc]

\* The whole batch is in the cache ...
Hit(c) ==
  /\ check[c].pc = "batch" /\ check[c].at < Eligible(c)
  /\ KeyOf(c) \in DOMAIN kept
  /\ SetResults(c, kept[KeyOf(c)], "attach")
  /\ UNCHANGED <<kept, checks>>

\* ... or it is not, or not any more: after an hour it is forgotten.
Miss(c) ==
  /\ check[c].pc = "batch" /\ check[c].at < Eligible(c)
  /\ SetResults(c, <<>>, "call")
  /\ UNCHANGED <<kept, checks>>

\* An answer that can be read.
AskBatch(c) ==
  /\ check[c].pc = "call"
  /\ \E items \in Answers(check[c].model, BatchOf(c)) :
       SetResults(c, parse_review_batch(items, Len(BatchOf(c))), "single")
  /\ UNCHANGED <<kept, checks>>

\* No answer, or none that can be read.
AskBatchFails(c) ==
  /\ check[c].pc = "call"
  /\ SetResults(c, NoItems(BatchOf(c)), "single")
  /\ UNCHANGED <<kept, checks>>

Lacking(c) == {i \in 1..Len(check[c].results) : check[c].results[i] = Missing}
FirstLacking(c) == CHOOSE i \in Lacking(c) : \A j \in Lacking(c) : i <= j

\* A statement that lacks a result is asked for alone; the client turns what fails into the fallback.
AskOne(c) ==
  /\ check[c].pc = "single" /\ Lacking(c) # {}
  /\ \E verdict \in {Unknown, [by |-> check[c].model, of |-> BatchOf(c)[FirstLacking(c)]]} :
       SetResults(c, [check[c].results EXCEPT ![FirstLacking(c)] = verdict], "single")
  /\ UNCHANGED <<kept, checks>>

\* Every result is there: the batch is kept, the fallbacks as well, unless one is broken.
KeepBatch(c) ==
  /\ check[c].pc = "single" /\ Lacking(c) = {}
  /\ kept' = IF \E i \in 1..Len(check[c].results) : check[c].results[i] = Broken THEN kept
             ELSE [key \in DOMAIN kept \cup {KeyOf(c)} |-> IF key = KeyOf(c) THEN check[c].results ELSE kept[key]]
  /\ SetResults(c, check[c].results, "attach")
  /\ UNCHANGED checks

MarkBatch(c, levels) ==
  check' = [check EXCEPT ![c].pc = "batch", ![c].at = BatchEnd(c), ![c].results = <<>>,
                         ![c].marks = [i \in 1..Len(@) |-> IF i \in (check[c].at + 1)..BatchEnd(c)
                                                         THEN levels[i - check[c].at] ELSE @[i]]]

Attach(c) ==
  /\ check[c].pc = "attach"
  /\ MarkBatch(c, [i \in 1..Len(check[c].results) |->
                    IF check[c].results[i] = Broken THEN Unknown ELSE check[c].results[i]])
  /\ UNCHANGED <<kept, checks>>

\* The context of the batch, or of a statement, could not be collected.
ContextFails(c) ==
  /\ check[c].pc = "call"
  /\ MarkBatch(c, [i \in 1..Len(BatchOf(c)) |-> Unknown])
  /\ UNCHANGED <<kept, checks>>

OneContextFails(c) ==
  /\ check[c].pc = "single" /\ Lacking(c) # {}
  /\ SetResults(c, [check[c].results EXCEPT ![FirstLacking(c)] = Broken], "single")
  /\ UNCHANGED <<kept, checks>>

Told(c) ==
  /\ check[c].pc = "batch" /\ check[c].at >= Eligible(c)
  /\ check' = [check EXCEPT ![c].pc = "told", ![c].at = 0]
  /\ UNCHANGED <<kept, checks>>

-----------------------------------------------------------------------------
(* The submission of the ticket.                                           *)

\* The statements may have changed.  Those that are checked again without the service get the marks
\* of the rows that the page sends back, by their text; of several rows the last counts.
_merge_ai_review_fields(c, sqls) ==
  [i \in 1..Len(sqls) |->
     LET same == {j \in 1..Len(check[c].sqls) : check[c].sqls[j] = sqls[i]} IN
       IF same = {} THEN Unmarked ELSE check[c].marks[CHOOSE j \in same : \A k \in same : k <= j]]

SubmitChecked(c) ==
  /\ check[c].pc = "told"
  /\ \E sqls \in SeqUpTo(Sqls, MaxScript) \ {<<>>} :
       check' = [check EXCEPT ![c] =
         [@ EXCEPT !.pc = "submitted", !.sqls = sqls, !.marks = _merge_ai_review_fields(c, sqls),
                   !.checked = {check[c].sqls[j] : j \in 1..Len(check[c].sqls)}]]
  /\ UNCHANGED <<kept, checks>>

-----------------------------------------------------------------------------
ReviewInit ==
  /\ check = [c \in Checks |-> NoCheck]
  /\ kept = NothingKept
  /\ checks = 0

CheckStep(c) ==
  \/ run_ai_review(c) \/ Hit(c) \/ Miss(c) \/ AskBatch(c) \/ AskBatchFails(c) \/ AskOne(c) \/ KeepBatch(c)
  \/ Attach(c) \/ ContextFails(c) \/ OneContextFails(c) \/ Told(c) \/ SubmitChecked(c)

ReviewNext == \E c \in Checks : CheckStep(c)

ReviewSpec == ReviewInit /\ [][ReviewNext]_reviewVars

-----------------------------------------------------------------------------
(* Properties.                                                             *)

\* Whatever the batches, the cache, missing, repeated or disordered items, statements asked for alone
\* and edits before the submission did: a verdict on a row is what the model of the check has said of
\* that very statement; a check leaves no row without a mark, and a ticket none of those it checked.
VerdictsAreTheModels ==
  \A c \in Checks : \A i \in 1..Len(check[c].sqls) :
    LET mark == check[c].marks[i] IN
      /\ mark \in {Unknown, Unmarked, [by |-> check[c].model, of |-> check[c].sqls[i]]}
      /\ check[c].pc = "told" => mark # Unmarked
      /\ check[c].pc = "submitted" /\ check[c].sqls[i] \in check[c].checked => mark # Unmarked
=============================================================================
