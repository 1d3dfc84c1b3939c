-------------------------- MODULE SqlWorkflowCalm --------------------------
(***************************************************************************)
(* The ticket on a calm day: the requests about one ticket come one after  *)
(* the other.  That is all that people can see to; the schedule may fire   *)
(* and a worker may take a task at any point of a request.  Whether that   *)
(* happened to a request other than a review is remembered in the ghost    *)
(* variable crossed, and what the handlers promise unless it did is stated *)
(* here; module SqlWorkflow states what they keep without any discipline.  *)
(***************************************************************************)
EXTENDS SqlWorkflow

VARIABLE
  crossed     \* ghost: a task was under way while a submission, an execute or a
              \* timing request was in flight

calmVars == <<vars, crossed>>

Busy == {h \in Req : ~ At(h, "idle")}
Reviewing == {h \in Req : req[h].pc \in {"audit_save", "audit_unschedule", "audit_status"}}
TaskUnderWay == \E t \in Task : task[t].st = "queued" \/ task[t].st \in Active

OneAtATime == Cardinality(Busy) <= 1
Crossing == TaskUnderWay /\ ~ (Busy \subseteq Reviewing)

CalmInit == Init /\ crossed = FALSE
CalmNext == Next /\ OneAtATime' /\ crossed' = (crossed \/ Crossing')
CalmSpec == CalmInit /\ [][CalmNext]_calmVars

-----------------------------------------------------------------------------
(* Properties.                                                             *)

\* It takes a crossing to run the SQL twice: can_execute lets go of its lock before the
\* post marks the ticket (api_workflow.py:410-413), so a task that starts in between is
\* marked queuing again.  execute_sql.py:21 reads the row under its lock "to prevent
\* repeated execution".
RunsOnceUnlessCrossed == crossed \/ AtMostOneRun

\* Without a crossing the stored result is that of a task that ran the SQL: a task that
\* execute refused raises (execute_sql.py:24), and its hook must find the ticket closed.
ResultIsOfRunUnlessCrossed == crossed \/ ResultIsOfRun

\* Without a crossing, once a rejection or a withdrawal is through, no task starts the SQL any more, also
\* not one that a schedule put in the queue at the last moment.
Cancelled == audit.status \in {"rejected", "aborted"} /\ Busy = {}
CancelledNeverStarts == [][~ crossed' /\ Cancelled => ran' = ran]_calmVars

\* The review implements the abstract chain: the groups sign in turn, one at a
\* time, the last signature grants, a refusal is final (SUPPORTED_OPERATION_GRID
\* offers no operation on a rejected or aborted ticket).
verdictOf ==
  CASE audit.status = "none"    -> "new"
    [] audit.status = "waiting" -> "open"
    [] audit.status = "passed"  -> "granted"
    [] OTHER                    -> "refused"

stageOf ==
  CASE audit.status = "waiting"                 -> ChainIndex(audit.current) - 1
    [] audit.status = "passed" /\ ~ autoPassed -> Len(Chain)
    [] OTHER                                    -> 0

Review == INSTANCE ApprovalChain
            WITH verdict <- verdictOf, stage <- stageOf, signed <- signed

SignaturesInTurn == Review!ChainSpec
=============================================================================
