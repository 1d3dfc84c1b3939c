---------------------------- MODULE SqlWorkflow ----------------------------
(***************************************************************************)
(* One SQL release ticket, from submission to its recorded result.         *)
(*                                                                         *)
(* Three kinds of process touch the ticket's rows, and MySQL runs in       *)
(* autocommit, so every save is a step of its own:                         *)
(*                                                                         *)
(*   - web requests (Req): a request reads the rows into memory, decides,  *)
(*     and writes back what it holds, one save at a time;                  *)
(*   - the django-q scheduler and its workers, which pop a task from the   *)
(*     Redis queue (a popped task is gone from the queue) and run          *)
(*     execute_sql.execute; the task has no timeout (-1), so one whose     *)
(*     engine never answers holds its worker for ever;                     *)
(*   - the django-q monitor, one process, which runs the hook              *)
(*     execute_callback for every finished task, failed ones included.     *)
(*                                                                         *)
(* The ghost variables signed, autoPassed and ran record what happened and *)
(* are read by properties only.                                            *)
(***************************************************************************)
EXTENDS AuditV2, FiniteSets

CONSTANTS
  Req,         \* web requests that can be in flight together
  Executors,   \* users for whom can_execute's permission part holds
  Exports,     \* the values is_offline_export may have, a subset of BOOLEAN
  Workers,     \* django-q workers that tasks of this ticket may hold together
  MaxAsks,     \* bound: execute and timing requests that pass their checks
  MaxDeaths    \* bound: processes that die in the middle of their work

ASSUME BoundAssumption ==
  /\ Req # {}
  /\ Executors \subseteq Users
  /\ Exports \subseteq BOOLEAN
  /\ Workers \in Nat \ {0}
  /\ MaxAsks \in Nat
  /\ MaxDeaths \in Nat

\* Each accepted execute or timing request leads to at most one task.
Task == 1..MaxAsks

Status == {"absent", "workflow_manreviewing", "workflow_autoreviewwrong",
           "workflow_review_pass", "workflow_abort", "workflow_timingtask",
           "workflow_queuing", "workflow_executing", "workflow_finish",
           "workflow_exception"}

PC == {"idle", "submit_status", "audit_save", "audit_unschedule", "audit_status",
       "execute_mark", "execute_finish", "execute_unschedule", "execute_enqueue",
       "timing_save"}

Request == [pc : PC, action : WorkflowAction, audit : AuditRow, seen : Status]

\* A request that is not being served.
Idle == [pc |-> "idle", action |-> "pass", audit |-> NoAudit, seen |-> "absent"]

\* free    not created            queued   waiting in Redis
\* running past execute's guard   copied   export stored, workflow row re-read
\* returned, refused  ended, or stopped by execute's guard: its outcome is with the
\*         monitor (ok: no error, no warning; to django-q a refused task failed)
\* hook     execute_callback has checked the status and not saved yet
\* closed   hook done, or refused by its own check
\* lost     its process died
TaskState == {"free", "queued", "running", "copied", "returned", "refused",
              "hook", "closed", "lost"}

TaskRec == [st : TaskState, ok : BOOLEAN, copy : Status]
NewTask == [st |-> "free", ok |-> FALSE, copy |-> "absent"]

VARIABLES
  status,     \* sql_workflow.status; "absent" before the row exists
  export,     \* sql_workflow.is_offline_export
  audit,      \* the ticket's workflow_audit row
  armed,      \* its one-shot django-q Schedule row is still to fire
  req,        \* request -> what it is doing and the copies it holds
  task,       \* task id -> the task
  result,     \* the task whose result execute_result holds, 0 for none
  asks,       \* execute and timing requests accepted so far
  deaths,     \* processes that died so far
  signed,     \* ghost: the groups whose node somebody passed
  autoPassed, \* ghost: the system passed the ticket at submission
  ran         \* ghost: the tasks that ran the ticket's SQL

row     == <<status, export>>
ghosts  == <<signed, autoPassed, ran>>
bounds  == <<asks, deaths>>
vars    == <<status, export, audit, armed, req, task, result, asks, deaths,
             signed, autoPassed, ran>>

Init ==
  /\ status = "absent"
  /\ export \in Exports
  /\ audit = NoAudit
  /\ armed = FALSE
  /\ req = [h \in Req |-> Idle]
  /\ task = [t \in Task |-> NewTask]
  /\ result = 0
  /\ asks = 0
  /\ deaths = 0
  /\ signed = {}
  /\ autoPassed = FALSE
  /\ ran = {}

-----------------------------------------------------------------------------
(* Helpers.                                                                *)

At(h, label) == req[h].pc = label
Goto(h, label) == req' = [req EXCEPT ![h].pc = label]
Done(h) == req' = [req EXCEPT ![h] = Idle]

SetTask(t, st) == task' = [task EXCEPT ![t].st = st]

\* async_task and the scheduler put a new task in the queue.
Enqueue ==
  \E t \in Task :
    /\ task[t].st = "free"
    /\ \A s \in 1..(t - 1) : task[s].st # "free"
    /\ task' = [task EXCEPT ![t].st = "queued"]

\* Definitions marked "Slip" are wrong on purpose; no action uses them.  Each stands
\* in for the definition after it to show which property would notice the mistake.

\* Slip: a failed release may simply be tried again.
CanReleaseFailed ==
  status \in {"workflow_review_pass", "workflow_timingtask", "workflow_exception"}

\* Slip: timed tickets are forgotten.
MayExecuteQueued == status = "workflow_queuing"

\* Slip: execute does not look at the status.
MayExecuteAlways == status # "absent"

\* The statuses from which can_execute and can_timingtask let a request go on ...
CanRelease == status \in {"workflow_review_pass", "workflow_timingtask"}

\* ... and those from which execute lets a task go on.
MayExecute == status \in {"workflow_queuing", "workflow_timingtask"}

-----------------------------------------------------------------------------
(* Submission: WorkflowContentSerializer.create.                           *)

\* The ticket, its content and its audit row, in one transaction.  Exports are
\* never passed by the system.
SubmitCreate(h) ==
  /\ At(h, "idle")
  /\ status = "absent"
  /\ \E auto \in {"reject", "review"} \cup (IF export THEN {} ELSE {"pass"}) :
       /\ audit' = create_audit(auto)
       /\ autoPassed' = (auto = "pass")
  /\ status' = "workflow_manreviewing"
  /\ req' = [req EXCEPT ![h] = [Idle EXCEPT !.pc = "submit_status", !.audit = audit']]
  /\ UNCHANGED <<export, armed, task, result, bounds, signed, ran>>

\* After the transaction: the automatic verdict is copied to the ticket, whose
\* row is saved whole, also when there is no verdict.
SubmitStatus(h) ==
  /\ At(h, "submit_status")
  /\ status' = CASE req[h].audit.status = "rejected" -> "workflow_autoreviewwrong"
                 [] req[h].audit.status = "passed"   -> "workflow_review_pass"
                 [] OTHER                            -> "workflow_manreviewing"
  /\ Done(h)
  /\ UNCHANGED <<export, audit, armed, task, result, bounds, ghosts>>

-----------------------------------------------------------------------------
(* Review: AuditWorkflow.post.                                             *)

\* A cancel is a withdrawal when it comes from the submitter, a rejection when
\* it comes from a reviewer.
ActionOf(u, type) ==
  IF type = "pass" THEN "pass" ELSE IF u = Submitter THEN "abort" ELSE "reject"

\* Read the audit row and the ticket, and check the action on that copy.
AuditRead(h) ==
  /\ At(h, "idle")
  /\ audit.status # "none"
  /\ \E u \in Users, type \in {"pass", "cancel"} :
       LET action == ActionOf(u, type)
       IN /\ action = "reject" => can_review(audit, u)
          /\ can_operate(audit, action, u)
          /\ req' = [req EXCEPT ![h] = [pc     |-> "audit_save", action |-> action,
                                        audit  |-> audit,        seen   |-> status]]
  /\ UNCHANGED <<row, audit, armed, task, result, bounds, ghosts>>

\* Save the whole audit row from the copy, whatever the row holds by now.
AuditSave(h) ==
  /\ At(h, "audit_save")
  /\ LET old == req[h].audit
         new == operate(old, req[h].action)
     IN /\ audit' = new
        /\ signed' = IF req[h].action = "pass" THEN signed \cup {old.current} ELSE signed
        /\ req' = IF new.status = "waiting"
                  THEN [req EXCEPT ![h] = Idle]
                  ELSE [req EXCEPT ![h].audit = new,
                                   ![h].pc = IF /\ new.status \in {"aborted", "rejected"}
                                                /\ req[h].seen = "workflow_timingtask"
                                             THEN "audit_unschedule" ELSE "audit_status"]
  /\ UNCHANGED <<row, armed, task, result, bounds, autoPassed, ran>>

AuditUnschedule(h) ==
  /\ At(h, "audit_unschedule")
  /\ armed' = FALSE
  /\ Goto(h, "audit_status")
  /\ UNCHANGED <<row, audit, task, result, bounds, ghosts>>

AuditStatus(h) ==
  /\ At(h, "audit_status")
  /\ status' = IF req[h].audit.status = "passed"
               THEN "workflow_review_pass" ELSE "workflow_abort"
  /\ Done(h)
  /\ UNCHANGED <<export, audit, armed, task, result, bounds, ghosts>>

-----------------------------------------------------------------------------
(* Release: ExecuteWorkflow.post and TimingTask.post.                      *)

\* can_execute: its row lock is gone when it returns.
ExecuteCheck(h) ==
  /\ At(h, "idle")
  /\ CanRelease
  /\ Executors # {}
  /\ asks < MaxAsks
  /\ \E mode \in {"execute_mark", "execute_finish"} :
       req' = [req EXCEPT ![h] = [Idle EXCEPT !.pc = mode]]
  /\ asks' = asks + 1
  /\ UNCHANGED <<row, audit, armed, task, result, deaths, ghosts>>

ExecuteMark(h) ==
  /\ At(h, "execute_mark")
  /\ status' = "workflow_queuing"
  /\ Goto(h, "execute_unschedule")
  /\ UNCHANGED <<export, audit, armed, task, result, bounds, ghosts>>

ExecuteUnschedule(h) ==
  /\ At(h, "execute_unschedule")
  /\ armed' = FALSE
  /\ Goto(h, "execute_enqueue")
  /\ UNCHANGED <<row, audit, task, result, bounds, ghosts>>

ExecuteEnqueue(h) ==
  /\ At(h, "execute_enqueue")
  /\ Enqueue
  /\ Done(h)
  /\ UNCHANGED <<row, audit, armed, result, bounds, ghosts>>

\* Mode "manual": somebody ran the SQL by hand and says so.
ExecuteManual(h) ==
  /\ At(h, "execute_finish")
  /\ status' = "workflow_finish"
  /\ Done(h)
  /\ UNCHANGED <<export, audit, armed, task, result, bounds, ghosts>>

\* The row is read for the later save, then can_timingtask reads it again.
TimingCheck(h) ==
  /\ At(h, "idle")
  /\ CanRelease
  /\ Executors # {}
  /\ asks < MaxAsks
  /\ req' = [req EXCEPT ![h] = [Idle EXCEPT !.pc = "timing_save"]]
  /\ asks' = asks + 1
  /\ UNCHANGED <<row, audit, armed, task, result, deaths, ghosts>>

\* Status and schedule in one transaction; an earlier schedule is replaced.
TimingSave(h) ==
  /\ At(h, "timing_save")
  /\ status' = "workflow_timingtask"
  /\ armed' = TRUE
  /\ Done(h)
  /\ UNCHANGED <<export, audit, task, result, bounds, ghosts>>

-----------------------------------------------------------------------------
(* Execution: the scheduler, execute_sql.execute and execute_callback.     *)

ScheduleFire ==
  /\ armed
  /\ Enqueue
  /\ armed' = FALSE
  /\ UNCHANGED <<row, audit, req, result, bounds, ghosts>>

\* A worker keeps its task until execute has returned, however long that takes.
WorkerFree == Cardinality({t \in Task : task[t].st \in {"running", "copied"}}) < Workers

\* execute up to the engine: the status is checked and set under the row lock.
TaskStart(t) ==
  /\ task[t].st = "queued"
  /\ WorkerFree
  /\ MayExecute
  /\ status' = "workflow_executing"
  /\ SetTask(t, "running")
  /\ ran' = ran \cup {t}
  /\ UNCHANGED <<export, audit, armed, req, result, bounds, signed, autoPassed>>

TaskRefuse(t) ==
  /\ task[t].st = "queued"
  /\ WorkerFree
  /\ ~ MayExecute
  /\ SetTask(t, "refused")
  /\ UNCHANGED <<row, audit, armed, req, result, bounds, ghosts>>

\* The engine (or the export) returns a result set, with or without an error, or
\* raises: what matters is how execute_callback will read it.
TaskReturn(t) ==
  /\ task[t].st \in {"running", "copied"}
  /\ \E ok \in (IF export THEN {FALSE} ELSE BOOLEAN) :
       task' = [task EXCEPT ![t] = [NewTask EXCEPT !.st = "returned", !.ok = ok]]
  /\ UNCHANGED <<row, audit, armed, req, result, bounds, ghosts>>

\* execute_offline_download reads the ticket again to write file_name into it ...
ExportCopy(t) ==
  /\ task[t].st = "running"
  /\ export
  /\ task' = [task EXCEPT ![t].st = "copied", ![t].copy = status]
  /\ UNCHANGED <<row, audit, armed, req, result, bounds, ghosts>>

\* ... and saves the whole row, the status it read included; closing the storage
\* after that may still raise.
ExportSave(t) ==
  /\ task[t].st = "copied"
  /\ status' = task[t].copy
  /\ \E ok \in BOOLEAN :
       task' = [task EXCEPT ![t] = [NewTask EXCEPT !.st = "returned", !.ok = ok]]
  /\ UNCHANGED <<export, audit, armed, req, result, bounds, ghosts>>

Finished == {t \in Task : task[t].st \in {"returned", "refused"}}

\* The monitor runs one hook at a time.
MonitorFree == \A t \in Task : task[t].st # "hook"

\* Slip: execute_callback does not check the ticket's status.
HookReadUnchecked(t) ==
  /\ t \in Finished
  /\ MonitorFree
  /\ SetTask(t, "hook")
  /\ UNCHANGED <<row, audit, armed, req, result, bounds, ghosts>>

HookRead(t) ==
  /\ t \in Finished
  /\ MonitorFree
  /\ status = "workflow_executing"
  /\ SetTask(t, "hook")
  /\ UNCHANGED <<row, audit, armed, req, result, bounds, ghosts>>

\* The hook's own check: the result of this task is dropped.
HookRefuse(t) ==
  /\ t \in Finished
  /\ MonitorFree
  /\ status # "workflow_executing"
  /\ SetTask(t, "closed")
  /\ UNCHANGED <<row, audit, armed, req, result, bounds, ghosts>>

\* Slip: the result is stored, the ticket is not saved.
HookSaveResultOnly(t) ==
  /\ task[t].st = "hook"
  /\ result' = t
  /\ SetTask(t, "closed")
  /\ UNCHANGED <<row, audit, armed, req, bounds, ghosts>>

\* Result and row are saved; a save that fails also ends in workflow_exception.
HookSave(t) ==
  /\ task[t].st = "hook"
  /\ status' \in IF task[t].ok THEN {"workflow_finish", "workflow_exception"}
                               ELSE {"workflow_exception"}
  /\ result' = t
  /\ SetTask(t, "closed")
  /\ UNCHANGED <<export, audit, armed, req, bounds, ghosts>>

-----------------------------------------------------------------------------
(* Deaths.  Nothing resumes a request or a popped task.                    *)

RequestDies(h) ==
  /\ deaths < MaxDeaths
  /\ ~ At(h, "idle")
  /\ deaths' = deaths + 1
  /\ Done(h)
  /\ UNCHANGED <<row, audit, armed, task, result, asks, ghosts>>

TaskLost(t) ==
  /\ deaths < MaxDeaths
  /\ task[t].st \notin {"free", "closed", "lost"}
  /\ deaths' = deaths + 1
  /\ task' = [task EXCEPT ![t] = [NewTask EXCEPT !.st = "lost"]]
  /\ UNCHANGED <<row, audit, armed, req, result, asks, ghosts>>

-----------------------------------------------------------------------------
SubmitStep(h)  == SubmitCreate(h) \/ SubmitStatus(h)
AuditStep(h)   == AuditRead(h) \/ AuditSave(h) \/ AuditUnschedule(h) \/ AuditStatus(h)
ReleaseStep(h) == \/ ExecuteCheck(h) \/ ExecuteMark(h) \/ ExecuteUnschedule(h)
                  \/ ExecuteEnqueue(h) \/ ExecuteManual(h)
                  \/ TimingCheck(h) \/ TimingSave(h)
TaskStep(t)    == \/ TaskStart(t) \/ TaskRefuse(t) \/ TaskReturn(t)
                  \/ ExportCopy(t) \/ ExportSave(t)
HookStep(t)    == HookRead(t) \/ HookRefuse(t) \/ HookSave(t)

Next ==
  \/ \E h \in Req : SubmitStep(h) \/ AuditStep(h) \/ ReleaseStep(h) \/ RequestDies(h)
  \/ ScheduleFire
  \/ \E t \in Task : TaskStep(t) \/ HookStep(t) \/ TaskLost(t)

Spec == Init /\ [][Next]_vars

\* A request that has begun is carried through by the web server.  Nobody is made to
\* send a request, and no engine is made to answer: a running task may run for ever.
Continue(h) ==
  \/ SubmitStatus(h)
  \/ AuditSave(h) \/ AuditUnschedule(h) \/ AuditStatus(h)
  \/ ExecuteMark(h) \/ ExecuteUnschedule(h) \/ ExecuteEnqueue(h) \/ ExecuteManual(h)
  \/ TimingSave(h)

\* The queue is first in, first out: a task gets its turn if workers keep coming free.
TaskTaken(t) == TaskStart(t) \/ TaskRefuse(t)

\* An export that is stored has left the engine.
ExportConclude(t) == task[t].st = "copied" /\ (TaskReturn(t) \/ ExportSave(t))

FairSpec ==
  /\ Spec
  /\ \A h \in Req : WF_vars(Continue(h))
  /\ WF_vars(ScheduleFire)
  /\ \A t \in Task : /\ SF_vars(TaskTaken(t))
                     /\ WF_vars(ExportConclude(t))
                     /\ SF_vars(HookStep(t))

-----------------------------------------------------------------------------
(* Properties.                                                             *)

TypeOK ==
  /\ status \in Status
  /\ export \in BOOLEAN
  /\ audit \in AuditRow
  /\ armed \in BOOLEAN
  /\ req \in [Req -> Request]
  /\ task \in [Task -> TaskRec]
  /\ result \in Task \cup {0}
  /\ asks \in 0..MaxAsks
  /\ deaths \in 0..MaxDeaths
  /\ signed \subseteq Groups
  /\ autoPassed \in BOOLEAN
  /\ ran \subseteq Task

\* Everybody who had to approve has: the system itself, or every group of the chain.
Approved == autoPassed \/ ChainGroups \subseteq signed

\* No SQL of a ticket runs before the ticket is approved, however requests,
\* tasks, stale copies and deaths interleave (execute_sql.py trusts the status
\* column alone, and three handlers write that column from what they remember).
ApprovedBeforeRun == ran # {} => Approved

\* A node the ticket's page shows as passed (get_review_info) has been passed by
\* its group, also when a reviewer's stale copy has just overwritten the row.
ShownPassedWereSigned ==
  \A i \in DOMAIN Chain : get_review_info(audit)[i] = "passed" => Chain[i] \in signed

NothingLost == \A t \in Task : task[t].st # "lost"
Active == {"running", "copied", "returned", "refused", "hook"}

\* A ticket in workflow_executing has a task whose hook is still to come; else no
\* step of the code would ever take it out of that status.
ExecutingHasOwner ==
  status = "workflow_executing" /\ NothingLost => \E t \in Task : task[t].st \in Active

\* A ticket in workflow_queuing has a task in the queue, or a request that is
\* about to put one there: the queuing mark is never left without its task.
\* (Not so for an export, whose late whole-row save can bring the mark back.)
QueuingWillStart ==
  status = "workflow_queuing" /\ deaths = 0 /\ ~ export =>
    \/ \E t \in Task : task[t].st = "queued"
    \/ \E h \in Req : req[h].pc \in {"execute_unschedule", "execute_enqueue"}

\* The SQL of a ticket runs at most once.  execute_sql.py:21 says the row is read
\* under its lock "to prevent repeated execution".
AtMostOneRun == Cardinality(ran) <= 1

\* The stored result is that of a task that ran the SQL.  execute_sql.py:24: a task
\* whose ticket is not queuing or timed just raises.
ResultIsOfRun == result # 0 => result \in ran

\* The ticket is queued or timed.
Awaited == status \in {"workflow_queuing", "workflow_timingtask"}

\* What may still start the ticket: its schedule, a task in the queue, or a request
\* that is about to put one there.
StartPending ==
  \/ armed
  \/ \E t \in Task : task[t].st = "queued"
  \/ \E h \in Req : req[h].pc \in {"execute_unschedule", "execute_enqueue"}

\* If workers keep coming free, a ticket that is queued or timed leaves that status:
\* its task reaches a worker, or somebody else decides.  The status column, the
\* schedule row and the Redis queue are three stores that no transaction spans.  The
\* exception is an export whose mark an older task's whole-row save has brought back
\* (offlinedownload.py:133) with nothing left to start it: it stays there for ever.
ReleaseIsHonoured ==
  []<>WorkerFree => ((Awaited /\ (export => StartPending)) ~> ~ Awaited)

\* The ticket's SQL is in the engine and no task of the ticket has come back.
EngineHolds ==
  /\ \E t \in Task : task[t].st = "running"
  /\ \A t \in Task : task[t].st \notin Active \ {"running"}

\* An executing ticket whose engine has answered does not stay so: some hook, or a
\* later decision, ends it.  (While the engine holds the SQL, nothing in the code ends
\* it: the task is queued with timeout -1, api_workflow.py:425.)
ExecutionEnds ==
  (status = "workflow_executing" /\ ~ EngineHolds) ~> status # "workflow_executing"
=============================================================================
