------------------------------- MODULE Archive -------------------------------
(***************************************************************************)
(* One archive configuration: its review, its switch, and the runs of      *)
(* pt-archiver, which move or delete the rows of the source table.         *)
(*                                                                         *)
(* Two doors lead to the review, as for query privileges: ArchiveAudit     *)
(* decides in one transaction but saves the WHOLE row from the copy it     *)
(* read before; AuditWorkflow saves the audit row and then two columns.    *)
(* Three doors lead to a run: ExecuteWorkflow and add_archive_task look at *)
(* status and switch, ArchiveOnceView does not, nor does the task itself.  *)
(*                                                                         *)
(* seals and asked are ghosts, read by properties only.                    *)
(***************************************************************************)
EXTENDS AuditV2, FiniteSets

CONSTANTS
  Visits,        \* requests (or calls of add_archive_task) in flight together
  MaxRuns,       \* bound: tasks enqueued
  MaxSwitches,   \* bound: turns of the switch
  MaxCrashes     \* bound: requests that die

ASSUME ArchiveAssumption == MaxRuns \in Nat /\ MaxSwitches \in Nat /\ MaxCrashes \in Nat

Door == {"execute", "schedule", "once"}
Run  == 1..MaxRuns

Config == [status : WorkflowStatus, state : BOOLEAN]
NoConfig == [status |-> "none", state |-> FALSE]

\* Past its checks and about to decide in a transaction, to save the audit row, the two
\* columns, or to enqueue a run.
Visit == [pc : {"idle", "decide", "audit", "columns", "enqueue"}, action : WorkflowAction,
          audit : AuditRow, copy : Config, door : Door]
NoVisit == [pc |-> "idle", action |-> "pass", audit |-> NoAudit, copy |-> NoConfig,
            door |-> "execute"]

VARIABLES
  config,    \* status and switch of the archive_config row
  caudit,    \* its workflow_audit row
  visit,     \* request -> what it is about to do, and its copies
  job,       \* run -> where its task is
  turns,     \* turns of the switch so far
  crashes,   \* requests that died so far
  seals,     \* ghost: the groups whose node somebody passed
  asked      \* ghost: run -> the door it came in by

aBounds == <<turns, crashes>>
aGhosts == <<seals, asked>>
aVars == <<config, caudit, visit, job, turns, crashes, seals, asked>>

AInit ==
  /\ config = NoConfig
  /\ caudit = NoAudit
  /\ visit = [h \in Visits |-> NoVisit]
  /\ job = [r \in Run |-> "free"]
  /\ turns = 0 /\ crashes = 0
  /\ seals = {}
  /\ asked = [r \in Run |-> "execute"]

Visiting(h, pc) == visit[h].pc = pc
VisitEnds(h) == visit' = [visit EXCEPT ![h] = NoVisit]

-----------------------------------------------------------------------------
(* Applying and reviewing.                                                 *)

\* ArchiveApplyView: one transaction.  No archive is passed or refused by the system.
ArchiveApply ==
  /\ config.status = "none"
  /\ caudit' = create_audit("no")
  /\ config' = [status |-> "waiting", state |-> FALSE]
  /\ UNCHANGED <<visit, job, aBounds, aGhosts>>

StartVisit(h, request) ==
  /\ Visiting(h, "idle")
  /\ config.status # "none"
  /\ visit' = [visit EXCEPT ![h] = request]
  /\ UNCHANGED <<config, caudit, job, aBounds, seals, asked>>

\* ArchiveAudit.post: operate checks the copy.
ArchiveAuditRead(h) ==
  \E u \in Users, action \in WorkflowAction :
    /\ can_operate(caudit, action, u)
    /\ StartVisit(h, [NoVisit EXCEPT !.pc = "decide", !.action = action, !.audit = caudit,
                                     !.copy = config])

\* AuditWorkflow.post: a cancel asks for the column engineer, which is not there.
AuditWorkflowVisit(h) ==
  \E u \in Users :
    /\ can_operate(caudit, "pass", u)
    /\ StartVisit(h, [NoVisit EXCEPT !.pc = "audit", !.audit = caudit])

Seal(h) ==
  seals' = IF visit[h].action = "pass" THEN seals \cup {visit[h].audit.current} ELSE seals

\* The transaction: audit row, and the whole configuration from the copy.
DecideArchive(h) ==
  LET row == operate(visit[h].audit, visit[h].action) IN
  /\ Visiting(h, "decide")
  /\ caudit' = row
  /\ config' = [status |-> row.status, state |-> row.status = "passed" \/ visit[h].copy.state]
  /\ Seal(h)
  /\ VisitEnds(h)
  /\ UNCHANGED <<job, aBounds, asked>>

SaveArchiveAudit(h) ==
  LET row == operate(visit[h].audit, visit[h].action) IN
  /\ Visiting(h, "audit")
  /\ caudit' = row
  /\ Seal(h)
  /\ visit' = [visit EXCEPT ![h].pc = "columns", ![h].audit = row]
  /\ UNCHANGED <<config, job, aBounds, asked>>

\* save(update_fields=["status", "state"]): on only when passed.
SaveColumns(h) ==
  /\ Visiting(h, "columns")
  /\ config' = [status |-> visit[h].audit.status, state |-> visit[h].audit.status = "passed"]
  /\ VisitEnds(h)
  /\ UNCHANGED <<caudit, job, aBounds, aGhosts>>

-----------------------------------------------------------------------------
(* The switch and the runs.                                                *)

\* ArchiveSwitchView: one column, whatever the status.
ArchiveSwitch ==
  /\ config.status # "none"
  /\ turns < MaxSwitches
  /\ turns' = turns + 1
  /\ config' = [config EXCEPT !.state = ~ @]
  /\ UNCHANGED <<caudit, visit, job, crashes, aGhosts>>

\* Slip: only the switch is looked at.
MayArchiveSwitched == config.state

\* What ExecuteWorkflow and add_archive_task ask for.
MayArchive == config.state /\ config.status = "passed"

AskForRun(h, door) ==
  /\ door \in {"execute", "schedule"} => MayArchive
  /\ StartVisit(h, [NoVisit EXCEPT !.pc = "enqueue", !.door = door])

EnqueueArchive(h) ==
  /\ Visiting(h, "enqueue")
  /\ \E r \in Run :
       /\ job[r] = "free"
       /\ \A s \in 1..(r - 1) : job[s] # "free"
       /\ job' = [job EXCEPT ![r] = "queued"]
       /\ asked' = [asked EXCEPT ![r] = visit[h].door]
  /\ VisitEnds(h)
  /\ UNCHANGED <<config, caudit, aBounds, seals>>

\* archive: runs pt-archiver whatever has become of the configuration meanwhile, and logs
\* how it ended; a failure is raised only after that.
ArchiveRuns(r) ==
  /\ job[r] = "queued"
  /\ job' = [job EXCEPT ![r] = "ran"]
  /\ UNCHANGED <<config, caudit, visit, aBounds, aGhosts>>

VisitDies(h) ==
  /\ ~ Visiting(h, "idle")
  /\ crashes < MaxCrashes
  /\ crashes' = crashes + 1
  /\ VisitEnds(h)
  /\ UNCHANGED <<config, caudit, job, turns, aGhosts>>

ANext ==
  \/ ArchiveApply
  \/ \E h \in Visits :
       \/ ArchiveAuditRead(h) \/ DecideArchive(h)
       \/ AuditWorkflowVisit(h) \/ SaveArchiveAudit(h) \/ SaveColumns(h)
       \/ \E door \in Door : AskForRun(h, door)
       \/ EnqueueArchive(h)
       \/ VisitDies(h)
  \/ ArchiveSwitch
  \/ \E r \in Run : ArchiveRuns(r)

ASpec == AInit /\ [][ANext]_aVars

-----------------------------------------------------------------------------
(* Properties.                                                             *)

ATypeOK ==
  /\ config \in Config
  /\ caudit \in AuditRow
  /\ visit \in [Visits -> Visit]
  /\ job \in [Run -> {"free", "queued", "ran"}]
  /\ turns \in 0..MaxSwitches /\ crashes \in 0..MaxCrashes
  /\ seals \subseteq Groups
  /\ asked \in [Run -> Door]

\* A run that was asked for at a door with a check moves rows only when every group of the
\* chain passed the configuration, whatever copies were written back in between and
\* however the switch was turned.
CheckedRunsAreReviewed ==
  \A r \in Run : job[r] = "ran" /\ asked[r] # "once" => ChainGroups \subseteq seals

=============================================================================
