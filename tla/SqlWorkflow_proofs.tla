------------------------- MODULE SqlWorkflow_proofs -------------------------
(***************************************************************************)
(* Proofs about the SQL release ticket, for any chain, any company and any *)
(* number of requests and tasks: its types, and that no SQL runs and no    *)
(* node shows as passed before the groups concerned have signed.           *)
(***************************************************************************)
EXTENDS SqlWorkflowCalm, AuditV2_proofs, FiniteSetTheorems, TLAPS

-----------------------------------------------------------------------------
(* Types.  They need a little more than TypeOK: the stored row and every   *)
(* request's copy of it are good rows (AuditV2_proofs), and a pass was     *)
(* checked against a waiting one.                                          *)

GoodRequest ==
  {r \in [pc : PC, action : WorkflowAction, audit : GoodRow, seen : Status] :
     r.pc = "audit_save" /\ r.action = "pass" => r.audit.status = "waiting"}

TypeInv ==
  /\ status \in Status
  /\ export \in BOOLEAN
  /\ audit \in GoodRow
  /\ armed \in BOOLEAN
  /\ req \in [Req -> GoodRequest]
  /\ task \in [Task -> TaskRec]
  /\ result \in Task \cup {0}
  /\ asks \in 0..MaxAsks
  /\ deaths \in 0..MaxDeaths
  /\ signed \subseteq Groups
  /\ autoPassed \in BOOLEAN
  /\ ran \subseteq Task

\* A good row is a row, and a good request a request.
LEMMA TypeInvTypeOK == TypeInv => TypeOK
  BY DEF TypeInv, TypeOK, GoodRequest, GoodRow, Request

\* The requests stay good when one of them ends, moves on, or begins with the
\* action, the row and the status it has read.
LEMMA RequestsGood ==
  ASSUME NEW h \in Req, req \in [Req -> GoodRequest]
  PROVE  /\ Idle \in GoodRequest
         /\ Done(h) => req' \in [Req -> GoodRequest]
         /\ \A r \in GoodRequest : req' = [req EXCEPT ![h] = r]
                                   => req' \in [Req -> GoodRequest]
         /\ \A label \in PC \ {"audit_save"} : Goto(h, label) => req' \in [Req -> GoodRequest]
<1>1. Idle \in GoodRequest
  BY OperateGood DEF Idle, GoodRequest, PC, WorkflowAction, Status
<1>2. Done(h) => req' \in [Req -> GoodRequest]
  BY <1>1 DEF Done
<1>3. \A r \in GoodRequest : req' = [req EXCEPT ![h] = r] => req' \in [Req -> GoodRequest]
  OBVIOUS
<1>4. ASSUME NEW label \in PC \ {"audit_save"}, Goto(h, label)
      PROVE  req' \in [Req -> GoodRequest]
  BY <1>4 DEF Goto, GoodRequest
<1> QED
  BY <1>1, <1>2, <1>3, <1>4

\* The tasks stay well formed when one of them changes its state or its record.
LEMMA TasksGood ==
  ASSUME task \in [Task -> TaskRec]
  PROVE  /\ NewTask \in TaskRec
         /\ Enqueue => task' \in [Task -> TaskRec]
         /\ \A t \in Task, st \in TaskState : SetTask(t, st) => task' \in [Task -> TaskRec]
         /\ \A t \in Task, r \in TaskRec : task' = [task EXCEPT ![t] = r]
                                          => task' \in [Task -> TaskRec]
<1>1. NewTask \in TaskRec
  BY DEF NewTask, TaskRec, TaskState, Status
<1>2. Enqueue => task' \in [Task -> TaskRec]
  BY DEF Enqueue, TaskRec, TaskState
<1>3. \A t \in Task, st \in TaskState : SetTask(t, st) => task' \in [Task -> TaskRec]
  BY DEF SetTask, TaskRec
<1>4. \A t \in Task, r \in TaskRec : task' = [task EXCEPT ![t] = r]
                                   => task' \in [Task -> TaskRec]
  OBVIOUS
<1> QED
  BY <1>1, <1>2, <1>3, <1>4

\* The initial state has good types.
LEMMA TypeInit == Init => TypeInv
<1>1. NoAudit \in GoodRow /\ Idle \in GoodRequest
  BY OperateGood DEF Idle, GoodRequest, PC, WorkflowAction, Status
<1>2. NewTask \in TaskRec
  BY DEF NewTask, TaskRec, TaskState, Status
<1> SUFFICES ASSUME Init PROVE TypeInv
  OBVIOUS
<1> USE DEF Init
<1>3. req \in [Req -> GoodRequest]
  BY <1>1
<1>4. task \in [Task -> TaskRec]
  BY <1>2
<1>5. asks \in 0..MaxAsks /\ deaths \in 0..MaxDeaths
  BY BoundAssumption
<1>6. export \in BOOLEAN
  BY BoundAssumption
<1>7. status \in Status /\ result \in Task \cup {0}
  BY DEF Status
<1> QED
  BY <1>1, <1>3, <1>4, <1>5, <1>6, <1>7 DEF TypeInv

\* Every step keeps them.
LEMMA TypeNext == TypeInv /\ [Next]_vars => TypeInv'
<1> SUFFICES ASSUME TypeInv, [Next]_vars PROVE TypeInv'
  OBVIOUS
<1> USE DEF TypeInv, row, bounds, ghosts
<1>1. ASSUME NEW h \in Req, SubmitCreate(h) PROVE TypeInv'
  <2> PICK auto \in {"reject", "review", "pass"} :
        audit' = create_audit(auto) /\ autoPassed' = (auto = "pass")
    BY <1>1 DEF SubmitCreate
  <2>1. audit' \in GoodRow
    BY OperateGood
  <2>2. [Idle EXCEPT !.pc = "submit_status", !.audit = audit'] \in GoodRequest
    BY <2>1, RequestsGood DEF GoodRequest, PC
  <2>3. req' \in [Req -> GoodRequest]
    BY <1>1, <2>2, RequestsGood DEF SubmitCreate
  <2> QED
    BY <1>1, <2>1, <2>3 DEF SubmitCreate, Status
<1>2. ASSUME NEW h \in Req, SubmitStatus(h) PROVE TypeInv'
  BY <1>2, RequestsGood DEF SubmitStatus, Status
<1>3. ASSUME NEW h \in Req, AuditRead(h) PROVE TypeInv'
  <2>1. PICK action \in WorkflowAction :
          /\ action = "pass" => audit.status = "waiting"
          /\ req' = [req EXCEPT ![h] = [pc    |-> "audit_save", action |-> action,
                                        audit |-> audit,        seen   |-> status]]
    BY <1>3 DEF AuditRead, ActionOf, WorkflowAction, can_operate,
       SUPPORTED_OPERATION_GRID, GoodRow, AuditRow, WorkflowStatus
  <2>2. req' \in [Req -> GoodRequest]
    BY <2>1 DEF GoodRequest, PC
  <2> QED
    BY <1>3, <2>2 DEF AuditRead
<1>4. ASSUME NEW h \in Req, AuditSave(h) PROVE TypeInv'
  <2> DEFINE old == req[h].audit
             new == operate(old, req[h].action)
  <2>1. old \in GoodRow /\ req[h].action \in WorkflowAction
    BY DEF GoodRequest
  <2>2. new \in GoodRow
    BY <2>1, OperateGood
  <2>3. req' \in [Req -> GoodRequest]
    <3> HIDE DEF new
    <3>1. CASE new.status = "waiting"
      BY <1>4, <3>1, RequestsGood DEF AuditSave, new
    <3>2. CASE new.status # "waiting"
      <4>1. PICK label \in {"audit_unschedule", "audit_status"} :
              req' = [req EXCEPT ![h].audit = new, ![h].pc = label]
        BY <1>4, <3>2 DEF AuditSave, new
      <4>2. /\ req \in [Req -> GoodRequest]
            /\ req[h] \in GoodRequest
        BY DEF GoodRequest
      <4>3. [req[h] EXCEPT !.audit = new, !.pc = label] \in GoodRequest
        BY <2>2, <4>1, <4>2 DEF GoodRequest, PC
      <4>4. req' = [req EXCEPT ![h] = [req[h] EXCEPT !.audit = new, !.pc = label]]
        BY <4>1, <4>2
      <4> HIDE DEF TypeInv
      <4> QED
        BY <4>2, <4>3, <4>4
    <3> QED
      BY <3>1, <3>2
  <2>4. signed' \subseteq Groups
    BY <1>4, ChainGroupsAreGroups DEF AuditSave, At, GoodRequest, GoodRow
  <2> QED
    BY <1>4, <2>2, <2>3, <2>4 DEF AuditSave
<1>5. ASSUME NEW h \in Req, AuditUnschedule(h) PROVE TypeInv'
  BY <1>5, RequestsGood DEF AuditUnschedule, PC
<1>6. ASSUME NEW h \in Req, AuditStatus(h) PROVE TypeInv'
  BY <1>6, RequestsGood DEF AuditStatus, Status
<1>7. ASSUME NEW h \in Req, ExecuteCheck(h) PROVE TypeInv'
  <2>1. PICK mode \in {"execute_mark", "execute_finish"} :
          req' = [req EXCEPT ![h] = [Idle EXCEPT !.pc = mode]]
    BY <1>7 DEF ExecuteCheck
  <2>2. [Idle EXCEPT !.pc = mode] \in GoodRequest
    BY RequestsGood DEF GoodRequest, PC
  <2>3. req' \in [Req -> GoodRequest]
    BY <2>1, <2>2
  <2>4. asks' \in 0..MaxAsks
    BY <1>7, BoundAssumption DEF ExecuteCheck
  <2> QED
    BY <1>7, <2>3, <2>4 DEF ExecuteCheck
<1>8. ASSUME NEW h \in Req, ExecuteMark(h) PROVE TypeInv'
  BY <1>8, RequestsGood DEF ExecuteMark, PC, Status
<1>9. ASSUME NEW h \in Req, ExecuteUnschedule(h) PROVE TypeInv'
  BY <1>9, RequestsGood DEF ExecuteUnschedule, PC
<1>10. ASSUME NEW h \in Req, ExecuteEnqueue(h) PROVE TypeInv'
  BY <1>10, RequestsGood, TasksGood DEF ExecuteEnqueue
<1>11. ASSUME NEW h \in Req, ExecuteManual(h) PROVE TypeInv'
  BY <1>11, RequestsGood DEF ExecuteManual, Status
<1>12. ASSUME NEW h \in Req, TimingCheck(h) PROVE TypeInv'
  <2>1. PICK mode \in {"timing_save"} :
          req' = [req EXCEPT ![h] = [Idle EXCEPT !.pc = mode]]
    BY <1>12 DEF TimingCheck
  <2>2. [Idle EXCEPT !.pc = mode] \in GoodRequest
    BY RequestsGood DEF GoodRequest, PC
  <2>3. req' \in [Req -> GoodRequest]
    BY <2>1, <2>2
  <2>4. asks' \in 0..MaxAsks
    BY <1>12, BoundAssumption DEF TimingCheck
  <2> QED
    BY <1>12, <2>3, <2>4 DEF TimingCheck
<1>13. ASSUME NEW h \in Req, TimingSave(h) PROVE TypeInv'
  BY <1>13, RequestsGood DEF TimingSave, Status
<1>14. ASSUME NEW h \in Req, RequestDies(h) PROVE TypeInv'
  BY <1>14, RequestsGood, BoundAssumption DEF RequestDies
<1>15. ASSUME ScheduleFire PROVE TypeInv'
  BY <1>15, TasksGood DEF ScheduleFire
<1>16. ASSUME NEW t \in Task, TaskStart(t) PROVE TypeInv'
  BY <1>16, TasksGood DEF TaskStart, Status, TaskState
<1>17. ASSUME NEW t \in Task, TaskRefuse(t) PROVE TypeInv'
  BY <1>17, TasksGood DEF TaskRefuse, TaskState
<1>18. ASSUME NEW t \in Task, TaskReturn(t) PROVE TypeInv'
  <2>1. PICK ok \in BOOLEAN :
          task' = [task EXCEPT ![t] = [NewTask EXCEPT !.st = "returned", !.ok = ok]]
    BY <1>18 DEF TaskReturn
  <2>2. task' \in [Task -> TaskRec]
    BY <2>1, TasksGood DEF TaskRec, TaskState
  <2> QED
    BY <1>18, <2>2 DEF TaskReturn
<1>19. ASSUME NEW t \in Task, ExportCopy(t) PROVE TypeInv'
  <2>1. task' \in [Task -> TaskRec]
    BY <1>19 DEF ExportCopy, TaskRec, TaskState
  <2> QED
    BY <1>19, <2>1 DEF ExportCopy
<1>20. ASSUME NEW t \in Task, ExportSave(t) PROVE TypeInv'
  <2>1. PICK ok \in BOOLEAN :
          task' = [task EXCEPT ![t] = [NewTask EXCEPT !.st = "returned", !.ok = ok]]
    BY <1>20 DEF ExportSave
  <2>2. task' \in [Task -> TaskRec]
    BY <2>1, TasksGood DEF TaskRec, TaskState
  <2>3. status' \in Status
    BY <1>20 DEF ExportSave, TaskRec
  <2> QED
    BY <1>20, <2>2, <2>3 DEF ExportSave
<1>21. ASSUME NEW t \in Task, HookRead(t) PROVE TypeInv'
  BY <1>21, TasksGood DEF HookRead, TaskState, Finished
<1>22. ASSUME NEW t \in Task, HookRefuse(t) PROVE TypeInv'
  BY <1>22, TasksGood DEF HookRefuse, TaskState, Finished
<1>23. ASSUME NEW t \in Task, HookSave(t) PROVE TypeInv'
  BY <1>23, TasksGood DEF HookSave, Status, TaskState
<1>24. ASSUME NEW t \in Task, TaskLost(t) PROVE TypeInv'
  <2>1. [NewTask EXCEPT !.st = "lost"] \in TaskRec
    BY TasksGood DEF TaskRec, TaskState
  <2> QED
    BY <1>24, <2>1, TasksGood, BoundAssumption DEF TaskLost
<1>25. ASSUME UNCHANGED vars PROVE TypeInv'
  BY <1>25 DEF vars
<1> QED
  <2> HIDE DEF TypeInv
  <2> QED
    BY <1>1, <1>2, <1>3, <1>4, <1>5, <1>6, <1>7, <1>8, <1>9, <1>10, <1>11, <1>12, <1>13, <1>14, <1>15, <1>16, <1>17, <1>18, <1>19, <1>20, <1>21, <1>22, <1>23, <1>24, <1>25
       DEF Next, SubmitStep, AuditStep, ReleaseStep, TaskStep, HookStep

\* TypeOK holds in every reachable state: every handler writes a status, a node, a
\* copy or a task state of the kind its column or its object has, and operate_pass
\* only looks for groups of the chain.
THEOREM TypeCorrect == Spec => []TypeOK
  BY TypeInit, TypeNext, TypeInvTypeOK, PTL DEF Spec

-----------------------------------------------------------------------------
(* Approval.  ApprovedBeforeRun is not inductive: a task starts because of *)
(* the status, the status is written from what a request or a task holds,  *)
(* and that was copied from a row earlier.  ApprovalInv says of each place *)
(* on this way that what it holds is sound, and that nothing falls back to *)
(* the time before the submission.                                         *)

Released == {"workflow_review_pass", "workflow_timingtask", "workflow_queuing",
             "workflow_executing", "workflow_finish", "workflow_exception"}
Releasing == {"execute_mark", "execute_finish", "execute_unschedule",
              "execute_enqueue", "timing_save"}

RequestSound(r) ==
  /\ SoundRow(r.audit, signed, Approved)
  /\ r.pc \in Releasing => Approved

TaskSound(r) ==
  /\ r.st \in {"running", "copied", "hook"} => Approved
  /\ r.st \in {"running", "copied"} => status # "absent"
  /\ r.st = "copied" => r.copy # "absent"

ApprovalInv ==
  /\ SoundRow(audit, signed, Approved)
  /\ \A h \in Req : RequestSound(req[h])
  /\ \A t \in Task : TaskSound(task[t])
  /\ status \in Released => Approved
  /\ ran # {} => Approved
  /\ status = "absent" => ~ autoPassed

\* The requests' copies stay sound when one request ends, goes on, or begins anew.
LEMMA RequestsSound ==
  ASSUME NEW h \in Req, req \in [Req -> GoodRequest], ApprovalInv,
         UNCHANGED <<signed, autoPassed>>
  PROVE  /\ UNCHANGED req => \A g \in Req : RequestSound(req[g])'
         /\ Done(h) => \A g \in Req : RequestSound(req[g])'
         /\ \A label : (label \in Releasing => Approved) =>
              /\ Goto(h, label) => \A g \in Req : RequestSound(req[g])'
              /\ req' = [req EXCEPT ![h] = [Idle EXCEPT !.pc = label]]
                   => \A g \in Req : RequestSound(req[g])'
<1>1. Approved' = Approved
  BY DEF Approved
<1>2. SoundRow(NoAudit, signed, Approved)
  BY DEF SoundRow, NoAudit
<1>3. \A g \in Req : /\ SoundRow(req[g].audit, signed, Approved)
                     /\ req[g].pc \in Releasing => Approved
  BY DEF ApprovalInv, RequestSound
<1>4. Idle.audit = NoAudit /\ Idle.pc = "idle" /\ "idle" \notin Releasing
  BY DEF Idle, Releasing
<1>5. CASE UNCHANGED req
  BY <1>1, <1>3, <1>5 DEF RequestSound
<1>6. CASE Done(h)
  <2>1. \A g \in Req : req'[g] = IF g = h THEN Idle ELSE req[g]
    BY <1>6 DEF Done
  <2> QED
    BY <1>1, <1>2, <1>3, <1>4, <2>1 DEF RequestSound
<1>7. ASSUME NEW label, Goto(h, label), label \in Releasing => Approved
      PROVE  \A g \in Req : RequestSound(req[g])'
  <2>1. \A g \in Req : /\ req'[g].audit = req[g].audit
                       /\ req'[g].pc = IF g = h THEN label ELSE req[g].pc
    BY <1>7 DEF Goto, GoodRequest
  <2> QED
    BY <1>1, <1>3, <1>7, <2>1 DEF RequestSound
<1>8. ASSUME NEW label, label \in Releasing => Approved,
             req' = [req EXCEPT ![h] = [Idle EXCEPT !.pc = label]]
      PROVE  \A g \in Req : RequestSound(req[g])'
  <2>1. \A g \in Req : /\ req'[g].audit = IF g = h THEN NoAudit ELSE req[g].audit
                       /\ req'[g].pc = IF g = h THEN label ELSE req[g].pc
    BY <1>8 DEF Idle
  <2> QED
    BY <1>1, <1>2, <1>3, <1>8, <2>1 DEF RequestSound
<1> QED
  BY <1>5, <1>6, <1>7, <1>8

\* Nothing is approved, and nothing needs to be, before the submission.
LEMMA ApprovalInit == Init => ApprovalInv
  BY DEF Init, ApprovalInv, SoundRow, RequestSound, TaskSound, NoAudit, Idle, NewTask,
     Releasing, Released

\* One step per action.  Three need more than the copies' soundness: SubmitCreate, which
\* may approve, AuditSave, which may sign, and TaskStart, which relies on the status.
LEMMA ApprovalNext == TypeInv /\ ApprovalInv /\ [Next]_vars => ApprovalInv'
<1> SUFFICES ASSUME TypeInv, ApprovalInv, [Next]_vars PROVE ApprovalInv'
  OBVIOUS
<1>a. req \in [Req -> GoodRequest] /\ task \in [Task -> TaskRec] /\ audit \in GoodRow
  BY DEF TypeInv
<1>b. ASSUME UNCHANGED <<signed, autoPassed>>
      PROVE  Approved' = Approved
  BY <1>b DEF Approved
<1> USE DEF row, bounds, ghosts
<1>1. ASSUME NEW h \in Req, SubmitCreate(h) PROVE ApprovalInv'
  <2>1. PICK auto \in {"reject", "review", "pass"} :
          audit' = create_audit(auto) /\ autoPassed' = (auto = "pass")
    BY <1>1 DEF SubmitCreate
  <2>2. ~ autoPassed /\ signed' = signed
    BY <1>1 DEF SubmitCreate, ApprovalInv
  <2>3. /\ auto = "pass" => Approved'
        /\ Approved => Approved'
    BY <2>1, <2>2 DEF Approved
  <2>4. SoundRow(audit', signed', Approved')
    BY <2>1, <2>3, CreateSound
  <2>5. \A g \in Req : req'[g] = IF g = h THEN [Idle EXCEPT !.pc = "submit_status", !.audit = audit']
                                         ELSE req[g]
    BY <1>1, <1>a DEF SubmitCreate
  <2>6. \A g \in Req : RequestSound(req[g])'
    <3>1. ASSUME NEW g \in Req, g # h
          PROVE  SoundRow(req[g].audit, signed', Approved')
      BY <2>2, <2>3, SoundRowGrows DEF ApprovalInv, RequestSound
    <3>2. \A g \in Req : g # h => RequestSound(req[g])'
      BY <2>3, <2>5, <3>1 DEF ApprovalInv, RequestSound
    <3>3. RequestSound(req[h])'
      BY <2>4, <2>5 DEF RequestSound, Releasing, Idle
    <3> QED
      BY <3>2, <3>3
  <2> QED
    BY <1>1, <2>3, <2>4, <2>6 DEF SubmitCreate, ApprovalInv, TaskSound, Released
<1>2. ASSUME NEW h \in Req, AuditSave(h) PROVE ApprovalInv'
  <2> DEFINE old == req[h].audit
             new == operate(old, req[h].action)
  <2>1. /\ old \in GoodRow
        /\ req[h].action \in WorkflowAction
        /\ req[h].action = "pass" => old.status = "waiting"
        /\ SoundRow(old, signed, Approved)
    BY <1>2, <1>a DEF AuditSave, At, GoodRequest, ApprovalInv, RequestSound
  <2>2. /\ autoPassed' = autoPassed
        /\ audit' = new
        /\ signed' = IF req[h].action = "pass" THEN signed \cup {old.current} ELSE signed
    BY <1>2 DEF AuditSave
  <2>3. /\ Approved => Approved'
        /\ ChainGroups \subseteq signed' => Approved'
    BY <2>2 DEF Approved
  <2>4. SoundRow(new, signed', Approved')
    <3>1. CASE req[h].action = "pass"
      <4>1. new = operate_pass(old)
        BY <3>1 DEF operate
      <4> HIDE DEF old, new
      <4>2. SoundRow(operate_pass(old), signed \cup {old.current}, Approved')
        BY <2>1, <2>2, <2>3, <3>1, PassSound
      <4> QED
        BY <2>2, <3>1, <4>1, <4>2
    <3>2. CASE req[h].action = "reject"
      BY <2>1, <3>2, RefusalSound DEF operate
    <3>3. CASE req[h].action = "abort"
      BY <2>1, <3>3, RefusalSound DEF operate
    <3> QED
      BY <2>1, <3>1, <3>2, <3>3 DEF WorkflowAction
  <2>5. \A g \in Req : RequestSound(req[g])'
    <3>1. ASSUME NEW g \in Req
          PROVE  SoundRow(req[g].audit, signed', Approved')
      BY <2>2, <2>3, SoundRowGrows DEF ApprovalInv, RequestSound
    <3>2. SoundRow(NoAudit, signed', Approved')
      BY <2>1, RefusalSound
    <3>3. /\ \A g \in Req \ {h} : req'[g] = req[g]
          /\ req'[h].pc \notin Releasing
          /\ req'[h].audit \in {new, NoAudit}
      <4> HIDE DEF new
      <4>1. CASE new.status = "waiting"
        <5>1. req' = [req EXCEPT ![h] = Idle]
          BY <1>2, <4>1 DEF AuditSave, new
        <5> QED
          BY <1>a, <5>1 DEF Idle, Releasing
      <4>2. CASE new.status # "waiting"
        <5>1. PICK label \in {"audit_unschedule", "audit_status"} :
                req' = [req EXCEPT ![h].audit = new, ![h].pc = label]
          BY <1>2, <4>2 DEF AuditSave, new
        <5> QED
          BY <1>a, <5>1 DEF GoodRequest, Releasing
      <4> QED
        BY <4>1, <4>2
    <3>4. \A g \in Req : req[g].pc \in Releasing => Approved'
      BY <2>3 DEF ApprovalInv, RequestSound
    <3> QED
      BY <2>4, <3>1, <3>2, <3>3, <3>4 DEF RequestSound
  <2>6. UNCHANGED <<status, task, ran>>
    BY <1>2 DEF AuditSave
  <2>7. ASSUME NEW t \in Task
        PROVE  TaskSound(task[t])'
    BY <2>3, <2>6 DEF ApprovalInv, TaskSound
  <2> HIDE DEF new
  <2> QED
    BY <2>2, <2>3, <2>4, <2>5, <2>6, <2>7 DEF ApprovalInv
<1>3. ASSUME NEW h \in Req, AuditRead(h) PROVE ApprovalInv'
  <2>1. PICK action :
          req' = [req EXCEPT ![h] = [pc    |-> "audit_save", action |-> action,
                                     audit |-> audit,        seen   |-> status]]
    BY <1>3 DEF AuditRead
  <2>2. \A g \in Req : /\ req'[g].audit = IF g = h THEN audit ELSE req[g].audit
                       /\ req'[g].pc = IF g = h THEN "audit_save" ELSE req[g].pc
    BY <1>a, <2>1
  <2>3. Approved' = Approved
    BY <1>3, <1>b DEF AuditRead
  <2>4. \A g \in Req : RequestSound(req[g])'
    BY <1>3, <2>2, <2>3 DEF AuditRead, ApprovalInv, RequestSound, Releasing
  <2> QED
    BY <1>3, <2>3, <2>4 DEF AuditRead, ApprovalInv, TaskSound
<1>4. ASSUME NEW h \in Req, SubmitStatus(h) PROVE ApprovalInv'
  <2>1. Approved' = Approved
    BY <1>4, <1>b DEF SubmitStatus
  <2>3. status' \in Released => Approved
    BY <1>4 DEF SubmitStatus, ApprovalInv, RequestSound, At, SoundRow, Releasing, CanRelease, Released
  <2>2. \A g \in Req : RequestSound(req[g])'
    BY <1>4, <1>a, RequestsSound DEF SubmitStatus
  <2> QED
    BY <1>4, <2>1, <2>2, <2>3 DEF SubmitStatus, ApprovalInv, TaskSound, Released
<1>5. ASSUME NEW h \in Req, AuditUnschedule(h) PROVE ApprovalInv'
  <2>1. Approved' = Approved
    BY <1>5, <1>b DEF AuditUnschedule
  <2>2. \A g \in Req : RequestSound(req[g])'
    BY <1>5, <1>a, RequestsSound DEF AuditUnschedule, Releasing
  <2> QED
    BY <1>5, <2>1, <2>2 DEF AuditUnschedule, ApprovalInv, TaskSound, Released
<1>6. ASSUME NEW h \in Req, AuditStatus(h) PROVE ApprovalInv'
  <2>1. Approved' = Approved
    BY <1>6, <1>b DEF AuditStatus
  <2>3. status' \in Released => Approved
    BY <1>6 DEF AuditStatus, ApprovalInv, RequestSound, At, SoundRow, Releasing, CanRelease, Released
  <2>2. \A g \in Req : RequestSound(req[g])'
    BY <1>6, <1>a, RequestsSound DEF AuditStatus
  <2> QED
    BY <1>6, <2>1, <2>2, <2>3 DEF AuditStatus, ApprovalInv, TaskSound, Released
<1>7. ASSUME NEW h \in Req, ExecuteCheck(h) PROVE ApprovalInv'
  <2>1. Approved' = Approved
    BY <1>7, <1>b DEF ExecuteCheck
  <2>3. Approved
    BY <1>7 DEF ExecuteCheck, ApprovalInv, RequestSound, At, SoundRow, Releasing, CanRelease, Released
  <2>2. \A g \in Req : RequestSound(req[g])'
    BY <1>7, <1>a, <2>3, RequestsSound DEF ExecuteCheck
  <2> QED
    BY <1>7, <2>1, <2>2, <2>3 DEF ExecuteCheck, ApprovalInv, TaskSound, Released
<1>8. ASSUME NEW h \in Req, ExecuteMark(h) PROVE ApprovalInv'
  <2>1. Approved' = Approved
    BY <1>8, <1>b DEF ExecuteMark
  <2>3. Approved
    BY <1>8 DEF ExecuteMark, ApprovalInv, RequestSound, At, SoundRow, Releasing, CanRelease, Released
  <2>2. \A g \in Req : RequestSound(req[g])'
    BY <1>8, <1>a, <2>3, RequestsSound DEF ExecuteMark
  <2> QED
    BY <1>8, <2>1, <2>2, <2>3 DEF ExecuteMark, ApprovalInv, TaskSound, Released
<1>9. ASSUME NEW h \in Req, ExecuteUnschedule(h) PROVE ApprovalInv'
  <2>1. Approved' = Approved
    BY <1>9, <1>b DEF ExecuteUnschedule
  <2>3. Approved
    BY <1>9 DEF ExecuteUnschedule, ApprovalInv, RequestSound, At, SoundRow, Releasing, CanRelease, Released
  <2>2. \A g \in Req : RequestSound(req[g])'
    BY <1>9, <1>a, <2>3, RequestsSound DEF ExecuteUnschedule
  <2> QED
    BY <1>9, <2>1, <2>2, <2>3 DEF ExecuteUnschedule, ApprovalInv, TaskSound, Released
<1>10. ASSUME NEW h \in Req, ExecuteEnqueue(h) PROVE ApprovalInv'
  <2>1. Approved' = Approved
    BY <1>10, <1>b DEF ExecuteEnqueue
  <2>2. \A g \in Req : RequestSound(req[g])'
    BY <1>10, <1>a, RequestsSound DEF ExecuteEnqueue
  <2>3. \A t \in Task : TaskSound(task[t])'
    BY <1>10, <1>a, <2>1 DEF ExecuteEnqueue, Enqueue, ApprovalInv, TaskSound, TaskRec
  <2> QED
    BY <1>10, <2>1, <2>2, <2>3 DEF ExecuteEnqueue, ApprovalInv
<1>11. ASSUME NEW h \in Req, ExecuteManual(h) PROVE ApprovalInv'
  <2>1. Approved' = Approved
    BY <1>11, <1>b DEF ExecuteManual
  <2>3. Approved
    BY <1>11 DEF ExecuteManual, ApprovalInv, RequestSound, At, SoundRow, Releasing, CanRelease, Released
  <2>2. \A g \in Req : RequestSound(req[g])'
    BY <1>11, <1>a, <2>3, RequestsSound DEF ExecuteManual
  <2> QED
    BY <1>11, <2>1, <2>2, <2>3 DEF ExecuteManual, ApprovalInv, TaskSound, Released
<1>12. ASSUME NEW h \in Req, TimingCheck(h) PROVE ApprovalInv'
  <2>1. Approved' = Approved
    BY <1>12, <1>b DEF TimingCheck
  <2>3. Approved
    BY <1>12 DEF TimingCheck, ApprovalInv, RequestSound, At, SoundRow, Releasing, CanRelease, Released
  <2>2. \A g \in Req : RequestSound(req[g])'
    BY <1>12, <1>a, <2>3, RequestsSound DEF TimingCheck
  <2> QED
    BY <1>12, <2>1, <2>2, <2>3 DEF TimingCheck, ApprovalInv, TaskSound, Released
<1>13. ASSUME NEW h \in Req, TimingSave(h) PROVE ApprovalInv'
  <2>1. Approved' = Approved
    BY <1>13, <1>b DEF TimingSave
  <2>3. Approved
    BY <1>13 DEF TimingSave, ApprovalInv, RequestSound, At, SoundRow, Releasing, CanRelease, Released
  <2>2. \A g \in Req : RequestSound(req[g])'
    BY <1>13, <1>a, <2>3, RequestsSound DEF TimingSave
  <2> QED
    BY <1>13, <2>1, <2>2, <2>3 DEF TimingSave, ApprovalInv, TaskSound, Released
<1>14. ASSUME NEW h \in Req, RequestDies(h) PROVE ApprovalInv'
  <2>1. Approved' = Approved
    BY <1>14, <1>b DEF RequestDies
  <2>2. \A g \in Req : RequestSound(req[g])'
    BY <1>14, <1>a, RequestsSound DEF RequestDies
  <2> QED
    BY <1>14, <2>1, <2>2 DEF RequestDies, ApprovalInv, TaskSound, Released
<1>15. ASSUME ScheduleFire PROVE ApprovalInv'
  <2>1. Approved' = Approved
    BY <1>15, <1>b DEF ScheduleFire
  <2>2. \A g \in Req : RequestSound(req[g])'
    BY <1>15, <2>1 DEF ScheduleFire, ApprovalInv, RequestSound
  <2>3. \A t \in Task : TaskSound(task[t])'
    BY <1>15, <1>a, <2>1 DEF ScheduleFire, Enqueue, ApprovalInv, TaskSound, TaskRec
  <2> QED
    BY <1>15, <2>1, <2>2, <2>3 DEF ScheduleFire, ApprovalInv
<1>16. ASSUME NEW t \in Task, TaskStart(t) PROVE ApprovalInv'
  <2>1. Approved' = Approved
    BY <1>16, <1>b DEF TaskStart
  <2>2. \A g \in Req : RequestSound(req[g])'
    BY <1>16, <2>1 DEF TaskStart, ApprovalInv, RequestSound
  <2>3. Approved
    BY <1>16 DEF TaskStart, ApprovalInv, TaskSound, MayExecute, Released
  <2>4. \A s \in Task : TaskSound(task[s])'
    BY <1>16, <1>a, <2>1, <2>3 DEF TaskStart, SetTask, ApprovalInv, TaskSound, TaskRec, NewTask
  <2> QED
    BY <1>16, <2>1, <2>2, <2>4, <2>3 DEF TaskStart, ApprovalInv, Released
<1>17. ASSUME NEW t \in Task, TaskRefuse(t) PROVE ApprovalInv'
  <2>1. Approved' = Approved
    BY <1>17, <1>b DEF TaskRefuse
  <2>2. \A g \in Req : RequestSound(req[g])'
    BY <1>17, <2>1 DEF TaskRefuse, ApprovalInv, RequestSound
  <2>4. \A s \in Task : TaskSound(task[s])'
    BY <1>17, <1>a, <2>1 DEF TaskRefuse, SetTask, ApprovalInv, TaskSound, TaskRec, NewTask
  <2> QED
    BY <1>17, <2>1, <2>2, <2>4 DEF TaskRefuse, ApprovalInv, Released
<1>18. ASSUME NEW t \in Task, TaskReturn(t) PROVE ApprovalInv'
  <2>1. Approved' = Approved
    BY <1>18, <1>b DEF TaskReturn
  <2>2. \A g \in Req : RequestSound(req[g])'
    BY <1>18, <2>1 DEF TaskReturn, ApprovalInv, RequestSound
  <2>4. \A s \in Task : TaskSound(task[s])'
    BY <1>18, <1>a, <2>1 DEF TaskReturn, SetTask, ApprovalInv, TaskSound, TaskRec, NewTask
  <2> QED
    BY <1>18, <2>1, <2>2, <2>4 DEF TaskReturn, ApprovalInv, Released
<1>19. ASSUME NEW t \in Task, ExportCopy(t) PROVE ApprovalInv'
  <2>1. Approved' = Approved
    BY <1>19, <1>b DEF ExportCopy
  <2>2. \A g \in Req : RequestSound(req[g])'
    BY <1>19, <2>1 DEF ExportCopy, ApprovalInv, RequestSound
  <2>3. Approved /\ status # "absent"
    BY <1>19 DEF ExportCopy, ApprovalInv, TaskSound, MayExecute, Released
  <2>4. \A s \in Task : TaskSound(task[s])'
    BY <1>19, <1>a, <2>1, <2>3 DEF ExportCopy, SetTask, ApprovalInv, TaskSound, TaskRec, NewTask
  <2> QED
    BY <1>19, <2>1, <2>2, <2>4, <2>3 DEF ExportCopy, ApprovalInv, Released
<1>20. ASSUME NEW t \in Task, ExportSave(t) PROVE ApprovalInv'
  <2>1. Approved' = Approved
    BY <1>20, <1>b DEF ExportSave
  <2>2. \A g \in Req : RequestSound(req[g])'
    BY <1>20, <2>1 DEF ExportSave, ApprovalInv, RequestSound
  <2>3. Approved /\ status' # "absent"
    BY <1>20 DEF ExportSave, ApprovalInv, TaskSound, MayExecute, Released
  <2>4. \A s \in Task : TaskSound(task[s])'
    BY <1>20, <1>a, <2>1, <2>3 DEF ExportSave, SetTask, ApprovalInv, TaskSound, TaskRec, NewTask
  <2> QED
    BY <1>20, <2>1, <2>2, <2>4, <2>3 DEF ExportSave, ApprovalInv, Released
<1>21. ASSUME NEW t \in Task, HookRead(t) PROVE ApprovalInv'
  <2>1. Approved' = Approved
    BY <1>21, <1>b DEF HookRead
  <2>2. \A g \in Req : RequestSound(req[g])'
    BY <1>21, <2>1 DEF HookRead, ApprovalInv, RequestSound
  <2>3. Approved
    BY <1>21 DEF HookRead, ApprovalInv, TaskSound, MayExecute, Released
  <2>4. \A s \in Task : TaskSound(task[s])'
    BY <1>21, <1>a, <2>1, <2>3 DEF HookRead, SetTask, ApprovalInv, TaskSound, TaskRec, NewTask
  <2> QED
    BY <1>21, <2>1, <2>2, <2>4, <2>3 DEF HookRead, ApprovalInv, Released
<1>22. ASSUME NEW t \in Task, HookRefuse(t) PROVE ApprovalInv'
  <2>1. Approved' = Approved
    BY <1>22, <1>b DEF HookRefuse
  <2>2. \A g \in Req : RequestSound(req[g])'
    BY <1>22, <2>1 DEF HookRefuse, ApprovalInv, RequestSound
  <2>4. \A s \in Task : TaskSound(task[s])'
    BY <1>22, <1>a, <2>1 DEF HookRefuse, SetTask, ApprovalInv, TaskSound, TaskRec, NewTask
  <2> QED
    BY <1>22, <2>1, <2>2, <2>4 DEF HookRefuse, ApprovalInv, Released
<1>23. ASSUME NEW t \in Task, HookSave(t) PROVE ApprovalInv'
  <2>1. Approved' = Approved
    BY <1>23, <1>b DEF HookSave
  <2>2. \A g \in Req : RequestSound(req[g])'
    BY <1>23, <2>1 DEF HookSave, ApprovalInv, RequestSound
  <2>3. Approved
    BY <1>23 DEF HookSave, ApprovalInv, TaskSound, MayExecute, Released
  <2>4. \A s \in Task : TaskSound(task[s])'
    BY <1>23, <1>a, <2>1, <2>3 DEF HookSave, SetTask, ApprovalInv, TaskSound, TaskRec, NewTask
  <2> QED
    BY <1>23, <2>1, <2>2, <2>4, <2>3 DEF HookSave, ApprovalInv, Released
<1>24. ASSUME NEW t \in Task, TaskLost(t) PROVE ApprovalInv'
  <2>1. Approved' = Approved
    BY <1>24, <1>b DEF TaskLost
  <2>2. \A g \in Req : RequestSound(req[g])'
    BY <1>24, <2>1 DEF TaskLost, ApprovalInv, RequestSound
  <2>4. \A s \in Task : TaskSound(task[s])'
    BY <1>24, <1>a, <2>1 DEF TaskLost, SetTask, ApprovalInv, TaskSound, TaskRec, NewTask
  <2> QED
    BY <1>24, <2>1, <2>2, <2>4 DEF TaskLost, ApprovalInv, Released
<1>25. ASSUME UNCHANGED vars PROVE ApprovalInv'
  <2>1. Approved' = Approved
    BY <1>25, <1>b DEF vars
  <2> QED
    BY <1>25, <2>1 DEF vars, ApprovalInv, RequestSound, TaskSound
<1> QED
  BY <1>1, <1>2, <1>3, <1>4, <1>5, <1>6, <1>7, <1>8, <1>9, <1>10, <1>11, <1>12, <1>13, <1>14, <1>15, <1>16, <1>17, <1>18, <1>19, <1>20, <1>21, <1>22, <1>23, <1>24, <1>25
     DEF Next, SubmitStep, AuditStep, ReleaseStep, TaskStep, HookStep

\* The inductive invariant of the approval holds throughout.
LEMMA ApprovalCorrect == Spec => [](TypeInv /\ ApprovalInv)
  BY TypeInit, TypeNext, ApprovalInit, ApprovalNext, PTL DEF Spec

\* No SQL of a ticket runs before the ticket is approved: whatever the requests, the
\* stale copies they save, the tasks, the late saves of an export and the deaths do.
THEOREM RunsAreApproved == Spec => []ApprovedBeforeRun
<1>1. ApprovalInv => ApprovedBeforeRun
  BY DEF ApprovalInv, ApprovedBeforeRun
<1> QED
  BY ApprovalCorrect, <1>1, PTL

\* Every node the ticket's page shows as passed has been passed by its group.
THEOREM PassedNodesAreSigned == Spec => []ShownPassedWereSigned
<1>1. ASSUME TypeInv, ApprovalInv
      PROVE  ShownPassedWereSigned
  <2> SUFFICES ASSUME NEW i \in DOMAIN Chain, get_review_info(audit)[i] = "passed"
               PROVE  Chain[i] \in signed
    BY DEF ShownPassedWereSigned
  <2>1. /\ audit.status = "waiting"
        /\ ~ \E j \in 1..i : Chain[j] = audit.current
    BY ChainStart DEF get_review_info
  <2>2. audit.current \in ChainGroups
    BY <1>1, <2>1 DEF TypeInv, GoodRow
  <2>3. /\ ChainIndex(audit.current) \in DOMAIN Chain
        /\ Chain[ChainIndex(audit.current)] = audit.current
    BY <2>2, ChainIndexFirst
  <2>4. i \in 1..(ChainIndex(audit.current) - 1)
    BY <2>1, <2>3, ChainStart
  <2> QED
    BY <1>1, <2>1, <2>4 DEF ApprovalInv, SoundRow
<1> QED
  BY ApprovalCorrect, <1>1, PTL

-----------------------------------------------------------------------------
(* Nobody is forgotten.  The two statuses nothing but a task leads out of  *)
(* have that task, or a request that is about to create it.                *)

OwnerInv ==
  /\ ExecutingHasOwner
  /\ QueuingWillStart
  /\ \A t \in Task : task[t].st = "copied" => export

\* Before the submission the ticket neither waits for a task nor runs in one.
LEMMA OwnerInit == Init => OwnerInv
  BY DEF Init, OwnerInv, ExecutingHasOwner, QueuingWillStart, NewTask

\* What the two properties say survives a step of a request that touches no task and
\* neither marks the ticket as queued nor was about to put it in the queue.
LEMMA OwnerKept ==
  ASSUME NEW h \in Req, req \in [Req -> GoodRequest], OwnerInv,
         UNCHANGED <<export, task, deaths>>,
         status' = status \/ status' \notin {"workflow_executing", "workflow_queuing"},
         req[h].pc \notin {"execute_unschedule", "execute_enqueue"},
         \A g \in Req \ {h} : req'[g] = req[g]
  PROVE  OwnerInv'
  BY DEF OwnerInv, ExecutingHasOwner, QueuingWillStart, NothingLost

\* Every step leaves a queuing ticket with a task to come and an executing one with a
\* hook to come: the mark, the enqueue, the start, the hook, and the late whole-row saves.
LEMMA OwnerNext == TypeInv /\ OwnerInv /\ [Next]_vars => OwnerInv'
<1> SUFFICES ASSUME TypeInv, OwnerInv, [Next]_vars PROVE OwnerInv'
  OBVIOUS
<1>a. /\ req \in [Req -> GoodRequest]
      /\ task \in [Task -> TaskRec]
      /\ deaths \in Nat
  BY BoundAssumption DEF TypeInv
<1> USE DEF row, bounds, ghosts
<1>1. ASSUME NEW h \in Req, SubmitCreate(h) PROVE OwnerInv'
  <2>1. \A g \in Req \ {h} : req'[g] = req[g]
    BY <1>1, <1>a DEF SubmitCreate, Done, Goto
  <2> QED
    BY <1>1, <1>a, <2>1, OwnerKept DEF SubmitCreate, At
<1>2. ASSUME NEW h \in Req, SubmitStatus(h) PROVE OwnerInv'
  <2>1. \A g \in Req \ {h} : req'[g] = req[g]
    BY <1>2, <1>a DEF SubmitStatus, Done, Goto
  <2> QED
    BY <1>2, <1>a, <2>1, OwnerKept DEF SubmitStatus, At
<1>3. ASSUME NEW h \in Req, AuditRead(h) PROVE OwnerInv'
  <2>1. \A g \in Req \ {h} : req'[g] = req[g]
    BY <1>3, <1>a DEF AuditRead, Done, Goto
  <2> QED
    BY <1>3, <1>a, <2>1, OwnerKept DEF AuditRead, At
<1>4. ASSUME NEW h \in Req, AuditSave(h) PROVE OwnerInv'
  <2>1. \A g \in Req \ {h} : req'[g] = req[g]
    BY <1>4, <1>a DEF AuditSave
  <2> QED
    BY <1>4, <1>a, <2>1, OwnerKept DEF AuditSave, At
<1>5. ASSUME NEW h \in Req, AuditUnschedule(h) PROVE OwnerInv'
  <2>1. \A g \in Req \ {h} : req'[g] = req[g]
    BY <1>5, <1>a DEF AuditUnschedule, Done, Goto
  <2> QED
    BY <1>5, <1>a, <2>1, OwnerKept DEF AuditUnschedule, At
<1>6. ASSUME NEW h \in Req, AuditStatus(h) PROVE OwnerInv'
  <2>1. \A g \in Req \ {h} : req'[g] = req[g]
    BY <1>6, <1>a DEF AuditStatus, Done, Goto
  <2> QED
    BY <1>6, <1>a, <2>1, OwnerKept DEF AuditStatus, At
<1>7. ASSUME NEW h \in Req, ExecuteCheck(h) PROVE OwnerInv'
  <2>1. \A g \in Req \ {h} : req'[g] = req[g]
    BY <1>7, <1>a DEF ExecuteCheck, Done, Goto
  <2> QED
    BY <1>7, <1>a, <2>1, OwnerKept DEF ExecuteCheck, At
<1>8. ASSUME NEW h \in Req, ExecuteMark(h) PROVE OwnerInv'
  <2>1. req'[h].pc = "execute_unschedule"
    BY <1>8, <1>a DEF ExecuteMark, Goto, GoodRequest
  <2> QED
    BY <1>8, <2>1 DEF ExecuteMark, OwnerInv, ExecutingHasOwner, QueuingWillStart, NothingLost
<1>9. ASSUME NEW h \in Req, ExecuteUnschedule(h) PROVE OwnerInv'
  <2>1. req'[h].pc = "execute_enqueue"
    BY <1>9, <1>a DEF ExecuteUnschedule, Goto, GoodRequest
  <2> QED
    BY <1>9, <2>1 DEF ExecuteUnschedule, OwnerInv, ExecutingHasOwner, QueuingWillStart, NothingLost
<1>10. ASSUME NEW h \in Req, ExecuteEnqueue(h) PROVE OwnerInv'
  <2>1. PICK t \in Task : task[t].st = "free" /\ task' = [task EXCEPT ![t].st = "queued"]
    BY <1>10 DEF ExecuteEnqueue, Enqueue
  <2>2. \A s \in Task : task'[s].st = IF s = t THEN "queued" ELSE task[s].st
    BY <1>a, <2>1 DEF TaskRec
  <2> QED
    BY <1>10, <2>1, <2>2 DEF ExecuteEnqueue, OwnerInv, ExecutingHasOwner, QueuingWillStart, NothingLost,
       Active
<1>11. ASSUME NEW h \in Req, ExecuteManual(h) PROVE OwnerInv'
  <2>1. \A g \in Req \ {h} : req'[g] = req[g]
    BY <1>11, <1>a DEF ExecuteManual, Done, Goto
  <2> QED
    BY <1>11, <1>a, <2>1, OwnerKept DEF ExecuteManual, At
<1>12. ASSUME NEW h \in Req, TimingCheck(h) PROVE OwnerInv'
  <2>1. \A g \in Req \ {h} : req'[g] = req[g]
    BY <1>12, <1>a DEF TimingCheck, Done, Goto
  <2> QED
    BY <1>12, <1>a, <2>1, OwnerKept DEF TimingCheck, At
<1>13. ASSUME NEW h \in Req, TimingSave(h) PROVE OwnerInv'
  <2>1. \A g \in Req \ {h} : req'[g] = req[g]
    BY <1>13, <1>a DEF TimingSave, Done, Goto
  <2> QED
    BY <1>13, <1>a, <2>1, OwnerKept DEF TimingSave, At
<1>14. ASSUME NEW h \in Req, RequestDies(h) PROVE OwnerInv'
  <2>1. deaths' # 0 /\ UNCHANGED <<status, task, export>>
    BY <1>14, <1>a DEF RequestDies
  <2> QED
    BY <2>1 DEF OwnerInv, ExecutingHasOwner, QueuingWillStart, NothingLost
<1>15. ASSUME ScheduleFire PROVE OwnerInv'
  <2>1. PICK t \in Task : task[t].st = "free" /\ task' = [task EXCEPT ![t].st = "queued"]
    BY <1>15 DEF ScheduleFire, Enqueue
  <2>2. \A s \in Task : task'[s].st = IF s = t THEN "queued" ELSE task[s].st
    BY <1>a, <2>1 DEF TaskRec
  <2> QED
    BY <1>15, <2>1, <2>2 DEF ScheduleFire, OwnerInv, ExecutingHasOwner, QueuingWillStart,
       NothingLost, Active
<1>16. ASSUME NEW t \in Task, TaskStart(t) PROVE OwnerInv'
  <2>1. \A s \in Task : task'[s].st = IF s = t THEN "running" ELSE task[s].st
    BY <1>16, <1>a DEF TaskStart, TaskRec, SetTask
  <2> QED
    BY <1>16, <1>a, <2>1 DEF TaskStart, MayExecute, OwnerInv, ExecutingHasOwner, QueuingWillStart,
       NothingLost, Active
<1>17. ASSUME NEW t \in Task, TaskRefuse(t) PROVE OwnerInv'
  <2>1. \A s \in Task : task'[s].st = IF s = t THEN "refused" ELSE task[s].st
    BY <1>17, <1>a DEF TaskRefuse, TaskRec, SetTask
  <2> QED
    BY <1>17, <1>a, <2>1 DEF TaskRefuse, MayExecute, OwnerInv, ExecutingHasOwner, QueuingWillStart,
       NothingLost, Active
<1>18. ASSUME NEW t \in Task, TaskReturn(t) PROVE OwnerInv'
  <2>1. \A s \in Task : task'[s].st = IF s = t THEN "returned" ELSE task[s].st
    BY <1>18, <1>a DEF TaskReturn, TaskRec, NewTask
  <2> QED
    BY <1>18, <1>a, <2>1 DEF TaskReturn, OwnerInv, ExecutingHasOwner, QueuingWillStart,
       NothingLost, Active
<1>19. ASSUME NEW t \in Task, ExportCopy(t) PROVE OwnerInv'
  <2>1. \A s \in Task : task'[s].st = IF s = t THEN "copied" ELSE task[s].st
    BY <1>19, <1>a DEF ExportCopy, TaskRec
  <2> QED
    BY <1>19, <1>a, <2>1 DEF ExportCopy, OwnerInv, ExecutingHasOwner, QueuingWillStart,
       NothingLost, Active
<1>20. ASSUME NEW t \in Task, ExportSave(t) PROVE OwnerInv'
  <2>1. \A s \in Task : task'[s].st = IF s = t THEN "returned" ELSE task[s].st
    BY <1>20, <1>a DEF ExportSave, TaskRec, NewTask
  <2> QED
    BY <1>20, <1>a, <2>1 DEF ExportSave, OwnerInv, ExecutingHasOwner, QueuingWillStart,
       NothingLost, Active
<1>21. ASSUME NEW t \in Task, HookRead(t) PROVE OwnerInv'
  <2>1. \A s \in Task : task'[s].st = IF s = t THEN "hook" ELSE task[s].st
    BY <1>21, <1>a DEF HookRead, TaskRec, SetTask
  <2> QED
    BY <1>21, <1>a, <2>1 DEF HookRead, OwnerInv, ExecutingHasOwner, QueuingWillStart,
       NothingLost, Active, Finished
<1>22. ASSUME NEW t \in Task, HookRefuse(t) PROVE OwnerInv'
  <2>1. \A s \in Task : task'[s].st = IF s = t THEN "closed" ELSE task[s].st
    BY <1>22, <1>a DEF HookRefuse, TaskRec, SetTask
  <2> QED
    BY <1>22, <1>a, <2>1 DEF HookRefuse, OwnerInv, ExecutingHasOwner, QueuingWillStart,
       NothingLost, Active, Finished
<1>23. ASSUME NEW t \in Task, HookSave(t) PROVE OwnerInv'
  <2>1. \A s \in Task : task'[s].st = IF s = t THEN "closed" ELSE task[s].st
    BY <1>23, <1>a DEF HookSave, TaskRec, SetTask
  <2> QED
    BY <1>23, <1>a, <2>1 DEF HookSave, OwnerInv, ExecutingHasOwner, QueuingWillStart,
       NothingLost, Active
<1>24. ASSUME NEW t \in Task, TaskLost(t) PROVE OwnerInv'
  <2>1. \A s \in Task : task'[s].st = IF s = t THEN "lost" ELSE task[s].st
    BY <1>24, <1>a DEF TaskLost, TaskRec, NewTask
  <2> QED
    BY <1>24, <1>a, <2>1 DEF TaskLost, OwnerInv, ExecutingHasOwner, QueuingWillStart,
       NothingLost, Active
<1>25. ASSUME UNCHANGED vars PROVE OwnerInv'
  BY <1>25 DEF vars, OwnerInv, ExecutingHasOwner, QueuingWillStart, NothingLost
<1> QED
  BY <1>1, <1>2, <1>3, <1>4, <1>5, <1>6, <1>7, <1>8, <1>9, <1>10, <1>11, <1>12, <1>13, <1>14, <1>15, <1>16, <1>17, <1>18, <1>19, <1>20, <1>21, <1>22, <1>23, <1>24, <1>25
     DEF Next, SubmitStep, AuditStep, ReleaseStep, TaskStep, HookStep

\* The inductive invariant of the ownership holds throughout.
LEMMA OwnerCorrect == Spec => []OwnerInv
  BY TypeInit, TypeNext, OwnerInit, OwnerNext, PTL DEF Spec

\* A ticket in workflow_executing has a task whose hook is still to come, unless a
\* worker or the monitor died with it.
THEOREM ExecutingIsOwned == Spec => []ExecutingHasOwner
<1>1. OwnerInv => ExecutingHasOwner
  BY DEF OwnerInv
<1> QED
  BY OwnerCorrect, <1>1, PTL

\* A ticket in workflow_queuing has its task in the queue, or a request on the way to
\* put it there.
THEOREM QueuingIsServed == Spec => []QueuingWillStart
<1>1. OwnerInv => QueuingWillStart
  BY DEF OwnerInv
<1> QED
  BY OwnerCorrect, <1>1, PTL
-----------------------------------------------------------------------------
(* The calm day.  What the handlers promise when requests come one after   *)
(* the other, and no task crosses a release, rests on one invariant: who   *)
(* is at work holds a copy that is still true, nothing is released before  *)
(* the last signature, and at most one task is under way, with the         *)
(* schedule disarmed.  It is kept by every step until the first crossing.  *)

\* What a state is like that does not cross.
Calm == OneAtATime /\ (TaskUnderWay => Busy \subseteq Reviewing)

UnderWay(t) == task[t].st = "queued" \/ task[t].st \in Active
Refused == audit.status \in {"rejected", "aborted"}

\* The statuses a ticket has once its SQL was run.
Spent == {"workflow_executing", "workflow_finish", "workflow_exception", "workflow_abort"}

OneBusy == \A g, h \in Busy : g = h

RequestCalm(r) ==
  /\ r.pc \in {"submit_status", "audit_save", "audit_unschedule", "audit_status"} => r.audit = audit
  /\ r.pc = "submit_status" => status = "workflow_manreviewing"
  /\ r.pc = "audit_save" => audit.status \in {"waiting", "passed"}
  /\ r.pc = "audit_unschedule" => Refused
  /\ r.pc = "audit_status" =>
       Refused \/ (audit.status = "passed" /\ status = "workflow_manreviewing")
  /\ r.pc \in {"execute_mark", "execute_finish", "timing_save"} => CanRelease
  /\ r.pc \in {"execute_unschedule", "execute_enqueue"} => status = "workflow_queuing"
  /\ r.pc = "execute_enqueue" => ~ armed

TaskCalm(t) ==
  /\ UnderWay(t) => ~ armed /\ \A s \in Task : UnderWay(s) => s = t
  /\ task[t].st \in {"running", "copied", "returned", "hook"} => t \in ran
  /\ task[t].st = "copied" => task[t].copy \in Spent
  /\ status = "workflow_executing" => task[t].st \notin {"queued", "refused"}

TicketCalm ==
  /\ audit.status \in {"none", "waiting"} =>
       status \in {"absent", "workflow_manreviewing"} /\ ~ autoPassed
  /\ status = "absent" => audit.status = "none"
  /\ status = "workflow_executing" => ~ armed
  /\ ran # {} => status \in Spent
  /\ \A s, t \in ran : s = t
  /\ ResultIsOfRun

CalmInv ==
  /\ OneBusy
  /\ TaskUnderWay => Busy \subseteq Reviewing
  /\ \A h \in Req : RequestCalm(req[h])
  /\ \A t \in Task : TaskCalm(t)
  /\ TicketCalm

\* A step is taken by one request, or by none.
LEMMA OneRequestMoves ==
  ASSUME TypeInv, [Next]_vars
  PROVE  \E h \in Req : \A g \in Req \ {h} : req'[g] = req[g]
<1>a. req \in [Req -> GoodRequest] /\ Req # {}
  BY BoundAssumption DEF TypeInv
<1>1. CASE \E h \in Req : SubmitStep(h) \/ AuditStep(h) \/ ReleaseStep(h) \/ RequestDies(h)
  <2>1. PICK h \in Req : SubmitStep(h) \/ AuditStep(h) \/ ReleaseStep(h) \/ RequestDies(h)
    BY <1>1
  <2>2. ASSUME NEW g \in Req \ {h}
        PROVE  req'[g] = req[g]
    <3> USE <1>a DEF Done, Goto
    <3>1. CASE SubmitStep(h)
      BY <3>1 DEF SubmitStep, SubmitCreate, SubmitStatus
    <3>2. CASE AuditStep(h)
      BY <3>2 DEF AuditStep, AuditRead, AuditSave, AuditUnschedule, AuditStatus
    <3>3. CASE ReleaseStep(h)
      BY <3>3 DEF ReleaseStep, ExecuteCheck, ExecuteMark, ExecuteUnschedule, ExecuteEnqueue,
         ExecuteManual, TimingCheck, TimingSave
    <3>4. CASE RequestDies(h)
      BY <3>4 DEF RequestDies
    <3> QED
      BY <2>1, <3>1, <3>2, <3>3, <3>4
  <2> QED
    BY <2>2
<1>2. CASE ScheduleFire \/ (\E t \in Task : TaskStep(t) \/ HookStep(t) \/ TaskLost(t))
           \/ UNCHANGED vars
  BY <1>2, <1>a DEF ScheduleFire, TaskStep, HookStep, TaskLost, TaskStart, TaskRefuse, TaskReturn,
     ExportCopy, ExportSave, HookRead, HookRefuse, HookSave, vars
<1> QED
  BY <1>1, <1>2 DEF Next

\* So at most one request is at work: Busy grows by one at a time, is finite, and has at
\* most one member when its cardinality says so.
LEMMA OneBusyKept ==
  ASSUME TypeInv, OneBusy, [Next]_vars, OneAtATime'
  PROVE  OneBusy'
<1>1. PICK h \in Req : \A g \in Req \ {h} : req'[g] = req[g]
  BY OneRequestMoves
<1>2. Busy' \subseteq Busy \cup {h}
  BY <1>1 DEF Busy, At
<1>3. IsFiniteSet(Busy)
  <2>1. CASE Busy = {}
    BY <2>1, FS_EmptySet
  <2>2. CASE Busy # {}
    <3>1. PICK g \in Busy : Busy = {g}
      BY <2>2 DEF OneBusy
    <3> QED
      BY <3>1, FS_Singleton
  <2> QED
    BY <2>1, <2>2
<1>4. IsFiniteSet(Busy')
  BY <1>2, <1>3, FS_AddElement, FS_Subset
<1>5. ASSUME NEW g \in Busy', NEW k \in Busy', g # k
      PROVE  FALSE
  <2>1. IsFiniteSet({g}) /\ Cardinality({g}) = 1
    BY FS_Singleton
  <2>2. Cardinality({g} \cup {k}) = 2
    BY <1>5, <2>1, FS_AddElement
  <2>3. Cardinality({g} \cup {k}) <= Cardinality(Busy')
    BY <1>4, <1>5, FS_Subset
  <2>4. Cardinality(Busy') <= 1 /\ Cardinality(Busy') \in Nat
    BY <1>4, FS_CardinalityType DEF OneAtATime
  <2> QED
    BY <2>2, <2>3, <2>4
<1> QED
  BY <1>5 DEF OneBusy

\* Nothing is at work before the submission.
LEMMA CalmInvInit == Init => CalmInv
<1> SUFFICES ASSUME Init
             PROVE  CalmInv
  OBVIOUS
<1>1. \A h \in Req : req[h].pc = "idle"
  BY DEF Init, Idle
<1>2. \A t \in Task : task[t].st = "free"
  BY DEF Init, NewTask
<1>3. OneBusy /\ ~ TaskUnderWay
  BY <1>1, <1>2 DEF OneBusy, Busy, At, TaskUnderWay, Active
<1>4. \A h \in Req : RequestCalm(req[h])
  BY <1>1 DEF RequestCalm
<1>5. \A t \in Task : TaskCalm(t)
  BY <1>2 DEF TaskCalm, UnderWay, Active
<1>6. TicketCalm
  BY DEF Init, TicketCalm, NoAudit, ResultIsOfRun
<1> QED
  BY <1>3, <1>4, <1>5, <1>6 DEF CalmInv

\* While a request is at work the others are not, before its step and after it.
LEMMA OthersIdle ==
  ASSUME TypeInv, OneBusy, OneBusy', NEW h \in Req,
         \A g \in Req \ {h} : req'[g] = req[g],
         h \in Busy \/ h \in Busy'
  PROVE  \A g \in Req \ {h} : req[g].pc = "idle" /\ req'[g].pc = "idle"
  BY DEF OneBusy, Busy, At

\* A step of a request that touches no task keeps what is known of the tasks, if the ticket
\* neither begins to run nor has its schedule armed with a task under way.
LEMMA TasksCalmKept ==
  ASSUME \A t \in Task : TaskCalm(t), UNCHANGED <<task, ran>>,
         status' = "workflow_executing" => status = "workflow_executing",
         armed' => armed \/ ~ TaskUnderWay
  PROVE  \A t \in Task : TaskCalm(t)'
<1>1. \A t \in Task : UnderWay(t) => TaskUnderWay
  BY DEF UnderWay, TaskUnderWay
<1> QED
  BY <1>1 DEF TaskCalm, UnderWay

\* An idle request is calm whatever happens, so that after a step of one request only this one counts.
LEMMA RequestsCalm ==
  ASSUME NEW h \in Req, \A g \in Req \ {h} : req'[g].pc = "idle", RequestCalm(req[h])'
  PROVE  \A g \in Req : RequestCalm(req[g])'
  BY DEF RequestCalm

\* A step that leaves the ticket alone keeps what is known of it.
LEMMA TicketCalmKept ==
  ASSUME TicketCalm, UNCHANGED <<audit, status, autoPassed, ran, result>>, armed' => armed
  PROVE  TicketCalm'
  BY DEF TicketCalm, ResultIsOfRun

\* Steps of requests.
LEMMA CalmRequestNext ==
  ASSUME TypeInv, TypeInv', ApprovalInv, CalmInv, OneBusy', Calm', NEW h \in Req,
         SubmitStep(h) \/ AuditStep(h) \/ ReleaseStep(h)
  PROVE  CalmInv'
<1>a. /\ req \in [Req -> GoodRequest] /\ req' \in [Req -> GoodRequest]
      /\ req[h] \in GoodRequest /\ req'[h] \in GoodRequest
  BY DEF TypeInv
<1>b. /\ OneBusy /\ TicketCalm /\ RequestCalm(req[h])
      /\ TaskUnderWay => Busy \subseteq Reviewing
      /\ \A g \in Req : RequestCalm(req[g])
      /\ \A t \in Task : TaskCalm(t)
  BY DEF CalmInv
<1>c. TaskUnderWay' => Busy' \subseteq Reviewing'
  BY DEF Calm
<1>d. h \in Busy /\ h \notin Reviewing => ~ TaskUnderWay
  BY <1>b
<1> USE DEF row, bounds, ghosts
<1>e. ASSUME \A g \in Req \ {h} : req'[g] = req[g], h \in Busy \/ h \in Busy',
             RequestCalm(req[h])', \A t \in Task : TaskCalm(t)', TicketCalm'
      PROVE  CalmInv'
  <2>1. \A g \in Req \ {h} : req'[g].pc = "idle"
    BY <1>b, <1>e, OthersIdle
  <2>2. \A g \in Req : RequestCalm(req[g])'
    BY <1>e, <2>1, RequestsCalm
  <2> QED
    BY <1>c, <1>e, <2>2 DEF CalmInv
<1>1. CASE SubmitCreate(h)
  <2>1. PICK auto \in {"reject", "review", "pass"} :
          audit' = create_audit(auto) /\ autoPassed' = (auto = "pass")
    BY <1>1 DEF SubmitCreate
  <2>2. /\ status = "absent" /\ status' = "workflow_manreviewing"
        /\ req' = [req EXCEPT ![h] = [Idle EXCEPT !.pc = "submit_status", !.audit = audit']]
        /\ UNCHANGED <<export, armed, task, result, bounds, signed, ran>>
    BY <1>1 DEF SubmitCreate
  <2>3. /\ req'[h].pc = "submit_status" /\ req'[h].audit = audit'
        /\ \A g \in Req \ {h} : req'[g] = req[g]
    BY <2>2, <1>a DEF Idle
  <2>4. RequestCalm(req[h])'
    BY <2>2, <2>3 DEF RequestCalm
  <2>5. audit'.status \in {"none", "waiting"} => ~ autoPassed'
    BY <2>1 DEF create_audit, NoAudit
  <2>6. ran = {}
    BY <1>b, <2>2 DEF TicketCalm, Spent
  <2>7. TicketCalm'
    BY <1>b, <2>2, <2>5, <2>6 DEF TicketCalm, ResultIsOfRun
  <2>8. \A t \in Task : TaskCalm(t)'
    BY <1>b, <2>2, TasksCalmKept
  <2> QED
    BY <1>e, <2>3, <2>4, <2>7, <2>8 DEF Busy, At
<1>2. CASE SubmitStatus(h)
  <2>1. /\ req[h].pc = "submit_status" /\ req' = [req EXCEPT ![h] = Idle]
        /\ UNCHANGED <<export, audit, armed, task, result, bounds, ghosts>>
        /\ status' = CASE req[h].audit.status = "rejected" -> "workflow_autoreviewwrong"
                       [] req[h].audit.status = "passed"   -> "workflow_review_pass"
                       [] OTHER                            -> "workflow_manreviewing"
    BY <1>2 DEF SubmitStatus, At, Done
  <2>2. /\ status = "workflow_manreviewing" /\ req[h].audit = audit
        /\ \A g \in Req \ {h} : req'[g] = req[g]
        /\ req'[h].pc = "idle"
    BY <2>1, <1>a, <1>b DEF RequestCalm, Idle
  <2>3. RequestCalm(req[h])'
    BY <2>2 DEF RequestCalm
  <2>4. ran = {}
    BY <1>b, <2>2 DEF TicketCalm, Spent
  <2>5. /\ audit.status \in {"none", "waiting"} => status' = "workflow_manreviewing"
        /\ status' \notin {"absent", "workflow_executing"}
    BY <2>1, <2>2
  <2>6. TicketCalm'
    BY <1>b, <2>1, <2>4, <2>5 DEF TicketCalm, ResultIsOfRun
  <2>7. \A t \in Task : TaskCalm(t)'
    BY <1>b, <2>1, <2>5, TasksCalmKept
  <2> QED
    BY <1>e, <2>1, <2>2, <2>3, <2>6, <2>7 DEF Busy, At
<1>3. CASE AuditRead(h)
  <2>1. PICK u \in Users, type \in {"pass", "cancel"} :
          /\ can_operate(audit, ActionOf(u, type), u)
          /\ req' = [req EXCEPT ![h] = [pc |-> "audit_save", action |-> ActionOf(u, type),
                                        audit |-> audit, seen |-> status]]
    BY <1>3 DEF AuditRead
  <2>2. UNCHANGED <<row, audit, armed, task, result, bounds, ghosts>>
    BY <1>3 DEF AuditRead
  <2>3. /\ req'[h].pc = "audit_save" /\ req'[h].audit = audit
        /\ \A g \in Req \ {h} : req'[g] = req[g]
    BY <2>1, <1>a
  <2>4. audit.status \in {"waiting", "passed"}
    <3>1. audit.status \in WorkflowStatus
      BY DEF TypeInv, GoodRow, AuditRow
    <3>2. SUPPORTED_OPERATION_GRID[audit.status] # {}
      BY <2>1 DEF can_operate
    <3> QED
      BY <3>1, <3>2 DEF SUPPORTED_OPERATION_GRID, WorkflowStatus
  <2>5. RequestCalm(req[h])'
    BY <2>2, <2>3, <2>4 DEF RequestCalm
  <2>6. TicketCalm'
    BY <1>b, <2>2, TicketCalmKept
  <2>7. \A t \in Task : TaskCalm(t)'
    BY <1>b, <2>2, TasksCalmKept
  <2> QED
    BY <1>e, <2>3, <2>5, <2>6, <2>7 DEF Busy, At
<1>4. CASE AuditSave(h)
  <2> DEFINE new == operate(req[h].audit, req[h].action)
  <2>1. /\ req[h].pc = "audit_save" /\ audit' = new
        /\ req' = IF new.status = "waiting"
                  THEN [req EXCEPT ![h] = Idle]
                  ELSE [req EXCEPT ![h].audit = new,
                                   ![h].pc = IF /\ new.status \in {"aborted", "rejected"}
                                                /\ req[h].seen = "workflow_timingtask"
                                             THEN "audit_unschedule" ELSE "audit_status"]
        /\ UNCHANGED <<row, armed, task, result, bounds, autoPassed, ran>>
    BY <1>4 DEF AuditSave, At
  <2>2. /\ req[h].audit = audit /\ audit.status \in {"waiting", "passed"}
        /\ req[h].action = "pass" => audit.status = "waiting"
        /\ req[h].action \in WorkflowAction
    BY <1>a, <1>b, <2>1 DEF RequestCalm, GoodRequest
  <2>3. /\ new.status \in {"waiting", "passed", "rejected", "aborted"}
        /\ new.status \in {"waiting", "passed"} => req[h].action = "pass"
    <3>1. audit \in AuditRow
      BY DEF TypeInv, GoodRow
    <3> QED
      BY <2>2, <3>1 DEF operate, operate_pass, operate_reject, operate_abort, WorkflowAction, NoAudit,
         AuditRow
  <2> HIDE DEF new
  <2>4. audit.status = "waiting" => status = "workflow_manreviewing" /\ ~ autoPassed
    BY <1>b DEF TicketCalm
  <2>5. \A g \in Req \ {h} : req'[g] = req[g]
    BY <1>a, <2>1
  <2>6. CASE new.status = "waiting"
    <3>1. req'[h].pc = "idle"
      BY <1>a, <2>1, <2>6 DEF Idle
    <3> QED
      BY <3>1, <1>b, <1>e, <2>1, <2>2, <2>3, <2>4, <2>5, <2>6, TasksCalmKept
         DEF RequestCalm, TicketCalm, ResultIsOfRun, Busy, At
  <2>7. CASE new.status # "waiting"
    <3>1. /\ req'[h].audit = new
          /\ req'[h].pc \in {"audit_unschedule", "audit_status"}
          /\ req'[h].pc = "audit_unschedule" => new.status \in {"aborted", "rejected"}
      BY <1>a, <2>1, <2>7 DEF GoodRequest
    <3>2. RequestCalm(req[h])'
      BY <3>1, <2>1, <2>2, <2>3, <2>4, <2>7 DEF RequestCalm, Refused
    <3>3. TicketCalm'
      BY <1>b, <2>1, <2>2, <2>3, <2>7 DEF TicketCalm, ResultIsOfRun
    <3> QED
      BY <3>2, <3>3, <1>b, <1>e, <2>1, <2>5, TasksCalmKept DEF Busy, At
  <2> QED
    BY <2>6, <2>7
<1>5. CASE AuditUnschedule(h)
  <2>1. /\ req[h].pc = "audit_unschedule" /\ ~ armed'
        /\ req' = [req EXCEPT ![h].pc = "audit_status"]
        /\ UNCHANGED <<row, audit, task, result, bounds, ghosts>>
    BY <1>5 DEF AuditUnschedule, At, Goto
  <2>2. /\ req'[h].pc = "audit_status" /\ req'[h].audit = req[h].audit
        /\ \A g \in Req \ {h} : req'[g] = req[g]
    BY <2>1, <1>a DEF GoodRequest
  <2>3. RequestCalm(req[h])'
    BY <1>b, <2>1, <2>2 DEF RequestCalm, Refused
  <2>4. TicketCalm'
    BY <1>b, <2>1, TicketCalmKept
  <2>5. \A t \in Task : TaskCalm(t)'
    BY <1>b, <2>1, TasksCalmKept
  <2> QED
    BY <1>e, <2>1, <2>2, <2>3, <2>4, <2>5 DEF Busy, At
<1>6. CASE AuditStatus(h)
  <2>1. /\ req[h].pc = "audit_status" /\ req' = [req EXCEPT ![h] = Idle]
        /\ status' = IF req[h].audit.status = "passed"
                     THEN "workflow_review_pass" ELSE "workflow_abort"
        /\ UNCHANGED <<export, audit, armed, task, result, bounds, ghosts>>
    BY <1>6 DEF AuditStatus, At, Done
  <2>2. /\ req[h].audit = audit
        /\ Refused \/ (audit.status = "passed" /\ status = "workflow_manreviewing")
        /\ req'[h].pc = "idle"
        /\ \A g \in Req \ {h} : req'[g] = req[g]
    BY <1>a, <1>b, <2>1 DEF RequestCalm, Idle
  <2>3. status' = "workflow_review_pass" => ran = {}
    BY <1>b, <2>1, <2>2 DEF TicketCalm, Spent, Refused
  <2>4. TicketCalm'
    BY <1>b, <2>1, <2>2, <2>3 DEF TicketCalm, ResultIsOfRun, Refused, Spent
  <2>5. \A t \in Task : TaskCalm(t)'
    BY <1>b, <2>1, TasksCalmKept
  <2>6. RequestCalm(req[h])'
    BY <2>2 DEF RequestCalm
  <2> QED
    BY <1>e, <2>1, <2>2, <2>4, <2>5, <2>6 DEF Busy, At
<1>7. CASE ExecuteCheck(h) \/ TimingCheck(h)
  <2>1. /\ CanRelease
        /\ UNCHANGED <<row, audit, armed, task, result, deaths, ghosts>>
        /\ \E mode \in {"execute_mark", "execute_finish", "timing_save"} :
             req' = [req EXCEPT ![h] = [Idle EXCEPT !.pc = mode]]
    BY <1>7 DEF ExecuteCheck, TimingCheck
  <2>2. /\ req'[h].pc \in {"execute_mark", "execute_finish", "timing_save"}
        /\ \A g \in Req \ {h} : req'[g] = req[g]
    BY <2>1, <1>a DEF Idle
  <2>3. RequestCalm(req[h])'
    BY <2>1, <2>2 DEF RequestCalm, CanRelease
  <2>4. TicketCalm'
    BY <1>b, <2>1, TicketCalmKept
  <2>5. \A t \in Task : TaskCalm(t)'
    BY <1>b, <2>1, TasksCalmKept
  <2> QED
    BY <1>e, <2>2, <2>3, <2>4, <2>5 DEF Busy, At
<1>8. CASE ExecuteMark(h)
  <2>1. /\ req[h].pc = "execute_mark" /\ req' = [req EXCEPT ![h].pc = "execute_unschedule"]
        /\ status' = "workflow_queuing"
        /\ UNCHANGED <<export, audit, armed, task, result, bounds, ghosts>>
    BY <1>8 DEF ExecuteMark, At, Goto
  <2>2. /\ req'[h].pc = "execute_unschedule"
        /\ \A g \in Req \ {h} : req'[g] = req[g]
        /\ CanRelease
    BY <2>1, <1>a, <1>b DEF RequestCalm, GoodRequest
  <2>3. RequestCalm(req[h])'
    BY <2>1, <2>2 DEF RequestCalm
  <2>4. TicketCalm'
    BY <1>b, <2>1, <2>2 DEF TicketCalm, CanRelease, Spent, ResultIsOfRun
  <2>5. \A t \in Task : TaskCalm(t)'
    BY <1>b, <2>1, TasksCalmKept
  <2> QED
    BY <1>e, <2>2, <2>3, <2>4, <2>5 DEF Busy, At
<1>9. CASE ExecuteUnschedule(h)
  <2>1. /\ req[h].pc = "execute_unschedule" /\ req' = [req EXCEPT ![h].pc = "execute_enqueue"]
        /\ ~ armed'
        /\ UNCHANGED <<row, audit, task, result, bounds, ghosts>>
    BY <1>9 DEF ExecuteUnschedule, At, Goto
  <2>2. /\ req'[h].pc = "execute_enqueue"
        /\ \A g \in Req \ {h} : req'[g] = req[g]
        /\ status = "workflow_queuing"
    BY <2>1, <1>a, <1>b DEF RequestCalm, GoodRequest
  <2>3. RequestCalm(req[h])'
    BY <2>1, <2>2 DEF RequestCalm
  <2>4. TicketCalm'
    BY <1>b, <2>1, TicketCalmKept
  <2>5. \A t \in Task : TaskCalm(t)'
    BY <1>b, <2>1, TasksCalmKept
  <2> QED
    BY <1>e, <2>2, <2>3, <2>4, <2>5 DEF Busy, At
<1>10. CASE ExecuteEnqueue(h)
  <2>1. /\ req[h].pc = "execute_enqueue" /\ req' = [req EXCEPT ![h] = Idle]
        /\ UNCHANGED <<row, audit, armed, result, bounds, ghosts>>
    BY <1>10 DEF ExecuteEnqueue, At, Done
  <2>2. PICK t \in Task : task' = [task EXCEPT ![t].st = "queued"]
    BY <1>10 DEF ExecuteEnqueue, Enqueue
  <2>3. /\ req'[h].pc = "idle" /\ \A g \in Req \ {h} : req'[g] = req[g]
        /\ status = "workflow_queuing" /\ ~ armed
    BY <2>1, <1>a, <1>b DEF RequestCalm, Idle
  <2>4. ~ TaskUnderWay
    BY <1>d, <2>1 DEF Busy, At, Reviewing
  <2>5. \A s \in Task : /\ task'[s].st = IF s = t THEN "queued" ELSE task[s].st
                        /\ task'[s].copy = task[s].copy
    BY <2>2 DEF TypeInv, TaskRec
  <2>6. \A s \in Task : UnderWay(s)' => s = t
    BY <2>4, <2>5 DEF UnderWay, TaskUnderWay
  <2>7. \A s \in Task : TaskCalm(s)'
    BY <1>b, <2>1, <2>3, <2>5, <2>6 DEF TaskCalm
  <2>8. TicketCalm'
    BY <1>b, <2>1, TicketCalmKept
  <2>9. RequestCalm(req[h])'
    BY <2>3 DEF RequestCalm
  <2> QED
    BY <1>e, <2>1, <2>3, <2>7, <2>8, <2>9 DEF Busy, At
<1>11. CASE ExecuteManual(h)
  <2>1. /\ req[h].pc = "execute_finish" /\ req' = [req EXCEPT ![h] = Idle]
        /\ status' = "workflow_finish"
        /\ UNCHANGED <<export, audit, armed, task, result, bounds, ghosts>>
    BY <1>11 DEF ExecuteManual, At, Done
  <2>2. /\ req'[h].pc = "idle" /\ \A g \in Req \ {h} : req'[g] = req[g]
        /\ CanRelease
    BY <2>1, <1>a, <1>b DEF RequestCalm, Idle
  <2>3. TicketCalm'
    BY <1>b, <2>1, <2>2 DEF TicketCalm, CanRelease, Spent, ResultIsOfRun
  <2>4. \A t \in Task : TaskCalm(t)'
    BY <1>b, <2>1, TasksCalmKept
  <2>5. RequestCalm(req[h])'
    BY <2>2 DEF RequestCalm
  <2> QED
    BY <1>e, <2>1, <2>2, <2>3, <2>4, <2>5 DEF Busy, At
<1>12. CASE TimingSave(h)
  <2>1. /\ req[h].pc = "timing_save" /\ req' = [req EXCEPT ![h] = Idle]
        /\ status' = "workflow_timingtask"
        /\ UNCHANGED <<export, audit, task, result, bounds, ghosts>>
    BY <1>12 DEF TimingSave, At, Done
  <2>2. /\ req'[h].pc = "idle" /\ \A g \in Req \ {h} : req'[g] = req[g]
        /\ CanRelease
    BY <2>1, <1>a, <1>b DEF RequestCalm, Idle
  <2>3. ~ TaskUnderWay
    BY <1>d, <2>1 DEF Busy, At, Reviewing
  <2>4. TicketCalm'
    BY <1>b, <2>1, <2>2 DEF TicketCalm, CanRelease, Spent, ResultIsOfRun
  <2>5. \A t \in Task : TaskCalm(t)'
    BY <1>b, <2>1, <2>3, TasksCalmKept
  <2>6. RequestCalm(req[h])'
    BY <2>2 DEF RequestCalm
  <2> QED
    BY <1>e, <2>1, <2>2, <2>4, <2>5, <2>6 DEF Busy, At
<1> QED
  BY <1>1, <1>2, <1>3, <1>4, <1>5, <1>6, <1>7, <1>8, <1>9, <1>10, <1>11, <1>12
     DEF SubmitStep, AuditStep, ReleaseStep

\* Steps of the scheduler, the workers and the monitor.  The requests at work meanwhile are
\* reviews, and what is known of a review does not depend on a status that a task writes.
LEMMA CalmTaskNext ==
  ASSUME TypeInv, TypeInv', CalmInv, OneBusy', Calm',
         ScheduleFire \/ \E t \in Task : TaskStep(t) \/ HookStep(t) \/ TaskLost(t)
  PROVE  CalmInv'
<1>a. task \in [Task -> TaskRec] /\ req \in [Req -> GoodRequest]
  BY DEF TypeInv
<1>b. /\ TicketCalm
      /\ \A g \in Req : RequestCalm(req[g])
      /\ \A t \in Task : TaskCalm(t)
  BY DEF CalmInv
<1>c. TaskUnderWay' => Busy' \subseteq Reviewing'
  BY DEF Calm
<1> USE DEF row, bounds, ghosts
<1>d. ASSUME UNCHANGED <<req, audit, status>>, armed' => armed
      PROVE  \A g \in Req : RequestCalm(req[g])'
  BY <1>b, <1>d DEF RequestCalm, Refused, CanRelease
<1>e. ASSUME UNCHANGED <<req, audit>>, armed' => armed, Busy \subseteq Reviewing,
             status # "workflow_manreviewing"
      PROVE  \A g \in Req : RequestCalm(req[g])'
  <2> SUFFICES ASSUME NEW g \in Req
               PROVE  RequestCalm(req[g])'
    OBVIOUS
  <2>1. RequestCalm(req[g])
    BY <1>b
  <2>2. req[g].pc \in {"idle", "audit_save", "audit_unschedule", "audit_status"}
    BY <1>e DEF Busy, At, Reviewing
  <2> QED
    BY <1>e, <2>1, <2>2 DEF RequestCalm, Refused
<1>f. ASSUME NEW t \in Task, UnderWay(t)
      PROVE  Busy \subseteq Reviewing /\ ~ armed /\ \A s \in Task : UnderWay(s) => s = t
  BY <1>b, <1>f DEF CalmInv, TaskUnderWay, UnderWay, TaskCalm
<1>1. CASE ScheduleFire
  <2>1. PICK t \in Task : task' = [task EXCEPT ![t].st = "queued"]
    BY <1>1 DEF ScheduleFire, Enqueue
  <2>2. /\ armed /\ ~ armed'
        /\ UNCHANGED <<row, audit, req, result, bounds, ghosts>>
    BY <1>1 DEF ScheduleFire
  <2>3. \A s \in Task : ~ UnderWay(s)
    BY <1>f, <2>2
  <2>4. \A s \in Task : /\ task'[s].st = IF s = t THEN "queued" ELSE task[s].st
                        /\ task'[s].copy = task[s].copy
    BY <1>a, <2>1 DEF TaskRec
  <2>5. \A s \in Task : UnderWay(s)' => s = t
    BY <2>3, <2>4 DEF UnderWay
  <2>6. status # "workflow_executing"
    BY <1>b, <2>2 DEF TicketCalm
  <2>7. \A s \in Task : TaskCalm(s)'
    BY <1>b, <2>2, <2>4, <2>5, <2>6 DEF TaskCalm
  <2> QED
    BY <1>b, <1>c, <1>d, <2>2, <2>7, TicketCalmKept DEF CalmInv
<1>2. ASSUME NEW t \in Task, TaskStart(t)
      PROVE  CalmInv'
  <2>1. /\ task[t].st = "queued" /\ MayExecute /\ status' = "workflow_executing"
        /\ ran' = ran \cup {t}
        /\ UNCHANGED <<export, audit, armed, req, result, bounds, signed, autoPassed>>
    BY <1>2 DEF TaskStart
  <2>2. Busy \subseteq Reviewing /\ ~ armed /\ \A s \in Task : UnderWay(s) => s = t
    BY <1>f, <2>1 DEF UnderWay
  <2>3. \A s \in Task : /\ task'[s].st = IF s = t THEN "running" ELSE task[s].st
                        /\ task'[s].copy = task[s].copy
    BY <1>2, <1>a DEF TaskStart, SetTask, TaskRec
  <2>4. ran = {}
    BY <1>b, <2>1 DEF TicketCalm, MayExecute, Spent
  <2>5. \A s \in Task : UnderWay(s)' => s = t
    BY <2>2, <2>3 DEF UnderWay
  <2>6. \A s \in Task : TaskCalm(s)'
    <3> SUFFICES ASSUME NEW s \in Task
                 PROVE  TaskCalm(s)'
      OBVIOUS
    <3>1. s # t => ~ UnderWay(s)'
      BY <2>5
    <3> QED
      BY <1>b, <2>1, <2>2, <2>3, <2>5, <3>1 DEF TaskCalm, UnderWay, Active
  <2>7. TicketCalm'
    BY <1>b, <2>1, <2>2, <2>4 DEF TicketCalm, MayExecute, Spent, ResultIsOfRun
  <2> QED
    BY <1>c, <1>e, <2>1, <2>2, <2>6, <2>7 DEF CalmInv, OneBusy, Busy, At, MayExecute
<1>3. ASSUME NEW t \in Task, TaskRefuse(t)
      PROVE  CalmInv'
  <2>1. /\ task[t].st = "queued"
        /\ UNCHANGED <<row, audit, armed, req, result, bounds, ghosts>>
    BY <1>3 DEF TaskRefuse
  <2>2. \A s \in Task : /\ task'[s].st = IF s = t THEN "refused" ELSE task[s].st
                        /\ task'[s].copy = task[s].copy
    BY <1>3, <1>a DEF TaskRefuse, SetTask, TaskRec
  <2>3. \A s \in Task : TaskCalm(s)'
    BY <1>b, <2>1, <2>2 DEF TaskCalm, UnderWay, Active
  <2> QED
    BY <1>b, <1>c, <1>d, <2>1, <2>3, TicketCalmKept DEF CalmInv
<1>4. ASSUME NEW t \in Task, TaskReturn(t)
      PROVE  CalmInv'
  <2>1. /\ task[t].st \in {"running", "copied"}
        /\ UNCHANGED <<row, audit, armed, req, result, bounds, ghosts>>
    BY <1>4 DEF TaskReturn
  <2>2. \A s \in Task : /\ task'[s].st = IF s = t THEN "returned" ELSE task[s].st
                        /\ s # t => task'[s].copy = task[s].copy
    BY <1>4, <1>a DEF TaskReturn, NewTask
  <2>3. \A s \in Task : TaskCalm(s)'
    BY <1>b, <2>1, <2>2 DEF TaskCalm, UnderWay, Active
  <2> QED
    BY <1>b, <1>c, <1>d, <2>1, <2>3, TicketCalmKept DEF CalmInv
<1>5. ASSUME NEW t \in Task, ExportCopy(t)
      PROVE  CalmInv'
  <2>1. /\ task[t].st = "running"
        /\ UNCHANGED <<row, audit, armed, req, result, bounds, ghosts>>
    BY <1>5 DEF ExportCopy
  <2>2. \A s \in Task : /\ task'[s].st = IF s = t THEN "copied" ELSE task[s].st
                        /\ task'[s].copy = IF s = t THEN status ELSE task[s].copy
    BY <1>5, <1>a DEF ExportCopy, TaskRec
  <2>3. status \in Spent
    BY <1>b, <2>1 DEF TaskCalm, TicketCalm
  <2>4. \A s \in Task : TaskCalm(s)'
    BY <1>b, <2>1, <2>2, <2>3 DEF TaskCalm, UnderWay, Active
  <2> QED
    BY <1>b, <1>c, <1>d, <2>1, <2>4, TicketCalmKept DEF CalmInv
<1>6. ASSUME NEW t \in Task, ExportSave(t)
      PROVE  CalmInv'
  <2>1. /\ task[t].st = "copied" /\ status' = task[t].copy
        /\ UNCHANGED <<export, audit, armed, req, result, bounds, ghosts>>
    BY <1>6 DEF ExportSave
  <2>2. \A s \in Task : /\ task'[s].st = IF s = t THEN "returned" ELSE task[s].st
                        /\ s # t => task'[s].copy = task[s].copy
    BY <1>6, <1>a DEF ExportSave, NewTask
  <2>3. Busy \subseteq Reviewing /\ ~ armed /\ \A s \in Task : UnderWay(s) => s = t
    BY <1>f, <2>1 DEF UnderWay, Active
  <2>4. status \in Spent /\ status' \in Spent /\ ran # {}
    BY <1>b, <2>1 DEF TaskCalm, TicketCalm
  <2>5. \A s \in Task : TaskCalm(s)'
    <3> SUFFICES ASSUME NEW s \in Task
                 PROVE  TaskCalm(s)'
      OBVIOUS
    <3>1. s # t => ~ UnderWay(s)
      BY <2>3
    <3> QED
      BY <1>b, <2>1, <2>2, <2>3, <2>4, <3>1 DEF TaskCalm, UnderWay, Active
  <2>6. TicketCalm'
    BY <1>b, <2>1, <2>3, <2>4 DEF TicketCalm, Spent, ResultIsOfRun
  <2>7. \A g \in Req : RequestCalm(req[g])'
    BY <1>e, <2>1, <2>3, <2>4 DEF Spent
  <2> QED
    BY <1>c, <2>5, <2>6, <2>7 DEF CalmInv
<1>7. ASSUME NEW t \in Task, HookRead(t)
      PROVE  CalmInv'
  <2>1. /\ task[t].st = "returned"
        /\ UNCHANGED <<row, audit, armed, req, result, bounds, ghosts>>
    BY <1>7, <1>b DEF HookRead, Finished, TaskCalm
  <2>2. \A s \in Task : /\ task'[s].st = IF s = t THEN "hook" ELSE task[s].st
                        /\ task'[s].copy = task[s].copy
    BY <1>7, <1>a DEF HookRead, SetTask, TaskRec
  <2>3. \A s \in Task : TaskCalm(s)'
    BY <1>b, <2>1, <2>2 DEF TaskCalm, UnderWay, Active
  <2> QED
    BY <1>b, <1>c, <1>d, <2>1, <2>3, TicketCalmKept DEF CalmInv
<1>8. ASSUME NEW t \in Task, HookRefuse(t) \/ TaskLost(t)
      PROVE  CalmInv'
  <2>1. UNCHANGED <<row, audit, armed, req, result, asks, ghosts>>
    BY <1>8 DEF HookRefuse, TaskLost
  <2>2. \A s \in Task : /\ s = t => task'[s].st \in {"closed", "lost"}
                        /\ s # t => task'[s] = task[s]
    BY <1>8, <1>a DEF HookRefuse, TaskLost, SetTask, TaskRec, NewTask
  <2>3. \A s \in Task : TaskCalm(s)'
    BY <1>b, <2>1, <2>2 DEF TaskCalm, UnderWay, Active
  <2> QED
    BY <1>b, <1>c, <1>d, <2>1, <2>3, TicketCalmKept DEF CalmInv
<1>9. ASSUME NEW t \in Task, HookSave(t)
      PROVE  CalmInv'
  <2>1. /\ task[t].st = "hook" /\ result' = t
        /\ status' \in {"workflow_finish", "workflow_exception"}
        /\ UNCHANGED <<export, audit, armed, req, bounds, ghosts>>
    BY <1>9 DEF HookSave
  <2>2. \A s \in Task : /\ task'[s].st = IF s = t THEN "closed" ELSE task[s].st
                        /\ task'[s].copy = task[s].copy
    BY <1>9, <1>a DEF HookSave, SetTask, TaskRec
  <2>3. Busy \subseteq Reviewing /\ t \in ran /\ status \in Spent
    BY <1>b, <1>f, <2>1 DEF UnderWay, Active, TaskCalm, TicketCalm
  <2>4. \A s \in Task : TaskCalm(s)'
    BY <1>b, <2>1, <2>2 DEF TaskCalm, UnderWay, Active
  <2>5. TicketCalm'
    BY <1>b, <2>1, <2>3 DEF TicketCalm, Spent, ResultIsOfRun
  <2>6. \A g \in Req : RequestCalm(req[g])'
    BY <1>e, <2>1, <2>3 DEF Spent
  <2> QED
    BY <1>c, <2>4, <2>5, <2>6 DEF CalmInv
<1> QED
  BY <1>1, <1>2, <1>3, <1>4, <1>5, <1>6, <1>7, <1>8, <1>9 DEF TaskStep, HookStep

\* Every step of a calm day keeps the invariant.
LEMMA CalmInvNext ==
  ASSUME TypeInv, ApprovalInv, CalmInv, [Next /\ Calm']_vars
  PROVE  CalmInv'
<1>1. CASE UNCHANGED vars
  <2>1. Busy' = Busy /\ Reviewing' = Reviewing
    BY <1>1 DEF Busy, Reviewing, At, vars
  <2>2. OneBusy' /\ (TaskUnderWay' => Busy' \subseteq Reviewing')
    BY <1>1, <2>1 DEF CalmInv, OneBusy, TaskUnderWay, vars
  <2>3. \A h \in Req : RequestCalm(req[h])'
    BY <1>1 DEF CalmInv, RequestCalm, Refused, CanRelease, vars
  <2>4. \A t \in Task : TaskCalm(t)'
    BY <1>1 DEF CalmInv, TaskCalm, UnderWay, vars
  <2> QED
    BY <1>1, <2>2, <2>3, <2>4, TicketCalmKept DEF CalmInv, vars
<1>2. CASE Next /\ Calm'
  <2>1. TypeInv' /\ OneBusy'
    BY <1>2, TypeNext, OneBusyKept DEF CalmInv, Calm
  <2>2. ASSUME NEW h \in Req, RequestDies(h)
        PROVE  CalmInv'
    <3>1. /\ req' = [req EXCEPT ![h] = Idle]
          /\ UNCHANGED <<row, audit, armed, task, result, asks, ghosts>>
      BY <2>2 DEF RequestDies, Done
    <3>2. \A g \in Req : req'[g] = req[g] \/ req'[g].pc = "idle"
      BY <3>1 DEF TypeInv, Idle
    <3>3. \A g \in Req : RequestCalm(req[g])'
      BY <3>1, <3>2 DEF CalmInv, RequestCalm, Refused, CanRelease, row
    <3>4. (\A t \in Task : TaskCalm(t)') /\ TicketCalm'
      BY <3>1, TasksCalmKept, TicketCalmKept DEF CalmInv, row, ghosts
    <3> QED
      BY <1>2, <2>1, <3>3, <3>4 DEF CalmInv, Calm
  <2> QED
    BY <1>2, <2>1, <2>2, CalmRequestNext, CalmTaskNext DEF Next
<1> QED
  BY <1>1, <1>2

\* A crossing is never forgotten, and none is missed.
LEMMA CrossedGrows ==
  ASSUME [CalmNext]_calmVars
  PROVE  /\ crossed => crossed'
         /\ CalmNext /\ Crossing' => crossed'
<1>1. CASE CalmNext
  BY <1>1, Zenon DEF CalmNext
<1>2. CASE UNCHANGED calmVars
  <2>1. crossed' = crossed
    BY <1>2 DEF calmVars
  <2> QED
    BY <2>1, Zenon DEF CalmNext
<1> QED
  BY <1>1, <1>2

LEMMA CalmCorrect == CalmSpec => [](TypeInv /\ ApprovalInv /\ (crossed \/ CalmInv))
<1>1. CalmInit => TypeInv /\ ApprovalInv /\ (crossed \/ CalmInv)
  BY TypeInit, ApprovalInit, CalmInvInit DEF CalmInit
<1>2. TypeInv /\ ApprovalInv /\ (crossed \/ CalmInv) /\ [CalmNext]_calmVars
        => (TypeInv /\ ApprovalInv /\ (crossed \/ CalmInv))'
  <2> SUFFICES ASSUME TypeInv, ApprovalInv, crossed \/ CalmInv, [CalmNext]_calmVars
               PROVE  TypeInv' /\ ApprovalInv' /\ (crossed' \/ CalmInv')
    OBVIOUS
  <2>1. [Next]_vars
    BY DEF CalmNext, calmVars
  <2>2. TypeInv' /\ ApprovalInv'
    BY <2>1, TypeNext, ApprovalNext
  <2>3. ASSUME ~ crossed'
        PROVE  ~ crossed /\ [Next /\ Calm']_vars
    BY <2>3, CrossedGrows DEF CalmNext, calmVars, Crossing, Calm
  <2> QED
    BY <2>2, <2>3, CalmInvNext
<1> QED
  BY <1>1, <1>2, PTL DEF CalmSpec

\* With one request at a time, the SQL of a ticket runs at most once (execute_sql.py:21) unless a
\* task was under way while a release request was in flight.
THEOREM RunsOnce == CalmSpec => []RunsOnceUnlessCrossed
<1>1. ASSUME CalmInv
      PROVE  AtMostOneRun
  <2>1. CASE ran = {}
    BY <2>1, FS_EmptySet DEF AtMostOneRun
  <2>2. CASE ran # {}
    <3>1. PICK t \in ran : ran = {t}
      BY <1>1, <2>2 DEF CalmInv, TicketCalm
    <3> QED
      BY <3>1, FS_Singleton DEF AtMostOneRun
  <2> QED
    BY <2>1, <2>2
<1>2. crossed \/ CalmInv => RunsOnceUnlessCrossed
  BY <1>1 DEF RunsOnceUnlessCrossed
<1> QED
  BY <1>2, CalmCorrect, PTL

\* Before the first crossing the stored result is that of a task that ran the SQL: a refused task
\* cannot be taken for the one that executes, since no other is under way.
THEOREM ResultsAreOfRuns == CalmSpec => []ResultIsOfRunUnlessCrossed
<1>1. crossed \/ CalmInv => ResultIsOfRunUnlessCrossed
  BY DEF CalmInv, TicketCalm, ResultIsOfRunUnlessCrossed
<1> QED
  BY <1>1, CalmCorrect, PTL

-----------------------------------------------------------------------------
(* Cancelling.  Once the row says rejected or aborted, either the request  *)
(* that wrote it is still to write the status, or no task may start.  Only *)
(* a request that dies between its two saves breaks this.                  *)

Closing == {h \in Req : req[h].pc \in {"audit_unschedule", "audit_status"}}
CancelInv ==
  Refused => Closing # {} \/ status \notin {"workflow_review_pass", "workflow_timingtask",
                                             "workflow_queuing"}

LEMMA CancelNext ==
  ASSUME MaxDeaths = 0, TypeInv, CalmInv, CancelInv, [Next]_vars
  PROVE  CancelInv'
<1>a. task \in [Task -> TaskRec] /\ req \in [Req -> GoodRequest]
  BY DEF TypeInv
<1>b. /\ TicketCalm
      /\ \A g \in Req : RequestCalm(req[g])
      /\ \A t \in Task : TaskCalm(t)
      /\ OneBusy
  BY DEF CalmInv
<1> USE DEF row, bounds, ghosts
<1>c. ASSUME UNCHANGED <<status, audit>>, \A g \in Closing : req'[g].pc = req[g].pc
      PROVE  CancelInv'
  BY <1>c DEF CancelInv, Refused, Closing
<1>1. ASSUME NEW h \in Req, SubmitStep(h)
      PROVE  CancelInv'
  <2>1. CASE SubmitCreate(h)
    BY <2>1 DEF SubmitCreate, CancelInv
  <2>2. CASE SubmitStatus(h)
    <3>1. req[h].audit = audit /\ UNCHANGED audit
      BY <2>2, <1>b DEF SubmitStatus, At, RequestCalm
    <3> QED
      BY <2>2, <3>1 DEF SubmitStatus, CancelInv, Refused
  <2> QED
    BY <1>1, <2>1, <2>2 DEF SubmitStep
<1>2. ASSUME NEW h \in Req, AuditStep(h)
      PROVE  CancelInv'
  <2>1. CASE AuditRead(h)
    <3>1. \A g \in Closing : req'[g] = req[g]
      BY <2>1, <1>a DEF AuditRead, At, Closing
    <3> QED
      BY <2>1, <1>c, <3>1 DEF AuditRead
  <2>2. CASE AuditSave(h)
    <3>1. Refused' => req'[h].pc \in {"audit_unschedule", "audit_status"}
      BY <2>2, <1>a DEF AuditSave, Refused, GoodRequest
    <3> QED
      BY <3>1 DEF CancelInv, Closing
  <2>3. CASE AuditUnschedule(h)
    <3>1. req'[h].pc = "audit_status"
      BY <2>3, <1>a DEF AuditUnschedule, Goto, GoodRequest
    <3> QED
      BY <3>1 DEF CancelInv, Closing
  <2>4. CASE AuditStatus(h)
    <3>1. req[h].audit = audit /\ UNCHANGED audit
      BY <2>4, <1>b DEF AuditStatus, At, RequestCalm
    <3> QED
      BY <2>4, <3>1 DEF AuditStatus, CancelInv, Refused
  <2> QED
    BY <1>2, <2>1, <2>2, <2>3, <2>4 DEF AuditStep
<1>3. ASSUME NEW h \in Req, ReleaseStep(h)
      PROVE  CancelInv'
  <2>1. UNCHANGED audit
    BY <1>3 DEF ReleaseStep, ExecuteCheck, ExecuteMark, ExecuteUnschedule, ExecuteEnqueue,
       ExecuteManual, TimingCheck, TimingSave
  <2>2. CASE ExecuteMark(h) \/ TimingSave(h)
    <3>1. req[h].pc \in {"execute_mark", "timing_save"}
      BY <2>2 DEF ExecuteMark, TimingSave, At
    <3>2. CanRelease /\ Closing = {}
      BY <3>1, <1>b DEF RequestCalm, OneBusy, Busy, At, Closing
    <3>3. ~ Refused
      BY <3>2 DEF CancelInv, CanRelease
    <3> QED
      BY <2>1, <3>3 DEF CancelInv, Refused
  <2>3. CASE ExecuteManual(h)
    BY <2>3 DEF ExecuteManual, CancelInv
  <2>4. CASE ExecuteCheck(h) \/ ExecuteUnschedule(h) \/ ExecuteEnqueue(h) \/ TimingCheck(h)
    <3>1. /\ UNCHANGED status
          /\ req[h].pc \in {"idle", "execute_unschedule", "execute_enqueue"}
          /\ \A g \in Req \ {h} : req'[g] = req[g]
      BY <2>4, <1>a DEF ExecuteCheck, ExecuteUnschedule, ExecuteEnqueue, TimingCheck, At, Goto, Done
    <3> QED
      BY <1>c, <2>1, <3>1 DEF Closing
  <2> QED
    BY <1>3, <2>2, <2>3, <2>4 DEF ReleaseStep
<1>4. ASSUME NEW h \in Req, RequestDies(h)
      PROVE  CancelInv'
  BY <1>4 DEF RequestDies, TypeInv
<1>5. ASSUME NEW t \in Task, TaskStep(t)
      PROVE  CancelInv'
  <2>1. UNCHANGED <<audit, req>>
    BY <1>5 DEF TaskStep, TaskStart, TaskRefuse, TaskReturn, ExportCopy, ExportSave
  <2>2. status' = status \/ status' \in Spent
    BY <1>5, <1>b DEF TaskStep, TaskStart, TaskRefuse, TaskReturn, ExportCopy, ExportSave, TaskCalm, Spent
  <2> QED
    BY <2>1, <2>2 DEF CancelInv, Refused, Closing, Spent
<1>6. ASSUME NEW t \in Task, HookStep(t)
      PROVE  CancelInv'
  <2>1. UNCHANGED <<audit, req>>
    BY <1>6 DEF HookStep, HookRead, HookRefuse, HookSave
  <2>2. status' = status \/ status' \in Spent
    BY <1>6 DEF HookStep, HookRead, HookRefuse, HookSave, Spent
  <2> QED
    BY <2>1, <2>2 DEF CancelInv, Refused, Closing, Spent
<1>7. ASSUME ScheduleFire \/ (\E t \in Task : TaskLost(t)) \/ UNCHANGED vars
      PROVE  CancelInv'
  BY <1>7, <1>c DEF ScheduleFire, TaskLost, vars
<1> QED
  BY <1>1, <1>2, <1>3, <1>4, <1>5, <1>6, <1>7 DEF Next

\* If no process dies, no task starts the SQL once a rejection or a withdrawal is through (both
\* saves of AuditWorkflow.post are done), until the first crossing.
THEOREM CancelsAreFinal ==
  ASSUME MaxDeaths = 0
  PROVE  CalmSpec => CancelledNeverStarts
<1> DEFINE Inv == TypeInv /\ (crossed \/ (CalmInv /\ CancelInv))
<1>1. CalmInit => Inv
  BY TypeInit, CalmInvInit DEF CalmInit, Init, CancelInv, Refused, NoAudit
<1>2. ASSUME TypeInv, crossed \/ CalmInv, TypeInv', crossed' \/ CalmInv', Inv, [CalmNext]_calmVars
      PROVE  Inv'
  <2>1. [Next]_vars /\ (crossed => crossed')
    BY <1>2, CrossedGrows DEF CalmNext, calmVars
  <2> QED
    BY <1>2, <2>1, CancelNext
<1>3. ASSUME Inv, [CalmNext]_calmVars
      PROVE  [~ crossed' /\ Cancelled => ran' = ran]_calmVars
  <2>1. [Next]_vars /\ (crossed => crossed')
    BY <1>3, CrossedGrows DEF CalmNext, calmVars
  <2>2. ASSUME NEW t \in Task, TaskStart(t), Cancelled, ~ crossed'
        PROVE  FALSE
    <3>1. Closing = {} /\ Refused
      BY <2>2 DEF At, Closing, Busy, Cancelled, Refused
    <3> QED
      BY <1>3, <2>1, <2>2, <3>1 DEF CancelInv, TaskStart, MayExecute
  <2>3. \/ UNCHANGED <<ran>>
        \/ \E t \in Task : TaskStart(t)
    BY <2>1 DEF Next, SubmitStep, AuditStep, ReleaseStep, TaskStep, HookStep, RequestDies, TaskLost,
       ScheduleFire, SubmitCreate, SubmitStatus, AuditRead, AuditSave, AuditUnschedule, AuditStatus,
       ExecuteCheck, ExecuteMark, ExecuteUnschedule, ExecuteEnqueue, ExecuteManual, TimingCheck,
       TimingSave, TaskRefuse, TaskReturn, ExportCopy, ExportSave, HookRead, HookRefuse, HookSave,
       vars, ghosts
  <2> QED
    BY <2>2, <2>3
<1> HIDE DEF Inv
<1>4. TypeInv /\ ApprovalInv /\ (crossed \/ CalmInv) => TypeInv /\ (crossed \/ CalmInv)
  OBVIOUS
<1> QED
  BY <1>1, <1>2, <1>3, <1>4, CalmCorrect, PTL DEF CalmSpec, CancelledNeverStarts

-----------------------------------------------------------------------------
(* The review implements the abstract chain.                               *)

\* No group twice in the chain: with one, operate_pass looks up its first place again and goes
\* back (workflow_audit.py:488), and the groups after it are asked once more.
EachGroupOnce == \A i, j \in DOMAIN Chain : Chain[i] = Chain[j] => i = j

\* Its place is then the only one, and the node after it the next place.
LEMMA NextPlace ==
  ASSUME EachGroupOnce, NEW g \in ChainGroups
  PROVE  /\ ChainIndex(g) \in 1..Len(Chain) /\ Chain[ChainIndex(g)] = g /\ Len(Chain) \in Nat
         /\ NodeAfter(g) = NoNode <=> ChainIndex(g) = Len(Chain)
         /\ NodeAfter(g) # NoNode => /\ NodeAfter(g) \in ChainGroups
                                     /\ ChainIndex(NodeAfter(g)) = ChainIndex(g) + 1
<1>1. ChainIndex(g) \in 1..Len(Chain) /\ Chain[ChainIndex(g)] = g /\ Len(Chain) \in Nat
  BY ChainIndexFirst, ChainStart
<1>2. NodeAfter(g) = NoNode <=> ChainIndex(g) = Len(Chain)
  BY NodeAfterChain
<1>3. ASSUME NodeAfter(g) # NoNode
      PROVE  NodeAfter(g) \in ChainGroups /\ ChainIndex(NodeAfter(g)) = ChainIndex(g) + 1
  <2>1. /\ ChainIndex(g) + 1 \in DOMAIN Chain
        /\ NodeAfter(g) = Chain[ChainIndex(g) + 1]
        /\ NodeAfter(g) \in ChainGroups
    BY <1>3, NodeAfterChain
  <2>2. /\ ChainIndex(NodeAfter(g)) \in DOMAIN Chain
        /\ Chain[ChainIndex(NodeAfter(g))] = NodeAfter(g)
    BY <2>1, ChainIndexFirst
  <2> QED
    BY <2>1, <2>2 DEF EachGroupOnce
<1> QED
  BY <1>1, <1>2, <1>3

\* What the review rests on: one request at work, whose copy is still the row; no crossing
\* touches it.
ReviewInv ==
  /\ OneBusy
  /\ \A h \in Req : req[h].pc = "audit_save" =>
       req[h].audit = audit /\ audit.status \in {"waiting", "passed"}
  /\ audit.status \in {"none", "waiting"} => ~ autoPassed
  /\ status = "absent" => audit.status = "none"

LEMMA ReviewNext ==
  ASSUME TypeInv, ApprovalInv, ReviewInv, [Next]_vars, OneBusy'
  PROVE  ReviewInv'
<1>a. /\ task \in [Task -> TaskRec] /\ req \in [Req -> GoodRequest]
      /\ audit \in GoodRow /\ audit \in AuditRow
  BY DEF TypeInv, GoodRow
<1> USE DEF row, bounds, ghosts
<1>b. ASSUME UNCHANGED <<audit, autoPassed>>, status' = "absent" => status = "absent",
             \A g \in Req : req'[g] = req[g] \/ req'[g].pc # "audit_save"
      PROVE  ReviewInv'
  BY <1>b DEF ReviewInv
<1>1. ASSUME NEW h \in Req, SubmitCreate(h)
      PROVE  ReviewInv'
  <2>1. audit.status = "none" /\ ~ autoPassed
    BY <1>1 DEF SubmitCreate, ReviewInv
  <2>2. \A g \in Req : req'[g].pc # "audit_save"
    BY <1>1, <1>a, <2>1 DEF SubmitCreate, ReviewInv, Idle
  <2>3. status' # "absent" /\ (audit'.status \in {"none", "waiting"} => ~ autoPassed')
    BY <1>1 DEF SubmitCreate, create_audit, NoAudit
  <2> QED
    BY <2>2, <2>3 DEF ReviewInv
<1>2. ASSUME NEW h \in Req, AuditRead(h)
      PROVE  ReviewInv'
  <2>1. UNCHANGED <<row, audit, autoPassed>>
    BY <1>2 DEF AuditRead
  <2>2. req'[h].audit = audit /\ \A g \in Req \ {h} : req'[g] = req[g]
    BY <1>2, <1>a DEF AuditRead
  <2>3. audit.status \in {"waiting", "passed"}
    BY <1>2, <1>a DEF AuditRead, can_operate, ActionOf, SUPPORTED_OPERATION_GRID, AuditRow
  <2> QED
    BY <2>1, <2>2, <2>3 DEF ReviewInv
<1>3. ASSUME NEW h \in Req, AuditSave(h)
      PROVE  ReviewInv'
  <2>1. /\ req[h].audit = audit /\ audit.status \in {"waiting", "passed"}
        /\ req[h].action \in WorkflowAction
        /\ req[h].action = "pass" => audit.status = "waiting"
    BY <1>3, <1>a DEF AuditSave, At, ReviewInv, GoodRequest
  <2>2. \A g \in Req : req'[g].pc # "audit_save"
    <3>1. \A g \in Req \ {h} : req[g].pc # "audit_save"
      BY <1>3 DEF AuditSave, At, ReviewInv, OneBusy, Busy
    <3>2. req'[h].pc # "audit_save" /\ \A g \in Req \ {h} : req'[g] = req[g]
      BY <1>3, <1>a DEF AuditSave, Idle
    <3> QED
      BY <3>1, <3>2
  <2>3. audit'.status = "none" => FALSE
    BY <1>3, <1>a, <2>1 DEF AuditSave, operate, operate_pass, operate_reject, operate_abort,
       WorkflowAction, NoAudit, AuditRow
  <2>4. audit'.status = "waiting" => ~ autoPassed'
    BY <1>3, <1>a, <2>1 DEF AuditSave, operate, operate_pass, operate_reject, operate_abort,
       WorkflowAction, NoAudit, AuditRow, ReviewInv
  <2>5. status' # "absent"
    BY <1>3, <2>1 DEF AuditSave, ReviewInv
  <2> QED
    BY <2>2, <2>3, <2>4, <2>5 DEF ReviewInv
<1>4. ASSUME NEW h \in Req, \/ SubmitStatus(h) \/ AuditUnschedule(h) \/ AuditStatus(h)
                           \/ ReleaseStep(h) \/ RequestDies(h)
      PROVE  ReviewInv'
  <2>1. UNCHANGED <<audit, autoPassed>> /\ (status' = "absent" => status = "absent")
    BY <1>4 DEF SubmitStatus, AuditUnschedule, AuditStatus, ReleaseStep, RequestDies, ExecuteCheck,
       ExecuteMark, ExecuteUnschedule, ExecuteEnqueue, ExecuteManual, TimingCheck, TimingSave
  <2>2. \A g \in Req : req'[g] = req[g] \/ req'[g].pc # "audit_save"
    BY <1>4, <1>a DEF SubmitStatus, AuditUnschedule, AuditStatus, ReleaseStep, RequestDies, ExecuteCheck,
       ExecuteMark, ExecuteUnschedule, ExecuteEnqueue, ExecuteManual, TimingCheck, TimingSave,
       Done, Goto, Idle, GoodRequest
  <2> QED
    BY <1>b, <2>1, <2>2
<1>5. ASSUME ScheduleFire \/ (\E t \in Task : TaskStep(t) \/ HookStep(t) \/ TaskLost(t))
             \/ UNCHANGED vars
      PROVE  ReviewInv'
  <2>1. UNCHANGED <<audit, autoPassed, req>>
    BY <1>5 DEF ScheduleFire, TaskStep, HookStep, TaskLost, TaskStart, TaskRefuse, TaskReturn,
       ExportCopy, ExportSave, HookRead, HookRefuse, HookSave, vars
  <2>2. status' = "absent" => status = "absent"
    BY <1>5 DEF ScheduleFire, TaskStep, HookStep, TaskLost, TaskStart, TaskRefuse, TaskReturn,
       ExportCopy, ExportSave, HookRead, HookRefuse, HookSave, vars, ApprovalInv, TaskSound
  <2> QED
    BY <1>b, <2>1, <2>2
<1> QED
  BY <1>1, <1>2, <1>3, <1>4, <1>5 DEF Next, SubmitStep, AuditStep

\* The submission: the system opens the chain at its first node, or decides.
LEMMA SubmissionImplements ==
  ASSUME TypeInv, ReviewInv, NEW h \in Req, SubmitCreate(h)
  PROVE  Review!Submit
<1>1. /\ status = "absent" /\ audit.status = "none" /\ ~ autoPassed /\ UNCHANGED signed
      /\ \E auto \in {"reject", "review", "pass"} :
           audit' = create_audit(auto) /\ autoPassed' = (auto = "pass")
  BY DEF SubmitCreate, ReviewInv
<1>2. verdictOf = "new" /\ stageOf = 0
  BY <1>1 DEF verdictOf, stageOf
<1>3. ChainIndex(Chain[1]) = 1
  BY ChainStart, ChainIndexFirst
<1>4. verdictOf' \in {"open", "granted", "refused"} /\ stageOf' = 0
  <2>1. CASE audit' = create_audit("reject") /\ ~ autoPassed'
    BY <2>1 DEF create_audit, NoAudit, verdictOf, stageOf
  <2>2. CASE audit' = create_audit("review") /\ ~ autoPassed'
    <3>1. audit'.status = "waiting" /\ audit'.current = Chain[1]
      BY <2>2 DEF create_audit
    <3> QED
      BY <3>1, <1>3 DEF verdictOf, stageOf
  <2>3. CASE audit' = create_audit("pass") /\ autoPassed'
    BY <2>3 DEF create_audit, NoAudit, verdictOf, stageOf
  <2> QED
    BY <1>1, <2>1, <2>2, <2>3
<1> QED
  BY <1>1, <1>2, <1>4 DEF Review!Submit

\* A decision: from a copy that is still the row, the next group in line signs, or the
\* ticket is refused.
LEMMA DecisionImplements ==
  ASSUME EachGroupOnce, TypeInv, ApprovalInv, ReviewInv, NEW h \in Req, AuditSave(h)
  PROVE  Review!Sign \/ Review!Refuse
<1> DEFINE action == req[h].action
<1>1. /\ req[h].audit = audit /\ audit.status \in {"waiting", "passed"}
      /\ action \in WorkflowAction
      /\ action = "pass" => audit.status = "waiting"
  BY DEF AuditSave, At, ReviewInv, TypeInv, GoodRequest
<1>2. /\ audit' = operate(audit, action) /\ UNCHANGED autoPassed
      /\ signed' = IF action = "pass" THEN signed \cup {audit.current} ELSE signed
  BY <1>1 DEF AuditSave
<1>3. audit \in AuditRow /\ audit \in GoodRow
  BY DEF TypeInv, GoodRow
<1> HIDE DEF action
<1>4. CASE action = "pass"
  <2> DEFINE g == audit.current
             k == ChainIndex(g)
  <2>1. audit.status = "waiting" /\ ~ autoPassed /\ g \in ChainGroups /\ audit.next = NodeAfter(g)
    BY <1>1, <1>3, <1>4 DEF GoodRow, ReviewInv, ApprovalInv, SoundRow
  <2>2. /\ k \in 1..Len(Chain) /\ Chain[k] = g /\ Len(Chain) \in Nat
        /\ NodeAfter(g) = NoNode <=> k = Len(Chain)
        /\ NodeAfter(g) # NoNode => ChainIndex(NodeAfter(g)) = k + 1
    BY <2>1, NextPlace
  <2>3. verdictOf = "open" /\ stageOf = k - 1
    BY <2>1 DEF verdictOf, stageOf
  <2>4. audit' = operate_pass(audit) /\ signed' = signed \cup {g} /\ ~ autoPassed'
    BY <1>2, <1>4, <2>1 DEF operate
  <2> HIDE DEF g, k
  <2>5. verdictOf' = (IF k = Len(Chain) THEN "granted" ELSE "open") /\ stageOf' = k
    <3>1. CASE NodeAfter(g) = NoNode
      <4>1. audit'.status = "passed"
        BY <2>1, <2>4, <3>1, <1>3 DEF operate_pass, AuditRow
      <4> QED
        BY <4>1, <2>2, <2>4, <3>1 DEF verdictOf, stageOf
    <3>2. CASE NodeAfter(g) # NoNode
      <4>1. audit'.status = "waiting" /\ audit'.current = NodeAfter(g)
        BY <2>1, <2>4, <3>2 DEF operate_pass
      <4> QED
        BY <4>1, <2>2, <3>2 DEF verdictOf, stageOf
    <3> QED
      BY <3>1, <3>2
  <2> QED
    BY <2>2, <2>3, <2>4, <2>5 DEF Review!Sign
<1>5. CASE action # "pass"
  <2>1. audit'.status \in {"rejected", "aborted"}
    BY <1>1, <1>2, <1>3, <1>5 DEF operate, operate_reject, operate_abort, WorkflowAction, NoAudit, AuditRow
  <2>2. verdictOf \in {"open", "granted"}
    BY <1>1 DEF verdictOf
  <2>3. verdictOf' = "refused" /\ stageOf' = 0
    BY <2>1 DEF verdictOf, stageOf
  <2> QED
    BY <1>2, <1>5, <2>2, <2>3 DEF Review!Refuse
<1> QED
  BY <1>4, <1>5

\* Every other step leaves the review alone.
LEMMA OthersStutter ==
  ASSUME [Next]_vars, \A h \in Req : ~ SubmitCreate(h) /\ ~ AuditSave(h)
  PROVE  UNCHANGED Review!chainVars
<1>1. UNCHANGED <<audit, autoPassed, signed>>
  BY DEF Next, SubmitStep, AuditStep, ReleaseStep, TaskStep, HookStep, RequestDies, TaskLost,
     ScheduleFire, SubmitStatus, AuditRead, AuditUnschedule, AuditStatus,
     ExecuteCheck, ExecuteMark, ExecuteUnschedule, ExecuteEnqueue, ExecuteManual, TimingCheck,
     TimingSave, TaskStart, TaskRefuse, TaskReturn, ExportCopy, ExportSave, HookRead, HookRefuse,
     HookSave, vars, ghosts
<1> QED
  BY <1>1 DEF Review!chainVars, verdictOf, stageOf

\* With one request at a time the review is the abstract chain of ApprovalChain: the groups sign
\* one after the other, each at its turn; the last signature grants; a refusal is final.  For
\* every chain without a repeated group, whatever dies and whatever tasks cross a request.
THEOREM ReviewImplementsChain ==
  ASSUME EachGroupOnce
  PROVE  CalmSpec => SignaturesInTurn
<1> DEFINE Inv == TypeInv /\ ApprovalInv /\ ReviewInv
<1>1. CalmInit => Inv /\ Review!ChainInit
  <2> SUFFICES ASSUME CalmInit
               PROVE  ReviewInv /\ Review!ChainInit
    BY TypeInit, ApprovalInit DEF CalmInit
  <2>1. \A h \in Req : req[h].pc = "idle"
    BY DEF CalmInit, Init, Idle
  <2> QED
    BY <2>1 DEF CalmInit, Init, NoAudit, verdictOf, stageOf, Review!ChainInit, ReviewInv,
       OneBusy, Busy, At
<1>2. ASSUME Inv, [CalmNext]_calmVars
      PROVE  Inv'
  <2>1. [Next]_vars /\ OneBusy'
    <3>1. CASE CalmNext
      BY <1>2, <3>1, OneBusyKept DEF CalmNext, ReviewInv
    <3>2. CASE UNCHANGED calmVars
      BY <1>2, <3>2 DEF calmVars, vars, ReviewInv, OneBusy, Busy, At
    <3> QED
      BY <1>2, <3>1, <3>2
  <2> QED
    BY <1>2, <2>1, TypeNext, ApprovalNext, ReviewNext
<1>3. ASSUME Inv, [CalmNext]_calmVars
      PROVE  [Review!Submit \/ Review!Sign \/ Review!Refuse]_(Review!chainVars)
  <2>1. [Next]_vars
    BY <1>3 DEF CalmNext, calmVars
  <2> QED
    BY <1>3, <2>1, SubmissionImplements, DecisionImplements, OthersStutter
<1> HIDE DEF Inv
<1> QED
  BY <1>1, <1>2, <1>3, PTL DEF CalmSpec, SignaturesInTurn, Review!ChainSpec
=============================================================================
