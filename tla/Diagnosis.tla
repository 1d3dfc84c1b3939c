----------------------------- MODULE Diagnosis -----------------------------
(***************************************************************************)
(* AI diagnosis of slow queries: the rows of ai_diagnosis_task, and the    *)
(* processes that change them with no lock and no look at what they        *)
(* overwrite:                                                              *)
(*                                                                         *)
(*   - web processes (Procs, gunicorn's sync workers, one request at a     *)
(*     time each), which create a task and give it to their own thread     *)
(*     pool, if the pool's semaphore has a slot left;                      *)
(*   - the pool's threads, which run diagnose_slowquery_task;              *)
(*   - the markers, which set a task to failed when it has been open for   *)
(*     too long: every poll of a task (Pollers), and a scheduled sweep     *)
(*     over all of them (Sweeper).                                         *)
(*                                                                         *)
(* Time is counted in ticks.  The ages saturate where no threshold is left *)
(* to pass.  The ghost variable began is read by properties only.          *)
(***************************************************************************)
EXTENDS Naturals, FiniteSets

CONSTANTS
  Procs,        \* web processes
  Keys,         \* slow queries: instance, database and fingerprint
  Slots,        \* _DIAG_MAX_WORKERS + _DIAG_MAX_PENDING
  Workers,      \* _DIAG_MAX_WORKERS
  Pollers,      \* requests that poll a task
  Sweeper,      \* the scheduled cleanup
  RunningLimit, \* DIAGNOSIS_STALE_RUNNING_MINUTES, in ticks
  PendingLimit, \* DIAGNOSIS_STALE_PENDING_MINUTES, in ticks
  MaxTasks,     \* bound: tasks created
  MaxFaults     \* bound: web processes that die, saves that fail

NoKey == "none"

ASSUME DiagnosisAssumption ==
  /\ NoKey \notin Procs \cup Keys
  /\ Slots \in Nat /\ Workers \in Nat /\ Workers <= Slots
  /\ Sweeper \notin Pollers
  /\ RunningLimit \in Nat /\ PendingLimit \in Nat /\ RunningLimit <= PendingLimit
  /\ MaxTasks \in Nat
  /\ MaxFaults \in Nat

Task    == 1..MaxTasks
Markers == Pollers \cup {Sweeper}
MaxAge  == PendingLimit + 1

Status    == {"absent", "pending", "running", "success", "failed"}
Open      == {"pending", "running"}
TaskRec   == [st : Status, key : Keys \cup {NoKey}, report : BOOLEAN, age : 0..MaxAge]
NewTask   == [st |-> "absent", key |-> NoKey, report |-> FALSE, age |-> 0]

\* A web process serves nothing; is about to create a task; has created task tid and
\* asks for a slot; has it and submits the job; has none and gives up.
Web  == [pc : {"idle", "create", "acquire", "submit", "reject"},
         key : Keys \cup {NoKey}, tid : Task \cup {0}]
Idle == [pc |-> "idle", key |-> NoKey, tid |-> 0]

\* The job of a task in a pool: queued; past the start; its report stored; its success
\* stored; about to give its slot back.  Or there is none.
JobPC  == {"none", "queued", "running", "reported", "recorded", "leaving"}
Job    == [pc : JobPC, proc : Procs \cup {NoKey}]
NoJob  == [pc |-> "none", proc |-> NoKey]

VARIABLES
  task,    \* id -> row of ai_diagnosis_task, with its report (OneToOne) as a flag
  web,     \* web process -> the request it serves
  slots,   \* web process -> value of its _DIAG_SLOTS
  job,     \* id -> job in the pool of a web process
  held,    \* marker -> id -> the open status it has read, "none" for no copy
  faults,  \* faults so far
  began    \* ghost: id -> age at which its job began

rows  == <<task, began>>
pool  == <<slots, job>>
vars  == <<task, web, slots, job, held, faults, began>>

Init ==
  /\ task = [t \in Task |-> NewTask]
  /\ web = [p \in Procs |-> Idle]
  /\ slots = [p \in Procs |-> Slots]
  /\ job = [t \in Task |-> NoJob]
  /\ held = [m \in Markers |-> [t \in Task |-> "none"]]
  /\ faults = 0
  /\ began = [t \in Task |-> 0]

SetStatus(t, st) == task' = [task EXCEPT ![t].st = st]
SetWeb(p, pc)    == web' = [web EXCEPT ![p].pc = pc]
EndRequest(p)    == web' = [web EXCEPT ![p] = Idle]
SetJob(t, pc)    == job' = [job EXCEPT ![t].pc = pc]
Fault            == faults < MaxFaults /\ faults' = faults + 1

\* Definitions marked "Slip" are wrong on purpose; no action uses them.  Each stands
\* in for the definition after it to show which property would notice the mistake.

-----------------------------------------------------------------------------
(* The request: SlowQueryDiagnoseView.post.                                *)

\* No cached report stands in the way (it is too old, of another model, or force is
\* set), and no task of the same slow query is open.
Ask(p, k) ==
  /\ web[p].pc = "idle"
  /\ \A t \in Task : task[t].key = k => task[t].st \notin Open
  /\ web' = [web EXCEPT ![p] = [Idle EXCEPT !.pc = "create", !.key = k]]
  /\ UNCHANGED <<rows, pool, held, faults>>

Create(p) ==
  /\ web[p].pc = "create"
  /\ \E t \in Task :
       /\ task[t].st = "absent"
       /\ \A s \in 1..(t - 1) : task[s].st # "absent"
       /\ task' = [task EXCEPT ![t].st = "pending", ![t].key = web[p].key]
       /\ web' = [web EXCEPT ![p].pc = "acquire", ![p].tid = t]
  /\ UNCHANGED <<pool, held, faults, began>>

\* acquire(blocking=False).
AcquireSlot(p) ==
  /\ web[p].pc = "acquire"
  /\ IF slots[p] > 0
     THEN /\ slots' = [slots EXCEPT ![p] = @ - 1]
          /\ SetWeb(p, "submit")
     ELSE /\ SetWeb(p, "reject")
          /\ UNCHANGED slots
  /\ UNCHANGED <<rows, job, held, faults>>

Submit(p) ==
  /\ web[p].pc = "submit"
  /\ job' = [job EXCEPT ![web[p].tid] = [pc |-> "queued", proc |-> p]]
  /\ EndRequest(p)
  /\ UNCHANGED <<rows, slots, held, faults>>

\* Slip: the slot is not given back when submit raises.
SubmitRaisesKeepsSlot(p) ==
  /\ web[p].pc = "submit"
  /\ SetWeb(p, "reject")
  /\ UNCHANGED <<rows, pool, held, faults>>

\* The executor takes no more jobs: the slot is given back.
SubmitRaises(p) ==
  /\ web[p].pc = "submit"
  /\ slots' = [slots EXCEPT ![p] = @ + 1]
  /\ SetWeb(p, "reject")
  /\ UNCHANGED <<rows, job, held, faults>>

Reject(p) ==
  /\ web[p].pc = "reject"
  /\ SetStatus(web[p].tid, "failed")
  /\ EndRequest(p)
  /\ UNCHANGED <<pool, held, faults, began>>

-----------------------------------------------------------------------------
(* The job: _run_diagnosis and diagnose_slowquery_task.                    *)

BusyWorkers(p) ==
  Cardinality({t \in Task : job[t].proc = p /\ job[t].pc \notin {"none", "queued"}})

\* The row is set to running, whatever its status has become in the queue.
JobStart(t) ==
  /\ job[t].pc = "queued"
  /\ BusyWorkers(job[t].proc) < Workers
  /\ SetStatus(t, "running")
  /\ began' = [began EXCEPT ![t] = task[t].age]
  /\ SetJob(t, "running")
  /\ UNCHANGED <<web, slots, held, faults>>

\* Slip: the report comes after the success.
JobReportLater(t) ==
  /\ job[t].pc = "running"
  /\ SetJob(t, "reported")
  /\ UNCHANGED <<rows, web, slots, held, faults>>

\* The old report is deleted and the new one stored in one transaction.
JobReport(t) ==
  /\ job[t].pc = "running"
  /\ task' = [task EXCEPT ![t].report = TRUE]
  /\ SetJob(t, "reported")
  /\ UNCHANGED <<web, slots, held, faults, began>>

JobSuccess(t) ==
  /\ job[t].pc = "reported"
  /\ SetStatus(t, "success")
  /\ SetJob(t, "recorded")
  /\ UNCHANGED <<web, slots, held, faults, began>>

\* The usage is recorded; reading the task's user for it may still raise.
JobEnds(t) ==
  /\ job[t].pc = "recorded"
  /\ SetJob(t, "leaving")
  /\ UNCHANGED <<rows, web, slots, held, faults>>

\* The service gave its fallback answer, or anything raised.
JobFails(t) ==
  /\ job[t].pc \in {"running", "reported", "recorded"}
  /\ SetStatus(t, "failed")
  /\ SetJob(t, "leaving")
  /\ UNCHANGED <<web, slots, held, faults, began>>

\* Slip: only a job that went well gives its slot back.
JobLeavesKeepsSlot(t) ==
  /\ job[t].pc = "leaving"
  /\ job' = [job EXCEPT ![t] = NoJob]
  /\ slots' = [slots EXCEPT ![job[t].proc] =
                 IF task[t].st = "success" THEN @ + 1 ELSE @]
  /\ UNCHANGED <<rows, web, held, faults>>

JobLeaves(t) ==
  /\ job[t].pc = "leaving"
  /\ job' = [job EXCEPT ![t] = NoJob]
  /\ slots' = [slots EXCEPT ![job[t].proc] = @ + 1]
  /\ UNCHANGED <<rows, web, held, faults>>

-----------------------------------------------------------------------------
(* The markers: _mark_stale_task_failed and its callers.                   *)

Limit(st) == IF st = "running" THEN RunningLimit ELSE PendingLimit

Opened(t) == IF task[t].st \in Open THEN task[t].st ELSE "none"
NoCopies  == [t \in Task |-> "none"]

\* A poll reads one task, a sweep all that are open.
PollRead(m, t) ==
  /\ held[m] = NoCopies
  /\ task[t].st \in Open
  /\ held' = [held EXCEPT ![m][t] = Opened(t)]
  /\ UNCHANGED <<rows, web, pool, faults>>

\* Slip: the sweep looks after the tasks that wait, not after those that run.
SweepReadPending ==
  /\ held[Sweeper] = NoCopies
  /\ \E t \in Task : task[t].st = "pending"
  /\ held' = [held EXCEPT ![Sweeper] =
                [t \in Task |-> IF task[t].st = "pending" THEN "pending" ELSE "none"]]
  /\ UNCHANGED <<rows, web, pool, faults>>

SweepRead ==
  /\ held[Sweeper] = NoCopies
  /\ \E t \in Task : task[t].st \in Open
  /\ held' = [held EXCEPT ![Sweeper] = [t \in Task |-> Opened(t)]]
  /\ UNCHANGED <<rows, web, pool, faults>>

\* The copy's status and the age since the creation decide; the row is not read again.
Judge(m, t) ==
  /\ held[m][t] # "none"
  /\ task' = IF task[t].age > Limit(held[m][t])
             THEN [task EXCEPT ![t].st = "failed"] ELSE task
  /\ held' = [held EXCEPT ![m][t] = "none"]
  /\ UNCHANGED <<web, pool, faults, began>>

-----------------------------------------------------------------------------
(* Time and faults.                                                        *)

Tick ==
  /\ \E t \in Task : task[t].st # "absent" /\ task[t].age < MaxAge
  /\ task' = [t \in Task |->
                IF task[t].st # "absent" /\ task[t].age < MaxAge
                THEN [task[t] EXCEPT !.age = @ + 1] ELSE task[t]]
  /\ UNCHANGED <<web, pool, held, faults, began>>

\* The process goes with its request, its pool and the jobs in it; a new process has a
\* new semaphore.
Restart(p) ==
  /\ Fault
  /\ EndRequest(p)
  /\ slots' = [slots EXCEPT ![p] = Slots]
  /\ job' = [t \in Task |-> IF job[t].proc = p THEN NoJob ELSE job[t]]
  /\ UNCHANGED <<rows, held>>

\* The database takes no save: that of the rejection ...
RejectLost(p) ==
  /\ web[p].pc = "reject"
  /\ Fault
  /\ EndRequest(p)
  /\ UNCHANGED <<rows, pool, held>>

\* ... that of the start, or that of the failure.
JobSaveLost(t) ==
  /\ \/ job[t].pc = "queued" /\ BusyWorkers(job[t].proc) < Workers
     \/ job[t].pc \in {"running", "reported", "recorded"}
  /\ Fault
  /\ SetJob(t, "leaving")
  /\ UNCHANGED <<rows, web, slots, held>>

-----------------------------------------------------------------------------
RequestStep(p) == \/ Create(p) \/ AcquireSlot(p) \/ Submit(p)
                  \/ SubmitRaises(p) \/ Reject(p)
JobStep(t)     == \/ JobStart(t) \/ JobReport(t) \/ JobSuccess(t)
                  \/ JobEnds(t) \/ JobFails(t) \/ JobLeaves(t)
Sweep          == SweepRead \/ \E t \in Task : Judge(Sweeper, t)

Next ==
  \/ \E p \in Procs : RequestStep(p) \/ Restart(p) \/ RejectLost(p)
  \/ \E p \in Procs, k \in Keys : Ask(p, k)
  \/ \E t \in Task : JobStep(t) \/ JobSaveLost(t)
  \/ \E m \in Pollers, t \in Task : PollRead(m, t) \/ Judge(m, t)
  \/ Sweep
  \/ Tick

Spec == Init /\ [][Next]_vars

\* Time passes and the cleanup is scheduled.  The request that created a task goes on,
\* and so does a job: each of its calls to the AI service has a timeout.
FairSpec ==
  /\ Spec
  /\ WF_vars(Tick) /\ WF_vars(Sweep)
  /\ \A p \in Procs : WF_vars(RequestStep(p))
  /\ \A t \in Task : WF_vars(JobStep(t))

-----------------------------------------------------------------------------
(* Properties.                                                             *)

TypeOK ==
  /\ task \in [Task -> TaskRec]
  /\ web \in [Procs -> Web]
  /\ slots \in [Procs -> 0..Slots]
  /\ job \in [Task -> Job]
  /\ held \in [Markers -> [Task -> Open \cup {"none"}]]
  /\ faults \in 0..MaxFaults
  /\ began \in [Task -> 0..MaxAge]

\* No slot of a pool leaks and none is given back twice: every one that is taken is
\* with a request that submits or with a job, on every path out of either.
SlotsConserved ==
  \A p \in Procs :
    slots[p] + (IF web[p].pc = "submit" THEN 1 ELSE 0)
             + Cardinality({t \in Task : job[t].proc = p}) = Slots

\* A task that is shown as a success has its report, whoever has marked it in between
\* (diagnosis.py:760).
SuccessHasReport == \A t \in Task : task[t].st = "success" => task[t].report

\* As long as nothing failed, an open task is in somebody's hands: the stale marks are
\* needed after faults only.
OpenIsServed ==
  \A t \in Task : task[t].st \in Open /\ faults = 0 =>
    \/ job[t].pc \in {"queued", "running", "reported"}
    \/ \E p \in Procs : web[p].tid = t

\* Every task ends and stays ended, also when its process died and nobody polls: that
\* is what the scheduled cleanup is for.
Settles == \A t \in Task : task[t].st \in Open ~> [](task[t].st \notin Open)

\* A pool that is full has a slot again some time.
PoolRecovers == \A p \in Procs : slots[p] = 0 ~> slots[p] > 0
=============================================================================
