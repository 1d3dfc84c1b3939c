---------------------------- MODULE Optimisation ----------------------------
(***************************************************************************)
(* AI advice on a statement.  The page asks and waits for the answer, or   *)
(* has a task made and polls it; a report is kept for a day under the      *)
(* statement and the name of the model, and serves both.  For MySQL and    *)
(* MongoDB the model asks in rounds for facts of the database, which are   *)
(* only read, before it reports; for the others it is asked once.          *)
(*                                                                         *)
(* A text is a masked statement with the kind of the instance and the      *)
(* database, which is what the key of a report knows of it.  The tasks are *)
(* those of one web process, with a semaphore and a pool of threads.       *)
(***************************************************************************)
EXTENDS AIGateway, FiniteSets

CONSTANTS
  Asks,               \* requests
  Texts, Agentic,     \* texts, and those of MySQL and MongoDB
  AgentRounds,        \* AGENT_MAX_ROUNDS
  OptimizeSlots,      \* _OPTIMIZE_MAX_WORKERS + _OPTIMIZE_MAX_PENDING
  OptimizeWorkers,    \* _OPTIMIZE_MAX_WORKERS
  NoText,
  MaxAsked, MaxAdvice, MaxCrashes  \* bounds: requests, tasks, and processes that die

ASSUME OptimisationAssumption ==
  /\ Agentic \subseteq Texts /\ NoText \notin Texts
  /\ {AgentRounds, OptimizeSlots, OptimizeWorkers, MaxAsked, MaxAdvice, MaxCrashes} \subseteq Nat
  /\ AgentRounds > 0 /\ OptimizeWorkers <= OptimizeSlots
  /\ \A r \in Asks : r \notin Nat

AdviceTask == 1..MaxAdvice
NoModel    == "none"
Cost       == 0..(AgentRounds + 1)
AIClient   == [model : Models, last_usage : Cost, total_usage : Cost]
Key        == [text : Texts, model : Models]

Report     == [by : Models, crossed : BOOLEAN]
NothingCached == [key \in {} |-> FALSE]

\* A run of the model for a request or a task, what has been booked of its cost, and whether the log
\* of usages refused the row.
AgentPC == {"off", "queued", "client", "calling", "forced", "answered", "saved", "stored", "failed",
            "leaving", "spoilt", "over", "lost"}
AgentRun == [pc : AgentPC, client : AIClient, rounds : 0..AgentRounds, booked : Cost,
             refused : BOOLEAN]

VARIABLES
  ask,     \* request -> where it is, its text, the name of the model in its key
  advice,  \* id -> row of ai_optimize_task
  run,     \* request or id -> its run
  oslots,  \* _OPTIMIZE_SLOTS
  reports, \* key -> model whose report is in the cache, and was its request crossed?
  copy,    \* id -> has a poll read the task as open?
  asked, crashes,
  crossing \* ghost: request -> has the configuration changed under it?

optimisationVars == <<gatewayVars, ask, advice, run, oslots, reports, copy, asked, crashes, crossing>>

AskRec    == [pc : {"idle", "running", "dedup", "mark", "create", "slot", "submit"}, text : Texts \cup {NoText},
              model : Models \cup {NoModel}, task : AdviceTask \cup {0}]
AdviceRec == [status : {"absent", "pending", "running", "success", "failed"},
              text : Texts \cup {NoText}, model : Models \cup {NoModel},
              report : Models \cup {NoModel}, old : BOOLEAN]
OpenAdvice == {"pending", "running"}

NoAsk == [pc |-> "idle", text |-> NoText, model |-> NoModel, task |-> 0]

NoRun(m) == [pc |-> "off", client |-> OpenaiClient(m), rounds |-> 0, booked |-> 0,
             refused |-> FALSE]

OptimisationTypeOK ==
  /\ GatewayTypeOK
  /\ ask \in [Asks -> AskRec] /\ advice \in [AdviceTask -> AdviceRec]
  /\ run \in [Asks \cup AdviceTask -> AgentRun]
  /\ oslots \in 0..OptimizeSlots
  /\ DOMAIN reports \subseteq Key /\ \A key \in DOMAIN reports : reports[key] \in Report
  /\ copy \in [AdviceTask -> BOOLEAN]
  /\ asked \in 0..MaxAsked /\ crashes \in 0..MaxCrashes /\ crossing \in [Asks -> BOOLEAN]

-----------------------------------------------------------------------------
(* The rounds of a run: run_agent_optimize, or one call.                   *)

TextOf(x) == IF x \in Asks THEN ask[x].text ELSE advice[x].text
SetRun(x, pc) == run' = [run EXCEPT ![x].pc = pc]
SetAsk(r, pc) == ask' = [ask EXCEPT ![r].pc = pc]
Answer(r)     == ask' = [ask EXCEPT ![r] = NoAsk]

MakeClient(x) ==
  /\ run[x].pc = "client"
  /\ run' = [run EXCEPT ![x].pc = "calling", ![x].client = OpenaiClient(chat_model)]
  /\ UNCHANGED <<gatewayVars, ask, advice, oslots, reports, copy, asked, crashes, crossing>>

\* A single call makes the report.
Call(x) ==
  /\ run[x].pc = "calling" /\ TextOf(x) \notin Agentic
  /\ run' = [run EXCEPT ![x].pc = "answered", ![x].client = create_chat_completion(@)]
  /\ UNCHANGED <<gatewayVars, ask, advice, oslots, reports, copy, asked, crashes, crossing>>

\* A report ends the rounds; calls of tools ask for another, whatever the tools tell; an answer with
\* neither ends them as well, and so does the end of the time: then the model has to report.
Round(x) ==
  /\ run[x].pc = "calling" /\ TextOf(x) \in Agentic
  /\ \E next \in {"answered", "calling", "forced"} :
       run' = [run EXCEPT ![x].pc = IF next = "calling" /\ run[x].rounds + 1 = AgentRounds
                                    THEN "forced" ELSE next,
                          ![x].rounds = IF next = "calling" THEN @ + 1 ELSE @,
                          ![x].client = create_chat_completion(@)]
  /\ UNCHANGED <<gatewayVars, ask, advice, oslots, reports, copy, asked, crashes, crossing>>

ForcedCall(x) ==
  /\ run[x].pc = "forced"
  /\ run' = [run EXCEPT ![x].pc = "answered", ![x].client = create_chat_completion(@)]
  /\ UNCHANGED <<gatewayVars, ask, advice, oslots, reports, copy, asked, crashes, crossing>>

\* There is no client or no connection to the database, or a call is not answered; a task may also
\* fail when it is saved and when its user is read.
RunFails(x) ==
  /\ run[x].pc \in {"client", "calling", "forced"} \cup (IF x \in Asks THEN {} ELSE {"answered", "stored"})
  /\ SetRun(x, "failed")
  /\ UNCHANGED <<gatewayVars, ask, advice, oslots, reports, copy, asked, crashes, crossing>>

\* Slip: the usage of the last call is booked.
Usage_last(x) == run[x].client.last_usage

\* The rounds book the total; a single call books the last one, which is all there is.
Usage(x) == IF TextOf(x) \in Agentic THEN run[x].client.total_usage ELSE run[x].client.last_usage

\* Any failure of the log is swallowed with a warning: the caller goes on, and the cost is lost.
record_ai_usage(x, pc) ==
  \E refused \in BOOLEAN :
    run' = [run EXCEPT ![x].pc = pc, ![x].refused = refused,
                       ![x].booked = IF refused THEN @ ELSE @ + Usage(x)]

-----------------------------------------------------------------------------
(* The request that waits: OptimizeAIView.                                 *)

Cached(text, model) == [text |-> text, model |-> model] \in DOMAIN reports

Keep(text, model, by, crossed) ==
  LET key == [text |-> text, model |-> model] IN
  reports' = [k \in DOMAIN reports \cup {key} |->
                IF k = key THEN [by |-> by, crossed |-> crossed] ELSE reports[k]]

\* The name of the model is read; a report under it is the answer, costs nothing and changes nothing.
OptimizeAIView(r) ==
  /\ ask[r].pc = "idle" /\ asked < MaxAsked /\ asked' = asked + 1
  /\ \E x \in Texts :
       /\ ~ Cached(x, chat_model)
       /\ ask' = [ask EXCEPT ![r] = [@ EXCEPT !.pc = "running", !.text = x, !.model = chat_model]]
  /\ run' = [run EXCEPT ![r] = [NoRun(chat_model) EXCEPT !.pc = "client"]]
  /\ crossing' = [crossing EXCEPT ![r] = FALSE]
  /\ UNCHANGED <<gatewayVars, advice, oslots, reports, copy, crashes>>

Book(r) ==
  /\ run[r].pc = "answered"
  /\ record_ai_usage(r, "saved")
  /\ UNCHANGED <<gatewayVars, ask, advice, oslots, reports, copy, asked, crashes, crossing>>

StoreReport(r) ==
  /\ run[r].pc = "saved"
  /\ Keep(ask[r].text, ask[r].model, run[r].client.model, crossing[r])
  /\ SetRun(r, "over")
  /\ Answer(r)
  /\ UNCHANGED <<gatewayVars, advice, oslots, copy, asked, crashes, crossing>>

AdviceFails(r) ==
  /\ run[r].pc = "failed"
  /\ record_ai_usage(r, "over")
  /\ Answer(r)
  /\ UNCHANGED <<gatewayVars, advice, oslots, reports, copy, asked, crashes, crossing>>

-----------------------------------------------------------------------------
(* The submission of a task: OptimizeAIAsyncSubmitView.                    *)

SubmitView(r) ==
  /\ ask[r].pc = "idle" /\ asked < MaxAsked /\ asked' = asked + 1
  /\ \E x \in Agentic :
       /\ ~ Cached(x, chat_model)
       /\ ask' = [ask EXCEPT ![r] = [@ EXCEPT !.pc = "dedup", !.text = x, !.model = chat_model]]
  /\ UNCHANGED <<gatewayVars, advice, run, oslots, reports, copy, crashes, crossing>>

OpenFor(x) == {t \in AdviceTask : advice[t].text = x /\ advice[t].status \in OpenAdvice}
Latest(T)  == CHOOSE t \in T : \A u \in T : u <= t

\* The last open task of the text, if it is not too old, is the answer.
Deduplicate(r) ==
  /\ ask[r].pc = "dedup"
  /\ LET open == OpenFor(ask[r].text) IN
       IF open = {} THEN SetAsk(r, "create")
       ELSE IF advice[Latest(open)].old THEN ask' = [ask EXCEPT ![r].pc = "mark", ![r].task = Latest(open)]
       ELSE Answer(r)
  /\ UNCHANGED <<gatewayVars, advice, run, oslots, reports, copy, asked, crashes, crossing>>

MarkOld(r) ==
  /\ ask[r].pc = "mark"
  /\ advice' = [advice EXCEPT ![ask[r].task].status = "failed"]
  /\ SetAsk(r, "create")
  /\ UNCHANGED <<gatewayVars, run, oslots, reports, copy, asked, crashes, crossing>>

CreateAdvice(r) ==
  /\ ask[r].pc = "create"
  /\ \E t \in AdviceTask :
       /\ advice[t].status = "absent" /\ \A u \in 1..(t - 1) : advice[u].status # "absent"
       /\ advice' = [advice EXCEPT ![t] = [@ EXCEPT !.status = "pending", !.text = ask[r].text,
                                                    !.model = ask[r].model]]
       /\ ask' = [ask EXCEPT ![r].pc = "slot", ![r].task = t]
  /\ UNCHANGED <<gatewayVars, run, oslots, reports, copy, asked, crashes, crossing>>

\* Slip: the task is submitted without a slot.
TakeSlot_none(r) ==
  /\ ask[r].pc = "slot"
  /\ SetAsk(r, "submit")
  /\ UNCHANGED <<gatewayVars, advice, run, oslots, reports, copy, asked, crashes, crossing>>

TakeSlot(r) ==
  /\ ask[r].pc = "slot"
  /\ IF oslots > 0
     THEN oslots' = oslots - 1 /\ SetAsk(r, "submit") /\ UNCHANGED advice
     ELSE /\ advice' = [advice EXCEPT ![ask[r].task].status = "failed"]
          /\ Answer(r) /\ UNCHANGED oslots
  /\ UNCHANGED <<gatewayVars, run, reports, copy, asked, crashes, crossing>>

SubmitTask(r) ==
  /\ ask[r].pc = "submit"
  /\ run' = [run EXCEPT ![ask[r].task] = [NoRun(chat_model) EXCEPT !.pc = "queued"]]
  /\ Answer(r)
  /\ UNCHANGED <<gatewayVars, advice, oslots, reports, copy, asked, crashes, crossing>>

SubmitFails(r) ==
  /\ ask[r].pc = "submit"
  /\ oslots' = oslots + 1
  /\ advice' = [advice EXCEPT ![ask[r].task].status = "failed"]
  /\ Answer(r)
  /\ UNCHANGED <<gatewayVars, run, reports, copy, asked, crashes, crossing>>

-----------------------------------------------------------------------------
(* The task in the pool: run_optimize_task.                                *)

InPool == {t \in AdviceTask : run[t].pc \notin {"off", "over", "lost"}}

\* The row is set to running, whatever it has become in the queue.
StartTask(t) ==
  /\ run[t].pc = "queued"
  /\ Cardinality({u \in InPool : run[u].pc # "queued"}) < OptimizeWorkers
  /\ advice' = [advice EXCEPT ![t].status = "running"]
  /\ SetRun(t, "client")
  /\ UNCHANGED <<gatewayVars, ask, oslots, reports, copy, asked, crashes, crossing>>

\* Slip: the row keeps the model it was created with.
SaveAdvice_asked(t) ==
  /\ run[t].pc = "answered"
  /\ advice' = [advice EXCEPT ![t] = [@ EXCEPT !.status = "success", !.report = run[t].client.model]]
  /\ SetRun(t, "saved")
  /\ UNCHANGED <<gatewayVars, ask, oslots, reports, copy, asked, crashes, crossing>>

\* The report, the model that made it and the success in one save.
SaveAdvice(t) ==
  /\ run[t].pc = "answered"
  /\ advice' = [advice EXCEPT ![t] = [@ EXCEPT !.status = "success", !.model = run[t].client.model,
                                               !.report = run[t].client.model]]
  /\ SetRun(t, "saved")
  /\ UNCHANGED <<gatewayVars, ask, oslots, reports, copy, asked, crashes, crossing>>

CacheAdvice(t) ==
  /\ run[t].pc = "saved"
  /\ Keep(advice[t].text, run[t].client.model, run[t].client.model, FALSE)
  /\ SetRun(t, "stored")
  /\ UNCHANGED <<gatewayVars, ask, advice, oslots, copy, asked, crashes, crossing>>

BookAdvice(t) ==
  /\ run[t].pc = "stored"
  /\ record_ai_usage(t, "leaving")
  /\ UNCHANGED <<gatewayVars, ask, advice, oslots, reports, copy, asked, crashes, crossing>>

\* Nothing is booked.
TaskFails(t) ==
  /\ run[t].pc = "failed"
  /\ advice' = [advice EXCEPT ![t].status = "failed"]
  /\ SetRun(t, "spoilt")
  /\ UNCHANGED <<gatewayVars, ask, oslots, reports, copy, asked, crashes, crossing>>

LeavePool(t) ==
  /\ run[t].pc \in {"leaving", "spoilt"}
  /\ oslots' = oslots + 1
  /\ SetRun(t, IF run[t].pc = "leaving" THEN "over" ELSE "lost")
  /\ UNCHANGED <<gatewayVars, ask, advice, reports, copy, asked, crashes, crossing>>

-----------------------------------------------------------------------------
(* Polls, time and faults.                                                 *)

\* Ten minutes have gone since the task was made.
GrowOld(t) ==
  /\ advice[t].status \in OpenAdvice /\ ~ advice[t].old
  /\ advice' = [advice EXCEPT ![t].old = TRUE]
  /\ UNCHANGED <<gatewayVars, ask, run, oslots, reports, copy, asked, crashes, crossing>>

\* OptimizeAIAsyncStatusView: an old task that was open when it was read is marked.
StatusView(t) ==
  /\ advice[t].status \in OpenAdvice /\ advice[t].old /\ ~ copy[t]
  /\ copy' = [copy EXCEPT ![t] = TRUE]
  /\ UNCHANGED <<gatewayVars, ask, advice, run, oslots, reports, asked, crashes, crossing>>

StatusViewMarks(t) ==
  /\ copy[t]
  /\ copy' = [copy EXCEPT ![t] = FALSE]
  /\ advice' = [advice EXCEPT ![t].status = "failed"]
  /\ UNCHANGED <<gatewayVars, ask, run, oslots, reports, asked, crashes, crossing>>

\* A day has gone.
Forget(key) ==
  /\ key \in DOMAIN reports
  /\ reports' = [k \in DOMAIN reports \ {key} |-> reports[k]]
  /\ UNCHANGED <<gatewayVars, ask, advice, run, oslots, copy, asked, crashes, crossing>>

\* Another model is configured; requests that wait for an answer are crossed by that.
Switch ==
  /\ SwitchModel
  /\ crossing' = [r \in Asks |-> crossing[r] \/ ask[r].pc = "running"]
  /\ UNCHANGED <<ask, advice, run, oslots, reports, copy, asked, crashes>>

\* The web process dies with its requests, its pool and what is in it.
Crash ==
  /\ crashes < MaxCrashes /\ crashes' = crashes + 1
  /\ oslots' = OptimizeSlots
  /\ run' = [x \in Asks \cup AdviceTask |->
       IF run[x].pc \in {"off", "over"} THEN run[x] ELSE [run[x] EXCEPT !.pc = "lost"]]
  /\ ask' = [r \in Asks |-> NoAsk]
  /\ UNCHANGED <<gatewayVars, advice, reports, copy, asked, crossing>>

-----------------------------------------------------------------------------
OptimisationInit ==
  /\ GatewayInit
  /\ ask = [r \in Asks |-> NoAsk]
  /\ advice = [t \in AdviceTask |-> [status |-> "absent", text |-> NoText, model |-> NoModel,
                                     report |-> NoModel, old |-> FALSE]]
  /\ run = [x \in Asks \cup AdviceTask |-> NoRun(chat_model)]
  /\ oslots = OptimizeSlots
  /\ reports = NothingCached
  /\ copy = [t \in AdviceTask |-> FALSE]
  /\ asked = 0 /\ crashes = 0 /\ crossing = [r \in Asks |-> FALSE]

RunStep(x) == MakeClient(x) \/ Call(x) \/ Round(x) \/ ForcedCall(x) \/ RunFails(x)

AskStep(r) ==
  \/ OptimizeAIView(r) \/ Book(r) \/ StoreReport(r) \/ AdviceFails(r) \/ SubmitView(r)
  \/ Deduplicate(r) \/ MarkOld(r) \/ CreateAdvice(r) \/ TakeSlot(r) \/ SubmitTask(r) \/ SubmitFails(r)

TaskStep(t) ==
  \/ StartTask(t) \/ SaveAdvice(t) \/ CacheAdvice(t) \/ BookAdvice(t) \/ TaskFails(t) \/ LeavePool(t)
  \/ GrowOld(t) \/ StatusView(t) \/ StatusViewMarks(t)

OptimisationNext ==
  \/ \E x \in Asks \cup AdviceTask : RunStep(x)
  \/ \E r \in Asks : AskStep(r)
  \/ \E t \in AdviceTask : TaskStep(t)
  \/ \E key \in Key : Forget(key)
  \/ Switch \/ Crash

OptimisationSpec == OptimisationInit /\ [][OptimisationNext]_optimisationVars

-----------------------------------------------------------------------------
(* Properties.                                                             *)

\* A report under the name of a model was made by that model, and so was that of a task which is a
\* success, whatever the configuration became since it was asked for and whoever has marked the task;
\* only a request that waited while the configuration changed may have put one under another name.
ReportsTellTheirModel ==
  /\ \A key \in DOMAIN reports : reports[key].crossed \/ reports[key].by = key.model
  /\ \A t \in AdviceTask : advice[t].status = "success" => advice[t].report = advice[t].model

\* What an operation has cost is booked in full and never twice, whether it went well or not, unless
\* its process died or the log refused the row, and then nothing of it is; of tasks only those that
\* went well.
Accounted(x) == run[x].booked = IF run[x].refused THEN 0 ELSE run[x].client.total_usage

CostsAreBooked ==
  \A x \in Asks \cup AdviceTask : run[x].pc \in {"over", "leaving"} => Accounted(x)
=============================================================================
