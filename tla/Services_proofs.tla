--------------------------- MODULE Services_proofs ---------------------------
(***************************************************************************)
(* Proofs about the AI services.  The optimisation: a report stands under  *)
(* the name of the model that made it, and what a run has cost is booked   *)
(* once, for every number of requests, tasks, models, rounds, slots,       *)
(* switches and crashes.  The review: a verdict is on the row of the       *)
(* statement it is about, for every size of a batch and every cache.  The  *)
(* diagnosis: slots are conserved, an open task is served.  In the end the *)
(* types of all, and the composition, which implements each.               *)
(***************************************************************************)
EXTENDS MCServices, FiniteSetTheorems, SequenceTheorems, WellFoundedInduction, TLAPS

\* Requests that run at once, and tasks of the pool.
Runners == Asks \cup AdviceTask

\* The rows of requests; their tasks may be anything.
AskRows(T) ==
  [Asks -> [pc : {"idle", "running", "dedup", "mark", "create", "slot", "submit"},
            text : Texts \cup {NoText}, model : Models \cup {NoModel}, task : T]]

\* What a run has cost is a number; that it is bounded by its rounds plays no part.
RunRows ==
  [Runners -> [pc : AgentPC, client : [model : Models, last_usage : Nat, total_usage : Nat],
               rounds : Nat, booked : Nat, refused : BOOLEAN]]

ShapeInv ==
  /\ chat_model \in Models
  /\ \E T : ask \in AskRows(T)
  /\ advice \in [AdviceTask -> AdviceRec]
  /\ run \in RunRows
  /\ crossing \in [Asks -> BOOLEAN]

\* A task runs only when there is a row of it, a request only while it waits, so that the text of a
\* run does not change under it.
HandInv ==
  /\ \A t \in AdviceTask : advice[t].status = "absent" => run[t].pc = "off"
  /\ \A r \in Asks :
       /\ ask[r].pc \in {"slot", "submit"} =>
            ask[r].task \in AdviceTask /\ advice[ask[r].task].status # "absent"
       /\ ask[r].pc # "running" => run[r].pc \in {"off", "over", "lost"}

NotYetBooked(x) ==
  {"off", "queued", "client", "calling", "forced", "answered", "failed"}
    \cup (IF x \in Asks THEN {} ELSE {"saved", "stored"})

\* Before it is booked nothing is; and a text that is asked once costs what its only call has cost.
CostOf(x) ==
  /\ run[x].pc \in NotYetBooked(x) => run[x].booked = 0
  /\ run[x].pc \in {"over", "leaving"} => Accounted(x)
  /\ x \in Asks /\ run[x].pc = "saved" => Accounted(x)
  /\ run[x].pc \in {"queued", "client"} => run[x].client.last_usage = 0 /\ run[x].client.total_usage = 0
  /\ TextOf(x) \notin Agentic =>
       /\ run[x].pc # "forced"
       /\ run[x].pc = "calling" => run[x].client.last_usage = 0 /\ run[x].client.total_usage = 0
       /\ run[x].pc \in {"answered", "failed", "saved", "stored"} =>
            run[x].client.last_usage = run[x].client.total_usage

CostInv == \A x \in Runners : CostOf(x)

\* A request that waits has the configured model in its key and its client, or knows that it was crossed.
ModelInv ==
  \A r \in Asks : ask[r].pc = "running" =>
    \/ crossing[r] = TRUE
    \/ ask[r].model = chat_model /\ run[r].client.model = chat_model

AdviceInv == ShapeInv /\ HandInv /\ CostInv /\ ModelInv /\ ReportsTellTheirModel

\* There may be more that requests name as their task.
LEMMA AskRowsGrow ==
  ASSUME NEW T, NEW t, ask \in AskRows(T)
  PROVE  ask \in AskRows(T \cup {t})
BY DEF AskRows

\* No request is a task.
LEMMA AsksAreNoTasks == Asks \cap AdviceTask = {}
BY OptimisationAssumption DEF AdviceTask

-----------------------------------------------------------------------------
(* The rows keep their shape.                                              *)

\* In the beginning all runs are off and nothing is cached.
LEMMA AdviceInit == OptimisationInit => AdviceInv
<1> SUFFICES ASSUME OptimisationInit PROVE AdviceInv
  OBVIOUS
<1>1. ask \in AskRows({0})
  BY DEF OptimisationInit, NoAsk, AskRows
<1>2. advice \in [AdviceTask -> AdviceRec]
  BY DEF OptimisationInit, AdviceRec
<1>3. chat_model \in Models /\ run \in RunRows
  BY DEF OptimisationInit, GatewayInit, NoRun, OpenaiClient, RunRows, Runners, AgentPC
<1>4. \A x \in Runners : run[x].pc = "off" /\ run[x].booked = 0
  BY DEF OptimisationInit, NoRun, Runners
<1>5. \A r \in Asks : ask[r].pc = "idle"
  BY DEF OptimisationInit, NoAsk
<1>6. ShapeInv
  BY <1>1, <1>2, <1>3 DEF ShapeInv, OptimisationInit
<1>7. HandInv
  BY <1>4, <1>5 DEF HandInv, Runners
<1>8. CostInv
  BY <1>4 DEF CostInv, CostOf, Accounted, NotYetBooked
<1>9. ModelInv
  BY <1>5 DEF ModelInv
<1>10. ReportsTellTheirModel
  BY DEF OptimisationInit, ReportsTellTheirModel, NothingCached
<1> QED
  BY <1>6, <1>7, <1>8, <1>9, <1>10 DEF AdviceInv

\* An answered call: one more in the total.
LEMMA CallCosts ==
  ASSUME run \in RunRows, NEW x \in Runners
  PROVE  LET was == run[x].client
             now == create_chat_completion(was)
         IN /\ now \in [model : Models, last_usage : Nat, total_usage : Nat]
            /\ now.model = was.model /\ now.last_usage = 1 /\ now.total_usage = was.total_usage + 1
<1> DEFINE was == run[x].client
<1>1. was \in [model : Models, last_usage : Nat, total_usage : Nat]
  BY DEF RunRows
<1>2. create_chat_completion(was) = [was EXCEPT !.last_usage = 1, !.total_usage = was.total_usage + 1]
  BY DEF create_chat_completion
<1> HIDE DEF was
<1>3. create_chat_completion(was)
        = [model |-> was.model, last_usage |-> 1, total_usage |-> was.total_usage + 1]
  BY <1>1, <1>2
<1> QED
  BY <1>1, <1>3 DEF was

\* What a step of a run does: nothing but to the run itself, which it takes on.
LEMMA RunStepGoesOn ==
  ASSUME ShapeInv, NEW x \in Runners, RunStep(x)
  PROVE  /\ run' \in RunRows
         /\ chat_model' = chat_model /\ ask' = ask /\ advice' = advice /\ crossing' = crossing
         /\ reports' = reports
         /\ \A y \in Runners \ {x} : run'[y] = run[y]
         /\ run[x].pc \in {"client", "calling", "forced"} \cup (IF x \in Asks THEN {} ELSE {"answered", "stored"})
         /\ run'[x].pc # "client"
         /\ run'[x].booked = run[x].booked /\ run'[x].refused = run[x].refused
         /\ \/ run'[x].pc = "failed" /\ run'[x].client = run[x].client
            \/ /\ run[x].pc = "client" /\ run'[x].pc = "calling" /\ run'[x].client.model = chat_model
               /\ run'[x].client.last_usage = 0 /\ run'[x].client.total_usage = 0
            \/ /\ run[x].pc \in {"calling", "forced"} /\ run'[x].client.model = run[x].client.model
               /\ \/ /\ TextOf(x) \notin Agentic /\ run[x].pc = "calling" /\ run'[x].pc = "answered"
                     /\ run'[x].client.last_usage = 1
                     /\ run'[x].client.total_usage = run[x].client.total_usage + 1
                  \/ TextOf(x) \in Agentic /\ run'[x].pc \in {"answered", "calling", "forced"}
                  \/ run[x].pc = "forced" /\ run'[x].pc = "answered"
<1> DEFINE now == create_chat_completion(run[x].client)
<1>0. run \in RunRows /\ chat_model \in Models
  BY DEF ShapeInv
<1>1. /\ now \in [model : Models, last_usage : Nat, total_usage : Nat]
      /\ now.model = run[x].client.model /\ now.last_usage = 1
      /\ now.total_usage = run[x].client.total_usage + 1
  BY <1>0, CallCosts
<1>2. /\ chat_model' = chat_model /\ ask' = ask /\ advice' = advice /\ crossing' = crossing
      /\ reports' = reports
  BY DEF RunStep, MakeClient, Call, Round, ForcedCall, RunFails, gatewayVars
<1>3. CASE MakeClient(x)
  <2> DEFINE made == OpenaiClient(chat_model)
  <2>1. run' = [run EXCEPT ![x].pc = "calling", ![x].client = made] /\ run[x].pc = "client"
    BY <1>3 DEF MakeClient
  <2>2. /\ made \in [model : Models, last_usage : Nat, total_usage : Nat]
        /\ made.model = chat_model /\ made.last_usage = 0 /\ made.total_usage = 0
    BY <1>0 DEF OpenaiClient
  <2> HIDE DEF made
  <2> QED
    BY <1>0, <1>2, <2>1, <2>2 DEF RunRows, AgentPC
<1>4. CASE Call(x)
  <2>1. /\ run' = [run EXCEPT ![x].pc = "answered", ![x].client = now]
        /\ run[x].pc = "calling" /\ TextOf(x) \notin Agentic
    BY <1>4 DEF Call
  <2> HIDE DEF now
  <2> QED
    BY <1>0, <1>1, <1>2, <2>1 DEF RunRows, AgentPC
<1>5. CASE Round(x)
  <2>1. PICK next \in {"answered", "calling", "forced"} :
          run' = [run EXCEPT ![x].pc = IF next = "calling" /\ run[x].rounds + 1 = AgentRounds
                                       THEN "forced" ELSE next,
                             ![x].rounds = IF next = "calling" THEN @ + 1 ELSE @,
                             ![x].client = now]
    BY <1>5 DEF Round
  <2>2. run[x].pc = "calling" /\ TextOf(x) \in Agentic
    BY <1>5 DEF Round
  <2> DEFINE pc == IF next = "calling" /\ run[x].rounds + 1 = AgentRounds THEN "forced" ELSE next
             rounds == IF next = "calling" THEN run[x].rounds + 1 ELSE run[x].rounds
  <2>3. pc \in {"answered", "calling", "forced"} /\ rounds \in Nat
    BY <1>0 DEF RunRows
  <2>4. run' = [run EXCEPT ![x].pc = pc, ![x].rounds = rounds, ![x].client = now]
    BY <1>0, <2>1 DEF RunRows
  <2> HIDE DEF now, pc, rounds
  <2> QED
    BY <1>0, <1>1, <1>2, <2>2, <2>3, <2>4 DEF RunRows, AgentPC
<1>6. CASE ForcedCall(x)
  <2>1. run' = [run EXCEPT ![x].pc = "answered", ![x].client = now] /\ run[x].pc = "forced"
    BY <1>6 DEF ForcedCall
  <2> HIDE DEF now
  <2> QED
    BY <1>0, <1>1, <1>2, <2>1 DEF RunRows, AgentPC
<1>7. CASE RunFails(x)
  <2>1. /\ run' = [run EXCEPT ![x].pc = "failed"]
        /\ run[x].pc \in {"client", "calling", "forced"} \cup (IF x \in Asks THEN {} ELSE {"answered", "stored"})
    BY <1>7 DEF RunFails, SetRun
  <2> QED
    BY <1>0, <1>2, <2>1 DEF RunRows, AgentPC
<1> QED
  BY <1>3, <1>4, <1>5, <1>6, <1>7 DEF RunStep

-----------------------------------------------------------------------------
(* What the steps have in common.                                          *)

Resting == {"off", "over", "lost"}

\* A run that stays as it is, and whose text does not change unless it rests, keeps its account.
LEMMA CostStays ==
  ASSUME NEW x \in Runners, CostOf(x), run'[x] = run[x],
         run[x].pc \in Resting \/ TextOf(x)' = TextOf(x)
  PROVE  CostOf(x)'
BY DEF CostOf, Accounted, NotYetBooked, Resting

\* Texts of requests change only where ask does.
LEMMA TextStays ==
  ASSUME NEW x \in Runners,
         x \in Asks => ask'[x].text = ask[x].text,
         x \notin Asks => advice'[x].text = advice[x].text
  PROVE  TextOf(x)' = TextOf(x)
BY DEF TextOf

\* SetRun moves one run and nothing in it but its place.
LEMMA SetRunMoves ==
  ASSUME run \in RunRows, NEW x \in Runners, NEW pc \in AgentPC, SetRun(x, pc)
  PROVE  /\ run' \in RunRows
         /\ \A y \in Runners \ {x} : run'[y] = run[y]
         /\ run'[x].pc = pc /\ run'[x].client = run[x].client /\ run'[x].booked = run[x].booked
         /\ run'[x].refused = run[x].refused
BY DEF SetRun, RunRows

\* What is booked is the total, for rounds and for a single call.
LEMMA BookingIsWhole ==
  ASSUME run \in RunRows, NEW x \in Runners, NEW pc \in AgentPC, CostOf(x), record_ai_usage(x, pc),
         run[x].pc \in NotYetBooked(x), run[x].pc \in {"answered", "failed", "stored"}
  PROVE  /\ run' \in RunRows
         /\ \A y \in Runners \ {x} : run'[y] = run[y]
         /\ run'[x].pc = pc /\ run'[x].client = run[x].client
         /\ Accounted(x)'
<1>1. run[x].booked = 0 /\ Usage(x) = run[x].client.total_usage
  BY DEF CostOf, Usage
<1>2. run[x].client.total_usage \in Nat
  BY DEF RunRows
<1>3. PICK refused \in BOOLEAN :
        run' = [run EXCEPT ![x].pc = pc, ![x].refused = refused,
                           ![x].booked = IF refused THEN @ ELSE @ + Usage(x)]
  BY DEF record_ai_usage
<1> DEFINE all == IF refused THEN run[x].booked ELSE run[x].booked + Usage(x)
<1>4. run' = [run EXCEPT ![x].pc = pc, ![x].refused = refused, ![x].booked = all]
  BY <1>3 DEF RunRows
<1>5. all = (IF refused THEN 0 ELSE run[x].client.total_usage) /\ all \in Nat
  BY <1>1, <1>2
<1> HIDE DEF all
<1>6. run'[x] = [run[x] EXCEPT !.pc = pc, !.refused = refused, !.booked = all]
  BY <1>4 DEF RunRows
<1>7. /\ run'[x].pc = pc /\ run'[x].client = run[x].client /\ run'[x].refused = refused
      /\ run'[x].booked = all
  BY <1>6 DEF RunRows
<1>8. Accounted(x)'
  BY <1>5, <1>7 DEF Accounted
<1>9. \A y \in Runners \ {x} : run'[y] = run[y]
  BY <1>4 DEF RunRows
<1>10. run'[x] \in [pc : AgentPC, client : [model : Models, last_usage : Nat, total_usage : Nat],
                    rounds : Nat, booked : Nat, refused : BOOLEAN]
  <2>1. run[x] \in [pc : AgentPC, client : [model : Models, last_usage : Nat, total_usage : Nat],
                    rounds : Nat, booked : Nat, refused : BOOLEAN]
    BY DEF RunRows
  <2>2. all \in Nat
    BY <1>5
  <2>3. run'[x] = [pc |-> pc, client |-> run[x].client, rounds |-> run[x].rounds, booked |-> all,
                   refused |-> refused]
    BY <1>6, <2>1, Zenon
  <2> QED
    BY <2>1, <2>2, <2>3
<1>11. run' \in RunRows
  BY <1>4, <1>9, <1>10 DEF RunRows
<1> QED
  BY <1>7, <1>8, <1>9, <1>11

\* A request's row is replaced, or only its step.
LEMMA AskChanges ==
  ASSUME NEW T, ask \in AskRows(T), NEW r \in Asks, NEW row,
         row \in [pc : {"idle", "running", "dedup", "mark", "create", "slot", "submit"},
                  text : Texts \cup {NoText}, model : Models \cup {NoModel}, task : T],
         ask' = [ask EXCEPT ![r] = row]
  PROVE  ask' \in AskRows(T) /\ ask'[r] = row /\ \A q \in Asks \ {r} : ask'[q] = ask[q]
BY DEF AskRows

\* An answer leaves the request idle and the others as they are.
LEMMA AnswerRests ==
  ASSUME NEW T, ask \in AskRows(T), NEW r \in Asks, Answer(r)
  PROVE  /\ \E S : ask' \in AskRows(S)
         /\ ask'[r].pc = "idle" /\ \A q \in Asks \ {r} : ask'[q] = ask[q]
<1>1. ask \in AskRows(T \cup {0})
  BY AskRowsGrow
<1>2. NoAsk \in [pc : {"idle", "running", "dedup", "mark", "create", "slot", "submit"},
                 text : Texts \cup {NoText}, model : Models \cup {NoModel}, task : T \cup {0}]
  BY DEF NoAsk
<1>3. ask' = [ask EXCEPT ![r] = NoAsk]
  BY DEF Answer
<1>4. ask' \in AskRows(T \cup {0}) /\ ask'[r] = NoAsk /\ \A q \in Asks \ {r} : ask'[q] = ask[q]
  BY <1>1, <1>2, <1>3, AskChanges
<1> QED
  BY <1>4 DEF NoAsk

-----------------------------------------------------------------------------
(* A step of a run.                                                        *)

LEMMA RunStepKeeps ==
  ASSUME AdviceInv, NEW x \in Runners, RunStep(x)
  PROVE  AdviceInv'
<1> USE DEF AdviceInv
<1>1. ShapeInv'
  <2>1. PICK T : ask \in AskRows(T)
    BY DEF ShapeInv
  <2>2. ask' \in AskRows(T)
    BY <2>1, RunStepGoesOn
  <2> QED
    BY <2>2, RunStepGoesOn DEF ShapeInv
<1>2. HandInv'
  <2>1. run[x].pc \notin Resting
    BY RunStepGoesOn DEF Resting
  <2>2. \A y \in Runners : run[y].pc \in Resting => run'[y] = run[y]
    BY <2>1, RunStepGoesOn
  <2> QED
    BY <2>2, RunStepGoesOn DEF HandInv, Resting, Runners
<1>3. CostInv'
  <2>1. \A y \in Runners : TextOf(y)' = TextOf(y)
    BY RunStepGoesOn, TextStays
  <2>2. \A y \in Runners \ {x} : CostOf(y)'
    BY <2>1, RunStepGoesOn, CostStays DEF CostInv
  <2>3. CostOf(x) /\ run \in RunRows
    BY DEF CostInv, ShapeInv
  <2>4. CostOf(x)'
    <3>1. run[x].booked = 0
      BY <2>3, RunStepGoesOn DEF CostOf, Accounted, NotYetBooked
    <3> QED
      BY <2>1, <2>3, <3>1, RunStepGoesOn DEF CostOf, Accounted, NotYetBooked
  <2> QED
    BY <2>2, <2>4 DEF CostInv
<1>4. ModelInv'
  <2> SUFFICES ASSUME NEW r \in Asks, ask'[r].pc = "running", crossing'[r] # TRUE
               PROVE  ask'[r].model = chat_model' /\ run'[r].client.model = chat_model'
    BY DEF ModelInv
  <2>1. ask[r].pc = "running" /\ ask[r].model = chat_model /\ run[r].client.model = chat_model
    BY RunStepGoesOn DEF ModelInv
  <2>2. CASE r = x
    BY <2>1, <2>2, RunStepGoesOn
  <2>3. CASE r # x
    BY <2>1, <2>3, RunStepGoesOn DEF Runners
  <2> QED
    BY <2>2, <2>3
<1>5. ReportsTellTheirModel'
  BY RunStepGoesOn DEF ReportsTellTheirModel
<1> QED
  BY <1>1, <1>2, <1>3, <1>4, <1>5

-----------------------------------------------------------------------------
(* A request that waits for its answer.                                    *)

\* A new request: its key and its client are made with the model configured now.
LEMMA AskingKeeps ==
  ASSUME AdviceInv, NEW r \in Asks, OptimizeAIView(r)
  PROVE  AdviceInv'
<1> USE DEF AdviceInv
<1>1. PICK T : ask \in AskRows(T)
  BY DEF ShapeInv
<1>2. /\ ask[r].pc = "idle" /\ crossing' = [crossing EXCEPT ![r] = FALSE]
      /\ chat_model' = chat_model /\ advice' = advice /\ reports' = reports
      /\ run' = [run EXCEPT ![r] = [NoRun(chat_model) EXCEPT !.pc = "client"]]
  BY DEF OptimizeAIView, gatewayVars
<1>3. PICK x \in Texts : ask' = [ask EXCEPT ![r] = [@ EXCEPT !.pc = "running", !.text = x, !.model = chat_model]]
  BY DEF OptimizeAIView
<1> DEFINE row == [ask[r] EXCEPT !.pc = "running", !.text = x, !.model = chat_model]
           made == [NoRun(chat_model) EXCEPT !.pc = "client"]
<1>4. chat_model \in Models /\ run \in RunRows
  BY DEF ShapeInv
<1>5. row \in [pc : {"idle", "running", "dedup", "mark", "create", "slot", "submit"},
               text : Texts \cup {NoText}, model : Models \cup {NoModel}, task : T]
      /\ row.pc = "running" /\ row.model = chat_model
  BY <1>1, <1>4 DEF AskRows
<1>6. ask' = [ask EXCEPT ![r] = row]
  BY <1>3
<1>7. ask' \in AskRows(T) /\ ask'[r] = row /\ \A q \in Asks \ {r} : ask'[q] = ask[q]
  <2> HIDE DEF row
  <2> QED BY <1>1, <1>5, <1>6, AskChanges
<1>8. /\ made.pc = "client" /\ made.client.model = chat_model /\ made.booked = 0
      /\ made.client.last_usage = 0 /\ made.client.total_usage = 0
      /\ made \in [pc : AgentPC, client : [model : Models, last_usage : Nat, total_usage : Nat],
                   rounds : Nat, booked : Nat, refused : BOOLEAN]
  BY <1>4 DEF NoRun, OpenaiClient, AgentPC
<1>9. run' \in RunRows /\ run'[r] = made /\ \A y \in Runners \ {r} : run'[y] = run[y]
  <2>1. run' = [run EXCEPT ![r] = made] /\ r \in Runners
    BY <1>2 DEF Runners
  <2> HIDE DEF made
  <2> QED BY <1>4, <1>8, <2>1 DEF RunRows
<1> HIDE DEF row, made
<1>10. ShapeInv'
  BY <1>2, <1>7, <1>9 DEF ShapeInv
<1>11. HandInv'
  BY <1>2, <1>5, <1>7, <1>9, AsksAreNoTasks DEF HandInv, Runners
<1>12. CostInv'
  <2> SUFFICES ASSUME NEW y \in Runners PROVE CostOf(y)'
    BY DEF CostInv
  <2>1. CASE y = r
    BY <2>1, <1>8, <1>9 DEF CostOf
  <2>2. CASE y # r
    BY <2>2, <1>2, <1>7, <1>9, TextStays, CostStays DEF CostInv, Runners
  <2> QED BY <2>1, <2>2
<1>13. ModelInv'
  <2> SUFFICES ASSUME NEW q \in Asks, ask'[q].pc = "running", crossing'[q] # TRUE
               PROVE  ask'[q].model = chat_model' /\ run'[q].client.model = chat_model'
    BY DEF ModelInv
  <2>1. CASE q = r
    BY <2>1, <1>2, <1>5, <1>7, <1>8, <1>9
  <2>2. CASE q # r
    <3>1. crossing'[q] = crossing[q]
      BY <2>2, <1>2 DEF ShapeInv
    <3> QED
      BY <2>2, <3>1, <1>2, <1>7, <1>9 DEF ModelInv, Runners
  <2> QED BY <2>1, <2>2
<1>14. ReportsTellTheirModel'
  BY <1>2 DEF ReportsTellTheirModel
<1> QED
  BY <1>10, <1>11, <1>12, <1>13, <1>14

\* The usage of an answer is booked before its report is stored.
LEMMA BookKeeps ==
  ASSUME AdviceInv, NEW r \in Asks, Book(r)
  PROVE  AdviceInv'
<1> USE DEF AdviceInv
<1>1. /\ run[r].pc = "answered" /\ record_ai_usage(r, "saved")
      /\ chat_model' = chat_model /\ ask' = ask /\ advice' = advice /\ crossing' = crossing
      /\ reports' = reports
  BY DEF Book, gatewayVars
<1>2. r \in Runners /\ run \in RunRows /\ CostOf(r)
  BY DEF Runners, ShapeInv, CostInv
<1>3. /\ run' \in RunRows /\ \A y \in Runners \ {r} : run'[y] = run[y]
      /\ run'[r].pc = "saved" /\ run'[r].client = run[r].client
      /\ Accounted(r)'
  BY <1>1, <1>2, BookingIsWhole DEF AgentPC, NotYetBooked
<1>4. ShapeInv'
  BY <1>1, <1>3 DEF ShapeInv, AskRows
<1>5. ask[r].pc = "running"
  BY <1>1 DEF HandInv
<1>6. HandInv'
  BY <1>1, <1>3, <1>5, AsksAreNoTasks DEF HandInv, Runners
<1>7. CostInv'
  <2> SUFFICES ASSUME NEW y \in Runners PROVE CostOf(y)'
    BY DEF CostInv
  <2>1. TextOf(y)' = TextOf(y)
    BY <1>1, TextStays
  <2>2. CASE y = r
    BY <2>1, <2>2, <1>1, <1>2, <1>3 DEF CostOf, Accounted, NotYetBooked
  <2>3. CASE y # r
    BY <2>1, <2>3, <1>3, CostStays DEF CostInv
  <2> QED BY <2>2, <2>3
<1>8. ModelInv'
  <2> SUFFICES ASSUME NEW q \in Asks PROVE run'[q].client = run[q].client
    BY <1>1 DEF ModelInv
  <2> QED
    BY <1>3 DEF Runners
<1>9. ReportsTellTheirModel'
  BY <1>1 DEF ReportsTellTheirModel
<1> QED
  BY <1>4, <1>6, <1>7, <1>8, <1>9

\* The end of a waiting request, its run over and its account settled.
LEMMA EndKeeps ==
  ASSUME AdviceInv, NEW r \in Asks, Answer(r),
         run' \in RunRows, \A y \in Runners \ {r} : run'[y] = run[y], run'[r].pc = "over",
         Accounted(r)',
         chat_model' = chat_model, advice' = advice, crossing' = crossing
  PROVE  ShapeInv' /\ HandInv' /\ CostInv' /\ ModelInv'
<1> USE DEF AdviceInv
<1>1. PICK T : ask \in AskRows(T)
  BY DEF ShapeInv
<1>2. /\ \E S : ask' \in AskRows(S)
      /\ ask'[r].pc = "idle" /\ \A q \in Asks \ {r} : ask'[q] = ask[q]
  BY <1>1, AnswerRests
<1>3. ShapeInv'
  BY <1>2 DEF ShapeInv
<1>4. HandInv'
  BY <1>2, AsksAreNoTasks DEF HandInv, Runners
<1>5. CostInv'
  <2> SUFFICES ASSUME NEW y \in Runners PROVE CostOf(y)'
    BY DEF CostInv
  <2>1. CASE y = r
    BY <2>1 DEF CostOf, Accounted, NotYetBooked
  <2>2. CASE y # r
    BY <2>2, <1>2, TextStays, CostStays DEF CostInv, Runners
  <2> QED BY <2>1, <2>2
<1>6. ModelInv'
  BY <1>2 DEF ModelInv, Runners
<1> QED
  BY <1>3, <1>4, <1>5, <1>6

\* The report is kept under the name read before the run.
LEMMA StoreReportKeeps ==
  ASSUME AdviceInv, NEW r \in Asks, StoreReport(r)
  PROVE  AdviceInv'
<1> USE DEF AdviceInv
<1>1. /\ run[r].pc = "saved" /\ Answer(r) /\ SetRun(r, "over")
      /\ Keep(ask[r].text, ask[r].model, run[r].client.model, crossing[r])
      /\ chat_model' = chat_model /\ advice' = advice /\ crossing' = crossing
  BY DEF StoreReport, gatewayVars
<1>2. r \in Runners /\ run \in RunRows /\ CostOf(r) /\ "over" \in AgentPC
  BY DEF Runners, ShapeInv, CostInv, AgentPC
<1>3. /\ run' \in RunRows /\ \A y \in Runners \ {r} : run'[y] = run[y]
      /\ run'[r].pc = "over" /\ run'[r].client = run[r].client /\ run'[r].booked = run[r].booked
      /\ run'[r].refused = run[r].refused
  BY <1>1, <1>2, SetRunMoves
<1>4. Accounted(r)'
  BY <1>1, <1>2, <1>3 DEF CostOf, Accounted
<1>5. ShapeInv' /\ HandInv' /\ CostInv' /\ ModelInv'
  BY <1>1, <1>3, <1>4, EndKeeps
<1>6. crossing[r] = TRUE \/ run[r].client.model = ask[r].model
  BY <1>1 DEF HandInv, ModelInv
<1>7. ReportsTellTheirModel'
  <2> DEFINE name == [text |-> ask[r].text, model |-> ask[r].model]
             new == [by |-> run[r].client.model, crossed |-> crossing[r]]
  <2>1. reports' = [k \in DOMAIN reports \cup {name} |-> IF k = name THEN new ELSE reports[k]]
    BY <1>1 DEF Keep
  <2>2. name.model = ask[r].model /\ new.by = run[r].client.model /\ new.crossed = crossing[r]
    OBVIOUS
  <2> HIDE DEF name, new
  <2>3. ASSUME NEW k \in DOMAIN reports' PROVE reports'[k].crossed \/ reports'[k].by = k.model
    <3>1. CASE k = name
      BY <2>1, <2>2, <3>1, <1>6
    <3>2. CASE k # name
      BY <2>1, <3>2 DEF ReportsTellTheirModel
    <3> QED BY <3>1, <3>2
  <2> QED
    BY <2>3, <1>1 DEF ReportsTellTheirModel
<1> QED
  BY <1>5, <1>7

\* A run that failed is booked as well.
LEMMA AdviceFailsKeeps ==
  ASSUME AdviceInv, NEW r \in Asks, AdviceFails(r)
  PROVE  AdviceInv'
<1> USE DEF AdviceInv
<1>1. /\ run[r].pc = "failed" /\ record_ai_usage(r, "over") /\ Answer(r)
      /\ chat_model' = chat_model /\ advice' = advice /\ crossing' = crossing /\ reports' = reports
  BY DEF AdviceFails, gatewayVars
<1>2. r \in Runners /\ run \in RunRows /\ CostOf(r)
  BY DEF Runners, ShapeInv, CostInv
<1>3. /\ run' \in RunRows /\ \A y \in Runners \ {r} : run'[y] = run[y]
      /\ run'[r].pc = "over" /\ Accounted(r)'
  BY <1>1, <1>2, BookingIsWhole DEF AgentPC, NotYetBooked
<1>4. ShapeInv' /\ HandInv' /\ CostInv' /\ ModelInv'
  BY <1>1, <1>3, EndKeeps
<1>5. ReportsTellTheirModel'
  BY <1>1 DEF ReportsTellTheirModel
<1> QED
  BY <1>4, <1>5

-----------------------------------------------------------------------------
(* The submission, and what changes rows of tasks only.                    *)

\* Rows of tasks are not taken away, keep their texts, and are right about their model.
RowsGoOn ==
  /\ advice' \in [AdviceTask -> AdviceRec]
  /\ \A t \in AdviceTask :
       /\ advice'[t].status = "absent" => advice[t].status = "absent"
       /\ advice[t].status # "absent" => advice'[t].text = advice[t].text
       /\ advice'[t].status = "success" => advice'[t].report = advice'[t].model

\* What is not touched goes on.
LEMMA RowsStay ==
  ASSUME ShapeInv, ReportsTellTheirModel, advice' = advice
  PROVE  RowsGoOn
BY DEF ShapeInv, ReportsTellTheirModel, RowsGoOn

\* A mark as failed may fall on any row.
LEMMA FailedRowsGoOn ==
  ASSUME ShapeInv, ReportsTellTheirModel, NEW t, advice' = [advice EXCEPT ![t].status = "failed"]
  PROVE  RowsGoOn /\ \A u \in AdviceTask : advice'[u].status = "absent" => advice[u].status = "absent"
BY DEF ShapeInv, ReportsTellTheirModel, RowsGoOn, AdviceRec

\* Steps that touch no run: requests that do not wait, and rows.
LEMMA RowsKeep ==
  ASSUME AdviceInv, RowsGoOn, NEW S, ask' \in AskRows(S),
         run' = run, chat_model' = chat_model, crossing' = crossing, reports' = reports,
         \A r \in Asks : ask'[r] = ask[r] \/
            /\ ask[r].pc # "running" /\ ask'[r].pc # "running"
            /\ ask'[r].pc \in {"slot", "submit"} =>
                 ask'[r].task \in AdviceTask /\ advice'[ask'[r].task].status # "absent"
  PROVE  AdviceInv'
<1> USE DEF AdviceInv
<1>1. ShapeInv'
  BY DEF ShapeInv, RowsGoOn, RunRows
<1>2. HandInv'
  BY DEF HandInv, RowsGoOn
<1>3. CostInv'
  <2> SUFFICES ASSUME NEW x \in Runners PROVE CostOf(x)'
    BY DEF CostInv
  <2>1. CASE x \in Asks
    <3>1. ask'[x] = ask[x] \/ run[x].pc \in Resting
      BY <2>1 DEF HandInv, Resting
    <3> QED
      BY <2>1, <3>1, TextStays, CostStays DEF CostInv
  <2>2. CASE x \in AdviceTask
    <3>1. advice'[x].text = advice[x].text \/ run[x].pc \in Resting
      BY <2>2 DEF HandInv, RowsGoOn, Resting
    <3>2. x \notin Asks
      BY <2>2, AsksAreNoTasks
    <3> QED
      BY <3>1, <3>2, TextStays, CostStays DEF CostInv
  <2> QED BY <2>1, <2>2 DEF Runners
<1>4. ModelInv'
  BY DEF ModelInv
<1>5. ReportsTellTheirModel'
  BY DEF ReportsTellTheirModel, RowsGoOn
<1> QED
  BY <1>1, <1>2, <1>3, <1>4, <1>5

\* The submission, up to the hand-over to the pool.
LEMMA SubmissionKeeps ==
  ASSUME AdviceInv, NEW r \in Asks,
         \/ SubmitView(r) \/ Deduplicate(r) \/ MarkOld(r) \/ CreateAdvice(r) \/ TakeSlot(r) \/ SubmitFails(r)
  PROVE  AdviceInv'
<1> DEFINE RowOf(T) == [pc : {"idle", "running", "dedup", "mark", "create", "slot", "submit"},
                         text : Texts \cup {NoText}, model : Models \cup {NoModel}, task : T]
<1>1. ShapeInv /\ HandInv /\ ReportsTellTheirModel /\ chat_model \in Models
  BY DEF AdviceInv, ShapeInv
<1>2. PICK T : ask \in AskRows(T)
  BY <1>1 DEF ShapeInv
<1>3. /\ run' = run /\ chat_model' = chat_model /\ crossing' = crossing /\ reports' = reports
      /\ ask[r].pc \in {"idle", "dedup", "mark", "create", "slot", "submit"}
  BY DEF SubmitView, Deduplicate, MarkOld, CreateAdvice, TakeSlot, SubmitFails, gatewayVars
<1>4. ASSUME RowsGoOn, NEW S, ask \in AskRows(S), NEW row \in RowOf(S), ask' = [ask EXCEPT ![r] = row],
             row.pc # "running",
             row.pc \in {"slot", "submit"} => row.task \in AdviceTask /\ advice'[row.task].status # "absent"
      PROVE  AdviceInv'
  <2>1. ask' \in AskRows(S) /\ ask'[r] = row /\ \A q \in Asks \ {r} : ask'[q] = ask[q]
    BY <1>4, AskChanges
  <2>2. ask[r].pc # "running"
    BY <1>3
  <2>3. \A q \in Asks : ask'[q] = ask[q] \/
            /\ ask[q].pc # "running" /\ ask'[q].pc # "running"
            /\ ask'[q].pc \in {"slot", "submit"} =>
                 ask'[q].task \in AdviceTask /\ advice'[ask'[q].task].status # "absent"
    BY <1>4, <2>1, <2>2
  <2> QED
    BY <1>3, <1>4, <2>1, <2>3, RowsKeep
<1>5. ASSUME RowsGoOn, Answer(r)
      PROVE  AdviceInv'
  <2>1. ask \in AskRows(T \cup {0})
    BY <1>2, AskRowsGrow
  <2>2. NoAsk \in RowOf(T \cup {0}) /\ NoAsk.pc = "idle"
    BY DEF NoAsk
  <2>3. ask' = [ask EXCEPT ![r] = NoAsk]
    BY <1>5 DEF Answer
  <2> QED
    BY <1>4, <1>5, <2>1, <2>2, <2>3
<1>6. ASSUME RowsGoOn, NEW pc \in {"create", "submit"}, SetAsk(r, pc),
             pc = "submit" => ask[r].task \in AdviceTask /\ advice'[ask[r].task].status # "absent"
      PROVE  AdviceInv'
  <2> DEFINE row == [ask[r] EXCEPT !.pc = pc]
  <2>1. row \in RowOf(T) /\ row.pc = pc /\ row.task = ask[r].task
    BY <1>2 DEF AskRows
  <2>2. ask' = [ask EXCEPT ![r] = row]
    BY <1>6 DEF SetAsk
  <2> HIDE DEF row
  <2> QED
    BY <1>2, <1>4, <1>6, <2>1, <2>2
<1>7. CASE SubmitView(r)
  <2>1. advice' = advice
    BY <1>7 DEF SubmitView
  <2>2. PICK x \in Agentic : ask' = [ask EXCEPT ![r] = [@ EXCEPT !.pc = "dedup", !.text = x, !.model = chat_model]]
    BY <1>7 DEF SubmitView
  <2> DEFINE row == [ask[r] EXCEPT !.pc = "dedup", !.text = x, !.model = chat_model]
  <2>3. row \in RowOf(T) /\ row.pc = "dedup"
    BY <1>1, <1>2, OptimisationAssumption DEF AskRows
  <2>4. ask' = [ask EXCEPT ![r] = row]
    BY <2>2
  <2> HIDE DEF row
  <2> QED
    BY <1>1, <1>2, <1>4, <2>1, <2>3, <2>4, RowsStay
<1>8. CASE Deduplicate(r)
  <2>1. RowsGoOn
    BY <1>1, <1>8, RowsStay DEF Deduplicate
  <2> DEFINE t == Latest(OpenFor(ask[r].text))
  <2>2. \/ SetAsk(r, "create") \/ Answer(r) \/ ask' = [ask EXCEPT ![r].pc = "mark", ![r].task = t]
    BY <1>8 DEF Deduplicate
  <2> HIDE DEF t
  <2>3. CASE ask' = [ask EXCEPT ![r].pc = "mark", ![r].task = t]
    <3> DEFINE row == [ask[r] EXCEPT !.pc = "mark", !.task = t]
    <3>1. ask \in AskRows(T \cup {t})
      BY <1>2, AskRowsGrow
    <3>2. row \in RowOf(T \cup {t}) /\ row.pc = "mark"
      BY <1>2 DEF AskRows
    <3>3. ask' = [ask EXCEPT ![r] = row]
      BY <1>2, <2>3 DEF AskRows
    <3> HIDE DEF row
    <3> QED
      BY <1>4, <2>1, <3>1, <3>2, <3>3
  <2> QED
    BY <1>5, <1>6, <2>1, <2>2, <2>3
<1>9. CASE MarkOld(r)
  <2>1. RowsGoOn
    BY <1>1, <1>9, FailedRowsGoOn DEF MarkOld
  <2> QED
    BY <1>6, <1>9, <2>1 DEF MarkOld
<1>10. CASE CreateAdvice(r)
  <2>1. PICK t \in AdviceTask :
          /\ advice[t].status = "absent"
          /\ advice' = [advice EXCEPT ![t] = [@ EXCEPT !.status = "pending", !.text = ask[r].text,
                                                       !.model = ask[r].model]]
          /\ ask' = [ask EXCEPT ![r].pc = "slot", ![r].task = t]
    BY <1>10 DEF CreateAdvice
  <2> DEFINE made == [advice[t] EXCEPT !.status = "pending", !.text = ask[r].text, !.model = ask[r].model]
             row == [ask[r] EXCEPT !.pc = "slot", !.task = t]
  <2>2. advice' = [advice EXCEPT ![t] = made] /\ ask' = [ask EXCEPT ![r] = row]
    BY <1>2, <2>1 DEF AskRows
  <2>3. made \in AdviceRec /\ made.status = "pending"
    BY <1>1, <1>2 DEF ShapeInv, AskRows, AdviceRec
  <2>4. ask \in AskRows(T \cup {t}) /\ row \in RowOf(T \cup {t}) /\ row.pc = "slot" /\ row.task = t
    BY <1>2, AskRowsGrow DEF AskRows
  <2> HIDE DEF made, row
  <2>5. advice'[t] = made /\ \A u \in AdviceTask \ {t} : advice'[u] = advice[u]
    BY <1>1, <2>2 DEF ShapeInv
  <2>6. RowsGoOn
    BY <1>1, <2>1, <2>2, <2>3, <2>5 DEF ShapeInv, RowsGoOn, ReportsTellTheirModel
  <2> QED
    BY <1>4, <2>2, <2>3, <2>4, <2>5, <2>6
<1>11. CASE TakeSlot(r)
  <2>1. CASE oslots > 0
    <3>1. SetAsk(r, "submit") /\ advice' = advice /\ ask[r].pc = "slot"
      BY <1>11, <2>1 DEF TakeSlot
    <3>2. ask[r].task \in AdviceTask /\ advice'[ask[r].task].status # "absent"
      BY <1>1, <3>1 DEF HandInv
    <3> QED
      BY <1>1, <1>6, <3>1, <3>2, RowsStay
  <2>2. CASE ~ (oslots > 0)
    <3>1. Answer(r) /\ advice' = [advice EXCEPT ![ask[r].task].status = "failed"]
      BY <1>11, <2>2 DEF TakeSlot
    <3> QED
      BY <1>1, <1>5, <3>1, FailedRowsGoOn
  <2> QED BY <2>1, <2>2
<1>12. CASE SubmitFails(r)
  <2>1. RowsGoOn
    BY <1>1, <1>12, FailedRowsGoOn DEF SubmitFails
  <2> QED
    BY <1>5, <1>12, <2>1 DEF SubmitFails
<1> QED
  BY <1>7, <1>8, <1>9, <1>10, <1>11, <1>12

\* The hand-over: a run begins with nothing spent and nothing booked.
LEMMA SubmitTaskKeeps ==
  ASSUME AdviceInv, NEW r \in Asks, SubmitTask(r)
  PROVE  AdviceInv'
<1> USE DEF AdviceInv
<1> DEFINE t == ask[r].task
           new == [NoRun(chat_model) EXCEPT !.pc = "queued"]
<1>1. /\ ask[r].pc = "submit" /\ Answer(r) /\ run' = [run EXCEPT ![t] = new]
      /\ chat_model' = chat_model /\ advice' = advice /\ crossing' = crossing /\ reports' = reports
  BY DEF SubmitTask, gatewayVars
<1>2. t \in AdviceTask /\ advice[t].status # "absent"
  BY <1>1 DEF HandInv
<1>3. run \in RunRows /\ chat_model \in Models
  BY DEF ShapeInv
<1>4. /\ new.pc = "queued" /\ new.booked = 0
      /\ new.client.last_usage = 0 /\ new.client.total_usage = 0
      /\ new \in [pc : AgentPC, client : [model : Models, last_usage : Nat, total_usage : Nat],
                  rounds : Nat, booked : Nat, refused : BOOLEAN]
  BY <1>3 DEF NoRun, OpenaiClient, AgentPC
<1> HIDE DEF new, t
<1>5. run' \in RunRows /\ run'[t] = new /\ \A y \in Runners \ {t} : run'[y] = run[y]
  BY <1>1, <1>2, <1>3, <1>4 DEF RunRows, Runners
<1>6. PICK T : ask \in AskRows(T)
  BY DEF ShapeInv
<1>7. /\ \E S : ask' \in AskRows(S)
      /\ ask'[r].pc = "idle" /\ \A q \in Asks \ {r} : ask'[q] = ask[q]
  BY <1>1, <1>6, AnswerRests
<1>8. ShapeInv'
  BY <1>1, <1>5, <1>7 DEF ShapeInv
<1>9. \A q \in Asks : run'[q] = run[q]
  BY <1>2, <1>5, AsksAreNoTasks DEF Runners
<1>10. HandInv'
  BY <1>1, <1>2, <1>5, <1>7, <1>9 DEF HandInv, Runners
<1>11. CostInv'
  <2> SUFFICES ASSUME NEW y \in Runners PROVE CostOf(y)'
    BY DEF CostInv
  <2>1. CASE y = t
    BY <2>1, <1>4, <1>5 DEF CostOf
  <2>2. CASE y = r
    BY <2>2, <1>1, <1>9, CostStays DEF HandInv, CostInv, Resting
  <2>3. CASE y # t /\ y # r
    BY <2>3, <1>1, <1>5, <1>7, TextStays, CostStays DEF CostInv, Runners
  <2> QED BY <2>1, <2>2, <2>3
<1>12. ModelInv'
  BY <1>1, <1>7, <1>9 DEF ModelInv
<1>13. ReportsTellTheirModel'
  BY <1>1 DEF ReportsTellTheirModel
<1> QED
  BY <1>8, <1>10, <1>11, <1>12, <1>13

-----------------------------------------------------------------------------
(* Tasks.                                                                  *)

\* A task that has begun goes on: what is left to show is its account and what was kept.
LEMMA TaskGoesOn ==
  ASSUME AdviceInv, RowsGoOn, NEW t \in AdviceTask, run[t].pc # "off",
         run' \in RunRows, \A y \in Runners \ {t} : run'[y] = run[y],
         ask' = ask, chat_model' = chat_model, crossing' = crossing,
         CostOf(t)', \A k \in DOMAIN reports' : reports'[k].crossed \/ reports'[k].by = k.model
  PROVE  AdviceInv'
<1> USE DEF AdviceInv
<1>1. ShapeInv'
  BY DEF ShapeInv, RowsGoOn, AskRows
<1>2. \A q \in Asks : run'[q] = run[q]
  BY AsksAreNoTasks DEF Runners
<1>3. HandInv'
  BY <1>2 DEF HandInv, RowsGoOn, Runners
<1>4. CostInv'
  <2> SUFFICES ASSUME NEW y \in Runners, y # t PROVE CostOf(y)'
    BY DEF CostInv
  <2>1. CASE y \in Asks
    BY <2>1, TextStays, CostStays DEF CostInv
  <2>2. CASE y \in AdviceTask
    <3>1. advice'[y].text = advice[y].text \/ run[y].pc \in Resting
      BY <2>2 DEF HandInv, RowsGoOn, Resting
    <3>2. y \notin Asks
      BY <2>2, AsksAreNoTasks
    <3> QED
      BY <3>1, <3>2, TextStays, CostStays DEF CostInv
  <2> QED BY <2>1, <2>2 DEF Runners
<1>5. ModelInv'
  BY <1>2 DEF ModelInv
<1>6. ReportsTellTheirModel'
  BY DEF ReportsTellTheirModel, RowsGoOn
<1> QED
  BY <1>1, <1>3, <1>4, <1>5, <1>6

\* The task in the pool.
LEMMA TaskStepKeeps ==
  ASSUME AdviceInv, NEW t \in AdviceTask,
         \/ StartTask(t) \/ SaveAdvice(t) \/ CacheAdvice(t) \/ BookAdvice(t) \/ TaskFails(t) \/ LeavePool(t)
  PROVE  AdviceInv'
<1>1. /\ t \in Runners /\ t \notin Asks /\ run \in RunRows /\ CostOf(t)
      /\ advice \in [AdviceTask -> AdviceRec] /\ ShapeInv /\ HandInv /\ ReportsTellTheirModel
  BY AsksAreNoTasks DEF AdviceInv, Runners, CostInv, ShapeInv
<1>2. ask' = ask /\ chat_model' = chat_model /\ crossing' = crossing /\ run[t].pc # "off"
  BY DEF StartTask, SaveAdvice, CacheAdvice, BookAdvice, TaskFails, LeavePool, gatewayVars
<1>3. advice[t].status # "absent"
  BY <1>1, <1>2 DEF HandInv
<1>4. \A k \in DOMAIN reports : reports[k].crossed \/ reports[k].by = k.model
  BY <1>1 DEF ReportsTellTheirModel
<1>5. ASSUME NEW pc \in AgentPC, SetRun(t, pc)
      PROVE  /\ run' \in RunRows /\ \A y \in Runners \ {t} : run'[y] = run[y]
             /\ run'[t].pc = pc /\ run'[t].client = run[t].client /\ run'[t].booked = run[t].booked
             /\ run'[t].refused = run[t].refused
  BY <1>1, <1>5, SetRunMoves
<1>6. ASSUME RowsGoOn
      PROVE  TextOf(t)' = TextOf(t)
  BY <1>1, <1>3, <1>6, TextStays DEF RowsGoOn
<1>7. CASE StartTask(t)
  <2>1. /\ run[t].pc = "queued" /\ SetRun(t, "client") /\ reports' = reports
        /\ advice' = [advice EXCEPT ![t].status = "running"]
    BY <1>7 DEF StartTask
  <2>2. RowsGoOn
    BY <1>1, <1>3, <2>1 DEF RowsGoOn, AdviceRec, ReportsTellTheirModel
  <2>3. run[t].client.last_usage = 0 /\ run[t].client.total_usage = 0
    BY <1>1, <2>1 DEF CostOf
  <2>4. CostOf(t)'
    BY <1>1, <1>5, <2>1, <2>3 DEF CostOf, Accounted, NotYetBooked, AgentPC
  <2> QED
    BY <1>2, <1>4, <1>5, <2>1, <2>2, <2>4, TaskGoesOn DEF AgentPC
<1>8. CASE SaveAdvice(t)
  <2> DEFINE row == [advice[t] EXCEPT !.status = "success", !.model = run[t].client.model,
                                      !.report = run[t].client.model]
  <2>1. /\ run[t].pc = "answered" /\ SetRun(t, "saved") /\ reports' = reports
        /\ advice' = [advice EXCEPT ![t] = row]
    BY <1>8 DEF SaveAdvice
  <2>2. row \in AdviceRec /\ row.status = "success" /\ row.model = row.report /\ row.text = advice[t].text
    BY <1>1 DEF RunRows, AdviceRec
  <2> HIDE DEF row
  <2>3. RowsGoOn
    BY <1>1, <2>1, <2>2 DEF RowsGoOn, ReportsTellTheirModel
  <2>4. CostOf(t)'
    BY <1>1, <1>5, <1>6, <2>1, <2>3 DEF CostOf, Accounted, NotYetBooked, AgentPC
  <2> QED
    BY <1>2, <1>4, <1>5, <2>1, <2>3, <2>4, TaskGoesOn DEF AgentPC
<1>9. CASE CacheAdvice(t)
  <2> DEFINE m == run[t].client.model
             name == [text |-> advice[t].text, model |-> m]
             new == [by |-> m, crossed |-> FALSE]
  <2>1. /\ run[t].pc = "saved" /\ SetRun(t, "stored") /\ advice' = advice
        /\ reports' = [k \in DOMAIN reports \cup {name} |-> IF k = name THEN new ELSE reports[k]]
    BY <1>9 DEF CacheAdvice, Keep
  <2>2. RowsGoOn
    BY <1>1, <2>1, RowsStay
  <2>3. name.model = m /\ new.by = m
    OBVIOUS
  <2> HIDE DEF name, new, m
  <2>4. ASSUME NEW k \in DOMAIN reports' PROVE reports'[k].crossed \/ reports'[k].by = k.model
    <3>1. CASE k = name
      BY <2>1, <2>3, <3>1
    <3>2. CASE k # name
      BY <2>1, <3>2, <1>4
    <3> QED BY <3>1, <3>2
  <2>5. CostOf(t)'
    BY <1>1, <1>5, <1>6, <2>1, <2>2 DEF CostOf, Accounted, NotYetBooked, AgentPC
  <2> QED
    BY <1>2, <1>5, <2>1, <2>2, <2>4, <2>5, TaskGoesOn DEF AgentPC
<1>10. CASE BookAdvice(t)
  <2>1. run[t].pc = "stored" /\ record_ai_usage(t, "leaving") /\ reports' = reports /\ advice' = advice
    BY <1>10 DEF BookAdvice
  <2>2. RowsGoOn
    BY <1>1, <2>1, RowsStay
  <2>3. /\ run' \in RunRows /\ \A y \in Runners \ {t} : run'[y] = run[y]
        /\ run'[t].pc = "leaving" /\ Accounted(t)'
    BY <1>1, <2>1, BookingIsWhole DEF AgentPC, NotYetBooked
  <2>4. CostOf(t)'
    BY <1>1, <2>3 DEF CostOf, Accounted, NotYetBooked
  <2> QED
    BY <1>2, <1>4, <2>1, <2>2, <2>3, <2>4, TaskGoesOn
<1>11. CASE TaskFails(t)
  <2>1. /\ run[t].pc = "failed" /\ SetRun(t, "spoilt") /\ reports' = reports
        /\ advice' = [advice EXCEPT ![t].status = "failed"]
    BY <1>11 DEF TaskFails
  <2>2. RowsGoOn
    BY <1>1, <2>1, FailedRowsGoOn
  <2>3. CostOf(t)'
    BY <1>1, <1>5, <2>1 DEF CostOf, Accounted, NotYetBooked, AgentPC
  <2> QED
    BY <1>2, <1>4, <1>5, <2>1, <2>2, <2>3, TaskGoesOn DEF AgentPC
<1>12. CASE LeavePool(t)
  <2> DEFINE pc == IF run[t].pc = "leaving" THEN "over" ELSE "lost"
  <2>1. SetRun(t, pc) /\ reports' = reports /\ advice' = advice
    BY <1>12 DEF LeavePool
  <2>2. pc \in AgentPC /\ pc \in {"over", "lost"} /\ (pc = "over" => run[t].pc = "leaving")
    BY DEF AgentPC
  <2> HIDE DEF pc
  <2>3. RowsGoOn
    BY <1>1, <2>1, RowsStay
  <2>4. CostOf(t)'
    BY <1>1, <1>5, <2>1, <2>2 DEF CostOf, Accounted, NotYetBooked
  <2> QED
    BY <1>2, <1>4, <1>5, <2>1, <2>2, <2>3, <2>4, TaskGoesOn
<1> QED
  BY <1>7, <1>8, <1>9, <1>10, <1>11, <1>12

\* Time and the polls that mark old tasks.
LEMMA PollsKeep ==
  ASSUME AdviceInv, NEW t \in AdviceTask, GrowOld(t) \/ StatusView(t) \/ StatusViewMarks(t)
  PROVE  AdviceInv'
<1>1. ShapeInv /\ ReportsTellTheirModel
  BY DEF AdviceInv
<1>2. /\ ask' = ask /\ run' = run /\ chat_model' = chat_model /\ crossing' = crossing /\ reports' = reports
  BY DEF GrowOld, StatusView, StatusViewMarks, gatewayVars
<1>3. RowsGoOn
  <2>1. CASE GrowOld(t)
    BY <1>1, <2>1 DEF GrowOld, RowsGoOn, ShapeInv, ReportsTellTheirModel, AdviceRec
  <2>2. CASE StatusView(t)
    BY <1>1, <2>2, RowsStay DEF StatusView
  <2>3. CASE StatusViewMarks(t)
    BY <1>1, <2>3, FailedRowsGoOn DEF StatusViewMarks
  <2> QED BY <2>1, <2>2, <2>3
<1>4. PICK T : ask' \in AskRows(T)
  BY <1>1, <1>2 DEF ShapeInv
<1> QED
  BY <1>2, <1>3, <1>4, RowsKeep

-----------------------------------------------------------------------------
(* The cache, the configuration, a crash.                                  *)

\* A report lapses, the model is switched, the process dies.
LEMMA OthersKeep ==
  ASSUME AdviceInv, (\E key \in Key : Forget(key)) \/ Switch \/ Crash
  PROVE  AdviceInv'
<1> USE DEF AdviceInv
<1>1. PICK T : ask \in AskRows(T)
  BY DEF ShapeInv
<1>2. CASE \E key \in Key : Forget(key)
  <2>1. PICK key \in Key : Forget(key)
    BY <1>2
  <2>2. /\ ask' = ask /\ run' = run /\ chat_model' = chat_model /\ crossing' = crossing /\ advice' = advice
        /\ reports' = [k \in DOMAIN reports \ {key} |-> reports[k]]
    BY <2>1 DEF Forget, gatewayVars
  <2>3. ShapeInv' /\ HandInv' /\ ModelInv'
    BY <1>1, <2>2 DEF ShapeInv, HandInv, ModelInv, AskRows, RunRows
  <2>4. CostInv'
    BY <2>2, TextStays, CostStays DEF CostInv
  <2>5. ReportsTellTheirModel'
    BY <2>2 DEF ReportsTellTheirModel
  <2> QED
    BY <2>3, <2>4, <2>5
<1>3. CASE Switch
  <2>1. /\ ask' = ask /\ run' = run /\ reports' = reports /\ advice' = advice /\ chat_model' \in Models
        /\ crossing' = [r \in Asks |-> crossing[r] \/ ask[r].pc = "running"]
    BY <1>3 DEF Switch, SwitchModel
  <2>2. \A r \in Asks : ask[r].pc = "running" => crossing'[r] = TRUE
    BY <2>1
  <2>3. crossing' \in [Asks -> BOOLEAN]
    BY <2>1
  <2>4. ShapeInv' /\ HandInv' /\ ModelInv'
    BY <1>1, <2>1, <2>2, <2>3 DEF ShapeInv, HandInv, ModelInv, AskRows, RunRows
  <2>5. CostInv'
    BY <2>1, TextStays, CostStays DEF CostInv
  <2>6. ReportsTellTheirModel'
    BY <2>1 DEF ReportsTellTheirModel
  <2> QED
    BY <2>4, <2>5, <2>6
<1>4. CASE Crash
  <2>1. /\ reports' = reports /\ advice' = advice /\ chat_model' = chat_model /\ crossing' = crossing
        /\ ask' = [r \in Asks |-> NoAsk]
        /\ run' = [x \in Runners |->
             IF run[x].pc \in {"off", "over"} THEN run[x] ELSE [run[x] EXCEPT !.pc = "lost"]]
    BY <1>4 DEF Crash, gatewayVars, Runners
  <2>2. ask' \in AskRows({0}) /\ \A r \in Asks : ask'[r].pc = "idle"
    BY <2>1 DEF NoAsk, AskRows
  <2>3. run' \in RunRows
    BY <2>1 DEF ShapeInv, RunRows, AgentPC
  <2>4. \A x \in Runners : (run'[x] = run[x] /\ run[x].pc \in {"off", "over"}) \/ run'[x].pc = "lost"
    BY <2>1 DEF ShapeInv, RunRows
  <2>5. ShapeInv'
    BY <2>1, <2>2, <2>3 DEF ShapeInv
  <2>6. HandInv'
    BY <2>1, <2>2, <2>4 DEF HandInv, Runners
  <2>7. CostInv'
    <3> SUFFICES ASSUME NEW x \in Runners PROVE CostOf(x)'
      BY DEF CostInv
    <3>1. CASE run'[x].pc = "lost"
      BY <3>1 DEF CostOf, Accounted, NotYetBooked
    <3>2. CASE run'[x] = run[x] /\ run[x].pc \in {"off", "over"}
      BY <3>2, CostStays DEF CostInv, Resting
    <3> QED BY <2>4, <3>1, <3>2
  <2>8. ModelInv'
    BY <2>2 DEF ModelInv
  <2>9. ReportsTellTheirModel'
    BY <2>1 DEF ReportsTellTheirModel
  <2> QED
    BY <2>5, <2>6, <2>7, <2>8, <2>9
<1> QED
  BY <1>2, <1>3, <1>4

-----------------------------------------------------------------------------
(* The theorems.                                                           *)

\* Nothing happens.
LEMMA StutterKeeps == AdviceInv /\ UNCHANGED optimisationVars => AdviceInv'
<1> SUFFICES ASSUME AdviceInv, UNCHANGED optimisationVars PROVE AdviceInv'
  OBVIOUS
<1>1. /\ ask' = ask /\ run' = run /\ chat_model' = chat_model /\ crossing' = crossing /\ reports' = reports
      /\ advice' = advice
  BY DEF optimisationVars, gatewayVars
<1>2. PICK T : ask' \in AskRows(T)
  BY <1>1 DEF AdviceInv, ShapeInv
<1>3. RowsGoOn
  BY <1>1, RowsStay DEF AdviceInv
<1> QED
  BY <1>1, <1>2, <1>3, RowsKeep

\* Every step keeps the invariant.
LEMMA AdviceNext == AdviceInv /\ [OptimisationNext]_optimisationVars => AdviceInv'
<1> SUFFICES ASSUME AdviceInv, OptimisationNext PROVE AdviceInv'
  BY StutterKeeps
<1>1. CASE \E x \in Asks \cup AdviceTask : RunStep(x)
  BY <1>1, RunStepKeeps DEF Runners
<1>2. CASE \E r \in Asks : AskStep(r)
  BY <1>2, AskingKeeps, BookKeeps, StoreReportKeeps, AdviceFailsKeeps, SubmissionKeeps, SubmitTaskKeeps
     DEF AskStep
<1>3. CASE \E t \in AdviceTask : TaskStep(t)
  BY <1>3, TaskStepKeeps, PollsKeep DEF TaskStep
<1>4. CASE (\E key \in Key : Forget(key)) \/ Switch \/ Crash
  BY <1>4, OthersKeep
<1> QED
  BY <1>1, <1>2, <1>3, <1>4 DEF OptimisationNext

\* A report in the cache, and that of a task that went well, is one of the model it is filed under
\* (sql_api/api_slowquery.py), unless the configuration changed under a request that waited for it.
THEOREM ReportsAreTheModels == OptimisationSpec => []ReportsTellTheirModel
<1>1. AdviceInv => ReportsTellTheirModel
  BY DEF AdviceInv
<1> QED
  BY <1>1, AdviceInit, AdviceNext, PTL DEF OptimisationSpec

\* What a request that has ended, or a task that went well, has cost is in the log of usages in full and
\* not twice, whether it was asked in rounds or once, or not at all where the log refused the row
\* (record_ai_usage in common/utils/ai_gateway.py swallows that).
THEOREM CostsBooked == OptimisationSpec => []CostsAreBooked
<1>1. AdviceInv => CostsAreBooked
  BY DEF AdviceInv, CostInv, CostOf, CostsAreBooked, Runners
<1> QED
  BY <1>1, AdviceInit, AdviceNext, PTL DEF OptimisationSpec


-----------------------------------------------------------------------------
(* The review.  A result is Unknown, or what the model said of its own     *)
(* statement: in the cache, in a batch at work, and on the rows.           *)

\* A set of numbers that is not empty has a least one.
LEMMA LeastNumber ==
  ASSUME NEW S \in SUBSET Nat, S # {}
  PROVE  \E i \in S : \A j \in S : i <= j
<1> DEFINE Less == OpToRel(<, Nat)
<1>1. PICK i \in S : \A j \in S : <<j, i>> \notin Less
  BY NatLessThanWellFounded, WFMin
<1>2. ASSUME NEW j \in S, j < i
      PROVE  <<j, i>> \in Less
  BY <1>2 DEF OpToRel
<1>3. \A j \in S : ~ (j < i)
  BY <1>1, <1>2
<1> QED
  BY <1>3

\* And a greatest one, if it has a bound.
LEMMA GreatestNumber ==
  ASSUME NEW n \in Nat, NEW S \in SUBSET (1..n), S # {}
  PROVE  \E i \in S : \A j \in S : j <= i
<1> DEFINE T == {k \in 0..n : n - k \in S}
<1>1. T \in SUBSET Nat /\ T # {}
  <2>1. PICK s \in S : TRUE
    OBVIOUS
  <2>2. n - s \in 0..n /\ n - (n - s) = s
    BY <2>1
  <2>3. n - s \in T
    BY <2>1, <2>2
  <2>4. \A k \in 0..n : k \in Nat
    OBVIOUS
  <2> QED
    BY <2>3, <2>4
<1>2. PICK t \in T : \A k \in T : t <= k
  <2> HIDE DEF T
  <2> QED
    BY <1>1, LeastNumber
<1>3. ASSUME NEW j \in S PROVE j <= n - t
  <2>1. n - j \in T
    <3>1. n - j \in 0..n /\ n - (n - j) = j
      OBVIOUS
    <3> QED
      BY <3>1
  <2>2. t <= n - j
    BY <1>2, <2>1
  <2> QED
    BY <2>2
<1> QED
  BY <1>2, <1>3

By(m, s) == [by |-> m, of |-> s]

LEMMA WordsDiffer ==
  /\ Unknown # Missing /\ Unknown # Unmarked /\ Missing # Unmarked /\ Broken # Missing /\ Broken # Unmarked
  /\ \A m \in ReviewModels : \A s : By(m, s) \notin {Unknown, Missing, Broken, Unmarked}
BY ReviewAssumption DEF Unknown, Missing, Unmarked, Broken, Other, By

Working == {"batch", "call", "single", "attach"}

CheckShape ==
  [pc : Working \cup {"idle", "told", "submitted"}, sqls : Seq(Sqls), model : ReviewModels \cup {NoModelYet},
   at : Nat, results : Seq(Verdict \cup {Unknown, Missing, Broken}), marks : Seq(Mark), checked : SUBSET Sqls]

\* The statements of the batch that begins after the first a.
EligibleOf(r) == IF Len(r.sqls) < MaxReviewed THEN Len(r.sqls) ELSE MaxReviewed
EndOf(r) == IF r.at + Batch < EligibleOf(r) THEN r.at + Batch ELSE EligibleOf(r)

\* A result of each statement of the batch, by the model of the check, if by one at all.
ResultsFit(r) ==
  /\ DOMAIN r.results = 1..(EndOf(r) - r.at)
  /\ \A i \in DOMAIN r.results : r.results[i] \in {Unknown, Missing, Broken, By(r.model, r.sqls[r.at + i])}

MarksFit(r) ==
  /\ Len(r.marks) = Len(r.sqls)
  /\ \A i \in 1..Len(r.sqls) : r.marks[i] \in {Unknown, Unmarked, By(r.model, r.sqls[i])}

\* A row is without a mark only as long as its batch has not been through, or because it is new.
MarkedSoFar(r) ==
  /\ r.pc \in Working => \A i \in 1..Len(r.sqls) : i <= r.at \/ i > MaxReviewed => r.marks[i] # Unmarked
  /\ r.pc = "told" => \A i \in 1..Len(r.sqls) : r.marks[i] # Unmarked
  /\ r.pc = "submitted" => \A i \in 1..Len(r.sqls) : r.sqls[i] \in r.checked => r.marks[i] # Unmarked

GoodCheck(r) ==
  /\ r \in CheckShape
  /\ r.pc # "idle" => r.model \in ReviewModels
  /\ r.pc \in Working => r.at <= EligibleOf(r)
  /\ r.pc \in {"call", "single", "attach"} => r.at < EligibleOf(r)
  /\ r.pc \in {"single", "attach"} => ResultsFit(r)
  /\ r.pc = "attach" => \A i \in DOMAIN r.results : r.results[i] # Missing
  /\ MarksFit(r)
  /\ MarkedSoFar(r)

\* What is kept fits the statements it is kept for.
KeptFits ==
  \A m \in ReviewModels, sqls \in Seq(Sqls) : <<m, sqls>> \in DOMAIN kept =>
    LET levels == kept[<<m, sqls>>] IN
      /\ levels \in Seq(Verdict \cup {Unknown}) /\ Len(levels) = Len(sqls)
      /\ \A i \in 1..Len(sqls) : levels[i] \in {Unknown, By(m, sqls[i])}

ReviewInv == check \in [Checks -> CheckShape] /\ (\A c \in Checks : GoodCheck(check[c])) /\ KeptFits

LEMMA SeqUpToIsSeq == ASSUME NEW S, NEW n \in Nat PROVE SeqUpTo(S, n) \subseteq Seq(S)
BY DEF SeqUpTo

\* The batch at work.
LEMMA BatchFacts ==
  ASSUME NEW c \in Checks, GoodCheck(check[c]), check[c].at < EligibleOf(check[c])
  PROVE  LET r == check[c] IN
         /\ Eligible(c) = EligibleOf(r) /\ BatchEnd(c) = EndOf(r)
         /\ r.at \in Nat /\ EligibleOf(r) \in 0..Len(r.sqls) /\ EligibleOf(r) <= MaxReviewed
         /\ EndOf(r) \in (r.at + 1)..EligibleOf(r)
         /\ BatchOf(c) \in Seq(Sqls) /\ Len(BatchOf(c)) = EndOf(r) - r.at
         /\ \A i \in 1..Len(BatchOf(c)) : BatchOf(c)[i] = r.sqls[r.at + i] /\ r.at + i \in 1..Len(r.sqls)
<1> DEFINE r == check[c]
<1>1. r.sqls \in Seq(Sqls) /\ r.at \in Nat /\ Len(r.sqls) \in Nat
  BY DEF GoodCheck, CheckShape
<1>2. MaxReviewed \in Nat /\ Batch \in Nat /\ Batch > 0
  BY ReviewAssumption
<1>3. Eligible(c) = EligibleOf(r) /\ BatchEnd(c) = EndOf(r)
  BY DEF Eligible, EligibleOf, BatchEnd, EndOf
<1>4. EligibleOf(r) \in 0..Len(r.sqls) /\ EligibleOf(r) <= MaxReviewed
  BY <1>1, <1>2 DEF EligibleOf
<1>5. EndOf(r) \in (r.at + 1)..EligibleOf(r)
  BY <1>1, <1>2, <1>4 DEF EndOf
<1>6. BatchOf(c) = SubSeq(r.sqls, r.at + 1, EndOf(r))
  BY <1>3 DEF BatchOf
<1> HIDE DEF r
<1>7. /\ BatchOf(c) \in Seq(Sqls) /\ Len(BatchOf(c)) = EndOf(r) - r.at
      /\ \A i \in 1..Len(BatchOf(c)) : BatchOf(c)[i] = r.sqls[r.at + i] /\ r.at + i \in 1..Len(r.sqls)
  <2>1. r.at + 1 \in 1..Len(r.sqls) + 1 /\ EndOf(r) \in 0..Len(r.sqls) /\ r.at + 1 <= EndOf(r)
    BY <1>1, <1>4, <1>5
  <2>2. /\ BatchOf(c) \in Seq(Sqls) /\ Len(BatchOf(c)) = EndOf(r) - (r.at + 1) + 1
        /\ \A i \in 1..(EndOf(r) - (r.at + 1) + 1) : BatchOf(c)[i] = r.sqls[(r.at + 1) + i - 1]
    BY <1>1, <1>6, <2>1, SubSeqProperties
  <2>3. EndOf(r) - (r.at + 1) + 1 = EndOf(r) - r.at /\ \A i \in Nat : (r.at + 1) + i - 1 = r.at + i
    <3>1. r.at \in Int /\ EndOf(r) \in Int
      BY <1>1, <2>1
    <3>2. \A a, e \in Int : e - (a + 1) + 1 = e - a /\ \A i \in Nat : (a + 1) + i - 1 = a + i
      OBVIOUS
    <3> QED
      BY <3>1, <3>2
  <2>4. ASSUME NEW i \in 1..(EndOf(r) - r.at)
        PROVE  r.at + i \in 1..Len(r.sqls)
    <3>1. r.at + i >= 1 /\ r.at + i <= EndOf(r) /\ r.at + i \in Nat
      BY <1>1, <2>1
    <3> QED
      BY <1>1, <2>1, <3>1
  <2>5. Len(BatchOf(c)) = EndOf(r) - r.at
    BY <2>2, <2>3
  <2>6. ASSUME NEW i \in 1..(EndOf(r) - r.at)
        PROVE  BatchOf(c)[i] = r.sqls[r.at + i]
    <3>1. i \in 1..(EndOf(r) - (r.at + 1) + 1) /\ i \in Nat
      BY <2>3
    <3> QED
      BY <2>2, <2>3, <3>1
  <2> QED
    BY <2>2, <2>4, <2>5, <2>6
<1> QED
  BY <1>1, <1>3, <1>4, <1>5, <1>7 DEF r

\* Of the items of an answer every statement gets the first with its index, which is of that statement.
LEMMA ParseFits ==
  ASSUME NEW m \in ReviewModels, NEW sqls \in Seq(Sqls), NEW items \in Answers(m, sqls)
  PROVE  LET results == parse_review_batch(items, Len(sqls)) IN
         /\ results \in Seq(Verdict \cup {Unknown, Missing, Broken}) /\ DOMAIN results = 1..Len(sqls)
         /\ \A i \in 1..Len(sqls) : results[i] \in {Missing, By(m, sqls[i])}
<1> DEFINE results == parse_review_batch(items, Len(sqls))
<1>1. PICK places \in SeqUpTo(0..Batch, Batch) :
         items = [k \in 1..Len(places) |->
                    [index   |-> places[k],
                     verdict |-> By(m, IF places[k] < Len(sqls) THEN sqls[places[k] + 1] ELSE NoSql)]]
  BY DEF Answers, By
<1>2. places \in Seq(0..Batch)
  BY <1>1, SeqUpToIsSeq, ReviewAssumption
<1>3. Len(items) = Len(places) /\ Len(items) \in Nat
  BY <1>1, <1>2
<1>4. ASSUME NEW i \in 1..Len(sqls)
      PROVE  results[i] \in {Missing, By(m, sqls[i])}
  <2> DEFINE mine == {k \in 1..Len(items) : items[k].index = i - 1}
             first == CHOOSE k \in mine : \A l \in mine : k <= l
  <2>1. results[i] = IF mine = {} THEN Missing ELSE items[first].verdict
    BY DEF parse_review_batch
  <2>2. CASE mine # {}
    <3>1. mine \in SUBSET Nat
      BY <1>3
    <3>2. \E k \in mine : \A l \in mine : k <= l
      <4> HIDE DEF mine
      <4> QED
        BY <2>2, <3>1, LeastNumber
    <3>3. first \in mine
      <4> HIDE DEF mine
      <4> QED
        BY <3>2
    <3>4. first \in 1..Len(places) /\ items[first].index = i - 1
      BY <3>3, <1>3
    <3> HIDE DEF first, mine
    <3>5. places[first] = i - 1
      BY <3>4, <1>1
    <3>6. places[first] < Len(sqls) /\ places[first] + 1 = i
      BY <3>5
    <3>7. items[first].verdict = By(m, IF places[first] < Len(sqls) THEN sqls[places[first] + 1] ELSE NoSql)
      BY <3>4, <1>1
    <3> QED
      BY <2>1, <2>2, <3>6, <3>7
  <2> QED
    BY <2>1, <2>2
<1>5. results = [i \in 1..Len(sqls) |-> results[i]]
  BY DEF parse_review_batch
<1>6. \A i \in 1..Len(sqls) : By(m, sqls[i]) \in Verdict
  BY DEF By, Verdict
<1> HIDE DEF results
<1>7. results \in [1..Len(sqls) -> Verdict \cup {Unknown, Missing, Broken}]
  BY <1>4, <1>5, <1>6
<1>8. results \in Seq(Verdict \cup {Unknown, Missing, Broken}) /\ DOMAIN results = 1..Len(sqls)
  BY <1>7, LenProperties, ElementOfSeq
<1> QED
  BY <1>4, <1>8 DEF results

\* Marks that are carried over are those of rows with the same statement.
LEMMA MergeFits ==
  ASSUME NEW c \in Checks, GoodCheck(check[c]), check[c].pc = "told", NEW sqls \in Seq(Sqls)
  PROVE  LET marks == _merge_ai_review_fields(c, sqls) IN
         /\ marks \in Seq(Mark) /\ Len(marks) = Len(sqls)
         /\ \A i \in 1..Len(sqls) :
              /\ marks[i] \in {Unknown, Unmarked, By(check[c].model, sqls[i])}
              /\ (\E j \in 1..Len(check[c].sqls) : check[c].sqls[j] = sqls[i]) => marks[i] # Unmarked
<1> DEFINE r == check[c]
           marks == _merge_ai_review_fields(c, sqls)
<1>1. /\ r.sqls \in Seq(Sqls) /\ Len(r.sqls) \in Nat /\ r.marks \in Seq(Mark) /\ Len(r.marks) = Len(r.sqls)
      /\ \A j \in 1..Len(r.sqls) : r.marks[j] \in {Unknown, By(r.model, r.sqls[j])} /\ r.marks[j] # Unmarked
  BY DEF GoodCheck, CheckShape, MarksFit, MarkedSoFar
<1>2. \A j \in 1..Len(r.sqls) : r.marks[j] \in Mark
  BY <1>1
<1>3. ASSUME NEW i \in 1..Len(sqls)
      PROVE  /\ marks[i] \in Mark /\ marks[i] \in {Unknown, Unmarked, By(r.model, sqls[i])}
             /\ (\E j \in 1..Len(r.sqls) : r.sqls[j] = sqls[i]) => marks[i] # Unmarked
  <2> DEFINE same == {j \in 1..Len(r.sqls) : r.sqls[j] = sqls[i]}
             last == CHOOSE j \in same : \A k \in same : k <= j
  <2>1. marks[i] = IF same = {} THEN Unmarked ELSE r.marks[last]
    BY DEF _merge_ai_review_fields
  <2>2. CASE same # {}
    <3>1. \E j \in same : \A k \in same : k <= j
      <4>1. same \in SUBSET (1..Len(r.sqls))
        OBVIOUS
      <4> HIDE DEF same
      <4> QED
        BY <1>1, <2>2, <4>1, GreatestNumber
    <3>2. last \in same
      <4> HIDE DEF same
      <4> QED
        BY <3>1
    <3>3. last \in 1..Len(r.sqls) /\ r.sqls[last] = sqls[i]
      BY <3>2
    <3> HIDE DEF last, same, r, marks
    <3> QED
      BY <1>1, <1>2, <2>1, <2>2, <3>3
  <2>3. CASE same = {}
    <3>1. marks[i] = Unmarked
      BY <2>1, <2>3
    <3>2. Unmarked \in Mark
      BY DEF Mark
    <3> HIDE DEF r, marks
    <3> QED
      BY <2>3, <3>1, <3>2
  <2> QED
    BY <2>2, <2>3
<1>4. marks = [i \in 1..Len(sqls) |-> marks[i]]
  BY DEF _merge_ai_review_fields
<1> HIDE DEF marks
<1>5. marks \in [1..Len(sqls) -> Mark]
  BY <1>3, <1>4
<1>6. marks \in Seq(Mark) /\ Len(marks) = Len(sqls)
  BY <1>5, LenProperties, ElementOfSeq
<1> QED
  BY <1>3, <1>6 DEF marks

-----------------------------------------------------------------------------
(* Steps of a review.                                                      *)

LEMMA CheckGoes ==
  ASSUME ReviewInv, NEW c \in Checks, NEW new, GoodCheck(new), check' = [check EXCEPT ![c] = new], KeptFits'
  PROVE  ReviewInv'
<1>1. new \in CheckShape
  BY DEF GoodCheck
<1>2. \A d \in Checks : check'[d] = IF d = c THEN new ELSE check[d]
  BY DEF ReviewInv
<1> QED
  BY <1>1, <1>2 DEF ReviewInv

\* Results that fit keep a check good.
LEMMA ResultsKeepGood ==
  ASSUME NEW r, GoodCheck(r), r.pc \in Working, r.at < EligibleOf(r), NEW new \in CheckShape, new.pc \in Working,
         new.sqls = r.sqls, new.model = r.model, new.at = r.at, new.marks = r.marks, new.checked = r.checked,
         new.pc \in {"single", "attach"} => ResultsFit(new),
         new.pc = "attach" => \A i \in DOMAIN new.results : new.results[i] # Missing
  PROVE  GoodCheck(new)
<1>1. EligibleOf(new) = EligibleOf(r)
  BY DEF EligibleOf
<1>2. r.at \in Nat /\ EligibleOf(r) \in Nat
  BY ReviewAssumption DEF GoodCheck, CheckShape, EligibleOf
<1>3. MarksFit(new) /\ MarkedSoFar(new)
  BY DEF GoodCheck, MarksFit, MarkedSoFar, Working
<1> QED
  BY <1>1, <1>2, <1>3 DEF GoodCheck, Working

\* The batch is marked, and the next one begins.
LEMMA MarkBatchKeeps ==
  ASSUME ReviewInv, NEW c \in Checks, check[c].pc \in Working, check[c].at < EligibleOf(check[c]), NEW levels,
         \A i \in 1..(EndOf(check[c]) - check[c].at) :
            levels[i] \in {Unknown, By(check[c].model, check[c].sqls[check[c].at + i])},
         MarkBatch(c, levels), UNCHANGED kept
  PROVE  ReviewInv'
<1> DEFINE r == check[c]
           marks == [i \in 1..Len(r.marks) |-> IF i \in (r.at + 1)..EndOf(r) THEN levels[i - r.at] ELSE r.marks[i]]
           new == [r EXCEPT !.pc = "batch", !.at = EndOf(r), !.results = <<>>, !.marks = marks]
<1>1. GoodCheck(r) /\ r \in CheckShape /\ r.model \in ReviewModels
  BY DEF ReviewInv, GoodCheck, Working
<1>2. /\ BatchEnd(c) = EndOf(r) /\ r.at \in Nat /\ EligibleOf(r) \in 0..Len(r.sqls) /\ EligibleOf(r) <= MaxReviewed
      /\ EndOf(r) \in (r.at + 1)..EligibleOf(r)
  BY <1>1, BatchFacts
<1>3. r.marks \in Seq(Mark) /\ Len(r.marks) = Len(r.sqls) /\ Len(r.sqls) \in Nat /\ r.sqls \in Seq(Sqls)
  BY <1>1 DEF GoodCheck, MarksFit, CheckShape
<1>4. check' = [check EXCEPT ![c] = new]
  BY <1>2 DEF MarkBatch, ReviewInv
<1>5. ASSUME NEW i \in 1..Len(r.sqls)
      PROVE  /\ marks[i] \in Mark /\ marks[i] \in {Unknown, Unmarked, By(r.model, r.sqls[i])}
             /\ (i <= EndOf(r) \/ i > MaxReviewed => marks[i] # Unmarked)
  <2>1. r.marks[i] \in {Unknown, Unmarked, By(r.model, r.sqls[i])} /\ r.marks[i] \in Mark
    BY <1>1, <1>3 DEF GoodCheck, MarksFit
  <2>2. i <= r.at \/ i > MaxReviewed => r.marks[i] # Unmarked
    BY <1>1 DEF GoodCheck, MarkedSoFar
  <2>3. marks[i] = IF i \in (r.at + 1)..EndOf(r) THEN levels[i - r.at] ELSE r.marks[i]
    BY <1>3
  <2>4. CASE i \in (r.at + 1)..EndOf(r)
    <3>1. i - r.at \in 1..(EndOf(r) - r.at) /\ r.at + (i - r.at) = i
      BY <1>2, <2>4
    <3>2. levels[i - r.at] \in {Unknown, By(r.model, r.sqls[i])}
      BY <3>1
    <3>3. By(r.model, r.sqls[i]) \in Mark /\ Unknown \in Mark
      BY <1>1, <1>3 DEF By, Mark, Verdict
    <3> HIDE DEF marks, r
    <3> QED
      BY <1>1, <2>3, <2>4, <3>2, <3>3, WordsDiffer
  <2>5. CASE i \notin (r.at + 1)..EndOf(r)
    <3>1. ~ (i <= r.at \/ i > MaxReviewed) => ~ (i <= EndOf(r) \/ i > MaxReviewed)
      BY <1>2, <2>5
    <3> HIDE DEF marks, r
    <3> QED
      BY <2>1, <2>2, <2>3, <2>5, <3>1
  <2> QED
    BY <2>4, <2>5
<1>6. marks \in Seq(Mark) /\ Len(marks) = Len(r.sqls)
  <2>1. marks = [i \in 1..Len(r.sqls) |-> marks[i]]
    BY <1>3
  <2> HIDE DEF marks, r
  <2>2. marks \in [1..Len(r.sqls) -> Mark]
    BY <1>5, <2>1
  <2> QED
    BY <1>3, <2>2, LenProperties, ElementOfSeq
<1>7. EndOf(r) \in Nat
  BY <1>2
<1> HIDE DEF marks
<1>8. new \in CheckShape
  <2>1. <<>> \in Seq(Verdict \cup {Unknown, Missing, Broken})
    OBVIOUS
  <2> QED
    BY <1>1, <1>6, <1>7, <2>1 DEF CheckShape, Working
<1>9. /\ new.pc = "batch" /\ new.at = EndOf(r) /\ new.marks = marks
      /\ new.sqls = r.sqls /\ new.model = r.model
  BY <1>1 DEF CheckShape
<1> HIDE DEF new, r
<1>10. EligibleOf(new) = EligibleOf(r)
  BY <1>9 DEF EligibleOf
<1>11. MarksFit(new)
  BY <1>5, <1>6, <1>9 DEF MarksFit
<1>12. MarkedSoFar(new)
  BY <1>5, <1>9 DEF MarkedSoFar
<1>13. GoodCheck(new)
  BY <1>1, <1>2, <1>8, <1>9, <1>10, <1>11, <1>12 DEF GoodCheck
<1> QED
  BY <1>4, <1>13, CheckGoes DEF ReviewInv, KeptFits

\* A step that sets the results of the batch at work.
LEMMA ResultsKeep ==
  ASSUME ReviewInv, NEW c \in Checks, check[c].pc \in Working, check[c].at < EligibleOf(check[c]),
         NEW results \in Seq(Verdict \cup {Unknown, Missing, Broken}), NEW pc \in Working, SetResults(c, results, pc),
         pc \in {"single", "attach"} =>
           /\ DOMAIN results = 1..(EndOf(check[c]) - check[c].at)
           /\ \A i \in DOMAIN results :
                results[i] \in {Unknown, Missing, Broken, By(check[c].model, check[c].sqls[check[c].at + i])},
         pc = "attach" => \A i \in DOMAIN results : results[i] # Missing,
         KeptFits'
  PROVE  ReviewInv'
<1> DEFINE r == check[c]
           new == [r EXCEPT !.results = results, !.pc = pc]
<1>1. GoodCheck(r)
  BY DEF ReviewInv
<1>2. /\ new \in CheckShape /\ check' = [check EXCEPT ![c] = new]
      /\ new.pc = pc /\ new.results = results
      /\ new.sqls = r.sqls /\ new.model = r.model /\ new.at = r.at
      /\ new.marks = r.marks /\ new.checked = r.checked
  <2>1. r \in CheckShape
    BY DEF ReviewInv
  <2>2. new \in CheckShape
    BY <2>1 DEF CheckShape
  <2>3. /\ new.pc = pc /\ new.results = results
        /\ new.sqls = r.sqls /\ new.model = r.model /\ new.at = r.at
        /\ new.marks = r.marks /\ new.checked = r.checked
    BY <2>1 DEF CheckShape
  <2>4. check' = [check EXCEPT ![c] = new]
    BY DEF SetResults, ReviewInv
  <2> QED
    BY <2>2, <2>3, <2>4
<1> HIDE DEF new
<1>3. EligibleOf(new) = EligibleOf(r) /\ EndOf(new) = EndOf(r)
  BY <1>2 DEF EligibleOf, EndOf
<1>4. new.pc \in {"single", "attach"} => ResultsFit(new)
  BY <1>2, <1>3 DEF ResultsFit
<1>5. new.pc = "attach" => \A i \in DOMAIN new.results : new.results[i] # Missing
  BY <1>2
<1>6. GoodCheck(new)
  <2> HIDE DEF r
  <2>1. new.pc \in Working
    BY <1>2
  <2>2. r.pc \in Working /\ r.at < EligibleOf(r)
    BY DEF r
  <2> QED
    BY <1>1, <1>2, <1>4, <1>5, <2>1, <2>2, ResultsKeepGood
<1> QED
  BY <1>2, <1>6, CheckGoes

\* The batch's results, with one of them replaced.
LEMMA OneResult ==
  ASSUME ReviewInv, NEW c \in Checks, check[c].pc = "single", Lacking(c) # {},
         NEW level \in {Unknown, Broken, By(check[c].model, BatchOf(c)[FirstLacking(c)])},
         SetResults(c, [check[c].results EXCEPT ![FirstLacking(c)] = level], "single"), UNCHANGED kept
  PROVE  ReviewInv'
<1> DEFINE r == check[c]
           f == FirstLacking(c)
           results == [r.results EXCEPT ![f] = level]
<1>1. GoodCheck(r) /\ r.pc \in Working /\ r.at < EligibleOf(r) /\ r.model \in ReviewModels
  BY DEF ReviewInv, GoodCheck, Working
<1>2. /\ BatchOf(c) \in Seq(Sqls) /\ Len(BatchOf(c)) = EndOf(r) - r.at
      /\ \A i \in 1..Len(BatchOf(c)) : BatchOf(c)[i] = r.sqls[r.at + i]
  BY <1>1, BatchFacts
<1>3. /\ r.results \in Seq(Verdict \cup {Unknown, Missing, Broken})
      /\ DOMAIN r.results = 1..(EndOf(r) - r.at) /\ DOMAIN r.results = 1..Len(r.results)
      /\ \A i \in DOMAIN r.results : r.results[i] \in {Unknown, Missing, Broken, By(r.model, r.sqls[r.at + i])}
  BY <1>1 DEF GoodCheck, CheckShape, ResultsFit
<1>4. f \in 1..(EndOf(r) - r.at)
  <2>0. Lacking(c) \subseteq 1..Len(r.results) /\ Len(r.results) \in Nat
    BY <1>3 DEF Lacking
  <2>1. Lacking(c) \in SUBSET Nat /\ Lacking(c) \subseteq 1..(EndOf(r) - r.at)
    <3>1. Lacking(c) \in SUBSET Nat
      BY <2>0
    <3>2. 1..Len(r.results) = 1..(EndOf(r) - r.at)
      BY <1>3, Zenon
    <3> QED
      BY <2>0, <3>1, <3>2, Zenon
  <2>2. \E i \in Lacking(c) : \A j \in Lacking(c) : i <= j
    BY <2>1, LeastNumber
  <2>3. f \in Lacking(c)
    BY <2>2 DEF FirstLacking
  <2> QED
    BY <2>1, <2>3
<1>5. level \in {Unknown, Broken, By(r.model, r.sqls[r.at + f])} /\ level \in Verdict \cup {Unknown, Missing, Broken}
  <2>1. BatchOf(c)[f] = r.sqls[r.at + f] /\ BatchOf(c)[f] \in Sqls
    BY <1>2, <1>4
  <2> QED
    BY <1>1, <2>1 DEF By, Verdict
<1> HIDE DEF f
<1>6. results \in Seq(Verdict \cup {Unknown, Missing, Broken}) /\ DOMAIN results = 1..(EndOf(r) - r.at)
  <2> DEFINE S == Verdict \cup {Unknown, Missing, Broken}
             n == EndOf(r) - r.at
  <2>1. n = Len(r.results) /\ n \in Nat
    BY <1>1, <1>3, BatchFacts
  <2>2. r.results \in [1..n -> S]
    BY <1>3, <2>1
  <2> HIDE DEF r, S, n
  <2>3. results \in [1..n -> S]
    BY <1>4, <1>5, <2>2 DEF S, n
  <2>4. n \in Nat
    BY <2>1
  <2>5. results \in Seq(S) /\ DOMAIN results = 1..n
    <3> HIDE DEF results
    <3> QED
      BY <2>3, <2>4, SeqDef
  <2> QED
    BY <2>5 DEF S, n
<1>7. \A i \in DOMAIN results : results[i] \in {Unknown, Missing, Broken, By(r.model, r.sqls[r.at + i])}
  <2> HIDE DEF r
  <2> QED
    BY <1>3, <1>4, <1>5, <1>6
<1>8. SetResults(c, results, "single")
  BY DEF f
<1>9. KeptFits'
  BY DEF ReviewInv, KeptFits
<1> HIDE DEF results
<1> QED
  BY <1>1, <1>6, <1>7, <1>8, <1>9, ResultsKeep DEF Working

LEMMA VerdictsInit == ReviewInit => ReviewInv
<1> SUFFICES ASSUME ReviewInit PROVE ReviewInv
  OBVIOUS
<1>1. NoCheck \in CheckShape /\ NoCheck.pc = "idle" /\ NoCheck.sqls = <<>> /\ NoCheck.marks = <<>>
  BY DEF NoCheck, CheckShape
<1>2. GoodCheck(NoCheck)
  BY <1>1 DEF GoodCheck, MarksFit, MarkedSoFar, Working
<1>3. KeptFits
  BY DEF ReviewInit, NothingKept, KeptFits
<1> QED
  BY <1>1, <1>2, <1>3 DEF ReviewInit, ReviewInv

LEMMA VerdictsNext ==
  ASSUME ReviewInv, [ReviewNext]_reviewVars
  PROVE  ReviewInv'
<1>a. ASSUME NEW c \in Checks
      PROVE  check[c] \in CheckShape /\ GoodCheck(check[c]) /\ (check[c].pc # "idle" => check[c].model \in ReviewModels)
  BY <1>a DEF ReviewInv, GoodCheck
<1>b. UNCHANGED kept => KeptFits'
  BY DEF ReviewInv, KeptFits
<1>c. ASSUME NEW c \in Checks, check[c].pc \in Working, check[c].at < EligibleOf(check[c])
      PROVE  /\ Eligible(c) = EligibleOf(check[c]) /\ BatchOf(c) \in Seq(Sqls)
             /\ Len(BatchOf(c)) = EndOf(check[c]) - check[c].at /\ check[c].model \in ReviewModels
             /\ \A i \in 1..Len(BatchOf(c)) : BatchOf(c)[i] = check[c].sqls[check[c].at + i]
             /\ Len(BatchOf(c)) \in Nat
  <2>1. check[c].pc # "idle"
    BY <1>c DEF Working
  <2> QED
    BY <1>a, <1>c, <2>1, BatchFacts
<1>1. ASSUME NEW c \in Checks, run_ai_review(c) PROVE ReviewInv'
  <2>1. PICK sqls \in SeqUpTo(Sqls, MaxScript) \ {<<>>}, model \in ReviewModels :
           check' = [check EXCEPT ![c] =
             [NoCheck EXCEPT !.pc = "batch", !.sqls = sqls, !.model = model,
              !.marks = [i \in 1..Len(sqls) |-> IF i <= MaxReviewed THEN Unmarked ELSE Unknown]]]
    BY <1>1 DEF run_ai_review
  <2>2. sqls \in Seq(Sqls) /\ Len(sqls) \in Nat /\ MaxReviewed \in Nat
    BY SeqUpToIsSeq, ReviewAssumption
  <2> DEFINE marks == [i \in 1..Len(sqls) |-> IF i <= MaxReviewed THEN Unmarked ELSE Unknown]
             new == [NoCheck EXCEPT !.pc = "batch", !.sqls = sqls, !.model = model, !.marks = marks]
  <2>3. marks \in Seq(Mark) /\ Len(marks) = Len(sqls)
    BY <2>2 DEF Mark
  <2>4. \A i \in 1..Len(sqls) : marks[i] \in {Unknown, Unmarked} /\ (i > MaxReviewed => marks[i] = Unknown)
    BY <2>2
  <2> HIDE DEF marks
  <2>5. new \in CheckShape /\ new.pc = "batch" /\ new.sqls = sqls /\ new.model = model /\ new.marks = marks /\ new.at = 0
    <3>1. NoCheck \in CheckShape /\ NoCheck.at = 0
      BY DEF NoCheck, CheckShape
    <3>2. new \in CheckShape
      BY <2>2, <2>3, <3>1 DEF CheckShape, Working
    <3>3. new.pc = "batch" /\ new.sqls = sqls /\ new.model = model /\ new.marks = marks /\ new.at = NoCheck.at
      BY <3>1 DEF CheckShape
    <3> QED
      BY <3>1, <3>2, <3>3
  <2>6. check' = [check EXCEPT ![c] = new]
    BY <2>1 DEF marks
  <2> HIDE DEF new
  <2>7. EligibleOf(new) \in Nat
    BY <2>2, <2>5 DEF EligibleOf
  <2>8. MarksFit(new) /\ MarkedSoFar(new)
    BY <2>2, <2>3, <2>4, <2>5, WordsDiffer DEF MarksFit, MarkedSoFar
  <2>9. GoodCheck(new)
    BY <2>5, <2>7, <2>8 DEF GoodCheck
  <2> QED
    BY <1>1, <1>b, <2>6, <2>9, CheckGoes DEF run_ai_review
<1>2. ASSUME NEW c \in Checks, Hit(c) PROVE ReviewInv'
  <2>1. check[c].pc = "batch" /\ check[c].at < EligibleOf(check[c])
    BY <1>2 DEF Hit, Eligible, EligibleOf
  <2>2. KeyOf(c) = <<check[c].model, BatchOf(c)>> /\ KeyOf(c) \in DOMAIN kept
    BY <1>2 DEF Hit, KeyOf
  <2> DEFINE levels == kept[KeyOf(c)]
  <2>3. /\ BatchOf(c) \in Seq(Sqls) /\ Len(BatchOf(c)) = EndOf(check[c]) - check[c].at
        /\ check[c].model \in ReviewModels
        /\ \A i \in 1..Len(BatchOf(c)) : BatchOf(c)[i] = check[c].sqls[check[c].at + i]
    BY <1>c, <2>1 DEF Working
  <2>4. /\ levels \in Seq(Verdict \cup {Unknown}) /\ Len(levels) = Len(BatchOf(c))
        /\ \A i \in 1..Len(BatchOf(c)) : levels[i] \in {Unknown, By(check[c].model, BatchOf(c)[i])}
    BY <2>2, <2>3 DEF ReviewInv, KeptFits
  <2>5. SetResults(c, levels, "attach")
    BY <1>2 DEF Hit
  <2> HIDE DEF levels
  <2>6. levels \in Seq(Verdict \cup {Unknown, Missing, Broken})
    BY <2>4, SeqMonotonic
  <2>7. DOMAIN levels = 1..(EndOf(check[c]) - check[c].at)
    BY <2>3, <2>4
  <2>8. \A i \in DOMAIN levels : levels[i] \in {Unknown, By(check[c].model, check[c].sqls[check[c].at + i])}
    BY <2>3, <2>4, <2>7
  <2>9. \A i \in DOMAIN levels : levels[i] # Missing
    BY <2>3, <2>8, WordsDiffer
  <2>10. KeptFits'
    BY <1>2, <1>b DEF Hit
  <2> QED
    BY <2>1, <2>5, <2>6, <2>7, <2>8, <2>9, <2>10, ResultsKeep DEF Working
<1>3. ASSUME NEW c \in Checks, Miss(c) PROVE ReviewInv'
  <2>1. check[c].pc = "batch" /\ check[c].at < EligibleOf(check[c]) /\ SetResults(c, <<>>, "call")
    BY <1>3 DEF Miss, Eligible, EligibleOf
  <2>2. <<>> \in Seq(Verdict \cup {Unknown, Missing, Broken})
    OBVIOUS
  <2>3. KeptFits'
    BY <1>3, <1>b DEF Miss
  <2> QED
    BY <2>1, <2>2, <2>3, ResultsKeep DEF Working
<1>4. ASSUME NEW c \in Checks, AskBatch(c) PROVE ReviewInv'
  <2>1. check[c].pc = "call" /\ check[c].at < EligibleOf(check[c])
    BY <1>4, <1>a DEF AskBatch, GoodCheck
  <2>2. /\ BatchOf(c) \in Seq(Sqls) /\ Len(BatchOf(c)) = EndOf(check[c]) - check[c].at
        /\ check[c].model \in ReviewModels
        /\ \A i \in 1..Len(BatchOf(c)) : BatchOf(c)[i] = check[c].sqls[check[c].at + i]
    BY <1>c, <2>1 DEF Working
  <2>3. PICK items \in Answers(check[c].model, BatchOf(c)) :
           SetResults(c, parse_review_batch(items, Len(BatchOf(c))), "single")
    BY <1>4 DEF AskBatch
  <2> DEFINE results == parse_review_batch(items, Len(BatchOf(c)))
  <2>4. /\ results \in Seq(Verdict \cup {Unknown, Missing, Broken}) /\ DOMAIN results = 1..Len(BatchOf(c))
        /\ \A i \in 1..Len(BatchOf(c)) : results[i] \in {Missing, By(check[c].model, BatchOf(c)[i])}
    BY <2>2, <2>3, ParseFits
  <2> HIDE DEF results
  <2>5. DOMAIN results = 1..(EndOf(check[c]) - check[c].at)
    BY <2>2, <2>4
  <2>6. \A i \in DOMAIN results : results[i] \in {Unknown, Missing, Broken, By(check[c].model, check[c].sqls[check[c].at + i])}
    BY <2>2, <2>4
  <2>7. SetResults(c, results, "single")
    BY <2>3 DEF results
  <2>8. KeptFits'
    BY <1>4, <1>b DEF AskBatch
  <2> QED
    BY <2>1, <2>4, <2>5, <2>6, <2>7, <2>8, ResultsKeep DEF Working
<1>5. ASSUME NEW c \in Checks, AskBatchFails(c) PROVE ReviewInv'
  <2>1. check[c].pc = "call" /\ check[c].at < EligibleOf(check[c])
    BY <1>5, <1>a DEF AskBatchFails, GoodCheck
  <2>2. Len(BatchOf(c)) = EndOf(check[c]) - check[c].at /\ Len(BatchOf(c)) \in Nat
    BY <1>c, <2>1 DEF Working
  <2> DEFINE results == NoItems(BatchOf(c))
  <2>3. /\ results \in Seq(Verdict \cup {Unknown, Missing, Broken}) /\ DOMAIN results = 1..Len(BatchOf(c))
        /\ \A i \in DOMAIN results : results[i] = Missing
    BY <2>2 DEF NoItems
  <2>4. SetResults(c, results, "single")
    BY <1>5 DEF AskBatchFails
  <2>5. KeptFits'
    BY <1>5, <1>b DEF AskBatchFails
  <2> HIDE DEF results
  <2>6. DOMAIN results = 1..(EndOf(check[c]) - check[c].at)
    BY <2>2, <2>3
  <2>7. \A i \in DOMAIN results : results[i] \in {Unknown, Missing, Broken, By(check[c].model, check[c].sqls[check[c].at + i])}
    BY <2>3
  <2> QED
    BY <2>1, <2>3, <2>4, <2>5, <2>6, <2>7, ResultsKeep DEF Working
<1>6. ASSUME NEW c \in Checks, AskOne(c) PROVE ReviewInv'
  <2>1. PICK level \in {Unknown, By(check[c].model, BatchOf(c)[FirstLacking(c)])} :
           SetResults(c, [check[c].results EXCEPT ![FirstLacking(c)] = level], "single")
    BY <1>6 DEF AskOne, By
  <2>2. check[c].pc = "single" /\ Lacking(c) # {} /\ UNCHANGED kept
    BY <1>6 DEF AskOne
  <2> QED
    BY <2>1, <2>2, OneResult
<1>7. ASSUME NEW c \in Checks, OneContextFails(c) PROVE ReviewInv'
  <2>1. /\ SetResults(c, [check[c].results EXCEPT ![FirstLacking(c)] = Broken], "single")
        /\ check[c].pc = "single" /\ Lacking(c) # {} /\ UNCHANGED kept
    BY <1>7 DEF OneContextFails
  <2> QED
    BY <2>1, OneResult
\* A batch without a broken result is kept under its model and its statements.
<1>8. ASSUME NEW c \in Checks, KeepBatch(c) PROVE ReviewInv'
  <2> DEFINE r == check[c]
             results == r.results
             key == <<r.model, BatchOf(c)>>
  <2>1. r.pc = "single" /\ r.at < EligibleOf(r) /\ Lacking(c) = {} /\ SetResults(c, results, "attach")
    BY <1>8, <1>a DEF KeepBatch, GoodCheck
  <2>2. /\ BatchOf(c) \in Seq(Sqls) /\ Len(BatchOf(c)) = EndOf(r) - r.at /\ Len(BatchOf(c)) \in Nat
        /\ r.model \in ReviewModels
        /\ \A i \in 1..Len(BatchOf(c)) : BatchOf(c)[i] = r.sqls[r.at + i]
    BY <1>c, <2>1 DEF Working
  <2>3. /\ results \in Seq(Verdict \cup {Unknown, Missing, Broken}) /\ DOMAIN results = 1..(EndOf(r) - r.at)
        /\ \A i \in DOMAIN results : results[i] \in {Unknown, Missing, Broken, By(r.model, r.sqls[r.at + i])}
    BY <2>1, <1>a DEF GoodCheck, CheckShape, ResultsFit
  <2>4. \A i \in DOMAIN results : results[i] # Missing
    <3>1. {i \in 1..Len(results) : results[i] = Missing} = {}
      BY <2>1 DEF Lacking
    <3>2. DOMAIN results = 1..Len(results)
      BY <2>3
    <3> HIDE DEF results
    <3> QED
      BY <3>1, <3>2, Zenon
  <2>5. \/ UNCHANGED kept
        \/ /\ \A i \in 1..Len(results) : results[i] # Broken
           /\ kept' = [k \in DOMAIN kept \cup {key} |-> IF k = key THEN results ELSE kept[k]]
    BY <1>8 DEF KeepBatch, KeyOf
  <2>6. KeptFits'
    <3>1. CASE UNCHANGED kept
      BY <3>1, <1>b
    <3>2. CASE /\ \A i \in 1..Len(results) : results[i] # Broken
               /\ kept' = [k \in DOMAIN kept \cup {key} |-> IF k = key THEN results ELSE kept[k]]
      <4>1. Len(results) = Len(BatchOf(c)) /\ DOMAIN results = 1..Len(BatchOf(c))
        <5> HIDE DEF results, r
        <5> QED
          BY <2>2, <2>3
      <4>2. \A i \in 1..Len(BatchOf(c)) : results[i] \in {Unknown, By(r.model, BatchOf(c)[i])}
        <5> HIDE DEF results, r
        <5> QED
          BY <2>2, <2>3, <2>4, <3>2, <4>1
      <4>3. results \in Seq(Verdict \cup {Unknown})
        <5>1. \A i \in 1..Len(BatchOf(c)) : results[i] \in Verdict \cup {Unknown}
          <6>1. \A i \in 1..Len(BatchOf(c)) : BatchOf(c)[i] \in Sqls
            BY <2>2
          <6> HIDE DEF results, r
          <6> QED
            BY <2>2, <4>2, <6>1 DEF By, Verdict
        <5> HIDE DEF results, r
        <5>2. results \in [1..Len(BatchOf(c)) -> Verdict \cup {Unknown}]
          <6>1. results = [i \in DOMAIN results |-> results[i]]
            BY <2>3
          <6> QED
            BY <4>1, <5>1, <6>1
        <5> QED
          BY <2>2, <5>2, SeqDef
      <4> HIDE DEF results, r, key
      <4>4. DOMAIN kept' = {key} \cup DOMAIN kept
        BY <3>2
      <4>5. \A k \in DOMAIN kept' : kept'[k] = IF k = key THEN results ELSE kept[k]
        BY <3>2
      <4> SUFFICES ASSUME NEW m \in ReviewModels, NEW sqls \in Seq(Sqls), <<m, sqls>> \in DOMAIN kept'
                   PROVE  /\ kept'[<<m, sqls>>] \in Seq(Verdict \cup {Unknown}) /\ Len(kept'[<<m, sqls>>]) = Len(sqls)
                          /\ \A i \in 1..Len(sqls) : kept'[<<m, sqls>>][i] \in {Unknown, By(m, sqls[i])}
        BY DEF KeptFits
      <4>6. CASE <<m, sqls>> = key
        <5>1. m = r.model /\ sqls = BatchOf(c)
          BY <4>6 DEF key
        <5> QED
          BY <4>1, <4>2, <4>3, <4>5, <4>6, <5>1
      <4>7. CASE <<m, sqls>> # key
        <5>1. <<m, sqls>> \in DOMAIN kept /\ kept'[<<m, sqls>>] = kept[<<m, sqls>>]
          BY <4>4, <4>5, <4>7
        <5> QED
          BY <5>1 DEF ReviewInv, KeptFits
      <4> QED
        BY <4>6, <4>7
    <3> QED
      BY <2>5, <3>1, <3>2
  <2> QED
    BY <2>1, <2>3, <2>4, <2>6, ResultsKeep DEF Working
<1>9. ASSUME NEW c \in Checks, Attach(c) PROVE ReviewInv'
  <2> DEFINE r == check[c]
             levels == [i \in 1..Len(r.results) |-> IF r.results[i] = Broken THEN Unknown ELSE r.results[i]]
  <2>1. r.pc = "attach" /\ r.at < EligibleOf(r) /\ MarkBatch(c, levels) /\ UNCHANGED kept
    BY <1>9, <1>a DEF Attach, GoodCheck
  <2>2. /\ DOMAIN r.results = 1..(EndOf(r) - r.at) /\ DOMAIN r.results = 1..Len(r.results)
        /\ \A i \in DOMAIN r.results :
             r.results[i] \in {Unknown, Missing, Broken, By(r.model, r.sqls[r.at + i])} /\ r.results[i] # Missing
    BY <2>1, <1>a DEF GoodCheck, CheckShape, ResultsFit
  <2>3. \A i \in 1..(EndOf(r) - r.at) : levels[i] \in {Unknown, By(r.model, r.sqls[r.at + i])}
    BY <2>2
  <2> HIDE DEF levels
  <2> QED
    BY <2>1, <2>3, MarkBatchKeeps DEF Working
<1>10. ASSUME NEW c \in Checks, ContextFails(c) PROVE ReviewInv'
  <2> DEFINE r == check[c]
             levels == [i \in 1..Len(BatchOf(c)) |-> Unknown]
  <2>1. r.pc = "call" /\ r.at < EligibleOf(r) /\ MarkBatch(c, levels) /\ UNCHANGED kept
    BY <1>10, <1>a DEF ContextFails, GoodCheck
  <2>2. Len(BatchOf(c)) = EndOf(r) - r.at
    BY <1>c, <2>1 DEF Working
  <2>3. \A i \in 1..(EndOf(r) - r.at) : levels[i] = Unknown
    BY <2>2
  <2> HIDE DEF levels
  <2> QED
    BY <2>1, <2>3, MarkBatchKeeps DEF Working
<1>11. ASSUME NEW c \in Checks, Told(c) PROVE ReviewInv'
  <2> DEFINE r == check[c]
             new == [r EXCEPT !.pc = "told", !.at = 0]
  <2>1. r.pc = "batch" /\ r.at >= EligibleOf(r) /\ UNCHANGED kept
    BY <1>11 DEF Told, Eligible, EligibleOf
  <2>2. r \in CheckShape /\ r.model \in ReviewModels
    BY <1>a, <2>1
  <2>3. /\ new \in CheckShape /\ new.pc = "told" /\ new.sqls = r.sqls /\ new.model = r.model /\ new.marks = r.marks
    BY <2>2 DEF CheckShape
  <2>4. check' = [check EXCEPT ![c] = new]
    BY <1>11 DEF Told, ReviewInv
  <2>5. MarksFit(r) /\ MarkedSoFar(r)
    BY <1>a DEF GoodCheck
  <2>6. \A i \in 1..Len(r.sqls) : r.marks[i] # Unmarked
    <3>1. Len(r.sqls) \in Nat /\ MaxReviewed \in Nat /\ r.at \in Nat
      BY <2>2, ReviewAssumption DEF CheckShape
    <3>2. \A i \in 1..Len(r.sqls) : i <= r.at \/ i > MaxReviewed
      <4>1. r.at >= EligibleOf(r)
        BY <2>1
      <4> HIDE DEF r
      <4> QED
        BY <3>1, <4>1 DEF EligibleOf
    <3> QED
      BY <2>1, <2>5, <3>2 DEF MarkedSoFar, Working
  <2> HIDE DEF new, r
  <2>7. MarksFit(new) /\ MarkedSoFar(new)
    BY <2>3, <2>5, <2>6 DEF MarksFit, MarkedSoFar, Working
  <2>8. GoodCheck(new)
    BY <2>2, <2>3, <2>7 DEF GoodCheck, Working
  <2> QED
    BY <2>1, <2>4, <2>8, <1>b, CheckGoes
<1>12. ASSUME NEW c \in Checks, SubmitChecked(c) PROVE ReviewInv'
  <2> DEFINE r == check[c]
  <2>1. PICK sqls \in SeqUpTo(Sqls, MaxScript) \ {<<>>} :
           check' = [check EXCEPT ![c] =
             [r EXCEPT !.pc = "submitted", !.sqls = sqls, !.marks = _merge_ai_review_fields(c, sqls),
                       !.checked = {r.sqls[j] : j \in 1..Len(r.sqls)}]]
    BY <1>12 DEF SubmitChecked, ReviewInv
  <2> DEFINE marks == _merge_ai_review_fields(c, sqls)
             checked == {r.sqls[j] : j \in 1..Len(r.sqls)}
             new == [r EXCEPT !.pc = "submitted", !.sqls = sqls, !.marks = marks, !.checked = checked]
  <2>2. sqls \in Seq(Sqls) /\ r.pc = "told" /\ UNCHANGED kept
    BY <1>12, SeqUpToIsSeq, ReviewAssumption DEF SubmitChecked
  <2>3. r \in CheckShape /\ r.model \in ReviewModels
    BY <1>a, <2>2
  <2>4. /\ marks \in Seq(Mark) /\ Len(marks) = Len(sqls)
        /\ \A i \in 1..Len(sqls) :
             /\ marks[i] \in {Unknown, Unmarked, By(r.model, sqls[i])}
             /\ (\E j \in 1..Len(r.sqls) : r.sqls[j] = sqls[i]) => marks[i] # Unmarked
    BY <1>a, <2>2, MergeFits
  <2>5. checked \in SUBSET Sqls /\ \A s \in checked : \E j \in 1..Len(r.sqls) : r.sqls[j] = s
    BY <2>3 DEF CheckShape
  <2> HIDE DEF marks, checked
  <2>6. /\ new \in CheckShape /\ new.pc = "submitted" /\ new.sqls = sqls /\ new.model = r.model
        /\ new.marks = marks /\ new.checked = checked
    BY <2>2, <2>3, <2>4, <2>5 DEF CheckShape
  <2>7. check' = [check EXCEPT ![c] = new]
    BY <2>1 DEF marks, checked
  <2> HIDE DEF new, r
  <2>8. MarksFit(new) /\ MarkedSoFar(new)
    BY <2>4, <2>5, <2>6 DEF MarksFit, MarkedSoFar, Working
  <2>9. GoodCheck(new)
    BY <2>3, <2>6, <2>8 DEF GoodCheck, Working
  <2> QED
    BY <2>2, <2>7, <2>9, <1>b, CheckGoes
<1>13. CASE UNCHANGED reviewVars
  BY <1>13 DEF reviewVars, ReviewInv, KeptFits
<1> QED
  BY <1>1, <1>2, <1>3, <1>4, <1>5, <1>6, <1>7, <1>8, <1>9, <1>10, <1>11, <1>12, <1>13 DEF ReviewNext, CheckStep

\* A verdict on a row is what the model of the check has said of that very statement, and no statement that was
\* checked is without a mark: for every size of a batch, every limit, and any number of checks that share the cache.
THEOREM VerdictsAreTrue == ReviewSpec => []VerdictsAreTheModels
<1>1. ReviewInv => VerdictsAreTheModels
  BY DEF ReviewInv, GoodCheck, MarksFit, MarkedSoFar, VerdictsAreTheModels, By
<1> QED
  BY <1>1, VerdictsInit, VerdictsNext, PTL DEF ReviewSpec

-----------------------------------------------------------------------------
(***************************************************************************)
(* What Diagnosis keeps for every number of web processes, slow queries,   *)
(* slots, tasks and faults.  The inductive invariant is                    *)
(*   TypeInv      types, and what a request holds at each of its steps;    *)
(*   TaskHandInv  a task goes from hand to hand: at most one request holds *)
(*                it, and it has no job before that request has submitted  *)
(*                it                                                       *)
(* and each of the three results adds its own part.                        *)
(***************************************************************************)
(* Types.                                                                  *)

\* slots is bounded later, from the conservation of the slots.
TypeInv ==
  /\ task \in [Task -> TaskRec]
  /\ web \in [Procs -> Web]
  /\ slots \in [Procs -> Nat]
  /\ job \in [Task -> Job]
  /\ held \in [Markers -> [Task -> Open \cup {"none"}]]
  /\ faults \in 0..MaxFaults
  /\ began \in [Task -> 0..MaxAge]

\* A job has a process exactly when it exists; a request holds a task, which is not
\* held by another and has no job yet, exactly after its Create.
TaskHandInv ==
  /\ \A t \in Task : job[t].pc = "none" <=> job[t].proc = NoKey
  /\ \A t \in Task : job[t].pc # "none" => task[t].st # "absent"
  /\ \A p \in Procs :
       web[p].pc \in {"acquire", "submit", "reject"} <=> web[p].tid \in Task
  /\ \A p \in Procs : web[p].pc = "create" => web[p].key \in Keys
  /\ \A p \in Procs : web[p].tid \in Task =>
       job[web[p].tid].pc = "none" /\ task[web[p].tid].st # "absent"
  /\ \A p, q \in Procs : p # q /\ web[p].tid = web[q].tid => web[p].tid \notin Task

\* Whatever is defined from the constants alone.
LEMMA ConstantFacts ==
  /\ 0 \notin Task
  /\ 0 \in 0..MaxAge
  /\ MaxAge \in Nat
  /\ Idle \in Web /\ NoJob \in Job /\ NewTask \in TaskRec
  /\ NoCopies \in [Task -> Open \cup {"none"}]
  /\ Sweeper \in Markers
  /\ Pollers \subseteq Markers
BY DiagnosisAssumption
   DEF Task, MaxAge, Idle, Web, NoJob, Job, JobPC, NewTask, TaskRec, Status, NoCopies,
       Open, Markers

\* In the beginning nobody holds anything.
LEMMA TypeInit == Init => TypeInv /\ TaskHandInv
BY ConstantFacts, DiagnosisAssumption
   DEF Init, TypeInv, TaskHandInv, Idle, NoJob, NewTask, Open, NoCopies

\* The rows keep their type when one gets another status, a key, a report or an age.
LEMMA RowsGood ==
  ASSUME task \in [Task -> TaskRec], NEW t \in Task
  PROVE  /\ \A st \in Status : [task EXCEPT ![t].st = st] \in [Task -> TaskRec]
         /\ \A k \in Keys :
              [task EXCEPT ![t].st = "pending", ![t].key = k] \in [Task -> TaskRec]
         /\ [task EXCEPT ![t].report = TRUE] \in [Task -> TaskRec]
         /\ \A a \in 0..MaxAge : [task[t] EXCEPT !.age = a] \in TaskRec
<1>1. task[t] \in TaskRec
  OBVIOUS
<1>2. \A st \in Status : [task[t] EXCEPT !.st = st] \in TaskRec
  BY <1>1 DEF TaskRec
<1>3. \A k \in Keys : [task[t] EXCEPT !.st = "pending", !.key = k] \in TaskRec
  BY <1>1 DEF TaskRec, Status
<1>4. [task[t] EXCEPT !.report = TRUE] \in TaskRec
  BY <1>1 DEF TaskRec
<1>5. \A a \in 0..MaxAge : [task[t] EXCEPT !.age = a] \in TaskRec
  BY <1>1 DEF TaskRec
<1> QED
  BY <1>2, <1>3, <1>4, <1>5

\* So do the requests when one of them goes on.
LEMMA RequestsGood ==
  ASSUME web \in [Procs -> Web], NEW p \in Procs
  PROVE  /\ \A pc \in {"submit", "reject"} : [web EXCEPT ![p].pc = pc] \in [Procs -> Web]
         /\ \A t \in Task :
              [web EXCEPT ![p].pc = "acquire", ![p].tid = t] \in [Procs -> Web]
<1>1. /\ \A pc \in {"submit", "reject"} : [web[p] EXCEPT !.pc = pc] \in Web
      /\ \A t \in Task : [web[p] EXCEPT !.pc = "acquire", !.tid = t] \in Web
  BY DEF Web
<1> QED
  BY <1>1

\* And the jobs.
LEMMA JobsGood ==
  ASSUME job \in [Task -> Job], NEW t \in Task
  PROVE  \A pc \in JobPC : [job EXCEPT ![t].pc = pc] \in [Task -> Job]
<1>1. \A pc \in JobPC : [job[t] EXCEPT !.pc = pc] \in Job
  BY DEF Job
<1> QED
  BY <1>1

\* What a request does when it asks for a slot: it goes on, with or without one.
LEMMA SlotAsked ==
  ASSUME slots \in [Procs -> Nat], NEW p \in Procs, AcquireSlot(p)
  PROVE  /\ \E pc \in {"submit", "reject"} : web' = [web EXCEPT ![p].pc = pc]
         /\ slots' \in [Procs -> Nat]
<1>1. \/ slots[p] > 0 /\ slots' = [slots EXCEPT ![p] = @ - 1]
      \/ slots' = slots
  BY DEF AcquireSlot
<1>2. slots' \in [Procs -> Nat]
  BY <1>1
<1>3. \E pc \in {"submit", "reject"} : web' = [web EXCEPT ![p].pc = pc]
  BY DEF AcquireSlot, SetWeb
<1> QED
  BY <1>2, <1>3

\* A request that creates a task takes an id for it and holds it.
LEMMA TaskCreated ==
  ASSUME NEW p \in Procs, Create(p)
  PROVE  \E t \in Task :
           /\ task' = [task EXCEPT ![t].st = "pending", ![t].key = web[p].key]
           /\ web' = [web EXCEPT ![p].pc = "acquire", ![p].tid = t]
           /\ job' = job /\ faults' = faults
  BY DEF Create, pool

\* Every step keeps the types and the hands.
LEMMA TypeNext == TypeInv /\ TaskHandInv /\ [Next]_vars => TypeInv' /\ TaskHandInv'
<1> SUFFICES ASSUME TypeInv, TaskHandInv, [Next]_vars PROVE TypeInv' /\ TaskHandInv'
  OBVIOUS
<1> USE ConstantFacts, DiagnosisAssumption
<1> USE DEF TypeInv, TaskHandInv, rows, pool, SetStatus, SetWeb, EndRequest, SetJob, Fault,
            Idle, NoJob, Web, Job, JobPC, TaskRec, Status, Open
<1>1. ASSUME NEW p \in Procs, NEW k \in Keys, Ask(p, k)
      PROVE  TypeInv' /\ TaskHandInv'
  <2>1. TypeInv'
    BY <1>1 DEF Ask
  <2>2. TaskHandInv'
    BY <1>1 DEF Ask
  <2> QED
    BY <2>1, <2>2
<1>2. ASSUME NEW p \in Procs, Create(p)
      PROVE  TypeInv' /\ TaskHandInv'
  <2>1. TypeInv'
    <3>1. PICK t \in Task :
            /\ task' = [task EXCEPT ![t].st = "pending", ![t].key = web[p].key]
            /\ web' = [web EXCEPT ![p].pc = "acquire", ![p].tid = t]
      BY <1>2 DEF Create
    <3>2. web' \in [Procs -> Web]
      BY <3>1, RequestsGood
    <3>3. task' \in [Task -> TaskRec]
      BY <1>2, <3>1, RowsGood DEF Create
    <3> QED
      BY <1>2, <3>2, <3>3 DEF Create
  <2>2. TaskHandInv'
    BY <1>2 DEF Create
  <2> QED
    BY <2>1, <2>2
<1>3. ASSUME NEW p \in Procs, AcquireSlot(p)
      PROVE  TypeInv' /\ TaskHandInv'
  <2>1. TypeInv'
    <3>1. PICK pc \in {"submit", "reject"} : web' = [web EXCEPT ![p].pc = pc]
      BY <1>3, SlotAsked
    <3>2. web' \in [Procs -> Web]
      BY <3>1, RequestsGood
    <3>3. slots' \in [Procs -> Nat]
      BY <1>3, SlotAsked
    <3> HIDE DEF TaskHandInv, Job, JobPC, Web, TaskRec, Status
    <3> QED
      BY <1>3, <3>2, <3>3 DEF AcquireSlot
  <2>2. TaskHandInv'
    <3>1. \E pc \in {"submit", "reject"} : web' = [web EXCEPT ![p].pc = pc]
      BY <1>3 DEF AcquireSlot
    <3> QED
      BY <1>3, <3>1 DEF AcquireSlot
  <2> QED
    BY <2>1, <2>2
<1>4. ASSUME NEW p \in Procs, Submit(p)
      PROVE  TypeInv' /\ TaskHandInv'
  <2>1. TypeInv'
    BY <1>4 DEF Submit
  <2>2. TaskHandInv'
    BY <1>4 DEF Submit
  <2> QED
    BY <2>1, <2>2
<1>5. ASSUME NEW p \in Procs, SubmitRaises(p)
      PROVE  TypeInv' /\ TaskHandInv'
  <2>1. TypeInv'
    <3>1. web' \in [Procs -> Web]
      BY <1>5, RequestsGood DEF SubmitRaises
    <3>2. slots' \in [Procs -> Nat]
      BY <1>5 DEF SubmitRaises
    <3> QED
      BY <1>5, <3>1, <3>2 DEF SubmitRaises
  <2>2. TaskHandInv'
    BY <1>5 DEF SubmitRaises
  <2> QED
    BY <2>1, <2>2
<1>6. ASSUME NEW p \in Procs, Reject(p)
      PROVE  TypeInv' /\ TaskHandInv'
  <2>1. TypeInv'
    BY <1>6, RowsGood DEF Reject
  <2>2. TaskHandInv'
    BY <1>6 DEF Reject
  <2> QED
    BY <2>1, <2>2
<1>7. ASSUME NEW p \in Procs, Restart(p)
      PROVE  TypeInv' /\ TaskHandInv'
  <2>1. TypeInv'
    BY <1>7 DEF Restart
  <2>2. TaskHandInv'
    BY <1>7 DEF Restart
  <2> QED
    BY <2>1, <2>2
<1>8. ASSUME NEW p \in Procs, RejectLost(p)
      PROVE  TypeInv' /\ TaskHandInv'
  <2>1. TypeInv'
    <3>1. web' \in [Procs -> Web]
      BY <1>8 DEF RejectLost
    <3>2. faults' \in 0..MaxFaults
      BY <1>8 DEF RejectLost
    <3> HIDE DEF TaskHandInv, Job, JobPC, Web, TaskRec, Status, Fault
    <3> QED
      BY <1>8, <3>1, <3>2 DEF RejectLost
  <2>2. TaskHandInv'
    BY <1>8 DEF RejectLost
  <2> QED
    BY <2>1, <2>2
<1>9. ASSUME NEW t \in Task, JobStart(t)
      PROVE  TypeInv' /\ TaskHandInv'
  <2>1. TypeInv'
    <3>1. task' \in [Task -> TaskRec] /\ job' \in [Task -> Job]
      BY <1>9, RowsGood, JobsGood DEF JobStart
    <3>2. began' \in [Task -> 0..MaxAge]
      BY <1>9 DEF JobStart
    <3> HIDE DEF TaskHandInv, Job, JobPC, Web, TaskRec, Status
    <3> QED
      BY <1>9, <3>1, <3>2 DEF JobStart
  <2>2. TaskHandInv'
    BY <1>9 DEF JobStart
  <2> QED
    BY <2>1, <2>2
<1>10. ASSUME NEW t \in Task, JobReport(t)
      PROVE  TypeInv' /\ TaskHandInv'
  <2>1. TypeInv'
    BY <1>10, RowsGood, JobsGood DEF JobReport
  <2>2. TaskHandInv'
    BY <1>10 DEF JobReport
  <2> QED
    BY <2>1, <2>2
<1>11. ASSUME NEW t \in Task, JobSuccess(t)
      PROVE  TypeInv' /\ TaskHandInv'
  <2>1. TypeInv'
    BY <1>11, RowsGood, JobsGood DEF JobSuccess
  <2>2. TaskHandInv'
    BY <1>11 DEF JobSuccess
  <2> QED
    BY <2>1, <2>2
<1>12. ASSUME NEW t \in Task, JobEnds(t)
      PROVE  TypeInv' /\ TaskHandInv'
  <2>1. TypeInv'
    <3>1. job' \in [Task -> Job]
      BY <1>12, JobsGood DEF JobEnds
    <3> HIDE DEF TaskHandInv, Job, JobPC, Web, TaskRec, Status, Fault
    <3> QED
      BY <1>12, <3>1 DEF JobEnds
  <2>2. TaskHandInv'
    BY <1>12 DEF JobEnds
  <2> QED
    BY <2>1, <2>2
<1>13. ASSUME NEW t \in Task, JobFails(t)
      PROVE  TypeInv' /\ TaskHandInv'
  <2>1. TypeInv'
    BY <1>13, RowsGood, JobsGood DEF JobFails
  <2>2. TaskHandInv'
    BY <1>13 DEF JobFails
  <2> QED
    BY <2>1, <2>2
<1>14. ASSUME NEW t \in Task, JobLeaves(t)
      PROVE  TypeInv' /\ TaskHandInv'
  <2>1. TypeInv'
    BY <1>14 DEF JobLeaves
  <2>2. TaskHandInv'
    BY <1>14 DEF JobLeaves
  <2> QED
    BY <2>1, <2>2
<1>15. ASSUME NEW t \in Task, JobSaveLost(t)
      PROVE  TypeInv' /\ TaskHandInv'
  <2>1. TypeInv'
    <3>1. job' \in [Task -> Job]
      BY <1>15, JobsGood DEF JobSaveLost
    <3>2. faults' \in 0..MaxFaults
      BY <1>15 DEF JobSaveLost
    <3> HIDE DEF TaskHandInv, Job, JobPC, Web, TaskRec, Status, Fault
    <3> QED
      BY <1>15, <3>1, <3>2 DEF JobSaveLost
  <2>2. TaskHandInv'
    BY <1>15 DEF JobSaveLost
  <2> QED
    BY <2>1, <2>2
<1>16. ASSUME NEW m \in Pollers, NEW t \in Task, PollRead(m, t)
      PROVE  TypeInv' /\ TaskHandInv'
  <2>1. TypeInv'
    <3>1. held' = [held EXCEPT ![m] = [@ EXCEPT ![t] = Opened(t)]]
      BY <1>16 DEF PollRead
    <3>2. Opened(t) \in Open \cup {"none"}
      BY DEF Opened
    <3> QED
      BY <1>16, <3>1, <3>2 DEF PollRead
  <2>2. TaskHandInv'
    BY <1>16 DEF PollRead
  <2> QED
    BY <2>1, <2>2
<1>17. CASE SweepRead
  <2>1. TypeInv'
    <3>1. [t \in Task |-> Opened(t)] \in [Task -> Open \cup {"none"}]
      BY DEF Opened
    <3> QED
      BY <1>17, <3>1 DEF SweepRead
  <2>2. TaskHandInv'
    BY <1>17 DEF SweepRead
  <2> QED
    BY <2>1, <2>2
<1>18. ASSUME NEW m \in Markers, NEW t \in Task, Judge(m, t)
      PROVE  TypeInv' /\ TaskHandInv'
  <2>1. TypeInv'
    BY <1>18, RowsGood DEF Judge
  <2>2. TaskHandInv'
    BY <1>18 DEF Judge
  <2> QED
    BY <2>1, <2>2
<1>19. CASE Tick
  <2>1. TypeInv'
    <3>1. \A t \in Task : task[t].age < MaxAge => task[t].age + 1 \in 0..MaxAge
      OBVIOUS
    <3>2. \A t \in Task : task[t].age < MaxAge =>
            [task[t] EXCEPT !.age = @ + 1] \in TaskRec
      BY <3>1, RowsGood
    <3> QED
      BY <1>19, <3>2 DEF Tick
  <2>2. TaskHandInv'
    BY <1>19 DEF Tick
  <2> QED
    BY <2>1, <2>2
<1>20. CASE UNCHANGED vars
  BY <1>20 DEF vars
<1> QED
  BY <1>1, <1>2, <1>3, <1>4, <1>5, <1>6, <1>7, <1>8, <1>9, <1>10,
     <1>11, <1>12, <1>13, <1>14, <1>15, <1>16, <1>17, <1>18, <1>19, <1>20
     DEF Next, RequestStep, JobStep, Sweep, Markers
-----------------------------------------------------------------------------
(* The results.  Types hold in every reachable state.                      *)

\* The types and the hands, throughout.
LEMMA HandsCorrect == Spec => [](TypeInv /\ TaskHandInv)
BY TypeInit, TypeNext, PTL DEF Spec

-----------------------------------------------------------------------------
(* A success has its report.  The report is stored before the success, no step     *)
(* takes it away, and only the job itself writes the success.                      *)

ReportInv ==
  \A t \in Task :
    job[t].pc \in {"reported", "recorded"} \/ task[t].st = "success" => task[t].report

\* Every step keeps the reports of the successes.
LEMMA ReportNext == TypeInv /\ TaskHandInv /\ ReportInv /\ [Next]_vars => ReportInv'
<1> SUFFICES ASSUME TypeInv, TaskHandInv, ReportInv, [Next]_vars PROVE ReportInv'
  OBVIOUS
<1> USE ConstantFacts
<1> USE DEF TypeInv, TaskHandInv, rows, pool, SetStatus, SetWeb, EndRequest, SetJob, Fault,
            Idle, NoJob, Web, Job, JobPC, TaskRec, Status, Open, ReportInv
<1>1. ASSUME NEW p \in Procs, NEW k \in Keys, Ask(p, k) PROVE ReportInv'
  BY <1>1 DEF Ask
<1>2. ASSUME NEW p \in Procs, Create(p) PROVE ReportInv'
  BY <1>2 DEF Create
<1>3. ASSUME NEW p \in Procs, AcquireSlot(p) PROVE ReportInv'
  BY <1>3 DEF AcquireSlot
<1>4. ASSUME NEW p \in Procs, Submit(p) PROVE ReportInv'
  BY <1>4 DEF Submit
<1>5. ASSUME NEW p \in Procs, SubmitRaises(p) PROVE ReportInv'
  BY <1>5 DEF SubmitRaises
<1>6. ASSUME NEW p \in Procs, Reject(p) PROVE ReportInv'
  BY <1>6 DEF Reject
<1>7. ASSUME NEW p \in Procs, Restart(p) PROVE ReportInv'
  BY <1>7 DEF Restart
<1>8. ASSUME NEW p \in Procs, RejectLost(p) PROVE ReportInv'
  BY <1>8 DEF RejectLost
<1>9. ASSUME NEW t \in Task, JobStart(t) PROVE ReportInv'
  BY <1>9 DEF JobStart
<1>10. ASSUME NEW t \in Task, JobReport(t) PROVE ReportInv'
  BY <1>10 DEF JobReport
<1>11. ASSUME NEW t \in Task, JobSuccess(t) PROVE ReportInv'
  BY <1>11 DEF JobSuccess
<1>12. ASSUME NEW t \in Task, JobEnds(t) PROVE ReportInv'
  BY <1>12 DEF JobEnds
<1>13. ASSUME NEW t \in Task, JobFails(t) PROVE ReportInv'
  BY <1>13 DEF JobFails
<1>14. ASSUME NEW t \in Task, JobLeaves(t) PROVE ReportInv'
  BY <1>14 DEF JobLeaves
<1>15. ASSUME NEW t \in Task, JobSaveLost(t) PROVE ReportInv'
  BY <1>15 DEF JobSaveLost
<1>16. ASSUME NEW m \in Pollers, NEW t \in Task, PollRead(m, t) PROVE ReportInv'
  BY <1>16 DEF PollRead
<1>17. CASE SweepRead
  BY <1>17 DEF SweepRead
<1>18. ASSUME NEW m \in Markers, NEW t \in Task, Judge(m, t) PROVE ReportInv'
  BY <1>18 DEF Judge
<1>19. CASE Tick
  BY <1>19 DEF Tick
<1>20. CASE UNCHANGED vars
  BY <1>20 DEF vars
<1> QED
  BY <1>1, <1>2, <1>3, <1>4, <1>5, <1>6, <1>7, <1>8, <1>9, <1>10,
     <1>11, <1>12, <1>13, <1>14, <1>15, <1>16, <1>17, <1>18, <1>19, <1>20
     DEF Next, RequestStep, JobStep, Sweep, Markers

\* A task that is shown as a success has its report (diagnosis.py:760), whatever the
\* markers, the restarts and the lost saves did to its row in between.
THEOREM SuccessesHaveReports == Spec => []SuccessHasReport
<1>1. Init => ReportInv
  BY DEF Init, ReportInv, NewTask, NoJob
<1>2. ReportInv => SuccessHasReport
  BY DEF ReportInv, SuccessHasReport
<1> QED
  BY <1>1, <1>2, HandsCorrect, ReportNext, PTL DEF Spec

-----------------------------------------------------------------------------
(* An open task is in somebody's hands.                                            *)

\* Every step keeps open tasks with a request or a job, or is a fault.
LEMMA ServedNext == TypeInv /\ TaskHandInv /\ OpenIsServed /\ [Next]_vars => OpenIsServed'
<1> SUFFICES ASSUME TypeInv, TaskHandInv, OpenIsServed, [Next]_vars PROVE OpenIsServed'
  OBVIOUS
<1> USE ConstantFacts, DiagnosisAssumption
<1> USE DEF TypeInv, TaskHandInv, rows, pool, SetStatus, SetWeb, EndRequest, SetJob, Fault,
            Idle, NoJob, Web, Job, JobPC, TaskRec, Status, Open, OpenIsServed
<1>1. ASSUME NEW p \in Procs, NEW k \in Keys, Ask(p, k) PROVE OpenIsServed'
  <2>1. task' = task /\ job' = job /\ faults' = faults
    BY <1>1 DEF Ask
  <2>2. web[p].tid \notin Task
    BY <1>1 DEF Ask
  <2>3. \A q \in Procs : q # p => web'[q] = web[q]
    BY <1>1 DEF Ask
  <2> HIDE DEF TypeInv, TaskHandInv, Job, JobPC, Web, TaskRec, Status
  <2> QED
    BY <2>1, <2>2, <2>3
<1>2. ASSUME NEW p \in Procs, Create(p) PROVE OpenIsServed'
  <2>1. PICK t \in Task :
          /\ task' = [task EXCEPT ![t].st = "pending", ![t].key = web[p].key]
          /\ web' = [web EXCEPT ![p].pc = "acquire", ![p].tid = t]
          /\ job' = job /\ faults' = faults
    BY <1>2, TaskCreated
  <2>2. web'[p].tid = t /\ \A s \in Task \ {t} : task'[s] = task[s]
    BY <2>1
  <2>3. \A q \in Procs : q # p => web'[q] = web[q]
    BY <2>1
  <2>4. web[p].tid \notin Task
    BY <1>2 DEF Create
  <2>5. job' = job /\ faults' = faults
    BY <2>1
  <2> HIDE DEF TypeInv, TaskHandInv, Job, JobPC, Web, TaskRec, Status
  <2> SUFFICES ASSUME NEW s \in Task, task'[s].st \in Open, faults = 0
               PROVE  \/ job[s].pc \in {"queued", "running", "reported"}
                      \/ \E q \in Procs : web'[q].tid = s
    BY <2>5
  <2>6. CASE s = t
    BY <2>2, <2>6
  <2>7. CASE s # t
    BY <2>2, <2>3, <2>4, <2>7
  <2> QED
    BY <2>6, <2>7
<1>3. ASSUME NEW p \in Procs, AcquireSlot(p) PROVE OpenIsServed'
  <2> HIDE DEF TypeInv, TaskHandInv, Job, Web, TaskRec, Status
  <2>1. slots \in [Procs -> Nat]
    BY DEF TypeInv
  <2>2. \E pc \in {"submit", "reject"} : web' = [web EXCEPT ![p].pc = pc]
    BY <1>3, <2>1, SlotAsked
  <2> USE DEF TypeInv, TaskHandInv, Job, Web, TaskRec, Status
  <2> QED
    BY <1>3, <2>2 DEF AcquireSlot
<1>4. ASSUME NEW p \in Procs, Submit(p) PROVE OpenIsServed'
  BY <1>4 DEF Submit
<1>5. ASSUME NEW p \in Procs, SubmitRaises(p) PROVE OpenIsServed'
  BY <1>5 DEF SubmitRaises
<1>6. ASSUME NEW p \in Procs, Reject(p) PROVE OpenIsServed'
  BY <1>6 DEF Reject
<1>7. ASSUME NEW p \in Procs, Restart(p) PROVE OpenIsServed'
  BY <1>7 DEF Restart
<1>8. ASSUME NEW p \in Procs, RejectLost(p) PROVE OpenIsServed'
  BY <1>8 DEF RejectLost
<1>9. ASSUME NEW t \in Task, JobStart(t) PROVE OpenIsServed'
  BY <1>9 DEF JobStart
<1>10. ASSUME NEW t \in Task, JobReport(t) PROVE OpenIsServed'
  BY <1>10 DEF JobReport
<1>11. ASSUME NEW t \in Task, JobSuccess(t) PROVE OpenIsServed'
  BY <1>11 DEF JobSuccess
<1>12. ASSUME NEW t \in Task, JobEnds(t) PROVE OpenIsServed'
  BY <1>12 DEF JobEnds
<1>13. ASSUME NEW t \in Task, JobFails(t) PROVE OpenIsServed'
  BY <1>13 DEF JobFails
<1>14. ASSUME NEW t \in Task, JobLeaves(t) PROVE OpenIsServed'
  BY <1>14 DEF JobLeaves
<1>15. ASSUME NEW t \in Task, JobSaveLost(t) PROVE OpenIsServed'
  BY <1>15 DEF JobSaveLost
<1>16. ASSUME NEW m \in Pollers, NEW t \in Task, PollRead(m, t) PROVE OpenIsServed'
  BY <1>16 DEF PollRead
<1>17. CASE SweepRead
  BY <1>17 DEF SweepRead
<1>18. ASSUME NEW m \in Markers, NEW t \in Task, Judge(m, t) PROVE OpenIsServed'
  BY <1>18 DEF Judge
<1>19. CASE Tick
  BY <1>19 DEF Tick
<1>20. CASE UNCHANGED vars
  BY <1>20 DEF vars
<1> QED
  BY <1>1, <1>2, <1>3, <1>4, <1>5, <1>6, <1>7, <1>8, <1>9, <1>10,
     <1>11, <1>12, <1>13, <1>14, <1>15, <1>16, <1>17, <1>18, <1>19, <1>20
     DEF Next, RequestStep, JobStep, Sweep, Markers

\* As long as nothing failed, every open task is held by a request or a job
\* that will end it: no path through the request or the job forgets one.
THEOREM OpenTasksAreServed == Spec => []OpenIsServed
<1>1. Init => OpenIsServed
  BY DEF Init, OpenIsServed, NewTask, Open
<1> QED
  BY <1>1, HandsCorrect, ServedNext, PTL DEF Spec

-----------------------------------------------------------------------------
(* The slots.                                                                      *)

JobsOf(p) == {t \in Task : job[t].proc = p}
Submitting(p) == IF web[p].pc = "submit" THEN 1 ELSE 0

\* There are finitely many jobs, and their number goes up and down by one with the
\* job that comes or goes.
LEMMA JobsCounted ==
  ASSUME NEW S \in SUBSET Task
  PROVE  /\ IsFiniteSet(S)
         /\ Cardinality(S) \in Nat
         /\ \A t \in Task \ S : Cardinality(S \cup {t}) = Cardinality(S) + 1
         /\ \A t \in S : Cardinality(S \ {t}) = Cardinality(S) - 1
<1>1. IsFiniteSet(Task)
  BY DiagnosisAssumption, FS_Interval DEF Task
<1>2. IsFiniteSet(S)
  BY <1>1, FS_Subset
<1>3. Cardinality(S) \in Nat
  BY <1>2, FS_CardinalityType
<1>4. \A t \in Task \ S : Cardinality(S \cup {t}) = Cardinality(S) + 1
  BY <1>2, FS_AddElement
<1>5. \A t \in S : Cardinality(S \ {t}) = Cardinality(S) - 1
  BY <1>2, FS_RemoveElement
<1> QED
  BY <1>2, <1>3, <1>4, <1>5

\* Every step that takes a slot moves it to a request, from there to a job, and from
\* either back.
LEMMA SlotsNext == TypeInv /\ TaskHandInv /\ SlotsConserved /\ [Next]_vars => SlotsConserved'
<1> SUFFICES ASSUME TypeInv, TaskHandInv, SlotsConserved, [Next]_vars,
                    NEW q \in Procs
             PROVE  slots'[q] + Submitting(q)' + Cardinality(JobsOf(q)') = Slots
  BY DEF SlotsConserved, JobsOf, Submitting
<1>0. /\ slots[q] + Submitting(q) + Cardinality(JobsOf(q)) = Slots
      /\ slots[q] \in Nat /\ Cardinality(JobsOf(q)) \in Nat /\ Slots \in Nat
      /\ JobsOf(q) \in SUBSET Task /\ Submitting(q) \in {0, 1}
  BY JobsCounted, DiagnosisAssumption DEF SlotsConserved, JobsOf, Submitting, TypeInv
<1> USE <1>0, ConstantFacts, DiagnosisAssumption
<1> USE DEF TypeInv, TaskHandInv, rows, pool, SetStatus, SetWeb, EndRequest, SetJob, Fault,
            Idle, NoJob, Web, Job, JobPC, TaskRec, Status, Open
<1>1. ASSUME NEW p \in Procs, NEW k \in Keys, Ask(p, k)
      PROVE  slots'[q] + Submitting(q)' + Cardinality(JobsOf(q)') = Slots
  <2>1. JobsOf(q)' = JobsOf(q)
    BY <1>1 DEF Ask, JobsOf
  <2> QED
    BY <1>1, <2>1 DEF Ask, Submitting
<1>2. ASSUME NEW p \in Procs, Create(p)
      PROVE  slots'[q] + Submitting(q)' + Cardinality(JobsOf(q)') = Slots
  <2>1. JobsOf(q)' = JobsOf(q)
    BY <1>2 DEF Create, JobsOf
  <2> QED
    BY <1>2, <2>1 DEF Create, Submitting
<1>3. ASSUME NEW p \in Procs, AcquireSlot(p)
      PROVE  slots'[q] + Submitting(q)' + Cardinality(JobsOf(q)') = Slots
  <2>1. JobsOf(q)' = JobsOf(q)
    BY <1>3 DEF AcquireSlot, JobsOf
  <2>2. CASE slots[p] > 0 /\ q = p
    <3>1. slots'[q] = slots[q] - 1 /\ Submitting(q)' = 1 /\ Submitting(q) = 0
      BY <1>3, <2>2 DEF AcquireSlot, Submitting
    <3> QED
      BY <2>1, <3>1
  <2>3. CASE ~ (slots[p] > 0) \/ q # p
    <3>1. slots'[q] = slots[q] /\ Submitting(q)' = Submitting(q)
      BY <1>3, <2>3 DEF AcquireSlot, Submitting
    <3> QED
      BY <2>1, <3>1
  <2> QED
    BY <2>2, <2>3
<1>4. ASSUME NEW p \in Procs, Submit(p)
      PROVE  slots'[q] + Submitting(q)' + Cardinality(JobsOf(q)') = Slots
  <2>1. CASE q = p
    <3>1. JobsOf(q)' = JobsOf(q) \cup {web[p].tid} /\ web[p].tid \in Task \ JobsOf(q)
      BY <1>4, <2>1 DEF Submit, JobsOf
    <3>2. \A t \in Task \ JobsOf(q) :
            Cardinality(JobsOf(q) \cup {t}) = Cardinality(JobsOf(q)) + 1
      BY JobsCounted
    <3>3. Cardinality(JobsOf(q)') = Cardinality(JobsOf(q)) + 1
      BY <3>1, <3>2
    <3>4. slots'[q] = slots[q] /\ Submitting(q) = 1 /\ Submitting(q)' = 0
      BY <1>4, <2>1 DEF Submit, Submitting
    <3> QED
      BY <3>3, <3>4
  <2>2. CASE q # p
    <3>1. JobsOf(q)' = JobsOf(q)
      BY <1>4, <2>2 DEF Submit, JobsOf
    <3> QED
      BY <1>4, <2>2, <3>1 DEF Submit, Submitting
  <2> QED
    BY <2>1, <2>2
<1>5. ASSUME NEW p \in Procs, SubmitRaises(p)
      PROVE  slots'[q] + Submitting(q)' + Cardinality(JobsOf(q)') = Slots
  <2>1. JobsOf(q)' = JobsOf(q)
    BY <1>5 DEF SubmitRaises, JobsOf
  <2> QED
    BY <1>5, <2>1 DEF SubmitRaises, Submitting
<1>6. ASSUME NEW p \in Procs, Reject(p)
      PROVE  slots'[q] + Submitting(q)' + Cardinality(JobsOf(q)') = Slots
  <2>1. JobsOf(q)' = JobsOf(q)
    BY <1>6 DEF Reject, JobsOf
  <2> QED
    BY <1>6, <2>1 DEF Reject, Submitting
<1>7. ASSUME NEW p \in Procs, Restart(p)
      PROVE  slots'[q] + Submitting(q)' + Cardinality(JobsOf(q)') = Slots
  <2>1. CASE q = p
    <3>1. JobsOf(q)' = {}
      BY <1>7, <2>1 DEF Restart, JobsOf
    <3> QED
      BY <1>7, <2>1, <3>1, FS_EmptySet DEF Restart, Submitting
  <2>2. CASE q # p
    <3>1. JobsOf(q)' = JobsOf(q)
      BY <1>7, <2>2 DEF Restart, JobsOf
    <3> QED
      BY <1>7, <2>2, <3>1 DEF Restart, Submitting
  <2> QED
    BY <2>1, <2>2
<1>8. ASSUME NEW p \in Procs, RejectLost(p)
      PROVE  slots'[q] + Submitting(q)' + Cardinality(JobsOf(q)') = Slots
  <2>1. JobsOf(q)' = JobsOf(q)
    BY <1>8 DEF RejectLost, JobsOf
  <2> QED
    BY <1>8, <2>1 DEF RejectLost, Submitting
<1>9. ASSUME NEW t \in Task, JobStart(t)
      PROVE  slots'[q] + Submitting(q)' + Cardinality(JobsOf(q)') = Slots
  <2>1. JobsOf(q)' = JobsOf(q)
    BY <1>9 DEF JobStart, JobsOf
  <2> QED
    BY <1>9, <2>1 DEF JobStart, Submitting
<1>10. ASSUME NEW t \in Task, JobReport(t)
      PROVE  slots'[q] + Submitting(q)' + Cardinality(JobsOf(q)') = Slots
  <2>1. JobsOf(q)' = JobsOf(q)
    BY <1>10 DEF JobReport, JobsOf
  <2> QED
    BY <1>10, <2>1 DEF JobReport, Submitting
<1>11. ASSUME NEW t \in Task, JobSuccess(t)
      PROVE  slots'[q] + Submitting(q)' + Cardinality(JobsOf(q)') = Slots
  <2>1. JobsOf(q)' = JobsOf(q)
    BY <1>11 DEF JobSuccess, JobsOf
  <2> QED
    BY <1>11, <2>1 DEF JobSuccess, Submitting
<1>12. ASSUME NEW t \in Task, JobEnds(t)
      PROVE  slots'[q] + Submitting(q)' + Cardinality(JobsOf(q)') = Slots
  <2>1. JobsOf(q)' = JobsOf(q)
    BY <1>12 DEF JobEnds, JobsOf
  <2> QED
    BY <1>12, <2>1 DEF JobEnds, Submitting
<1>13. ASSUME NEW t \in Task, JobFails(t)
      PROVE  slots'[q] + Submitting(q)' + Cardinality(JobsOf(q)') = Slots
  <2>1. JobsOf(q)' = JobsOf(q)
    BY <1>13 DEF JobFails, JobsOf
  <2> QED
    BY <1>13, <2>1 DEF JobFails, Submitting
<1>14. ASSUME NEW t \in Task, JobLeaves(t)
      PROVE  slots'[q] + Submitting(q)' + Cardinality(JobsOf(q)') = Slots
  <2>1. CASE q = job[t].proc
    <3>1. JobsOf(q)' = JobsOf(q) \ {t} /\ t \in JobsOf(q)
      BY <1>14, <2>1 DEF JobLeaves, JobsOf
    <3>2. Cardinality(JobsOf(q)') = Cardinality(JobsOf(q)) - 1
      BY <3>1, JobsCounted
    <3>3. slots'[q] = slots[q] + 1 /\ Submitting(q)' = Submitting(q)
      BY <1>14, <2>1 DEF JobLeaves, Submitting
    <3> HIDE DEF TypeInv, TaskHandInv, Job, JobPC, Web, TaskRec, Status
    <3> QED
      BY <3>2, <3>3
  <2>2. CASE q # job[t].proc
    <3>1. JobsOf(q)' = JobsOf(q)
      BY <1>14, <2>2 DEF JobLeaves, JobsOf
    <3> QED
      BY <1>14, <2>2, <3>1 DEF JobLeaves, Submitting
  <2> QED
    BY <2>1, <2>2
<1>15. ASSUME NEW t \in Task, JobSaveLost(t)
      PROVE  slots'[q] + Submitting(q)' + Cardinality(JobsOf(q)') = Slots
  <2>1. JobsOf(q)' = JobsOf(q)
    BY <1>15 DEF JobSaveLost, JobsOf
  <2> QED
    BY <1>15, <2>1 DEF JobSaveLost, Submitting
<1>16. ASSUME NEW m \in Pollers, NEW t \in Task, PollRead(m, t)
      PROVE  slots'[q] + Submitting(q)' + Cardinality(JobsOf(q)') = Slots
  <2>1. JobsOf(q)' = JobsOf(q)
    BY <1>16 DEF PollRead, JobsOf
  <2> QED
    BY <1>16, <2>1 DEF PollRead, Submitting
<1>17. CASE SweepRead
  <2>1. JobsOf(q)' = JobsOf(q)
    BY <1>17 DEF SweepRead, JobsOf
  <2> QED
    BY <1>17, <2>1 DEF SweepRead, Submitting
<1>18. ASSUME NEW m \in Markers, NEW t \in Task, Judge(m, t)
      PROVE  slots'[q] + Submitting(q)' + Cardinality(JobsOf(q)') = Slots
  <2>1. JobsOf(q)' = JobsOf(q)
    BY <1>18 DEF Judge, JobsOf
  <2> QED
    BY <1>18, <2>1 DEF Judge, Submitting
<1>19. CASE Tick
  <2>1. JobsOf(q)' = JobsOf(q)
    BY <1>19 DEF Tick, JobsOf
  <2> QED
    BY <1>19, <2>1 DEF Tick, Submitting
<1>20. CASE UNCHANGED vars
  BY <1>20 DEF vars, JobsOf, Submitting
<1> QED
  BY <1>1, <1>2, <1>3, <1>4, <1>5, <1>6, <1>7, <1>8, <1>9, <1>10,
     <1>11, <1>12, <1>13, <1>14, <1>15, <1>16, <1>17, <1>18, <1>19, <1>20
     DEF Next, RequestStep, JobStep, Sweep, Markers

\* No slot of a pool is lost or given back twice, on any path out of a request or a job.
THEOREM SlotsAreConserved == Spec => []SlotsConserved
<1>1. Init => SlotsConserved
  <2>1. ASSUME Init, NEW p \in Procs PROVE {t \in Task : job[t].proc = p} = {}
    BY <2>1, DiagnosisAssumption DEF Init, NoJob
  <2>2. ASSUME Init, NEW p \in Procs
        PROVE  slots[p] = Slots /\ web[p].pc # "submit"
    BY <2>2 DEF Init, Idle
  <2>3. ASSUME Init, NEW p \in Procs
        PROVE  Slots + 0 + Cardinality({t \in Task : job[t].proc = p}) = Slots
    BY <2>1, <2>3, FS_EmptySet, DiagnosisAssumption
  <2> QED
    BY <2>2, <2>3 DEF SlotsConserved
<1> QED
  BY <1>1, HandsCorrect, SlotsNext, PTL DEF Spec

\* Every reachable state has its types; that no semaphore exceeds its bound comes from
\* the conservation of the slots.
THEOREM DiagnosisTypes == Spec => []TypeOK
<1>1. TypeInv /\ SlotsConserved => TypeOK
  <2> SUFFICES ASSUME TypeInv, SlotsConserved, NEW p \in Procs
               PROVE  slots[p] \in 0..Slots
    BY DEF TypeInv, TypeOK
  <2>1. Cardinality({t \in Task : job[t].proc = p}) \in Nat
    BY JobsCounted
  <2> QED
    BY <2>1, DiagnosisAssumption DEF TypeInv, SlotsConserved
<1> QED
  BY <1>1, HandsCorrect, SlotsAreConserved, PTL

-----------------------------------------------------------------------------
(* The types of the optimisation.  What a run may have cost needs its      *)
(* rounds; that no more slots are free than there are needs who has one.   *)

\* What a run has cost by its rounds.
Bounded(u) ==
  /\ u.rounds \in 0..AgentRounds
  /\ u.client.last_usage <= u.client.total_usage
  /\ u.client.total_usage <= AgentRounds + 1 /\ u.booked <= AgentRounds + 1
  /\ u.pc \in {"queued", "client"} => u.rounds = 0
  /\ u.pc = "calling" => u.client.total_usage <= u.rounds /\ u.rounds < AgentRounds
  /\ u.pc = "forced" => u.client.total_usage <= AgentRounds

RoundsInv == \A x \in Runners : Bounded(run[x])

\* Rows, requests and the cache have to do with texts, models and tasks that there are.
GoodAsk(row) ==
  /\ row.pc # "idle" => row.text \in Texts /\ row.model \in Models
  /\ row.pc \in {"mark", "slot", "submit"} => row.task \in AdviceTask /\ advice[row.task].status # "absent"

AdviceRows ==
  /\ switches \in 0..MaxSwitches
  /\ ask \in [Asks -> AskRec]
  /\ \A r \in Asks : GoodAsk(ask[r])
  /\ \A t \in AdviceTask : advice[t].status # "absent" => advice[t].text \in Texts
  /\ DOMAIN reports \subseteq Key /\ \A key \in DOMAIN reports : reports[key] \in Report
  /\ copy \in [AdviceTask -> BOOLEAN] /\ \A t \in AdviceTask : copy[t] => advice[t].status # "absent"
  /\ asked \in 0..MaxAsked /\ crashes \in 0..MaxCrashes

\* A task that a request has made and not submitted has not run, and is no other request's.
Holding == {r \in Asks : ask[r].pc \in {"slot", "submit"}}

HeldInv ==
  /\ \A r \in Holding : run[ask[r].task].pc = "off"
  /\ \A q, r \in Holding : ask[q].task = ask[r].task => q = r

\* A slot is free, or has been taken for a task that is yet to be submitted or is in the pool.
Submitters == {r \in Asks : ask[r].pc = "submit"}

SlotInv ==
  /\ oslots \in Nat /\ IsFiniteSet(Submitters)
  /\ oslots + Cardinality(Submitters) + Cardinality(InPool) = OptimizeSlots

-----------------------------------------------------------------------------
(* Rounds.                                                                 *)

\* A run that is off, as it is made for a request or a task.
LEMMA NewRunBounded ==
  ASSUME NEW m \in Models, NEW pc \in {"off", "queued", "client"}
  PROVE  Bounded([NoRun(m) EXCEPT !.pc = pc])
BY OptimisationAssumption DEF Bounded, NoRun, OpenaiClient

\* A run that only goes on to another place is bounded, unless it begins to call.
LEMMA MovedRunBounded ==
  ASSUME run \in RunRows, NEW x \in Runners, Bounded(run[x]), NEW pc \in AgentPC, SetRun(x, pc),
         pc \in {"queued", "client"} => run[x].pc \in {"queued", "client"},
         pc \notin {"calling", "forced"}
  PROVE  Bounded(run'[x]) /\ \A y \in Runners \ {x} : run'[y] = run[y]
<1>1. run'[x] = [run[x] EXCEPT !.pc = pc] /\ \A y \in Runners \ {x} : run'[y] = run[y]
  BY DEF SetRun, RunRows
<1> QED
  BY <1>1 DEF Bounded, RunRows

\* What is booked is no more than the total.
LEMMA BookedRunBounded ==
  ASSUME run \in RunRows, NEW x \in Runners, Bounded(run[x]), run[x].booked = 0, NEW pc \in AgentPC,
         record_ai_usage(x, pc), pc \notin {"queued", "client", "calling", "forced"}
  PROVE  Bounded(run'[x]) /\ \A y \in Runners \ {x} : run'[y] = run[y]
<1>0. PICK refused \in BOOLEAN :
        run' = [run EXCEPT ![x].pc = pc, ![x].refused = refused,
                           ![x].booked = IF refused THEN @ ELSE @ + Usage(x)]
  BY DEF record_ai_usage
<1> DEFINE all == IF refused THEN run[x].booked ELSE run[x].booked + Usage(x)
<1>1. run' = [run EXCEPT ![x].pc = pc, ![x].refused = refused, ![x].booked = all]
  BY <1>0 DEF RunRows
<1>2. all \in Nat /\ all <= AgentRounds + 1
  BY OptimisationAssumption DEF Usage, RunRows, Bounded
<1> HIDE DEF all
<1>3. run'[x] = [run[x] EXCEPT !.pc = pc, !.refused = refused, !.booked = all] /\ \A y \in Runners \ {x} : run'[y] = run[y]
  BY <1>1 DEF RunRows
<1> QED
  BY <1>2, <1>3 DEF Bounded, RunRows

\* A step of a run.
LEMMA RunStepBounded ==
  ASSUME ShapeInv, NEW x \in Runners, Bounded(run[x]), RunStep(x)
  PROVE  Bounded(run'[x]) /\ \A y \in Runners \ {x} : run'[y] = run[y]
<1> DEFINE now == create_chat_completion(run[x].client)
<1>0. run \in RunRows /\ chat_model \in Models
  BY DEF ShapeInv
<1>1. /\ now \in [model : Models, last_usage : Nat, total_usage : Nat]
      /\ now.last_usage = 1 /\ now.total_usage = run[x].client.total_usage + 1
  BY <1>0, CallCosts
<1>2. run[x].client.total_usage \in Nat /\ AgentRounds \in Nat \ {0} /\ run[x].rounds \in Nat
  BY <1>0, OptimisationAssumption DEF RunRows
<1>3. \A y \in Runners \ {x} : run'[y] = run[y]
  BY RunStepGoesOn
<1>4. CASE MakeClient(x)
  <2> DEFINE made == OpenaiClient(chat_model)
  <2>1. run' = [run EXCEPT ![x].pc = "calling", ![x].client = made] /\ run[x].pc = "client"
    BY <1>4 DEF MakeClient
  <2>2. made.last_usage = 0 /\ made.total_usage = 0
    BY DEF OpenaiClient
  <2> HIDE DEF made
  <2>3. run'[x] = [run[x] EXCEPT !.pc = "calling", !.client = made]
    BY <1>0, <2>1 DEF RunRows
  <2> QED
    BY <1>0, <1>2, <1>3, <2>1, <2>2, <2>3 DEF RunRows, Bounded
<1>5. CASE Call(x)
  <2>1. run' = [run EXCEPT ![x].pc = "answered", ![x].client = now] /\ run[x].pc = "calling"
    BY <1>5 DEF Call
  <2> HIDE DEF now
  <2>2. run'[x] = [run[x] EXCEPT !.pc = "answered", !.client = now]
    BY <1>0, <2>1 DEF RunRows
  <2> QED
    BY <1>0, <1>1, <1>2, <1>3, <2>1, <2>2 DEF RunRows, Bounded
<1>6. CASE Round(x)
  <2>1. PICK next \in {"answered", "calling", "forced"} :
          run' = [run EXCEPT ![x].pc = IF next = "calling" /\ run[x].rounds + 1 = AgentRounds
                                       THEN "forced" ELSE next,
                             ![x].rounds = IF next = "calling" THEN @ + 1 ELSE @,
                             ![x].client = now]
    BY <1>6 DEF Round
  <2>2. run[x].pc = "calling"
    BY <1>6 DEF Round
  <2> DEFINE pc == IF next = "calling" /\ run[x].rounds + 1 = AgentRounds THEN "forced" ELSE next
             rounds == IF next = "calling" THEN run[x].rounds + 1 ELSE run[x].rounds
  <2>3. run' = [run EXCEPT ![x].pc = pc, ![x].rounds = rounds, ![x].client = now]
    BY <1>0, <2>1 DEF RunRows
  <2>4. /\ pc \in {"answered", "calling", "forced"} /\ rounds \in 0..AgentRounds
        /\ pc = "calling" => rounds = run[x].rounds + 1 /\ rounds < AgentRounds
    BY <1>2, <2>2 DEF Bounded
  <2> HIDE DEF now, pc, rounds
  <2>5. run'[x] = [run[x] EXCEPT !.pc = pc, !.rounds = rounds, !.client = now]
    BY <1>0, <2>3 DEF RunRows
  <2>6. /\ run'[x].pc = pc /\ run'[x].rounds = rounds /\ run'[x].client = now /\ run'[x].booked = run[x].booked
    BY <1>0, <2>5 DEF RunRows
  <2> QED
    BY <1>1, <1>2, <1>3, <2>2, <2>4, <2>6 DEF Bounded
<1>7. CASE ForcedCall(x)
  <2>1. run' = [run EXCEPT ![x].pc = "answered", ![x].client = now] /\ run[x].pc = "forced"
    BY <1>7 DEF ForcedCall
  <2> HIDE DEF now
  <2>2. run'[x] = [run[x] EXCEPT !.pc = "answered", !.client = now]
    BY <1>0, <2>1 DEF RunRows
  <2> QED
    BY <1>0, <1>1, <1>2, <1>3, <2>1, <2>2 DEF RunRows, Bounded
<1>8. CASE RunFails(x)
  <2>1. SetRun(x, "failed")
    BY <1>8 DEF RunFails
  <2> QED
    BY <1>0, <2>1, MovedRunBounded DEF AgentPC
<1> QED
  BY <1>4, <1>5, <1>6, <1>7, <1>8 DEF RunStep

\* Every step keeps what runs may have cost.
LEMMA RoundsNext == AdviceInv /\ RoundsInv /\ [OptimisationNext]_optimisationVars => RoundsInv'
<1> SUFFICES ASSUME AdviceInv, RoundsInv, [OptimisationNext]_optimisationVars PROVE RoundsInv'
  OBVIOUS
<1>1. run \in RunRows /\ chat_model \in Models
  BY DEF AdviceInv, ShapeInv
<1>2. ASSUME run' = run PROVE RoundsInv'
  BY <1>2 DEF RoundsInv
<1>3. ASSUME NEW x \in Runners, Bounded(run'[x]), \A y \in Runners \ {x} : run'[y] = run[y]
      PROVE  RoundsInv'
  BY <1>3 DEF RoundsInv
<1>4. ASSUME NEW x \in Runners, NEW pc \in {"queued", "client"},
             run' = [run EXCEPT ![x] = [NoRun(chat_model) EXCEPT !.pc = pc]]
      PROVE  RoundsInv'
  <2>1. Bounded([NoRun(chat_model) EXCEPT !.pc = pc])
    BY <1>1, NewRunBounded
  <2> QED
    BY <1>1, <1>3, <1>4, <2>1 DEF RunRows
<1>5. ASSUME NEW x \in Runners, NEW pc \in AgentPC, SetRun(x, pc),
             pc \in {"queued", "client"} => run[x].pc \in {"queued", "client"}, pc \notin {"calling", "forced"}
      PROVE  RoundsInv'
  BY <1>1, <1>3, <1>5, MovedRunBounded DEF RoundsInv
<1>6. ASSUME NEW x \in Runners, NEW pc \in AgentPC, record_ai_usage(x, pc), run[x].pc \in NotYetBooked(x),
             pc \notin {"queued", "client", "calling", "forced"}
      PROVE  RoundsInv'
  <2>1. run[x].booked = 0
    BY <1>6 DEF AdviceInv, CostInv, CostOf
  <2> QED
    BY <1>1, <1>3, <1>6, <2>1, BookedRunBounded DEF RoundsInv
<1>7. CASE \E x \in Asks \cup AdviceTask : RunStep(x)
  BY <1>3, <1>7, RunStepBounded DEF Runners, RoundsInv, AdviceInv
<1>8. ASSUME NEW r \in Asks, AskStep(r) PROVE RoundsInv'
  <2>0. r \in Runners
    BY DEF Runners
  <2>1. CASE OptimizeAIView(r)
    BY <1>4, <2>0, <2>1 DEF OptimizeAIView
  <2>2. CASE Book(r)
    BY <1>6, <2>0, <2>2 DEF Book, NotYetBooked, AgentPC
  <2>3. CASE StoreReport(r)
    BY <1>5, <2>0, <2>3 DEF StoreReport, AgentPC
  <2>4. CASE AdviceFails(r)
    BY <1>6, <2>0, <2>4 DEF AdviceFails, NotYetBooked, AgentPC
  <2>5. CASE SubmitTask(r)
    <3>1. ask[r].task \in Runners
      BY <2>5 DEF SubmitTask, AdviceInv, HandInv, Runners
    <3> QED
      BY <1>4, <2>5, <3>1 DEF SubmitTask
  <2>6. CASE \/ SubmitView(r) \/ Deduplicate(r) \/ MarkOld(r) \/ CreateAdvice(r) \/ TakeSlot(r) \/ SubmitFails(r)
    BY <1>2, <2>6 DEF SubmitView, Deduplicate, MarkOld, CreateAdvice, TakeSlot, SubmitFails
  <2> QED
    BY <1>8, <2>1, <2>2, <2>3, <2>4, <2>5, <2>6 DEF AskStep
<1>9. ASSUME NEW t \in AdviceTask, TaskStep(t) PROVE RoundsInv'
  <2>0. t \in Runners /\ t \notin Asks
    BY AsksAreNoTasks DEF Runners
  <2>1. CASE StartTask(t)
    BY <1>5, <2>0, <2>1 DEF StartTask, AgentPC
  <2>2. CASE SaveAdvice(t)
    BY <1>5, <2>0, <2>2 DEF SaveAdvice, AgentPC
  <2>3. CASE CacheAdvice(t)
    BY <1>5, <2>0, <2>3 DEF CacheAdvice, AgentPC
  <2>4. CASE BookAdvice(t)
    BY <1>6, <2>0, <2>4 DEF BookAdvice, NotYetBooked, AgentPC
  <2>5. CASE TaskFails(t)
    BY <1>5, <2>0, <2>5 DEF TaskFails, AgentPC
  <2>6. CASE LeavePool(t)
    BY <1>5, <2>0, <2>6 DEF LeavePool, AgentPC
  <2>7. CASE GrowOld(t) \/ StatusView(t) \/ StatusViewMarks(t)
    BY <1>2, <2>7 DEF GrowOld, StatusView, StatusViewMarks
  <2> QED
    BY <1>9, <2>1, <2>2, <2>3, <2>4, <2>5, <2>6, <2>7 DEF TaskStep
<1>10. CASE Crash
  <2> SUFFICES ASSUME NEW x \in Runners PROVE Bounded(run'[x])
    BY DEF RoundsInv
  <2>1. run'[x] = IF run[x].pc \in {"off", "over"} THEN run[x] ELSE [run[x] EXCEPT !.pc = "lost"]
    BY <1>10 DEF Crash, Runners
  <2>2. Bounded(run[x]) /\ run[x] \in [pc : AgentPC, client : [model : Models, last_usage : Nat, total_usage : Nat],
                                       rounds : Nat, booked : Nat, refused : BOOLEAN]
    BY <1>1 DEF RoundsInv, RunRows
  <2> QED
    BY <2>1, <2>2 DEF Bounded
<1>11. CASE (\E key \in Key : Forget(key)) \/ Switch
  BY <1>2, <1>11 DEF Forget, Switch
<1>12. CASE UNCHANGED optimisationVars
  BY <1>2, <1>12 DEF optimisationVars
<1> QED
  BY <1>7, <1>8, <1>9, <1>10, <1>11, <1>12 DEF OptimisationNext

-----------------------------------------------------------------------------
(* Rows, requests, and the cache.                                          *)

\* Of the tasks that are open for a text there is a last one.
LEMMA LatestIsATask == ASSUME NEW x, OpenFor(x) # {} PROVE Latest(OpenFor(x)) \in OpenFor(x)
<1>1. OpenFor(x) \in SUBSET (1..MaxAdvice) /\ MaxAdvice \in Nat
  BY OptimisationAssumption DEF OpenFor, AdviceTask
<1>2. \E t \in OpenFor(x) : \A u \in OpenFor(x) : u <= t
  BY <1>1, GreatestNumber
<1> QED
  BY <1>1, <1>2 DEF Latest, AdviceTask

\* What the cache gets is a report under a key.
LEMMA KeptIsReport ==
  ASSUME NEW text \in Texts, NEW model \in Models, NEW by \in Models, NEW crossed \in BOOLEAN,
         DOMAIN reports \subseteq Key, \A key \in DOMAIN reports : reports[key] \in Report,
         Keep(text, model, by, crossed)
  PROVE  DOMAIN reports' \subseteq Key /\ \A key \in DOMAIN reports' : reports'[key] \in Report
<1> DEFINE k0 == [text |-> text, model |-> model]
<1>1. k0 \in Key
  BY DEF Key
<1>2. reports' = [k \in DOMAIN reports \cup {k0} |->
                   IF k = k0 THEN [by |-> by, crossed |-> crossed] ELSE reports[k]]
  BY DEF Keep
<1> HIDE DEF k0
<1>3. [by |-> by, crossed |-> crossed] \in Report
  BY DEF Report
<1> QED
  BY <1>1, <1>2, <1>3


\* Rows of tasks last, with their texts, and are about texts that there are.
RowsLast ==
  \A t \in AdviceTask :
    /\ advice[t].status # "absent" => advice'[t].status # "absent" /\ advice'[t].text = advice[t].text
    /\ advice'[t].status # "absent" => advice'[t].text \in Texts

\* A row that there is changes in what is not its text.
LEMMA RowChanges ==
  ASSUME AdviceInv, AdviceRows, NEW t \in AdviceTask, advice[t].status # "absent", NEW row \in AdviceRec,
         row.status # "absent", row.text = advice[t].text, advice' = [advice EXCEPT ![t] = row]
  PROVE  RowsLast
BY DEF AdviceInv, ShapeInv, AdviceRows, RowsLast

\* Only its status does.
LEMMA StatusChanges ==
  ASSUME AdviceInv, AdviceRows, NEW t \in AdviceTask, advice[t].status # "absent", NEW st \in {"running", "failed"},
         advice' = [advice EXCEPT ![t].status = st]
  PROVE  RowsLast
<1> DEFINE row == [advice[t] EXCEPT !.status = st]
<1>1. advice \in [AdviceTask -> AdviceRec]
  BY DEF AdviceInv, ShapeInv
<1>2. row \in AdviceRec /\ row.status = st /\ row.text = advice[t].text
  BY <1>1 DEF AdviceRec
<1>3. advice' = [advice EXCEPT ![t] = row]
  BY <1>1
<1> HIDE DEF row
<1> QED
  BY <1>2, <1>3, RowChanges

\* Every step keeps the rows.
LEMMA RowsLastNext == AdviceInv /\ AdviceRows /\ [OptimisationNext]_optimisationVars => RowsLast
<1> SUFFICES ASSUME AdviceInv, AdviceRows, [OptimisationNext]_optimisationVars PROVE RowsLast
  OBVIOUS
<1>1. advice \in [AdviceTask -> AdviceRec]
  BY DEF AdviceInv, ShapeInv
<1>2. ASSUME advice' = advice PROVE RowsLast
  BY <1>2 DEF RowsLast, AdviceRows
<1>3. ASSUME NEW r \in Asks, AskStep(r) PROVE RowsLast
  <2>1. CASE MarkOld(r) \/ SubmitFails(r) \/ (TakeSlot(r) /\ ~ (oslots > 0))
    <3>1. /\ ask[r].pc \in {"mark", "slot", "submit"} /\ advice' = [advice EXCEPT ![ask[r].task].status = "failed"]
      BY <2>1 DEF MarkOld, SubmitFails, TakeSlot
    <3>2. ask[r].task \in AdviceTask /\ advice[ask[r].task].status # "absent"
      BY <3>1 DEF AdviceRows, GoodAsk
    <3> QED
      BY <3>1, <3>2, StatusChanges
  <2>2. CASE CreateAdvice(r)
    <3>1. PICK t \in AdviceTask :
            /\ advice[t].status = "absent"
            /\ advice' = [advice EXCEPT ![t] = [@ EXCEPT !.status = "pending", !.text = ask[r].text,
                                                         !.model = ask[r].model]]
      BY <2>2 DEF CreateAdvice
    <3>2. ask[r].text \in Texts
      BY <2>2 DEF CreateAdvice, AdviceRows, GoodAsk
    <3>3. advice'[t].text = ask[r].text /\ \A u \in AdviceTask \ {t} : advice'[u] = advice[u]
      BY <1>1, <3>1 DEF AdviceRec
    <3> QED
      BY <3>1, <3>2, <3>3 DEF RowsLast, AdviceRows
  <2>3. CASE TakeSlot(r) /\ oslots > 0
    BY <1>2, <2>3 DEF TakeSlot
  <2>4. CASE \/ OptimizeAIView(r) \/ Book(r) \/ StoreReport(r) \/ AdviceFails(r) \/ SubmitView(r)
             \/ Deduplicate(r) \/ SubmitTask(r)
    BY <1>2, <2>4 DEF OptimizeAIView, Book, StoreReport, AdviceFails, SubmitView, Deduplicate, SubmitTask
  <2> QED
    BY <1>3, <2>1, <2>2, <2>3, <2>4 DEF AskStep
<1>4. ASSUME NEW t \in AdviceTask, TaskStep(t) PROVE RowsLast
  <2>0. run[t].pc # "off" => advice[t].status # "absent"
    BY DEF AdviceInv, HandInv
  <2>1. CASE StartTask(t) \/ TaskFails(t)
    BY <2>0, <2>1, StatusChanges DEF StartTask, TaskFails
  <2>2. CASE SaveAdvice(t)
    <3> DEFINE m == run[t].client.model
               row == [advice[t] EXCEPT !.status = "success", !.model = m, !.report = m]
    <3>1. m \in Models /\ advice[t].status # "absent"
      BY <2>0, <2>2 DEF SaveAdvice, AdviceInv, ShapeInv, RunRows, Runners
    <3>2. advice' = [advice EXCEPT ![t] = [@ EXCEPT !.status = "success", !.model = m, !.report = m]]
      BY <2>2 DEF SaveAdvice
    <3> HIDE DEF m
    <3>3. row \in AdviceRec /\ row.status = "success" /\ row.text = advice[t].text
      BY <1>1, <3>1 DEF AdviceRec
    <3>4. advice' = [advice EXCEPT ![t] = row]
      BY <1>1, <3>2
    <3> HIDE DEF row
    <3> QED
      BY <3>1, <3>3, <3>4, RowChanges
  <2>3. CASE GrowOld(t)
    <3> DEFINE row == [advice[t] EXCEPT !.old = TRUE]
    <3>1. row \in AdviceRec /\ row.status = advice[t].status /\ row.text = advice[t].text
      BY <1>1 DEF AdviceRec
    <3>2. advice' = [advice EXCEPT ![t] = row] /\ advice[t].status # "absent"
      BY <1>1, <2>3 DEF GrowOld, OpenAdvice
    <3> HIDE DEF row
    <3> QED
      BY <3>1, <3>2, RowChanges
  <2>4. CASE StatusViewMarks(t)
    BY <2>4, StatusChanges DEF StatusViewMarks, AdviceRows
  <2>5. CASE CacheAdvice(t) \/ BookAdvice(t) \/ LeavePool(t) \/ StatusView(t)
    BY <1>2, <2>5 DEF CacheAdvice, BookAdvice, LeavePool, StatusView
  <2> QED
    BY <1>4, <2>1, <2>2, <2>3, <2>4, <2>5 DEF TaskStep
<1>5. CASE \E x \in Asks \cup AdviceTask : RunStep(x)
  BY <1>2, <1>5 DEF RunStep, MakeClient, Call, Round, ForcedCall, RunFails
<1>6. CASE (\E key \in Key : Forget(key)) \/ Switch \/ Crash
  BY <1>2, <1>6 DEF Forget, Switch, Crash
<1>7. CASE UNCHANGED optimisationVars
  BY <1>2, <1>7 DEF optimisationVars
<1> QED
  BY <1>3, <1>4, <1>5, <1>6, <1>7 DEF OptimisationNext

\* Requests stay good where their rows do.
LEMMA AsksNext ==
  ASSUME AdviceInv, AdviceRows, [OptimisationNext]_optimisationVars, RowsLast
  PROVE  ask' \in [Asks -> AskRec] /\ \A r \in Asks : GoodAsk(ask[r])'
<1> DEFINE Good == ask' \in [Asks -> AskRec] /\ \A r \in Asks : GoodAsk(ask[r])'
<1>1. chat_model \in Models /\ ask \in [Asks -> AskRec]
  BY DEF AdviceInv, ShapeInv, AdviceRows
<1>2. ASSUME NEW q \in Asks, ask'[q] = ask[q] PROVE GoodAsk(ask[q])'
  BY <1>2 DEF AdviceRows, GoodAsk, RowsLast
<1>3. ASSUME ask' = ask PROVE Good
  BY <1>1, <1>2, <1>3
<1>4. ASSUME NEW r \in Asks, NEW row \in AskRec, ask' = [ask EXCEPT ![r] = row],
             row.pc # "idle" => row.text \in Texts /\ row.model \in Models,
             row.pc \in {"mark", "slot", "submit"} => row.task \in AdviceTask /\ advice'[row.task].status # "absent"
      PROVE  Good
  <2>1. ask' \in [Asks -> AskRec] /\ ask'[r] = row /\ \A q \in Asks \ {r} : ask'[q] = ask[q]
    BY <1>1, <1>4
  <2>2. GoodAsk(ask[r])'
    BY <1>4, <2>1 DEF GoodAsk
  <2> QED
    BY <1>2, <2>1, <2>2
<1>5. ASSUME NEW r \in Asks, Answer(r) PROVE Good
  <2>1. NoAsk \in AskRec /\ NoAsk.pc = "idle"
    BY DEF NoAsk, AskRec
  <2> QED
    BY <1>4, <1>5, <2>1 DEF Answer
<1>6. ASSUME NEW r \in Asks, NEW pc \in {"create", "submit"}, SetAsk(r, pc), ask[r].pc # "idle",
             pc = "submit" => ask[r].pc = "slot"
      PROVE  Good
  <2> DEFINE row == [ask[r] EXCEPT !.pc = pc]
  <2>1. /\ row \in AskRec /\ row.pc = pc /\ row.text = ask[r].text /\ row.model = ask[r].model
        /\ row.task = ask[r].task
    BY <1>1 DEF AskRec
  <2>2. ask' = [ask EXCEPT ![r] = row]
    BY <1>1, <1>6 DEF SetAsk
  <2>3. GoodAsk(ask[r])
    BY DEF AdviceRows
  <2> HIDE DEF row
  <2>4. row.text \in Texts /\ row.model \in Models
    BY <1>6, <2>1, <2>3 DEF GoodAsk
  <2>5. pc = "submit" => row.task \in AdviceTask /\ advice'[row.task].status # "absent"
    BY <1>6, <2>1, <2>3 DEF GoodAsk, RowsLast
  <2> QED
    BY <1>4, <1>6, <2>1, <2>2, <2>4, <2>5
<1>7. ASSUME NEW r \in Asks, NEW x \in Texts, NEW pc \in {"running", "dedup"},
             ask' = [ask EXCEPT ![r] = [@ EXCEPT !.pc = pc, !.text = x, !.model = chat_model]]
      PROVE  Good
  <2> DEFINE row == [ask[r] EXCEPT !.pc = pc, !.text = x, !.model = chat_model]
  <2>1. row \in AskRec /\ row.pc = pc /\ row.text = x /\ row.model = chat_model
    BY <1>1 DEF AskRec
  <2>2. ask' = [ask EXCEPT ![r] = row]
    BY <1>1, <1>7
  <2> HIDE DEF row
  <2> QED
    BY <1>1, <1>4, <2>1, <2>2
<1> SUFFICES Good
  OBVIOUS
<1> HIDE DEF Good
<1>8. ASSUME NEW r \in Asks, AskStep(r) PROVE Good
  <2>1. CASE OptimizeAIView(r)
    BY <1>7, <2>1 DEF OptimizeAIView
  <2>2. CASE SubmitView(r)
    BY <1>7, <2>2, OptimisationAssumption DEF SubmitView
  <2>3. CASE Book(r)
    BY <1>3, <2>3 DEF Book
  <2>4. CASE StoreReport(r) \/ AdviceFails(r) \/ SubmitTask(r) \/ SubmitFails(r)
    BY <1>5, <2>4 DEF StoreReport, AdviceFails, SubmitTask, SubmitFails
  <2>5. CASE Deduplicate(r)
    <3> DEFINE t == Latest(OpenFor(ask[r].text))
               row == [ask[r] EXCEPT !.pc = "mark", !.task = t]
    <3>1. \/ SetAsk(r, "create") \/ Answer(r)
          \/ OpenFor(ask[r].text) # {} /\ ask' = [ask EXCEPT ![r].pc = "mark", ![r].task = t]
      BY <2>5 DEF Deduplicate
    <3>2. ask[r].pc = "dedup" /\ advice' = advice
      BY <2>5 DEF Deduplicate
    <3>3. CASE OpenFor(ask[r].text) # {} /\ ask' = [ask EXCEPT ![r].pc = "mark", ![r].task = t]
      <4>1. t \in OpenFor(ask[r].text)
        BY <3>3, LatestIsATask
      <4>2. t \in AdviceTask /\ advice'[t].status # "absent"
        BY <3>2, <4>1 DEF OpenFor, OpenAdvice
      <4> HIDE DEF t
      <4>3. row \in AskRec /\ row.pc = "mark" /\ row.text = ask[r].text /\ row.model = ask[r].model /\ row.task = t
        BY <1>1, <4>2 DEF AskRec
      <4>4. ask' = [ask EXCEPT ![r] = row]
        BY <1>1, <3>3
      <4>5. ask[r].text \in Texts /\ ask[r].model \in Models
        BY <3>2 DEF AdviceRows, GoodAsk
      <4> HIDE DEF row
      <4> QED
        BY <1>4, <4>2, <4>3, <4>4, <4>5
    <3> HIDE DEF t
    <3> QED
      BY <1>5, <1>6, <3>1, <3>2, <3>3
  <2>6. CASE MarkOld(r)
    BY <1>6, <2>6 DEF MarkOld
  <2>7. CASE CreateAdvice(r)
    <3>1. PICK t \in AdviceTask :
            /\ advice[t].status = "absent"
            /\ advice' = [advice EXCEPT ![t] = [@ EXCEPT !.status = "pending", !.text = ask[r].text,
                                                         !.model = ask[r].model]]
            /\ ask' = [ask EXCEPT ![r].pc = "slot", ![r].task = t]
      BY <2>7 DEF CreateAdvice
    <3> DEFINE row == [ask[r] EXCEPT !.pc = "slot", !.task = t]
    <3>2. row \in AskRec /\ row.text = ask[r].text /\ row.model = ask[r].model /\ row.task = t
      BY <1>1 DEF AskRec
    <3>3. ask' = [ask EXCEPT ![r] = row]
      BY <1>1, <3>1
    <3>4. advice'[t].status = "pending"
      BY <3>1 DEF AdviceInv, ShapeInv, AdviceRec
    <3>5. ask[r].text \in Texts /\ ask[r].model \in Models
      BY <2>7 DEF CreateAdvice, AdviceRows, GoodAsk
    <3> HIDE DEF row
    <3> QED
      BY <1>4, <3>2, <3>3, <3>4, <3>5
  <2>8. CASE TakeSlot(r)
    BY <1>5, <1>6, <2>8 DEF TakeSlot
  <2> QED
    BY <1>8, <2>1, <2>2, <2>3, <2>4, <2>5, <2>6, <2>7, <2>8 DEF AskStep
<1>9. CASE Crash
  <2>1. NoAsk \in AskRec /\ NoAsk.pc = "idle"
    BY DEF NoAsk, AskRec
  <2>2. ask' = [r \in Asks |-> NoAsk]
    BY <1>9 DEF Crash
  <2> QED
    BY <2>1, <2>2 DEF Good, GoodAsk
<1>10. CASE (\E x \in Asks \cup AdviceTask : RunStep(x)) \/ (\E key \in Key : Forget(key)) \/ Switch
  BY <1>3, <1>10 DEF RunStep, MakeClient, Call, Round, ForcedCall, RunFails, Forget, Switch
<1>11. CASE \E t \in AdviceTask : TaskStep(t)
  BY <1>3, <1>11 DEF TaskStep, StartTask, SaveAdvice, CacheAdvice, BookAdvice, TaskFails, LeavePool, GrowOld,
                     StatusView, StatusViewMarks
<1>12. CASE UNCHANGED optimisationVars
  BY <1>3, <1>12 DEF optimisationVars
<1> QED
  BY <1>8, <1>9, <1>10, <1>11, <1>12 DEF OptimisationNext

\* The cache has reports under keys.
LEMMA ReportsNext ==
  ASSUME AdviceInv, AdviceRows, [OptimisationNext]_optimisationVars
  PROVE  DOMAIN reports' \subseteq Key /\ \A key \in DOMAIN reports' : reports'[key] \in Report
<1> DEFINE Good == DOMAIN reports' \subseteq Key /\ \A key \in DOMAIN reports' : reports'[key] \in Report
<1>1. ASSUME reports' = reports PROVE Good
  BY <1>1 DEF AdviceRows
<1>2. ASSUME NEW x \in Runners PROVE run[x].client.model \in Models
  BY <1>2 DEF AdviceInv, ShapeInv, RunRows
<1>3. ASSUME NEW r \in Asks, StoreReport(r) PROVE Good
  <2>1. ask[r].pc = "running"
    BY <1>3 DEF StoreReport, AdviceInv, HandInv
  <2>2. ask[r].text \in Texts /\ ask[r].model \in Models
    BY <2>1 DEF AdviceRows, GoodAsk
  <2>3. run[r].client.model \in Models /\ crossing[r] \in BOOLEAN
    BY <1>2 DEF Runners, AdviceInv, ShapeInv
  <2>4. Keep(ask[r].text, ask[r].model, run[r].client.model, crossing[r])
    BY <1>3 DEF StoreReport
  <2> QED
    BY <2>2, <2>3, <2>4, KeptIsReport DEF AdviceRows
<1>4. ASSUME NEW t \in AdviceTask, CacheAdvice(t) PROVE Good
  <2>1. advice[t].text \in Texts /\ run[t].client.model \in Models
    BY <1>2, <1>4 DEF CacheAdvice, AdviceInv, HandInv, AdviceRows, Runners
  <2>2. Keep(advice[t].text, run[t].client.model, run[t].client.model, FALSE)
    BY <1>4 DEF CacheAdvice
  <2> QED
    BY <2>1, <2>2, KeptIsReport DEF AdviceRows
<1>5. ASSUME NEW key, Forget(key) PROVE Good
  BY <1>5 DEF Forget, AdviceRows
<1> SUFFICES Good
  OBVIOUS
<1> HIDE DEF Good
<1>6. CASE \E x \in Asks \cup AdviceTask : RunStep(x)
  BY <1>1, <1>6 DEF RunStep, MakeClient, Call, Round, ForcedCall, RunFails
<1>7. CASE \E r \in Asks : AskStep(r)
  BY <1>1, <1>3, <1>7 DEF AskStep, OptimizeAIView, Book, AdviceFails, SubmitView, Deduplicate, MarkOld, CreateAdvice,
                          TakeSlot, SubmitTask, SubmitFails
<1>8. CASE \E t \in AdviceTask : TaskStep(t)
  BY <1>1, <1>4, <1>8 DEF TaskStep, StartTask, SaveAdvice, BookAdvice, TaskFails, LeavePool, GrowOld, StatusView,
                          StatusViewMarks
<1>9. CASE (\E key \in Key : Forget(key)) \/ Switch \/ Crash
  BY <1>1, <1>5, <1>9 DEF Switch, Crash
<1>10. CASE UNCHANGED optimisationVars
  BY <1>1, <1>10 DEF optimisationVars
<1> QED
  BY <1>6, <1>7, <1>8, <1>9, <1>10 DEF OptimisationNext

\* What polls have read is there, and nothing is counted beyond its bound.
LEMMA CountsNext ==
  ASSUME AdviceInv, AdviceRows, [OptimisationNext]_optimisationVars, RowsLast
  PROVE  /\ switches' \in 0..MaxSwitches /\ asked' \in 0..MaxAsked /\ crashes' \in 0..MaxCrashes
         /\ copy' \in [AdviceTask -> BOOLEAN] /\ \A t \in AdviceTask : copy'[t] => advice'[t].status # "absent"
<1> DEFINE Counts == switches' \in 0..MaxSwitches /\ asked' \in 0..MaxAsked /\ crashes' \in 0..MaxCrashes
           Copies == copy' \in [AdviceTask -> BOOLEAN]
                       /\ \A t \in AdviceTask : copy'[t] => advice'[t].status # "absent"
<1>0. MaxAsked \in Nat /\ MaxCrashes \in Nat /\ MaxSwitches \in Nat
  BY OptimisationAssumption, GatewayAssumption
<1>1. ASSUME copy' = copy PROVE Copies
  BY <1>1 DEF AdviceRows, RowsLast
<1>2. ASSUME switches' = switches, asked' = asked, crashes' = crashes PROVE Counts
  BY <1>2 DEF AdviceRows
<1>3. CASE \E x \in Asks \cup AdviceTask : RunStep(x)
  BY <1>1, <1>2, <1>3 DEF RunStep, MakeClient, Call, Round, ForcedCall, RunFails, gatewayVars
<1>4. ASSUME NEW r \in Asks, AskStep(r) PROVE Counts /\ Copies
  <2>1. CASE OptimizeAIView(r) \/ SubmitView(r)
    <3>1. copy' = copy /\ switches' = switches /\ crashes' = crashes /\ asked < MaxAsked /\ asked' = asked + 1
      BY <2>1 DEF OptimizeAIView, SubmitView, gatewayVars
    <3> QED
      BY <1>0, <1>1, <3>1 DEF AdviceRows
  <2>2. CASE ~ (OptimizeAIView(r) \/ SubmitView(r))
    <3>1. copy' = copy /\ switches' = switches /\ crashes' = crashes /\ asked' = asked
      BY <1>4, <2>2 DEF AskStep, Book, StoreReport, AdviceFails, Deduplicate, MarkOld, CreateAdvice, TakeSlot,
                        SubmitTask, SubmitFails, gatewayVars
    <3> QED
      BY <1>1, <1>2, <3>1
  <2> QED
    BY <2>1, <2>2
<1>5. ASSUME NEW t \in AdviceTask, TaskStep(t) PROVE Counts /\ Copies
  <2>1. switches' = switches /\ crashes' = crashes /\ asked' = asked
    BY <1>5 DEF TaskStep, StartTask, SaveAdvice, CacheAdvice, BookAdvice, TaskFails, LeavePool, GrowOld, StatusView,
                StatusViewMarks, gatewayVars
  <2>2. Copies
    <3>1. CASE StatusView(t)
      BY <3>1 DEF StatusView, OpenAdvice, AdviceRows
    <3>2. CASE StatusViewMarks(t)
      BY <3>2 DEF StatusViewMarks, AdviceRows, RowsLast
    <3>3. CASE ~ (StatusView(t) \/ StatusViewMarks(t))
      BY <1>1, <1>5, <3>3 DEF TaskStep, StartTask, SaveAdvice, CacheAdvice, BookAdvice, TaskFails, LeavePool, GrowOld
    <3> QED
      BY <3>1, <3>2, <3>3
  <2> QED
    BY <1>2, <2>1, <2>2
<1>6. CASE Switch
  <2>1. copy' = copy /\ asked' = asked /\ crashes' = crashes /\ switches < MaxSwitches /\ switches' = switches + 1
    BY <1>6 DEF Switch, SwitchModel
  <2> QED
    BY <1>0, <1>1, <2>1 DEF AdviceRows
<1>7. CASE Crash
  <2>1. copy' = copy /\ asked' = asked /\ switches' = switches /\ crashes < MaxCrashes /\ crashes' = crashes + 1
    BY <1>7 DEF Crash, gatewayVars
  <2> QED
    BY <1>0, <1>1, <2>1 DEF AdviceRows
<1>8. CASE \E key \in Key : Forget(key)
  BY <1>1, <1>2, <1>8 DEF Forget, gatewayVars
<1>9. CASE UNCHANGED optimisationVars
  BY <1>1, <1>2, <1>9 DEF optimisationVars, gatewayVars
<1> QED
  BY <1>3, <1>4, <1>5, <1>6, <1>7, <1>8, <1>9 DEF OptimisationNext

\* Every step keeps the rows, the requests and the cache.
LEMMA AdviceRowsNext == AdviceInv /\ AdviceRows /\ [OptimisationNext]_optimisationVars => AdviceRows'
<1> SUFFICES ASSUME AdviceInv, AdviceRows, [OptimisationNext]_optimisationVars PROVE AdviceRows'
  OBVIOUS
<1>1. RowsLast
  BY RowsLastNext
<1>2. /\ ask' \in [Asks -> AskRec] /\ \A r \in Asks : GoodAsk(ask[r])'
      /\ DOMAIN reports' \subseteq Key /\ \A key \in DOMAIN reports' : reports'[key] \in Report
      /\ switches' \in 0..MaxSwitches /\ asked' \in 0..MaxAsked /\ crashes' \in 0..MaxCrashes
      /\ copy' \in [AdviceTask -> BOOLEAN] /\ \A t \in AdviceTask : copy'[t] => advice'[t].status # "absent"
  BY <1>1, AsksNext, ReportsNext, CountsNext
<1> QED
  BY <1>1, <1>2 DEF AdviceRows, RowsLast

-----------------------------------------------------------------------------
(* Slots.                                                                  *)

\* A task that has not been submitted does not run before somebody submits it.
LEMMA OffStays ==
  ASSUME AdviceInv, [OptimisationNext]_optimisationVars, NEW t \in AdviceTask, run[t].pc = "off",
         \A r \in Asks : SubmitTask(r) => ask[r].task # t
  PROVE  run'[t].pc = "off"
<1>0. run \in RunRows /\ t \in Runners /\ t \notin Asks
  BY AsksAreNoTasks DEF AdviceInv, ShapeInv, Runners
<1>1. ASSUME run' = run PROVE run'[t].pc = "off"
  BY <1>1
<1>2. ASSUME NEW x \in Runners, x # t, NEW u, run' = [run EXCEPT ![x] = u] PROVE run'[t].pc = "off"
  BY <1>0, <1>2 DEF RunRows
<1>3. ASSUME NEW x \in Runners, x # t, NEW pc, SetRun(x, pc) \/ record_ai_usage(x, pc) PROVE run'[t].pc = "off"
  BY <1>0, <1>3 DEF SetRun, record_ai_usage, RunRows
<1>4. ASSUME NEW x \in Runners, RunStep(x) PROVE run'[t].pc = "off"
  <2>1. x # t /\ \A y \in Runners \ {x} : run'[y] = run[y]
    BY <1>4, RunStepGoesOn DEF AdviceInv
  <2> QED
    BY <1>0, <2>1
<1>5. ASSUME NEW r \in Asks, AskStep(r) PROVE run'[t].pc = "off"
  <2>0. r \in Runners /\ r # t
    BY <1>0 DEF Runners
  <2>1. CASE OptimizeAIView(r)
    BY <1>2, <2>0, <2>1 DEF OptimizeAIView
  <2>2. CASE Book(r) \/ StoreReport(r) \/ AdviceFails(r)
    BY <1>3, <2>0, <2>2 DEF Book, StoreReport, AdviceFails
  <2>3. CASE SubmitTask(r)
    <3>1. ask[r].task \in Runners /\ ask[r].task # t
      BY <2>3 DEF SubmitTask, AdviceInv, HandInv, Runners
    <3> QED
      BY <1>2, <2>3, <3>1 DEF SubmitTask
  <2>4. CASE SubmitView(r) \/ Deduplicate(r) \/ MarkOld(r) \/ CreateAdvice(r) \/ TakeSlot(r) \/ SubmitFails(r)
    BY <1>1, <2>4 DEF SubmitView, Deduplicate, MarkOld, CreateAdvice, TakeSlot, SubmitFails
  <2> QED
    BY <1>5, <2>1, <2>2, <2>3, <2>4 DEF AskStep
<1>6. ASSUME NEW u \in AdviceTask, TaskStep(u) PROVE run'[t].pc = "off"
  <2>1. CASE GrowOld(u) \/ StatusView(u) \/ StatusViewMarks(u)
    BY <1>1, <2>1 DEF GrowOld, StatusView, StatusViewMarks
  <2>2. CASE StartTask(u) \/ SaveAdvice(u) \/ CacheAdvice(u) \/ BookAdvice(u) \/ TaskFails(u) \/ LeavePool(u)
    <3>1. u \in Runners /\ u # t
      BY <2>2 DEF Runners, StartTask, SaveAdvice, CacheAdvice, BookAdvice, TaskFails, LeavePool
    <3> QED
      BY <1>3, <2>2, <3>1 DEF StartTask, SaveAdvice, CacheAdvice, BookAdvice, TaskFails, LeavePool
  <2> QED
    BY <1>6, <2>1, <2>2 DEF TaskStep
<1>7. CASE Crash
  BY <1>0, <1>7 DEF Crash, Runners
<1>8. CASE (\E key \in Key : Forget(key)) \/ Switch
  BY <1>1, <1>8 DEF Forget, Switch
<1>9. CASE UNCHANGED optimisationVars
  BY <1>1, <1>9 DEF optimisationVars
<1> QED
  BY <1>4, <1>5, <1>6, <1>7, <1>8, <1>9 DEF OptimisationNext, Runners

\* A request that holds a task has held it, or makes it now, or has just taken its slot.
LEMMA HoldersAre ==
  ASSUME AdviceRows, [OptimisationNext]_optimisationVars, NEW q \in Asks, q \in Holding'
  PROVE  \/ q \in Holding /\ ask'[q].task = ask[q].task
         \/ CreateAdvice(q)
<1>0. ask \in [Asks -> AskRec]
  BY DEF AdviceRows
<1>1. ASSUME ask'[q] = ask[q] PROVE q \in Holding /\ ask'[q].task = ask[q].task
  BY <1>1 DEF Holding
<1>2. ASSUME NEW r \in Asks, Answer(r) PROVE q \in Holding /\ ask'[q].task = ask[q].task
  BY <1>0, <1>1, <1>2 DEF Answer, NoAsk, Holding
<1>3. ASSUME NEW r \in Asks, SetAsk(r, "create") PROVE q \in Holding /\ ask'[q].task = ask[q].task
  BY <1>0, <1>1, <1>3 DEF SetAsk, AskRec, Holding
<1>4. ASSUME NEW r \in Asks, AskStep(r) PROVE (q \in Holding /\ ask'[q].task = ask[q].task) \/ CreateAdvice(q)
  <2>1. CASE q # r
    <3>1. ask'[q] = ask[q]
      BY <1>0, <1>4, <2>1 DEF AskStep, OptimizeAIView, Book, StoreReport, AdviceFails, SubmitView, Deduplicate, MarkOld,
           CreateAdvice, TakeSlot, SubmitTask, SubmitFails, Answer, SetAsk
    <3> QED
      BY <1>1, <3>1
  <2>2. CASE q = r
    <3>1. CASE OptimizeAIView(r)
      BY <1>0, <2>2, <3>1 DEF OptimizeAIView, AskRec, Holding
    <3>2. CASE SubmitView(r)
      BY <1>0, <2>2, <3>2 DEF SubmitView, AskRec, Holding
    <3>3. CASE Deduplicate(r)
      BY <1>0, <1>2, <1>3, <2>2, <3>3 DEF Deduplicate, AskRec, Holding
    <3>4. CASE TakeSlot(r)
      BY <1>0, <1>2, <2>2, <3>4 DEF TakeSlot, SetAsk, AskRec, Holding
    <3>5. CASE Book(r)
      BY <1>1, <3>5 DEF Book
    <3>6. CASE StoreReport(r) \/ AdviceFails(r) \/ SubmitTask(r) \/ SubmitFails(r)
      BY <1>2, <3>6 DEF StoreReport, AdviceFails, SubmitTask, SubmitFails
    <3>7. CASE MarkOld(r)
      BY <1>3, <3>7 DEF MarkOld
    <3> QED
      BY <1>4, <2>2, <3>1, <3>2, <3>3, <3>4, <3>5, <3>6, <3>7 DEF AskStep
  <2> QED
    BY <2>1, <2>2
<1>5. CASE Crash
  BY <1>5 DEF Crash, NoAsk, Holding
<1>6. CASE (\E x \in Asks \cup AdviceTask : RunStep(x)) \/ (\E key \in Key : Forget(key)) \/ Switch
  BY <1>1, <1>6 DEF RunStep, MakeClient, Call, Round, ForcedCall, RunFails, Forget, Switch
<1>7. CASE \E t \in AdviceTask : TaskStep(t)
  BY <1>1, <1>7 DEF TaskStep, StartTask, SaveAdvice, CacheAdvice, BookAdvice, TaskFails, LeavePool, GrowOld,
                    StatusView, StatusViewMarks
<1>8. CASE UNCHANGED optimisationVars
  BY <1>1, <1>8 DEF optimisationVars
<1> QED
  BY <1>4, <1>5, <1>6, <1>7, <1>8 DEF OptimisationNext

\* Only a request of its own submits a task, once.
LEMMA HeldNext == AdviceInv /\ AdviceRows /\ HeldInv /\ [OptimisationNext]_optimisationVars => HeldInv'
<1> SUFFICES ASSUME AdviceInv, AdviceRows, HeldInv, [OptimisationNext]_optimisationVars PROVE HeldInv'
  OBVIOUS
<1>0. ask \in [Asks -> AskRec]
  BY DEF AdviceRows
<1>1. ASSUME NEW r \in Holding
      PROVE  ask[r].task \in AdviceTask /\ advice[ask[r].task].status # "absent" /\ run[ask[r].task].pc = "off"
  BY <1>1 DEF Holding, AdviceRows, GoodAsk, HeldInv
<1>2. ASSUME NEW r \in Asks, CreateAdvice(r)
      PROVE  /\ ask'[r].task \in AdviceTask /\ advice[ask'[r].task].status = "absent"
             /\ run'[ask'[r].task].pc = "off" /\ \A q \in Asks \ {r} : ask'[q] = ask[q]
  <2>1. PICK t \in AdviceTask : advice[t].status = "absent" /\ ask' = [ask EXCEPT ![r].pc = "slot", ![r].task = t]
    BY <1>2 DEF CreateAdvice
  <2>2. ask'[r].task = t /\ \A q \in Asks \ {r} : ask'[q] = ask[q]
    BY <1>0, <2>1 DEF AskRec
  <2>3. run' = run /\ run[t].pc = "off"
    BY <1>2, <2>1 DEF CreateAdvice, AdviceInv, HandInv
  <2> QED
    BY <2>1, <2>2, <2>3
<1>3. \A r \in Holding' : r \in Asks
  BY DEF Holding
<1>4. ASSUME NEW r \in Holding' PROVE run'[ask'[r].task].pc = "off"
  <2>1. CASE CreateAdvice(r)
    BY <1>2, <1>3, <2>1
  <2>2. CASE r \in Holding /\ ask'[r].task = ask[r].task
    <3>1. ASSUME NEW q \in Asks, SubmitTask(q) PROVE ask[q].task # ask[r].task
      <4>1. q \in Holding /\ ask'[q].pc = "idle"
        BY <1>0, <3>1 DEF SubmitTask, Holding, Answer, NoAsk
      <4>2. q # r
        BY <4>1 DEF Holding
      <4> QED
        BY <2>2, <4>1, <4>2 DEF HeldInv
    <3> QED
      BY <1>1, <2>2, <3>1, OffStays
  <2> QED
    BY <1>3, <2>1, <2>2, HoldersAre
<1>5. ASSUME NEW q \in Holding', NEW r \in Holding', ask'[q].task = ask'[r].task PROVE q = r
  <2>1. CASE CreateAdvice(r)
    <3> SUFFICES ASSUME q # r PROVE FALSE
      OBVIOUS
    <3>1. ask'[q] = ask[q] /\ advice[ask'[r].task].status = "absent"
      BY <1>2, <1>3, <2>1
    <3>2. q \in Holding
      BY <1>3, <3>1 DEF Holding
    <3> QED
      BY <1>1, <1>5, <3>1, <3>2
  <2>2. CASE CreateAdvice(q)
    <3> SUFFICES ASSUME q # r PROVE FALSE
      OBVIOUS
    <3>1. ask'[r] = ask[r] /\ advice[ask'[q].task].status = "absent"
      BY <1>2, <1>3, <2>2
    <3>2. r \in Holding
      BY <1>3, <3>1 DEF Holding
    <3> QED
      BY <1>1, <1>5, <3>1, <3>2
  <2>3. CASE q \in Holding /\ ask'[q].task = ask[q].task /\ r \in Holding /\ ask'[r].task = ask[r].task
    BY <1>5, <2>3 DEF HeldInv
  <2> QED
    BY <1>3, <2>1, <2>2, <2>3, HoldersAre
<1> QED
  BY <1>4, <1>5 DEF HeldInv

\* The pool is finite, whatever is in it.
LEMMA PoolCounted == IsFiniteSet(InPool) /\ Cardinality(InPool) \in Nat /\ InPool \subseteq AdviceTask
<1>1. IsFiniteSet(1..MaxAdvice)
  BY FS_Interval, OptimisationAssumption
<1>2. InPool \subseteq 1..MaxAdvice
  BY DEF InPool, AdviceTask
<1> QED
  BY <1>1, <1>2, FS_Subset, FS_CardinalityType DEF AdviceTask

\* Three ways in which the slots go from hand to hand, or stay.
LEMMA SlotsStay ==
  ASSUME SlotInv, oslots' = oslots, Submitters' = Submitters, InPool' = InPool
  PROVE  SlotInv'
BY DEF SlotInv

\* A slot is taken: one fewer is free, and one more is in the hands of who submits.
LEMMA SlotTaken ==
  ASSUME SlotInv, oslots > 0, oslots' = oslots - 1, NEW r, r \notin Submitters, Submitters' = Submitters \cup {r},
         InPool' = InPool
  PROVE  SlotInv'
<1>1. /\ IsFiniteSet(Submitters \cup {r}) /\ Cardinality(Submitters) \in Nat
      /\ Cardinality(Submitters \cup {r}) = Cardinality(Submitters) + 1
  BY FS_AddElement, FS_CardinalityType DEF SlotInv
<1>2. Cardinality(InPool) \in Nat /\ OptimizeSlots \in Nat
  BY PoolCounted, OptimisationAssumption
<1>3. oslots \in Nat /\ oslots + Cardinality(Submitters) + Cardinality(InPool) = OptimizeSlots
  BY DEF SlotInv
<1> QED
  BY <1>1, <1>2, <1>3 DEF SlotInv

\* It is handed over to the pool: it leaves the one and comes to the other.
LEMMA SlotHandedOver ==
  ASSUME SlotInv, oslots' = oslots, NEW r \in Submitters, Submitters' = Submitters \ {r},
         NEW t, t \notin InPool, InPool' = InPool \cup {t}
  PROVE  SlotInv'
<1>1. /\ IsFiniteSet(Submitters \ {r}) /\ Cardinality(Submitters) \in Nat
      /\ Cardinality(Submitters \ {r}) = Cardinality(Submitters) - 1
  BY FS_RemoveElement, FS_CardinalityType DEF SlotInv
<1>2. /\ Cardinality(InPool) \in Nat /\ OptimizeSlots \in Nat
      /\ Cardinality(InPool \cup {t}) = Cardinality(InPool) + 1
  BY PoolCounted, OptimisationAssumption, FS_AddElement
<1>3. oslots \in Nat /\ oslots + Cardinality(Submitters) + Cardinality(InPool) = OptimizeSlots
  BY DEF SlotInv
<1>4. oslots + (Cardinality(Submitters) - 1) + (Cardinality(InPool) + 1) = OptimizeSlots
  BY <1>1, <1>2, <1>3
<1> QED
  BY <1>1, <1>2, <1>3, <1>4 DEF SlotInv

\* It is given back: one fewer holds one, and one more is free.
LEMMA SlotGivenBack ==
  ASSUME SlotInv, oslots' = oslots + 1,
         \/ \E r \in Submitters : Submitters' = Submitters \ {r} /\ InPool' = InPool
         \/ \E t \in InPool : InPool' = InPool \ {t} /\ Submitters' = Submitters
  PROVE  SlotInv'
<1>1. oslots \in Nat /\ oslots + Cardinality(Submitters) + Cardinality(InPool) = OptimizeSlots
      /\ Cardinality(Submitters) \in Nat /\ Cardinality(InPool) \in Nat /\ IsFiniteSet(Submitters)
  BY PoolCounted, FS_CardinalityType DEF SlotInv
<1>2. ASSUME NEW r \in Submitters, Submitters' = Submitters \ {r}, InPool' = InPool PROVE SlotInv'
  <2>1. IsFiniteSet(Submitters \ {r}) /\ Cardinality(Submitters \ {r}) = Cardinality(Submitters) - 1
    BY <1>1, FS_RemoveElement
  <2> QED
    BY <1>1, <1>2, <2>1 DEF SlotInv
<1>3. ASSUME NEW t \in InPool, InPool' = InPool \ {t}, Submitters' = Submitters PROVE SlotInv'
  <2>1. Cardinality(InPool \ {t}) = Cardinality(InPool) - 1
    BY PoolCounted, FS_RemoveElement
  <2> QED
    BY <1>1, <1>3, <2>1 DEF SlotInv
<1> QED
  BY <1>2, <1>3

\* Of a step that leaves the places of all tasks on their side of the pool's door, the pool is the same.
LEMMA PoolStays ==
  ASSUME \A t \in AdviceTask : run'[t].pc \in {"off", "over", "lost"} <=> run[t].pc \in {"off", "over", "lost"}
  PROVE  InPool' = InPool
BY DEF InPool

\* Every step keeps the slots.
LEMMA SlotNext == AdviceInv /\ AdviceRows /\ HeldInv /\ SlotInv /\ [OptimisationNext]_optimisationVars => SlotInv'
<1> SUFFICES ASSUME AdviceInv, AdviceRows, HeldInv, SlotInv, [OptimisationNext]_optimisationVars PROVE SlotInv'
  OBVIOUS
<1>0. run \in RunRows /\ ask \in [Asks -> AskRec] /\ Asks \cap AdviceTask = {}
  BY AsksAreNoTasks DEF AdviceInv, ShapeInv, AdviceRows
<1>1. ASSUME run' = run PROVE InPool' = InPool
  BY <1>1 DEF InPool
<1>2. ASSUME ask' = ask PROVE Submitters' = Submitters
  BY <1>2 DEF Submitters
<1>3. ASSUME NEW r \in Asks, \A y \in Runners \ {r} : run'[y] = run[y] PROVE InPool' = InPool
  BY <1>0, <1>3 DEF InPool, Runners
<1>4. ASSUME NEW r \in Asks, NEW row, ask' = [ask EXCEPT ![r] = row], row.pc # "submit", ask[r].pc # "submit"
      PROVE  Submitters' = Submitters
  BY <1>0, <1>4 DEF Submitters
<1>5. ASSUME NEW r \in Asks, Answer(r) PROVE Submitters' = Submitters \ {r}
  <2>1. ask'[r].pc = "idle" /\ \A q \in Asks \ {r} : ask'[q] = ask[q]
    BY <1>0, <1>5 DEF Answer, NoAsk
  <2> QED
    BY <2>1 DEF Submitters
<1>6. ASSUME NEW r \in Asks, NEW pc, SetAsk(r, pc), pc # "submit", ask[r].pc # "submit"
      PROVE  Submitters' = Submitters
  <2>1. ask'[r].pc = pc /\ \A q \in Asks \ {r} : ask'[q] = ask[q]
    BY <1>0, <1>6 DEF SetAsk, AskRec
  <2> QED
    BY <1>6, <2>1 DEF Submitters
<1>7. ASSUME NEW x \in Runners, RunStep(x) PROVE SlotInv'
  <2>1. /\ ask' = ask /\ \A y \in Runners \ {x} : run'[y] = run[y]
        /\ run[x].pc \notin {"off", "over", "lost"} /\ run'[x].pc \notin {"off", "over", "lost"}
    BY <1>7, RunStepGoesOn DEF AdviceInv
  <2>2. oslots' = oslots
    BY <1>7 DEF RunStep, MakeClient, Call, Round, ForcedCall, RunFails
  <2>3. InPool' = InPool
    BY <2>1, PoolStays DEF Runners
  <2> QED
    BY <1>2, <2>1, <2>2, <2>3, SlotsStay
<1>8. ASSUME NEW r \in Asks, AskStep(r) PROVE SlotInv'
  <2>1. CASE OptimizeAIView(r)
    <3>1. /\ ask[r].pc = "idle" /\ oslots' = oslots
          /\ \E x : ask' = [ask EXCEPT ![r] = [@ EXCEPT !.pc = "running", !.text = x, !.model = chat_model]]
          /\ run' = [run EXCEPT ![r] = [NoRun(chat_model) EXCEPT !.pc = "client"]]
      BY <2>1 DEF OptimizeAIView
    <3>2. ask'[r].pc = "running" /\ \A q \in Asks \ {r} : ask'[q] = ask[q]
      BY <1>0, <3>1 DEF AskRec
    <3>3. Submitters' = Submitters
      BY <3>1, <3>2 DEF Submitters
    <3>4. InPool' = InPool
      BY <1>0, <1>3, <3>1 DEF RunRows
    <3> QED
      BY <3>1, <3>3, <3>4, SlotsStay
  <2>2. CASE Book(r) \/ StoreReport(r) \/ AdviceFails(r)
    <3>1. oslots' = oslots /\ (ask' = ask \/ Answer(r)) /\ run[r].pc \in {"answered", "saved", "failed"}
          /\ \E pc : SetRun(r, pc) \/ record_ai_usage(r, pc)
      BY <2>2 DEF Book, StoreReport, AdviceFails
    <3>2. InPool' = InPool
      BY <1>0, <1>3, <3>1 DEF SetRun, record_ai_usage, RunRows
    <3>3. r \notin Submitters
      BY <3>1 DEF Submitters, AdviceInv, HandInv
    <3> QED
      BY <1>2, <1>5, <3>1, <3>2, <3>3, SlotsStay
  <2>3. CASE SubmitView(r)
    <3>1. /\ ask[r].pc = "idle" /\ oslots' = oslots /\ run' = run
          /\ \E x : ask' = [ask EXCEPT ![r] = [@ EXCEPT !.pc = "dedup", !.text = x, !.model = chat_model]]
      BY <2>3 DEF SubmitView
    <3>2. ask'[r].pc = "dedup" /\ \A q \in Asks \ {r} : ask'[q] = ask[q]
      BY <1>0, <3>1 DEF AskRec
    <3>3. Submitters' = Submitters
      BY <3>1, <3>2 DEF Submitters
    <3> QED
      BY <1>1, <3>1, <3>3, SlotsStay
  <2>4. CASE Deduplicate(r)
    <3>1. ask[r].pc = "dedup" /\ oslots' = oslots /\ run' = run
      BY <2>4 DEF Deduplicate
    <3>2. \/ SetAsk(r, "create") \/ Answer(r)
          \/ \E t : ask' = [ask EXCEPT ![r].pc = "mark", ![r].task = t]
      BY <2>4 DEF Deduplicate
    <3>3. CASE \E t : ask' = [ask EXCEPT ![r].pc = "mark", ![r].task = t]
      <4>1. ask'[r].pc = "mark" /\ \A q \in Asks \ {r} : ask'[q] = ask[q]
        BY <1>0, <3>3 DEF AskRec
      <4>2. Submitters' = Submitters
        BY <3>1, <4>1 DEF Submitters
      <4> QED
        BY <1>1, <3>1, <4>2, SlotsStay
    <3>4. CASE Answer(r)
      <4>1. r \notin Submitters
        BY <3>1 DEF Submitters
      <4> QED
        BY <1>1, <1>5, <3>1, <3>4, <4>1, SlotsStay
    <3>5. CASE SetAsk(r, "create")
      BY <1>1, <1>6, <3>1, <3>5, SlotsStay
    <3> QED
      BY <3>2, <3>3, <3>4, <3>5
  <2>5. CASE MarkOld(r)
    BY <1>1, <1>6, <2>5, SlotsStay DEF MarkOld
  <2>6. CASE CreateAdvice(r)
    <3>1. /\ ask[r].pc = "create" /\ oslots' = oslots /\ run' = run
          /\ \E t : ask' = [ask EXCEPT ![r].pc = "slot", ![r].task = t]
      BY <2>6 DEF CreateAdvice
    <3>2. ask'[r].pc = "slot" /\ \A q \in Asks \ {r} : ask'[q] = ask[q]
      BY <1>0, <3>1 DEF AskRec
    <3>3. Submitters' = Submitters
      BY <3>1, <3>2 DEF Submitters
    <3> QED
      BY <1>1, <3>1, <3>3, SlotsStay
  <2>7. CASE TakeSlot(r)
    <3>1. ask[r].pc = "slot" /\ run' = run /\ r \notin Submitters
      BY <2>7 DEF TakeSlot, Submitters
    <3>2. CASE oslots > 0
      <4>1. oslots' = oslots - 1 /\ SetAsk(r, "submit")
        BY <2>7, <3>2 DEF TakeSlot
      <4>2. ask'[r].pc = "submit" /\ \A q \in Asks \ {r} : ask'[q] = ask[q]
        BY <1>0, <4>1 DEF SetAsk, AskRec
      <4>3. Submitters' = Submitters \cup {r}
        BY <4>2 DEF Submitters
      <4> QED
        BY <1>1, <3>1, <3>2, <4>1, <4>3, SlotTaken
    <3>3. CASE ~ (oslots > 0)
      <4>1. oslots' = oslots /\ Answer(r)
        BY <2>7, <3>3 DEF TakeSlot
      <4> QED
        BY <1>1, <1>5, <3>1, <4>1, SlotsStay
    <3> QED
      BY <3>2, <3>3
  <2>8. CASE SubmitTask(r)
    <3> DEFINE t == ask[r].task
    <3>1. /\ ask[r].pc = "submit" /\ Answer(r) /\ oslots' = oslots
          /\ run' = [run EXCEPT ![t] = [NoRun(chat_model) EXCEPT !.pc = "queued"]]
      BY <2>8 DEF SubmitTask
    <3>2. r \in Submitters /\ r \in Holding
      BY <3>1 DEF Submitters, Holding
    <3>3. t \in AdviceTask /\ run[t].pc = "off"
      BY <3>1, <3>2 DEF AdviceInv, HandInv, HeldInv
    <3> HIDE DEF t
    <3>4. run'[t].pc = "queued" /\ \A y \in Runners \ {t} : run'[y] = run[y]
      BY <1>0, <3>1, <3>3 DEF NoRun, RunRows, Runners
    <3>5. InPool' = InPool \cup {t} /\ t \notin InPool
      BY <3>3, <3>4 DEF InPool, Runners
    <3> QED
      BY <1>5, <3>1, <3>2, <3>5, SlotHandedOver
  <2>9. CASE SubmitFails(r)
    <3>1. ask[r].pc = "submit" /\ Answer(r) /\ oslots' = oslots + 1 /\ run' = run
      BY <2>9 DEF SubmitFails
    <3>2. r \in Submitters
      BY <3>1 DEF Submitters
    <3> QED
      BY <1>1, <1>5, <3>1, <3>2, SlotGivenBack
  <2> QED
    BY <1>8, <2>1, <2>2, <2>3, <2>4, <2>5, <2>6, <2>7, <2>8, <2>9 DEF AskStep
<1>9. ASSUME NEW t \in AdviceTask, TaskStep(t) PROVE SlotInv'
  <2>0. t \in Runners /\ ask' = ask
    BY <1>9 DEF Runners, TaskStep, StartTask, SaveAdvice, CacheAdvice, BookAdvice, TaskFails, LeavePool, GrowOld,
                StatusView, StatusViewMarks
  <2>1. CASE LeavePool(t)
    <3> DEFINE pc == IF run[t].pc = "leaving" THEN "over" ELSE "lost"
    <3>1. SetRun(t, pc) /\ oslots' = oslots + 1 /\ run[t].pc \in {"leaving", "spoilt"}
      BY <2>1 DEF LeavePool
    <3>2. pc \in {"over", "lost"}
      OBVIOUS
    <3> HIDE DEF pc
    <3>3. run'[t].pc = pc /\ \A y \in Runners \ {t} : run'[y] = run[y]
      BY <1>0, <2>0, <3>1 DEF SetRun, RunRows
    <3>4. t \in InPool /\ InPool' = InPool \ {t}
      BY <3>1, <3>2, <3>3 DEF InPool, Runners
    <3> QED
      BY <1>2, <2>0, <3>1, <3>4, SlotGivenBack
  <2>2. CASE GrowOld(t) \/ StatusView(t) \/ StatusViewMarks(t)
    <3>1. run' = run /\ oslots' = oslots
      BY <2>2 DEF GrowOld, StatusView, StatusViewMarks
    <3> QED
      BY <1>1, <1>2, <2>0, <3>1, SlotsStay
  <2>3. CASE StartTask(t) \/ SaveAdvice(t) \/ CacheAdvice(t) \/ BookAdvice(t) \/ TaskFails(t)
    <3>1. /\ oslots' = oslots /\ run[t].pc \in {"queued", "answered", "saved", "stored", "failed"}
          /\ \E pc \in {"client", "saved", "stored", "leaving", "spoilt"} : SetRun(t, pc) \/ record_ai_usage(t, pc)
      BY <2>3 DEF StartTask, SaveAdvice, CacheAdvice, BookAdvice, TaskFails
    <3>2. run'[t].pc \notin {"off", "over", "lost"} /\ \A y \in Runners \ {t} : run'[y] = run[y]
      <4>1. PICK pc \in {"client", "saved", "stored", "leaving", "spoilt"} :
              SetRun(t, pc) \/ record_ai_usage(t, pc)
        BY <3>1
      <4>2. CASE SetRun(t, pc)
        BY <1>0, <2>0, <4>2 DEF SetRun, RunRows
      <4>3. CASE record_ai_usage(t, pc)
        <5>1. PICK refused \in BOOLEAN :
                run' = [run EXCEPT ![t].pc = pc, ![t].refused = refused,
                                   ![t].booked = IF refused THEN @ ELSE @ + Usage(t)]
          BY <4>3 DEF record_ai_usage
        <5> DEFINE all == IF refused THEN run[t].booked ELSE run[t].booked + Usage(t)
        <5>2. run' = [run EXCEPT ![t].pc = pc, ![t].refused = refused, ![t].booked = all]
          BY <1>0, <5>1 DEF RunRows
        <5> HIDE DEF all
        <5> QED
          BY <1>0, <2>0, <5>2 DEF RunRows
      <4> QED
        BY <4>1, <4>2, <4>3
    <3>3. InPool' = InPool
      BY <3>1, <3>2, PoolStays DEF Runners
    <3> QED
      BY <1>2, <2>0, <3>1, <3>3, SlotsStay
  <2> QED
    BY <1>9, <2>1, <2>2, <2>3 DEF TaskStep
<1>10. CASE Crash
  <2>1. Submitters' = {} /\ InPool' = {} /\ oslots' = OptimizeSlots
    <3>1. \A r \in Asks : ask'[r].pc = "idle"
      BY <1>10 DEF Crash, NoAsk
    <3>2. \A t \in AdviceTask : run'[t].pc \in {"off", "over", "lost"}
      BY <1>0, <1>10 DEF Crash, RunRows, Runners
    <3> QED
      BY <1>10, <3>1, <3>2 DEF Crash, Submitters, InPool
  <2>2. IsFiniteSet({}) /\ Cardinality({}) = 0
    BY FS_EmptySet
  <2> QED
    BY <2>1, <2>2, OptimisationAssumption DEF SlotInv
<1>11. CASE (\E key \in Key : Forget(key)) \/ Switch
  BY <1>1, <1>2, <1>11, SlotsStay DEF Forget, Switch
<1>12. CASE UNCHANGED optimisationVars
  BY <1>1, <1>2, <1>12, SlotsStay DEF optimisationVars
<1> QED
  BY <1>7, <1>8, <1>9, <1>10, <1>11, <1>12 DEF OptimisationNext, Runners

\* In the beginning every slot is free.
LEMMA OptimisationBegins == OptimisationInit => RoundsInv /\ AdviceRows /\ HeldInv /\ SlotInv
<1> SUFFICES ASSUME OptimisationInit PROVE RoundsInv /\ AdviceRows /\ HeldInv /\ SlotInv
  OBVIOUS
<1>1. RoundsInv
  <2>1. chat_model \in Models
    BY DEF OptimisationInit, GatewayInit
  <2>2. \A x \in Runners : run[x] = NoRun(chat_model)
    BY DEF OptimisationInit, Runners
  <2>3. Bounded(NoRun(chat_model))
    BY <2>1, OptimisationAssumption DEF Bounded, NoRun, OpenaiClient
  <2> QED
    BY <2>2, <2>3 DEF RoundsInv
<1>2. \A r \in Asks : ask[r] = NoAsk /\ NoAsk.pc = "idle" /\ NoAsk \in AskRec
  BY DEF OptimisationInit, NoAsk, AskRec
<1>3. AdviceRows
  <2>1. ask \in [Asks -> AskRec] /\ \A r \in Asks : GoodAsk(ask[r])
    BY <1>2 DEF OptimisationInit, GoodAsk
  <2> QED
    BY <2>1, OptimisationAssumption, GatewayAssumption DEF OptimisationInit, GatewayInit, AdviceRows, NothingCached
<1>4. Holding = {} /\ Submitters = {}
  BY <1>2 DEF Holding, Submitters
<1>5. InPool = {}
  BY DEF OptimisationInit, InPool, NoRun
<1>6. IsFiniteSet({}) /\ Cardinality({}) = 0
  BY FS_EmptySet
<1> QED
  BY <1>1, <1>3, <1>4, <1>5, <1>6, OptimisationAssumption DEF HeldInv, SlotInv, OptimisationInit

\* Every reachable state of the optimisation has its types, for every number of requests, tasks, rounds and slots:
\* no semaphore exceeds its bound (_OPTIMIZE_SLOTS in sql_api/api_slowquery.py), no run costs more than its
\* rounds and the call that ends them, and what is cached is a report of a model.
THEOREM OptimisationTypes == OptimisationSpec => []OptimisationTypeOK
<1>1. AdviceInv /\ RoundsInv /\ AdviceRows /\ SlotInv => OptimisationTypeOK
  <2> SUFFICES ASSUME AdviceInv, RoundsInv, AdviceRows, SlotInv PROVE OptimisationTypeOK
    OBVIOUS
  <2>1. run \in [Asks \cup AdviceTask -> AgentRun]
    <3>1. run \in RunRows /\ AgentRounds \in Nat
      BY OptimisationAssumption DEF AdviceInv, ShapeInv
    <3>2. ASSUME NEW x \in Runners PROVE run[x] \in AgentRun
      <4>1. run[x] \in [pc : AgentPC, client : [model : Models, last_usage : Nat, total_usage : Nat],
                        rounds : Nat, booked : Nat, refused : BOOLEAN]
        BY <3>1 DEF RunRows
      <4>2. Bounded(run[x])
        BY DEF RoundsInv
      <4>3. /\ run[x].client.last_usage \in Cost /\ run[x].client.total_usage \in Cost
            /\ run[x].booked \in Cost /\ run[x].rounds \in 0..AgentRounds
        BY <3>1, <4>1, <4>2 DEF Bounded, Cost
      <4>4. run[x].client \in AIClient
        BY <4>1, <4>3 DEF AIClient
      <4> QED
        BY <4>1, <4>3, <4>4 DEF AgentRun
    <3> QED
      BY <3>1, <3>2 DEF RunRows, Runners
  <2>2. oslots \in 0..OptimizeSlots
    <3>1. /\ oslots \in Nat /\ oslots + Cardinality(Submitters) + Cardinality(InPool) = OptimizeSlots
          /\ Cardinality(Submitters) \in Nat /\ Cardinality(InPool) \in Nat
      BY PoolCounted, FS_CardinalityType DEF SlotInv
    <3> QED
      BY <3>1, OptimisationAssumption
  <2> QED
    BY <2>1, <2>2 DEF OptimisationTypeOK, GatewayTypeOK, AdviceInv, ShapeInv, AdviceRows
<1> QED
  BY <1>1, AdviceInit, AdviceNext, OptimisationBegins, RoundsNext, AdviceRowsNext, HeldNext, SlotNext, PTL
     DEF OptimisationSpec

-----------------------------------------------------------------------------
(* The types of the review: how long its sequences are.                    *)

\* Sequences within their bound.
LEMMA SeqIsUpTo ==
  ASSUME NEW S, NEW n \in Nat, NEW s \in Seq(S), Len(s) <= n
  PROVE  s \in SeqUpTo(S, n)
<1>1. Len(s) \in 0..n /\ s \in [1..Len(s) -> S]
  OBVIOUS
<1> QED
  BY <1>1 DEF SeqUpTo

\* And what the bound says of them.
LEMMA UpToIsShort ==
  ASSUME NEW S, NEW n \in Nat, NEW s \in SeqUpTo(S, n)
  PROVE  s \in Seq(S) /\ Len(s) <= n
<1>1. PICK k \in 0..n : s \in [1..k -> S]
  BY DEF SeqUpTo
<1>2. s \in Seq(S) /\ Len(s) = k
  BY <1>1
<1> QED
  BY <1>2

\* A ticket is as long as allowed, and a check that does not work has no place and no results.
Sized(r) ==
  /\ Len(r.sqls) <= MaxScript
  /\ r.pc \notin Working => r.at = 0
  /\ r.pc \notin {"single", "attach"} => r.results = <<>>

ReviewSizes ==
  /\ \A c \in Checks : Sized(check[c])
  /\ DOMAIN kept \subseteq BatchKey
  /\ checks \in 0..MaxChecks

\* A batch that is at work is one that the cache may have.
LEMMA BatchIsKey ==
  ASSUME NEW c \in Checks, GoodCheck(check[c]), check[c].at < EligibleOf(check[c]), check[c].model \in ReviewModels
  PROVE  KeyOf(c) \in BatchKey
<1>1. /\ BatchOf(c) \in Seq(Sqls) /\ Len(BatchOf(c)) = EndOf(check[c]) - check[c].at
      /\ EndOf(check[c]) \in (check[c].at + 1)..EligibleOf(check[c]) /\ check[c].at \in Nat
      /\ EligibleOf(check[c]) \in 0..Len(check[c].sqls) /\ check[c].sqls \in Seq(Sqls)
  BY BatchFacts DEF GoodCheck, CheckShape
<1>2. Batch \in Nat
  BY ReviewAssumption
<1>3. EndOf(check[c]) <= check[c].at + Batch
  BY <1>1, <1>2 DEF EndOf
<1>4. Len(BatchOf(c)) <= Batch /\ Len(BatchOf(c)) > 0
  BY <1>1, <1>2, <1>3
<1>5. BatchOf(c) \in SeqUpTo(Sqls, Batch) /\ BatchOf(c) # <<>>
  BY <1>1, <1>2, <1>4, SeqIsUpTo
<1> QED
  BY <1>5 DEF KeyOf, BatchKey, Batches

\* A check that gets another record of its size.
LEMMA SizesGo ==
  ASSUME ReviewInv, \A d \in Checks : Sized(check[d]), NEW c \in Checks, NEW new,
         check' = [check EXCEPT ![c] = new], Sized(new)
  PROVE  \A d \in Checks : Sized(check[d])'
<1>1. \A d \in Checks : check'[d] = IF d = c THEN new ELSE check[d]
  BY DEF ReviewInv
<1> QED
  BY <1>1 DEF Sized

\* New results of a check at work leave its size as it is.
LEMMA ResultsKeepSizes ==
  ASSUME ReviewInv, \A d \in Checks : Sized(check[d]), NEW c \in Checks, NEW results,
         NEW pc \in {"call", "single", "attach"}, pc = "call" => results = <<>>, SetResults(c, results, pc)
  PROVE  \A d \in Checks : Sized(check[d])'
<1> DEFINE new == [check[c] EXCEPT !.results = results, !.pc = pc]
<1>1. check[c] \in CheckShape /\ Sized(check[c])
  BY DEF ReviewInv
<1>2. new.sqls = check[c].sqls /\ new.at = check[c].at /\ new.pc = pc /\ new.results = results
  BY <1>1 DEF CheckShape
<1>3. check' = [check EXCEPT ![c] = new]
  BY DEF ReviewInv, SetResults
<1> HIDE DEF new
<1>4. Sized(new)
  BY <1>1, <1>2 DEF Sized, Working
<1> QED
  BY <1>3, <1>4, SizesGo

\* So do the marks of a batch, with which its results go.
LEMMA MarkBatchKeepsSizes ==
  ASSUME ReviewInv, \A d \in Checks : Sized(check[d]), NEW c \in Checks, NEW levels, MarkBatch(c, levels)
  PROVE  \A d \in Checks : Sized(check[d])'
<1> DEFINE marks == [i \in 1..Len(check[c].marks) |-> IF i \in (check[c].at + 1)..BatchEnd(c)
                                                     THEN levels[i - check[c].at] ELSE check[c].marks[i]]
           end == BatchEnd(c)
<1>1. check[c] \in CheckShape /\ Sized(check[c])
  BY DEF ReviewInv
<1>2. check' = [check EXCEPT ![c].pc = "batch", ![c].at = end, ![c].results = <<>>, ![c].marks = marks]
  BY DEF MarkBatch, ReviewInv
<1> HIDE DEF marks, end
<1> DEFINE new == [check[c] EXCEPT !.pc = "batch", !.at = end, !.results = <<>>, !.marks = marks]
<1>3. check' = [check EXCEPT ![c] = new]
  BY <1>2 DEF ReviewInv
<1>4. new.sqls = check[c].sqls /\ new.pc = "batch" /\ new.results = <<>>
  BY <1>1 DEF CheckShape
<1> HIDE DEF new
<1>5. Sized(new)
  BY <1>1, <1>4 DEF Sized, Working
<1> QED
  BY <1>3, <1>5, SizesGo

\* In the beginning nothing is checked and nothing kept.
LEMMA SizesInit == ReviewInit => ReviewSizes
<1> SUFFICES ASSUME ReviewInit PROVE ReviewSizes
  OBVIOUS
<1>1. Len(NoCheck.sqls) = 0 /\ NoCheck.at = 0 /\ NoCheck.results = <<>>
  BY DEF NoCheck
<1>2. \A c \in Checks : Sized(check[c])
  BY <1>1, ReviewAssumption DEF ReviewInit, Sized
<1> QED
  BY <1>2, ReviewAssumption DEF ReviewInit, ReviewSizes, NothingKept

\* Every step keeps the sizes.
LEMMA SizesNext == ReviewInv /\ ReviewSizes /\ [ReviewNext]_reviewVars => ReviewSizes'
<1> SUFFICES ASSUME ReviewInv, ReviewSizes, [ReviewNext]_reviewVars PROVE ReviewSizes'
  OBVIOUS
<1>0. \A c \in Checks : check[c] \in CheckShape /\ GoodCheck(check[c]) /\ Sized(check[c])
  BY DEF ReviewInv, ReviewSizes
<1>1. CASE UNCHANGED reviewVars
  BY <1>1 DEF reviewVars, ReviewSizes, Sized
<1>2. ASSUME NEW c \in Checks, CheckStep(c) PROVE ReviewSizes'
  <2>1. CASE run_ai_review(c)
    <3>1. PICK sqls \in SeqUpTo(Sqls, MaxScript) \ {<<>>}, model \in ReviewModels :
             check' = [check EXCEPT ![c] =
               [NoCheck EXCEPT !.pc = "batch", !.sqls = sqls, !.model = model,
                !.marks = [i \in 1..Len(sqls) |-> IF i <= MaxReviewed THEN Unmarked ELSE Unknown]]]
      BY <2>1 DEF run_ai_review
    <3> DEFINE new == [NoCheck EXCEPT !.pc = "batch", !.sqls = sqls, !.model = model,
                       !.marks = [i \in 1..Len(sqls) |-> IF i <= MaxReviewed THEN Unmarked ELSE Unknown]]
    <3>2. new.pc = "batch" /\ new.sqls = sqls /\ new.results = <<>>
      BY DEF NoCheck
    <3>3. Len(sqls) <= MaxScript
      BY UpToIsShort, ReviewAssumption
    <3> HIDE DEF new
    <3>4. Sized(new)
      BY <3>2, <3>3 DEF Sized, Working
    <3>5. \A d \in Checks : Sized(check[d])'
      BY <3>1, <3>4, SizesGo DEF ReviewSizes, new
    <3>6. checks < MaxChecks /\ checks' = checks + 1 /\ kept' = kept
      BY <2>1 DEF run_ai_review
    <3>7. checks \in Nat /\ checks' \in 0..MaxChecks
      BY <3>6, ReviewAssumption DEF ReviewSizes
    <3> QED
      BY <3>5, <3>6, <3>7 DEF ReviewSizes
  <2>2. CASE Hit(c)
    BY <2>2, ResultsKeepSizes DEF Hit, ReviewSizes
  <2>3. CASE Miss(c)
    BY <2>3, ResultsKeepSizes DEF Miss, ReviewSizes
  <2>4. CASE AskBatch(c)
    BY <2>4, ResultsKeepSizes DEF AskBatch, ReviewSizes
  <2>5. CASE AskBatchFails(c)
    BY <2>5, ResultsKeepSizes DEF AskBatchFails, ReviewSizes
  <2>6. CASE AskOne(c)
    BY <2>6, ResultsKeepSizes DEF AskOne, ReviewSizes
  <2>7. CASE KeepBatch(c)
    <3>1. check[c].pc = "single" /\ SetResults(c, check[c].results, "attach") /\ checks' = checks
      BY <2>7 DEF KeepBatch
    <3>2. check[c].at < EligibleOf(check[c]) /\ check[c].model \in ReviewModels
      BY <1>0, <3>1 DEF GoodCheck
    <3>3. KeyOf(c) \in BatchKey
      BY <1>0, <3>2, BatchIsKey
    <3>4. DOMAIN kept' \subseteq DOMAIN kept \cup {KeyOf(c)}
      BY <2>7 DEF KeepBatch
    <3>5. \A d \in Checks : Sized(check[d])'
      BY <3>1, ResultsKeepSizes DEF ReviewSizes
    <3> QED
      BY <3>1, <3>3, <3>4, <3>5 DEF ReviewSizes
  <2>8. CASE Attach(c)
    BY <2>8, MarkBatchKeepsSizes DEF Attach, ReviewSizes
  <2>9. CASE ContextFails(c)
    BY <2>9, MarkBatchKeepsSizes DEF ContextFails, ReviewSizes
  <2>10. CASE OneContextFails(c)
    BY <2>10, ResultsKeepSizes DEF OneContextFails, ReviewSizes
  <2>11. CASE Told(c)
    <3> DEFINE new == [check[c] EXCEPT !.pc = "told", !.at = 0]
    <3>1. check' = [check EXCEPT ![c] = new] /\ check[c].pc = "batch" /\ UNCHANGED <<kept, checks>>
      BY <2>11 DEF Told, ReviewInv
    <3>2. new.sqls = check[c].sqls /\ new.at = 0 /\ new.pc = "told" /\ new.results = check[c].results
      BY <1>0 DEF CheckShape
    <3> HIDE DEF new
    <3>3. Sized(new)
      BY <1>0, <3>1, <3>2 DEF Sized
    <3> QED
      BY <3>1, <3>3, SizesGo DEF ReviewSizes
  <2>12. CASE SubmitChecked(c)
    <3>1. PICK sqls \in SeqUpTo(Sqls, MaxScript) \ {<<>>} :
             check' = [check EXCEPT ![c] =
               [@ EXCEPT !.pc = "submitted", !.sqls = sqls, !.marks = _merge_ai_review_fields(c, sqls),
                         !.checked = {check[c].sqls[j] : j \in 1..Len(check[c].sqls)}]]
      BY <2>12 DEF SubmitChecked
    <3> DEFINE marks == _merge_ai_review_fields(c, sqls)
               checked == {check[c].sqls[j] : j \in 1..Len(check[c].sqls)}
               new == [check[c] EXCEPT !.pc = "submitted", !.sqls = sqls, !.marks = marks, !.checked = checked]
    <3>2. check' = [check EXCEPT ![c] = new] /\ check[c].pc = "told" /\ UNCHANGED <<kept, checks>>
      BY <2>12, <3>1 DEF SubmitChecked, ReviewInv
    <3> HIDE DEF marks, checked
    <3>3. new.sqls = sqls /\ new.at = check[c].at /\ new.pc = "submitted" /\ new.results = check[c].results
      BY <1>0 DEF CheckShape
    <3>4. Len(sqls) <= MaxScript
      BY UpToIsShort, ReviewAssumption
    <3> HIDE DEF new
    <3>5. Sized(new)
      BY <1>0, <3>2, <3>3, <3>4 DEF Sized, Working
    <3> QED
      BY <3>2, <3>5, SizesGo DEF ReviewSizes
  <2> QED
    BY <1>2, <2>1, <2>2, <2>3, <2>4, <2>5, <2>6, <2>7, <2>8, <2>9, <2>10, <2>11, <2>12 DEF CheckStep
<1> QED
  BY <1>1, <1>2 DEF ReviewNext

\* Every reachable state of the review has its types (sql/utils/ai_review.py): batches, their results and
\* what is kept are never longer than BATCH_SIZE, and a row's marks never more than its statements.
THEOREM ReviewTypes == ReviewSpec => []ReviewTypeOK
<1>1. ReviewInv /\ ReviewSizes => ReviewTypeOK
  <2> SUFFICES ASSUME ReviewInv, ReviewSizes PROVE ReviewTypeOK
    OBVIOUS
  <2>0. Batch \in Nat /\ MaxScript \in Nat /\ MaxReviewed \in Nat
    BY ReviewAssumption
  <2>1. ASSUME NEW c \in Checks PROVE check[c] \in CheckRec
    <3> DEFINE r == check[c]
    <3>1. r \in CheckShape /\ GoodCheck(r) /\ Sized(r)
      BY DEF ReviewInv, ReviewSizes
    <3> HIDE DEF r
    <3>2. r.sqls \in Seq(Sqls) /\ Len(r.sqls) <= MaxScript /\ Len(r.sqls) \in Nat /\ r.at \in Nat
      BY <3>1 DEF CheckShape, Sized
    <3>3. r.sqls \in SeqUpTo(Sqls, MaxScript)
      BY <2>0, <3>2, SeqIsUpTo
    <3>4. r.marks \in SeqUpTo(Mark, MaxScript)
      <4>1. r.marks \in Seq(Mark) /\ Len(r.marks) = Len(r.sqls)
        BY <3>1 DEF CheckShape, GoodCheck, MarksFit
      <4> QED
        BY <2>0, <3>2, <4>1, SeqIsUpTo
    <3>5. r.at \in 0..MaxScript
      <4>1. r.pc \in Working => r.at <= EligibleOf(r)
        BY <3>1 DEF GoodCheck
      <4>2. EligibleOf(r) <= Len(r.sqls) /\ EligibleOf(r) \in Nat
        BY <2>0, <3>2 DEF EligibleOf
      <4> QED
        BY <2>0, <3>1, <3>2, <4>1, <4>2 DEF Sized
    <3>6. r.results \in SeqUpTo(Verdict \cup {Unknown, Missing, Broken}, Batch)
      <4>1. r.results \in Seq(Verdict \cup {Unknown, Missing, Broken})
        BY <3>1 DEF CheckShape
      <4>2. CASE r.pc \notin {"single", "attach"}
        <5>1. r.results = <<>>
          BY <3>1, <4>2 DEF Sized
        <5>2. Len(r.results) = 0
          BY <5>1
        <5>3. Len(r.results) <= Batch
          BY <2>0, <5>2
        <5> QED
          BY <2>0, <4>1, <5>3, SeqIsUpTo
      <4>3. CASE r.pc \in {"single", "attach"}
        <5>1. DOMAIN r.results = 1..(EndOf(r) - r.at) /\ r.at < EligibleOf(r)
          BY <3>1, <4>3 DEF GoodCheck, ResultsFit
        <5>2. EndOf(r) \in Nat /\ EndOf(r) <= r.at + Batch /\ EndOf(r) > r.at
          BY <2>0, <3>2, <5>1, ReviewAssumption DEF EndOf, EligibleOf
        <5>3. Len(r.results) = EndOf(r) - r.at
          <6>1. DOMAIN r.results = 1..Len(r.results) /\ Len(r.results) \in Nat /\ EndOf(r) - r.at \in Nat
            BY <3>2, <4>1, <5>2
          <6>2. ASSUME NEW a \in Nat, NEW b \in Nat, 1..a = 1..b PROVE a = b
            BY <6>2
          <6> QED
            BY <5>1, <6>1, <6>2
        <5>4. Len(r.results) <= Batch
          BY <2>0, <3>2, <5>2, <5>3
        <5> QED
          BY <2>0, <4>1, <5>4, SeqIsUpTo
      <4> QED
        BY <4>2, <4>3
    <3>7. r \in CheckRec
      BY <3>1, <3>3, <3>4, <3>5, <3>6 DEF CheckShape, CheckRec, Working
    <3> QED
      BY <3>7 DEF r
  <2>2. check \in [Checks -> CheckRec]
    BY <2>1 DEF ReviewInv
  <2>3. ASSUME NEW key \in DOMAIN kept PROVE kept[key] \in SeqUpTo(Verdict \cup {Unknown}, Batch)
    <3>1. PICK m \in ReviewModels, sqls \in Batches : key = <<m, sqls>>
      BY DEF ReviewSizes, BatchKey
    <3>2. sqls \in Seq(Sqls) /\ Len(sqls) <= Batch
      BY <2>0, UpToIsShort DEF Batches
    <3>3. kept[key] \in Seq(Verdict \cup {Unknown}) /\ Len(kept[key]) = Len(sqls)
      BY <3>1, <3>2 DEF ReviewInv, KeptFits
    <3> QED
      BY <2>0, <3>2, <3>3, SeqIsUpTo
  <2> QED
    BY <2>2, <2>3 DEF ReviewTypeOK, ReviewSizes
<1> QED
  BY <1>1, VerdictsInit, VerdictsNext, SizesInit, SizesNext, PTL DEF ReviewSpec

-----------------------------------------------------------------------------
(* The composition: what is true of a part is true of the whole.           *)

\* The services share no state: the composition implements each of them, so that all that is proved of
\* them is true of what the run explores.
THEOREM ServicesAreTheirParts == ServicesSpec => Spec /\ OptimisationSpec /\ ReviewSpec
<1>1. ServicesInit => Init /\ OptimisationInit /\ ReviewInit
  BY DEF ServicesInit
<1>2. [ServicesNext]_<<part, vars, optimisationVars, reviewVars>>
        => [Next]_vars /\ [OptimisationNext]_optimisationVars /\ [ReviewNext]_reviewVars
  BY Zenon DEF ServicesNext
<1> QED
  BY <1>1, <1>2, PTL DEF ServicesSpec, Spec, OptimisationSpec, ReviewSpec

\* Every state that the run of the services may reach has their types, whichever is chosen and for every
\* number of requests, models, rounds, slots, statements and sizes of a batch.
THEOREM ServicesTypes == ServicesSpec => []ServicesTypeOK
<1>1. OptimisationTypeOK /\ ReviewTypeOK => ServicesTypeOK
  BY DEF ServicesTypeOK
<1> QED
  BY <1>1, ServicesAreTheirParts, OptimisationTypes, ReviewTypes, PTL
=============================================================================
