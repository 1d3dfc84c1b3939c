\* Diagnosis: two web processes with one slot each, a poller, the sweep, one fault.  Optimisation:
\* two requests, two models and a switch, one slot, one crash.  Review: two checks of a ticket.
SPECIFICATION ServicesSpec
CONSTANTS
  Procs = {w1, w2}
  Keys = {q1}
  Slots = 1
  Workers = 1
  Pollers = {poll}
  Sweeper = sweep
  RunningLimit = 0
  PendingLimit = 1
  MaxTasks = 2
  MaxFaults = 1
  Models = {m1, m2}
  MaxSwitches = 1
  Asks = {k1, k2}
  Texts = {"s", "q"}
  Agentic = {"s"}
  AgentRounds = 1
  OptimizeSlots = 1
  OptimizeWorkers = 1
  NoText = "none"
  MaxAdvice = 2
  MaxAsked = 2
  MaxCrashes = 1
  ReviewModels = {m1, m2}
  Checks = {c1}
  Sqls = {s1, s2}
  Batch = 2
  MaxReviewed = 3
  NoModelYet = NoModelYet
  NoSql = NoSql
  MaxChecks = 2
  MaxScript = 4
SYMMETRY ServicesSymmetry
INVARIANTS
  ServicesTypeOK
  SlotsConserved
  SuccessHasReport
  ReportsTellTheirModel
  CostsAreBooked
  VerdictsAreTheModels
CHECK_DEADLOCK FALSE
