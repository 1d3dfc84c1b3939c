\* One web process, one slot, a poller, the sweep, one fault; time passes.
SPECIFICATION FairSpec
CONSTANTS
  Procs = {w1}
  Keys = {q1}
  Slots = 1
  Workers = 1
  Pollers = {poll}
  Sweeper = sweep
  RunningLimit = 1
  PendingLimit = 2
  MaxTasks = 2
  MaxFaults = 1
PROPERTIES
  Settles
  PoolRecovers
CHECK_DEADLOCK FALSE
