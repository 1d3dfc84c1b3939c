\* One round after the other over one database that logs two slow operations.
SPECIFICATION Spec
CONSTANTS
  Kinds = {"mongo"}
  Rounds = {r1}
  Dbs = {d1}
  Limit = 2
  PerSecond = 4
  MaxNow = 8
  MaxRows = 2
  MaxFaults = 0
INVARIANT NothingIsPassedOver
CHECK_DEADLOCK FALSE
