\* All three collectors, two rounds that may overlap, one row to a batch, three ticks to
\* a second, so that the cursor is rounded up, rounded down or exact.  Next to that two
\* workers of the aggregation, whose rounds may last two ticks, and one cleaning.
SPECIFICATION MCSpec
CONSTANTS
  Kinds = {"mysql", "mongo", "redis"}
  Rounds = {r1, r2}
  Dbs = {d1, d2}
  Limit = 1
  PerSecond = 3
  MaxNow = 6
  MaxRows = 2
  MaxFaults = 1
  Aggregators = {w1, w2}
  Prints = {f1}
  Timeout = 2
  Retention = 2
  MaxDetails = 2
  MaxClock = 3
  MaxCleanings = 1
  MaxBreaks = 1
SYMMETRY CollectorSymmetry
INVARIANTS
  PassedWereCollected
  RoundsAreThorough
  RoundsAreAlone
  SummariesTellDetails
CHECK_DEADLOCK FALSE
