\* Requests one after the other; the schedule and the workers as they come.
SPECIFICATION CalmSpec
CONSTANTS
  eng = eng
  dev = dev
  dba = dba
  root = root
  g1 = g1
  g2 = g2
  g3 = g3
  Users <- MCUsers
  Groups <- MCGroups
  Chain <- MCChain
  Submitter = eng
  Superusers <- MCSuperusers
  ReviewPerm <- MCReviewPerm
  MembersOf <- MCMembersOf
  ResourceMembers <- MCResourceMembers
  BanSelfAudit = TRUE
  Req = {h1, h2}
  Executors <- MCExecutors
  Exports = {FALSE, TRUE}
  Workers = 2
  MaxAsks = 3
  MaxDeaths = 0
INVARIANTS
  RunsOnceUnlessCrossed
  ResultIsOfRunUnlessCrossed
PROPERTIES
  CancelledNeverStarts
  SignaturesInTurn
CHECK_DEADLOCK FALSE
