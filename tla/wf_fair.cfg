\* Two requests in flight, one worker, nothing dies; the engine may never answer.
SPECIFICATION FairSpec
CONSTANTS
  eng = eng
  dev = dev
  dba = dba
  root = root
  g1 = g1
  g2 = g2
  Users <- MCUsers
  Groups <- MCGroups
  Chain <- MCShortChain
  Submitter = eng
  Superusers <- MCSuperusers
  ReviewPerm <- MCReviewPerm
  MembersOf <- MCMembersOf
  ResourceMembers <- MCResourceMembers
  BanSelfAudit = TRUE
  Req = {h1, h2}
  Executors <- MCExecutors
  Exports = {FALSE, TRUE}
  Workers = 1
  MaxAsks = 2
  MaxDeaths = 0
PROPERTIES
  ReleaseIsHonoured
  ExecutionEnds
CHECK_DEADLOCK FALSE
