\* Two execute requests of the same ticket.
SPECIFICATION Spec
CONSTANTS
  eng = eng
  dev = dev
  dba = dba
  root = root
  g1 = g1
  g2 = g2
  Users <- MCUsers
  Groups <- MCGroups
  Chain <- MCChain
  Submitter = eng
  Superusers <- MCSuperusers
  ReviewPerm <- MCReviewPerm
  MembersOf <- MCMembersOf
  ResourceMembers <- MCResourceMembers
  BanSelfAudit = TRUE
  Req = {h1, h2}
  Executors <- MCExecutors
  Exports = {FALSE}
  Workers = 2
  MaxAsks = 2
  MaxDeaths = 0
INVARIANT AtMostOneRun
CHECK_DEADLOCK FALSE
