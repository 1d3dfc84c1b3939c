\* Every endpoint, two requests in flight, both kinds of ticket, one death.
SPECIFICATION Spec
CONSTANTS
  eng = eng
  dev = dev
  dba = dba
  root = root
  g1 = g1
  g2 = g2
  Users <- MCUsers
  Groups <- MCGroups
  Chain <- MCChain
  Submitter = eng
  Superusers <- MCSuperusers
  ReviewPerm <- MCReviewPerm
  MembersOf <- MCMembersOf
  ResourceMembers <- MCResourceMembers
  BanSelfAudit = TRUE
  Req = {h1, h2}
  Executors <- MCExecutors
  Exports = {FALSE, TRUE}
  Workers = 2
  MaxAsks = 2
  MaxDeaths = 1
SYMMETRY ReqSymmetry
INVARIANTS
  ApprovedBeforeRun
  ShownPassedWereSigned
  ExecutingHasOwner
CHECK_DEADLOCK FALSE
