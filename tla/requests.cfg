\* Two applications and their queries, one archive, two web processes that reload; two
\* requests at a time, one of which may die.
SPECIFICATION MCSpec
CONSTANTS
  app = app
  dev = dev
  dba = dba
  g1 = g1
  g2 = g2
  Users <- MCUsers
  Groups <- MCGroups
  Chain <- MCChain
  Submitter = app
  Superusers = {}
  ReviewPerm <- MCUsers
  MembersOf <- MCMembersOf
  ResourceMembers <- MCUsers
  BanSelfAudit = FALSE
  Dbs = {"d"}
  Tables = {"t1", "t2"}
  AnyDb = "*"
  WholeDb = "all"
  Applies = {1, 2}
  Form <- MCForm
  Reviews = {h1, h2}
  MaxLimit = 2
  LastDay = 2
  MaxModifies = 1
  MaxLost = 1
  Visits = {h1, h2}
  MaxRuns = 2
  MaxSwitches = 2
  MaxCrashes = 1
  Procs = {w1, w2}
  NoProc = none
  Admins = {h1, h2}
  Providers = {"ldap"}
  Values = {"a"}
  LdapInstalled = TRUE
  MaxSaves = 2
  MaxBreaks = 2
CONSTRAINT Apart
SYMMETRY RequestSymmetry
INVARIANTS
  RequestsTypeOK
  QueriesAreReviewed
  DecisionsAgree
  CheckedRunsAreReviewed
  UserLinesSurvive
PROPERTIES
  ReloadIsAllOrNothing
CHECK_DEADLOCK FALSE
