\* One process, one request at a time; the way chosen is oidc.
SPECIFICATION ReloadSpec
CONSTANTS
  Procs = {w1}
  NoProc = none
  Admins = {h1}
  Providers = {"oidc"}
  Values = {"a"}
  LdapInstalled = TRUE
  MaxSaves = 2
  MaxBreaks = 0
PROPERTY FailedReloadRestores
CHECK_DEADLOCK FALSE
