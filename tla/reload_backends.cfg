\* One process, one request at a time: ldap, and local accounts again.
SPECIFICATION ReloadSpec
CONSTANTS
  Procs = {w1}
  NoProc = none
  Admins = {h1}
  Providers = {"ldap"}
  Values = {"a"}
  LdapInstalled = TRUE
  MaxSaves = 2
  MaxBreaks = 0
PROPERTY ReloadActsAsStart
CHECK_DEADLOCK FALSE
