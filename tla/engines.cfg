SPECIFICATION MCSpec
CONSTANTS
  Objects <- MCObjects
  Menu <- MCMenu
  Schemas <- MCSchemas
  MaxStatements = 3
  MaxFaults = 1
  QueryEngines <- MCQueryEngines
  QueryMenu <- MCQueryMenu
  MaxRows = 3
  DefaultSize = 1
  PageSize = 2
  MaxExportRows = 2
  SheetRows = 2
  MaxMoves = 1
  Storages = {"files", "bucket", "typo"}
  KindOf <- MCKindOf
  NoPlace = NoPlace
  Visits = {v1, v2}
  Accounts = {a1, a2}
  Passwords = {"secret", "it's"}
  Escaped <- MCEscaped
  Scopes = {"d", "t"}
  Databases = {"d"}
  Owners = {"o", "p"}
  Settings = {"8", "8m", "9"}
  Plain <- MCPlain
  NoPassword = NoPassword
  NoOwner = NoOwner
  NoAccount = NoAccount
  MaxVisits = 3
  MaxCuts = 1
  TableNames = {"t", "u", "b'd"}
  BadNames = {"b'd"}
  DiffSchemas <- MCDiffSchemas
  NoTable = NoTable
  MaxDrifts = 1
  Binlog = {1, 2}
  TableOf <- MCTableOf
  Viewers = {"u", "su"}
  Admins = {"su"}
  NoViewer = NoViewer
  DefaultNum = 1
  Downloads = {1, 2}
  MaxZips = 1
SYMMETRY MCSymmetry
INVARIANTS
  EnginesTypeOK
  NothingAfterFailure
  ResultTellsWhatHappened
  FinishMeansDone
  CriticalNeverRuns
  CheckFollowsTheTicket
  RowsWithinLimit
  QueriesChangeNothing
  AnswersAreAccounted
  RecordsTellTheServer
  ExportIsWhole
  PatchesDoWhatTheySay
  SqlIsWhole
CHECK_DEADLOCK FALSE
