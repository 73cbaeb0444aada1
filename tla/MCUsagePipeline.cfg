CONSTANTS
  SyncWorkers = {k1, k2}
  Backends = {b1, b2}
  Windows <- MCWindows
  SyncPeriods <- MCPeriods
  LastDay = 2
  LogWindow = 1
  MaxUsage = 2
  MaxSyncFaults = 1
  NoWorker = none
  Imports = {j1, j2}
  Importers = {k1, k2}
  FirstDay = 1
  FinalDay = 5
  WindowDays = 2
  PoisonedImports = {j1}
  MaxScanFailures = 1
  MaxImportFaults = 2
  NoImporter = none
  PageSize = 2
  MaxPages = 4
  BatchPages = 3
  OldRows = 9
  LateRows = 1
  RealtimeWorkers = {k1, k2}
  Requests = {q1, q2}
  RequestDay <- MCRequestDay
  StreamLimit = 1
  LastRealtimeDay = 1
  MaxRealtimeFaults = 1
  NoHolder = none
  SettlementWorkers = {k1, k2}
  MinutesPerDay = 2
  LastMinute = 5
  RequestMinutes = {2, 3}
  SettleDelay = 1
  MaxSettlementFaults = 2
  Viewers = {w1, w2}
  Refreshes = {x1, x2}
  Ledgers = {c1}
  MaxCostWrites = 2
  MaxRefreshFaults = 1
  NoRefresh = none
  Askers = {w1, w2}
  Builds = {x1, x2}
  Ingests = {c1, c2}
  MaxIngests = 2
  NoBuild = none
  Attempts = {x1, x2}
  Statuses = {ok, bad}
  Flushers = {w1, w2}
  BatchMax = 2
  MaxQueue = 2
  MaxPushFaults = 1
  Plans = {x1, x2}
  Years = {1, 2}
  Measurements = {c1, c2}
  SavingsDays = {1, 2, 3}
  Editors = {w1, w2}
  MaxPlanEdits = 6
SPECIFICATION MCSpec
INVARIANTS
  PipelineTypeOK SyncIsSound ScanIsAccurate SeenIsKept
  DayWatermarkIsEarned DashboardsShowTheRows CostRulesHold
PROPERTIES
  FiguresNeverRegress
  ImplementsImportProgress
  ShownStays
CHECK_DEADLOCK FALSE
