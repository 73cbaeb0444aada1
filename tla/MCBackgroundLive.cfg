CONSTANTS
  SyncWorkers = {k1, k2}
  Backends = {b1}
  Windows <- MCWindows
  SyncPeriods <- MCWindows
  LastDay = 1
  LogWindow = 1
  MaxUsage = 1
  MaxSyncFaults = 1
  NoWorker = none
  Imports = {j1, j2}
  Importers = {k1, k2}
  FirstDay = 1
  FinalDay = 3
  WindowDays = 2
  PoisonedImports = {j1}
  MaxScanFailures = 1
  MaxImportFaults = 1
  NoImporter = none
  RealtimeWorkers = {k1, k2}
  Requests = {q1}
  RequestDay <- MCRequestDay
  StreamLimit = 1
  LastRealtimeDay = 1
  MaxRealtimeFaults = 1
  NoHolder = none
  SettlementWorkers = {k1}
  MinutesPerDay = 2
  LastMinute = 5
  RequestMinutes = {3}
  SettleDelay = 1
  MaxSettlementFaults = 2
  Jobs = {j1, j2}
  Workers = {w1, w2}
  MaxAttempts = 2
  BatchLimit = 2
  Stalls = TRUE
  Creates = {c1, c2, c3}
  NoLock = none
SPECIFICATION MCFairSpec
INVARIANTS OutboxTypeOK OneHolder TriesAreBounded
PROPERTIES
  ClaimsEnd BackfillCompletes RealtimeArrives JobsAreSettled WaitersProceed SettledIsFinal
CHECK_DEADLOCK FALSE
