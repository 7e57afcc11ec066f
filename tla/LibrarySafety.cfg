CONSTANTS
  b1 = b1
  b2 = b2
  b3 = b3
  au = au
  au2 = au2
  na = na
  se = se
  pu = pu
  co = co
  co2 = co2
  p1 = p1
  p2 = p2
  a1 = a1
  a2 = a2
  a3 = a3
  Nothing = Nothing
  Books = {b1, b2, b3}
  Parts = {"bridge", "tasks", "tables", "listening", "replay", "browse", "doctor", "companions", "excerpts", "jingles", "spoken", "copies", "figures", "reports", "shelf", "dag"}
  Calls = {c1}
  Hosts = {"modern", "old", "bare"}
  Kinds = {"status", "languages", "complete", "structured", "stream", "locale", "install", "window", "detect", "read", "transcode"}
  Snapshots <- MCSnapshots
  MaxGot = 3
  Tasks <- MCTasks
  Interval <- MCInterval
  MaxBackoff = 2
  MaxFails = 3
  MaxStops = 1
  Rows = {r1, r2}
  Devices = {d1, d2}
  MaxClock = 2
  MaxReports = 2
  Patchers = {p1}
  BookEdits <- MCBookEdits
  CollEdits <- MCCollEdits
  NewColls <- MCNewColls
  MaxColls = 2
  MaxOps = 2
  MaxFaults = 2
  BookFacts <- MCBookFacts
  EntityFacts <- MCEntityFacts
  OpFacts <- MCOpFacts
  Views <- MCViews
  Limits = {5}
  MaxLimit = 2
  Queries <- MCQueries
  Records = {r1, r2}
  Budget = 1
  MaxDetails = 1
  Parent <- MCParent
  AudioFiles <- MCAudioFiles
  Heads = {"PK mimetype", "PK"}
  MaxTurns = 2
  MaxScans = 2
  Names = {"Ada"}
  MinFrequency = 2
  MaxTokens = 5
  Bits = {1}
  MaxHashes = 4
  Threshold = 60
  NeedleHashes = 1
  MaxGap = 1
  Letters = {"a", "b", "I"}
  PhraseLists <- MCPhraseLists
  ScanSecs = 4
  WindowSecs = 4
  Durations = {4, 6}
  MaxRuns = 4
  TopN = 2
  Columns <- MCColumns
  MaxChanged = 2
  Writers <- MCWriters
  Asins = {"x", "y"}
  Today = 1
  Cutoff = 2
  PerPage = 2
  MaxPages = 2
  MaxAsked = 3
  BookOf <- MCBookOf
  Lengths = {2, 3}
  Ranges <- MCRanges
  MaxRewrites = 2
  StageNames = {1, 2, 3}
  RequireLists <- MCLists
  MaxRegistered = 3
SPECIFICATION Spec
INVARIANTS TypeOK CallsEndOnce RecordsTrue ViewsTrue
PROPERTIES KeptRowsStay EveryoneServed
CHECK_DEADLOCK FALSE
