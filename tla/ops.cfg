SPECIFICATION OpsSpec
CONSTANTS
  Image = {a, b}
  MaxCount = 4
  Thresholds = {0, 1, 2, 3, 7}
  Default = 2
  MaxRuns = 2
  MaxReconnects = 2
  InCap = 1
  MaxLines = 2
  Port = {p1, p2}
  SameHost = {p1, p2}
  Parallel = 2
  RetryMax = 1
  GateTTL = 1
  NumFiles = 2
  MaxFlashJobs = 3
  MaxGateTime = 1
  MaxPanes = 4
  MaxEdits = 3
  MaxWatchers = 2
  Host = {h1, h2}
  Found = {0, 1}
  PollSlots = 1
  FailThreshold = 2
  MaxPolls = 3
  MaxViews = 2
  Serial = {"a", "b"}
  Page = 1
  PollBatch = 3
  RingLines = 2
  HistoryMax = 2
  MaxLogRows = 3
  MaxInstant = 3
  MaxPerInstant = 2
  MaxLogKeys = 2
  MaxErrs = 1
  OtaDev = {"d"}
  OtaVer = {1, 2}
  Registered = {1}
  Unpacks = {TRUE, FALSE}
  MaxCmds = 3
  MaxOther = 1
  FleetDev = {1, 2}
  MaxTelPolls = 5
  MaxFleetOps = 1
  MvMax = 3
  ArmMvMin = 1
  StoredMv = {1, 3}
  RiseMv = {1}
  Streaks = {1, 2}
  Frame = {"f"}
  StoreKey = {"k"}
  StoreVal = {"v"}
  Legacy = "cred"
  NumArtifacts = 2
  MaxBlock = 4
  MaxSize = 2
  NvsStart = 1
  NvsLen = 2
  MaxRebuilds = 1
INVARIANTS LoopCaught ConsoleSound    PollsSound
  WakesSound StoreSurvives
PROPERTIES SafeModeEarned ShellSound HostsSound 
CHECK_DEADLOCK FALSE
