SPECIFICATION FairSpec
CONSTANTS
  NoValue = NoValue
  ShutdownDispatchers = {"d1", "d2"}
  ShutdownCommands = 2
  ShutdownFailures = 1
  InterruptDispatchers = {"d1"}
  InterruptCommands = 1
  InterruptFailures = 1
  InterruptSignals = 1
  LogThreads = {1}
  LogTime = 3
  LogPosts = 4
  LogLimit = 1
  LogSecond = 2
  IndexThreads = {1, 2}
  IndexTime = 1
  IndexPosts = 3
  IndexRuns = {1}
  IndexLimit = 2
  IndexSecond = 2
  ClbChannels = {1, 2}
  ClbPosts = 2
  ClbFailures = 1
  ClbRestarts = 1
  MsgIds = 3
  MsgAttempts = 2
  MsgCommands = 2
  MsgInFlight = 2
  MsgOdd = 1
  DaqConfigs <- MixedConfigs
  DaqCommands = 2
  DaqTimes = 1
  DaqFailures = 1
  AgainConfigs <- OneBoard
  AgainCommands = 5
  AgainTimes = 2
  AgainFailures = 1
  HitPorts = {1, 2}
  HitConfigs = 1
  HitStarts = 1
  RestartedPorts = {1}
  RestartedConfigs = 2
  RestartedStarts = 2
  ReporterMachines <- TwoMachines
  ReporterFirst <- FirstStates
  ReporterRounds = 2
  ReporterMoves = 3
  AppCommands = 3
  AppFailures = 1
  AppSignals = 0
  AppQueue = 2
  EndCommands = 2
  EndFailures = 0
  EndSignals = 1
  EndQueue = 1
  RunKinds = {1, 2}
  RunGarbage = {0, 3}
  RunCount = 4
  RunCrashes = 1
  NumiMessages <- ThreeTexts
  NumiFetches = 3
  NumiFailures = 1
  RpcServers = {"daqonite", "forwarder"}
  RpcKeepRunning = {"daqonite"}
  RpcKnows = {"daqonite"}
  RpcSpills = 2
  RpcStarts = 3
  BoardNumbers = 2
  BoardThreshold = 1
  BoardOps = 2
  BoardFaults = 1
  BoardBeats = 3
  BoardFound <- FoundBoards
  SystemFaults = {"command", "status"}
  SystemFaultCount = 1
  SystemCommands = 4
  SystemAir = 1
  SlicePlanes = {1, 2}
  SliceNumbers <- Slices
  SliceBytes = {3}
  CountPlanes = {1}
  CountNumbers <- Overflowing
  CountBytes = {3, 19}
  LossyPlanes = {1}
  LossyNumbers <- Counting
  LossyBytes = {19}
  LossyFaults = {"loss", "duplicate", "malformed"}
  LossyAir = 2
  HitModulus = 8
  SitterDatagrams <- MonDatagrams
  SitterChannels = {0, 1}
  SitterElastic = TRUE
  SitterFile = TRUE
  SitterSampled = TRUE
  PowerPrograms = {1}
  PowerJobs <- RelayJobs
  PowerDead = 1
  PairPrograms = {1, 2}
  PairJobs <- RelayPairs
  PairDead = 0
  PowerBefore <- OnAtFirst
  PowerGreeting = 7
  Parts = {"ShutdownLive", "ClbControllerLive", "MsgProcessorLive", "DaqControlLive",
           "DaqsitterLive", "RestartedLive", "IndexingLive", "BadgerboardLive", "WatchdogLive",
           "AppMainLive", "SystemLive"}
CHECK_DEADLOCK FALSE
PROPERTIES
  BusJoins
  ConfigureRecovers
  WatchdogRestarts
  CallReturns
  Settles
  HandledInTheEnd
  EveryDocumentTried
