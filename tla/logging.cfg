SPECIFICATION Spec
CONSTANTS
  MaxRuns = 3
  MaxUpdates = 1
  Patches <- ThreePatches
  Providers = {"p", "q", "r"}
  MaxLoggers = 3
  MaxCalls = 4
  RuntimeKeys = {"b"}
  Trackers = {"e1", "e2"}
  Contexts <- ThreeContexts
  Requests = {"request"}
  Crons = {"cron"}
  MaxEmits = 2
  MaxPayloads = 3
  MaxFlushes = 2
  MaxRecords = 4
  MaxHash = 3
  MaxHashes = 2
  MaxTransports = 2
  HostedLoggers = {l1, l2}
  MaxInstalls = 2
  MaxSignals = 2
  Spans <- ThreeSpans
  UserAttributes <- TwoAttributes
  MaxAttributes = {4}
  MaxFailing = 1
  MaxWrites = 3
  Transports = {"p", "q", "__overflow__"}
  MaxSeries = 2
  Buckets = {1, 2}
  Clocks <- TwoClocks
  MetricLists <- SevenLists
INVARIANTS
  ContextIsOwn
  SpanFieldsAgree
  SettingsAreOwn
  RecordKeepsContext
  WaitedFor
  DedupeIsExact
  SpanWrapsOneRun
  HandlersMatch
  BridgeIsFaithful
  MetricsAreTrue
PROPERTIES
  WaitsEnd
  SignalKills
CHECK_DEADLOCK FALSE
