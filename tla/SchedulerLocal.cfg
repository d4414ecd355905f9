SPECIFICATION FairSpec
CONSTANTS
  a = a
  b = b
  global = global
  local = local
  NoNode = NoNode
  Nodes = {a, b}
  Tasks = {local}
  Global = {}
  NonSkippable = {}
  CfgEnabled = {local}
  Cycle = 2
  Period <- MCPeriod
  Every = {}
  MaxRetries <- MCNoRetries
  RetryDelay = 1
  CatchUp = 1
  LockTimeout = 1
  MaxGoroutines = 2
  StartAnytime = TRUE
  LongRuns = TRUE
  SlowStop = TRUE
  LateRuns = TRUE
  Hanging = {local}
  Failing = {}
  Toggled = {}
  RunOnDemand = {local}
PROPERTIES
  DueNotLost
  StopReturns
