SPECIFICATION FairSpec
CONSTANTS
  a = a
  b = b
  global = global
  local = local
  NoNode = NoNode
  Nodes = {a, b}
  Tasks = {global}
  Global = {global}
  NonSkippable = {}
  CfgEnabled = {global}
  Cycle = 2
  Period <- MCPeriod
  Every = {global}
  MaxRetries <- MCNoRetries
  RetryDelay = 1
  CatchUp = 0
  LockTimeout = 1
  MaxGoroutines = 1
  StartAnytime = TRUE
  LongRuns = TRUE
  SlowStop = FALSE
  LateRuns = FALSE
  Hanging = {}
  Failing = {"sync", "lock", "release", "stop"}
  Toggled = {}
  RunOnDemand = {}
PROPERTIES
  LockLostOnlyIf
  KeepsRunning
