SPECIFICATION Spec
CONSTANTS
  a = a
  b = b
  global = global
  local = local
  NoNode = NoNode
  Nodes = {a, b}
  Tasks = {global}
  Global = {global}
  NonSkippable = {global}
  CfgEnabled = {}
  Cycle = 2
  Period <- MCPeriod
  Every = {}
  MaxRetries <- MCRetries
  RetryDelay = 1
  CatchUp = 1
  LockTimeout = 1
  MaxGoroutines = 2
  StartAnytime = FALSE
  LongRuns = FALSE
  SlowStop = FALSE
  LateRuns = FALSE
  Hanging = {}
  Failing = {"select", "insert", "sync", "record", "toggle"}
  Toggled = {global}
  RunOnDemand = {global}
INVARIANTS
  TypeOK
  OneRunPerNode
PROPERTY
  OneExecutor
