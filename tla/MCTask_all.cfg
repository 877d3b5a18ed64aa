SPECIFICATION FairSpec
CONSTANTS
  Threads = {main, m1, m2}
  Main = main
  Ops = {"spawn", "delay", "spawn_thread", "delay_thread", "defer", "cancel", "move", "synchronize"}
  MaxTasks = 2
  MaxDepth = 2
  NULL = NULL
INVARIANTS
  SerialExclusion
  RunsOnce
  WaitsForThread
  IdsUnique
PROPERTY
  CallsReturn
CHECK_DEADLOCK FALSE
