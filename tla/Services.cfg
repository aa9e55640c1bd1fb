SPECIFICATION Spec
CONSTANTS
  N = 2
  MsgMod = 4
  TickMod = 4
  Timeouts <- MCTimeouts
  Late = 1
  MboxCnt = 4
  MaxInits = 3
  Tasks <- MCTasks
  Ports <- MCPorts
  MaxEnvInits = 4
  Buffers = {1, 2}
  Queues = {1, 2}
  Reads <- MCReads
  Owned = {1}
  DrainFirst = TRUE
  MaxMessages = 3
INVARIANTS ServicesTypeOK AcceptedArrive LifeSafe PlatformReady QueueSafe
PROPERTIES TelemetryFlows SeenIsUp TasksProceed
CHECK_DEADLOCK FALSE
