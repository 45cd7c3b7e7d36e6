SPECIFICATION BusSpec
CONSTANTS
  a = a
  b = b
  c = c
  zero = zero
  Serial <- MCSerial
  ZeroSerial = zero
  PA_DISCO_ADDR = 7
  IdModulus = 8
  TickModulus = 16
  PA_DISCO_VERIFY_TIMEOUT_MS = 1
  window_time = 1
  window_guard_time = 1
  refresh_period = 2
  repeat_cycles = 1
  reset_repeat_cycles = 1
  verify_repeat_cycles = 1
  Installed <- MCAll
  SendMayFail = FALSE
  AllocMayFail = FALSE
  Contended = FALSE
  Responses <- MCNone
  MaxPending = 0
  MaxGap = 1
  Slave <- MCPair
  self_serialno <- MCPairSelf
  map_serialno <- MCPairSelf
  disco_window_min = 0
  disco_window_max = 1
  Provided <- MCProvided
  InitialAddress <- MCAllFresh
  SlaveLatency = 0
  MaxFaults = 1
VIEW MCView
INVARIANT AssignmentNamesSlave
