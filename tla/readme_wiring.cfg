SPECIFICATION FairSpec
CONSTANTS
  a = a
  b = b
  zero = zero
  Serial <- MCOneSerial
  ZeroSerial = zero
  PA_DISCO_ADDR = 2
  IdModulus = 3
  TickModulus = 3
  PA_DISCO_VERIFY_TIMEOUT_MS = 1
  window_time = 1
  window_guard_time = 1
  refresh_period = 2
  repeat_cycles = 1
  reset_repeat_cycles = 1
  verify_repeat_cycles = 0
  Installed <- MCReadme
  SendMayFail = FALSE
  AllocMayFail = FALSE
  Contended = FALSE
  Responses <- MCOneResponse
  MaxPending = 1
  MaxGap = 1
PROPERTY BusReleased
