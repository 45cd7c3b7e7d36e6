SPECIFICATION Spec
CONSTANTS
  a = a
  b = b
  zero = zero
  Serial <- MCSerial
  ZeroSerial = zero
  PA_DISCO_ADDR = 3
  IdModulus = 4
  TickModulus = 4
  PA_DISCO_VERIFY_TIMEOUT_MS = 1
  window_time = 1
  window_guard_time = 1
  refresh_period = 2
  repeat_cycles = 2
  reset_repeat_cycles = 2
  verify_repeat_cycles = 1
  Installed <- MCAll
  SendMayFail = TRUE
  AllocMayFail = FALSE
  Contended = TRUE
  Responses <- MCResponses
  MaxPending = 1
  MaxGap = 1
SYMMETRY MCSymmetry
VIEW MCView
INVARIANTS ZeroRepliesAtFinish
