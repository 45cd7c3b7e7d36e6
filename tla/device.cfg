SPECIFICATION DeviceFairSpec
CONSTANTS
  RegModulus = 65536
  PA_DISCO_HOLDING_NREGS = 34
  MaxCount = 125
  Word <- MCWord
  Self = "device"
  SelfSerial <- MCSelfSerial
  ZeroSerial <- MCZeroSerial
  PA_DISCO_ADDR = 255
  IdModulus = 256
  TickModulus = 4
  disco_window_min = 0
  disco_window_max = 2
  Provided <- MCProvided
  Requests <- MCRequests
  Puts <- MCPuts
  Floats <- MCFloats
  Images <- MCImages
  MaxPending = 1
  MaxGap = 1
VIEW MCView
INVARIANTS MapTypeOK ReadersAgree
PROPERTIES MapIsMemory IdentityKept AddressAssigned OneQueryPerWindow WindowEnds
