SPECIFICATION SerialSpec
CONSTANTS
  j1 = j1
  j2 = j2
  j3 = j3
  Hooks = {h1, h2}
  NoHook = NoHook
  Jobs = {j1, j2, j3}
  Menu <- MenuSerial
  NoDelivery = NoDelivery
  MaxRetries = 2
  MaxBatch = 2
  OneWriter = TRUE
  MaxFaults = 0
CHECK_DEADLOCK FALSE
INVARIANTS AtMostMaxRetries
