SPECIFICATION Spec
CONSTANTS
  Platform = "nt"
  Kids = {k1}
  Limit = 1
  MaxWritten = 2
  MaxInterrupts = 2
  MaxFaults = 2
  MaxTroubles = 4
  MayEscape = FALSE
  MayStall = TRUE
INVARIANTS
  NothingRunsUncontained
  SafeInv
  StaleCloseNeedsInterrupt
CHECK_DEADLOCK FALSE
