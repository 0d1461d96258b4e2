SPECIFICATION Spec
CONSTANTS
  Platform = "posix"
  Kids = {k1}
  Limit = 1
  MaxWritten = 1
  MaxInterrupts = 0
  MaxFaults = 0
  MaxTroubles = 0
  MayEscape = TRUE
  MayStall = FALSE
INVARIANTS
  UnclosedPipeNeverCompletes
CHECK_DEADLOCK FALSE
