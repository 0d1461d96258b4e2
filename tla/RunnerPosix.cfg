SPECIFICATION FairSpec
CONSTANTS
  Platform = "posix"
  Kids = {k1}
  Limit = 1
  MaxWritten = 2
  MaxInterrupts = 2
  MaxFaults = 2
  MaxTroubles = 3
  MayEscape = TRUE
  MayStall = TRUE
INVARIANTS
  TypeOK
  CompletedIsWhole
  OverflowIsReal
  TerminatedIsFinal
  CleanReturn
PROPERTIES
  Returns
CHECK_DEADLOCK FALSE
