SPECIFICATION Spec
CONSTANTS
  Targets = {0, 1, 2}
  Micros = {0, 1}
  Tests <- MCTests
  Bodies <- MCBodies
  Since <- MCSince
  Contested = {"taken"}
  Uncertain <- MCUncertain
  MaxNodes = 3
INVARIANTS
  Sound
  Exact
  CertainImports
PROPERTIES
  Restores
CHECK_DEADLOCK FALSE
