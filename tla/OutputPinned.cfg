SPECIFICATION Spec
CONSTANTS
  r1 = r1
  r2 = r2
  p1 = p1
  p2 = p2
  Writers = {a, b}
  Pinned = {a}
  Dirs = {r1, r2, p1, p2}
  Level <- MCLevel
  Depth = 2
  Tokens = {t1, t2}
  Attempts = 2
  MaxChanges = 2
  MaxInterrupts = 1
SYMMETRY Symmetry
INVARIANTS
  SuccessIsVisible
  FailureIsInvisible
  NoLitter
PROPERTIES
  AtomicStore
CHECK_DEADLOCK FALSE
