SPECIFICATION Spec
CONSTANTS
  Sites = {"plain", "vague", "guarded", "typed", "import", "bare", "library", "aged", "insert", "append"}
  Path <- MCPath
  RuleOf <- MCRuleOf
  Raw <- MCRaw
  Mutates <- MCMutates
  Rules <- MCRules
  Setups <- MCSetups
  Releases <- MCReleases
  Initial <- MCInitial
  MaxEdits = 2
INVARIANTS
  BaselinedStaysKnown
  GateCountsOccurrences
  EverythingReported
  UneditedIsQuiet
  SuccessIsClean
CHECK_DEADLOCK FALSE
