SPECIFICATION Spec
CONSTANTS
  Timeout = 3
  MaxMatches = 2
  MaxCounting = 4
  None = None
CHECK_DEADLOCK FALSE
INVARIANTS
  OneBudget BlameJustified TableKept
PROPERTIES
  CrashReported
