SPECIFICATION FairSpec
CONSTANTS
  Sessions = {s1, s2}
  Closers = {k1, k2}
  None = None
CHECK_DEADLOCK FALSE
INVARIANTS
  OneDriver HealthyUncounted CrashesCounted NoLeak
PROPERTIES
  MemoryReturned StartNotStuck
