SPECIFICATION Spec
CONSTANTS
  Creates = {c1, c2}
  Actions = {a1}
  Deletes = {d1, d2}
  Probes = {p1}
  Resets = {r1}
  Reaper = Reaper
  None = None
  MaxSessions = 1
  EvictWindow = 1
  IdleMin = 1
  IdleMax = 1
  IdleDefault = 1
  Requested = {None, 9}
  IdleCap = 2
  TombstoneMax = 1
SYMMETRY Symmetry
INVARIANTS
  NoUncountedRemoval VictimsDistinct ClosingIsOwned BrowsersMatchRecords
  LockSound WorkUnderLock QueueSound NoProbeBehindReaper TombstonesSound
  GoneForGood
PROPERTIES LivesOneWay
