SPECIFICATION LifeSpec
CONSTANTS
  Creates = {c1, c2, c3}
  Actions = {a1}
  Deletes = {d1}
  Probes = {}
  Resets = {r1}
  Reaper = Reaper
  None = None
  MaxSessions = 1
  EvictWindow = 1
  IdleMin = 1
  IdleMax = 1
  IdleDefault = 1
  Requested = {None}
  IdleCap = 2
  TombstoneMax = 1
  MaxCancels = 2
SYMMETRY Symmetry
INVARIANTS CancelledLetGo DrainedMeansClosed EvictedReapedOnce OverrunBounded
CHECK_DEADLOCK FALSE
