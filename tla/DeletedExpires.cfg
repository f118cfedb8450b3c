SPECIFICATION Spec
CONSTANTS
  Creates = {c1, c2}
  Actions = {a1}
  Deletes = {d1}
  Probes = {}
  Resets = {}
  Reaper = Reaper
  None = None
  MaxSessions = 2
  EvictWindow = 1
  IdleMin = 1
  IdleMax = 1
  IdleDefault = 1
  Requested = {None, 9}
  IdleCap = 2
  TombstoneMax = 1
SYMMETRY Symmetry
INVARIANT DeletedNeverExpires
