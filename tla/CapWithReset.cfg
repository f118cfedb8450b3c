SPECIFICATION Spec
CONSTANTS
  Creates = {c1, c2, c3}
  Actions = {}
  Deletes = {}
  Probes = {}
  Resets = {r1}
  Reaper = Reaper
  None = None
  MaxSessions = 1
  EvictWindow = 1
  IdleMin = 1
  IdleMax = 1
  IdleDefault = 1
  Requested = {None, 9}
  IdleCap = 2
  TombstoneMax = 1
SYMMETRY Symmetry
INVARIANT CapRespected
