SPECIFICATION FairSpec
CONSTANTS
  Creates = {c1, c2}
  Actions = {a1}
  Deletes = {d1}
  Probes = {p1}
  Resets = {}
  Reaper = Reaper
  None = None
  MaxSessions = 1
  EvictWindow = 1
  IdleMin = 1
  IdleMax = 1
  IdleDefault = 1
  Requested = {None}
  IdleCap = 2
  TombstoneMax = 1
PROPERTIES
  RequestsAnswered OverdueReaped
