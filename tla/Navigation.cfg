SPECIFICATION Spec
CONSTANTS
  Navigates = {n1, n2}
  Probes = {p1}
  site = site
  intranet = intranet
  file = file
  escaped = escaped
  garbled = garbled
  Urls <- MCUrls
  SchemeOf <- MCSchemeOf
  HostOf <- MCHostOf
  LandsOn <- MCLandsOn
  Canonical <- MCCanonical
  Blank = Blank
  None = None
  PageStarts = 2
INVARIANTS BlameJustified NoSilentRefusal RecordedUrlFresh
CHECK_DEADLOCK FALSE
