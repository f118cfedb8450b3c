SPECIFICATION FairSpec
CONSTANTS
  Evaluates = {e1}
  Reads = {r1}
  None = None
  Timeouts = {2, 8}
  Retries = 3
CHECK_DEADLOCK FALSE
PROPERTY AllAnswered
