SPECIFICATION Spec
CONSTANTS
  Urls = {u1, u2}
  MaxLog = 3
  MaxRequests = 5
  MaxMessages = 4
SYMMETRY UrlSymmetry
INVARIANTS LogsAreTheTail StatusIsOwn NoStatusLost
CHECK_DEADLOCK FALSE
