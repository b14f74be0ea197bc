SPECIFICATION MCSpec
CONSTANTS
  Requests = {q1, q2}  NoRequest = NoRequest
  MaxLinks = 0  MaxBuilds = 0  MaxButtons = 0
INVARIANT NeverCancelsAnother
CHECK_DEADLOCK FALSE
