SPECIFICATION MCSpec
CONSTANTS
  Requests = {q1, q2}  NoRequest = NoRequest
  MaxLinks = 2  MaxBuilds = 2  MaxButtons = 2
INVARIANTS AbortsHitTheirScript CompletedOnceCompiledUnlessCrossed
PROPERTIES RestoreKeepsOlderNames EventuallyAnswered EventuallyCompletedUnlessMissed
CHECK_DEADLOCK FALSE
