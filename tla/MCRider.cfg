CONSTANTS
  Nobody = Nobody
  Runs = {r1, r2}
  Projects = {p1, p2}
  Engine = engine
  Refreshes = {t1}
SPECIFICATION Spec
INVARIANTS TidyWhenIdle
PROPERTIES ImplementsTransaction EventuallyEnded
CHECK_DEADLOCK FALSE
