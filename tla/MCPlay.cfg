SPECIFICATION MCSpec
CONSTANTS
  MaxConnections = 2
  MaxUser = 3
  Settings <- MCSettings
INVARIANTS AliveIffConnected StateReflectedUnlessMissed ModeAgreedUnlessCrossed
PROPERTIES ReplacedOnlyWhenDead EventuallyEnabledUnlessDropped
CHECK_DEADLOCK FALSE
