SPECIFICATION MCSpec
CONSTANTS
  MaxConnections = 2
  MaxUser = 2
  Settings <- MCSettings
INVARIANT RiderReflectsEditor
CHECK_DEADLOCK FALSE
