SPECIFICATION MCSpec
CONSTANTS
  MaxSockets = 3
  Wires = {w1, w2}  MaximumHeartbeatDelay = 3  MaxPings = 5  MaxFlying = 2  MaxConnected = 2
  Ends = {e1, e2}  Capacity = 1  PackageSize = 2  MaxPackages = 4
  BodyUnits <- MCBodyUnits  ChunkUnits = 3  MaxStreamConnections = 3
INVARIANTS IntactUnlessDisturbed
PROPERTIES NoFalseAlarm EventuallyJoinedUnlessThrownOrHeld FlowsUnlessJammed
CHECK_DEADLOCK FALSE
