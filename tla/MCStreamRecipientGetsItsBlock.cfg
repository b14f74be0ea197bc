SPECIFICATION MCSpec
CONSTANTS
  MaxSockets = 0
  Wires = {w1, w2}  MaximumHeartbeatDelay = 3  MaxPings = 0  MaxFlying = 0  MaxConnected = 1
  Ends = {e1, e2}  Capacity = 1  PackageSize = 1  MaxPackages = 0
  BodyUnits <- MCBodyUnits  ChunkUnits = 3  MaxStreamConnections = 2
INVARIANT RecipientGetsItsBlock
CHECK_DEADLOCK FALSE
