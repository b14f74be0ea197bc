SPECIFICATION Spec
CONSTANTS
  editor = editor
  rider = rider
  Peers <- MCPeers
  Threads = {t1}
  MaxSends <- MCSends
  MaxBinds <- MCBindsAgain
INVARIANTS NothingLeftBehind DeliveryCorrect
PROPERTIES EventuallyDelivered
CHECK_DEADLOCK FALSE
