SPECIFICATION LinkFairSpec
CONSTANTS
  MaxPut = 2
  MaxChunks = 1
INVARIANTS LinkCorrect
PROPERTIES ImplementsProcessor EventuallyReceived
