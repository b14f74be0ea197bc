SPECIFICATION FairSpec
CONSTANTS
  MaxPut = 3
  MaxChunks = 2
INVARIANTS StreamIntact InOrderUnlessOvertaken
PROPERTIES ImplementsWindow
