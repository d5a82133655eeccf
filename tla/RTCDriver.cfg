SPECIFICATION Spec
CONSTANTS
  NUM_THREADS = 2
  Freqs <- SomeFreqs
INVARIANTS
  ReadBlocksUntilInterrupt
PROPERTIES
  WriteTakesEffect
  ReadReturns
