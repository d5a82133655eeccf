SPECIFICATION Spec
CONSTANTS
  NUM_THREADS = 2
  MaxFrames = 2
INVARIANTS
  NoReentry InServiceHasHandler
PROPERTY RequestsServed
