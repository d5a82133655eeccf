SPECIFICATION KeyboardSpec
CONSTANTS
  NUM_TERMINALS = 3
INVARIANTS
  FlagsTrackKeys KeyDoesWhatIsHeld
