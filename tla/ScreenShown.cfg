SPECIFICATION SafetySpec
CONSTANTS
  NUM_TERMINALS = 2
  NUM_ROWS = 2
  NUM_COLS = 2
  a = a
  Chars <- OneChar
  Space = Space
  NL = NL
  BUF_SIZE = 2
PROPERTY
  ImplementsScreens
INVARIANTS
  LocationOnScreen VidmapOwnScreen
VIEW Seen
