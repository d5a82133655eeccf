SPECIFICATION Spec
CONSTANTS
  NUM_TERMINALS = 2
  BUF_SIZE = 3
  a = a
  Chars <- OneChar
  NL = NL
  NUL = NUL
  Junk = Junk
  ReadSizes = {1, 4}
  TypeAhead = FALSE
  MaxStray = 0
INVARIANTS
  StoresInBounds BufferHoldsLine
PROPERTIES
  ImplementsDiscipline
  EnterWakesReader
