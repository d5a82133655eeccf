SPECIFICATION SafetySpec
CONSTANTS
  MemSize = 12
  LONG_BYTES = 4
  BYTE = 6
  Contents <- MCContents
  Fills = {0, 2, 11}
  Sizes = {0, 1, 2, 3, 4, 5, 6, 7, 9}
  HexDigits = 3
  Numbers <- MCNumbers
  Strings <- MCStrings
  MaxDirectives = 2
INVARIANTS
  ComparesPrefix PrintsMeanings
PROPERTIES
  CopiesExactly
