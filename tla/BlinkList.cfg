SPECIFICATION SafetySpec
CONSTANTS
  POOL = 3
  SCREEN = 3
  WORD = 8
  None = None
  Locations = {1, 2}
  Requests <- MCRequests
PROPERTY
  ImplementsBlinkers
