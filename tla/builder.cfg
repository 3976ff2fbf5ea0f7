CONSTANTS
  BYTE = 2
  SCRATCH = 9
  Numbers = {3, 14}
  MAX_LENGTH = 2
  MAX_CALLS = 5
SPECIFICATION BSpec
PROPERTIES ImplementsSchema
CHECK_DEADLOCK FALSE
