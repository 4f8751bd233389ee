CONSTANTS
  a = a
  b = b
  Channels = {a, b}
  Life = 2
  MaxWrites = 3
  None = None
SPECIFICATION Spec
CHECK_DEADLOCK FALSE
PROPERTIES RulingsPrevail
