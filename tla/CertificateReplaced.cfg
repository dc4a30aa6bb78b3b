SPECIFICATION NetSpec
CONSTANTS
  MaxNetEvents = 4
  MaxOpen = 0
PROPERTY ReplacementIsLoaded
CHECK_DEADLOCK FALSE
