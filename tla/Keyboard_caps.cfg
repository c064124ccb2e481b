\* A line typed with and without caps lock.
CONSTANTS
  Keys <- MCCapsKeys
  MaxCodes = 3
  Sizes <- MCSizes
  END_BTN = 10
SPECIFICATION Spec
PROPERTY CapsOnlyLetters
CHECK_DEADLOCK FALSE
