\* Editing lines that may fill their buffer, with two shift keys; keys repeat.
CONSTANTS
  Keys <- MCKeys
  MaxCodes = 5
  Sizes <- MCSizes
  END_BTN = 10
SPECIFICATION Spec
INVARIANT TypeOK
INVARIANT ShiftFollows
INVARIANT LineFits
INVARIANT LineIsShown
PROPERTY EndKeyEnds
CHECK_DEADLOCK FALSE
