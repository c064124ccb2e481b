\* A byte of the mouse is lost and the next packet begins out of step.
CONSTANTS
  Moves <- MCMoves
  MaxPackets = 2
  MaxKeys = 0
  Modes <- MCLossy
SPECIFICATION Spec
PROPERTY MouseResyncs
CHECK_DEADLOCK FALSE
