\* The mouse interrupt and get_key on one port; mouse bytes may be lost.
CONSTANTS
  Moves <- MCMoves
  MaxPackets = 2
  MaxKeys = 2
  Modes <- MCModes
SPECIFICATION Spec
INVARIANT TypeOK
INVARIANT Tracks
INVARIANT KeysKept
PROPERTY MouseServed
PROPERTY KeyboardServed
CHECK_DEADLOCK FALSE
