\* Reads of every sector of a master drive of more than 2^24 sectors.
CONSTANTS
  BYTE = 2
  HEADS = 2
  COUNT_REG = 4
  Disks <- MCLarge
  Requests <- MCFarReads
  Junk = junk
  DriveFails = FALSE
SPECIFICATION Spec
INVARIANT LbaBitsSet
