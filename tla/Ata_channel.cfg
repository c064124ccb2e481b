\* Reads, writes that are stored late, probing and ata_init; drives may fail.
CONSTANTS
  BYTE = 2
  HEADS = 2
  COUNT_REG = 4
  Disks <- MCDisks
  Requests <- MCRequests
  Junk = junk
  DriveFails = TRUE
SPECIFICATION Spec
INVARIANT TypeOK
INVARIANT ReadDelivers
INVARIANT WriteLands
PROPERTY OnlyWhatWasAsked
PROPERTY ImplementsBlockDevice
PROPERTY CallsReturn
