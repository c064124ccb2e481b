\* kmain on every screen and volume, then every path, or a box; any disk read
\* may fail.
CONSTANTS
  SECTOR = 16
  DIRENT = 4
  CLUSBUF = 32
  PART_START = 8
  Volumes <- MCVolumes
  Requests <- MCRequests
  Means <- MCMeans
  PARTS = 3
  NAMEBUF = 9
  NAME_BASE = 2
  NAME_EXT = 1
  ReadOutcomes = {TRUE, FALSE}
  WORD = 536870912
  FONT_CHAR_WIDTH = 2
  FONT_CHAR_HEIGHT = 2
  font8x16 <- MCFont
  Displays <- MCDisplays
  KmainRead <- MCKmainRead
  Hello <- MCHello
  COLUMN = 1
  HELLO_ROW = 0
  TEXT_ROW = 3
  WHITE = 1
  Contents <- MCContents
  Shape <- MCShape
  Boxes <- MCBoxes
SPECIFICATION BootSpec
INVARIANT TypeOK
INVARIANT WithinBuffer
INVARIANT TilesBuffer
INVARIANT FollowsChain
INVARIANT DeliversPrefix
INVARIANT ReadExact
INVARIANT BuffersFit
INVARIANT ShowsFile
PROPERTY BoxesFramed
PROPERTY CallsReturn
