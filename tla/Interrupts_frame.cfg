\* What the dispatcher is given.
CONSTANTS
  HALF = 2
  Handlers <- MCHandlers
  Vectors <- MCVectors
  Tops <- MCTops
  Images <- MCImages
  Stacks <- MCStacks
SPECIFICATION UserSpec
INVARIANT FrameIsRegisters
