\* Gates are set, and programs interrupted through them; a program is loaded
\* and started.
CONSTANTS
  HALF = 2
  Handlers <- MCHandlers
  Vectors <- MCVectors
  Tops <- MCTops
  Images <- MCImages
  Stacks <- MCStacks
SPECIFICATION UserSpec
INVARIANT TypeOK
INVARIANT Restored
INVARIANT CallAligned
INVARIANT ImageLoaded
PROPERTY GatesLead
