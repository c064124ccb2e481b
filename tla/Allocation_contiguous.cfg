\* heap_init on machines with holes, or after clients took and freed pages.
CONSTANTS
  PAGE = 32
  HEAP_PAGES = 3
  HHDM = 1024
  WORD = 4096
  Memmaps <- MCMaps
  Sizes <- MCNoSizes
SPECIFICATION Spec
INVARIANT HeapIsOwned
