\* Clients that take and free pages before and after heap_init, and malloc.
CONSTANTS
  PAGE = 32
  HEAP_PAGES = 3
  HHDM = 1024
  WORD = 4096
  Memmaps <- MCMaps
  Sizes <- MCSizes
SPECIFICATION Spec
INVARIANT TypeOK
INVARIANT Conservation
INVARIANT AllReachable
INVARIANT BlocksSound
PROPERTY ImplementsPageAllocator
