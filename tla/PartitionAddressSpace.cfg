\* Init, the configurable pool, UninitForTesting and re-Init at every
\* reservation SystemAllocPages may return, with up to two chunks out.
CONSTANTS
  AddrBits = 6
  SuperPageSize = 2
  Granularity = 2
  PoolMaxSize = 8
  ConfigurableSize = 4
  Alignment = 16
  ReservedSize = 30
  NumPools = 3
  Requests = {2, 4}
  MaxChunks = 2
  NoPool = NoPool
SPECIFICATION Spec
INVARIANT TypeOK NoneWithoutHandle ClassificationMatchesManager CarvedInsideReservation ChunksClassifyToTheirPool
