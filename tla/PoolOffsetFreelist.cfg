\* One slot span's freelist, no MTE, one corrupting write.  A crash ends
\* the program, so a state with no successor is expected.
CONSTANTS
  AddrBits = 6
  PoolBase = 8
  PoolSize = 8
  SuperPageSize = 4
  PartitionPageSize = 1
  TagMask = 0
  Tag <- MCNoTag
  Slots <- MCSlots
  Values = {0, 2, 4, 5, 10}
  ForThreadCache = FALSE
  MaxCorruptions = 1
SPECIFICATION Spec
INVARIANT TypeOK NoFalseCorruption AcceptedNextConfined SingleWriteNeverMisallocates
CHECK_DEADLOCK FALSE
