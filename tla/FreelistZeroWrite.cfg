\* One write of a single word over next_ of a free slot, no MTE: is it
\* always detected before the slot is handed out?
CONSTANTS
  AddrBits = 6
  PoolBase = 8
  PoolSize = 8
  SuperPageSize = 4
  PartitionPageSize = 1
  TagMask = 0
  Tag <- MCNoTag
  Slots <- MCSlots
  Values = {0, 2, 4, 5, 10}
  ForThreadCache = FALSE
  MaxCorruptions = 1
SPECIFICATION Spec
PROPERTY SingleWordCorruptionDetected
CHECK_DEADLOCK FALSE
