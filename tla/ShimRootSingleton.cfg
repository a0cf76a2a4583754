\* LeakySingleton Get/GetSlowPath per token racing with
\* EnablePartitionAllocMemoryReclaimer and ConfigurePartitions.
CONSTANTS
  c1 = c1
  c2 = c2
  Callers <- MCCallers
  Configurer = cfg
  Null = Null
  MaxToken = 1
  Distributions <- MCDistributions
  MaxGets = 2
SPECIFICATION Spec
INVARIANT GetNeverReturnsNull ConstructedAtMostOnce DistributionStableForAllocations
PROPERTY GetEventuallyReturns
CHECK_DEADLOCK FALSE
