\* Two threads on one shared branch of capacity 2; kMaxFreeTimesPerPurge
\* scaled to 1 so that one insertion that must evict two entries breaks out.
CONSTANTS
  t1 = t1  t2 = t2
  o1 = o1  o2 = o2  o3 = o3  d1 = d1
  b1 = b1  b2 = b2  b3 = b3
  NoBuffer = NoBuffer
  Threads <- MCThreads
  Objects <- MCObjects
  UsableSize <- MCUsableSize
  DirectMapped <- MCDirectMapped
  BufferIds <- MCBufferIds
  InitCapacity = 2
  Capacities = {1, 2}
  MaxFreeTimesPerPurge = 1
  EnableZapping = TRUE
  BrpEnabled = FALSE
  MaxCalls = 3
SPECIFICATION Spec
INVARIANT TypeOK EveryObjectInOnePlace BufferOwnership RootCountersTrackBranch SlotsBoundedBySoftCap
PROPERTY DeferredEventuallyFreed
