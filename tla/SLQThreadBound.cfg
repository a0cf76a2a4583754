\* Two threads, each with its own thread-bound branch, one shared root.
\* Threads exit (their branch is destroyed), after which nothing more can
\* happen: the program may stop, so deadlock is not an error here.
CONSTANTS
  t1 = t1  t2 = t2
  o1 = o1  o2 = o2  o3 = o3  d1 = d1
  Threads <- MCThreads
  Objects <- MCObjects
  UsableSize <- MCUsableSize
  DirectMapped <- MCDirectMapped
  Configs <- MCConfigs
  Capacities = {1, 2}
  MaxPause = 1
  MaxCalls = 4
SPECIFICATION Spec
INVARIANT TypeOK EveryObjectInOnePlace RootStatsMatchBranches
PROPERTY GrowthWithinCapacity FreedObjectStaysQuarantined
CHECK_DEADLOCK FALSE
