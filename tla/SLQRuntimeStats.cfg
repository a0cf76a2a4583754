\* Windows of 2 values; a quarantine's purge, zap and tail phases take
\* 1, 1, 1 or 1, 1, 3 ticks; a pause threshold of 0 (off) or 1 with a pause
\* delay of 2; five quarantines, enough to fill, report and refill windows.
CONSTANTS
  N = 2
  Phases <- MCPhases
  PauseDelays = {2}
  MaxAboveAvg = {0, 1}
  MaxCalls = 5
SPECIFICATION Spec
INVARIANT TypeOK WindowSumExact ValidMeansWindowFull
