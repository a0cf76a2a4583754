\* Zap times of 1 and 3 ticks, pause threshold 1: is every pause decided
\* against the average of a zap window that was already full?
CONSTANTS
  N = 2
  Phases <- MCPhases
  PauseDelays = {2}
  MaxAboveAvg = {0, 1}
  MaxCalls = 5
SPECIFICATION Spec
PROPERTY PauseOnlyAgainstValidAverage
