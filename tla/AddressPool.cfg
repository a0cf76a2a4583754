\* One pool of 5 super pages, 2 model bytes per super page.  Requests of
\* 1..2 bytes take one super page, 3..4 take two, 5 and 6 three: enough to
\* fragment the pool, fill it exactly, and fail by one super page.
CONSTANTS
  SuperPageSize = 2
  TotalBits = 5
  Requests = {1, 3, 4, 6}
SPECIFICATION Spec
INVARIANT TypeOK BitmapMatchesLive HintSound FindChunkIsFirstFit
PROPERTY AbstractSpec
