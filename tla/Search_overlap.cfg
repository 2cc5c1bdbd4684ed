SPECIFICATION FairSpec
CHECK_DEADLOCK FALSE
CONSTANTS
  None = None
  Names = {1, 2}
  OddNames = {}
  OddKinds = {"version"}
  MsPerSec = 2
  Precisions = {1, 2}
  Protocols = {"link", "after", "unpaged"}
  MaxUpload = 1
  MaxSkew = 1
  Limit = 1
  Overlap = 2
  StartTime = 4
  MaxTime = 7
  MaxChanges = 1
  MaxRuns = 2
INVARIANT OverlapCatchesUp
PROPERTY RunEnds
