SPECIFICATION Spec
CHECK_DEADLOCK FALSE
CONSTANTS
  None = None
  Names = {1, 2, 3, 4}
  OddNames = {3}
  OddKinds = {"dashless", "version", "statless", "garbled"}
  MsPerSec = 2
  Precisions = {1, 2}
  Protocols = {"link", "after", "unpaged"}
  MaxUpload = 0
  MaxSkew = 0
  Limit = 1
  Overlap = 3
  StartTime = 4
  MaxTime = 5
  MaxChanges = 1
  MaxRuns = 1
INVARIANT TypeOK
INVARIANT RunStrictlyAscends
INVARIANT RunLosesNothing
INVARIANT NextMeansUnexamined
INVARIANT UnpagedPassesOverNothing
