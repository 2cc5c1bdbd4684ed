SPECIFICATION StatsSpec
CHECK_DEADLOCK FALSE
CONSTANTS
  MaxComponents = 5
  MaxComponentDepth = 2
  AssetTypes = {algorithm}
  OtherAsset = OtherAsset
  NotCounted = NotCounted
INVARIANT StatsTypeOK
INVARIANT WalkInDocumentOrder
INVARIANT CountsExact
