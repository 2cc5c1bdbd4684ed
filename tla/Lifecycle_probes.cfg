SPECIFICATION FairLifecycleSpec
CHECK_DEADLOCK FALSE
CONSTANTS
  Probes = {"startup", "readiness", "liveness"}
  CheckDeadline = 2
  ProbeTimeout = 2
  Period = 4
  StartupThreshold = 45
  Threshold = 3
  MaxChanges = 3
  MaxCrashes = 1
INVARIANT LifecycleTypeOK
INVARIANT ReadyIsFresh
PROPERTY StartedIsNeverKilled
PROPERTY OnlyAHangKills
PROPERTY ReadyAgain
