SPECIFICATION FairSpec
CHECK_DEADLOCK FALSE
CONSTANTS
  r1 = r1
  r2 = r2
  r3 = r3
  r4 = r4
  u1 = u1
  u2 = u2
  u3 = u3
  NoSerial = NoSerial
  Original = Original
  Foreign = Foreign
  Absent = Absent
  Legacy = Legacy
  Requests <- ThreeRequests
  Urns <- ThreeUrns
  Uuids <- ThreeUrns
  Stored <- Nothing
  MaxInt = 4
  ClientUrns = {u1}
  ClientVersions = {1, 2}
  MaxInFlight = 1
  LateEffects = FALSE
INVARIANT OneUploadPerVersion
PROPERTY ImplementsRegistry
PROPERTY EveryUploadAnswered
