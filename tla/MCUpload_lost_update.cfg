SPECIFICATION Spec
CHECK_DEADLOCK FALSE
CONSTANTS
  r1 = r1
  r2 = r2
  r3 = r3
  r4 = r4
  u1 = u1
  u2 = u2
  u3 = u3
  NoSerial = NoSerial
  Original = Original
  Foreign = Foreign
  Absent = Absent
  Legacy = Legacy
  Requests <- TwoRequests
  Urns <- TwoUrns
  Uuids <- TwoUrns
  Stored <- Nothing
  MaxInt = 3
  ClientUrns = {u1}
  ClientVersions = {1, 3}
  MaxInFlight = 2
  LateEffects = FALSE
SYMMETRY Symmetric
INVARIANT OneUploadPerVersion
