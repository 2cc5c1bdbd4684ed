SPECIFICATION RepositorySpec
CHECK_DEADLOCK FALSE
CONSTANTS
  r1 = r1
  r2 = r2
  g1 = g1
  g2 = g2
  u1 = u1
  u2 = u2
  NoSerial = NoSerial
  Original = Original
  Foreign = Foreign
  Absent = Absent
  Legacy = Legacy
  Requests <- TwoRequests
  Readers = {g1}
  Urns = {u1, u2}
  Uuids = {u2}
  Stored <- Nothing
  ClientUrns = {u1}
  ClientVersions = {1}
  MaxInt = 2
  MaxInFlight = 2
  LateEffects = FALSE
SYMMETRY Symmetric
INVARIANT ReadsDoNotPanic
