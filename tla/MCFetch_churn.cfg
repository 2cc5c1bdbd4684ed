SPECIFICATION FetchSpec
CONSTANTS
  u1 = u1
  Urns = {u1}
  MaxInt = 2
  Original = Original
  Foreign = Foreign
  Absent = Absent
  Readers = {g1}
  Docs = {good, bare, broken}
  WithoutStats = {bare}
  BadStats = {broken}
  Malformed = {broken}
  CheckOnFetch = TRUE
  ExternalKeys <- Externals
INVARIANT FetchTypeOK
INVARIANT LatestAboveStable
INVARIANT VersionsCoverStable
PROPERTY EveryReadAnswered
