SPECIFICATION Spec
CONSTANTS
  a = a
  b = b
  u1 = u1
  u2 = u2
  Content <- MCContent
  Deployed <- MCDeployed
  Url <- MCUrl
  PublisherUrl = u1
  Job <- MCJob
  j1 = j1
  j2 = j2
  None = None
  Done = Done
  Empty = Empty
  Old = Old
  Corrupt = Corrupt
  MaxVersion = 2
  MaxCrashes = 1
INVARIANTS
  TypeOK
  ManifestDescribesIndex
  HashesFitIndex
PROPERTIES
  SyncTellsTheTruth
  IndexNeverLost
  Converges
