SPECIFICATION Spec
CONSTANTS
  p1 = p1
  p2 = p2
  so = so
  so1 = so1
  readme = readme
  d1 = d1
  d2 = d2
  Proc <- MCProc
  Path <- MCPath
  Data <- MCData
  Absent = Absent
  Dir = Dir
  NotFound = NotFound
  Model = Model
  Other = Other
  Empty = Empty
  Archives <- MCArchives
  Required = {so}
  Releases <- MCReleases
  MaxFaults = 2
INVARIANTS
  TypeOK
  StagedAsDescribed
  ResolvedIsUsable
  LibraryNeverLost
PROPERTIES
  Recovers
CHECK_DEADLOCK FALSE
