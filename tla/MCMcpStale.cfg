SPECIFICATION Spec
CONSTANTS
  root = root
  other = other
  Workspace <- MCWorkspace
  Root = root
  NotADir = NotADir
  id = id
  Id <- MCId
  NullId = NullId
  None = None
  Ok = Ok
  Error = Error
  UserCommands = FALSE
  MaxRequests = 3
  MaxBuilds = 2
  MaxFiles = 2
INVARIANT SearchUsesReportedIndex
CHECK_DEADLOCK FALSE
