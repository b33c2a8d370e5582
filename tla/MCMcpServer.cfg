SPECIFICATION Spec
CONSTANTS
  root = root
  other = other
  Workspace <- MCWorkspace
  Root = root
  NotADir = NotADir
  id = id
  Id <- MCId
  NullId = NullId
  None = None
  Ok = Ok
  Error = Error
  UserCommands = TRUE
  MaxRequests = 3
  MaxBuilds = 2
  MaxFiles = 2
INVARIANTS
  TypeOK
  RuntimeOpenIffUsed
  AnsweredInOrder
  AnswersFromWorkspace
  
CHECK_DEADLOCK FALSE
