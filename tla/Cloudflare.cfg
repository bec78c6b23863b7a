SPECIFICATION Spec
CONSTANTS
  a = a
  b = b
  Callers = {a, b}
  MaxIds = 1
  MaxAbandoned = 1
  SdkErrors <- MCSdkErrors
  Commands = {"command"}
  Paths = {"relative", "/absolute", "/top"}
  FileCalls = {"writeFile"}
SYMMETRY Symmetry
INVARIANTS
  CloudflareInv
  StateTellsProcesses
  UnauthorizedReachesNothing
PROPERTY
  TerminatedNotRefiled
CHECK_DEADLOCK FALSE
