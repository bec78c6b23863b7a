CONSTANTS
  MaxProcesses = 0
  Faults = {"refused", "halfDone", "halfCreated", "hung", "dies"}
  Callers = {"main", "handler"}
  Owners = {"main", "handler"}
  MaxActions = 3
  InterruptPoints = {"preflight", "starting", "running", "acting", "destroying"}
SPECIFICATION FairRunSpec
INVARIANTS
  OrderlyExit
  NoSandboxLeft
PROPERTIES
  ProcessExits
CHECK_DEADLOCK FALSE
