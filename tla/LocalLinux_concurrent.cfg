CONSTANTS
  MaxProcesses = 2
  Faults = {"refused"}
  Callers = {c1, c2}
  Owners = {c1}
  c1 = c1
  c2 = c2
SPECIFICATION FairSpec
INVARIANTS
  ProcessIdsDistinct
  ExitCodeHonest
  KilledIsDead
PROPERTIES
  CallsSettle
CHECK_DEADLOCK FALSE
