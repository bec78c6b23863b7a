CONSTANTS
  MaxProcesses = 3
  Faults = {"refused", "halfDone", "dies"}
  Callers = {caller}
  Owners = {caller}
  caller = caller
SPECIFICATION Spec
INVARIANTS
  ReportsMatchContainer
PROPERTIES
  ReportsAreFinal
CHECK_DEADLOCK FALSE
