CONSTANTS
  MaxProcesses = 1
  Faults = {}
  Callers = {owner}
  Owners = {owner}
  owner = owner
SPECIFICATION Spec
INVARIANT
  KilledLeavesNothing
CHECK_DEADLOCK FALSE
