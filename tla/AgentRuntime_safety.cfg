CONSTANTS
  MaxIterations = 4
  MaxToolCalls = 3
  MaxModelCalls = 6
  CallsPerRequest = 2
  SemanticIndex = TRUE
  MaxProposals = 2
  Verdicts = {"success", "failure"}
SPECIFICATION TrajectorySpec
INVARIANTS
  MemoryKept
  UsageBounded
  CompletionFollowsSuccess
  CompletedTasksConfirmed
  NoAttemptAfterSuccess
  LogTellsRun
PROPERTIES
  CompletedTasksKept
  ImplementsLifecycle
CHECK_DEADLOCK FALSE
