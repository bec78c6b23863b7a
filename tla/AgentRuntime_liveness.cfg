CONSTANTS
  MaxIterations = 3
  MaxToolCalls = 2
  MaxModelCalls = 4
  CallsPerRequest = 1
  SemanticIndex = FALSE
  MaxProposals = 2
  Verdicts = {"success", "partial"}
SPECIFICATION FairSpec
PROPERTIES
  Termination
CHECK_DEADLOCK FALSE
