SPECIFICATION Spec
CONSTANTS
  Root <- MCRoot
  MaxOutput = 2
  MaxListEntries = 1
  Files <- MCFiles
  Contents <- MCContents
  RawInputs <- MCInputs
  Responses <- MCResponses
  OutputLengths = {0, 3}
  SearchEnabled = TRUE
  Goals <- MCGoals
INVARIANTS
  ToolInv
  WorkspaceOnly
  TruncationTold
  VerdictJustified
CHECK_DEADLOCK FALSE
