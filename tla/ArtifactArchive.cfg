SPECIFICATION Spec
CONSTANTS
  archiver = archiver
  a = a
  b = b
  Keys <- MCKeys
  Callers = {archiver, a, b}
  MaxVersions = 3
  Artifacts <- MCArtifacts
  KeyOf <- MCKeyOf
  InSandbox = {"reportArtifact"}
  Archiver = archiver
  MaxCrashes = 1
  Limits = {1, 2}
SYMMETRY Symmetry
INVARIANTS
  ArchiveInv
  FilesInStep
  MetadataNeverAhead
CHECK_DEADLOCK FALSE
