SPECIFICATION Spec
CONSTANTS
  SourceFiles <- MCSourceFiles
  PathOrder <- MCPathOrder
  Projects <- MCProjects
  MaxSaves = 2
INVARIANTS
  LandsAsAnalysed
  EarlySaveKept
  AllStagedBeforeRename
  ReportMatchesDisk
  ExitZeroMeansLanded
CHECK_DEADLOCK FALSE
