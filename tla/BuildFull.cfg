SPECIFICATION Spec
CONSTANTS
  NoFile = NoFile
  BuiltForks <- CapellaForks
  CommandLines <- AllCommands
  MaxEdits = 3
  MaxRuns = 2
INVARIANTS PrefixImportable PackagesComplete DoneIsCurrent
CHECK_DEADLOCK FALSE
