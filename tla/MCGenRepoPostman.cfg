SPECIFICATION Spec
CONSTANTS
  Base <- Always
  Ctl <- WithCtl
  Gen <- Decls
  Targets <- TargetDecls
  MaxRuns = 2
  MaxEdits = 2
  MaxFaults = 1
INVARIANTS
  NonDestructive
