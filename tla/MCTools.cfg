SPECIFICATION ToolsSpec
CONSTANTS
  Base <- Always
  Ctl <- WithCtl
  Gen <- Decls
  Targets <- TargetDecls
  MaxRuns = 2
  MaxEdits = 2
  MaxFaults = 1
  Modules = {"a", "b"}
  BaseFiles <- AlwaysFiles
  CtlFiles <- CtlOnly
  Queues <- OneOrTwo
  FlagSets <- FlagsGiven
  UrlPaths <- PathPrefixes
  Collected = "a"
  MaxRequests = 3
  MaxFolders = 2
  MaxClassicRuns = 3
  MaxClassicEdits = 1
  Tools = {"repo", "classic", "collection", "ddl", "columns", "migrations"}
  Terminals = {"x", "y"}
  Styles = {"plain", "V", "U", "R"}
  Slugs = {"add", "drop"}
  Before = 998
  MaxMade = 3
INVARIANTS
  ToolsTypeOK
  NothingTwice
  ReferencesResolve
  OkMeansDone
  RoutesHaveHandlers
  EditsSurvive
  SourcesAgree
  FieldsFit
PROPERTIES
  UserCodeKept
  NumbersGrow
CHECK_DEADLOCK FALSE
