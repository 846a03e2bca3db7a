SPECIFICATION FilesSpec
CHECK_DEADLOCK FALSE
CONSTANTS
  Window = {"w1", "w2", "w3"}
  Solo = TRUE
  Project = {"p1"}
  Import = {"m1"}
  MaxBackups = 2
  MaxVersions = 2
  ImportId = {"i1", "i2"}
  Story <- ThreeStories
  ProjectSeconds = 600
  MaxDirections = 2
  ModelOrder <- ThreeModels
  InstallMode <- EachMode
  Qualification = FALSE
  Request = {"r1", "r2"}
  Selection = {"s1"}
  MaxFacts = 1
  MaxPlans = 1
  MaxTicks = 2
  LogMayFail = TRUE
INVARIANTS
  HolderIsNamed
  HalfMigratedHasBackup
  AcceptedPlanIsStored
  PlanTellsTheStory
  ServesWholeModels
  SecondOnlyAfterFailure
  ReportIsTrue
PROPERTIES
  RefusedOnlyWhileFresh
  RequestsEnd
