SPECIFICATION StudioSpec
CHECK_DEADLOCK FALSE
CONSTANTS
  p1 = p1
  p2 = p2
  p3 = p3
  n1 = n1
  n2 = n2
  hero = hero
  world = world
  clip = clip
  take1 = take1
  take2 = take2
  master1 = master1
  master2 = master2
  thumb = thumb
  subs = subs
  Proposal = {p1, p2, p3}
  LabelOf <- Labels
  Asset = {clip, take1, take2, master1, master2, thumb, subs}
  RoleOf <- Roles
  Job = {n1, n2}
  Timeline = {t1}
  Render = {n1, n2}
  Package = {k1}
  MaxEdits = 2
  MaxDetails = 1
  CanonIn = {"package"}
  Workflow = {"frames", "motion"}
  DefaultWorkflow = "frames"
  Offer = {"big"}
  Selection = {"none", "frame"}
  MemoryOf <- Memory
  NeedsMemory <- Needs
  ExpectedMinutes <- Minute
  LongestMinutes <- Minutes
  Fits <- FitsDesk
  PaidJob = {"j1"}
  Price = {1, 2}
  SavedLimits <- OneLimit
  MaxVisits = 2
  MaxEstimates = 2
  MaxClock = 1
  EstimateLife = 1
  Medium <- Media
  TypeOf <- Types
  Manifest = {"dataset"}
  MinSamples = 2
  MaxSamples = 3
  MaxInputs = 3
  MaxTicks = 3
  TextLengths = {2}
  MaxText = 10
  TextLimit <- OwnLimits
  EntryLength = 2
  ReportFile <- FourReports
  Video = {"v1", "v2"}
  TypedMetrics <- TypedFigures
  MaxReportRows = 3
  EnoughViews = 100
  SnapshotId = {n1, n2}
  LearningId = {"l1"}
  Release = {"rel"}
INVARIANTS
  PackageIsAsAttested
