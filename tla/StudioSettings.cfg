SPECIFICATION SettingsSpec
CHECK_DEADLOCK FALSE
CONSTANTS
  CloudKey = {k1, k2}
  Limits = {g1}
  CloudCall = {c1, c2}
  Provider = {openai}
  WritingKey = {w1, w2}
  Model = {m1}
  WritingCall = {c1, c2}
  SkillPackage <- TwoVersions
  SkillProject = {j1}
  SkillCall = {c1, c2}
  Presses = 3
  Beginnings <- NothingApproved
  Elsewhere = {"master"}
  Candidates = 2
  ReadMayFail = TRUE
  MaxReopens = 1
  Production = {"lanterns", "harbour"}
  Progress <- TwoProductions
  MaxSaves = 1
  MaxCalls = 2
  r1 = r1
  r2 = r2
SYMMETRY Interchangeable
INVARIANTS
  ReadyWasEarned
  LimitsAreTheLastSaved
  ActiveKeyWasAccepted
  SkillsAreGranted
  TickIsForItsDraft
  StaysInProduction
