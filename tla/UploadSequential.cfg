SPECIFICATION Spec
CHECK_DEADLOCK FALSE
CONSTANTS
  Caller = {timer, u1}
  Timer = timer
  Slot = {s1, s2}
  NoSlot = NoSlot
  File = {f1, f2, f3}
  NoFile = NoFile
  Chunks = 3
  Overlap = FALSE
  Restarts = TRUE
  MaxFaults = 5
INVARIANTS
  StoredIsWhole
  UploadedIsStored
