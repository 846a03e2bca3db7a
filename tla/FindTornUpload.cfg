SPECIFICATION Spec
CHECK_DEADLOCK FALSE
CONSTANTS
  Caller = {timer, u1}
  Timer = timer
  Slot = {s1, s2}
  NoSlot = NoSlot
  File = {f1, f2, f3, f4}
  NoFile = NoFile
  Chunks = 2
  Overlap = TRUE
  Restarts = FALSE
  MaxFaults = 0
INVARIANTS
  StoredIsWhole
