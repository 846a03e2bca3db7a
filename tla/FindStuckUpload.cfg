SPECIFICATION FairSpec
CHECK_DEADLOCK FALSE
CONSTANTS
  Caller = {timer}
  Timer = timer
  Slot = {s1}
  NoSlot = NoSlot
  File = {f1, f2, f3}
  NoFile = NoFile
  Chunks = 3
  Overlap = FALSE
  Restarts = FALSE
  MaxFaults = 1
PROPERTIES
  UploadCompletes
