SPECIFICATION FairSpec
CHECK_DEADLOCK FALSE
CONSTANTS
  Caller = {timer, u1}
  Timer = timer
  Slot = {s1, s2, s3}
  NoSlot = NoSlot
  File = {f1, f2, f3, f4, f5}
  NoFile = NoFile
  Chunks = 1
  Overlap = FALSE
  Restarts = FALSE
  MaxFaults = 3
PROPERTIES
  UploadCompletes
