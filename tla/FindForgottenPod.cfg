SPECIFICATION FairSpec
CONSTANTS
  Job = {j1}
  NoJob = NoJob
  Lease = {l1}
  NoLease = NoLease
  Caller = {timer, u1}
  Timer = timer
  Artifacts = 1
  MaxConcurrentGpus = 1
  MaxFaults = 1
  Forgetful = TRUE
  Decision = {"approved", "held", "rejected"}
  ReplyFields <- ContractReply
PROPERTIES
  WorkerIsReleased
