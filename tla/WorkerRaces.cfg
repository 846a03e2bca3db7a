SPECIFICATION Spec
CONSTANTS
  Job = {j1}
  NoJob = NoJob
  Lease = {l1, l2}
  NoLease = NoLease
  Caller = {timer, u1, u2}
  Timer = timer
  Artifacts = 1
  MaxConcurrentGpus = 1
  MaxFaults = 0
  Forgetful = TRUE
  Decision = {"approved", "held", "rejected"}
  ReplyFields <- ContractReply
SYMMETRY Interchangeable
INVARIANTS
  OneDownloader
PROPERTIES
  IdentityIsPermanent
