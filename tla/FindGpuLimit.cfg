SPECIFICATION Spec
CONSTANTS
  Job = {j1, j2}
  NoJob = NoJob
  Lease = {l1, l2}
  NoLease = NoLease
  Caller = {timer, u1, u2}
  Timer = timer
  Artifacts = 1
  MaxConcurrentGpus = 1
  MaxFaults = 0
  Forgetful = FALSE
  Decision = {"approved"}
  ReplyFields <- ContractReply
INVARIANTS
  WithinGpuLimit
