SPECIFICATION Spec
CONSTANTS
  Job = {j1}
  NoJob = NoJob
  Lease = {l1, l2}
  NoLease = NoLease
  Caller = {timer, u1}
  Timer = timer
  Artifacts = 2
  MaxConcurrentGpus = 1
  MaxFaults = 3
  Forgetful = TRUE
  Decision = {"approved", "held", "rejected"}
  ReplyFields <- ContractReply
SYMMETRY Interchangeable
INVARIANTS
  RecordedMeansStopped
  OutputsAreWhole
  NoPodIsLost
PROPERTIES
  SettledIsFinal
  ImplementsLeaseAudit
