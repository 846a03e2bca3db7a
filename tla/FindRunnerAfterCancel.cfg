SPECIFICATION Spec
CHECK_DEADLOCK FALSE
CONSTANTS
  Submission = {a}
  NoSubmission = NoSubmission
  Engines = {"worker-python"}
  Overlap = FALSE
INVARIANTS
  CancelledIsStopped
