SPECIFICATION Spec
CHECK_DEADLOCK FALSE
CONSTANTS
  Submission = {a, b, c}
  NoSubmission = NoSubmission
  Engines = {"worker-python"}
  Overlap = FALSE
PROPERTIES
  ImplementsWorkerReport
