SPECIFICATION Spec
CHECK_DEADLOCK FALSE
CONSTANTS
  Submission = {a}
  NoSubmission = NoSubmission
  Engines = {"comfyui"}
  Overlap = FALSE
PROPERTIES
  CancellationIsFinal
