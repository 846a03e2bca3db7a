SPECIFICATION Spec
CHECK_DEADLOCK FALSE
CONSTANTS
  Submission = {a, b}
  NoSubmission = NoSubmission
  Engines = {"comfyui"}
  Overlap = TRUE
INVARIANTS
  SubmissionIsIdempotent
