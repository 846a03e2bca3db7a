SPECIFICATION FairSpec
CHECK_DEADLOCK FALSE
CONSTANTS
  Submission = {a, b, c}
  NoSubmission = NoSubmission
  Engines = {"worker-python", "comfyui"}
  Overlap = TRUE
INVARIANTS
  RestartFindsTheAnswer
  AnswerIsBacked
  OneRunner
PROPERTIES
  ExecutionEnds
