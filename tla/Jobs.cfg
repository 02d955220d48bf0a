CONSTANTS
  Jobs = {j1}
  Captures = {c1}
  MaxAttempts = 3
  CaptureAttempts = 2
  Workers = {w1, w2}
  Editors = {e1}
  Copies = {d1, d2}
  CaptureCopies = {d1}
  NoJob = None
  NoTask = None
SYMMETRY Alike
SPECIFICATION JobsSpec
INVARIANTS
  DetectionInvariant
  CaptureInvariant
PROPERTIES
  ImplementsJobs
  CapturesImplementJobs
CHECK_DEADLOCK FALSE
