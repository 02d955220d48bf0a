CONSTANTS
  Captures = {c1}
  MaxAttempts = 2
  Workers = {w1}
  Copies = {d1}
  NoCapture = NoCapture
SPECIFICATION Spec
PROPERTIES
  ProcessingKeepsPackage
CHECK_DEADLOCK FALSE
