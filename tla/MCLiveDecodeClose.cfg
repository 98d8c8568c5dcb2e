\* A shutdown that the worker misses.
SPECIFICATION Spec
CONSTANTS
  LeftPad = 2
  RightPad = 2
  PromptLen = 3
  Chunk = 2
  EncMax = 6
  MaxAudio = 8
  MaxFailures = 1
PROPERTY CloseReturns
CHECK_DEADLOCK FALSE
