\* Both modes and the worker; feeds, flushes and one failure, past the room of the encoder.
SPECIFICATION Spec
CONSTANTS
  LeftPad = 2
  RightPad = 2
  PromptLen = 3
  Chunk = 2
  EncMax = 6
  MaxAudio = 8
  MaxFailures = 1
INVARIANTS NoDeadlock AudioAccounted TokensInOrder FlushTellsAll FeedsExclusive
PROPERTIES CaptionsAreKept CallsReturn
CHECK_DEADLOCK FALSE
