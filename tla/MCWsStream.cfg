\* Frames shorter than the step, as long as it, and longer than the window.
SPECIFICATION Spec
CONSTANTS
  Step = 3
  Length = 5
  Keep = 1
  Feeds = {1, 3, 7}
  MaxFed = 14
  MaxFlushes = 3
INVARIANTS NothingSkipped ToldIsCurrent
CHECK_DEADLOCK FALSE
