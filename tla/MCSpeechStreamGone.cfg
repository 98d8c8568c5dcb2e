
SPECIFICATION Spec
CONSTANTS
  Nobody = Nobody
  Requests = {r1}
  Clones = {}
  Jobs = {j1}
  Sentences = 3
  MaxChunks = 1
  MaxQueue = 1
PROPERTY NoSynthForNobody
CHECK_DEADLOCK FALSE
