\* A Wyoming or realtime peer across a hot swap.
SPECIFICATION Spec
CONSTANTS
  Nobody = Nobody
  Transcriptions = {}
  Syntheses = {}
  Streams = {}
  Clones = {}
  Peers = {p1}
  Realtime = {}
  Loads = {l1}
INVARIANT NoDanglingCall
CHECK_DEADLOCK FALSE
