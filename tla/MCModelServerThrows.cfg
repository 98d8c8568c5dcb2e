\* A load that throws.
SPECIFICATION Spec
CONSTANTS
  Nobody = Nobody
  Transcriptions = {t1}
  Syntheses = {}
  Streams = {}
  Clones = {}
  Peers = {}
  Realtime = {}
  Loads = {l1}
INVARIANT NotReadyMeansLoading
CHECK_DEADLOCK FALSE
