\* One request of each kind, both ways to the disclaimer, and a load.
SPECIFICATION Spec
CONSTANTS
  Nobody = Nobody
  Transcriptions = {t1}
  Syntheses = {y1}
  Streams = {s1}
  Clones = {y1, s1}
  Peers = {p1, p2}
  Realtime = {p1}
  Loads = {l1}
INVARIANTS NoDeadlock CallsAreSerialized LateCallsAreLive ReadyRestored
PROPERTIES SwapSparesCalls EveryoneAnswered
CHECK_DEADLOCK FALSE
