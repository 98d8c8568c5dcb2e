\* One streamed reply of a cloned voice, several chunks per sentence, and a transcription.
SPECIFICATION Spec
CONSTANTS
  Nobody = Nobody
  Requests = {r1}
  Clones = {r1}
  Jobs = {j1}
  Sentences = 2
  MaxChunks = 2
  MaxQueue = 2
INVARIANTS NoDeadlock ModelHeldByWorkers NoLostWakeup AudioInOrder
PROPERTIES RepliesAreKept CancelStopsWorker EveryoneAnswered
CHECK_DEADLOCK FALSE
