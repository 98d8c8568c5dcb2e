\* A Wyoming connection and a realtime one, stopped while they are served.
SPECIFICATION Spec
CONSTANTS
  Nobody = Nobody
  Started = {"wyoming", "ws", "realtime"}
  WyomingConns = {w1}
  RealtimeConns = {p1}
  DrainTries = 1
INVARIANTS AcceptNeverBlocks DrainedAlone SweptOrLeaving RegisteredOpen
PROPERTIES WyomingStops 
CHECK_DEADLOCK FALSE
