SPECIFICATION Spec
CONSTANTS
  Tasks = {"t", "u"}
  Messages <- MCMessages
  CellSize = 3
  Stale <- MCStale
  Beyond = 3
INVARIANT TypeOK
INVARIANT StaysInBlock
INVARIANT RoundTrip
INVARIANT CountsExact
CHECK_DEADLOCK FALSE
