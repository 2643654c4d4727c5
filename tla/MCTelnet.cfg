SPECIFICATION Spec
CONSTANTS
  Streams <- Negotiation
  BufferSize = 4
  MaxSegment = 2
  MaxTaken = 5
  MaxKeys = 1
INVARIANTS ShownOnce ShowsDecoded BufferInBounds NoConnectionLeaks
PROPERTY FinEndsSession
CHECK_DEADLOCK FALSE
