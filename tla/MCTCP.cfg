SPECIFICATION Spec
CONSTANTS
  Peers = {p1, p2}
  Clients = {p1}
  SeqMod = 12
  InitialSeqs = {0}
  AckNos = {1, 2, 3}
  HeaderLen = 1
  BodyLens = {1}
  NotFoundLen = 1
  MAX_SYN_RETRIES = 1
  Malloc = {TRUE}
  TelnetRuns = FALSE
  Lossy = {p1}
  MaxTicks = 1
  MaxSeq = 5
INVARIANT WaitsForSomething
PROPERTIES ClosesOnlyWhenAcknowledged ClosingPeerIsReleased
CHECK_DEADLOCK FALSE
