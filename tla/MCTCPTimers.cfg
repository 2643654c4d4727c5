SPECIFICATION Spec
CONSTANTS
  Peers = {p1, p2}
  Clients = {p1}
  SeqMod = 12
  InitialSeqs = {0}
  AckNos = {1}
  HeaderLen = 1
  BodyLens = {0}
  NotFoundLen = 1
  MAX_SYN_RETRIES = 1
  Malloc = {TRUE, FALSE}
  TelnetRuns = TRUE
  Lossy = {}
  MaxTicks = 2
  MaxSeq = 3
INVARIANTS TimersAreLive SurvivesItsOwnTimerWalk
CHECK_DEADLOCK FALSE
