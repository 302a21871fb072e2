\* Two requests by any protocol through a reload.
CONSTANTS
  Reqs = {r1, r2}
  NoReq = NoReq
  HttpEnabled = TRUE
  Limit = 1
  MaxGen = 2
SPECIFICATION FairSpec
INVARIANTS TypeOK NoSendOnClosed
PROPERTIES PortsAreFreed AcceptedIsProcessed OldLoopsEnd OnlyDroppedHoldUp
CHECK_DEADLOCK FALSE
