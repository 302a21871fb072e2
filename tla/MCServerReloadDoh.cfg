\* A reload with the DoH server.
CONSTANTS
  Reqs = {r1, r2}
  NoReq = NoReq
  HttpEnabled = TRUE
  Limit = 1
  MaxGen = 2
SPECIFICATION FairSpec
PROPERTY ReloadCompletes
CHECK_DEADLOCK FALSE
