\* Three nameservers behind a DoH upstream.
CONSTANTS
  N = 3
  UseDoH = TRUE
  NoReply = NoReply
  Failure = Failure
SPECIFICATION FairSpec
INVARIANTS TypeOK ErrorOnlyIfAllFailed FirstAnswerWins
PROPERTIES AllEnd KeepsPromise
CHECK_DEADLOCK FALSE
