\* Two logs, one of them rotated once, two signals, two requests for an update.
CONSTANTS
  LogFiles = 2
  MaxRotations = 1
  Versions = 1
  MaxSignals = 2
  MaxPosts = 2
  MaxEdits = 1
SPECIFICATION FairSpec
INVARIANTS TypeOK NeverMute OnlyUpdateUndoes
PROPERTIES RotatedIsReleased InterruptEnds TriggersServed
CHECK_DEADLOCK FALSE
