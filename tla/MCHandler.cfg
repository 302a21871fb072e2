\* Chains, circles, a blocked name and one that cannot be resolved; a request
\* meets what the fillers of earlier ones have left or are about to leave in the
\* cache.  The process may panic, and then stops.
CONSTANTS
  Reqs = {r1}
  a = a
  b = b
  c = c
  d = d
  e = e
  f = f
  x = x
  y = y
  Names = {a, b, c, d, e, f, x, y}
  NoName = NoName
  Suffixes <- DBelowC
  Qtypes = {"A", "CNAME"}
  Blocked = {x}
  NXDomain = FALSE
  FollowCnameDepth = 2
  Upstream <- Various
  Asked <- AskVarious
  MaxFillers = 2
  Custom <- CustomLater
SPECIFICATION FairSpec
INVARIANTS TypeOK AnswersComplete AskedUnblocked
PROPERTIES Answered
CHECK_DEADLOCK FALSE
