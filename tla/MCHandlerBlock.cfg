\* An upstream that resolves aliases itself; b is blocked.
CONSTANTS
  Reqs = {r1}
  a = a
  b = b
  c = c
  d = d
  e = e
  f = f
  x = x
  y = y
  Names = {a, b}
  NoName = NoName
  Suffixes <- Flat
  Qtypes = {"A"}
  Blocked = {b}
  NXDomain = FALSE
  FollowCnameDepth = 1
  Upstream <- Recursive
  Asked <- AskAB
  MaxFillers = 1
  Custom <- NoCustom
SPECIFICATION Spec
INVARIANTS BlockedStaysBlocked
CHECK_DEADLOCK FALSE
