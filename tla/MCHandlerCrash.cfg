\* A target that cannot be resolved.
CONSTANTS
  Reqs = {r1, r2}
  a = a
  b = b
  c = c
  d = d
  e = e
  f = f
  x = x
  y = y
  Names = {a, b, c}
  NoName = NoName
  Suffixes <- Flat
  Qtypes = {"A"}
  Blocked = {}
  NXDomain = FALSE
  FollowCnameDepth = 1
  Upstream <- Moody
  Asked <- AskAB
  MaxFillers = 2
  Custom <- NoCustom
SPECIFICATION Spec
SYMMETRY Symm
INVARIANTS NeverCrashes
CHECK_DEADLOCK FALSE
