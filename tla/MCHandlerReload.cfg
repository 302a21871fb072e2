\* An alias of a name whose custom address changes with a reload.
CONSTANTS
  Reqs = {r1, r2}
  a = a
  b = b
  c = c
  d = d
  e = e
  f = f
  x = x
  y = y
  Names = {a, b, c}
  NoName = NoName
  Suffixes <- Flat
  Qtypes = {"A"}
  Blocked = {}
  NXDomain = FALSE
  FollowCnameDepth = 2
  Upstream <- Chain
  Asked <- AskAB
  MaxFillers = 2
  Custom <- CustomC
SPECIFICATION Spec
SYMMETRY Symm
INVARIANTS NoStaleCustom
