\* The same instance, for what becomes of replies.
CONSTANTS
  Reqs = {r1, r2, r3}
  c1 = c1
  c2 = c2
  c3 = c3
  c4 = c4
  a1 = a1
  NoRecord = NoRecord
  Records <- MCRecords
  Addresses <- MCAddresses
  Answers <- MCAnswers
  Followed <- MCFollowed
  FollowCnameDepth = 1
  MaxLookups = 2
SPECIFICATION Spec
SYMMETRY Symmetry
INVARIANTS RepliesOwn
CHECK_DEADLOCK FALSE
