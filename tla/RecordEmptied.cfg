SPECIFICATION MCSpec
CONSTANTS
  c1 = c1
  c2 = c2
  b1 = b1
  b2 = b2
  b3 = b3
  Sets = {c1, c2}
  MaxRev = 2
  Blobs = {b1, b2, b3}
  Content <- MCContent
  NoRevision = NoRevision
  NoAssignment = NoAssignment
  NoSnapshot = NoSnapshot
  Assembling = Assembling
  MaxEvents = 2
PROPERTIES
  ForgettingIsSurveying
CHECK_DEADLOCK FALSE
