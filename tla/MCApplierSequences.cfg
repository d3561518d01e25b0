SPECIFICATION MCSpec
CONSTANTS
  N = 2
  Keyed = {1}
  oa = oa
  ob = ob
  ou = ou
  rx = rx
  re = re
  b1 = b1
  b2 = b2
  s1 = s1
  s2 = s2
  r1 = r1
  r2 = r2
  Owns <- MCOwns
  Rests <- MCRests
  EmptyRest = re
  Blobs = {b1, b2}
  Secrets = {s1, s2}
  Render <- MCRender
  Undefined = Undefined
  Revisions = {r1, r2}
  NoRevision = NoRevision
  Target <- MCTarget
  Unmanaged = Unmanaged
  IgnorePaths <- MCIgnorePaths
  UserWrites <- MCUserWrites
  Absent = Absent
  Garbled = Garbled
  NoHash = NoHash
  OtherHash = OtherHash
  NoEntry = NoEntry
  Keep = Keep
  MergeRetries = 1
  MaxRequests = 3
  MaxEdits = 1
  MaxFaults = 2
INVARIANTS
  NoFalseDrift
PROPERTIES
  AckIsTrue
  DegradedFreezes
CHECK_DEADLOCK FALSE
