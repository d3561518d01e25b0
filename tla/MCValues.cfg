SPECIFICATION Spec
CONSTANTS
  k1 = k1
  k2 = k2
  u = u
  w = w
  Slots <- MCSlots
  Texts <- MCTexts
  Keys = {k1, k2}
  Short = {w}
  MachineName = w
  Templates <- MCTemplates
  Inputs <- MCInputs
  c1 = c1
  c2 = c2
  Calls <- MCCalls
  None = None
  MaxChanges = 2
  MaxDrops = 1
  Variables = {u, w}
SYMMETRY Alike
INVARIANTS
  CaughtUp
  RestoreFaithful
CHECK_DEADLOCK FALSE
