SPECIFICATION Spec
CONSTANTS
  None = None
  u = u
  v = v
  arr = arr
  t = t
  x = x
  y = y
  l1 = l1
  l2 = l2
  l3 = l3
  m1 = m1
  m3 = m3
  c1 = c1
  c2 = c2
  Leaves = {u, v, arr}
  Arrays = {arr}
  Tops = {t}
  Subs = {x, y}
  SelOrder <- MCSelOrder
  Objects <- MCObjects
  Texts <- MCTexts
  Firsts <- MCFirsts
  Context = 0
  Calls = {c1, c2}
  Budgets <- MCBudgets
INVARIANTS
  TypeOK
  NoneOverlap
  MachineIsTold
PROPERTIES
  KeepsTheSelected
CHECK_DEADLOCK FALSE
