CONSTANTS
  t1 = t1  t2 = t2  t3 = t3  a1 = a1  a2 = a2  e1 = e1  e2 = e2  c1 = c1  k1 = k1  m1 = m1
  Tasks = {t1, t2, t3}
  AccountIds = {a1, a2}
  Emails = {e1, e2}
  Tokens = {c1}
  Keys = {k1}
  Memories = {m1}
  MaxSetups = 2
  Placeholder = Placeholder
  None = None
SPECIFICATION Spec
INVARIANTS OneIdentity
PROPERTIES IdentitySettles
SYMMETRY Symmetry
