CONSTANTS
  i1 = i1  i2 = i2  i3 = i3  u1 = u1  u2 = u2  x1 = x1  x2 = x2  x3 = x3  m1 = m1  m2 = m2  t1 = t1  t2 = t2
  Ids = {i1, i2}
  Users = {u1, u2}
  Texts = {x1, x2}
  Metas = {m1}
  Dims = {1, 2}
  StoreDim = 1
  SearchLimit = 1
  Near <- SelfNear
  Tasks = {t1, t2}
  Backend = "libsql"
  Modes = {"llm", "raw"}
  Requests <- AllRequests
  Faults = TRUE
  NoRow = NoRow  NoId = NoId  NoUser = NoUser  NoRequest = NoRequest  NoVector = NoVector
SPECIFICATION CallsSpec
INVARIANTS TypeOK SettledIndexMatches OwnerKept DuplicatesUnchecked
PROPERTIES ImplementsAtomicStore
SYMMETRY Symmetry
