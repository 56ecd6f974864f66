CONSTANTS
  i1 = i1  i2 = i2  i3 = i3  u1 = u1  u2 = u2  x1 = x1  x2 = x2  x3 = x3  m1 = m1  m2 = m2  t1 = t1  t2 = t2
  Ids = {i1, i2, i3}
  Users = {u1, u2}
  Texts = {x1, x2, x3}
  Metas = {m1}
  Dims = {1, 2}
  StoreDim = 1
  SearchLimit = 1
  Near <- PairNear
  Tasks = {t1, t2}
  Backend = "libsql"
  Modes = {"raw"}
  Requests <- AddsAndDeletes
  Faults = FALSE
  NoRow = NoRow  NoId = NoId  NoUser = NoUser  NoRequest = NoRequest  NoVector = NoVector
SPECIFICATION SequentialSpec
INVARIANTS NoNearDuplicates QuietLockstep
PROPERTIES SavedIsSearchable Answered
