CONSTANTS
  i1 = i1  i2 = i2  p1 = p1  p2 = p2  p3 = p3
  Procs = {p1, p2, p3}
  Ids = {i1, i2}
  Dims = {384, 1536}
  DefaultDim = 1536
  Backends = {"libsql", "postgres"}
  NoDim = NoDim  NoId = NoId
SPECIFICATION Spec
INVARIANTS RowsFitColumn OpenDimAgrees ServingMeansReady NoRowUnindexed
SYMMETRY Symmetry
