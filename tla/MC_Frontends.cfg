CONSTANTS
  Ids = {1, 2, 3}
  Instants = {1, 2, 3}
  Stamp <- HalfTicks
  Tags = {"a", "b"}
  NoRow = NoRow
  NoFilter = NoFilter
  NoCursor = NoCursor
  NoAnswer = NoAnswer
  MaxPageSize = 3
  AskedLimits = {0, 1, 4}
  AskedFilters = {"a"}
  RrfK = 1
  ListPageSize = 1
  MaxHistory = 3
  DefaultLimit = 2
  ListLimits = {2, 4}
  ScreenRows = {1, 2}
  ReqIds = {1}
  NoId = NoId
  Batches <- SmallBatches
  MaxLines = 3
SPECIFICATION FrontSpec
INVARIANTS NoneMissed NoneRepeated TotalAddsUp FusionRespectsRanks AgreedFirst HitsMatchFilter PagerInStep RepliesInOrder BatchAccounted
PROPERTIES NoOtherShownDeleted WalkEnds CatchesUp
CHECK_DEADLOCK FALSE
