SPECIFICATION ServiceSpec
CONSTANTS
  Requests = {"r1", "r2"}
  Tokens = {"t1", "t2"}
  Sends <- SomeSends
  Sessions <- SomeSessions
  OptionLists <- SomeOptionLists
  MaxWrites = 2
  Callers = {"c1", "c2"}
  Contents = {"a", "b"}
  Names = {"x", "y", "."}
  Orders <- SomeOrders
  MaxCalls = 4
  MaxFailures = 1
  Rows <- SomeRows
  Filters <- SomeFilters
  Scopes <- SomeScopes
  Sorts <- SomeSorts
  Pages <- SomePages
  Sizes <- SomeSizes
  DefaultSize = 2
  maxPageSize = 3
  maxPageSizeExport = 4
  MaxOps = 1
  MaxRowChanges = 1
INVARIANTS
  GuardDecidesFresh
  StoreAnswersTrue
  RowsAsAskedFor
CHECK_DEADLOCK FALSE
