SPECIFICATION Spec
CONSTANTS
  Requests = {r1}
  DBs = {main}
  PoolSize = 1
INVARIANTS
  HelpersSettle
