SPECIFICATION FairSpec
CONSTANTS
  Requests = {r1, r2}
  DBs = {main, tenant}
  PoolSize = 1
INVARIANTS
  TypeOK
  SuccessMeansDurable
  ErrorUndoes
PROPERTIES
  RequestsAnswered
  ConnectionsReturn
  Implements
