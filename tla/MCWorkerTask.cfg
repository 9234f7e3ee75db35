SPECIFICATION FairSpec
CONSTANTS
  MaxAttempts = 3
INVARIANTS
  TypeOK
  DoneMeansCommitted
  SettledOnReturn
  RepeatsOnlyUnheard
PROPERTIES
  TransactionEnds
