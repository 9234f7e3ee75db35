SPECIFICATION FairSpec
CONSTANTS
  Msgs = {m1, m2, m3}
  MaxDay = 2
  MaxFaults = 2
INVARIANTS
  TypeOK
  NothingLostOrOvertaken
PROPERTIES
  AcceptedReachesFile
