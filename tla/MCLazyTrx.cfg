SPECIFICATION FairSpec
CONSTANTS
  Callers = {c1, c2}
  Keys = {main, tenant}
  Default = main
  NoCaller = NoCaller
  NoKey = NoKey
INVARIANTS
  TypeOK
  NoOpenAfterClose
  CommitIsTotal
  BeginOnce
PROPERTIES
  FailedCommitSticks
  Implements
  CallsReturn
