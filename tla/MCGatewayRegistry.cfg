SPECIFICATION Spec
CONSTANTS
  a = a
  b = b
  grpc = grpc
  http = http
  Services = {grpc, http}
  Http = {http}
  Boots <- TwoAndOne
  Sum <- TwoConfigs
  MaxTries = 1
  MaxOpens = 2
  MaxFaults = 1
INVARIANTS
  TypeOK
  MountedWasServed
