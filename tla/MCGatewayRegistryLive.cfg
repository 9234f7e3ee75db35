SPECIFICATION FairSpec
CONSTANTS
  a = a
  b = b
  grpc = grpc
  http = http
  Services = {grpc}
  Http = {}
  Boots <- TwoAndOne
  Sum <- TwoConfigs
  MaxTries = 1
  MaxOpens = 2
  MaxFaults = 2
PROPERTIES
  ServingIsMounted
  ComposersEnd
