SPECIFICATION ServerFairSpec
CONSTANTS
  Requests = {r1, r2, r3, r4}
  Rest = {r1}
  MaxOpenConns = 3
  MaxStatements = 1
  Impatient = TRUE
INVARIANTS
  ServerTypeOK
  GrpcIsDrained
PROPERTIES
  StuckUntilGivenUp
  EveryoneServed
  ShutdownEnds
