SPECIFICATION FairSpec
CONSTANTS
  Users = {u1}
  Jobs = {j1}
  Amounts = {0, 1, 2, 3}
  SeedRows <- SeededOrOverdrawn
  NoRow = NoRow
  Refs = {}
  NoRef = NoRef
  MinBalance <- Lowest
  MaxAmount = 2
  MaxRetries = 3
  MaxFaults = 1
  MaxAdjusts = 3
  ClockRepeats = FALSE
INVARIANTS
  TypeOK
  BalancesInRange
  FreshSaveIsRefused
  ConsumeNeverOverdraws
  FreeBeforePaid
  SuccessIsAccounted
PROPERTIES
  EveryRequestIsAnswered
