SPECIFICATION FairSpec
CONSTANTS
  Users = {u1}
  Jobs = {j1, j2}
  Amounts = {2}
  SeedRows <- SeededOneOrTwo
  NoRow = NoRow
  Refs = {r1}
  NoRef = NoRef
  MinBalance <- Lowest
  MaxAmount = 2
  MaxRetries = 2
  MaxFaults = 1
  MaxAdjusts = 2
  ClockRepeats = FALSE
INVARIANTS
  TypeOK
  CompletedIsPaidFor
  FailedTookNoPaid
  HistoryIsBacked
  AnswersAreCovered
PROPERTIES
  EveryPaymentIsAnswered
