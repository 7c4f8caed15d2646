SPECIFICATION Spec
CONSTANTS
  Users = {u1}
  Jobs = {j1, j2}
  Amounts = {1}
  SeedRows <- Seeded
  NoRow = NoRow
  Refs = {r1}
  NoRef = NoRef
  MinBalance = 0
  MaxAmount = 1
  MaxRetries = 2
  MaxFaults = 0
  MaxAdjusts = 1
  ClockRepeats = TRUE
  Codes = {c1}
  NoCode = NoCode
  Campaigns <- OneCampaign
  MaxTime = 1
SYMMETRY JobSymmetry
INVARIANTS
  HistoryIsBacked
  RetriesApplyOnce
PROPERTIES
  KeepsAccounts
  ServiceAloneIsFrozen
