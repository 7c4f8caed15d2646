SPECIFICATION Spec
CONSTANTS
  Users = {u1}
  Jobs = {j1}
  Amounts = {2}
  SeedRows <- Seeded
  NoRow = NoRow
  Refs = {}
  NoRef = NoRef
  MinBalance <- Lowest
  MaxAmount = 2
  MaxRetries = 2
  MaxFaults = 0
  MaxAdjusts = 0
  ClockRepeats = FALSE
INVARIANTS
  UncontendedSaveSucceeds
