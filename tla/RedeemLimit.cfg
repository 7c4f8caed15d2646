SPECIFICATION Spec
CONSTANTS
  Users = {u1, u2}
  Jobs = {j1, j2}
  Amounts = {}
  SeedRows <- Seeded
  NoRow = NoRow
  Refs = {}
  NoRef = NoRef
  MinBalance <- Lowest
  MaxAmount = 2
  MaxRetries = 2
  MaxFaults = 0
  MaxAdjusts = 2
  ClockRepeats = FALSE
  Codes = {c1}
  NoCode = NoCode
  Campaigns <- OneCampaign
  MaxTime = 0
SYMMETRY JobSymmetry
INVARIANTS
  RedemptionsWithinLimit
