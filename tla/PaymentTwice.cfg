SPECIFICATION Spec
CONSTANTS
  Users = {u1}
  Jobs = {j1, j2}
  Amounts = {2}
  SeedRows <- Seeded
  NoRow = NoRow
  Refs = {r1}
  NoRef = NoRef
  MinBalance <- Lowest
  MaxAmount = 2
  MaxRetries = 2
  MaxFaults = 0
  MaxAdjusts = 2
  ClockRepeats = FALSE
SYMMETRY JobSymmetry
INVARIANTS
  PaidAtMostOnce
