SPECIFICATION Spec
CONSTANTS
  Users = {u1}
  Jobs = {j1, j2, j3}
  Amounts = {2}
  SeedRows <- SeededOneOrTwo
  NoRow = NoRow
  Refs = {r1}
  NoRef = NoRef
  MinBalance <- Lowest
  MaxAmount = 2
  MaxRetries = 2
  MaxFaults = 0
  MaxAdjusts = 3
  ClockRepeats = FALSE
SYMMETRY JobSymmetry
INVARIANTS
  RepeatsMoveNothing
