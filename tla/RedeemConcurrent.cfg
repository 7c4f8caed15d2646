SPECIFICATION FairSpec
CONSTANTS
  Users = {u1}
  Jobs = {j1, j2}
  Amounts = {}
  SeedRows = {}
  NoRow = NoRow
  Refs = {}
  NoRef = NoRef
  MinBalance <- Lowest
  MaxAmount = 2
  MaxRetries = 2
  MaxFaults = 1
  MaxAdjusts = 2
  ClockRepeats = FALSE
  Codes = {c1}
  NoCode = NoCode
  Campaigns <- TwoCampaigns
  MaxTime = 1
INVARIANTS
  TypeOK
  RedemptionIsGranted
  RedeemedUserGetsNothingMore
  RedeemedCodeSurvives
  RedeemGrantsOnce
PROPERTIES
  EveryRedemptionIsAnswered
