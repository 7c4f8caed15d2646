SPECIFICATION FairSpec
CONSTANTS
  u1 = u1
  t1 = t1
  t2 = t2
  t3 = t3
  c1 = c1
  c2 = c2
  c3 = c3
  Users = {u1}
  Txns = {t1, t2, t3}
  Codes = {c1, c2, c3}
  NoRow = NoRow
  Seeds <- SeedTables
  StartTime = 1
  MaxTime = 2
  DefaultLimit = 1
  MaxLimit = 2
  Calls = {x1, x2}
  Lifetime = 1
  Configs <- TwoConfigs
  Limits = {0, 2, 3}
  Asked = {"gift"}
INVARIANTS
  TypeOK
  ScanSeesEverything
  UserHoldsToken
  SameAnswerOnBoth
PROPERTIES
  EveryCallEnds
