SPECIFICATION FairSpec
CONSTANTS
  Payments = {p1, p2}
  NoPayment = NoPayment
  MaxWorkers = 2
  MaxClicks = 2
INVARIANTS
  TypeOK
  OwnWindowSettles
  ApprovalIsCovered
PROPERTIES
  ReplacedNeverSettles
  EveryPaymentSettles
