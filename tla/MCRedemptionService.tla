-------------------------- MODULE MCRedemptionService --------------------------
EXTENDS RedemptionService, TLC

\* Requests are interchangeable.
JobSymmetry == Permutations(Jobs)

\* currency.MinBalance, scaled down (a .cfg has no negative numbers).
Lowest == -1

\* Users start without a row or with an empty one.
Seeded == {[balance |-> 0, version |-> 0]}

\* A single-use code that is always valid, and an unlimited one that expires.
SingleUse == [max |-> 1, from |-> 0, until |-> 1, amount |-> 2, type |-> "free"]
Expiring  == [max |-> 0, from |-> 0, until |-> 0, amount |-> 1, type |-> "free"]
OneCampaign  == {SingleUse}
TwoCampaigns == {SingleUse, Expiring}
=============================================================================
