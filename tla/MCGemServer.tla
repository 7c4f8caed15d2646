------------------------------ MODULE MCGemServer ------------------------------
EXTENDS GemServer, TLC

\* Requests are interchangeable.
JobSymmetry == Permutations(Jobs)

\* A row that operators loaded before the service started.
Seeded == {[balance |-> 1, version |-> 0]}

\* A single-use code that may expire while it is redeemed.
Expiring    == [max |-> 1, from |-> 0, until |-> 0, amount |-> 1, type |-> "free"]
OneCampaign == {Expiring}
=============================================================================
