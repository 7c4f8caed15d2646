---------------------------- MODULE MCPaymentService ---------------------------
EXTENDS PaymentService, TLC

\* Requests are interchangeable.
JobSymmetry == Permutations(Jobs)

\* currency.MinBalance, scaled down (a .cfg has no negative numbers).
Lowest == -1

\* A row that operators loaded before the service started.
Seeded == {[balance |-> 1, version |-> 0]}
SeededOneOrTwo == {[balance |-> b, version |-> 0] : b \in {1, 2}}
=============================================================================
