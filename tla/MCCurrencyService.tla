--------------------------- MODULE MCCurrencyService ---------------------------
EXTENDS CurrencyService, TLC

\* Requests are interchangeable.
JobSymmetry == Permutations(Jobs)

\* currency.MinBalance, scaled down (a .cfg has no negative numbers).
Lowest == -1

\* A row that operators loaded before the service started.
Seeded == {[balance |-> 2, version |-> 0]}
SeededOrOverdrawn == {[balance |-> b, version |-> 1] : b \in {-1, 1}}
=============================================================================
