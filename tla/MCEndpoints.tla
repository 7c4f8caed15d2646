------------------------------ MODULE MCEndpoints ------------------------------
EXTENDS Endpoints

CONSTANTS u1, t1, t2, t3, c1, c2, c3

\* Two transactions and two codes, made one after the other.
Seeded == [r \in Rows |->
  CASE r = <<u1, t1>> -> [at |-> 0, kind |-> "grant"]
    [] r = <<u1, t2>> -> [at |-> 1, kind |-> "consume"]
    [] r = c1         -> [at |-> 0, kind |-> "promotion"]
    [] r = c2         -> [at |-> 1, kind |-> "gift"]
    [] OTHER          -> NoRow]
SeedTables == {Seeded}

Restricted == [enabled |-> TRUE, restricted |-> TRUE]
Closed     == [enabled |-> FALSE, restricted |-> FALSE]
TwoConfigs == {Restricted, Closed}
=============================================================================
