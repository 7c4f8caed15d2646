-------------------------------- MODULE Accounts -------------------------------
(***************************************************************************)
(* What gem-server promises of balances and answers, without statements,    *)
(* histories, retries or use cases: an account is opened empty, a balance    *)
(* moves within the range, one version at a time, on behalf of a request     *)
(* that is not answered yet, and nobody is told of a movement that never     *)
(* was.  Since the lock of the code refuses every row it read itself,        *)
(* movements begin only after the first manual adjustment.                   *)
(***************************************************************************)
EXTENDS Integers

CONSTANTS
  Jobs,      \* requests
  Keys,      \* accounts: a user and a currency type
  InRange,   \* balances an account may have
  SeedRows,  \* accounts that may exist at the start
  NoRow      \* no such account

VARIABLES
  rows,      \* the accounts
  adjusted,  \* has anybody adjusted an account by hand?
  movers,    \* requests that have moved a balance
  answers    \* what each request was told

vars == <<rows, adjusted, movers, answers>>

Zero == [balance |-> 0, version |-> 0]

Init ==
  /\ rows \in [Keys -> SeedRows \cup {NoRow}]
  /\ adjusted = FALSE
  /\ movers = {}
  /\ answers = [j \in Jobs |-> "none"]

-----------------------------------------------------------------------------

\* An account is opened; once rows are adjusted beside the server, an account that
\* exists may be opened over again.
Open ==
  /\ \E k \in Keys :
       /\ rows[k] \in {NoRow, Zero} \/ adjusted
       /\ rows' = [rows EXCEPT ![k] = Zero]
  /\ UNCHANGED movers

Move(j) ==
  /\ adjusted
  /\ \E k \in Keys, b \in InRange :
       /\ rows[k] # NoRow
       /\ rows' = [rows EXCEPT ![k] = [balance |-> b, version |-> rows[k].version + 1]]
  /\ movers' = movers \cup {j}

\* A request is told once that its movement was made, or anything else.
Answer(j) ==
  /\ \/ answers' = [answers EXCEPT ![j] = "other"]
     \/ j \in movers /\ answers' = [answers EXCEPT ![j] = "moved"]

Request(j) ==
  /\ answers[j] = "none"
  /\ Open \/ Move(j) \/ UNCHANGED <<rows, movers>>
  /\ Answer(j) \/ UNCHANGED answers
  /\ UNCHANGED adjusted

Adjust ==
  /\ \E k \in Keys, b \in InRange :
       rows' = [rows EXCEPT ![k] =
                  [balance |-> b,
                   version |-> IF rows[k] = NoRow THEN 0 ELSE rows[k].version + 1]]
  /\ adjusted' = TRUE
  /\ UNCHANGED <<movers, answers>>

-----------------------------------------------------------------------------

Next == Adjust \/ \E j \in Jobs : Request(j)

Spec == Init /\ [][Next]_vars

=============================================================================
