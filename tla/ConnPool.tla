-------------------------------- MODULE ConnPool -------------------------------
(***************************************************************************)
(* TransactionManager.WithTransaction on the pool of database/sql.  A        *)
(* request holds one connection from BeginTx to Commit or Rollback, and      *)
(* because the repositories run on the pool every statement in between asks  *)
(* for a second one.  Statements before BeginTx hold a single connection.    *)
(***************************************************************************)
EXTENDS Integers, FiniteSets

CONSTANTS
  Requests,       \* concurrent requests
  MaxOpenConns,   \* SetMaxOpenConns
  MaxStatements,  \* bound: statements of one request, inside and outside
  Impatient       \* may clients give up while their request waits?

ASSUME PoolAssumption ==
  /\ IsFiniteSet(Requests)
  /\ MaxOpenConns \in Nat \ {0}
  /\ MaxStatements \in Nat
  /\ Impatient \in BOOLEAN

VARIABLES
  pc,    \* where each request is
  left   \* statements it still runs before it returns

vars == <<pc, left>>

Outside == {"idle", "askProbe", "askBegin", "done"}
Waiting == {"askProbe", "askBegin", "askStatement"}

InTx    == {r \in Requests : pc[r] \in {"inTx", "askStatement", "statement"}}
Running == {r \in Requests : pc[r] \in {"probe", "statement"}}

InUse == Cardinality(InTx) + Cardinality(Running)

Free == InUse < MaxOpenConns

Init ==
  /\ pc = [r \in Requests |-> "idle"]
  /\ left \in [Requests -> 0..MaxStatements]

Move(r, from, to) == pc[r] = from /\ pc' = [pc EXCEPT ![r] = to]

Count(r) == left[r] > 0 /\ left' = [left EXCEPT ![r] = @ - 1]

-----------------------------------------------------------------------------

\* Grant and Consume open the transaction first; the other use cases look
\* something up before.
Arrive(r) ==
  /\ \/ Move(r, "idle", "askBegin") /\ UNCHANGED left
     \/ Move(r, "idle", "askProbe") /\ Count(r)

\* The pool hands a connection to one of those who wait.
GetForProbe(r) == Free /\ Move(r, "askProbe", "probe") /\ UNCHANGED left
BeginTx(r)     == Free /\ Move(r, "askBegin", "inTx") /\ UNCHANGED left

\* Mutant: the statement runs on the connection of its transaction.
GetOwnConnection(r) == Move(r, "askStatement", "statement") /\ UNCHANGED left

GetForStatement(r) == Free /\ Move(r, "askStatement", "statement") /\ UNCHANGED left

\* Mutant: a lookup is repeated without end.
EndProbeForever(r) == Move(r, "probe", "askProbe") /\ UNCHANGED left

\* A lookup may answer the request, or lead to another one or to BeginTx.
EndProbe(r) ==
  \/ Move(r, "probe", "done") /\ UNCHANGED left
  \/ Move(r, "probe", "askProbe") /\ Count(r)
  \/ Move(r, "probe", "askBegin") /\ UNCHANGED left

\* Mutant: one statement more than the use case has.
AskPastEnd(r) == Move(r, "inTx", "askStatement") /\ left' = [left EXCEPT ![r] = @ - 1]

Ask(r) == Move(r, "inTx", "askStatement") /\ Count(r)

EndStatement(r) == Move(r, "statement", "inTx") /\ UNCHANGED left

\* fn returns, or panics: Commit or Rollback gives the connection back. The
\* result of Commit is lost, and no statement ran on the transaction anyway.
EndTx(r) == Move(r, "inTx", "done") /\ UNCHANGED left

\* The request context ends while a request waits for a connection: the call
\* returns its error, and an open transaction is rolled back.
Leave(r) ==
  /\ pc[r] \in Waiting
  /\ pc' = [pc EXCEPT ![r] = "done"]
  /\ UNCHANGED left

GiveUp(r) == Impatient /\ Leave(r)

-----------------------------------------------------------------------------

Get(r)  == GetForProbe(r) \/ BeginTx(r) \/ GetForStatement(r)
Work(r) == EndProbe(r) \/ Ask(r) \/ EndStatement(r) \/ EndTx(r)

Quiescent == (\A r \in Requests : pc[r] = "done") /\ UNCHANGED vars

Next ==
  \/ \E r \in Requests : Arrive(r) \/ Get(r) \/ Work(r) \/ GiveUp(r)
  \/ Quiescent

Spec == Init /\ [][Next]_vars

\* Requests that can run do run; a connection that comes free again and again
\* reaches every waiter in the end. Clients need not send or give up anything.
FairSpec == Spec /\ \A r \in Requests : WF_vars(Work(r)) /\ SF_vars(Get(r))

-----------------------------------------------------------------------------
(* Properties *)

TypeOK ==
  /\ pc \in [Requests -> {"idle", "askProbe", "probe", "askBegin", "inTx",
                          "askStatement", "statement", "done"}]
  /\ left \in [Requests -> 0..MaxStatements]

\* Everybody who holds a connection waits for one more, and none is free.
Stuck ==
  /\ ~Free
  /\ Running = {}
  /\ \A r \in InTx : pc[r] = "askStatement"

\* A pool that is stuck stays stuck: nothing but a client that gives up a request
\* in a transaction undoes it, because every other step needs the connection that
\* only Commit or Rollback would give back.
StuckUntilGivenUp ==
  [][Stuck /\ ~Stuck' => \E r \in InTx : pc'[r] = "done"]_vars

=============================================================================
