------------------------------ MODULE LedgerStore ------------------------------
(***************************************************************************)
(* The two tables every use case of gem-server shares (currency_balances   *)
(* and transactions), the SQL statements the repositories run on them, and *)
(* the Currency entity a use case works on between two statements.         *)
(*                                                                         *)
(* The repositories execute on the connection pool (r.db), never on the    *)
(* *sql.Tx that WithTransaction opens, so every statement commits by       *)
(* itself and the rollback of the surrounding transaction undoes nothing:  *)
(* each statement is one atomic step, and nothing here takes a step back.  *)
(***************************************************************************)
EXTENDS Integers

CONSTANTS
  Users,         \* users who own balances
  Jobs,          \* requests; each runs one use case once
  Amounts,       \* amounts clients ask for
  SeedRows,      \* rows that may stand in currency_balances at the start
  NoRow,         \* no row for this user and currency type
  Refs,          \* payment_request_id values
  NoRef,         \* payment_request_id IS NULL
  MinBalance,    \* currency.MinBalance
  MaxAmount,     \* currency.MaxAmount
  MaxRetries,    \* maxRetries of the application services
  MaxFaults,     \* bound: statements that fail or whose answer is lost
  MaxAdjusts,    \* bound: manual adjustments made beside the service
  ClockRepeats   \* may two time.Now().UnixNano() readings be equal?

CurrencyTypes == {"free", "paid"}
Keys == Users \X CurrencyTypes
Row == [balance : Int, version : Nat]
InRange == MinBalance..MaxAmount

ASSUME LedgerAssumption ==
  /\ Users # {}
  /\ Jobs # {}
  /\ Amounts \subseteq Int
  /\ NoRow \notin Row
  /\ NoRef \notin Refs
  /\ MinBalance \in Int /\ MaxAmount \in Nat /\ MinBalance <= 0
  /\ SeedRows \subseteq [balance : InRange, version : Nat]
  /\ MaxRetries \in Nat \ {0}
  /\ MaxFaults \in Nat /\ MaxAdjusts \in Nat
  /\ ClockRepeats \in BOOLEAN

VARIABLES
  balances,  \* table currency_balances: a row or NoRow for every key
  history,   \* table transactions: its set of rows
  job,       \* the local state of every request
  faults,    \* statements that failed so far
  adjusts,   \* manual adjustments so far
  fresh,     \* auxiliary: <<j, k>> while nobody wrote row k since j read it
  writes     \* auxiliary: every balance a request wrote

store == <<balances, history, faults, adjusts, fresh, writes>>

Ops     == {"none", "grant", "consume", "priority", "payment", "redeem", "delete"}
Pcs     == {"idle", "checkFree", "checkPaid", "find", "create", "save", "record",
            "lookup", "replay", "fail", "complete", "hasRedeemed", "update",
            "saveRedemption", "count", "delete", "done"}
Results == {"none", "ok", "rejected", "conflict", "dbError"}

Job == [op : Ops, pc : Pcs, key : Keys,
        amount : Int,      \* req.Amount
        rest : Int,        \* remainingAmount
        part : Int,        \* the amount of the current Grant or Consume
        before : Int,      \* balanceBefore
        ent : [balance : Int, version : Int],  \* the Currency entity in memory
        attempt : 0..(MaxRetries - 1),  \* attempt of the retry loop
        retried : BOOLEAN, \* retryErr # nil
        stamp : Jobs,      \* whose clock reading made transactionID
        meta : BOOLEAN,    \* does the request carry metadata?
        ref : Refs \cup {NoRef},
        result : Results]

HistoryRow == [id : Jobs \X {"", "free", "paid"}, key : Keys,
               kind : {"grant", "consume"}, amount : Int, before : Int,
               after : Int, ref : Refs \cup {NoRef}]

Write == [by : Jobs, attempt : 0..(MaxRetries - 1), key : Keys, before : Int, after : Int]

Zero == [balance |-> 0, version |-> 0]

IdleJob(j) ==
  [op |-> "none", pc |-> "idle", key |-> CHOOSE k \in Keys : TRUE, amount |-> 0,
   rest |-> 0, part |-> 0, before |-> 0, ent |-> Zero, attempt |-> 0,
   retried |-> FALSE, stamp |-> j, meta |-> TRUE, ref |-> NoRef, result |-> "none"]

LedgerInit ==
  /\ balances \in [Keys -> SeedRows \cup {NoRow}]
  /\ history = {}
  /\ job = [j \in Jobs |-> IdleJob(j)]
  /\ faults = 0 /\ adjusts = 0
  /\ fresh = {} /\ writes = {}

-----------------------------------------------------------------------------
(* Requests *)

At(j, op, pc) == job[j].op = op /\ job[j].pc = pc
RowOf(j)      == balances[job[j].key]
Typed(j, t)   == <<job[j].key[1], t>>

Goto(j, pc)    == job' = [job EXCEPT ![j].pc = pc]
Finish(j, res) == job' = [job EXCEPT ![j].pc = "done", ![j].result = res]

\* transactionID is txn_<UnixNano>: one's own reading, or another's equal one.
Stamps(j) == IF ClockRepeats THEN Jobs ELSE {j}

Begin(j, op, pc, k, a, m, ref) ==
  /\ job[j].pc = "idle"
  /\ \E s \in Stamps(j) :
       job' = [job EXCEPT ![j] =
                 [IdleJob(j) EXCEPT !.op = op, !.pc = pc, !.key = k, !.amount = a,
                                    !.rest = a, !.part = a, !.stamp = s,
                                    !.meta = m, !.ref = ref]]

Refuse(j, op) ==
  /\ job[j].pc = "idle"
  /\ job' = [job EXCEPT ![j].op = op, ![j].pc = "done", ![j].result = "rejected"]

-----------------------------------------------------------------------------
(* How a statement ends: answered, failed before it ran, or its answer lost  *)
(* after it committed (broken connection, cancelled request context).       *)

Answered == UNCHANGED faults
Broken   == faults < MaxFaults /\ faults' = faults + 1

\* A statement that only reads, or whose effect another module tracks, fails.
StatementFails(j) ==
  /\ Broken
  /\ Finish(j, "dbError")
  /\ UNCHANGED <<balances, history, adjusts, fresh, writes>>

ReadOnly == Answered /\ UNCHANGED <<balances, history, adjusts, writes>>

-----------------------------------------------------------------------------
(* CurrencyRepository *)

WriteRow(k, row) == balances' = [balances EXCEPT ![k] = row]

\* SELECT ... WHERE user_id = ? AND currency_type = ? found the row.
ReadRow(j, k) ==
  /\ balances[k] # NoRow
  /\ fresh' = fresh \cup {<<j, k>>}
  /\ ReadOnly

\* ... or no row: ErrCurrencyNotFound.
MissRow(j, k) ==
  /\ balances[k] = NoRow
  /\ UNCHANGED fresh
  /\ ReadOnly

\* Create: INSERT ... ON DUPLICATE KEY UPDATE balance, version.
CreateRow(j) ==
  LET k == job[j].key
  IN  /\ WriteRow(k, Zero)
      /\ fresh' = {f \in fresh : f[2] # k} \cup {<<j, k>>}
      /\ UNCHANGED <<history, adjusts, writes>>

\* Mutant: the UPDATE takes a row of any version.
SaveMatchesAnyVersion(j) == RowOf(j) # NoRow

\* Save: UPDATE ... SET version = version + 1 WHERE ... AND version = ?, where
\* the argument is the version of the entity in memory.
SaveMatches(j) ==
  /\ RowOf(j) # NoRow
  /\ RowOf(j).version = job[j].ent.version

SaveRow(j) ==
  LET k == job[j].key
  IN  /\ SaveMatches(j)
      /\ WriteRow(k, [balance |-> job[j].ent.balance, version |-> RowOf(j).version + 1])
      /\ fresh' = {f \in fresh : f[2] # k}
      /\ writes' = writes \cup {[by |-> j, attempt |-> job[j].attempt, key |-> k,
                                 before |-> job[j].before, after |-> job[j].ent.balance]}

\* Mutants of SaveRefused: the error is ignored; one attempt too many; no end.
SaveErrorIgnored(j) == Goto(j, "record")

SaveRefusedOnceMore(j) ==
  IF job[j].attempt < MaxRetries
  THEN job' = [job EXCEPT ![j].pc = "find", ![j].attempt = @ + 1, ![j].retried = TRUE]
  ELSE Finish(j, "conflict")

SaveRefusedForever(j) == job' = [job EXCEPT ![j].pc = "find", ![j].retried = TRUE]

\* The loop around Save: any error is retried while attempts remain.
SaveRefused(j) ==
  IF job[j].attempt < MaxRetries - 1
  THEN job' = [job EXCEPT ![j].pc = "find", ![j].attempt = @ + 1, ![j].retried = TRUE]
  ELSE Finish(j, "conflict")

\* Mutant of TrySave: no break after a save that succeeded.
TrySaveNoBreak(j) ==
  /\ \/ Answered /\ SaveRow(j) /\ SaveRefused(j)
     \/ Answered /\ ~SaveMatches(j) /\ SaveRefused(j) /\ UNCHANGED <<balances, fresh, writes>>
  /\ UNCHANGED <<history, adjusts>>

TrySave(j) ==
  /\ \/ Answered /\ SaveRow(j) /\ Goto(j, "record")
     \/ Answered /\ ~SaveMatches(j) /\ SaveRefused(j) /\ UNCHANGED <<balances, fresh, writes>>
     \/ Broken /\ SaveRow(j) /\ SaveRefused(j)
     \/ Broken /\ SaveRefused(j) /\ UNCHANGED <<balances, fresh, writes>>
  /\ UNCHANGED <<history, adjusts>>

-----------------------------------------------------------------------------
(* The Currency entity *)

\* Mutants: no overflow check; the balance check of ConsumeAllowNegative.
GrantMayOverflow(c, a)      == a <= 0 \/ a > MaxAmount
ConsumeMayOverdraw(c, a)    == a <= 0 \/ a > MaxAmount \/ c.balance < MinBalance + a

GrantRejects(c, a)   == a <= 0 \/ a > MaxAmount \/ c.balance > MaxAmount - a
ConsumeRejects(c, a) == a <= 0 \/ a > MaxAmount \/ c.balance < a

Moved(c, d) == [balance |-> c.balance + d, version |-> c.version + 1]

\* c.Grant(a) on a row just read or created, then on to Save.
Grant(j, c, a) ==
  IF GrantRejects(c, a)
  THEN Finish(j, "rejected")
  ELSE job' = [job EXCEPT ![j].pc = "save", ![j].part = a,
                          ![j].before = c.balance, ![j].ent = Moved(c, a)]

\* c.Consume(a) on a row just read, then on to Save.
Consume(j, c, a) ==
  IF ConsumeRejects(c, a)
  THEN Finish(j, "rejected")
  ELSE job' = [job EXCEPT ![j].pc = "save", ![j].part = a,
                          ![j].before = c.balance, ![j].ent = Moved(c, -a)]

-----------------------------------------------------------------------------
(* TransactionRepository *)

\* INSERT ... ON DUPLICATE KEY UPDATE status, updated_at: a second row with the
\* same transaction_id changes nothing, every status being "completed".
Insert(row) ==
  history' = IF \E h \in history : h.id = row.id THEN history ELSE history \cup {row}

\* A request without metadata sends "" for a JSON column: refused every time.
Record(j, suffix, kind) ==
  /\ job[j].meta
  /\ Insert([id |-> <<job[j].stamp, suffix>>, key |-> job[j].key, kind |-> kind,
             amount |-> job[j].part, before |-> job[j].before,
             after |-> job[j].ent.balance, ref |-> job[j].ref])
  /\ UNCHANGED <<balances, adjusts, fresh, writes>>

RecordFails(j, suffix, kind) ==
  /\ \/ Broken /\ Record(j, suffix, kind)
     \/ /\ Broken \/ (~job[j].meta /\ Answered)
        /\ UNCHANGED <<balances, history, adjusts, fresh, writes>>
  /\ Finish(j, "dbError")

-----------------------------------------------------------------------------
(* Manual adjustment of a balance (refund, compensation, correction): not in *)
(* src/, which only provides for it (ConsumeAllowNegative, MinBalance).      *)

Adjust(k) ==
  /\ adjusts < MaxAdjusts
  /\ adjusts' = adjusts + 1
  /\ \E b \in InRange :
       WriteRow(k, [balance |-> b,
                    version |-> IF balances[k] = NoRow THEN 0 ELSE balances[k].version + 1])
  /\ fresh' = {f \in fresh : f[2] # k}
  /\ UNCHANGED <<history, job, faults, writes>>

=============================================================================
