---------------------------- MODULE CurrencyService ----------------------------
(***************************************************************************)
(* CurrencyApplicationService: Grant, Consume and ConsumeWithPriority, run  *)
(* by concurrent requests.  Every step is one SQL statement together with   *)
(* the code that runs in memory up to the next one.                         *)
(***************************************************************************)
EXTENDS FreeThenPaid, LedgerProperties

vars == <<balances, history, job, faults, adjusts, fresh, writes>>

Init == LedgerInit

-----------------------------------------------------------------------------
(* Grant *)

GrantStart(j) ==
  /\ \E u \in Users, t \in CurrencyTypes \cup {"auto"}, a \in Amounts, m \in BOOLEAN :
       IF a > 0 /\ t \in CurrencyTypes
       THEN Begin(j, "grant", "find", <<u, t>>, a, m, NoRef)
       ELSE Refuse(j, "grant")
  /\ UNCHANGED store

GrantFind(j) ==
  /\ At(j, "grant", "find")
  /\ \/ StatementFails(j)
     \/ MissRow(j, job[j].key) /\ Goto(j, "create")
     \/ ReadRow(j, job[j].key) /\ Grant(j, RowOf(j), job[j].amount)

GrantCreate(j) ==
  /\ At(j, "grant", "create")
  /\ \/ StatementFails(j)
     \/ Broken /\ CreateRow(j) /\ Finish(j, "dbError")
     \/ Answered /\ CreateRow(j) /\ Grant(j, Zero, job[j].amount)

GrantSave(j) == At(j, "grant", "save") /\ TrySave(j)

GrantRecord(j) ==
  /\ At(j, "grant", "record")
  /\ \/ RecordFails(j, "", "grant")
     \/ Answered /\ Record(j, "", "grant") /\ Finish(j, "ok")

-----------------------------------------------------------------------------
(* Consume, one currency type *)

ConsumeStart(j) ==
  /\ \E u \in Users, t \in CurrencyTypes \cup {"auto"}, a \in Amounts, m \in BOOLEAN :
       \/ a <= 0 /\ Refuse(j, "consume")
       \/ a > 0 /\ t # "auto" /\ Begin(j, "consume", "find", <<u, t>>, a, m, NoRef)
       \/ a > 0 /\ t = "auto" /\ Begin(j, "priority", "checkFree", <<u, "free">>, a, m, NoRef)
  /\ UNCHANGED store

ConsumeFind(j) ==
  /\ At(j, "consume", "find")
  /\ \/ StatementFails(j)
     \/ MissRow(j, job[j].key) /\ Finish(j, "rejected")
     \/ ReadRow(j, job[j].key) /\ Consume(j, RowOf(j), job[j].amount)

ConsumeSave(j) == At(j, "consume", "save") /\ TrySave(j)

ConsumeRecord(j) ==
  /\ At(j, "consume", "record")
  /\ \/ RecordFails(j, "", "consume")
     \/ Answered /\ Record(j, "", "consume") /\ Finish(j, "ok")

-----------------------------------------------------------------------------
(* ConsumeWithPriority: free currency first, the rest from paid currency *)

BalanceOr0(k) == IF balances[k] = NoRow THEN 0 ELSE balances[k].balance

\* HasSufficientBalance reads the free row; its rest is what paid must cover.
CheckFree(j) ==
  /\ At(j, "priority", "checkFree")
  /\ UNCHANGED fresh
  /\ \/ StatementFails(j)
     \/ /\ ReadOnly
        /\ LET free == BalanceOr0(Typed(j, "free"))
           IN  IF free >= job[j].amount
               THEN Goto(j, "find")
               ELSE job' = [job EXCEPT ![j].pc = "checkPaid", ![j].rest = @ - free]

CheckPaid(j) ==
  /\ At(j, "priority", "checkPaid")
  /\ UNCHANGED fresh
  /\ \/ StatementFails(j)
     \/ /\ ReadOnly
        /\ IF BalanceOr0(Typed(j, "paid")) >= job[j].rest
           THEN job' = [job EXCEPT ![j].pc = "find", ![j].rest = job[j].amount]
           ELSE Finish(j, "rejected")

FindFree(j) == OnType(j, "priority", "find", "free") /\ TakeFree(j)

SaveFree(j) == OnType(j, "priority", "save", "free") /\ TrySave(j)

RecordFree(j) ==
  OnType(j, "priority", "record", "free") /\ RecordFreePart(j, Finish(j, "ok"))

FindPaid(j) ==
  /\ OnType(j, "priority", "find", "paid")
  /\ \/ StatementFails(j)
     \/ MissRow(j, job[j].key) /\ Finish(j, "rejected")
     \/ ReadRow(j, job[j].key) /\ Consume(j, RowOf(j), job[j].rest)

SavePaid(j) == OnType(j, "priority", "save", "paid") /\ TrySave(j)

RecordPaid(j) ==
  OnType(j, "priority", "record", "paid") /\ RecordPaidPart(j, Finish(j, "ok"))

-----------------------------------------------------------------------------

Start(j) == GrantStart(j) \/ ConsumeStart(j)

Step(j) ==
  \/ GrantFind(j) \/ GrantCreate(j) \/ GrantSave(j) \/ GrantRecord(j)
  \/ ConsumeFind(j) \/ ConsumeSave(j) \/ ConsumeRecord(j)
  \/ CheckFree(j) \/ CheckPaid(j)
  \/ FindFree(j) \/ SaveFree(j) \/ RecordFree(j)
  \/ FindPaid(j) \/ SavePaid(j) \/ RecordPaid(j)

\* All requests answered: the only state in which nothing more happens.
Quiescent == (\A j \in Jobs : job[j].pc = "done") /\ UNCHANGED vars

Next ==
  \/ \E j \in Jobs : Start(j) \/ Step(j)
  \/ \E k \in Keys : Adjust(k)
  \/ Quiescent

Spec == Init /\ [][Next]_vars

\* The Go runtime keeps running a request that can run, and the driver answers
\* or fails every statement; nobody has to send a request or adjust a balance.
FairSpec == Spec /\ \A j \in Jobs : WF_vars(Step(j))

-----------------------------------------------------------------------------
(* Properties *)

TypeOK == LedgerTypeOK

\* Every request that starts is answered.
EveryRequestIsAnswered ==
  \A j \in Jobs : job[j].pc # "idle" ~> job[j].pc = "done"

=============================================================================
