-------------------------- MODULE CurrencyServiceProofs ------------------------
(***************************************************************************)
(* What holds of CurrencyService for every set of users, requests, amounts  *)
(* and initial rows, every number of attempts, broken statements and manual *)
(* adjustments.                                                             *)
(***************************************************************************)
EXTENDS CurrencyService, LedgerProofs

\* Each kind of step keeps requests and tables well-formed.
LEMMA StartType ==
  ASSUME TypeOK, NEW j \in Jobs, Start(j)
  PROVE  TypeOK'
<1>1. ASSUME UNCHANGED store, job' \in [Jobs -> Job]
      PROVE  TypeOK'
  BY <1>1 DEF TypeOK, LedgerTypeOK, store
<1>2. CASE GrantStart(j)
  <2>1. PICK u \in Users, t \in CurrencyTypes \cup {"auto"}, a \in Amounts, m \in BOOLEAN :
          IF a > 0 /\ t \in CurrencyTypes
          THEN Begin(j, "grant", "find", <<u, t>>, a, m, NoRef)
          ELSE Refuse(j, "grant")
    BY <1>2 DEF GrantStart
  <2>2. CASE Begin(j, "grant", "find", <<u, t>>, a, m, NoRef) /\ t \in CurrencyTypes
    <3>1. <<u, t>> \in Keys /\ a \in Int
      BY <2>2, LedgerAssumption DEF Keys
    <3>2. job' \in [Jobs -> Job]
      BY <2>2, <3>1, BeginType DEF TypeOK, LedgerTypeOK, Ops, Pcs
    <3> QED BY <1>1, <1>2, <3>2 DEF GrantStart
  <2>3. CASE Refuse(j, "grant")
    <3>1. job' \in [Jobs -> Job]
      BY <2>3, RefuseType DEF TypeOK, LedgerTypeOK, Ops
    <3> QED BY <1>1, <1>2, <3>1 DEF GrantStart
  <2> QED BY <2>1, <2>2, <2>3
<1>3. CASE ConsumeStart(j)
  <2>1. PICK u \in Users, t \in CurrencyTypes \cup {"auto"}, a \in Amounts, m \in BOOLEAN :
          \/ a <= 0 /\ Refuse(j, "consume")
          \/ a > 0 /\ t # "auto" /\ Begin(j, "consume", "find", <<u, t>>, a, m, NoRef)
          \/ a > 0 /\ t = "auto" /\ Begin(j, "priority", "checkFree", <<u, "free">>, a, m, NoRef)
    BY <1>3 DEF ConsumeStart
  <2>2. a \in Int /\ <<u, "free">> \in Keys /\ (t # "auto" => <<u, t>> \in Keys)
    BY LedgerAssumption DEF Keys, CurrencyTypes
  <2>3. job' \in [Jobs -> Job]
    <3>1. CASE Refuse(j, "consume")
      BY <3>1, RefuseType DEF TypeOK, LedgerTypeOK, Ops
    <3>2. CASE t # "auto" /\ Begin(j, "consume", "find", <<u, t>>, a, m, NoRef)
      BY <2>2, <3>2, BeginType DEF TypeOK, LedgerTypeOK, Ops, Pcs
    <3>3. CASE Begin(j, "priority", "checkFree", <<u, "free">>, a, m, NoRef)
      BY <2>2, <3>3, BeginType DEF TypeOK, LedgerTypeOK, Ops, Pcs
    <3> QED BY <2>1, <3>1, <3>2, <3>3
  <2> QED BY <1>1, <1>3, <2>3 DEF ConsumeStart
<1> QED BY <1>2, <1>3 DEF Start

LEMMA GrantStepType ==
  ASSUME TypeOK, NEW j \in Jobs,
         GrantFind(j) \/ GrantCreate(j) \/ GrantSave(j) \/ GrantRecord(j)
  PROVE  TypeOK'
<1>1. LedgerTypeOK /\ job \in [Jobs -> Job]
  BY DEF TypeOK, LedgerTypeOK
<1>2. job[j].key \in Keys /\ job[j].amount \in Int
  BY <1>1 DEF Job
<1>3. CASE GrantFind(j)
  <2>1. CASE StatementFails(j)
    BY <1>1, <2>1, StatementFailsType DEF TypeOK
  <2>2. CASE MissRow(j, job[j].key) /\ Goto(j, "create")
    <3>1. job' \in [Jobs -> Job]
      BY <1>1, <2>2, GotoType DEF Pcs
    <3> QED BY <1>1, <1>2, <2>2, <3>1, MissRowType DEF TypeOK
  <2>3. CASE ReadRow(j, job[j].key) /\ Grant(j, RowOf(j), job[j].amount)
    <3>1. RowOf(j) \in Row
      BY <1>1, <1>2, <2>3 DEF LedgerTypeOK, ReadRow, RowOf
    <3>2. job' \in [Jobs -> Job]
      BY <1>1, <1>2, <2>3, <3>1, GrantType
    <3> QED BY <1>1, <1>2, <2>3, <3>2, ReadRowType DEF TypeOK
  <2> QED BY <1>3, <2>1, <2>2, <2>3 DEF GrantFind
<1>4. CASE GrantCreate(j)
  <2>1. CASE StatementFails(j)
    BY <1>1, <2>1, StatementFailsType DEF TypeOK
  <2>2. CASE Broken /\ CreateRow(j) /\ Finish(j, "dbError")
    <3>1. job' \in [Jobs -> Job]
      BY <1>1, <2>2, FinishType DEF Results
    <3> QED BY <1>1, <2>2, <3>1, CreateRowType DEF TypeOK
  <2>3. CASE Answered /\ CreateRow(j) /\ Grant(j, Zero, job[j].amount)
    <3>1. Zero \in Row
      BY DEF Zero, Row
    <3>2. job' \in [Jobs -> Job]
      BY <1>1, <1>2, <2>3, <3>1, GrantType
    <3> QED BY <1>1, <2>3, <3>2, CreateRowType DEF TypeOK
  <2> QED BY <1>4, <2>1, <2>2, <2>3 DEF GrantCreate
<1>5. CASE GrantSave(j)
  BY <1>1, <1>5, TrySaveType DEF GrantSave, TypeOK
<1>6. CASE GrantRecord(j)
  <2>1. CASE RecordFails(j, "", "grant")
    BY <1>1, <2>1, RecordFailsType DEF TypeOK
  <2>2. CASE Answered /\ Record(j, "", "grant") /\ Finish(j, "ok")
    <3>1. job' \in [Jobs -> Job]
      BY <1>1, <2>2, FinishType DEF Results
    <3> QED BY <1>1, <2>2, <3>1, RecordType DEF TypeOK
  <2> QED BY <1>6, <2>1, <2>2 DEF GrantRecord
<1> QED BY <1>3, <1>4, <1>5, <1>6

LEMMA ConsumeStepType ==
  ASSUME TypeOK, NEW j \in Jobs, ConsumeFind(j) \/ ConsumeSave(j) \/ ConsumeRecord(j)
  PROVE  TypeOK'
<1>1. LedgerTypeOK /\ job \in [Jobs -> Job]
  BY DEF TypeOK, LedgerTypeOK
<1>2. job[j].key \in Keys /\ job[j].amount \in Int
  BY <1>1 DEF Job
<1>3. CASE ConsumeFind(j)
  <2>1. CASE StatementFails(j)
    BY <1>1, <2>1, StatementFailsType DEF TypeOK
  <2>2. CASE MissRow(j, job[j].key) /\ Finish(j, "rejected")
    <3>1. job' \in [Jobs -> Job]
      BY <1>1, <2>2, FinishType DEF Results
    <3> QED BY <1>1, <1>2, <2>2, <3>1, MissRowType DEF TypeOK
  <2>3. CASE ReadRow(j, job[j].key) /\ Consume(j, RowOf(j), job[j].amount)
    <3>1. RowOf(j) \in Row
      BY <1>1, <1>2, <2>3 DEF LedgerTypeOK, ReadRow, RowOf
    <3>2. job' \in [Jobs -> Job]
      BY <1>1, <1>2, <2>3, <3>1, ConsumeType
    <3> QED BY <1>1, <1>2, <2>3, <3>2, ReadRowType DEF TypeOK
  <2> QED BY <1>3, <2>1, <2>2, <2>3 DEF ConsumeFind
<1>4. CASE ConsumeSave(j)
  BY <1>1, <1>4, TrySaveType DEF ConsumeSave, TypeOK
<1>5. CASE ConsumeRecord(j)
  <2>1. CASE RecordFails(j, "", "consume")
    BY <1>1, <2>1, RecordFailsType DEF TypeOK
  <2>2. CASE Answered /\ Record(j, "", "consume") /\ Finish(j, "ok")
    <3>1. job' \in [Jobs -> Job]
      BY <1>1, <2>2, FinishType DEF Results
    <3> QED BY <1>1, <2>2, <3>1, RecordType DEF TypeOK
  <2> QED BY <1>5, <2>1, <2>2 DEF ConsumeRecord
<1> QED BY <1>3, <1>4, <1>5

LEMMA CheckType ==
  ASSUME TypeOK, NEW j \in Jobs, CheckFree(j) \/ CheckPaid(j)
  PROVE  TypeOK'
<1>1. LedgerTypeOK /\ job \in [Jobs -> Job] /\ job[j] \in Job
  BY DEF TypeOK, LedgerTypeOK
<1>2. CASE StatementFails(j)
  BY <1>1, <1>2, StatementFailsType DEF TypeOK
<1>3. CASE ReadOnly /\ CheckFree(j) /\ ~StatementFails(j)
  <2> DEFINE free == BalanceOr0(Typed(j, "free"))
             r1   == [job[j] EXCEPT !.pc = "checkPaid"]
  <2>1. free \in Int
    <3>1. Typed(j, "free") \in Keys
      BY <1>1 DEF Typed, Job, Keys, CurrencyTypes
    <3> QED BY <1>1, <3>1 DEF BalanceOr0, LedgerTypeOK, Row
  <2> HIDE DEF free
  <2>2. [r1 EXCEPT !.rest = job[j].rest - free] \in Job
    <3>1. r1 \in Job
      BY <1>1, JobField DEF Pcs
    <3>2. job[j].rest - free \in Int
      BY <1>1, <2>1 DEF Job
    <3> HIDE DEF r1
    <3> QED BY <3>1, <3>2, JobField
  <2>3. CASE Goto(j, "find")
    <3>1. job' \in [Jobs -> Job]
      BY <1>1, <2>3, GotoType DEF Pcs
    <3> QED BY <1>1, <1>3, <3>1, ReadOnlyType DEF CheckFree, TypeOK
  <2>4. CASE job' = [job EXCEPT ![j].pc = "checkPaid", ![j].rest = @ - free]
    <3>1. job' = [job EXCEPT ![j] = [r1 EXCEPT !.rest = job[j].rest - free]]
      BY <2>4
    <3>2. job' \in [Jobs -> Job]
      BY <1>1, <2>2, <3>1
    <3> QED BY <1>1, <1>3, <3>2, ReadOnlyType DEF CheckFree, TypeOK
  <2> QED BY <1>3, <2>3, <2>4 DEF CheckFree, free
<1>4. CASE ReadOnly /\ CheckPaid(j) /\ ~StatementFails(j)
  <2> DEFINE r1 == [job[j] EXCEPT !.pc = "find"]
  <2>1. [r1 EXCEPT !.rest = job[j].amount] \in Job
    <3>1. r1 \in Job
      BY <1>1, JobField DEF Pcs
    <3>2. job[j].amount \in Int
      BY <1>1 DEF Job
    <3> HIDE DEF r1
    <3> QED BY <3>1, <3>2, JobField
  <2>2. CASE job' = [job EXCEPT ![j].pc = "find", ![j].rest = job[j].amount]
    <3>1. job' = [job EXCEPT ![j] = [r1 EXCEPT !.rest = job[j].amount]]
      BY <2>2
    <3>2. job' \in [Jobs -> Job]
      BY <1>1, <2>1, <3>1
    <3> QED BY <1>1, <1>4, <3>2, ReadOnlyType DEF CheckPaid, TypeOK
  <2>3. CASE Finish(j, "rejected")
    <3>1. job' \in [Jobs -> Job]
      BY <1>1, <2>3, FinishType DEF Results
    <3> QED BY <1>1, <1>4, <3>1, ReadOnlyType DEF CheckPaid, TypeOK
  <2> QED BY <1>4, <2>2, <2>3 DEF CheckPaid
<1> QED BY <1>2, <1>3, <1>4 DEF CheckFree, CheckPaid

LEMMA PriorityStepType ==
  ASSUME TypeOK, NEW j \in Jobs,
         \/ FindFree(j) \/ SaveFree(j) \/ RecordFree(j)
         \/ FindPaid(j) \/ SavePaid(j) \/ RecordPaid(j)
  PROVE  TypeOK'
<1>1. LedgerTypeOK /\ job \in [Jobs -> Job] /\ job[j] \in Job
  BY DEF TypeOK, LedgerTypeOK
<1>2. job[j].key \in Keys /\ job[j].rest \in Int /\ job[j].part \in Int
  BY <1>1 DEF Job
<1>3. CASE FindFree(j)
  BY <1>1, <1>3, TakeFreeType DEF FindFree, TypeOK
<1>4. CASE SaveFree(j) \/ SavePaid(j)
  BY <1>1, <1>4, TrySaveType DEF SaveFree, SavePaid, TypeOK
<1>5. CASE RecordFree(j)
  <2>1. CASE RecordFails(j, "free", "consume")
    BY <1>1, <2>1, RecordFailsType DEF TypeOK
  <2>2. CASE Answered /\ Record(j, "free", "consume")
             /\ \/ Finish(j, "conflict") \/ Finish(j, "ok")
                \/ ToPaid(j, job[j].rest - job[j].part)
    <3>1. job[j].rest - job[j].part \in Int
      BY <1>2
    <3>2. job' \in [Jobs -> Job]
      BY <1>1, <2>2, <3>1, FinishType, ToPaidType DEF Results
    <3> QED BY <1>1, <2>2, <3>2, RecordType DEF TypeOK
  <2> QED BY <1>5, <2>1, <2>2 DEF RecordFree, RecordFreePart
<1>6. CASE FindPaid(j)
  <2>1. CASE StatementFails(j)
    BY <1>1, <2>1, StatementFailsType DEF TypeOK
  <2>2. CASE MissRow(j, job[j].key) /\ Finish(j, "rejected")
    <3>1. job' \in [Jobs -> Job]
      BY <1>1, <2>2, FinishType DEF Results
    <3> QED BY <1>1, <1>2, <2>2, <3>1, MissRowType DEF TypeOK
  <2>3. CASE ReadRow(j, job[j].key) /\ Consume(j, RowOf(j), job[j].rest)
    <3>1. RowOf(j) \in Row
      BY <1>1, <1>2, <2>3 DEF LedgerTypeOK, ReadRow, RowOf
    <3>2. job' \in [Jobs -> Job]
      BY <1>1, <1>2, <2>3, <3>1, ConsumeType
    <3> QED BY <1>1, <1>2, <2>3, <3>2, ReadRowType DEF TypeOK
  <2> QED BY <1>6, <2>1, <2>2, <2>3 DEF FindPaid
<1>7. CASE RecordPaid(j)
  <2>1. CASE RecordFails(j, "paid", "consume")
    BY <1>1, <2>1, RecordFailsType DEF TypeOK
  <2>2. CASE Answered /\ Record(j, "paid", "consume")
             /\ \/ Finish(j, "conflict") \/ Finish(j, "ok")
    <3>1. job' \in [Jobs -> Job]
      BY <1>1, <2>2, FinishType DEF Results
    <3> QED BY <1>1, <2>2, <3>1, RecordType DEF TypeOK
  <2> QED BY <1>7, <2>1, <2>2 DEF RecordPaid, RecordPaidPart
<1> QED BY <1>3, <1>4, <1>5, <1>6, <1>7

\* Every step of a request keeps requests and tables well-formed.
LEMMA StepType ==
  ASSUME TypeOK, NEW j \in Jobs, Step(j)
  PROVE  TypeOK'
BY GrantStepType, ConsumeStepType, CheckType, PriorityStepType DEF Step

LEMMA NextType == TypeOK /\ [Next]_vars => TypeOK'
<1> SUFFICES ASSUME TypeOK, [Next]_vars PROVE TypeOK'
  OBVIOUS
<1>1. CASE \E j \in Jobs : Start(j) \/ Step(j)
  BY <1>1, StartType, StepType
<1>2. CASE \E k \in Keys : Adjust(k)
  BY <1>2, AdjustType DEF TypeOK
<1>3. CASE UNCHANGED vars
  BY <1>3 DEF TypeOK, LedgerTypeOK, vars
<1> QED BY <1>1, <1>2, <1>3 DEF Next, Quiescent

\* Requests, tables and counters keep their types (the Job records keep their
\* attempt below maxRetries, rows keep a version that counts up from 0).
THEOREM TypeCorrect == Spec => []TypeOK
<1>1. Init => TypeOK
  BY LedgerInitType DEF Init, TypeOK
<1> QED BY <1>1, NextType, PTL DEF Spec

-----------------------------------------------------------------------------
(* Every step of a request has one of the effects of LedgerProofs. *)

LEMMA StartHasEffect ==
  ASSUME TypeOK, NEW j \in Jobs, Start(j)
  PROVE  Effect(j)
<1>1. job \in [Jobs -> Job]
  BY DEF TypeOK, LedgerTypeOK
<1>2. UNCHANGED <<balances, fresh, adjusts>>
  BY DEF Start, GrantStart, ConsumeStart, store
<1>3. (\A i \in Jobs \ {j} : job'[i] = job[i]) /\ Away(j)
  BY <1>1, BeginEffect, RefuseEffect DEF Start, GrantStart, ConsumeStart
<1> QED BY <1>2, <1>3 DEF Effect, Passes

LEMMA GrantHasEffect ==
  ASSUME TypeOK, NEW j \in Jobs,
         GrantFind(j) \/ GrantCreate(j) \/ GrantSave(j) \/ GrantRecord(j)
  PROVE  Effect(j)
<1>1. LedgerTypeOK /\ job \in [Jobs -> Job]
  BY DEF TypeOK, LedgerTypeOK
<1>2. job[j].key \in Keys /\ job[j].amount \in Int
  BY <1>1 DEF Job
<1>3. CASE StatementFails(j)
  BY <1>1, <1>3, StatementFailsEffect
<1>4. CASE GrantFind(j) /\ ~StatementFails(j)
  <2>1. CASE MissRow(j, job[j].key) /\ Goto(j, "create")
    BY <1>1, <2>1, GotoEffect DEF Effect, Misses, MissRow, ReadOnly
  <2>2. CASE ReadRow(j, job[j].key) /\ Grant(j, RowOf(j), job[j].amount)
    <3>1. RowOf(j) \in Row
      BY <1>1, <1>2, <2>2 DEF LedgerTypeOK, ReadRow, RowOf
    <3>2. (\A i \in Jobs \ {j} : job'[i] = job[i]) /\ (Away(j) \/ Carries(j, RowOf(j)))
      BY <1>1, <1>2, <2>2, <3>1, GrantEffect
    <3> QED BY <2>2, <3>2 DEF Effect, Reads, ReadRow, ReadOnly
  <2> QED BY <1>4, <2>1, <2>2 DEF GrantFind
<1>5. CASE GrantCreate(j) /\ ~StatementFails(j)
  <2>1. Zero \in Row
    BY DEF Zero, Row
  <2>2. (\A i \in Jobs \ {j} : job'[i] = job[i]) /\ (Away(j) \/ Carries(j, Zero))
    BY <1>1, <1>2, <1>5, <2>1, GrantEffect, FinishEffect DEF GrantCreate
  <2>3. job[j].pc = "create" /\ CreateRow(j) /\ UNCHANGED adjusts
    BY <1>5 DEF GrantCreate, At, CreateRow
  <2> QED BY <2>2, <2>3 DEF Effect, Creates
<1>6. CASE GrantSave(j)
  BY <1>1, <1>6, TrySaveEffect DEF GrantSave, At
<1>7. CASE GrantRecord(j)
  <2>1. CASE RecordFails(j, "", "grant")
    BY <1>1, <2>1, RecordFailsEffect
  <2>2. CASE Record(j, "", "grant") /\ Finish(j, "ok")
    BY <1>1, <2>2, RecordEffect, FinishEffect
  <2> QED BY <1>7, <2>1, <2>2 DEF GrantRecord
<1> QED BY <1>3, <1>4, <1>5, <1>6, <1>7

LEMMA ConsumeHasEffect ==
  ASSUME TypeOK, NEW j \in Jobs, ConsumeFind(j) \/ ConsumeSave(j) \/ ConsumeRecord(j)
  PROVE  Effect(j)
<1>1. LedgerTypeOK /\ job \in [Jobs -> Job]
  BY DEF TypeOK, LedgerTypeOK
<1>2. job[j].key \in Keys /\ job[j].amount \in Int
  BY <1>1 DEF Job
<1>3. CASE StatementFails(j)
  BY <1>1, <1>3, StatementFailsEffect
<1>4. CASE ConsumeFind(j) /\ ~StatementFails(j)
  <2>1. CASE MissRow(j, job[j].key) /\ Finish(j, "rejected")
    BY <1>1, <2>1, FinishEffect DEF Effect, Misses, MissRow, ReadOnly
  <2>2. CASE ReadRow(j, job[j].key) /\ Consume(j, RowOf(j), job[j].amount)
    <3>1. RowOf(j) \in Row
      BY <1>1, <1>2, <2>2 DEF LedgerTypeOK, ReadRow, RowOf
    <3>2. (\A i \in Jobs \ {j} : job'[i] = job[i]) /\ (Away(j) \/ Carries(j, RowOf(j)))
      BY <1>1, <1>2, <2>2, <3>1, ConsumeEffect
    <3> QED BY <2>2, <3>2 DEF Effect, Reads, ReadRow, ReadOnly
  <2> QED BY <1>4, <2>1, <2>2 DEF ConsumeFind
<1>5. CASE ConsumeSave(j)
  BY <1>1, <1>5, TrySaveEffect DEF ConsumeSave, At
<1>6. CASE ConsumeRecord(j)
  <2>1. CASE RecordFails(j, "", "consume")
    BY <1>1, <2>1, RecordFailsEffect
  <2>2. CASE Record(j, "", "consume") /\ Finish(j, "ok")
    BY <1>1, <2>2, RecordEffect, FinishEffect
  <2> QED BY <1>6, <2>1, <2>2 DEF ConsumeRecord
<1> QED BY <1>3, <1>4, <1>5, <1>6

LEMMA CheckHasEffect ==
  ASSUME TypeOK, NEW j \in Jobs, CheckFree(j) \/ CheckPaid(j)
  PROVE  Effect(j)
<1>1. job \in [Jobs -> Job]
  BY DEF TypeOK, LedgerTypeOK
<1>2. CASE StatementFails(j)
  BY <1>1, <1>2, StatementFailsEffect
<1>3. CASE ReadOnly /\ ~StatementFails(j)
  <2>1. (\A i \in Jobs \ {j} : job'[i] = job[i]) /\ Away(j)
    <3>1. CASE CheckFree(j)
      <4>1. CASE Goto(j, "find")
        BY <1>1, <4>1, GotoEffect DEF Away
      <4>2. CASE job' = [job EXCEPT ![j].pc = "checkPaid",
                                    ![j].rest = @ - BalanceOr0(Typed(j, "free"))]
        BY <1>1, <4>2 DEF Job, Away
      <4> QED BY <1>3, <3>1, <4>1, <4>2 DEF CheckFree
    <3>2. CASE CheckPaid(j)
      <4>1. CASE Finish(j, "rejected")
        BY <1>1, <4>1, FinishEffect
      <4>2. CASE job' = [job EXCEPT ![j].pc = "find", ![j].rest = job[j].amount]
        BY <1>1, <4>2 DEF Job, Away
      <4> QED BY <1>3, <3>2, <4>1, <4>2 DEF CheckPaid
    <3> QED BY <3>1, <3>2
  <2>2. UNCHANGED <<balances, fresh, adjusts>>
    BY <1>3 DEF CheckFree, CheckPaid, ReadOnly
  <2> QED BY <2>1, <2>2 DEF Effect, Passes
<1> QED BY <1>2, <1>3 DEF CheckFree, CheckPaid

LEMMA PriorityHasEffect ==
  ASSUME TypeOK, NEW j \in Jobs,
         \/ FindFree(j) \/ SaveFree(j) \/ RecordFree(j)
         \/ FindPaid(j) \/ SavePaid(j) \/ RecordPaid(j)
  PROVE  Effect(j)
<1>1. LedgerTypeOK /\ job \in [Jobs -> Job]
  BY DEF TypeOK, LedgerTypeOK
<1>2. job[j].key \in Keys /\ job[j].rest \in Int
  BY <1>1 DEF Job
<1>3. CASE FindFree(j)
  BY <1>1, <1>3, TakeFreeEffect DEF FindFree
<1>4. CASE SaveFree(j) \/ SavePaid(j)
  BY <1>1, <1>4, TrySaveEffect DEF SaveFree, SavePaid, OnType, At
<1>5. CASE RecordFree(j)
  <2>1. CASE RecordFails(j, "free", "consume")
    BY <1>1, <2>1, RecordFailsEffect
  <2>2. CASE /\ Record(j, "free", "consume")
             /\ \/ Finish(j, "conflict") \/ Finish(j, "ok")
                \/ ToPaid(j, job[j].rest - job[j].part)
    BY <1>1, <2>2, RecordEffect, FinishEffect, ToPaidEffect
  <2> QED BY <1>5, <2>1, <2>2 DEF RecordFree, RecordFreePart
<1>6. CASE FindPaid(j)
  <2>1. CASE StatementFails(j)
    BY <1>1, <2>1, StatementFailsEffect
  <2>2. CASE MissRow(j, job[j].key) /\ Finish(j, "rejected")
    BY <1>1, <2>2, FinishEffect DEF Effect, Misses, MissRow, ReadOnly
  <2>3. CASE ReadRow(j, job[j].key) /\ Consume(j, RowOf(j), job[j].rest)
    <3>1. RowOf(j) \in Row
      BY <1>1, <1>2, <2>3 DEF LedgerTypeOK, ReadRow, RowOf
    <3>2. (\A i \in Jobs \ {j} : job'[i] = job[i]) /\ (Away(j) \/ Carries(j, RowOf(j)))
      BY <1>1, <1>2, <2>3, <3>1, ConsumeEffect
    <3> QED BY <2>3, <3>2 DEF Effect, Reads, ReadRow, ReadOnly
  <2> QED BY <1>6, <2>1, <2>2, <2>3 DEF FindPaid
<1>7. CASE RecordPaid(j)
  <2>1. CASE RecordFails(j, "paid", "consume")
    BY <1>1, <2>1, RecordFailsEffect
  <2>2. CASE /\ Record(j, "paid", "consume")
             /\ Finish(j, "conflict") \/ Finish(j, "ok")
    BY <1>1, <2>2, RecordEffect, FinishEffect
  <2> QED BY <1>7, <2>1, <2>2 DEF RecordPaid, RecordPaidPart
<1> QED BY <1>3, <1>4, <1>5, <1>6, <1>7

LEMMA RequestHasEffect ==
  ASSUME TypeOK, NEW j \in Jobs, Start(j) \/ Step(j)
  PROVE  Effect(j)
BY StartHasEffect, GrantHasEffect, ConsumeHasEffect, CheckHasEffect, PriorityHasEffect
   DEF Step

-----------------------------------------------------------------------------
(* The invariant and what follows from it *)

LEMMA NextInv == TypeOK /\ TypeOK' /\ LedgerInv /\ [Next]_vars => LedgerInv'
<1> SUFFICES ASSUME TypeOK, TypeOK', LedgerInv, [Next]_vars PROVE LedgerInv'
  OBVIOUS
<1>1. CASE \E j \in Jobs : Start(j) \/ Step(j)
  BY <1>1, RequestHasEffect, EffectInv DEF TypeOK
<1>2. CASE \E k \in Keys : Adjust(k)
  BY <1>2, AdjustInv DEF TypeOK
<1>3. CASE UNCHANGED vars
  BY <1>3 DEF vars, LedgerInv, FreshEntity, UntouchedEntity, BalancesInRange,
              EntityInRange, RowOf
<1> QED BY <1>1, <1>2, <1>3 DEF Next, Quiescent

LEMMA Invariance == Spec => []LedgerInv
<1>1. Init => LedgerInv
  BY LedgerInitInv DEF Init
<1> QED BY <1>1, NextInv, TypeCorrect, PTL DEF Spec

\* The optimistic lock of the code never lets a save through that nobody
\* interfered with: Save compares the version after IncrementVersion.
THEOREM FreshSavesRefused == Spec => []FreshSaveIsRefused
<1>1. TypeOK /\ LedgerInv => FreshSaveIsRefused
  BY FreshRefused DEF TypeOK, LedgerInv
<1> QED BY <1>1, TypeCorrect, Invariance, PTL

\* No stored balance ever leaves [MinBalance, MaxAmount], so no row read by
\* FindByUserIDAndType is refused by NewCurrency.
THEOREM BalancesStayInRange == Spec => []BalancesInRange
<1>1. LedgerInv => BalancesInRange
  BY DEF LedgerInv
<1> QED BY <1>1, Invariance, PTL

\* As long as nobody writes beside the service, Grant, Consume and
\* ConsumeWithPriority never change a row of currency_balances that exists.
THEOREM AloneIsFrozen == Spec => ServiceAloneIsFrozen
<1>1. TypeOK /\ LedgerInv /\ [Next]_vars =>
        [\A k \in Keys : adjusts' = 0 /\ balances[k] # NoRow
                         => balances'[k] = balances[k]]_balances
  <2> SUFFICES ASSUME TypeOK, LedgerInv, Next,
                      NEW k \in Keys, adjusts' = 0, balances[k] # NoRow
               PROVE  balances'[k] = balances[k]
    BY DEF vars
  <2>1. CASE \E j \in Jobs : Start(j) \/ Step(j)
    <3>1. PICK j \in Jobs : Start(j) \/ Step(j)
      BY <2>1
    <3>2. Effect(j)
      BY <3>1, RequestHasEffect
    <3>3. adjusts = 0
      BY <3>2 DEF Effect
    <3> QED BY <3>2, <3>3, EffectFreezes DEF TypeOK, LedgerInv
  <2>2. CASE \E l \in Keys : Adjust(l)
    BY <2>2 DEF Adjust, TypeOK, LedgerTypeOK
  <2>3. CASE Quiescent
    BY <2>3 DEF Quiescent, vars
  <2> QED BY <2>1, <2>2, <2>3 DEF Next
<1> QED BY <1>1, TypeCorrect, Invariance, PTL DEF Spec, ServiceAloneIsFrozen

-----------------------------------------------------------------------------
(* Every step of the currency service speaks like that. *)

LEMMA StartSpeaks ==
  ASSUME TypeOK, NEW j \in Jobs, Start(j)
  PROVE  Speaks(j)
<1>1. job \in [Jobs -> Job]
  BY DEF TypeOK, LedgerTypeOK
<1>2. Silent(j)
  BY <1>1, BeginSilent, RefuseSilent DEF Start, GrantStart, ConsumeStart
<1>3. job[j].pc = "idle"
  BY DEF Start, GrantStart, ConsumeStart, Begin, Refuse
<1>4. UNCHANGED writes
  BY DEF Start, GrantStart, ConsumeStart, store
<1> QED BY <1>2, <1>3, <1>4 DEF Speaks, Quiet

LEMMA GrantSpeaks ==
  ASSUME TypeOK, NEW j \in Jobs,
         GrantFind(j) \/ GrantCreate(j) \/ GrantSave(j) \/ GrantRecord(j)
  PROVE  Speaks(j)
<1>1. job \in [Jobs -> Job]
  BY DEF TypeOK, LedgerTypeOK
<1>2. job[j].pc # "done"
  BY DEF GrantFind, GrantCreate, GrantSave, GrantRecord, At
<1>3. CASE StatementFails(j)
  BY <1>1, <1>2, <1>3, StatementFailsSpeaks DEF Speaks
<1>4. CASE GrantFind(j) /\ ~StatementFails(j)
  <2>1. Silent(j)
    BY <1>1, <1>4, GotoSilent, GrantSilent DEF GrantFind, PastSave
  <2> QED BY <1>2, <1>4, <2>1, ReadSpeaks DEF GrantFind, Speaks
<1>5. CASE GrantCreate(j) /\ ~StatementFails(j)
  <2>1. Silent(j)
    <3>1. CASE Finish(j, "dbError")
      BY <1>1, <3>1, FinishSpeech DEF Silent, PastSave, Told
    <3>2. CASE Grant(j, Zero, job[j].amount)
      BY <1>1, <3>2, GrantSilent
    <3> QED BY <1>5, <3>1, <3>2 DEF GrantCreate
  <2> QED BY <1>2, <1>5, <2>1 DEF GrantCreate, CreateRow, Speaks, Quiet
<1>6. CASE GrantSave(j)
  BY <1>1, <1>2, <1>6, TrySaveSpeaks DEF GrantSave, At, Speaks
<1>7. CASE GrantRecord(j)
  <2>1. CASE RecordFails(j, "", "grant")
    BY <1>1, <1>2, <2>1, RecordFailsSpeaks DEF Speaks
  <2>2. CASE Record(j, "", "grant")
    BY <1>7, <2>2 DEF GrantRecord, At, Record, Speaks, Telling, PastSave
  <2> QED BY <1>7, <2>1, <2>2 DEF GrantRecord
<1> QED BY <1>3, <1>4, <1>5, <1>6, <1>7

LEMMA ConsumeSpeaks ==
  ASSUME TypeOK, NEW j \in Jobs, ConsumeFind(j) \/ ConsumeSave(j) \/ ConsumeRecord(j)
  PROVE  Speaks(j)
<1>1. job \in [Jobs -> Job]
  BY DEF TypeOK, LedgerTypeOK
<1>2. job[j].pc # "done"
  BY DEF ConsumeFind, ConsumeSave, ConsumeRecord, At
<1>3. CASE StatementFails(j)
  BY <1>1, <1>2, <1>3, StatementFailsSpeaks DEF Speaks
<1>4. CASE ConsumeFind(j) /\ ~StatementFails(j)
  <2>1. Silent(j)
    <3>1. CASE Finish(j, "rejected")
      BY <1>1, <3>1, FinishSpeech DEF Silent, PastSave, Told
    <3>2. CASE Consume(j, RowOf(j), job[j].amount)
      BY <1>1, <3>2, ConsumeSilent
    <3> QED BY <1>4, <3>1, <3>2 DEF ConsumeFind
  <2> QED BY <1>2, <1>4, <2>1, ReadSpeaks DEF ConsumeFind, Speaks
<1>5. CASE ConsumeSave(j)
  BY <1>1, <1>2, <1>5, TrySaveSpeaks DEF ConsumeSave, At, Speaks
<1>6. CASE ConsumeRecord(j)
  <2>1. CASE RecordFails(j, "", "consume")
    BY <1>1, <1>2, <2>1, RecordFailsSpeaks DEF Speaks
  <2>2. CASE Record(j, "", "consume")
    BY <1>6, <2>2 DEF ConsumeRecord, At, Record, Speaks, Telling, PastSave
  <2> QED BY <1>6, <2>1, <2>2 DEF ConsumeRecord
<1> QED BY <1>3, <1>4, <1>5, <1>6

LEMMA CheckSpeaks ==
  ASSUME TypeOK, NEW j \in Jobs, CheckFree(j) \/ CheckPaid(j)
  PROVE  Speaks(j)
<1>1. job \in [Jobs -> Job]
  BY DEF TypeOK, LedgerTypeOK
<1>2. job[j].pc # "done"
  BY DEF CheckFree, CheckPaid, At
<1>3. CASE StatementFails(j)
  BY <1>1, <1>2, <1>3, StatementFailsSpeaks DEF Speaks
<1>4. CASE ReadOnly /\ ~StatementFails(j)
  <2>1. Silent(j)
    <3>1. CASE Goto(j, "find")
      BY <1>1, <3>1, GotoSilent DEF PastSave
    <3>2. CASE job' = [job EXCEPT ![j].pc = "checkPaid",
                                  ![j].rest = @ - BalanceOr0(Typed(j, "free"))]
      BY <1>1, <3>2 DEF Job, Silent, PastSave, Told
    <3>3. CASE Finish(j, "rejected")
      BY <1>1, <3>3, FinishSpeech DEF Silent, PastSave, Told
    <3>4. CASE job' = [job EXCEPT ![j].pc = "find", ![j].rest = job[j].amount]
      BY <1>1, <3>4 DEF Job, Silent, PastSave, Told
    <3> QED BY <1>4, <3>1, <3>2, <3>3, <3>4 DEF CheckFree, CheckPaid
  <2> QED BY <1>2, <1>4, <2>1 DEF ReadOnly, Speaks, Quiet
<1> QED BY <1>3, <1>4 DEF CheckFree, CheckPaid

LEMMA PrioritySpeaks ==
  ASSUME TypeOK, NEW j \in Jobs,
         \/ FindFree(j) \/ SaveFree(j) \/ RecordFree(j)
         \/ FindPaid(j) \/ SavePaid(j) \/ RecordPaid(j)
  PROVE  Speaks(j)
<1>1. job \in [Jobs -> Job]
  BY DEF TypeOK, LedgerTypeOK
<1>2. job[j].pc # "done"
  BY DEF FindFree, SaveFree, RecordFree, FindPaid, SavePaid, RecordPaid, OnType, At
<1>3. CASE FindFree(j)
  BY <1>1, <1>2, <1>3, TakeFreeSpeaks DEF FindFree, Speaks
<1>4. CASE SaveFree(j) \/ SavePaid(j)
  BY <1>1, <1>2, <1>4, TrySaveSpeaks DEF SaveFree, SavePaid, OnType, At, Speaks
<1>5. CASE FindPaid(j)
  <2>1. CASE StatementFails(j)
    BY <1>1, <1>2, <2>1, StatementFailsSpeaks DEF Speaks
  <2>2. CASE ~StatementFails(j)
    <3>1. Silent(j)
      <4>1. CASE Finish(j, "rejected")
        BY <1>1, <4>1, FinishSpeech DEF Silent, PastSave, Told
      <4>2. CASE Consume(j, RowOf(j), job[j].rest)
        BY <1>1, <4>2, ConsumeSilent
      <4> QED BY <1>5, <2>2, <4>1, <4>2 DEF FindPaid
    <3> QED BY <1>2, <1>5, <2>2, <3>1, ReadSpeaks DEF FindPaid, Speaks
  <2> QED BY <2>1, <2>2
<1>6. CASE RecordFree(j)
  <2>1. CASE RecordFails(j, "free", "consume")
    BY <1>1, <1>2, <2>1, RecordFailsSpeaks DEF Speaks
  <2>2. CASE Record(j, "free", "consume")
    BY <1>6, <2>2 DEF RecordFree, OnType, At, Record, Speaks, Telling, PastSave
  <2> QED BY <1>6, <2>1, <2>2 DEF RecordFree, RecordFreePart
<1>7. CASE RecordPaid(j)
  <2>1. CASE RecordFails(j, "paid", "consume")
    BY <1>1, <1>2, <2>1, RecordFailsSpeaks DEF Speaks
  <2>2. CASE Record(j, "paid", "consume")
    BY <1>7, <2>2 DEF RecordPaid, OnType, At, Record, Speaks, Telling, PastSave
  <2> QED BY <1>7, <2>1, <2>2 DEF RecordPaid, RecordPaidPart
<1> QED BY <1>3, <1>4, <1>5, <1>6, <1>7

LEMMA RequestSpeaks ==
  ASSUME TypeOK, NEW j \in Jobs, Start(j) \/ Step(j)
  PROVE  Speaks(j)
BY StartSpeaks, GrantSpeaks, ConsumeSpeaks, CheckSpeaks, PrioritySpeaks DEF Step

\* Every step of a request is one that the shared tables can bear.
LEMMA CurrencySound ==
  ASSUME TypeOK, NEW j \in Jobs, Start(j) \/ Step(j)
  PROVE  Sound(j)
BY StartType, StepType, RequestHasEffect, RequestSpeaks DEF TypeOK, Sound

\* Where a request of this service may be.
Places == {"find", "create", "save", "record", "checkFree", "checkPaid", "done"}

LEMMA CurrencyPlace ==
  ASSUME TypeOK, NEW j \in Jobs, Start(j) \/ Step(j)
  PROVE  job'[j].pc \in Places
<1>1. job \in [Jobs -> Job]
  BY DEF TypeOK, LedgerTypeOK
<1>2. ASSUME (\E res : Finish(j, res)) \/ StatementFails(j)
      PROVE  job'[j].pc = "done"
  BY <1>1, <1>2, FinishSpeech DEF StatementFails
<1>3. CASE Start(j)
  <2>1. CASE Refuse(j, "grant") \/ Refuse(j, "consume")
    BY <1>1, <2>1 DEF Refuse, Job, Places
  <2>2. CASE \E k, a, m : Begin(j, "grant", "find", k, a, m, NoRef)
    BY <1>1, <2>2, BeginPlace DEF Places
  <2>3. CASE \E k, a, m : Begin(j, "consume", "find", k, a, m, NoRef)
    BY <1>1, <2>3, BeginPlace DEF Places
  <2>4. CASE \E k, a, m : Begin(j, "priority", "checkFree", k, a, m, NoRef)
    BY <1>1, <2>4, BeginPlace DEF Places
  <2>5. CASE GrantStart(j)
    BY <2>1, <2>2, <2>5 DEF GrantStart
  <2>6. CASE ConsumeStart(j)
    BY <2>1, <2>3, <2>4, <2>6 DEF ConsumeStart
  <2> QED BY <1>3, <2>5, <2>6 DEF Start
<1>4. CASE GrantFind(j) \/ GrantCreate(j) \/ ConsumeFind(j) \/ FindPaid(j)
  <2>1. \/ StatementFails(j) \/ (\E res : Finish(j, res)) \/ Goto(j, "create")
        \/ \E c, a : Grant(j, c, a) \/ Consume(j, c, a)
    BY <1>4 DEF GrantFind, GrantCreate, ConsumeFind, FindPaid
  <2> QED BY <1>1, <1>2, <2>1, GotoEffect, GrantPlace, ConsumePlace DEF Places
<1>5. CASE GrantSave(j) \/ ConsumeSave(j) \/ SaveFree(j) \/ SavePaid(j)
  BY <1>1, <1>5, TrySavePlace DEF GrantSave, ConsumeSave, SaveFree, SavePaid, Places
<1>6. CASE GrantRecord(j) \/ ConsumeRecord(j)
  <2>1. \E res : Finish(j, res)
    BY <1>6 DEF GrantRecord, ConsumeRecord, RecordFails
  <2> QED BY <1>2, <2>1 DEF Places
<1>7. CASE CheckFree(j) \/ CheckPaid(j)
  <2>1. CASE StatementFails(j) \/ Finish(j, "rejected")
    BY <1>2, <2>1 DEF Places
  <2>2. CASE Goto(j, "find")
    BY <1>1, <2>2, GotoEffect DEF Places
  <2>3. CASE job' = [job EXCEPT ![j].pc = "checkPaid",
                                ![j].rest = @ - BalanceOr0(Typed(j, "free"))]
    BY <1>1, <2>3 DEF Job, Places
  <2>4. CASE job' = [job EXCEPT ![j].pc = "find", ![j].rest = job[j].amount]
    BY <1>1, <2>4 DEF Job, Places
  <2> QED BY <1>7, <2>1, <2>2, <2>3, <2>4 DEF CheckFree, CheckPaid
<1>8. CASE FindFree(j)
  BY <1>1, <1>8, TakeFreePlace DEF FindFree, Places
<1>9. CASE RecordFree(j) \/ RecordPaid(j)
  <2>1. job'[j].pc \in {"done", "find"} \/ Finish(j, "ok")
    BY <1>1, <1>9, RecordFreePlace, RecordPaidPlace DEF RecordFree, RecordPaid
  <2> QED BY <1>2, <2>1 DEF Places
<1> QED BY <1>3, <1>4, <1>5, <1>6, <1>7, <1>8, <1>9 DEF Step

LEMMA RecordInvariance == Spec => []MoversRecord
<1>1. Init => MoversRecord
  BY LedgerInitKeeps DEF Init
<1>2. TypeOK /\ MoversRecord /\ [Next]_vars => MoversRecord'
  <2> SUFFICES ASSUME TypeOK, MoversRecord, [Next]_vars PROVE MoversRecord'
    OBVIOUS
  <2>1. CASE \E j \in Jobs : Start(j) \/ Step(j)
    BY <2>1, RequestHasEffect, RequestSpeaks, StepRecords
  <2>2. CASE \E k \in Keys : Adjust(k)
    BY <2>2, AdjustRecords
  <2>3. CASE UNCHANGED vars
    BY <2>3 DEF vars, MoversRecord, HasMoved
  <2> QED BY <2>1, <2>2, <2>3 DEF Next, Quiescent
<1> QED BY <1>1, <1>2, TypeCorrect, PTL DEF Spec

\* Grant, Consume and ConsumeWithPriority implement Accounts, however requests
\* interleave, retry or break off: balances are opened, moved within the range and
\* never after the answer, and success is told only of a movement that was made.
THEOREM ServiceKeepsAccounts == Spec => KeepsAccounts
<1>1. Init => Promise!Init
  BY LedgerInitKeeps DEF Init
<1>2. TypeOK /\ TypeOK' /\ LedgerInv /\ MoversRecord /\ [Next]_vars
        => [Promise!Next]_(Promise!vars)
  <2> SUFFICES ASSUME TypeOK, TypeOK', LedgerInv, MoversRecord, [Next]_vars
               PROVE  [Promise!Next]_(Promise!vars)
    OBVIOUS
  <2>1. CASE \E j \in Jobs : Start(j) \/ Step(j)
    BY <2>1, RequestHasEffect, RequestSpeaks, StepKeeps DEF TypeOK
  <2>2. CASE \E k \in Keys : Adjust(k)
    BY <2>2, AdjustKeeps DEF TypeOK
  <2>3. CASE UNCHANGED vars
    BY <2>3, StutterKeeps DEF vars
  <2> QED BY <2>1, <2>2, <2>3 DEF Next, Quiescent
<1> QED BY <1>1, <1>2, TypeCorrect, Invariance, RecordInvariance, PTL
       DEF Spec, KeepsAccounts, Promise!Spec

-----------------------------------------------------------------------------
(* What requests write and record *)

\* A request of the currency service begins a journey.
LEMMA StartJourney ==
  ASSUME TypeOK, NEW j \in Jobs, Start(j), Numbers(j)
  PROVE  Journey(j)
<1>1. LedgerTypeOK /\ UNCHANGED store
  BY DEF TypeOK, Start, GrantStart, ConsumeStart
<1>2. CASE Refuse(j, "grant") \/ Refuse(j, "consume")
  BY <1>1, <1>2, RefuseJourney
<1>3. CASE \E u \in Users, t \in CurrencyTypes, a \in Amounts, m \in BOOLEAN :
             /\ a > 0
             /\ \/ Begin(j, "grant", "find", <<u, t>>, a, m, NoRef)
                \/ Begin(j, "consume", "find", <<u, t>>, a, m, NoRef)
                \/ Begin(j, "priority", "checkFree", <<u, "free">>, a, m, NoRef)
  <2>1. PICK u \in Users, t \in CurrencyTypes, a \in Amounts, m \in BOOLEAN :
             /\ a > 0
             /\ \/ Begin(j, "grant", "find", <<u, t>>, a, m, NoRef)
                \/ Begin(j, "consume", "find", <<u, t>>, a, m, NoRef)
                \/ Begin(j, "priority", "checkFree", <<u, "free">>, a, m, NoRef)
    BY <1>3
  <2>2. a \in Int /\ a >= 0
    BY <2>1, LedgerAssumption
  <2>3. CASE Begin(j, "grant", "find", <<u, t>>, a, m, NoRef)
    BY <1>1, <2>2, <2>3, BeginJourney
  <2>4. CASE Begin(j, "consume", "find", <<u, t>>, a, m, NoRef)
    BY <1>1, <2>2, <2>4, BeginJourney
  <2>5. CASE Begin(j, "priority", "checkFree", <<u, "free">>, a, m, NoRef)
    BY <1>1, <2>1, <2>2, <2>5, BeginJourney DEF Early
  <2> QED BY <2>1, <2>3, <2>4, <2>5
<1>4. CASE GrantStart(j)
  BY <1>2, <1>3, <1>4 DEF GrantStart
<1>5. CASE ConsumeStart(j)
  <2>1. PICK u \in Users, t \in CurrencyTypes \cup {"auto"}, a \in Amounts, m \in BOOLEAN :
          \/ a <= 0 /\ Refuse(j, "consume")
          \/ a > 0 /\ t # "auto" /\ Begin(j, "consume", "find", <<u, t>>, a, m, NoRef)
          \/ a > 0 /\ t = "auto" /\ Begin(j, "priority", "checkFree", <<u, "free">>, a, m, NoRef)
    BY <1>5 DEF ConsumeStart
  <2>2. "free" \in CurrencyTypes
    BY DEF CurrencyTypes
  <2> QED BY <1>2, <1>3, <2>1, <2>2
<1> QED BY <1>4, <1>5 DEF Start

\* Asking for the balances before the consumption starts is a step of it.
LEMMA CheckJourney ==
  ASSUME TypeOK, NEW j \in Jobs, CheckFree(j) \/ CheckPaid(j), Numbers(j)
  PROVE  Journey(j)
<1>1. /\ LedgerTypeOK /\ job \in [Jobs -> Job]
      /\ job[j].op = "priority" /\ job[j].pc \in {"checkFree", "checkPaid"}
      /\ job[j].amount \in Int /\ job[j].amount > 0
  BY JobTypes DEF TypeOK, LedgerTypeOK, CheckFree, CheckPaid, At, Numbers, Early, Split
<1>2. ReadOnly => Still /\ faults' >= faults
  BY <1>1, FaultsGrow DEF ReadOnly, Still
<1>3. CASE StatementFails(j)
  BY <1>1, <1>3, FailsJourney DEF Early
<1>4. CASE ReadOnly /\ job[j].pc = "checkFree" /\ Goto(j, "find")
  BY <1>1, <1>2, <1>4, LookedJourney DEF Early
<1>5. CASE ReadOnly /\ Finish(j, "rejected")
  BY <1>1, <1>2, <1>5, LookedJourney DEF Early
<1>6. CASE /\ ReadOnly
           /\ \/ job' = [job EXCEPT ![j].pc = "checkPaid",
                                    ![j].rest = @ - BalanceOr0(Typed(j, "free"))]
              \/ job' = [job EXCEPT ![j].pc = "find", ![j].rest = job[j].amount]
  <2>1. /\ \A i \in Jobs \ {j} : job'[i] = job[i]
        /\ SameRequest(j) /\ job'[j].key = job[j].key /\ job'[j].attempt = job[j].attempt
        /\ job'[j].result = job[j].result
        /\ \/ job'[j].pc = "checkPaid"
           \/ job'[j].pc = "find" /\ job'[j].rest = job[j].amount
    BY <1>1, <1>6 DEF Job, SameRequest
  <2>2. Looks(j)
    BY <1>1, <1>2, <1>6, <2>1 DEF Looks, SameRequest, Early
  <2> QED BY <1>2, <1>6, <2>1, <2>2 DEF Journey
<1> QED BY <1>3, <1>4, <1>5, <1>6 DEF CheckFree, CheckPaid, At

\* So is every other statement.
LEMMA StepJourney ==
  ASSUME TypeOK, NEW j \in Jobs, Step(j), Numbers(j)
  PROVE  Journey(j)
<1>1. LedgerTypeOK /\ job[j].amount \in Int /\ job[j].rest \in Int
  BY JobTypes DEF TypeOK
<1>2. CASE GrantFind(j)
  BY <1>1, <1>2, FindGrantJourney DEF GrantFind, At, Grants
<1>3. CASE GrantCreate(j)
  BY <1>1, <1>3, CreateGrantJourney DEF GrantCreate, At, Grants
<1>4. CASE GrantSave(j) \/ ConsumeSave(j) \/ SaveFree(j) \/ SavePaid(j)
  BY <1>1, <1>4, SaveJourney DEF GrantSave, ConsumeSave, SaveFree, SavePaid, OnType, At
<1>5. CASE GrantRecord(j) \/ ConsumeRecord(j)
  BY <1>1, <1>5, RecordOneJourney DEF GrantRecord, ConsumeRecord, At, Grants, Split
<1>6. CASE ConsumeFind(j)
  BY <1>1, <1>6, FindConsumeJourney DEF ConsumeFind, At, Grants, Split
<1>7. CASE CheckFree(j) \/ CheckPaid(j)
  BY <1>7, CheckJourney
<1>8. CASE FindFree(j)
  BY <1>1, <1>8, TakeFreeJourney DEF FindFree
<1>9. CASE RecordFree(j)
  BY <1>1, <1>9, RecordFreeJourney DEF RecordFree
<1>10. CASE FindPaid(j)
  BY <1>1, <1>10, FindConsumeJourney DEF FindPaid, OnType, At, Grants, Split
<1>11. CASE RecordPaid(j)
  BY <1>1, <1>11, RecordPaidJourney DEF RecordPaid
<1> QED BY <1>2, <1>3, <1>4, <1>5, <1>6, <1>7, <1>8, <1>9, <1>10, <1>11 DEF Step

\* A manual adjustment is no movement of a request.
LEMMA AdjustTours == ASSUME Tours, NEW k \in Keys, Adjust(k) PROVE Tours'
BY RestTours DEF Adjust

\* Every behaviour of the currency service keeps the invariant of the journeys.
LEMMA ToursInvariance == Spec => []Tours
<1>1. Init => Tours
  BY InitTours DEF Init
<1>2. TypeOK /\ TypeOK' /\ Tours /\ [Next]_vars => Tours'
  <2> SUFFICES ASSUME TypeOK, TypeOK', Tours, [Next]_vars PROVE Tours'
    OBVIOUS
  <2>1. CASE \E j \in Jobs : Start(j) \/ Step(j)
    <3>1. PICK j \in Jobs : Start(j) \/ Step(j)
      BY <2>1
    <3>2. Journey(j)
      BY <3>1, StartJourney, StepJourney DEF Tours, Carrying
    <3> QED BY <3>2, JourneyTours DEF TypeOK
  <2>2. CASE \E k \in Keys : Adjust(k)
    BY <2>2, AdjustTours
  <2>3. CASE UNCHANGED vars
    BY <2>3, RestTours DEF vars
  <2> QED BY <2>1, <2>2, <2>3 DEF Next, Quiescent
<1> QED BY <1>1, <1>2, TypeCorrect, PTL DEF Spec

\* The invariant of the journeys shows what the ledger promises.
LEMMA CurrencyTours ==
  TypeOK /\ Tours => /\ HistoryIsBacked /\ ConsumeNeverOverdraws /\ FreeBeforePaid
                     /\ SuccessIsAccounted /\ RetriesApplyOnce
BY ToursShow DEF TypeOK

\* Every row of the transactions table describes a balance that its request wrote,
\* however requests interleave, retry and break off, although the two statements
\* commit separately.
THEOREM TransactionsBacked == Spec => []HistoryIsBacked
BY TypeCorrect, ToursInvariance, CurrencyTours, PTL

\* No consumption drives a balance below zero, whatever it overwrites.
THEOREM ConsumptionsCovered == Spec => []ConsumeNeverOverdraws
BY TypeCorrect, ToursInvariance, CurrencyTours, PTL

\* Paid currency is taken only for what an empty free balance left, across retries
\* that read other balances.
THEOREM FreeIsTakenFirst == Spec => []FreeBeforePaid
BY TypeCorrect, ToursInvariance, CurrencyTours, PTL

\* The rows of a request that was answered with success add up to the amount it
\* asked for.
THEOREM SuccessesAccounted == Spec => []SuccessIsAccounted
BY TypeCorrect, ToursInvariance, CurrencyTours, PTL

\* As long as no statement breaks, retries never move more than was asked for, and
\* what a finished request moved is on record.
THEOREM RetriesOnce == Spec => []RetriesApplyOnce
BY TypeCorrect, ToursInvariance, CurrencyTours, PTL

=============================================================================
