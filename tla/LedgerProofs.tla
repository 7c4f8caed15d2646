------------------------------ MODULE LedgerProofs -----------------------------
(***************************************************************************)
(* What is proved about the ledger, for every set of users, requests,       *)
(* amounts and initial rows, every number of attempts, broken statements    *)
(* and manual adjustments: lemmas about the statements and helpers of       *)
(* LedgerStore that the proofs about the use cases are built from; then why *)
(* every request keeps the invariant of Journeys, and what that shows of    *)
(* the ledger.                                                              *)
(***************************************************************************)
EXTENDS FreeThenPaid, Journeys, FiniteSetTheorems, WellFoundedInduction, TLAPS

\* A request that was not started yet is a well-formed request.
LEMMA IdleJobType == ASSUME NEW j \in Jobs PROVE IdleJob(j) \in Job
<1>1. (CHOOSE k \in Keys : TRUE) \in Keys
  <2>1. PICK u \in Users : TRUE
    BY LedgerAssumption
  <2>2. <<u, "free">> \in Keys
    BY <2>1 DEF Keys, CurrencyTypes
  <2> QED BY <2>2
<1>2. 0 \in 0..(MaxRetries - 1)
  BY LedgerAssumption, SMT
<1> QED BY <1>1, <1>2 DEF IdleJob, Job, Ops, Pcs, Results, Zero

\* The shared tables start well-formed.
LEMMA LedgerInitType == LedgerInit => LedgerTypeOK
<1> SUFFICES ASSUME LedgerInit PROVE LedgerTypeOK
  OBVIOUS
<1>1. balances \in [Keys -> Row \cup {NoRow}]
  BY LedgerAssumption DEF LedgerInit, InRange, Row
<1>2. job \in [Jobs -> Job]
  BY IdleJobType DEF LedgerInit
<1>3. faults \in 0..MaxFaults /\ adjusts \in 0..MaxAdjusts
  BY LedgerAssumption DEF LedgerInit
<1> QED BY <1>1, <1>2, <1>3 DEF LedgerInit, LedgerTypeOK

\* A request stays well-formed when one field is replaced by a value of its type.
LEMMA JobField ==
  ASSUME NEW r \in Job
  PROVE  /\ \A v \in Ops : [r EXCEPT !.op = v] \in Job
         /\ \A v \in Pcs : [r EXCEPT !.pc = v] \in Job
         /\ \A v \in Keys : [r EXCEPT !.key = v] \in Job
         /\ \A v \in Int : /\ [r EXCEPT !.amount = v] \in Job
                           /\ [r EXCEPT !.rest = v] \in Job
                           /\ [r EXCEPT !.part = v] \in Job
                           /\ [r EXCEPT !.before = v] \in Job
         /\ \A v \in [balance : Int, version : Int] : [r EXCEPT !.ent = v] \in Job
         /\ \A v \in 0..(MaxRetries - 1) : [r EXCEPT !.attempt = v] \in Job
         /\ \A v \in BOOLEAN : /\ [r EXCEPT !.retried = v] \in Job
                               /\ [r EXCEPT !.meta = v] \in Job
         /\ \A v \in Jobs : [r EXCEPT !.stamp = v] \in Job
         /\ \A v \in Refs \cup {NoRef} : [r EXCEPT !.ref = v] \in Job
         /\ \A v \in Results : [r EXCEPT !.result = v] \in Job
BY DEF Job

\* Moving a request on, or answering it, leaves it well-formed.
LEMMA GotoType ==
  ASSUME job \in [Jobs -> Job], NEW j \in Jobs, NEW pc \in Pcs, Goto(j, pc)
  PROVE  job' \in [Jobs -> Job]
BY DEF Goto, Job

LEMMA FinishType ==
  ASSUME job \in [Jobs -> Job], NEW j \in Jobs, NEW res \in Results, Finish(j, res)
  PROVE  job' \in [Jobs -> Job]
<1>1. job' = [job EXCEPT ![j] = [job[j] EXCEPT !.pc = "done", !.result = res]]
  BY DEF Finish
<1>2. [job[j] EXCEPT !.pc = "done", !.result = res] \in Job
  <2>1. "done" \in Pcs
    BY DEF Pcs
  <2>2. [job[j] EXCEPT !.pc = "done"] \in Job
    BY <2>1, JobField
  <2>3. [[job[j] EXCEPT !.pc = "done"] EXCEPT !.result = res] \in Job
    BY <2>2, JobField
  <2> QED BY <2>3
<1> QED BY <1>1, <1>2

LEMMA RefuseType ==
  ASSUME job \in [Jobs -> Job], NEW j \in Jobs, NEW op \in Ops, Refuse(j, op)
  PROVE  job' \in [Jobs -> Job]
<1> DEFINE r1 == [[job[j] EXCEPT !.op = op] EXCEPT !.pc = "done"]
<1>1. r1 \in Job
  <2>1. [job[j] EXCEPT !.op = op] \in Job
    BY JobField
  <2> QED BY <2>1, JobField DEF Pcs
<1>2. [r1 EXCEPT !.result = "rejected"] \in Job
  <2> HIDE DEF r1
  <2> QED BY <1>1, JobField DEF Results
<1>3. job' = [job EXCEPT ![j] = [r1 EXCEPT !.result = "rejected"]]
  BY DEF Refuse
<1> QED BY <1>2, <1>3

LEMMA BeginType ==
  ASSUME job \in [Jobs -> Job], NEW j \in Jobs, NEW op \in Ops, NEW pc \in Pcs,
         NEW k \in Keys, NEW a \in Int, NEW m \in BOOLEAN,
         NEW ref \in Refs \cup {NoRef}, Begin(j, op, pc, k, a, m, ref)
  PROVE  job' \in [Jobs -> Job]
<1>1. PICK s \in Stamps(j) :
         job' = [job EXCEPT ![j] =
                   [IdleJob(j) EXCEPT !.op = op, !.pc = pc, !.key = k, !.amount = a,
                                      !.rest = a, !.part = a, !.stamp = s,
                                      !.meta = m, !.ref = ref]]
  BY DEF Begin
<1>2. s \in Jobs
  BY DEF Stamps
<1> DEFINE r == [IdleJob(j) EXCEPT !.op = op, !.pc = pc, !.key = k, !.amount = a,
                                   !.rest = a, !.part = a, !.stamp = s,
                                   !.meta = m, !.ref = ref]
<1> DEFINE r1 == [[[IdleJob(j) EXCEPT !.op = op] EXCEPT !.pc = pc] EXCEPT !.key = k]
           r2 == [[[r1 EXCEPT !.amount = a] EXCEPT !.rest = a] EXCEPT !.part = a]
           r3 == [[[r2 EXCEPT !.stamp = s] EXCEPT !.meta = m] EXCEPT !.ref = ref]
<1>3. r \in Job
  <2>1. r1 \in Job
    <3>1. [IdleJob(j) EXCEPT !.op = op] \in Job
      BY IdleJobType, JobField
    <3>2. [[IdleJob(j) EXCEPT !.op = op] EXCEPT !.pc = pc] \in Job
      BY <3>1, JobField
    <3> QED BY <3>2, JobField
  <2>2. r2 \in Job
    <3> HIDE DEF r1
    <3>1. [r1 EXCEPT !.amount = a] \in Job
      BY <2>1, JobField
    <3>2. [[r1 EXCEPT !.amount = a] EXCEPT !.rest = a] \in Job
      BY <3>1, JobField
    <3> QED BY <3>2, JobField
  <2>3. r3 \in Job
    <3> HIDE DEF r2
    <3>1. [r2 EXCEPT !.stamp = s] \in Job
      BY <1>2, <2>2, JobField
    <3>2. [[r2 EXCEPT !.stamp = s] EXCEPT !.meta = m] \in Job
      BY <3>1, JobField
    <3> QED BY <3>2, JobField
  <2>4. r = r3
    OBVIOUS
  <2> QED BY <2>3, <2>4
<1> QED BY <1>1, <1>3

\* What Grant and Consume have in common: the entity moves, Save comes next.
LEMMA EntityType ==
  ASSUME job \in [Jobs -> Job], NEW j \in Jobs, NEW c \in Row, NEW a \in Int, NEW d \in Int,
         job' = [job EXCEPT ![j].pc = "save", ![j].part = a,
                            ![j].before = c.balance, ![j].ent = Moved(c, d)]
  PROVE  job' \in [Jobs -> Job]
<1> DEFINE r1 == [[job[j] EXCEPT !.pc = "save"] EXCEPT !.part = a]
           r2 == [[r1 EXCEPT !.before = c.balance] EXCEPT !.ent = Moved(c, d)]
<1>1. r1 \in Job
  <2>1. [job[j] EXCEPT !.pc = "save"] \in Job
    BY JobField DEF Pcs
  <2> QED BY <2>1, JobField
<1>2. c.balance \in Int /\ Moved(c, d) \in [balance : Int, version : Int]
  BY DEF Row, Moved
<1>3. r2 \in Job
  <2> HIDE DEF r1
  <2>1. [r1 EXCEPT !.before = c.balance] \in Job
    BY <1>1, <1>2, JobField
  <2> QED BY <1>2, <2>1, JobField
<1>4. job' = [job EXCEPT ![j] = r2]
  OBVIOUS
<1> QED BY <1>3, <1>4

LEMMA GrantType ==
  ASSUME job \in [Jobs -> Job], NEW j \in Jobs, NEW c \in Row, NEW a \in Int,
         Grant(j, c, a)
  PROVE  job' \in [Jobs -> Job]
<1>1. CASE GrantRejects(c, a)
  BY <1>1, FinishType DEF Grant, Results
<1>2. CASE ~GrantRejects(c, a)
  BY <1>2, EntityType DEF Grant
<1> QED BY <1>1, <1>2

LEMMA ConsumeType ==
  ASSUME job \in [Jobs -> Job], NEW j \in Jobs, NEW c \in Row, NEW a \in Int,
         Consume(j, c, a)
  PROVE  job' \in [Jobs -> Job]
<1>1. CASE ConsumeRejects(c, a)
  BY <1>1, FinishType DEF Consume, Results
<1>2. CASE ~ConsumeRejects(c, a)
  <2>1. -a \in Int
    OBVIOUS
  <2> QED BY <1>2, <2>1, EntityType DEF Consume
<1> QED BY <1>1, <1>2

LEMMA SaveRefusedType ==
  ASSUME job \in [Jobs -> Job], NEW j \in Jobs, SaveRefused(j)
  PROVE  job' \in [Jobs -> Job]
<1>1. CASE job[j].attempt < MaxRetries - 1
  <2> DEFINE r1 == [job[j] EXCEPT !.pc = "find"]
             r2 == [r1 EXCEPT !.attempt = job[j].attempt + 1]
  <2>1. r1 \in Job
    BY JobField DEF Pcs
  <2>2. job[j].attempt + 1 \in 0..(MaxRetries - 1)
    BY <1>1, LedgerAssumption DEF Job
  <2>3. r2 \in Job
    BY <2>1, <2>2, JobField
  <2>4. [r2 EXCEPT !.retried = TRUE] \in Job
    <3> HIDE DEF r2
    <3> QED BY <2>3, JobField
  <2>5. job' = [job EXCEPT ![j] = [r2 EXCEPT !.retried = TRUE]]
    BY <1>1 DEF SaveRefused
  <2> QED BY <2>4, <2>5
<1>2. CASE ~(job[j].attempt < MaxRetries - 1)
  <2>1. Finish(j, "conflict")
    BY <1>2 DEF SaveRefused
  <2> QED BY <2>1, FinishType DEF Results
<1> QED BY <1>1, <1>2

-----------------------------------------------------------------------------
(* Statements: each leaves the tables well-formed when the step that contains *)
(* it leaves the requests well-formed.                                        *)

LEMMA BrokenType ==
  ASSUME LedgerTypeOK, Answered \/ Broken
  PROVE  faults' \in 0..MaxFaults
BY LedgerAssumption DEF LedgerTypeOK, Answered, Broken

LEMMA StatementFailsType ==
  ASSUME LedgerTypeOK, NEW j \in Jobs, StatementFails(j)
  PROVE  LedgerTypeOK'
<1>1. job' \in [Jobs -> Job]
  BY FinishType DEF StatementFails, Results, LedgerTypeOK
<1>2. faults' \in 0..MaxFaults
  BY BrokenType DEF StatementFails
<1> QED BY <1>1, <1>2 DEF LedgerTypeOK, StatementFails

LEMMA ReadOnlyType ==
  ASSUME LedgerTypeOK, ReadOnly, UNCHANGED fresh, job' \in [Jobs -> Job]
  PROVE  LedgerTypeOK'
BY DEF LedgerTypeOK, ReadOnly, Answered

LEMMA ReadRowType ==
  ASSUME LedgerTypeOK, NEW j \in Jobs, NEW k \in Keys, ReadRow(j, k),
         job' \in [Jobs -> Job]
  PROVE  LedgerTypeOK'
BY DEF LedgerTypeOK, ReadRow, ReadOnly, Answered

LEMMA MissRowType ==
  ASSUME LedgerTypeOK, NEW j \in Jobs, NEW k \in Keys, MissRow(j, k),
         job' \in [Jobs -> Job]
  PROVE  LedgerTypeOK'
BY DEF LedgerTypeOK, MissRow, ReadOnly, Answered

LEMMA CreateRowType ==
  ASSUME LedgerTypeOK, NEW j \in Jobs, CreateRow(j), Answered \/ Broken,
         job' \in [Jobs -> Job]
  PROVE  LedgerTypeOK'
<1>1. job[j].key \in Keys
  BY DEF LedgerTypeOK, Job
<1>2. Zero \in Row
  BY DEF Zero, Row
<1>3. balances' \in [Keys -> Row \cup {NoRow}]
  BY <1>1, <1>2 DEF LedgerTypeOK, CreateRow, WriteRow
<1>4. fresh' \in SUBSET (Jobs \X Keys)
  BY <1>1 DEF LedgerTypeOK, CreateRow
<1> QED BY <1>3, <1>4, BrokenType DEF LedgerTypeOK, CreateRow

LEMMA SaveRowType ==
  ASSUME LedgerTypeOK, NEW j \in Jobs, SaveRow(j)
  PROVE  /\ balances' \in [Keys -> Row \cup {NoRow}]
         /\ fresh' \in SUBSET (Jobs \X Keys)
         /\ writes' \in SUBSET Write
<1>1. job[j] \in Job /\ job[j].key \in Keys
  BY DEF LedgerTypeOK, Job
<1>2. RowOf(j) \in Row
  BY <1>1 DEF LedgerTypeOK, SaveRow, SaveMatches, RowOf
<1>3. [balance |-> job[j].ent.balance, version |-> RowOf(j).version + 1] \in Row
  BY <1>1, <1>2 DEF Job, Row
<1>4. balances' \in [Keys -> Row \cup {NoRow}]
  BY <1>1, <1>3 DEF LedgerTypeOK, SaveRow, WriteRow
<1>5. [by |-> j, attempt |-> job[j].attempt, key |-> job[j].key,
       before |-> job[j].before, after |-> job[j].ent.balance] \in Write
  BY <1>1 DEF Job, Write
<1>6. writes' \in SUBSET Write
  BY <1>5 DEF LedgerTypeOK, SaveRow
<1>7. fresh' \in SUBSET (Jobs \X Keys)
  BY DEF LedgerTypeOK, SaveRow
<1> QED BY <1>4, <1>6, <1>7

LEMMA TrySaveType ==
  ASSUME LedgerTypeOK, NEW j \in Jobs, TrySave(j)
  PROVE  LedgerTypeOK'
<1>1. job' \in [Jobs -> Job]
  BY GotoType, SaveRefusedType DEF LedgerTypeOK, TrySave, Pcs
<1>2. faults' \in 0..MaxFaults
  BY BrokenType DEF TrySave
<1>3. /\ balances' \in [Keys -> Row \cup {NoRow}]
      /\ fresh' \in SUBSET (Jobs \X Keys)
      /\ writes' \in SUBSET Write
  <2>1. CASE SaveRow(j)
    BY <2>1, SaveRowType
  <2>2. CASE UNCHANGED <<balances, fresh, writes>>
    BY <2>2 DEF LedgerTypeOK
  <2> QED BY <2>1, <2>2 DEF TrySave
<1> QED BY <1>1, <1>2, <1>3 DEF LedgerTypeOK, TrySave

LEMMA RecordType ==
  ASSUME LedgerTypeOK, NEW j \in Jobs, NEW suffix \in {"", "free", "paid"},
         NEW kind \in {"grant", "consume"}, Record(j, suffix, kind),
         Answered \/ Broken, job' \in [Jobs -> Job]
  PROVE  LedgerTypeOK'
<1> DEFINE row == [id |-> <<job[j].stamp, suffix>>, key |-> job[j].key, kind |-> kind,
                   amount |-> job[j].part, before |-> job[j].before,
                   after |-> job[j].ent.balance, ref |-> job[j].ref]
<1>1. row \in HistoryRow
  BY DEF LedgerTypeOK, Job, HistoryRow
<1>2. history' \in SUBSET HistoryRow
  BY <1>1 DEF LedgerTypeOK, Record, Insert
<1>3. faults' \in 0..MaxFaults
  BY BrokenType
<1> QED BY <1>2, <1>3 DEF LedgerTypeOK, Record

LEMMA RecordFailsType ==
  ASSUME LedgerTypeOK, NEW j \in Jobs, NEW suffix \in {"", "free", "paid"},
         NEW kind \in {"grant", "consume"}, RecordFails(j, suffix, kind)
  PROVE  LedgerTypeOK'
<1>1. job' \in [Jobs -> Job]
  BY FinishType DEF LedgerTypeOK, RecordFails, Results
<1>2. faults' \in 0..MaxFaults
  BY BrokenType DEF RecordFails
<1>3. CASE Broken /\ Record(j, suffix, kind)
  BY <1>1, <1>3, RecordType
<1>4. CASE UNCHANGED <<balances, history, adjusts, fresh, writes>>
  BY <1>1, <1>2, <1>4 DEF LedgerTypeOK
<1> QED BY <1>3, <1>4 DEF RecordFails

LEMMA AdjustType ==
  ASSUME LedgerTypeOK, NEW k \in Keys, Adjust(k)
  PROVE  LedgerTypeOK'
<1>1. PICK b \in InRange :
         WriteRow(k, [balance |-> b,
                      version |-> IF balances[k] = NoRow THEN 0 ELSE balances[k].version + 1])
  BY DEF Adjust
<1>2. [balance |-> b,
       version |-> IF balances[k] = NoRow THEN 0 ELSE balances[k].version + 1] \in Row
  BY LedgerAssumption DEF LedgerTypeOK, Row, InRange
<1>3. balances' \in [Keys -> Row \cup {NoRow}]
  BY <1>1, <1>2 DEF LedgerTypeOK, WriteRow
<1>4. adjusts' \in 0..MaxAdjusts
  BY LedgerAssumption DEF LedgerTypeOK, Adjust
<1>5. fresh' \in SUBSET (Jobs \X Keys)
  BY DEF LedgerTypeOK, Adjust
<1> QED BY <1>3, <1>4, <1>5 DEF LedgerTypeOK, Adjust

-----------------------------------------------------------------------------
(* The steps ConsumeWithPriority and ProcessPayment have in common *)

LEMMA ToPaidType ==
  ASSUME job \in [Jobs -> Job], NEW j \in Jobs, NEW rest \in Int, ToPaid(j, rest)
  PROVE  job' \in [Jobs -> Job]
<1> DEFINE r1 == [[job[j] EXCEPT !.pc = "find"] EXCEPT !.key = Typed(j, "paid")]
           r2 == [[r1 EXCEPT !.rest = rest] EXCEPT !.part = rest]
           r3 == [[r2 EXCEPT !.attempt = 0] EXCEPT !.retried = FALSE]
<1>1. Typed(j, "paid") \in Keys
  BY DEF Typed, Job, Keys, CurrencyTypes
<1>2. r1 \in Job
  <2>1. [job[j] EXCEPT !.pc = "find"] \in Job
    BY JobField DEF Pcs
  <2> QED BY <1>1, <2>1, JobField
<1>3. r2 \in Job
  <2> HIDE DEF r1
  <2>1. [r1 EXCEPT !.rest = rest] \in Job
    BY <1>2, JobField
  <2> QED BY <2>1, JobField
<1>4. r3 \in Job
  <2> HIDE DEF r2
  <2>1. 0 \in 0..(MaxRetries - 1)
    BY LedgerAssumption
  <2>2. [r2 EXCEPT !.attempt = 0] \in Job
    BY <1>3, <2>1, JobField
  <2> QED BY <2>2, JobField
<1>5. job' = [job EXCEPT ![j] = r3]
  BY DEF ToPaid
<1> QED BY <1>4, <1>5

LEMMA TakeFreeType ==
  ASSUME LedgerTypeOK, NEW j \in Jobs, TakeFree(j)
  PROVE  LedgerTypeOK'
<1>1. job[j] \in Job /\ job[j].key \in Keys /\ job[j].rest \in Int
  BY DEF LedgerTypeOK, Job
<1>2. CASE StatementFails(j)
  BY <1>2, StatementFailsType
<1>3. CASE /\ MissRow(j, job[j].key)
           /\ IF job[j].attempt = 0 THEN ToPaid(j, job[j].rest) ELSE Finish(j, "rejected")
  <2>1. job' \in [Jobs -> Job]
    BY <1>1, <1>3, ToPaidType, FinishType DEF LedgerTypeOK, Results
  <2> QED BY <1>1, <1>3, <2>1, MissRowType
<1>4. CASE /\ ReadRow(j, job[j].key)
           /\ IF job[j].attempt = 0 /\ RowOf(j).balance <= 0
              THEN ToPaid(j, job[j].rest)
              ELSE Consume(j, RowOf(j), Smaller(job[j].rest, RowOf(j).balance))
  <2>1. RowOf(j) \in Row /\ RowOf(j).balance \in Int
    BY <1>1, <1>4 DEF LedgerTypeOK, ReadRow, RowOf, Row
  <2>2. Smaller(job[j].rest, RowOf(j).balance) \in Int
    BY <1>1, <2>1 DEF Smaller
  <2>3. job' \in [Jobs -> Job]
    BY <1>1, <1>4, <2>1, <2>2, ToPaidType, ConsumeType DEF LedgerTypeOK
  <2> QED BY <1>1, <1>4, <2>3, ReadRowType
<1> QED BY <1>2, <1>3, <1>4 DEF TakeFree

-----------------------------------------------------------------------------
(* The effect of a step on the balances, whichever use case takes it: what a *)
(* request does to a row, and with which entity it goes on.                  *)

\* The request is not on its way to Create or Save afterwards.
Away(j) == job'[j].pc \notin {"create", "save"}

\* It is on its way to Save with an entity made from c.
Carries(j, c) ==
  /\ job'[j].pc = "save"
  /\ job'[j].key = job[j].key
  /\ job'[j].ent.version = c.version + 1
  /\ c.balance \in InRange => job'[j].ent.balance \in InRange

Passes(j)  == UNCHANGED <<balances, fresh>> /\ Away(j)
Reads(j)   == ReadRow(j, job[j].key) /\ (Away(j) \/ Carries(j, RowOf(j)))
Misses(j)  == /\ MissRow(j, job[j].key)
              /\ Away(j) \/ (job'[j].pc = "create" /\ job'[j].key = job[j].key)
Creates(j) == job[j].pc = "create" /\ CreateRow(j) /\ (Away(j) \/ Carries(j, Zero))
Saves(j)   == job[j].pc = "save" /\ SaveRow(j) /\ Away(j)

Effect(j) ==
  /\ UNCHANGED adjusts
  /\ \A i \in Jobs \ {j} : job'[i] = job[i]
  /\ Passes(j) \/ Reads(j) \/ Misses(j) \/ Creates(j) \/ Saves(j)

\* Moving on and answering touch no other request and lead away.
LEMMA GotoEffect ==
  ASSUME job \in [Jobs -> Job], NEW j \in Jobs, NEW pc, Goto(j, pc)
  PROVE  /\ \A i \in Jobs \ {j} : job'[i] = job[i]
         /\ job'[j].pc = pc /\ job'[j].key = job[j].key
BY DEF Goto, Job

LEMMA FinishEffect ==
  ASSUME job \in [Jobs -> Job], NEW j \in Jobs, NEW res, Finish(j, res)
  PROVE  (\A i \in Jobs \ {j} : job'[i] = job[i]) /\ Away(j)
BY DEF Finish, Job, Away

LEMMA BeginEffect ==
  ASSUME job \in [Jobs -> Job], NEW j \in Jobs, NEW op, NEW pc \in {"find", "checkFree", "lookup"},
         NEW k, NEW a, NEW m, NEW ref, Begin(j, op, pc, k, a, m, ref)
  PROVE  (\A i \in Jobs \ {j} : job'[i] = job[i]) /\ Away(j)
<1>1. PICK s \in Stamps(j) :
         job' = [job EXCEPT ![j] =
                   [IdleJob(j) EXCEPT !.op = op, !.pc = pc, !.key = k, !.amount = a,
                                      !.rest = a, !.part = a, !.stamp = s,
                                      !.meta = m, !.ref = ref]]
  BY DEF Begin
<1> DEFINE r == [IdleJob(j) EXCEPT !.op = op, !.pc = pc, !.key = k, !.amount = a,
                                   !.rest = a, !.part = a, !.stamp = s,
                                   !.meta = m, !.ref = ref]
<1>2. r.pc = pc
  BY DEF IdleJob
<1>3. job' = [job EXCEPT ![j] = r]
  BY <1>1
<1> HIDE DEF r
<1>4. job'[j].pc = pc /\ \A i \in Jobs \ {j} : job'[i] = job[i]
  BY <1>2, <1>3
<1> QED BY <1>4 DEF Away

LEMMA RefuseEffect ==
  ASSUME job \in [Jobs -> Job], NEW j \in Jobs, NEW op, Refuse(j, op)
  PROVE  (\A i \in Jobs \ {j} : job'[i] = job[i]) /\ Away(j)
BY DEF Refuse, Away, Job

LEMMA ToPaidEffect ==
  ASSUME job \in [Jobs -> Job], NEW j \in Jobs, NEW rest, ToPaid(j, rest)
  PROVE  (\A i \in Jobs \ {j} : job'[i] = job[i]) /\ Away(j)
BY DEF ToPaid, Job, Away

LEMMA GrantEffect ==
  ASSUME job \in [Jobs -> Job], NEW j \in Jobs, NEW c \in Row, NEW a \in Int,
         Grant(j, c, a)
  PROVE  (\A i \in Jobs \ {j} : job'[i] = job[i]) /\ (Away(j) \/ Carries(j, c))
<1>1. CASE GrantRejects(c, a)
  BY <1>1, FinishEffect DEF Grant
<1>2. CASE ~GrantRejects(c, a)
  <2>1. c.balance \in InRange => c.balance + a \in InRange
    BY <1>2, LedgerAssumption DEF GrantRejects, InRange, Row
  <2>2. /\ \A i \in Jobs \ {j} : job'[i] = job[i]
        /\ job'[j].pc = "save" /\ job'[j].key = job[j].key
        /\ job'[j].ent = Moved(c, a)
    BY <1>2 DEF Grant, Job
  <2> QED BY <2>1, <2>2 DEF Carries, Moved
<1> QED BY <1>1, <1>2

LEMMA ConsumeEffect ==
  ASSUME job \in [Jobs -> Job], NEW j \in Jobs, NEW c \in Row, NEW a \in Int,
         Consume(j, c, a)
  PROVE  (\A i \in Jobs \ {j} : job'[i] = job[i]) /\ (Away(j) \/ Carries(j, c))
<1>1. CASE ConsumeRejects(c, a)
  BY <1>1, FinishEffect DEF Consume
<1>2. CASE ~ConsumeRejects(c, a)
  <2>1. c.balance \in InRange => c.balance + -a \in InRange
    BY <1>2, LedgerAssumption DEF ConsumeRejects, InRange, Row
  <2>2. /\ \A i \in Jobs \ {j} : job'[i] = job[i]
        /\ job'[j].pc = "save" /\ job'[j].key = job[j].key
        /\ job'[j].ent = Moved(c, -a)
    BY <1>2 DEF Consume, Job
  <2> QED BY <2>1, <2>2 DEF Carries, Moved
<1> QED BY <1>1, <1>2

LEMMA StatementFailsEffect ==
  ASSUME job \in [Jobs -> Job], NEW j \in Jobs, StatementFails(j)
  PROVE  Effect(j)
BY FinishEffect DEF StatementFails, Effect, Passes

LEMMA TrySaveEffect ==
  ASSUME job \in [Jobs -> Job], NEW j \in Jobs, job[j].pc = "save", TrySave(j)
  PROVE  Effect(j)
<1>1. ASSUME SaveRefused(j)
      PROVE  (\A i \in Jobs \ {j} : job'[i] = job[i]) /\ Away(j)
  <2>1. CASE job[j].attempt < MaxRetries - 1
    BY <1>1, <2>1 DEF SaveRefused, Job, Away
  <2>2. CASE ~(job[j].attempt < MaxRetries - 1)
    BY <1>1, <2>2, FinishEffect DEF SaveRefused
  <2> QED BY <2>1, <2>2
<1>2. ASSUME Goto(j, "record")
      PROVE  (\A i \in Jobs \ {j} : job'[i] = job[i]) /\ Away(j)
  BY <1>2, GotoEffect DEF Away
<1>3. (\A i \in Jobs \ {j} : job'[i] = job[i]) /\ Away(j)
  BY <1>1, <1>2 DEF TrySave
<1>4. SaveRow(j) \/ UNCHANGED <<balances, fresh>>
  BY DEF TrySave
<1> QED BY <1>3, <1>4 DEF TrySave, Effect, Saves, Passes

\* A step that writes a history row leaves the balances alone.
LEMMA RecordEffect ==
  ASSUME NEW j \in Jobs, NEW suffix, NEW kind, Record(j, suffix, kind),
         \A i \in Jobs \ {j} : job'[i] = job[i], Away(j)
  PROVE  Effect(j)
BY DEF Record, Effect, Passes

LEMMA RecordFailsEffect ==
  ASSUME job \in [Jobs -> Job], NEW j \in Jobs, NEW suffix, NEW kind,
         RecordFails(j, suffix, kind)
  PROVE  Effect(j)
<1>1. (\A i \in Jobs \ {j} : job'[i] = job[i]) /\ Away(j)
  BY FinishEffect DEF RecordFails
<1>2. UNCHANGED <<balances, fresh, adjusts>>
  BY DEF RecordFails, Record
<1> QED BY <1>1, <1>2 DEF Effect, Passes

LEMMA TakeFreeEffect ==
  ASSUME LedgerTypeOK, NEW j \in Jobs, TakeFree(j)
  PROVE  Effect(j)
<1>1. job \in [Jobs -> Job] /\ job[j].key \in Keys /\ job[j].rest \in Int
  BY DEF LedgerTypeOK, Job
<1>2. CASE StatementFails(j)
  BY <1>1, <1>2, StatementFailsEffect
<1>3. CASE /\ MissRow(j, job[j].key)
           /\ ToPaid(j, job[j].rest) \/ Finish(j, "rejected")
  <2>1. (\A i \in Jobs \ {j} : job'[i] = job[i]) /\ Away(j)
    BY <1>1, <1>3, ToPaidEffect, FinishEffect
  <2> QED BY <1>3, <2>1 DEF Effect, Misses, MissRow, ReadOnly
<1>4. CASE /\ ReadRow(j, job[j].key)
           /\ \/ ToPaid(j, job[j].rest)
              \/ Consume(j, RowOf(j), Smaller(job[j].rest, RowOf(j).balance))
  <2>1. RowOf(j) \in Row /\ RowOf(j).balance \in Int
    BY <1>1, <1>4 DEF LedgerTypeOK, ReadRow, RowOf, Row
  <2>2. Smaller(job[j].rest, RowOf(j).balance) \in Int
    BY <1>1, <2>1 DEF Smaller
  <2>3. /\ \A i \in Jobs \ {j} : job'[i] = job[i]
        /\ Away(j) \/ Carries(j, RowOf(j))
    BY <1>1, <1>4, <2>1, <2>2, ToPaidEffect, ConsumeEffect
  <2> QED BY <1>4, <2>3 DEF Effect, Reads, ReadRow, ReadOnly
<1> QED BY <1>2, <1>3, <1>4 DEF TakeFree

-----------------------------------------------------------------------------
(* The strengthening LedgerInv, preserved by every effect. *)

LEMMA LedgerInitInv == LedgerInit => LedgerInv
<1> SUFFICES ASSUME LedgerInit PROVE LedgerInv
  OBVIOUS
<1>1. \A j \in Jobs : job[j].pc = "idle"
  BY DEF LedgerInit, IdleJob
<1>2. FreshEntity /\ UntouchedEntity /\ EntityInRange
  BY <1>1 DEF FreshEntity, UntouchedEntity, EntityInRange
<1>3. BalancesInRange
  <2> SUFFICES ASSUME NEW k \in Keys, balances[k] # NoRow PROVE balances[k].balance \in InRange
    BY DEF BalancesInRange
  <2>1. balances[k] \in SeedRows
    BY DEF LedgerInit
  <2> QED BY <2>1, LedgerAssumption
<1> QED BY <1>2, <1>3 DEF LedgerInv

LEMMA EffectFreshEntity ==
  ASSUME LedgerTypeOK, LedgerTypeOK', FreshEntity, NEW i \in Jobs, Effect(i)
  PROVE  FreshEntity'
<1> SUFFICES ASSUME NEW j \in Jobs, job'[j].pc = "save", <<j, job'[j].key>> \in fresh'
             PROVE  /\ balances'[job'[j].key] # NoRow
                    /\ job'[j].ent.version = balances'[job'[j].key].version + 1
  BY DEF FreshEntity, RowOf
<1>1. /\ job[i].key \in Keys /\ job[j].key \in Keys
      /\ balances \in [Keys -> Row \cup {NoRow}]
  BY DEF LedgerTypeOK, Job
<1>2. Zero # NoRow
  BY LedgerAssumption DEF Zero, Row
<1>3. CASE j # i
  <2>1. job'[j] = job[j]
    BY <1>3 DEF Effect
  <2>2. CASE Passes(i) \/ Reads(i) \/ Misses(i)
    <3>1. UNCHANGED balances /\ (<<j, job[j].key>> \in fresh)
      BY <1>3, <2>1, <2>2 DEF Passes, Reads, Misses, ReadRow, MissRow, ReadOnly
    <3> QED BY <2>1, <3>1 DEF FreshEntity, RowOf
  <2>3. CASE Creates(i) \/ Saves(i)
    <3>1. job[j].key # job[i].key /\ <<j, job[j].key>> \in fresh
      BY <1>3, <2>1, <2>3 DEF Creates, Saves, CreateRow, SaveRow
    <3>2. balances'[job[j].key] = balances[job[j].key]
      BY <1>1, <2>3, <3>1 DEF Creates, Saves, CreateRow, SaveRow, WriteRow
    <3> QED BY <2>1, <3>1, <3>2 DEF FreshEntity, RowOf
  <2> QED BY <2>2, <2>3 DEF Effect
<1>4. CASE j = i
  <2>1. CASE Reads(j) /\ Carries(j, RowOf(j))
    BY <2>1 DEF Reads, Carries, ReadRow, ReadOnly, RowOf
  <2>2. CASE Creates(j) /\ Carries(j, Zero)
    <3>1. balances'[job'[j].key] = Zero
      BY <1>1, <2>2 DEF Creates, Carries, CreateRow, WriteRow
    <3> QED BY <1>2, <2>2, <3>1 DEF Carries
  <2> QED BY <1>4, <2>1, <2>2 DEF Effect, Passes, Reads, Misses, Creates, Saves, Away
<1> QED BY <1>3, <1>4

\* A save of an untouched row is refused: version and version + 1 differ.
LEMMA FreshRefused == LedgerTypeOK /\ FreshEntity => FreshSaveIsRefused
<1> SUFFICES ASSUME LedgerTypeOK, FreshEntity, NEW j \in Jobs,
                    job[j].pc = "save", <<j, job[j].key>> \in fresh, SaveMatches(j)
             PROVE  FALSE
  BY DEF FreshSaveIsRefused
<1>1. RowOf(j) # NoRow /\ job[j].ent.version = RowOf(j).version + 1
  BY DEF FreshEntity
<1>2. RowOf(j).version \in Nat
  BY <1>1 DEF LedgerTypeOK, Job, RowOf, Row
<1> QED BY <1>1, <1>2 DEF SaveMatches

\* Until the first adjustment no effect changes a row that exists.
LEMMA EffectFreezes ==
  ASSUME LedgerTypeOK, UntouchedEntity, adjusts = 0, NEW i \in Jobs, Effect(i),
         NEW k \in Keys, balances[k] # NoRow
  PROVE  balances'[k] = balances[k]
<1>1. job[i].key \in Keys /\ balances \in [Keys -> Row \cup {NoRow}]
  BY DEF LedgerTypeOK, Job
<1>2. CASE Passes(i) \/ Reads(i) \/ Misses(i)
  BY <1>2 DEF Passes, Reads, Misses, ReadRow, MissRow, ReadOnly
<1>3. CASE Creates(i)
  <2>1. RowOf(i) \in {NoRow, Zero}
    BY <1>3 DEF Creates, UntouchedEntity
  <2> QED BY <1>1, <1>3, <2>1 DEF Creates, CreateRow, WriteRow, RowOf
<1>4. CASE Saves(i)
  <2>1. RowOf(i) # NoRow /\ job[i].ent.version = RowOf(i).version + 1
    BY <1>4 DEF Saves, UntouchedEntity
  <2>2. RowOf(i).version \in Nat
    BY <1>1, <2>1 DEF RowOf, Row
  <2> QED BY <1>4, <2>1, <2>2 DEF Saves, SaveRow, SaveMatches
<1> QED BY <1>2, <1>3, <1>4 DEF Effect

LEMMA EffectUntouchedEntity ==
  ASSUME LedgerTypeOK, LedgerTypeOK', UntouchedEntity, NEW i \in Jobs, Effect(i)
  PROVE  UntouchedEntity'
<1> SUFFICES ASSUME adjusts' = 0, NEW j \in Jobs
             PROVE  /\ job'[j].pc = "save" =>
                          /\ balances'[job'[j].key] # NoRow
                          /\ job'[j].ent.version = balances'[job'[j].key].version + 1
                    /\ job'[j].pc = "create" => balances'[job'[j].key] \in {NoRow, Zero}
  BY DEF UntouchedEntity, RowOf
<1>1. /\ job[i].key \in Keys /\ job[j].key \in Keys
      /\ balances \in [Keys -> Row \cup {NoRow}]
      /\ adjusts = 0
  BY DEF LedgerTypeOK, Job, Effect
<1>2. Zero # NoRow
  BY LedgerAssumption DEF Zero, Row
<1>3. \A k \in Keys : balances[k] # NoRow => balances'[k] = balances[k]
  BY <1>1, EffectFreezes
<1>4. \A k \in Keys : balances[k] = NoRow => balances'[k] \in {NoRow, Zero}
  <2> SUFFICES ASSUME NEW k \in Keys, balances[k] = NoRow PROVE balances'[k] \in {NoRow, Zero}
    OBVIOUS
  <2>1. CASE Passes(i) \/ Reads(i) \/ Misses(i)
    BY <2>1 DEF Passes, Reads, Misses, ReadRow, MissRow, ReadOnly
  <2>2. CASE Creates(i)
    BY <1>1, <2>2 DEF Creates, CreateRow, WriteRow
  <2>3. CASE Saves(i)
    BY <1>1, <2>3 DEF Saves, SaveRow, SaveMatches, WriteRow, RowOf
  <2> QED BY <2>1, <2>2, <2>3 DEF Effect
<1>5. CASE j # i
  <2>1. job'[j] = job[j]
    BY <1>5 DEF Effect
  <2> QED BY <1>1, <1>3, <1>4, <2>1 DEF UntouchedEntity, RowOf
<1>6. CASE j = i
  <2>1. CASE Reads(j) /\ Carries(j, RowOf(j))
    BY <2>1 DEF Reads, Carries, ReadRow, ReadOnly, RowOf
  <2>2. CASE Creates(j) /\ Carries(j, Zero)
    <3>1. balances'[job'[j].key] = Zero
      BY <1>1, <2>2 DEF Creates, Carries, CreateRow, WriteRow
    <3> QED BY <1>2, <2>2, <3>1 DEF Carries
  <2>3. CASE Misses(j) /\ job'[j].pc = "create" /\ job'[j].key = job[j].key
    BY <2>3 DEF Misses, MissRow, ReadOnly
  <2> QED BY <1>6, <2>1, <2>2, <2>3 DEF Effect, Passes, Reads, Misses, Creates, Saves, Away
<1> QED BY <1>5, <1>6

LEMMA EffectInRange ==
  ASSUME LedgerTypeOK, LedgerTypeOK', BalancesInRange, EntityInRange, NEW i \in Jobs, Effect(i)
  PROVE  BalancesInRange' /\ EntityInRange'
<1>1. /\ job[i].key \in Keys
      /\ balances \in [Keys -> Row \cup {NoRow}]
  BY DEF LedgerTypeOK, Job
<1>2. Zero.balance \in InRange
  BY LedgerAssumption DEF Zero, InRange
<1>3. BalancesInRange'
  <2> SUFFICES ASSUME NEW k \in Keys, balances'[k] # NoRow
               PROVE  balances'[k].balance \in InRange
    BY DEF BalancesInRange
  <2>1. CASE Passes(i) \/ Reads(i) \/ Misses(i)
    BY <2>1 DEF Passes, Reads, Misses, ReadRow, MissRow, ReadOnly, BalancesInRange
  <2>2. CASE Creates(i)
    BY <1>1, <1>2, <2>2 DEF Creates, CreateRow, WriteRow, BalancesInRange
  <2>3. CASE Saves(i)
    BY <1>1, <2>3 DEF Saves, SaveRow, WriteRow, BalancesInRange, EntityInRange
  <2> QED BY <2>1, <2>2, <2>3 DEF Effect
<1>4. EntityInRange'
  <2> SUFFICES ASSUME NEW j \in Jobs, job'[j].pc = "save"
               PROVE  job'[j].ent.balance \in InRange
    BY DEF EntityInRange
  <2>1. CASE j # i
    BY <2>1 DEF Effect, EntityInRange
  <2>2. CASE j = i
    <3>1. CASE Reads(j) /\ Carries(j, RowOf(j))
      BY <1>1, <2>2, <3>1 DEF Reads, Carries, ReadRow, RowOf, BalancesInRange
    <3>2. CASE Creates(j) /\ Carries(j, Zero)
      BY <1>2, <3>2 DEF Carries
    <3> QED BY <2>2, <3>1, <3>2 DEF Effect, Passes, Reads, Misses, Creates, Saves, Away
  <2> QED BY <2>1, <2>2
<1> QED BY <1>3, <1>4

LEMMA EffectInv ==
  ASSUME LedgerTypeOK, LedgerTypeOK', LedgerInv, NEW i \in Jobs, Effect(i)
  PROVE  LedgerInv'
BY EffectFreshEntity, EffectUntouchedEntity, EffectInRange DEF LedgerInv

LEMMA AdjustInv ==
  ASSUME LedgerTypeOK, LedgerInv, NEW k \in Keys, Adjust(k)
  PROVE  LedgerInv'
<1>1. PICK b \in InRange :
         WriteRow(k, [balance |-> b,
                      version |-> IF balances[k] = NoRow THEN 0 ELSE balances[k].version + 1])
  BY DEF Adjust
<1>2. \A j \in Jobs : job'[j] = job[j] /\ job[j].key \in Keys
  BY DEF Adjust, LedgerTypeOK, Job
<1>3. \A l \in Keys : l # k => balances'[l] = balances[l]
  BY <1>1 DEF LedgerTypeOK, WriteRow
<1>4. balances'[k].balance = b
  BY <1>1 DEF LedgerTypeOK, WriteRow
<1>5. FreshEntity'
  BY <1>2, <1>3 DEF LedgerInv, FreshEntity, Adjust, RowOf
<1>6. UntouchedEntity'
  BY DEF LedgerTypeOK, UntouchedEntity, Adjust
<1>7. BalancesInRange'
  BY <1>3, <1>4 DEF LedgerInv, BalancesInRange
<1>8. EntityInRange'
  BY <1>2 DEF LedgerInv, EntityInRange
<1> QED BY <1>5, <1>6, <1>7, <1>8 DEF LedgerInv

-----------------------------------------------------------------------------
(* Why the use cases implement Accounts *)

\* The strengthening: a request past its save has moved a balance.
PastSave     == {"record", "saveRedemption"}
HasMoved(j)  == \E w \in writes : w.by = j
MoversRecord == \A j \in Jobs : job[j].pc \in PastSave => HasMoved(j)

-----------------------------------------------------------------------------
(* What a step says: beside its effect on the row, only a save lets a        *)
(* request record, and only a request past its save is told that it moved.    *)

Silent(j)  == job'[j].pc \notin PastSave /\ Told(j)' # "moved"
Quiet(j)   == UNCHANGED writes /\ Silent(j)
Moving(j)  == job[j].pc = "save" /\ SaveRow(j) /\ Told(j)' # "moved"
Telling(j) == UNCHANGED writes /\ job[j].pc \in PastSave

Speaks(j) == job[j].pc # "done" /\ (Quiet(j) \/ Moving(j) \/ Telling(j))

\* An answer that is no success promises nothing.
LEMMA ToldOther ==
  ASSUME NEW j \in Jobs, job'[j].pc # "done" \/ job'[j].result # "ok"
  PROVE  Told(j)' # "moved"
BY DEF Told

LEMMA GotoSilent ==
  ASSUME job \in [Jobs -> Job], NEW j \in Jobs, NEW pc, pc \notin PastSave \cup {"done"}, Goto(j, pc)
  PROVE  Silent(j)
BY GotoEffect DEF Silent, PastSave, Told

LEMMA FinishSpeech ==
  ASSUME job \in [Jobs -> Job], NEW j \in Jobs, NEW res, Finish(j, res)
  PROVE  job'[j].pc = "done" /\ job'[j].result = res
BY DEF Finish, Job

LEMMA RefuseSilent ==
  ASSUME job \in [Jobs -> Job], NEW j \in Jobs, NEW op, Refuse(j, op)
  PROVE  Silent(j)
BY DEF Refuse, Silent, PastSave, Told, Job

LEMMA BeginSilent ==
  ASSUME job \in [Jobs -> Job], NEW j \in Jobs, NEW op, NEW pc \in {"find", "checkFree", "lookup"},
         NEW k, NEW a, NEW m, NEW ref, Begin(j, op, pc, k, a, m, ref)
  PROVE  Silent(j)
<1>1. PICK s \in Stamps(j) :
         job' = [job EXCEPT ![j] =
                   [IdleJob(j) EXCEPT !.op = op, !.pc = pc, !.key = k, !.amount = a,
                                      !.rest = a, !.part = a, !.stamp = s,
                                      !.meta = m, !.ref = ref]]
  BY DEF Begin
<1> DEFINE r == [IdleJob(j) EXCEPT !.op = op, !.pc = pc, !.key = k, !.amount = a,
                                   !.rest = a, !.part = a, !.stamp = s,
                                   !.meta = m, !.ref = ref]
<1>2. r.pc = pc
  BY DEF IdleJob
<1>3. job' = [job EXCEPT ![j] = r]
  BY <1>1
<1> HIDE DEF r
<1> QED BY <1>2, <1>3 DEF Silent, PastSave, Told

LEMMA ToPaidSilent ==
  ASSUME job \in [Jobs -> Job], NEW j \in Jobs, NEW rest, ToPaid(j, rest)
  PROVE  Silent(j)
BY DEF ToPaid, Job, Silent, PastSave, Told

LEMMA GrantSilent ==
  ASSUME job \in [Jobs -> Job], NEW j \in Jobs, NEW c, NEW a, Grant(j, c, a)
  PROVE  Silent(j)
<1>1. CASE Finish(j, "rejected")
  BY <1>1, FinishSpeech DEF Silent, PastSave, Told
<1>2. CASE ~Finish(j, "rejected")
  BY <1>2 DEF Grant, Job, Silent, PastSave, Told
<1> QED BY <1>1, <1>2

LEMMA ConsumeSilent ==
  ASSUME job \in [Jobs -> Job], NEW j \in Jobs, NEW c, NEW a, Consume(j, c, a)
  PROVE  Silent(j)
<1>1. CASE Finish(j, "rejected")
  BY <1>1, FinishSpeech DEF Silent, PastSave, Told
<1>2. CASE ~Finish(j, "rejected")
  BY <1>2 DEF Consume, Job, Silent, PastSave, Told
<1> QED BY <1>1, <1>2

LEMMA StatementFailsSpeaks ==
  ASSUME job \in [Jobs -> Job], NEW j \in Jobs, StatementFails(j)
  PROVE  Quiet(j)
BY FinishSpeech DEF StatementFails, Quiet, Silent, PastSave, Told

LEMMA TrySaveSpeaks ==
  ASSUME job \in [Jobs -> Job], NEW j \in Jobs, job[j].pc = "save", TrySave(j)
  PROVE  Quiet(j) \/ Moving(j)
<1>1. ASSUME SaveRefused(j) PROVE Silent(j)
  <2>1. CASE job[j].attempt < MaxRetries - 1
    BY <1>1, <2>1 DEF SaveRefused, Job, Silent, PastSave, Told
  <2>2. CASE ~(job[j].attempt < MaxRetries - 1)
    BY <1>1, <2>2, FinishSpeech DEF SaveRefused, Silent, PastSave, Told
  <2> QED BY <2>1, <2>2
<1>2. ASSUME Goto(j, "record") PROVE Told(j)' # "moved"
  BY <1>2, GotoEffect DEF Told
<1> QED BY <1>1, <1>2 DEF TrySave, Quiet, Moving, Silent

LEMMA RecordFailsSpeaks ==
  ASSUME job \in [Jobs -> Job], NEW j \in Jobs, NEW suffix, NEW kind,
         RecordFails(j, suffix, kind)
  PROVE  Quiet(j)
BY FinishSpeech DEF RecordFails, Record, Quiet, Silent, PastSave, Told

LEMMA ReadSpeaks ==
  ASSUME NEW j \in Jobs, NEW k, ReadRow(j, k) \/ MissRow(j, k), Silent(j)
  PROVE  Quiet(j)
BY DEF ReadRow, MissRow, ReadOnly, Quiet

LEMMA TakeFreeSpeaks ==
  ASSUME job \in [Jobs -> Job], NEW j \in Jobs, TakeFree(j)
  PROVE  Quiet(j)
<1>1. CASE StatementFails(j)
  BY <1>1, StatementFailsSpeaks
<1>2. CASE /\ MissRow(j, job[j].key)
           /\ ToPaid(j, job[j].rest) \/ Finish(j, "rejected")
  <2>1. Silent(j)
    BY <1>2, ToPaidSilent, FinishSpeech DEF Silent, PastSave, Told
  <2> QED BY <1>2, <2>1, ReadSpeaks
<1>3. CASE /\ ReadRow(j, job[j].key)
           /\ \/ ToPaid(j, job[j].rest)
              \/ Consume(j, RowOf(j), Smaller(job[j].rest, RowOf(j).balance))
  <2>1. Silent(j)
    BY <1>3, ToPaidSilent, ConsumeSilent
  <2> QED BY <1>3, <2>1, ReadSpeaks
<1> QED BY <1>1, <1>2, <1>3 DEF TakeFree

-----------------------------------------------------------------------------
(* A step with an effect of LedgerProofs that speaks like that is a request   *)
(* of Accounts, or nothing.                                                   *)

\* Nobody else is told anything, and the request is told the truth.
LEMMA StepAnswers ==
  ASSUME LedgerTypeOK, LedgerTypeOK', MoversRecord, NEW j \in Jobs, Effect(j), Speaks(j)
  PROVE  Promise!Answer(j) \/ [i \in Jobs |-> Told(i)]' = [i \in Jobs |-> Told(i)]
<1>1. \A i \in Jobs \ {j} : Told(i)' = Told(i)
  BY DEF Effect, Told
<1>2. [i \in Jobs |-> Told(i)]' = [[i \in Jobs |-> Told(i)] EXCEPT ![j] = Told(j)']
  BY <1>1
<1>3. Told(j)' \in {"none", "other", "moved"} /\ Told(j) = "none"
  BY DEF Told, Speaks
<1>4. CASE Told(j)' = "none"
  BY <1>2, <1>3, <1>4
<1>5. CASE Told(j)' = "other"
  BY <1>2, <1>5 DEF Promise!Answer
<1>6. CASE Told(j)' = "moved"
  <2>1. \E w \in writes : w.by = j
    BY <1>6 DEF Speaks, Quiet, Silent, Moving, Telling, MoversRecord, HasMoved
  <2>2. j \in {w.by : w \in writes}
    BY <2>1
  <2> QED BY <1>2, <1>6, <2>2 DEF Promise!Answer
<1> QED BY <1>3, <1>4, <1>5, <1>6

\* A save notes one write, by its request.
LEMMA SaveWrites ==
  ASSUME NEW j \in Jobs, SaveRow(j)
  PROVE  \E w : w.by = j /\ writes' = writes \cup {w}
<1> DEFINE w == [by |-> j, attempt |-> job[j].attempt, key |-> job[j].key,
                 before |-> job[j].before, after |-> job[j].ent.balance]
<1>1. w.by = j
  OBVIOUS
<1>2. writes' = writes \cup {w}
  BY DEF SaveRow
<1> HIDE DEF w
<1> QED BY <1>1, <1>2

\* A row is opened, moved, or left alone.
LEMMA StepMoves ==
  ASSUME LedgerTypeOK, LedgerTypeOK', LedgerInv, NEW j \in Jobs, Effect(j), Speaks(j)
  PROVE  Promise!Open \/ Promise!Move(j) \/ UNCHANGED <<balances, {w.by : w \in writes}>>
<1>1. job[j].key \in Keys /\ balances \in [Keys -> Row \cup {NoRow}] /\ adjusts \in Nat
  BY LedgerAssumption DEF LedgerTypeOK, Job
<1>2. CASE job[j].pc = "save" /\ SaveRow(j)
  <2> DEFINE k == job[j].key
             b == job[j].ent.balance
  <2>1. adjusts > 0
    <3> SUFFICES ASSUME adjusts = 0 PROVE FALSE
      BY <1>1
    <3>1. RowOf(j) # NoRow /\ job[j].ent.version = RowOf(j).version + 1
      BY <1>2 DEF LedgerInv, UntouchedEntity
    <3>2. RowOf(j).version \in Nat
      BY <1>1, <3>1 DEF RowOf, Row
    <3> QED BY <1>2, <3>1, <3>2 DEF SaveRow, SaveMatches
  <2>2. b \in InRange
    BY <1>2 DEF LedgerInv, EntityInRange
  <2>3. /\ balances[k] # NoRow
        /\ balances' = [balances EXCEPT ![k] = [balance |-> b, version |-> balances[k].version + 1]]
    BY <1>2 DEF SaveRow, SaveMatches, WriteRow, RowOf
  <2>4. {w.by : w \in writes}' = {w.by : w \in writes} \cup {j}
    <3>1. PICK w : w.by = j /\ writes' = writes \cup {w}
      BY <1>2, SaveWrites
    <3> QED BY <3>1
  <2> HIDE DEF b
  <2> QED BY <1>1, <2>1, <2>2, <2>3, <2>4 DEF Promise!Move
<1>3. CASE UNCHANGED writes /\ ~(job[j].pc = "save" /\ SaveRow(j))
  <2>1. CASE UNCHANGED balances
    BY <1>3, <2>1
  <2>2. CASE Creates(j)
    <3>1. balances[job[j].key] \in {NoRow, Promise!Zero} \/ adjusts > 0
      BY <1>1, <2>2 DEF LedgerInv, UntouchedEntity, Creates, RowOf, Zero, Promise!Zero
    <3>2. balances' = [balances EXCEPT ![job[j].key] = Promise!Zero]
      BY <2>2 DEF Creates, CreateRow, WriteRow, Zero, Promise!Zero
    <3> QED BY <1>1, <1>3, <3>1, <3>2 DEF Promise!Open
  <2> QED BY <1>3, <2>1, <2>2 DEF Effect, Passes, Reads, Misses, Saves, ReadRow, MissRow, ReadOnly
<1> QED BY <1>2, <1>3 DEF Speaks, Quiet, Moving, Telling

\* A request of the use cases is one of Accounts, or nothing.
LEMMA StepKeeps ==
  ASSUME LedgerTypeOK, LedgerTypeOK', LedgerInv, MoversRecord, NEW j \in Jobs,
         Effect(j), Speaks(j)
  PROVE  [Promise!Next]_(Promise!vars)
<1>1. [i \in Jobs |-> Told(i)][j] = "none"
  BY DEF Speaks, Told
<1>2. UNCHANGED (adjusts > 0)
  BY DEF Effect
<1>3. Promise!Request(j)
  BY <1>1, <1>2, StepAnswers, StepMoves DEF Promise!Request
<1> QED BY <1>3 DEF Promise!Next

\* What has moved stays moved, and a request only gets past a save that was made.
LEMMA StepRecords ==
  ASSUME MoversRecord, NEW j \in Jobs, Effect(j), Speaks(j)
  PROVE  MoversRecord'
<1> SUFFICES ASSUME NEW i \in Jobs, job'[i].pc \in PastSave PROVE \E w \in writes' : w.by = i
  BY DEF MoversRecord, HasMoved
<1>1. writes \subseteq writes'
  BY DEF Speaks, Quiet, Moving, Telling, SaveRow
<1>2. CASE i # j
  BY <1>1, <1>2 DEF Effect, MoversRecord, HasMoved
<1>3. CASE i = j
  <2>1. CASE Moving(j)
    <3>1. \E w \in writes' : w.by = j
      BY <2>1, SaveWrites DEF Moving
    <3> QED BY <1>3, <3>1
  <2>2. CASE Quiet(j)
    BY <1>3, <2>2 DEF Quiet, Silent
  <2>3. CASE Telling(j)
    BY <1>1, <1>3, <2>3 DEF Telling, MoversRecord, HasMoved
  <2> QED BY <2>1, <2>2, <2>3 DEF Speaks
<1> QED BY <1>2, <1>3

\* So is a manual adjustment one of Accounts.
LEMMA AdjustKeeps ==
  ASSUME LedgerTypeOK, NEW k \in Keys, Adjust(k)
  PROVE  Promise!Next
<1>1. adjusts' > 0
  BY LedgerAssumption DEF LedgerTypeOK, Adjust
<1>2. UNCHANGED <<{w.by : w \in writes}, [i \in Jobs |-> Told(i)]>>
  BY DEF Adjust, Told
<1>3. Promise!Adjust
  BY <1>1, <1>2 DEF Adjust, WriteRow, Promise!Adjust
<1> QED BY <1>3 DEF Promise!Next

LEMMA AdjustRecords ==
  ASSUME MoversRecord, NEW k \in Keys, Adjust(k)
  PROVE  MoversRecord'
BY DEF MoversRecord, HasMoved, Adjust

\* A step that touches neither balances, requests nor writes keeps everything.
LEMMA StutterKeeps ==
  ASSUME UNCHANGED <<balances, adjusts, job, writes>>
  PROVE  UNCHANGED Promise!vars
BY DEF Promise!vars, Told

LEMMA LedgerInitKeeps == LedgerInit => Promise!Init /\ MoversRecord
<1> SUFFICES ASSUME LedgerInit PROVE Promise!Init /\ MoversRecord
  OBVIOUS
<1>1. \A j \in Jobs : job[j].pc = "idle"
  BY DEF LedgerInit, IdleJob
<1>2. MoversRecord
  BY <1>1 DEF MoversRecord, PastSave
<1>3. [j \in Jobs |-> Told(j)] = [j \in Jobs |-> "none"]
  BY <1>1 DEF Told
<1>4. {w.by : w \in writes} = {} /\ (adjusts > 0) = FALSE
  BY DEF LedgerInit
<1> QED BY <1>2, <1>3, <1>4 DEF LedgerInit, Promise!Init

-----------------------------------------------------------------------------
(* All of that at once, for the steps of the other use cases. *)

\* What makes a step one that the shared tables can bear.
Sound(j) == LedgerTypeOK' /\ Effect(j) /\ Speaks(j)

\* A step that leaves tables and writes alone and moves the request on.
LEMMA LocalStep ==
  ASSUME LedgerTypeOK, NEW j \in Jobs, job[j].pc # "done",
         job' \in [Jobs -> Job], \A i \in Jobs \ {j} : job'[i] = job[i],
         Away(j), Silent(j), Answered \/ Broken,
         UNCHANGED <<balances, history, adjusts, fresh, writes>>
  PROVE  Sound(j)
<1>1. LedgerTypeOK'
  BY BrokenType DEF LedgerTypeOK
<1> QED BY <1>1 DEF Sound, Effect, Passes, Speaks, Quiet

LEMMA StatementFailsSound ==
  ASSUME LedgerTypeOK, NEW j \in Jobs, job[j].pc # "done", StatementFails(j)
  PROVE  Sound(j)
BY StatementFailsType, StatementFailsEffect, StatementFailsSpeaks
   DEF LedgerTypeOK, Sound, Speaks

LEMMA TrySaveSound ==
  ASSUME LedgerTypeOK, NEW j \in Jobs, job[j].pc = "save", TrySave(j)
  PROVE  Sound(j)
BY TrySaveType, TrySaveEffect, TrySaveSpeaks DEF LedgerTypeOK, Sound, Speaks

\* Only a request between a read and its record moves anything.
LEMMA MovesAlone ==
  ASSUME NEW j \in Jobs, Speaks(j), NEW i \in Jobs, ~HasMoved(i),
         i # j \/ job[j].pc # "save"
  PROVE  ~HasMoved(i)'
<1>1. CASE UNCHANGED writes
  BY <1>1 DEF HasMoved
<1>2. CASE Moving(j)
  <2>1. PICK w : w.by = j /\ writes' = writes \cup {w}
    BY <1>2, SaveWrites DEF Moving
  <2> QED BY <1>2, <2>1 DEF HasMoved, Moving
<1> QED BY <1>1, <1>2 DEF Speaks, Quiet, Telling

-----------------------------------------------------------------------------
(* Where the steps of the store lead a request. *)

LEMMA BeginPlace ==
  ASSUME job \in [Jobs -> Job], NEW j \in Jobs, NEW op, NEW pc, NEW k, NEW a, NEW m, NEW ref,
         Begin(j, op, pc, k, a, m, ref)
  PROVE  job'[j].pc = pc
<1>1. PICK s \in Stamps(j) :
         job' = [job EXCEPT ![j] =
                   [IdleJob(j) EXCEPT !.op = op, !.pc = pc, !.key = k, !.amount = a,
                                      !.rest = a, !.part = a, !.stamp = s,
                                      !.meta = m, !.ref = ref]]
  BY DEF Begin
<1> DEFINE r == [IdleJob(j) EXCEPT !.op = op, !.pc = pc, !.key = k, !.amount = a,
                                   !.rest = a, !.part = a, !.stamp = s,
                                   !.meta = m, !.ref = ref]
<1>2. r.pc = pc
  BY DEF IdleJob
<1>3. job' = [job EXCEPT ![j] = r]
  BY <1>1
<1> HIDE DEF r
<1> QED BY <1>2, <1>3

LEMMA GrantPlace ==
  ASSUME job \in [Jobs -> Job], NEW j \in Jobs, NEW c, NEW a, Grant(j, c, a)
  PROVE  job'[j].pc \in {"done", "save"}
<1>1. CASE Finish(j, "rejected")
  BY <1>1, FinishSpeech
<1>2. CASE ~Finish(j, "rejected")
  BY <1>2 DEF Grant, Job
<1> QED BY <1>1, <1>2

LEMMA TrySavePlace ==
  ASSUME job \in [Jobs -> Job], NEW j \in Jobs, TrySave(j)
  PROVE  job'[j].pc \in {"record", "find", "done"}
<1>1. ASSUME SaveRefused(j) PROVE job'[j].pc \in {"find", "done"}
  <2>1. CASE job[j].attempt < MaxRetries - 1
    BY <1>1, <2>1 DEF SaveRefused, Job
  <2>2. CASE ~(job[j].attempt < MaxRetries - 1)
    BY <1>1, <2>2, FinishSpeech DEF SaveRefused
  <2> QED BY <2>1, <2>2
<1> QED BY <1>1, GotoEffect DEF TrySave

LEMMA ConsumePlace ==
  ASSUME job \in [Jobs -> Job], NEW j \in Jobs, NEW c, NEW a, Consume(j, c, a)
  PROVE  job'[j].pc \in {"done", "save"}
<1>1. CASE Finish(j, "rejected")
  BY <1>1, FinishSpeech
<1>2. CASE ~Finish(j, "rejected")
  BY <1>2 DEF Consume, Job
<1> QED BY <1>1, <1>2

LEMMA ToPaidPlace ==
  ASSUME job \in [Jobs -> Job], NEW j \in Jobs, NEW rest, ToPaid(j, rest)
  PROVE  job'[j].pc = "find"
BY DEF ToPaid, Job

LEMMA TakeFreePlace ==
  ASSUME job \in [Jobs -> Job], NEW j \in Jobs, TakeFree(j)
  PROVE  job'[j].pc \in {"done", "find", "save"}
BY FinishSpeech, ToPaidPlace, ConsumePlace DEF TakeFree, StatementFails

LEMMA RecordFreePlace ==
  ASSUME job \in [Jobs -> Job], NEW j \in Jobs, NEW P, RecordFreePart(j, P)
  PROVE  job'[j].pc \in {"done", "find"} \/ P
BY FinishSpeech, ToPaidPlace DEF RecordFreePart, RecordFails

LEMMA RecordPaidPlace ==
  ASSUME job \in [Jobs -> Job], NEW j \in Jobs, NEW P, RecordPaidPart(j, P)
  PROVE  job'[j].pc = "done" \/ P
BY FinishSpeech DEF RecordPaidPart, RecordFails

-----------------------------------------------------------------------------
(* Sums over finite sets *)

\* Among the subsets of a finite set that have some property, there is a smallest one.
LEMMA SmallestSet ==
  ASSUME NEW S, IsFiniteSet(S), NEW B \in SUBSET (SUBSET S), B # {}
  PROVE  \E T \in B : \A U \in B : U \subseteq T => U = T
<1> DEFINE R == StrictSubsetOrdering(S)
<1>1. B \subseteq FiniteSubsetsOf(S)
  BY FS_Subset DEF FiniteSubsetsOf
<1>2. IsWellFoundedOn(R, FiniteSubsetsOf(S))
  BY FS_StrictSubsetOrderingWellFounded
<1>3. PICK T \in B : \A U \in B : ~(<<U, T>> \in R)
  <2> HIDE DEF R
  <2> QED BY <1>1, <1>2, WFMin
<1>4. \A U \in B : U \subseteq T => U = T
  BY <1>3 DEF StrictSubsetOrdering
<1> QED BY <1>4

\* The sum of v over the subsets of S, as the folds of the library compute it.
Some(s) == CHOOSE x \in s : TRUE
Sums(v, S, g) ==
  g = [s \in SUBSET S |-> IF s = {} THEN 0 ELSE v[Some(s)] + g[s \ {Some(s)}]]
Total(v, S) == (CHOOSE g : Sums(v, S, g))[S]

\* A set that is not empty has the element that is taken out first.
LEMMA SomeIn == ASSUME NEW s, s # {} PROVE Some(s) \in s
BY DEF Some

\* Two such functions agree wherever both are defined.
LEMMA SumsAgree ==
  ASSUME NEW v, NEW S, NEW U, NEW g, NEW h, IsFiniteSet(S), Sums(v, S, g), Sums(v, U, h),
         NEW s \in SUBSET S, s \in SUBSET U
  PROVE  g[s] = h[s]
<1> DEFINE B == {t \in SUBSET S : t \subseteq U /\ g[t] # h[t]}
<1> SUFFICES ASSUME B # {} PROVE FALSE
  OBVIOUS
<1>1. PICK t \in B : \A u \in B : u \subseteq t => u = t
  <2>1. B \in SUBSET (SUBSET S)
    OBVIOUS
  <2> HIDE DEF B
  <2> QED BY <2>1, SmallestSet
<1>2. t \in SUBSET S /\ t \in SUBSET U
  BY <1>1
<1>3. t # {}
  BY <1>1, <1>2 DEF Sums
<1> DEFINE r == t \ {Some(t)}
<1>4. g[r] = h[r]
  <2>1. r \subseteq t /\ r # t
    BY <1>3, SomeIn
  <2> QED BY <1>1, <1>2, <2>1
<1>5. g[t] = v[Some(t)] + g[r] /\ h[t] = v[Some(t)] + h[r]
  BY <1>2, <1>3 DEF Sums
<1> QED BY <1>1, <1>4, <1>5

\* There is such a function on every finite set.
LEMMA SumsExist ==
  ASSUME NEW v, NEW S, IsFiniteSet(S)
  PROVE  \E g : Sums(v, S, g)
<1> DEFINE B == {t \in SUBSET S : ~ \E g : Sums(v, t, g)}
<1> SUFFICES ASSUME B # {} PROVE FALSE
  OBVIOUS
<1>1. PICK t \in B : \A u \in B : u \subseteq t => u = t
  <2>1. B \in SUBSET (SUBSET S)
    OBVIOUS
  <2> HIDE DEF B
  <2> QED BY <2>1, SmallestSet
<1>2. \A u \in SUBSET t : u # t => Sums(v, u, CHOOSE g : Sums(v, u, g))
  <2> SUFFICES ASSUME NEW u \in SUBSET t, u # t PROVE \E g : Sums(v, u, g)
    OBVIOUS
  <2> QED BY <1>1
<1> DEFINE h == [u \in SUBSET t |-> IF u = {} THEN 0 ELSE v[Some(u)] + Total(v, u \ {Some(u)})]
<1>3. \A u \in SUBSET t : u # t => Total(v, u) = h[u]
  <2> SUFFICES ASSUME NEW u \in SUBSET t, u # t PROVE Total(v, u) = h[u]
    OBVIOUS
  <2> DEFINE G(s) == CHOOSE g : Sums(v, s, g)
             r == u \ {Some(u)}
  <2>1. Sums(v, u, G(u))
    BY <1>2
  <2>2. CASE u = {}
    BY <2>1, <2>2 DEF Sums, Total
  <2>3. CASE u # {}
    <3>1. r \in SUBSET u /\ r \in SUBSET t /\ r # t
      BY <2>3, SomeIn
    <3>2. Sums(v, r, G(r))
      BY <1>2, <3>1
    <3>3. IsFiniteSet(u)
      BY <1>1, FS_Subset
    <3> HIDE DEF G, r
    <3>4. G(u)[r] = G(r)[r]
      BY <2>1, <3>1, <3>2, <3>3, SumsAgree
    <3>5. G(u)[u] = v[Some(u)] + G(u)[r]
      BY <2>1, <2>3 DEF Sums, r
    <3>6. h[u] = v[Some(u)] + Total(v, r)
      BY <2>3 DEF r
    <3> QED BY <3>4, <3>5, <3>6 DEF Total, G
  <2> QED BY <2>2, <2>3
<1>4. Sums(v, t, h)
  <2> SUFFICES ASSUME NEW u \in SUBSET t, u # {}
               PROVE  Total(v, u \ {Some(u)}) = h[u \ {Some(u)}]
    BY DEF Sums
  <2>1. u \ {Some(u)} \in SUBSET t /\ u \ {Some(u)} # t
    BY SomeIn
  <2> HIDE DEF h
  <2> QED BY <1>3, <2>1
<1> QED BY <1>1, <1>4

\* On a finite set the sum obeys its recursive definition, although that defines it
\* by a CHOOSE.
LEMMA TotalSums ==
  ASSUME NEW v, NEW S, IsFiniteSet(S), NEW s \in SUBSET S
  PROVE  Total(v, s) = IF s = {} THEN 0 ELSE v[Some(s)] + Total(v, s \ {Some(s)})
<1> DEFINE G(u) == CHOOSE g : Sums(v, u, g)
           r == s \ {Some(s)}
<1>1. IsFiniteSet(s) /\ IsFiniteSet(r) /\ r \in SUBSET s
  BY FS_Subset, FS_RemoveElement
<1>2. Sums(v, s, G(s)) /\ Sums(v, r, G(r))
  BY <1>1, SumsExist
<1> HIDE DEF G, r
<1>3. G(s)[r] = G(r)[r]
  BY <1>1, <1>2, SumsAgree
<1>4. G(s)[s] = IF s = {} THEN 0 ELSE v[Some(s)] + G(s)[r]
  BY <1>2 DEF Sums, r
<1> QED BY <1>3, <1>4 DEF Total, G, r

\* Whichever element is taken out first, the sum is the same.
LEMMA TotalSplit ==
  ASSUME NEW D, NEW v \in [D -> Int], NEW S \in SUBSET D, IsFiniteSet(S)
  PROVE  /\ Total(v, S) \in Int
         /\ \A x \in S : Total(v, S) = v[x] + Total(v, S \ {x})
<1> DEFINE P(t) == /\ Total(v, t) \in Int
                   /\ \A x \in t : Total(v, t) = v[x] + Total(v, t \ {x})
           B == {t \in SUBSET S : ~P(t)}
<1> SUFFICES ASSUME B # {} PROVE FALSE
  OBVIOUS
<1>1. PICK t \in B : \A u \in B : u \subseteq t => u = t
  <2>1. B \in SUBSET (SUBSET S)
    OBVIOUS
  <2> HIDE DEF B
  <2> QED BY <2>1, SmallestSet
<1>2. t \in SUBSET S /\ ~P(t) /\ \A u \in SUBSET t : u # t => P(u)
  BY <1>1
<1> HIDE DEF B
<1>3. t # {}
  <2>1. Total(v, {}) = 0
    <3>1. IsFiniteSet({})
      BY FS_EmptySet
    <3> QED BY <3>1, TotalSums
  <2>2. P({})
    BY <2>1
  <2> HIDE DEF P
  <2> QED BY <1>2, <2>2
<1> DEFINE c == Some(t)
<1>4. c \in t /\ Total(v, t) = v[c] + Total(v, t \ {c})
  BY <1>2, <1>3, SomeIn, TotalSums
<1> HIDE DEF c
<1>5. P(t \ {c}) /\ v[c] \in Int
  BY <1>2, <1>4
<1>6. ASSUME NEW x \in t PROVE Total(v, t) = v[x] + Total(v, t \ {x})
  <2>1. CASE x = c
    BY <1>4, <2>1
  <2>2. CASE x # c
    <3> DEFINE r == (t \ {c}) \ {x}
    <3>1. r = (t \ {x}) \ {c} /\ c \in t \ {x} /\ x \in t \ {c}
      BY <1>4, <2>2
    <3>2. P(t \ {x}) /\ P(r)
      BY <1>2, <1>4, <1>6
    <3>3. Total(v, t \ {c}) = v[x] + Total(v, r)
      BY <1>5, <3>1
    <3>4. Total(v, t \ {x}) = v[c] + Total(v, r)
      BY <3>1, <3>2
    <3>5. v[x] \in Int /\ Total(v, r) \in Int
      BY <1>2, <1>6, <3>2
    <3> HIDE DEF r, P
    <3> QED BY <1>4, <1>5, <3>3, <3>4, <3>5
  <2> QED BY <2>1, <2>2
<1>7. Total(v, t) \in Int
  BY <1>4, <1>5
<1> QED BY <1>2, <1>6, <1>7

-----------------------------------------------------------------------------
(* SumOfRows and SumOfWrites *)

Charges == [h \in HistoryRow |-> Charge(h)]
Deltas  == [w \in Write |-> Delta(w)]

\* What a row charges and what a write moves are integers.
LEMMA ValuesType == Charges \in [HistoryRow -> Int] /\ Deltas \in [Write -> Int]
<1>1. ASSUME NEW h \in HistoryRow PROVE Charge(h) \in Int
  <2>1. h.amount \in Int
    BY DEF HistoryRow
  <2> QED BY <2>1 DEF Charge
<1>2. ASSUME NEW w \in Write PROVE Delta(w) \in Int
  <2>1. w.after \in Int /\ w.before \in Int
    BY DEF Write
  <2> QED BY <2>1 DEF Delta
<1> QED BY <1>1, <1>2 DEF Charges, Deltas

\* SumOfRows, which folds over a set, is such a sum.
LEMMA SumOfRowsTotal ==
  ASSUME NEW S \in SUBSET HistoryRow, IsFiniteSet(S)
  PROVE  SumOfRows(S) = Total(Charges, S)
<1> DEFINE F(i) == [s \in SUBSET S |-> IF s = {} THEN 0 ELSE Charge(Some(s)) + i[s \ {Some(s)}]]
           g == CHOOSE i : i = F(i)
<1>1. SumOfRows(S) = g[S]
  BY DEF SumOfRows, MapThenSumSet, MapThenFoldSet, Some
<1>2. ASSUME NEW i PROVE F(i) = [s \in SUBSET S |-> IF s = {} THEN 0 ELSE Charges[Some(s)] + i[s \ {Some(s)}]]
  <2> SUFFICES ASSUME NEW s \in SUBSET S, s # {} PROVE Charge(Some(s)) = Charges[Some(s)]
    OBVIOUS
  <2>1. Some(s) \in HistoryRow
    BY SomeIn
  <2> QED BY <2>1 DEF Charges
<1>3. PICK i : Sums(Charges, S, i)
  BY SumsExist
<1>4. i = F(i)
  BY <1>2, <1>3 DEF Sums
<1> HIDE DEF F
<1>5. g = F(g)
  BY <1>4
<1> HIDE DEF g
<1>6. Sums(Charges, S, g)
  BY <1>2, <1>5 DEF Sums
<1>7. Sums(Charges, S, CHOOSE f : Sums(Charges, S, f))
  BY <1>3
<1>8. g[S] = Total(Charges, S)
  BY <1>6, <1>7, SumsAgree DEF Total
<1> QED BY <1>1, <1>8

\* So is SumOfWrites.
LEMMA SumOfWritesTotal ==
  ASSUME NEW S \in SUBSET Write, IsFiniteSet(S)
  PROVE  SumOfWrites(S) = Total(Deltas, S)
<1> DEFINE F(i) == [s \in SUBSET S |-> IF s = {} THEN 0 ELSE Delta(Some(s)) + i[s \ {Some(s)}]]
           g == CHOOSE i : i = F(i)
<1>1. SumOfWrites(S) = g[S]
  BY DEF SumOfWrites, MapThenSumSet, MapThenFoldSet, Some
<1>2. ASSUME NEW i PROVE F(i) = [s \in SUBSET S |-> IF s = {} THEN 0 ELSE Deltas[Some(s)] + i[s \ {Some(s)}]]
  <2> SUFFICES ASSUME NEW s \in SUBSET S, s # {} PROVE Delta(Some(s)) = Deltas[Some(s)]
    OBVIOUS
  <2>1. Some(s) \in Write
    BY SomeIn
  <2> QED BY <2>1 DEF Deltas
<1>3. PICK i : Sums(Deltas, S, i)
  BY SumsExist
<1>4. i = F(i)
  BY <1>2, <1>3 DEF Sums
<1> HIDE DEF F
<1>5. g = F(g)
  BY <1>4
<1> HIDE DEF g
<1>6. Sums(Deltas, S, g)
  BY <1>2, <1>5 DEF Sums
<1>7. Sums(Deltas, S, CHOOSE f : Sums(Deltas, S, f))
  BY <1>3
<1>8. g[S] = Total(Deltas, S)
  BY <1>6, <1>7, SumsAgree DEF Total
<1> QED BY <1>1, <1>8

\* Rows add up one by one, in any order: a new row adds what it charges.
LEMMA RowsSum ==
  /\ SumOfRows({}) = 0
  /\ \A S \in SUBSET HistoryRow : IsFiniteSet(S) =>
       /\ SumOfRows(S) \in Int
       /\ \A h \in HistoryRow \ S : SumOfRows(S \cup {h}) = SumOfRows(S) + Charge(h)
<1>1. SumOfRows({}) = 0
  BY FS_EmptySet, SumOfRowsTotal, TotalSums
<1>2. ASSUME NEW S \in SUBSET HistoryRow, IsFiniteSet(S) PROVE SumOfRows(S) \in Int
  BY <1>2, SumOfRowsTotal, TotalSplit, ValuesType
<1>3. ASSUME NEW S \in SUBSET HistoryRow, IsFiniteSet(S), NEW h \in HistoryRow \ S
      PROVE  SumOfRows(S \cup {h}) = SumOfRows(S) + Charge(h)
  <2> DEFINE U == S \cup {h}
  <2>1. U \in SUBSET HistoryRow /\ IsFiniteSet(U) /\ h \in U /\ U \ {h} = S
    BY <1>3, FS_AddElement
  <2> HIDE DEF U
  <2>2. Total(Charges, U) = Charges[h] + Total(Charges, S)
    BY <2>1, TotalSplit, ValuesType
  <2>3. Charges[h] = Charge(h) /\ Charges[h] \in Int
    BY ValuesType DEF Charges
  <2>4. SumOfRows(U) = Total(Charges, U) /\ SumOfRows(S) = Total(Charges, S)
    BY <1>3, <2>1, SumOfRowsTotal
  <2>5. SumOfRows(S) \in Int
    BY <1>2, <1>3
  <2> QED BY <2>2, <2>3, <2>4, <2>5 DEF U
<1> QED BY <1>1, <1>2, <1>3

\* Writes add up one by one, in any order: a new write adds what it moves.
LEMMA WritesSum ==
  /\ SumOfWrites({}) = 0
  /\ \A S \in SUBSET Write : IsFiniteSet(S) =>
       /\ SumOfWrites(S) \in Int
       /\ \A w \in Write \ S : SumOfWrites(S \cup {w}) = SumOfWrites(S) + Delta(w)
<1>1. SumOfWrites({}) = 0
  BY FS_EmptySet, SumOfWritesTotal, TotalSums
<1>2. ASSUME NEW S \in SUBSET Write, IsFiniteSet(S) PROVE SumOfWrites(S) \in Int
  BY <1>2, SumOfWritesTotal, TotalSplit, ValuesType
<1>3. ASSUME NEW S \in SUBSET Write, IsFiniteSet(S), NEW w \in Write \ S
      PROVE  SumOfWrites(S \cup {w}) = SumOfWrites(S) + Delta(w)
  <2> DEFINE U == S \cup {w}
  <2>1. U \in SUBSET Write /\ IsFiniteSet(U) /\ w \in U /\ U \ {w} = S
    BY <1>3, FS_AddElement
  <2> HIDE DEF U
  <2>2. Total(Deltas, U) = Deltas[w] + Total(Deltas, S)
    BY <2>1, TotalSplit, ValuesType
  <2>3. Deltas[w] = Delta(w) /\ Deltas[w] \in Int
    BY ValuesType DEF Deltas
  <2>4. SumOfWrites(U) = Total(Deltas, U) /\ SumOfWrites(S) = Total(Deltas, S)
    BY <1>3, <2>1, SumOfWritesTotal
  <2>5. SumOfWrites(S) \in Int
    BY <1>2, <1>3
  <2> QED BY <2>2, <2>3, <2>4, <2>5 DEF U
<1> QED BY <1>1, <1>2, <1>3

\* More writes that only take take more.
LEMMA MoreTaken ==
  ASSUME NEW S \in SUBSET Write, IsFiniteSet(S), \A w \in S : Delta(w) <= 0, NEW T \in SUBSET S
  PROVE  SumOfWrites(S) <= SumOfWrites(T)
<1> DEFINE B == {U \in SUBSET S : T \subseteq U /\ ~(SumOfWrites(U) <= SumOfWrites(T))}
<1> SUFFICES ASSUME B # {} PROVE FALSE
  OBVIOUS
<1>1. PICK U \in B : \A V \in B : V \subseteq U => V = U
  <2>1. B \in SUBSET (SUBSET S)
    OBVIOUS
  <2> HIDE DEF B
  <2> QED BY <2>1, SmallestSet
<1>2. SumOfWrites(T) \in Int
  BY FS_Subset, WritesSum
<1>3. PICK w \in U : w \notin T
  <2>1. T \subseteq U /\ ~(SumOfWrites(U) <= SumOfWrites(T))
    BY <1>1
  <2>2. U # T
    BY <1>2, <2>1
  <2> QED BY <2>1, <2>2
<1> DEFINE V == U \ {w}
<1>4. V \notin B
  BY <1>1, <1>3
<1>5. SumOfWrites(V) <= SumOfWrites(T)
  BY <1>1, <1>3, <1>4
<1>6. IsFiniteSet(V) /\ V \in SUBSET Write /\ w \in Write \ V /\ U = V \cup {w}
  BY <1>1, <1>3, FS_Subset
<1> HIDE DEF V
<1>7. SumOfWrites(V) \in Int /\ SumOfWrites(U) = SumOfWrites(V) + Delta(w)
  BY <1>6, WritesSum
<1>8. Delta(w) <= 0 /\ Delta(w) \in Int
  <2>1. w.after \in Int /\ w.before \in Int
    BY <1>6 DEF Write
  <2> QED BY <1>1, <2>1 DEF Delta
<1>9. SumOfWrites(U) <= SumOfWrites(T)
  BY <1>2, <1>5, <1>7, <1>8
<1> QED BY <1>1, <1>9

-----------------------------------------------------------------------------
(* What a journey leaves alone *)

\* The fields of a request, what it wrote and what it recorded are well-formed.
LEMMA JobTypes ==
  ASSUME LedgerTypeOK, NEW j \in Jobs
  PROVE  /\ job[j].amount \in Int /\ job[j].rest \in Int /\ job[j].part \in Int
         /\ job[j].before \in Int /\ job[j].ent.balance \in Int /\ job[j].attempt \in Nat
         /\ job[j].key \in Keys /\ job[j].key[2] \in {"free", "paid"}
         /\ job[j].stamp \in Jobs /\ job[j].pc \in Pcs
         /\ Written(j) \in SUBSET Write /\ Recorded(j) \in SUBSET HistoryRow
<1>1. job[j] \in Job
  BY DEF LedgerTypeOK
<1>2. job[j].key \in Keys
  BY <1>1 DEF Job
<1>3. job[j].key[2] \in {"free", "paid"}
  BY <1>2 DEF Keys, CurrencyTypes
<1>4. Written(j) \in SUBSET Write /\ Recorded(j) \in SUBSET HistoryRow
  BY DEF LedgerTypeOK, Written, Recorded
<1> QED BY <1>1, <1>2, <1>3, <1>4 DEF Job

\* So are the fields of a write, and what it moved.
LEMMA WriteTypes ==
  ASSUME NEW w \in Write
  PROVE  /\ w.by \in Jobs /\ w.key \in Keys /\ w.key[2] \in {"free", "paid"}
         /\ w.before \in Int /\ w.after \in Int /\ Delta(w) \in Int
BY DEF Write, Keys, CurrencyTypes, Delta

\* What a journey adds to the tables.
LEMMA JourneyTables ==
  ASSUME NEW j \in Jobs, Journey(j)
  PROVE  /\ \/ UNCHANGED writes
            \/ job[j].pc = "save" /\ writes' = writes \cup {NewWrite(j)}
         /\ \/ UNCHANGED history
            \/ job[j].pc = "record" /\ history' = history \cup {NewRow(j, Suffix(j))}
BY DEF Journey, Begins, Looks, Answers, Goes, Skips, Takes, SavesOrNot, Records, Still, Insert

\* A request that has begun stays begun, under the stamp it began with.
LEMMA NeverIdleAgain ==
  ASSUME NEW j \in Jobs, Journey(j)
  PROVE  job'[j].pc # "idle" /\ (job[j].pc # "idle" => job'[j].stamp = job[j].stamp)
BY DEF Journey, Begins, Looks, Answers, Goes, Skips, Takes, SavesOrNot, Records,
       SameRequest, SamePlan, Early, Under, Past

\* A journey of one request leaves what another one wrote and, unless they share a
\* stamp, what it recorded.
LEMMA OtherTables ==
  ASSUME NEW j \in Jobs, Journey(j), NEW i \in Jobs, i # j
  PROVE  /\ job'[i] = job[i] /\ Written(i)' = Written(i)
         /\ Own(i)' => Own(i) /\ (job[i].pc # "idle" => Recorded(i)' = Recorded(i))
<1>1. job'[i] = job[i]
  BY DEF Journey
<1>2. Written(i)' = Written(i)
  <2>1. NewWrite(j).by = j
    BY DEF NewWrite
  <2> QED BY <2>1, JourneyTables DEF Written
<1>3. ASSUME Own(i)' PROVE Own(i)
  <2> SUFFICES ASSUME NEW l \in Jobs \ {i}, job[l].pc # "idle" PROVE job[l].stamp # job[i].stamp
    BY DEF Own
  <2>1. job'[l].pc # "idle" /\ job'[l].stamp = job[l].stamp
    BY NeverIdleAgain DEF Journey
  <2> QED BY <1>1, <1>3, <2>1 DEF Own
<1>4. ASSUME Own(i)', job[i].pc # "idle" PROVE Recorded(i)' = Recorded(i)
  <2>1. CASE UNCHANGED history
    BY <1>1, <2>1 DEF Recorded
  <2>2. CASE job[j].pc = "record" /\ history' = history \cup {NewRow(j, Suffix(j))}
    <3>1. NewRow(j, Suffix(j)).id[1] = job[j].stamp
      BY DEF NewRow
    <3>2. job[j].stamp # job[i].stamp
      BY <1>3, <1>4, <2>2 DEF Own
    <3> QED BY <1>1, <2>2, <3>1, <3>2 DEF Recorded
  <2> QED BY <2>1, <2>2, JourneyTables
<1> QED BY <1>1, <1>2, <1>3, <1>4

\* A journey of another request changes nothing for this one.
LEMMA Bystander ==
  ASSUME LedgerTypeOK, LedgerTypeOK', NEW j \in Jobs, Journey(j), NEW i \in Jobs, i # j,
         Numbers(i), Wrote(i), Books(i), Moves(i)
  PROVE  Numbers(i)' /\ Wrote(i)' /\ Books(i)' /\ Moves(i)'
<1>1. /\ job'[i] = job[i] /\ Written(i)' = Written(i)
      /\ Own(i)' => Own(i) /\ (job[i].pc # "idle" => Recorded(i)' = Recorded(i))
  BY OtherTables
<1>2. faults' = 0 => faults = 0
  BY DEF Journey, LedgerTypeOK
<1>3. Numbers(i)'
  BY <1>1 DEF Numbers, Signed, Grants, Split, OnPaid
<1>4. Wrote(i)'
  BY <1>1 DEF Wrote, Grants, Split, OnPaid
<1>5. Books(i)'
  BY <1>1 DEF Books, Grants, Split, OnPaid, Due, Asked
<1>6. Moves(i)'
  BY <1>1, <1>2 DEF Moves, Grants, Split, OnPaid, Due, Asked, Signed
<1> QED BY <1>3, <1>4, <1>5, <1>6

-----------------------------------------------------------------------------
(* Each kind of step keeps the invariant of the request that takes it *)

\* A step that writes nothing leaves what the request has written and recorded.
LEMMA StillTables ==
  ASSUME NEW j \in Jobs, Journey(j), Still, job[j].pc # "idle"
  PROVE  /\ Written(j)' = Written(j) /\ Recorded(j)' = Recorded(j)
         /\ Own(j)' => Own(j)
<1>1. job'[j].stamp = job[j].stamp /\ \A i \in Jobs \ {j} : job'[i] = job[i]
  BY NeverIdleAgain DEF Journey
<1> QED BY <1>1 DEF Still, Written, Recorded, Own

\* A request of the same operation has the same sign and is split or not as before.
LEMMA SameKind ==
  ASSUME NEW j \in Jobs, job'[j].op = job[j].op
  PROVE  /\ Grants(j)' = Grants(j) /\ Split(j)' = Split(j)
         /\ \A a : Signed(j, a)' = Signed(j, a)
BY DEF Grants, Split, Signed

\* A request that begins has written and recorded nothing.
LEMMA BeginsCarries ==
  ASSUME LedgerTypeOK, LedgerTypeOK', Finite, Backed, \A i \in Jobs : Wrote(i),
         NEW j \in Jobs, Journey(j), Begins(j), Carrying(j)
  PROVE  Carrying(j)'
<1>1. Written(j) = {} /\ Written(j)' = {} /\ job[j].amount = 0 /\ job[j].rest = 0
  BY DEF Begins, Carrying, Numbers, Wrote, Early, Still, Written
<1>2. Own(j)' => Recorded(j)' = {}
  <2> SUFFICES ASSUME Own(j)', NEW h \in history', h.id[1] = job'[j].stamp PROVE FALSE
    BY DEF Recorded
  <2>1. PICK w \in writes : job[w.by].stamp = h.id[1]
    BY DEF Begins, Still, Backed
  <2>2. w.by \in Jobs /\ w \in Written(w.by)
    BY DEF LedgerTypeOK, Write, Written
  <2>3. w.by # j
    BY <1>1, <2>2
  <2>4. job[w.by].pc # "idle"
    BY <2>2 DEF Wrote, Early
  <2> QED BY <2>1, <2>2, <2>3, <2>4 DEF Journey, Own
<1>3. SumOfRows({}) = 0 /\ SumOfWrites({}) = 0
  BY RowsSum, WritesSum
<1>4. job'[j].amount \in Int /\ job'[j].rest \in Int
  BY JobTypes DEF LedgerTypeOK, Job
<1>5. Numbers(j)'
  BY <1>1, <1>4 DEF Begins, Numbers, Early, Under, Split, OnPaid
<1>6. Wrote(j)'
  BY <1>1, <1>4 DEF Begins, Wrote, Early, Split, OnPaid
<1>7. Books(j)'
  BY <1>1, <1>2, <1>3, <1>4 DEF Begins, Books, Early, Under, Past, Split, Due
<1>8. /\ job'[j].pc \in Early \cup {"find", "done"}
      /\ job'[j].pc = "find" => Due(j)' = 0
      /\ job'[j].pc = "done" => Asked(j)' = 0
  BY <1>1, <1>4 DEF Begins, Due, Split, Asked, Early
<1>9. Moves(j)'
  BY <1>1, <1>2, <1>3, <1>4, <1>8 DEF Moves, Early, Under, Past
<1> QED BY <1>5, <1>6, <1>7, <1>9 DEF Carrying

\* Nor has one that only looks.
LEMMA LooksCarries ==
  ASSUME LedgerTypeOK, LedgerTypeOK', NEW j \in Jobs, Journey(j), Looks(j), Carrying(j)
  PROVE  Carrying(j)'
<1>1. Written(j)' = {} /\ (Own(j)' => Recorded(j)' = {})
  <2>1. Written(j)' = Written(j) /\ Recorded(j)' = Recorded(j) /\ (Own(j)' => Own(j))
    BY StillTables DEF Looks
  <2> QED BY <2>1, StillTables DEF Looks, Carrying, Wrote, Books
<1>2. SumOfRows({}) = 0 /\ SumOfWrites({}) = 0
  BY RowsSum, WritesSum
<1>3. /\ job'[j].amount \in Int /\ job'[j].rest \in Int
      /\ job[j].amount \in Int /\ job[j].rest \in Int
  BY DEF LedgerTypeOK, Job
<1>4. /\ Grants(j)' = Grants(j) /\ Split(j)' = Split(j)
      /\ Split(j) => ~OnPaid(j)' /\ job'[j].amount = job[j].amount /\ job[j].amount > 0
  BY SameKind DEF Looks, Carrying, Numbers, Split, OnPaid
<1>5. Numbers(j)'
  BY <1>1, <1>3, <1>4 DEF Looks, Carrying, Numbers, Early, Under, OnPaid
<1>6. job'[j].pc \in Early \cup {"find", "done"} /\ job'[j].pc # "idle"
  BY DEF Looks
<1>7. Wrote(j)'
  BY <1>1, <1>4, <1>6 DEF Wrote, Early
<1>8. job'[j].pc = "find" => Due(j)' = 0
  BY <1>3, <1>4, <1>6 DEF Looks, Carrying, Numbers, Due, Early
<1>9. job'[j].pc = "done" /\ job'[j].result = "ok" => job'[j].op = "payment" \/ Asked(j)' = 0
  BY <1>4 DEF Looks, Early, Asked, Grants, Carrying, Numbers
<1>10. Books(j)'
  BY <1>1, <1>2, <1>6, <1>8, <1>9 DEF Books, Early, Under, Past
<1>11. Split(j) => 0 \in Asked(j)'..0
  BY <1>3, <1>4 DEF Asked, Split, Grants
<1>12. Moves(j)'
  BY <1>1, <1>2, <1>4, <1>6, <1>8, <1>11 DEF Moves, Early, Under, Past
<1> QED BY <1>5, <1>7, <1>10, <1>12 DEF Carrying

\* An answer sums up what the steps before it did.
LEMMA AnswersCarries ==
  ASSUME LedgerTypeOK, LedgerTypeOK', NEW j \in Jobs, Journey(j), Answers(j), Carrying(j)
  PROVE  Carrying(j)'
<1>1. /\ Written(j)' = Written(j) /\ Recorded(j)' = Recorded(j)
      /\ Own(j)' => Own(j)
  BY StillTables DEF Answers, Early, Under, Past
<1>2. /\ job[j].amount \in Int /\ job[j].rest \in Int /\ job[j].part \in Int
  BY DEF LedgerTypeOK, Job
<1>3. /\ Grants(j)' = Grants(j) /\ Split(j)' = Split(j) /\ OnPaid(j)' = OnPaid(j)
      /\ Asked(j)' = Asked(j)
  BY SameKind DEF Answers, SamePlan, SameRequest, OnPaid, Asked
<1>4. /\ job'[j].pc = "done" /\ job'[j].amount = job[j].amount
      /\ job'[j].rest = job[j].rest /\ job'[j].op = job[j].op
  BY DEF Answers, SamePlan, SameRequest
<1>5. Numbers(j)'
  BY <1>3, <1>4 DEF Carrying, Numbers, Early, Under
<1>6. Wrote(j)'
  BY <1>1, <1>3, <1>4 DEF Carrying, Wrote, Early
<1>7. Books(j)'
  BY <1>1, <1>3, <1>4 DEF Answers, Carrying, Books, Early, Under, Past
<1>8. Moves(j)'
  <2> SUFFICES ASSUME faults' = 0
               PROVE  LET moved == SumOfWrites(Written(j)) IN
                 /\ IF Split(j) THEN moved \in Asked(j)..0 ELSE moved \in {0, Asked(j)}
                 /\ job[j].meta /\ Own(j)' => SumOfRows(Recorded(j)) = moved
                 /\ job'[j].result = "rejected" /\ Split(j) => \A w \in Written(j) : w.key[2] = "free"
    BY <1>1, <1>3, <1>4 DEF Moves, Answers, SamePlan, SameRequest, Under, Past
  <2>1. faults = 0
    BY DEF Journey, LedgerTypeOK
  <2> DEFINE moved == SumOfWrites(Written(j))
             sum == SumOfRows(Recorded(j))
  <2>2. CASE job[j].pc = "record"
    <3>1. ~job[j].meta /\ job'[j].result # "rejected"
      BY <2>2 DEF Answers
    <3>2. moved = Due(j) + Signed(j, job[j].part)
      BY <2>1, <2>2 DEF Carrying, Moves
    <3>3. /\ Split(j) => job[j].rest <= job[j].amount /\ job[j].part <= job[j].rest /\ ~Grants(j) /\ 0 < job[j].part
          /\ ~Split(j) => job[j].part = job[j].amount
      BY <2>2 DEF Carrying, Numbers, Split, Grants, Under
    <3>4. IF Split(j) THEN moved \in Asked(j)..0 ELSE moved \in {0, Asked(j)}
      BY <1>2, <3>2, <3>3 DEF Due, Signed, Asked
    <3> QED BY <3>1, <3>4 DEF Carrying, Numbers
  <2>3. CASE job[j].pc \in Past
    <3>1. moved = Asked(j) /\ (Own(j)' => sum = Asked(j))
      BY <1>1, <2>1, <2>3 DEF Carrying, Moves, Books, Past
    <3>2. Split(j) => Asked(j) \in Asked(j)..0
      BY <1>2 DEF Carrying, Numbers, Split, Asked, Grants
    <3> QED BY <2>3, <3>1, <3>2 DEF Answers, Past
  <2>4. CASE job[j].pc \in Under \ {"record"}
    <3>1. /\ moved = Due(j) /\ (Own(j)' => sum = Due(j))
          /\ \A w \in Written(j) : w.key[2] = "free"
      BY <1>1, <2>1, <2>4 DEF Carrying, Moves, Books, Under
    <3>2. Split(j) => job[j].rest <= job[j].amount /\ 0 < job[j].rest
      BY <2>4 DEF Carrying, Numbers
    <3>3. IF Split(j) THEN Due(j) \in Asked(j)..0 ELSE Due(j) = 0
      BY <1>2, <3>2 DEF Due, Asked, Grants, Split
    <3> QED BY <3>1, <3>3
  <2> QED BY <2>2, <2>3, <2>4 DEF Answers
<1> QED BY <1>5, <1>6, <1>7, <1>8 DEF Carrying

\* Going on to create a row, or to fail, moves nothing.
LEMMA GoesCarries ==
  ASSUME LedgerTypeOK, LedgerTypeOK', NEW j \in Jobs, Journey(j), Goes(j), Carrying(j)
  PROVE  Carrying(j)'
<1>1. /\ Written(j)' = Written(j) /\ Recorded(j)' = Recorded(j)
      /\ Own(j)' => Own(j)
  BY StillTables DEF Goes
<1>2. faults' = 0 => faults = 0
  BY DEF Journey, LedgerTypeOK
<1>3. /\ Grants(j)' = Grants(j) /\ Split(j)' = Split(j) /\ OnPaid(j)' = OnPaid(j)
      /\ Due(j)' = Due(j)
  BY SameKind DEF Goes, SamePlan, SameRequest, OnPaid, Due
<1>4. /\ job'[j].pc \in {"create", "fail"} /\ job'[j].amount = job[j].amount
      /\ job'[j].rest = job[j].rest /\ job'[j].op = job[j].op /\ job[j].pc = "find"
      /\ job'[j].attempt = job[j].attempt
  BY DEF Goes, SamePlan, SameRequest
<1>5. Numbers(j)'
  BY <1>3, <1>4 DEF Carrying, Numbers, Early, Under
<1>6. Wrote(j)'
  BY <1>1, <1>3, <1>4 DEF Carrying, Wrote, Early
<1>7. Books(j)'
  BY <1>1, <1>3, <1>4 DEF Carrying, Books, Early, Under, Past
<1>8. Moves(j)'
  BY <1>1, <1>2, <1>3, <1>4 DEF Carrying, Moves, Under, Past
<1> QED BY <1>5, <1>6, <1>7, <1>8 DEF Carrying

\* A request that skips free currency owes all of its amount to paid currency.
LEMMA SkipsCarries ==
  ASSUME LedgerTypeOK, LedgerTypeOK', NEW j \in Jobs, Journey(j), Skips(j), Carrying(j)
  PROVE  Carrying(j)'
<1>1. /\ Written(j)' = {} /\ Recorded(j)' = Recorded(j)
      /\ Own(j)' => Own(j)
  BY StillTables DEF Skips, Carrying, Wrote
<1>2. faults' = 0 => faults = 0
  BY DEF Journey, LedgerTypeOK
<1>3. /\ Grants(j)' = Grants(j) /\ Split(j)' /\ Split(j) /\ OnPaid(j)' /\ ~OnPaid(j)
  BY SameKind DEF Skips, SameRequest, OnPaid
<1>4. /\ job'[j].pc = "find" /\ job'[j].amount = job[j].amount
      /\ job'[j].rest = job[j].rest /\ job'[j].op = job[j].op /\ job[j].pc = "find"
      /\ job[j].rest = job[j].amount /\ job[j].amount \in Int
  BY <1>3, JobTypes DEF Skips, SameRequest, Carrying, Numbers, Under
<1>5. Numbers(j)'
  BY <1>3, <1>4 DEF Carrying, Numbers, Early, Under
<1>6. Wrote(j)'
  BY <1>1, <1>3, <1>4 DEF Wrote, Early
<1>7. Due(j)' = 0 /\ Due(j) = 0
  BY <1>3, <1>4 DEF Due
<1>8. Books(j)'
  BY <1>1, <1>3, <1>4, <1>7 DEF Carrying, Books, Early, Under, Past
<1>9. Moves(j)'
  BY <1>1, <1>2, <1>3, <1>4, <1>7, WritesSum DEF Moves, Under, Past
<1> QED BY <1>5, <1>6, <1>8, <1>9 DEF Carrying

\* The change in memory fits what is still to be moved.
LEMMA TakesCarries ==
  ASSUME LedgerTypeOK, LedgerTypeOK', NEW j \in Jobs, Journey(j), Takes(j), Carrying(j)
  PROVE  Carrying(j)'
<1>1. /\ Written(j)' = Written(j) /\ Recorded(j)' = Recorded(j)
      /\ Own(j)' => Own(j)
  BY StillTables DEF Takes
<1>2. faults' = 0 => faults = 0
  BY DEF Journey, LedgerTypeOK
<1>3. /\ Grants(j)' = Grants(j) /\ Split(j)' = Split(j) /\ OnPaid(j)' = OnPaid(j)
      /\ Due(j)' = Due(j)
  BY SameKind DEF Takes, SamePlan, SameRequest, OnPaid, Due
<1>4. /\ job'[j].pc = "save" /\ job'[j].amount = job[j].amount /\ job'[j].attempt = job[j].attempt
      /\ job'[j].rest = job[j].rest /\ job'[j].op = job[j].op /\ job[j].pc \in {"find", "create"}
  BY DEF Takes, SamePlan, SameRequest
<1>5. Numbers(j)'
  <2>1. Signed(j, job'[j].part) = Signed(j, job[j].part)'
    BY <1>3 DEF Signed
  <2> QED BY <1>3, <1>4, <2>1 DEF Takes, Carrying, Numbers, Early, Under
<1>6. Wrote(j)'
  BY <1>1, <1>3, <1>4 DEF Carrying, Wrote, Early
<1>7. Books(j)'
  BY <1>1, <1>3, <1>4 DEF Carrying, Books, Early, Under, Past
<1>8. Moves(j)'
  BY <1>1, <1>2, <1>3, <1>4 DEF Carrying, Moves, Under, Past
<1> QED BY <1>5, <1>6, <1>7, <1>8 DEF Carrying

\* A request past its first statements keeps its identity.
LEMMA KeepsRequest ==
  ASSUME NEW j \in Jobs, Journey(j), job[j].pc \notin Early
  PROVE  SameRequest(j) /\ job'[j].pc \notin Early
BY DEF Journey, Begins, Looks, Answers, Goes, Skips, Takes, SavesOrNot, Records, SamePlan,
       Early, Under, Past

\* A save writes a well-formed balance that differs from the one read by the part,
\* and takes without going below zero.
LEMMA NewWriteType ==
  ASSUME LedgerTypeOK, NEW j \in Jobs, Numbers(j), job[j].pc \in {"save", "record"}
  PROVE  /\ NewWrite(j) \in Write
         /\ NewWrite(j).by = j /\ NewWrite(j).key = job[j].key
         /\ NewWrite(j).before = job[j].before /\ NewWrite(j).after = job[j].ent.balance
         /\ Delta(NewWrite(j)) = Signed(j, job[j].part)
         /\ IF Grants(j) THEN Delta(NewWrite(j)) > 0
            ELSE Delta(NewWrite(j)) < 0 /\ NewWrite(j).after >= 0
<1>1. NewWrite(j) \in Write
  BY DEF LedgerTypeOK, Job, Write, NewWrite
<1>2. /\ NewWrite(j).by = j /\ NewWrite(j).key = job[j].key
      /\ NewWrite(j).before = job[j].before /\ NewWrite(j).after = job[j].ent.balance
  BY DEF NewWrite
<1>3. /\ job[j].before \in Int /\ job[j].ent.balance \in Int /\ job[j].part \in Int
      /\ job[j].part > 0
      /\ job[j].ent.balance = job[j].before + Signed(j, job[j].part)
      /\ ~Grants(j) => job[j].ent.balance >= 0
  BY JobTypes DEF Numbers
<1>4. Signed(j, job[j].part) \in Int /\ IF Grants(j) THEN Signed(j, job[j].part) > 0 ELSE Signed(j, job[j].part) < 0
  BY <1>3 DEF Signed
<1>5. Delta(NewWrite(j)) = Signed(j, job[j].part)
  BY <1>2, <1>3, <1>4 DEF Delta
<1> QED BY <1>1, <1>2, <1>3, <1>4, <1>5

\* A save moves the part, or nothing.
LEMMA SavesCarries ==
  ASSUME LedgerTypeOK, LedgerTypeOK', Finite, NEW j \in Jobs, Journey(j), SavesOrNot(j),
         Carrying(j)
  PROVE  Carrying(j)'
<1> DEFINE w == NewWrite(j)
<1>1. /\ Recorded(j)' = Recorded(j)
      /\ Own(j)' => Own(j)
  BY DEF SavesOrNot, SamePlan, SameRequest, Recorded, Own, Journey
<1>2. faults' = 0 => faults = 0
  BY DEF Journey, LedgerTypeOK
<1>3. /\ Grants(j)' = Grants(j) /\ Split(j)' = Split(j) /\ OnPaid(j)' = OnPaid(j)
      /\ Due(j)' = Due(j) /\ Asked(j)' = Asked(j)
  BY SameKind DEF SavesOrNot, SamePlan, SameRequest, OnPaid, Due, Asked
<1>4. /\ job'[j].pc \in {"record", "find", "done"} /\ job'[j].amount = job[j].amount
      /\ job'[j].rest = job[j].rest /\ job'[j].op = job[j].op /\ job[j].pc = "save"
      /\ job'[j].pc = "done" => job'[j].result = "conflict"
      /\ job'[j].pc = "record" => SameMove(j)
      /\ job'[j].pc = "find" => job'[j].attempt # 0
      /\ job'[j].key = job[j].key /\ job'[j].meta = job[j].meta
  BY JobTypes DEF SavesOrNot, SamePlan, SameRequest
<1>5. /\ w \in Write /\ w.by = j /\ w.key = job[j].key /\ w.before = job[j].before
      /\ w.after = job[j].ent.balance /\ Delta(w) = Signed(j, job[j].part)
      /\ IF Grants(j) THEN Delta(w) > 0 ELSE Delta(w) < 0 /\ w.after >= 0
  BY <1>4, NewWriteType DEF Carrying
<1>6. \/ Written(j)' = Written(j) /\ job'[j].pc # "record"
      \/ /\ Written(j)' = Written(j) \cup {w}
         /\ job'[j].pc = "record" \/ faults' > 0
  <2>1. CASE UNCHANGED writes /\ job'[j].pc # "record"
    BY <2>1 DEF Written
  <2>2. CASE writes' = writes \cup {w} /\ (job'[j].pc = "record" \/ faults' > 0)
    <3> HIDE DEF w
    <3>1. Written(j)' = Written(j) \cup {w}
      BY <1>5, <2>2 DEF Written
    <3> QED BY <2>2, <3>1
  <2> QED BY <2>1, <2>2 DEF SavesOrNot
<1> HIDE DEF w
<1>7. Numbers(j)'
  <2>1. job'[j].pc = "record" => Signed(j, job[j].part)' = Signed(j, job[j].part)
    BY <1>3, <1>4 DEF Signed, SameMove
  <2> QED BY <1>3, <1>4, <2>1 DEF SameMove, Carrying, Numbers, Early, Under
<1>8. Wrote(j)'
  <2>1. job'[j].pc = "record" => \E v \in Written(j)' :
          v.key = job[j].key /\ v.before = job[j].before /\ v.after = job[j].ent.balance
    BY <1>5, <1>6
  <2>2. Split(j) /\ w.key[2] = "paid" => OnPaid(j) /\ -Delta(w) = job[j].rest
    <3> SUFFICES ASSUME Split(j), OnPaid(j) PROVE -Delta(w) = job[j].rest
      BY <1>5 DEF OnPaid
    <3>1. job[j].part = job[j].rest /\ ~Grants(j) /\ job[j].part \in Int
      <4>1. job[j].part <= job[j].rest /\ ~(job[j].part < job[j].rest)
        BY <1>4 DEF Carrying, Numbers
      <4>2. job[j].part \in Int /\ job[j].rest \in Int
        BY JobTypes
      <4> QED BY <4>1, <4>2 DEF Split, Grants
    <3> QED BY <1>5, <3>1 DEF Signed
  <2>3. \A v \in Written(j)' :
          /\ IF Grants(j) THEN Delta(v) > 0 ELSE Delta(v) < 0 /\ v.after >= 0
          /\ Split(j) /\ v.key[2] = "paid" => OnPaid(j) /\ -Delta(v) = job[j].rest
    BY <1>5, <1>6, <2>2 DEF Carrying, Wrote
  <2>4. Split(j) /\ OnPaid(j) =>
       \/ job[j].rest = job[j].amount /\ \A v \in Written(j)' : v.key[2] = "paid"
       \/ \E v \in Written(j)' : v.key[2] = "free" /\ v.after = 0 /\ Delta(v) = job[j].rest - job[j].amount
    BY <1>5, <1>6 DEF Carrying, Wrote, OnPaid
  <2> QED BY <1>3, <1>4, <2>1, <2>3, <2>4 DEF Wrote, Early, SameMove
<1>9. Books(j)'
  BY <1>1, <1>3, <1>4 DEF Carrying, Books, Early, Under, Past
<1>10. Moves(j)'
  <2> SUFFICES ASSUME faults' = 0 PROVE Moves(j)'
    BY DEF Moves
  <2>1. SumOfWrites(Written(j)) = Due(j) /\ \A v \in Written(j) : Split(j) /\ OnPaid(j) /\ v.key[2] = "free"
    BY <1>2, <1>4 DEF Carrying, Moves, Under
  <2>2. CASE Written(j)' = Written(j) /\ job'[j].pc # "record"
    <3>1. IF Split(j) THEN Due(j) \in Asked(j)..0 ELSE Due(j) = 0
      <4>1. /\ job[j].amount \in Int /\ job[j].rest \in Int
            /\ Split(j) => job[j].rest <= job[j].amount /\ 0 < job[j].rest
        BY <1>4, JobTypes DEF Carrying, Numbers, Under
      <4> QED BY <4>1 DEF Due, Asked, Grants, Split
    <3>2. Own(j)' => SumOfRows(Recorded(j)) = Due(j)
      BY <1>1, <1>4 DEF Carrying, Books, Under
    <3> QED BY <1>1, <1>3, <1>4, <2>1, <2>2, <3>1, <3>2 DEF Moves, Under, Past
  <2>3. CASE Written(j)' = Written(j) \cup {w} /\ job'[j].pc = "record"
    <3>1. w \notin Written(j)
      BY <1>5, <2>1 DEF OnPaid
    <3>2. IsFiniteSet(Written(j)) /\ Written(j) \in SUBSET Write
      BY FS_Subset, JobTypes DEF Finite, Written
    <3>3. SumOfWrites(Written(j) \cup {w}) = SumOfWrites(Written(j)) + Delta(w)
      BY <1>5, <3>1, <3>2, WritesSum
    <3>4. Signed(j, job[j].part)' = Signed(j, job[j].part)
      BY <1>3, <1>4, <2>3 DEF Signed, SameMove
    <3> QED BY <1>3, <1>4, <1>5, <2>1, <2>3, <3>3, <3>4 DEF Moves, Under, Past
  <2> QED BY <1>6, <2>2, <2>3, JobTypes
<1> QED BY <1>7, <1>8, <1>9, <1>10 DEF Carrying

\* Two rows never share an id unless two requests share a stamp: what a request
\* records is a row of its own.
LEMMA RecordsRow ==
  ASSUME LedgerTypeOK, Finite, NEW j \in Jobs, Records(j), Carrying(j), Own(j)
  PROVE  SumOfRows({h \in history' : h.id[1] = job[j].stamp}) = Due(j) + Signed(j, job[j].part)
<1> DEFINE row == NewRow(j, Suffix(j))
<1>1. /\ row \in HistoryRow /\ row.id = <<job[j].stamp, Suffix(j)>>
      /\ Charge(row) = Signed(j, job[j].part)
  <2>1. Suffix(j) \in {"", "free", "paid"}
    BY JobTypes DEF Suffix
  <2>2. row \in HistoryRow
    BY <2>1 DEF LedgerTypeOK, Job, HistoryRow, NewRow
  <2>3. row.id = <<job[j].stamp, Suffix(j)>> /\ row.amount = job[j].part
        /\ row.kind = IF Grants(j) THEN "grant" ELSE "consume"
    BY DEF NewRow
  <2>4. Charge(row) = Signed(j, job[j].part)
    BY <2>3, JobTypes DEF Charge, Signed
  <2> QED BY <2>2, <2>3, <2>4
<1>2. \A h \in Recorded(j) : Split(j) /\ OnPaid(j) /\ h.id[2] = "free"
  BY DEF Records, Carrying, Books, Under
<1>3. \A h \in history : h.id # row.id
  <2> SUFFICES ASSUME NEW h \in history, h.id = row.id PROVE FALSE
    OBVIOUS
  <2>1. h.id[1] = job[j].stamp /\ h.id[2] = Suffix(j)
    BY <1>1
  <2> HIDE DEF row
  <2>2. h \in Recorded(j)
    BY <2>1 DEF Recorded
  <2> QED BY <1>2, <2>1, <2>2 DEF Suffix, OnPaid
<1>4. row \notin Recorded(j) /\ {h \in history' : h.id[1] = job[j].stamp} = Recorded(j) \cup {row}
  <2>1. history' = history \cup {row}
    BY <1>3 DEF Records, Insert
  <2>2. row.id[1] = job[j].stamp
    BY <1>1
  <2> HIDE DEF row
  <2> QED BY <1>3, <2>1, <2>2 DEF Recorded
<1> HIDE DEF row
<1>5. IsFiniteSet(Recorded(j)) /\ Recorded(j) \in SUBSET HistoryRow
  BY FS_Subset, JobTypes DEF Finite, Recorded
<1>6. SumOfRows(Recorded(j)) = Due(j)
  BY DEF Records, Carrying, Books, Under
<1>7. SumOfRows(Recorded(j) \cup {row}) = SumOfRows(Recorded(j)) + Charge(row)
  BY <1>1, <1>4, <1>5, RowsSum
<1> QED BY <1>1, <1>4, <1>6, <1>7

\* A record adds to the history what the last save moved, and what is left goes on.
LEMMA RecordsCarries ==
  ASSUME LedgerTypeOK, LedgerTypeOK', Finite, NEW j \in Jobs, Journey(j), Records(j),
         Carrying(j)
  PROVE  Carrying(j)'
<1> DEFINE total == Due(j) + Signed(j, job[j].part)
<1>1. /\ Written(j)' = Written(j) /\ (Own(j)' => Own(j))
      /\ Recorded(j)' = {h \in history' : h.id[1] = job[j].stamp}
  BY DEF Records, SameRequest, Written, Recorded, Own, Journey
<1>2. faults' = 0 => faults = 0
  BY DEF Journey, LedgerTypeOK
<1>3. /\ Grants(j)' = Grants(j) /\ Split(j)' = Split(j) /\ Asked(j)' = Asked(j)
  BY SameKind DEF Records, SameRequest, Asked
<1>4. /\ job'[j].amount = job[j].amount /\ job'[j].op = job[j].op /\ job[j].pc = "record"
      /\ job'[j].pc \in {"done", "find"} \cup Past
      /\ job'[j].result # "rejected" \/ job'[j].pc # "done"
  BY DEF Records, SameRequest, Past
<1>5. Own(j)' => SumOfRows(Recorded(j)') = total
  BY <1>1, RecordsRow
<1>6. faults' = 0 => SumOfWrites(Written(j)) = total
  BY <1>2, <1>4 DEF Carrying, Moves
<1>7. /\ job[j].amount \in Int /\ job[j].rest \in Int /\ job[j].part \in Int
      /\ job[j].before \in Int /\ job[j].ent.balance \in Int
      /\ 0 < job[j].part /\ 0 <= job[j].amount
      /\ ~Split(j) => job[j].part = job[j].amount
      /\ Split(j) => /\ ~Grants(j) /\ 0 < job[j].rest /\ job[j].rest <= job[j].amount
                     /\ job[j].part <= job[j].rest
                     /\ job[j].part < job[j].rest => ~OnPaid(j) /\ job[j].ent.balance = 0
                     /\ ~OnPaid(j) => job[j].rest = job[j].amount
                     /\ job[j].ent.balance = job[j].before - job[j].part
  <2>1. Split(j) => ~Grants(j)
    BY DEF Split, Grants
  <2>2. Split(j) => Signed(j, job[j].part) = -job[j].part
    BY <2>1 DEF Signed
  <2> QED BY <1>4, <2>1, <2>2, JobTypes DEF Carrying, Numbers, Under
<1>8. total = IF Split(j) THEN job[j].rest - job[j].amount - job[j].part ELSE Asked(j)
  BY <1>7 DEF Due, Signed, Asked
<1>9. Split(j) => Asked(j) = -job[j].amount
  BY <1>7 DEF Asked
<1> HIDE DEF total
<1>10. CASE job'[j].key = job[j].key /\ job'[j].rest = job[j].rest /\ job'[j].pc # "find"
            /\ (job'[j].pc \in Past \/ job'[j].result = "ok" => total = Asked(j))
            /\ (job'[j].result \notin {"ok", "dbError"} /\ ~Split(j) /\ job'[j].pc = "done" => FALSE)
            /\ (job'[j].result = "dbError" /\ job'[j].pc = "done" => faults' > 0)
  <2>1. OnPaid(j)' = OnPaid(j)
    BY <1>10 DEF OnPaid
  <2>2. Numbers(j)'
    BY <1>3, <1>4, <1>10, <2>1 DEF Carrying, Numbers, Early, Under, Past
  <2>3. Wrote(j)'
    BY <1>1, <1>3, <1>4, <1>10, <2>1 DEF Carrying, Wrote, Early, Past
  <2>4. Books(j)'
    BY <1>1, <1>3, <1>4, <1>5, <1>10 DEF Books, Early, Under, Past
  <2>5. Split(j) => total \in Asked(j)..0
    BY <1>7, <1>8, <1>9
  <2>6. faults' = 0 /\ job'[j].pc = "done" /\ ~Split(j) => total = Asked(j)
    BY <1>8
  <2>7. Moves(j)'
    BY <1>1, <1>3, <1>4, <1>5, <1>6, <1>10, <2>5, <2>6 DEF Moves, Under, Past
  <2> QED BY <2>2, <2>3, <2>4, <2>7 DEF Carrying
<1>11. CASE /\ Split(j) /\ ~OnPaid(j) /\ job[j].rest > job[j].part
            /\ job'[j].pc = "find" /\ job'[j].key[2] = "paid"
            /\ job'[j].rest = job[j].rest - job[j].part
  <2>1. OnPaid(j)' /\ Due(j)' = total
    BY <1>3, <1>4, <1>7, <1>8, <1>11 DEF OnPaid, Due
  <2>2. Numbers(j)'
    BY <1>3, <1>4, <1>7, <1>11, <2>1 DEF Carrying, Numbers, Early, Under
  <2>3. \A w \in Written(j) : w.key[2] = "free"
    <3> SUFFICES ASSUME NEW w \in Written(j) PROVE w.key[2] = "free"
      OBVIOUS
    <3>1. w.key[2] \in {"free", "paid"}
      BY JobTypes, WriteTypes
    <3> QED BY <1>11, <3>1 DEF Carrying, Wrote
  <2>4. \E v \in Written(j) : v.key[2] = "free" /\ v.after = 0 /\ Delta(v) = total
    <3>1. PICK v \in Written(j) :
             v.key = job[j].key /\ v.before = job[j].before /\ v.after = job[j].ent.balance
      BY <1>4 DEF Carrying, Wrote
    <3>2. v.key[2] = "free"
      BY <2>3
    <3>3. v.after = 0 /\ Delta(v) = total
      BY <1>7, <1>8, <1>11, <3>1 DEF Delta
    <3> QED BY <3>2, <3>3
  <2>5. \A w \in Written(j) : IF Grants(j) THEN Delta(w) > 0 ELSE Delta(w) < 0 /\ w.after >= 0
    BY DEF Carrying, Wrote
  <2>6. total = job'[j].rest - job'[j].amount
    BY <1>4, <1>7, <1>8, <1>11
  <2>7. Wrote(j)'
    BY <1>1, <1>3, <1>11, <2>1, <2>3, <2>4, <2>5, <2>6 DEF Wrote, Early
  <2>8. Own(j) => Recorded(j)' \subseteq {NewRow(j, "free")}
    <3>1. Own(j) => Recorded(j) = {}
      BY <1>4, <1>11 DEF Carrying, Books, Under
    <3>2. history' \subseteq history \cup {NewRow(j, "free")}
      <4>1. Suffix(j) = "free"
        BY <1>11, JobTypes DEF Suffix, OnPaid
      <4> QED BY <4>1 DEF Records, Insert
    <3> QED BY <1>1, <3>1, <3>2 DEF Recorded
  <2>9. NewRow(j, "free").id[2] = "free"
    BY DEF NewRow
  <2>10. Books(j)'
    BY <1>1, <1>3, <1>5, <1>11, <2>1, <2>8, <2>9 DEF Books, Early, Under, Past
  <2>11. Moves(j)'
    BY <1>1, <1>3, <1>6, <1>11, <2>1, <2>3 DEF Moves, Under, Past
  <2> QED BY <2>2, <2>7, <2>10, <2>11 DEF Carrying
<1>12. Split(j) /\ job[j].rest <= job[j].part => total = Asked(j)
  BY <1>7, <1>8, <1>9
<1> QED BY <1>8, <1>10, <1>11, <1>12 DEF Records, Past

-----------------------------------------------------------------------------
(* Every journey keeps the invariant of the ledger *)

\* Finitely many rows and writes stay finitely many.
LEMMA FiniteStays ==
  ASSUME Finite, NEW j \in Jobs, Journey(j)
  PROVE  Finite'
<1>1. \A x : IsFiniteSet(writes \cup {x}) /\ IsFiniteSet(history \cup {x})
  BY FS_AddElement DEF Finite
<1> QED BY <1>1, JourneyTables DEF Finite

\* A write and its request stay what they were.
LEMMA WriterStays ==
  ASSUME LedgerTypeOK, NEW j \in Jobs, Journey(j), \A i \in Jobs : Wrote(i), NEW w \in writes
  PROVE  /\ w \in writes' /\ w.by \in Jobs /\ job[w.by].pc \notin Early
         /\ job'[w.by].op = job[w.by].op /\ job'[w.by].stamp = job[w.by].stamp
         /\ job'[w.by].ref = job[w.by].ref /\ job'[w.by].pc \notin Early
         /\ Grants(w.by)' = Grants(w.by)
<1>1. w.by \in Jobs /\ w \in Written(w.by)
  BY DEF LedgerTypeOK, Write, Written
<1>2. job[w.by].pc \notin Early
  BY <1>1 DEF Wrote
<1>3. w \in writes'
  BY JourneyTables
<1>4. /\ job'[w.by].op = job[w.by].op /\ job'[w.by].stamp = job[w.by].stamp
      /\ job'[w.by].ref = job[w.by].ref /\ job'[w.by].pc \notin Early
  <2>1. CASE w.by = j
    BY <1>2, <2>1, KeepsRequest DEF SameRequest
  <2>2. CASE w.by # j
    BY <1>1, <1>2, <2>2 DEF Journey
  <2> QED BY <2>1, <2>2
<1> QED BY <1>1, <1>2, <1>3, <1>4 DEF Grants

\* A row that is inserted describes the write its request just made; the others
\* still have theirs.
LEMMA BackedStays ==
  ASSUME LedgerTypeOK, Backed, NEW j \in Jobs, Journey(j), \A i \in Jobs : Wrote(i),
         Numbers(j)
  PROVE  Backed'
<1> SUFFICES ASSUME NEW h \in history'
             PROVE  \E w \in writes' :
                      /\ job'[w.by].stamp = h.id[1] /\ w.key = h.key
                      /\ w.before = h.before /\ w.after = h.after
                      /\ Delta(w) = Charge(h)
                      /\ job'[w.by].ref = h.ref /\ (h.kind = "grant" <=> Grants(w.by)')
  BY DEF Backed
<1>1. CASE h \in history
  <2>1. PICK w \in writes :
          /\ job[w.by].stamp = h.id[1] /\ w.key = h.key
          /\ w.before = h.before /\ w.after = h.after
          /\ Delta(w) = Charge(h)
          /\ job[w.by].ref = h.ref /\ (h.kind = "grant" <=> Grants(w.by))
    BY <1>1 DEF Backed
  <2> QED BY <2>1, WriterStays
<1>2. CASE job[j].pc = "record" /\ h = NewRow(j, Suffix(j))
  <2>1. PICK w \in Written(j) :
          w.key = job[j].key /\ w.before = job[j].before /\ w.after = job[j].ent.balance
    BY <1>2 DEF Wrote
  <2>2. w \in writes /\ w.by = j
    BY DEF Written
  <2>3. /\ h.id[1] = job[j].stamp /\ h.key = job[j].key /\ h.before = job[j].before
        /\ h.after = job[j].ent.balance /\ h.ref = job[j].ref /\ h.amount = job[j].part
        /\ h.kind = IF Grants(j) THEN "grant" ELSE "consume"
    BY <1>2 DEF NewRow
  <2>4. Delta(w) = Charge(h)
    <3>1. /\ job[j].before \in Int /\ job[j].part \in Int
          /\ job[j].ent.balance = job[j].before + Signed(j, job[j].part)
      BY <1>2, JobTypes DEF Numbers
    <3> QED BY <2>1, <2>3, <3>1 DEF Delta, Charge, Signed
  <2>5. h.kind = "grant" <=> Grants(j)
    BY <2>3
  <2> QED BY <2>1, <2>2, <2>3, <2>4, <2>5, WriterStays
<1> QED BY <1>1, <1>2, JourneyTables

\* A journey of any request keeps the invariant.
LEMMA JourneyTours ==
  ASSUME LedgerTypeOK, LedgerTypeOK', Tours, NEW j \in Jobs, Journey(j)
  PROVE  Tours'
<1>1. Finite /\ Backed /\ Carrying(j) /\ \A i \in Jobs : Wrote(i)
  BY DEF Tours, Carrying
<1>2. Finite' /\ Backed'
  BY <1>1, FiniteStays, BackedStays DEF Carrying
<1>3. Carrying(j)'
  BY <1>1, BeginsCarries, LooksCarries, AnswersCarries, GoesCarries, SkipsCarries,
     TakesCarries, SavesCarries, RecordsCarries DEF Journey
<1>4. ASSUME NEW i \in Jobs, i # j PROVE Carrying(i)'
  BY <1>4, Bystander DEF Tours, Carrying
<1>5. job[j].pc # "done"
  BY DEF Journey, Begins, Looks, Answers, Goes, Skips, Takes, SavesOrNot, Records, Early, Under, Past
<1>6. Unanswered'
  BY <1>5 DEF Tours, Unanswered, Journey
<1>7. Stamped'
  <2>1. job'[j].stamp \in Stamps(j)
    BY NeverIdleAgain DEF Tours, Stamped, Journey, Begins, Looks, Answers, Goes, Skips, Takes,
       SavesOrNot, Records, SamePlan, SameRequest
  <2> QED BY <2>1 DEF Tours, Stamped, Journey, Stamps
<1> QED BY <1>2, <1>3, <1>4, <1>6, <1>7 DEF Tours

\* So does everything that leaves requests, writes and history alone.
LEMMA RestTours ==
  ASSUME Tours, UNCHANGED <<history, job, faults, writes>>
  PROVE  Tours'
<1>1. Finite' /\ Backed'
  BY DEF Tours, Finite, Backed, Grants
<1>3. Unanswered' /\ Stamped'
  BY DEF Tours, Unanswered, Stamped, Stamps
<1>2. ASSUME NEW j \in Jobs PROVE Carrying(j)'
  <2>1. Written(j)' = Written(j) /\ Recorded(j)' = Recorded(j) /\ Own(j)' = Own(j)
    BY DEF Written, Recorded, Own
  <2>2. Carrying(j)
    BY DEF Tours
  <2> QED BY <2>1, <2>2 DEF Carrying, Numbers, Wrote, Books, Moves, Grants, Split, OnPaid, Due,
                            Asked, Signed
<1> QED BY <1>1, <1>2, <1>3 DEF Tours

\* It holds before any request has begun.
LEMMA InitTours == LedgerInit => Tours
<1> SUFFICES ASSUME LedgerInit PROVE Tours
  OBVIOUS
<1>1. Finite /\ Backed
  BY FS_EmptySet DEF LedgerInit, Finite, Backed
<1>2. ASSUME NEW j \in Jobs PROVE Carrying(j)
  <2>1. /\ job[j].pc = "idle" /\ job[j].amount = 0 /\ job[j].rest = 0 /\ job[j].attempt = 0
        /\ job[j].op = "none" /\ Written(j) = {}
    BY DEF LedgerInit, IdleJob, Written
  <2> QED BY <2>1 DEF Carrying, Numbers, Wrote, Books, Moves, Early, Under, Past, Split
<1>3. Unanswered /\ Stamped
  BY DEF LedgerInit, IdleJob, Unanswered, Stamped, Stamps
<1> QED BY <1>1, <1>2, <1>3 DEF Tours

-----------------------------------------------------------------------------

\* And it shows what the ledger promises: rows backed by writes, nothing overdrawn,
\* free currency first, successes accounted for and retries that apply once.
LEMMA ToursShow ==
  ASSUME LedgerTypeOK, Tours
  PROVE  /\ HistoryIsBacked /\ ConsumeNeverOverdraws /\ FreeBeforePaid
         /\ SuccessIsAccounted /\ RetriesApplyOnce
<1>1. HistoryIsBacked
  BY DEF Tours, Backed, HistoryIsBacked
<1>2. \A w \in writes : w.by \in Jobs /\ w \in Written(w.by) /\ Wrote(w.by) /\ w \in Write
  BY DEF LedgerTypeOK, Write, Written, Tours, Carrying
<1>3. ConsumeNeverOverdraws
  BY <1>2 DEF Wrote, ConsumeNeverOverdraws
<1>4. FreeBeforePaid
  <2> SUFFICES ASSUME NEW w \in writes, Split(w.by), w.key[2] = "paid"
               PROVE  \/ /\ -Delta(w) = job[w.by].amount
                         /\ \A v \in Written(w.by) : v.key[2] = "paid"
                      \/ \E v \in Written(w.by) :
                            v.key[2] = "free" /\ v.after = 0 /\ Delta(v) + Delta(w) = Asked(w.by)
    BY DEF FreeBeforePaid, Split
  <2> DEFINE j == w.by
  <2>1. OnPaid(j) /\ -Delta(w) = job[j].rest
    BY <1>2 DEF Wrote
  <2>2. Asked(j) = -job[j].amount
    BY DEF Asked, Split, Grants
  <2>3. j \in Jobs /\ job[j].rest \in Int /\ job[j].amount \in Int /\ Delta(w) \in Int
    BY <1>2, JobTypes, WriteTypes
  <2>4. CASE job[j].rest = job[j].amount /\ \A v \in Written(j) : v.key[2] = "paid"
    BY <2>1, <2>4
  <2>5. CASE \E v \in Written(j) :
               v.key[2] = "free" /\ v.after = 0 /\ Delta(v) = job[j].rest - job[j].amount
    <3>1. PICK v \in Written(j) :
               v.key[2] = "free" /\ v.after = 0 /\ Delta(v) = job[j].rest - job[j].amount
      BY <2>5
    <3>2. Delta(v) + Delta(w) = Asked(j)
      BY <2>1, <2>2, <2>3, <3>1
    <3> QED BY <3>1, <3>2
  <2> QED BY <1>2, <2>1, <2>4, <2>5 DEF Wrote
<1>5. ASSUME NEW j \in Jobs, OwnStamp(j) PROVE Own(j)
  BY <1>5 DEF OwnStamp, Own
<1>6. SuccessIsAccounted
  <2> SUFFICES ASSUME NEW j \in Jobs, job[j].result = "ok", OwnStamp(j),
                      job[j].op = "payment" => Written(j) # {}
               PROVE  SumOfRows(Recorded(j)) = Asked(j)
    BY DEF SuccessIsAccounted
  <2>1. job[j].pc = "done"
    BY DEF Tours, Unanswered
  <2> QED BY <1>5, <2>1 DEF Tours, Carrying, Books
<1>7. RetriesApplyOnce
  <2> SUFFICES ASSUME faults = 0, NEW j \in Jobs
               PROVE  LET moved == SumOfWrites(Written(j))
                      IN  /\ IF Grants(j) THEN moved \in 0..Asked(j) ELSE moved \in Asked(j)..0
                          /\ job[j].pc = "done" /\ job[j].meta /\ OwnStamp(j) => SumOfRows(Recorded(j)) = moved
    BY DEF RetriesApplyOnce
  <2> DEFINE moved == SumOfWrites(Written(j))
             Fits == /\ IF Grants(j) THEN moved \in 0..Asked(j) ELSE moved \in Asked(j)..0
                     /\ job[j].pc = "done" /\ job[j].meta /\ OwnStamp(j)
                        => SumOfRows(Recorded(j)) = moved
  <2>1. Numbers(j) /\ Wrote(j) /\ Moves(j)
    BY DEF Tours, Carrying
  <2>2. /\ job[j].amount \in Int /\ job[j].rest \in Int /\ job[j].part \in Int
        /\ job[j].amount >= 0 /\ job[j].pc \in Early \cup Under \cup Past \cup {"done"}
    BY <2>1, JobTypes DEF Numbers, Early, Under, Past, Pcs
  <2>3. ASSUME job[j].pc \in Early PROVE Fits
    <3>1. moved = 0
      BY <2>1, <2>3, WritesSum DEF Wrote
    <3>2. job[j].pc # "done"
      BY <2>3 DEF Early
    <3> HIDE DEF moved
    <3> QED BY <2>2, <3>1, <3>2 DEF Asked
  <2>4. ASSUME job[j].pc \in Under PROVE Fits
    <3>1. /\ Split(j) => /\ ~Grants(j) /\ 0 < job[j].rest /\ job[j].rest <= job[j].amount
                         /\ job[j].pc = "record" => 0 < job[j].part /\ job[j].part <= job[j].rest
          /\ ~Split(j) /\ job[j].pc = "record" => job[j].part = job[j].amount
      BY <2>1, <2>4 DEF Numbers, Split, Grants
    <3>2. CASE job[j].pc = "record"
      <4>1. moved = Due(j) + Signed(j, job[j].part)
        BY <2>1, <3>2 DEF Moves
      <4> QED BY <2>2, <3>1, <3>2, <4>1 DEF Due, Signed, Asked
    <3>3. CASE job[j].pc # "record"
      <4>1. moved = Due(j)
        BY <2>1, <2>4, <3>3 DEF Moves
      <4>2. job[j].pc # "done"
        BY <2>4 DEF Under
      <4> QED BY <2>2, <3>1, <4>1, <4>2 DEF Due, Asked
    <3> QED BY <3>2, <3>3
  <2>5. ASSUME job[j].pc \in Past PROVE Fits
    <3>1. moved = Asked(j) /\ job[j].pc # "done"
      BY <2>1, <2>5 DEF Moves, Past
    <3> QED BY <2>2, <3>1 DEF Asked
  <2>6. ASSUME job[j].pc = "done" PROVE Fits
    <3>1. /\ IF Split(j) THEN moved \in Asked(j)..0 ELSE moved \in {0, Asked(j)}
          /\ job[j].meta /\ OwnStamp(j) => SumOfRows(Recorded(j)) = moved
      BY <1>5, <2>1, <2>6 DEF Moves
    <3>2. Split(j) => ~Grants(j)
      BY DEF Split, Grants
    <3>3. Asked(j) = IF Grants(j) THEN job[j].amount ELSE -job[j].amount
      BY DEF Asked
    <3> HIDE DEF moved
    <3>4. CASE Grants(j)
      <4>1. moved \in {0, Asked(j)}
        BY <3>1, <3>2, <3>4
      <4>2. moved \in 0..Asked(j)
        BY <4>1, <3>3, <3>4, <2>2
      <4> QED BY <3>1, <3>4, <4>2
    <3>5. CASE ~Grants(j)
      <4>1. moved \in {0, Asked(j)} \/ moved \in Asked(j)..0
        BY <3>1, <3>5
      <4>2. moved \in Asked(j)..0
        BY <4>1, <3>3, <3>5, <2>2
      <4> QED BY <3>1, <3>5, <4>2
    <3> QED BY <3>4, <3>5
  <2> QED BY <2>2, <2>3, <2>4, <2>5, <2>6
<1> QED BY <1>1, <1>3, <1>4, <1>6, <1>7

\* Unless clock readings repeat, each request has a stamp of its own.
LEMMA StampsApart ==
  ASSUME ~ClockRepeats, Stamped
  PROVE  \A j \in Jobs : job[j].stamp = j /\ Own(j) /\ OwnStamp(j)
BY DEF Stamped, Stamps, Own, OwnStamp

-----------------------------------------------------------------------------
(* The helpers of the use cases, as steps of a journey *)

\* An answer changes nothing else of the request.
LEMMA FinishLeaves ==
  ASSUME job \in [Jobs -> Job], NEW j \in Jobs, NEW res, Finish(j, res)
  PROVE  /\ \A i \in Jobs \ {j} : job'[i] = job[i]
         /\ SamePlan(j) /\ SameMove(j) /\ job'[j].attempt = job[j].attempt
         /\ job'[j].pc = "done" /\ job'[j].result = res
BY DEF Finish, Job, SamePlan, SameRequest, SameMove

\* Nor does going on to another place.
LEMMA GotoLeaves ==
  ASSUME job \in [Jobs -> Job], NEW j \in Jobs, NEW pc, Goto(j, pc)
  PROVE  /\ \A i \in Jobs \ {j} : job'[i] = job[i]
         /\ SamePlan(j) /\ SameMove(j) /\ job'[j].attempt = job[j].attempt
         /\ job'[j].pc = pc /\ job'[j].result = job[j].result
BY DEF Goto, Job, SamePlan, SameRequest, SameMove

\* Going on to paid currency changes the key and what is left.
LEMMA ToPaidLeaves ==
  ASSUME job \in [Jobs -> Job], NEW j \in Jobs, NEW rest, ToPaid(j, rest)
  PROVE  /\ \A i \in Jobs \ {j} : job'[i] = job[i]
         /\ SameRequest(j) /\ job'[j].pc = "find" /\ job'[j].key = Typed(j, "paid")
         /\ job'[j].rest = rest /\ job'[j].result = job[j].result
BY DEF ToPaid, Job, SameRequest

\* A refused save starts another attempt or ends in a conflict.
LEMMA SaveRefusedLeaves ==
  ASSUME job \in [Jobs -> Job], NEW j \in Jobs, SaveRefused(j)
  PROVE  /\ \A i \in Jobs \ {j} : job'[i] = job[i]
         /\ SamePlan(j)
         /\ \/ /\ job'[j].pc = "find" /\ job'[j].attempt = job[j].attempt + 1
               /\ job'[j].result = job[j].result
            \/ job'[j].pc = "done" /\ job'[j].result = "conflict"
BY DEF SaveRefused, Finish, Job, SamePlan, SameRequest

\* A grant in memory is rejected, or adds the amount to the balance read.
LEMMA GrantLeaves ==
  ASSUME job \in [Jobs -> Job], NEW j \in Jobs, NEW c \in Row, NEW a \in Int, Grant(j, c, a)
  PROVE  /\ \A i \in Jobs \ {j} : job'[i] = job[i]
         /\ SamePlan(j) /\ job'[j].attempt = job[j].attempt
         /\ \/ job'[j].pc = "done" /\ job'[j].result = "rejected"
            \/ /\ job'[j].pc = "save" /\ job'[j].part = a /\ a > 0
               /\ job'[j].before = c.balance /\ job'[j].ent.balance = c.balance + a
               /\ job'[j].result = job[j].result
<1>1. CASE GrantRejects(c, a)
  BY <1>1, FinishLeaves DEF Grant
<1>2. CASE ~GrantRejects(c, a)
  <2>1. job' = [job EXCEPT ![j].pc = "save", ![j].part = a,
                           ![j].before = c.balance, ![j].ent = Moved(c, a)]
    BY <1>2 DEF Grant
  <2>2. Moved(c, a).balance = c.balance + a
    BY DEF Moved
  <2>3. a > 0
    BY <1>2 DEF GrantRejects
  <2> QED BY <2>1, <2>2, <2>3 DEF Job, SamePlan, SameRequest
<1> QED BY <1>1, <1>2

\* A consumption in memory is rejected, or takes an amount the balance read covers.
LEMMA ConsumeLeaves ==
  ASSUME job \in [Jobs -> Job], NEW j \in Jobs, NEW c \in Row, NEW a \in Int, Consume(j, c, a)
  PROVE  /\ \A i \in Jobs \ {j} : job'[i] = job[i]
         /\ SamePlan(j) /\ job'[j].attempt = job[j].attempt
         /\ \/ job'[j].pc = "done" /\ job'[j].result = "rejected"
            \/ /\ job'[j].pc = "save" /\ job'[j].part = a /\ a > 0 /\ a <= c.balance
               /\ job'[j].before = c.balance /\ job'[j].ent.balance = c.balance - a
               /\ job'[j].result = job[j].result
<1>1. CASE ConsumeRejects(c, a)
  BY <1>1, FinishLeaves DEF Consume
<1>2. CASE ~ConsumeRejects(c, a)
  <2>1. job' = [job EXCEPT ![j].pc = "save", ![j].part = a,
                           ![j].before = c.balance, ![j].ent = Moved(c, -a)]
    BY <1>2 DEF Consume
  <2>2. Moved(c, -a).balance = c.balance - a
    BY DEF Moved, Row
  <2>3. a > 0 /\ a <= c.balance
    BY <1>2 DEF ConsumeRejects, Row
  <2> QED BY <2>1, <2>2, <2>3 DEF Job, SamePlan, SameRequest
<1> QED BY <1>1, <1>2

\* A request begins with what it asks for.
LEMMA BeginLeaves ==
  ASSUME job \in [Jobs -> Job], NEW j \in Jobs, NEW op, NEW pc, NEW k, NEW a, NEW m, NEW ref,
         Begin(j, op, pc, k, a, m, ref)
  PROVE  /\ \A i \in Jobs \ {j} : job'[i] = job[i]
         /\ job[j].pc = "idle" /\ job'[j].op = op /\ job'[j].pc = pc /\ job'[j].key = k
         /\ job'[j].amount = a /\ job'[j].rest = a /\ job'[j].attempt = 0
         /\ job'[j].result = "none" /\ job'[j].ref = ref
         /\ job'[j].meta = m /\ job'[j].stamp \in Stamps(j)
BY DEF Begin, IdleJob, Job

\* A request that is refused keeps what it was.
LEMMA RefuseLeaves ==
  ASSUME job \in [Jobs -> Job], NEW j \in Jobs, NEW op, Refuse(j, op)
  PROVE  /\ \A i \in Jobs \ {j} : job'[i] = job[i]
         /\ job[j].pc = "idle" /\ job'[j].op = op /\ job'[j].pc = "done"
         /\ job'[j].amount = job[j].amount /\ job'[j].rest = job[j].rest
         /\ job'[j].attempt = job[j].attempt /\ job'[j].result = "rejected"
         /\ job'[j].ref = job[j].ref /\ job'[j].stamp = job[j].stamp
BY DEF Refuse, Job

\* Broken statements are counted.
LEMMA FaultsGrow ==
  ASSUME LedgerTypeOK
  PROVE  /\ Answered => faults' >= faults
         /\ Broken => faults' >= faults /\ faults' > 0
BY LedgerAssumption DEF LedgerTypeOK, Answered, Broken

-----------------------------------------------------------------------------

\* Beginning is a step of a journey.
LEMMA BeginJourney ==
  ASSUME LedgerTypeOK, NEW j \in Jobs, NEW op, NEW pc, NEW k, NEW a \in Int, NEW m, NEW ref,
         Begin(j, op, pc, k, a, m, ref), UNCHANGED store, a >= 0,
         pc \in (Early \ {"idle"}) \cup {"find"}, op = "delete" => a = 0,
         op \in {"priority", "payment"} => a > 0 /\ k[2] = "free"
  PROVE  Journey(j)
<1>1. /\ \A i \in Jobs \ {j} : job'[i] = job[i]
      /\ job[j].pc = "idle" /\ job'[j].op = op /\ job'[j].pc = pc /\ job'[j].key = k
      /\ job'[j].amount = a /\ job'[j].rest = a /\ job'[j].attempt = 0
      /\ job'[j].result = "none" /\ job'[j].stamp \in Stamps(j)
  BY BeginLeaves DEF LedgerTypeOK
<1>2. Still /\ faults' >= faults
  BY DEF store, Still, LedgerTypeOK
<1>3. Begins(j)
  BY <1>1, <1>2 DEF Begins
<1> QED BY <1>1, <1>2, <1>3 DEF Journey

\* So is refusing to begin.
LEMMA RefuseJourney ==
  ASSUME LedgerTypeOK, NEW j \in Jobs, NEW op, Refuse(j, op), UNCHANGED store, Numbers(j)
  PROVE  Journey(j)
<1>1. /\ \A i \in Jobs \ {j} : job'[i] = job[i]
      /\ job[j].pc = "idle" /\ job'[j].op = op /\ job'[j].pc = "done"
      /\ job'[j].amount = job[j].amount /\ job'[j].rest = job[j].rest
      /\ job'[j].attempt = job[j].attempt /\ job'[j].result = "rejected"
      /\ job'[j].stamp = job[j].stamp
  BY RefuseLeaves DEF LedgerTypeOK
<1>2. Still /\ faults' >= faults
  BY DEF store, Still, LedgerTypeOK
<1>3. job[j].attempt = 0
  BY <1>1 DEF Numbers, Early
<1>4. Begins(j)
  BY <1>1, <1>2, <1>3 DEF Begins
<1> QED BY <1>1, <1>2, <1>4 DEF Journey

\* So is a statement that breaks at any place.
LEMMA FailsJourney ==
  ASSUME LedgerTypeOK, NEW j \in Jobs, StatementFails(j), Numbers(j),
         job[j].pc \in (Early \ {"idle"}) \cup Under \cup Past
  PROVE  Journey(j)
<1>1. /\ \A i \in Jobs \ {j} : job'[i] = job[i]
      /\ SamePlan(j) /\ job'[j].attempt = job[j].attempt
      /\ job'[j].pc = "done" /\ job'[j].result = "dbError"
  BY FinishLeaves DEF StatementFails, LedgerTypeOK
<1>2. Still /\ faults' >= faults /\ faults' > 0
  BY FaultsGrow DEF StatementFails, Still
<1>3. CASE job[j].pc \in Early \ {"idle"}
  <2>1. Looks(j)
    BY <1>1, <1>2, <1>3 DEF Looks, SamePlan, SameRequest, Numbers
  <2> QED BY <1>1, <1>2, <2>1 DEF Journey
<1>4. CASE job[j].pc \in Under \cup Past
  <2>1. Answers(j)
    BY <1>1, <1>2, <1>4 DEF Answers
  <2> QED BY <1>1, <1>2, <2>1 DEF Journey
<1> QED BY <1>3, <1>4

\* So is any answer to a statement before the first balance is read.
LEMMA LookedJourney ==
  ASSUME LedgerTypeOK, NEW j \in Jobs, NEW pc, Still, faults' >= faults, Numbers(j),
         job[j].pc \in Early \ {"idle"},
         \/ /\ Goto(j, pc) /\ pc \in (Early \ {"idle", "checkPaid"}) \cup {"find"}
            /\ job[j].pc # "checkPaid"
         \/ Finish(j, "rejected") \/ Finish(j, "dbError")
         \/ Finish(j, "ok") /\ (job[j].op = "payment" \/ job[j].op = "delete")
  PROVE  Journey(j)
<1>1. job[j].amount >= 0
  BY DEF Numbers
<1>2. CASE Goto(j, pc) /\ pc \in (Early \ {"idle", "checkPaid"}) \cup {"find"} /\ job[j].pc # "checkPaid"
  <2>1. /\ \A i \in Jobs \ {j} : job'[i] = job[i]
        /\ SamePlan(j) /\ job'[j].attempt = job[j].attempt
        /\ job'[j].pc = pc /\ job'[j].result = job[j].result
    BY <1>2, GotoLeaves DEF LedgerTypeOK
  <2>2. Looks(j)
    BY <1>1, <1>2, <2>1 DEF Looks, SamePlan, SameRequest
  <2> QED BY <2>1, <2>2 DEF Journey
<1>3. ASSUME NEW res \in {"rejected", "dbError", "ok"}, Finish(j, res),
             res = "ok" => job[j].op = "payment" \/ job[j].op = "delete"
      PROVE  Journey(j)
  <2>1. /\ \A i \in Jobs \ {j} : job'[i] = job[i]
        /\ SamePlan(j) /\ job'[j].attempt = job[j].attempt
        /\ job'[j].pc = "done" /\ job'[j].result = res
    BY <1>3, FinishLeaves DEF LedgerTypeOK
  <2>2. Looks(j)
    BY <1>1, <1>3, <2>1 DEF Looks, SamePlan, SameRequest
  <2> QED BY <2>1, <2>2 DEF Journey
<1> QED BY <1>2, <1>3

\* So is an answer that writes no balance and no row.
LEMMA AnswersJourney ==
  ASSUME LedgerTypeOK, NEW j \in Jobs, Still, faults' >= faults,
         \/ Finish(j, "rejected") /\ job[j].pc \in {"find", "create", "fail"}
         \/ Finish(j, "ok") /\ job[j].pc \in Past
         \/ Finish(j, "dbError") /\ job[j].pc \in (Under \ {"record"}) \cup Past
  PROVE  Journey(j)
<1>1. PICK res \in {"rejected", "ok", "dbError"} :
        /\ Finish(j, res)
        /\ res = "rejected" => job[j].pc \in {"find", "create", "fail"}
        /\ res = "ok" => job[j].pc \in Past
        /\ res = "dbError" => job[j].pc \in (Under \ {"record"}) \cup Past
  OBVIOUS
<1>2. /\ \A i \in Jobs \ {j} : job'[i] = job[i]
      /\ SamePlan(j) /\ job'[j].pc = "done" /\ job'[j].result = res
  BY <1>1, FinishLeaves DEF LedgerTypeOK
<1>3. job[j].pc \in (Under \ {"record"}) \cup Past
  BY <1>1 DEF Under, Past
<1>4. Answers(j)
  BY <1>1, <1>2, <1>3 DEF Answers, Past
<1> QED BY <1>2, <1>4 DEF Journey

\* So is going on to create a row, or to mark a payment as failed.
LEMMA GoesJourney ==
  ASSUME LedgerTypeOK, NEW j \in Jobs, Still, faults' >= faults,
         job[j].pc = "find", Goto(j, "create") \/ Goto(j, "fail")
  PROVE  Journey(j)
<1>1. /\ \A i \in Jobs \ {j} : job'[i] = job[i]
      /\ SamePlan(j) /\ job'[j].attempt = job[j].attempt
      /\ job'[j].pc \in {"create", "fail"} /\ job'[j].result = job[j].result
  BY GotoLeaves DEF LedgerTypeOK
<1>2. Goes(j)
  BY <1>1 DEF Goes
<1> QED BY <1>1, <1>2 DEF Journey

\* So is skipping free currency of which there is none.
LEMMA SkipsJourney ==
  ASSUME LedgerTypeOK, NEW j \in Jobs, Still, faults' >= faults, ToPaid(j, job[j].rest),
         job[j].pc = "find", Split(j), ~OnPaid(j), job[j].attempt = 0
  PROVE  Journey(j)
<1>1. /\ \A i \in Jobs \ {j} : job'[i] = job[i]
      /\ SameRequest(j) /\ job'[j].pc = "find" /\ job'[j].key = Typed(j, "paid")
      /\ job'[j].rest = job[j].rest /\ job'[j].result = job[j].result
  BY ToPaidLeaves DEF LedgerTypeOK
<1>2. Skips(j)
  BY <1>1 DEF Skips, Typed
<1> QED BY <1>1, <1>2 DEF Journey

\* So is granting in memory.
LEMMA GrantJourney ==
  ASSUME LedgerTypeOK, NEW j \in Jobs, NEW c \in Row, Grant(j, c, job[j].amount), Still,
         faults' >= faults, job[j].pc \in {"find", "create"}, Grants(j)
  PROVE  Journey(j)
<1>1. /\ \A i \in Jobs \ {j} : job'[i] = job[i]
      /\ SamePlan(j) /\ job'[j].attempt = job[j].attempt
      /\ \/ job'[j].pc = "done" /\ job'[j].result = "rejected"
         \/ /\ job'[j].pc = "save" /\ job'[j].part = job[j].amount /\ job[j].amount > 0
            /\ job'[j].before = c.balance /\ job'[j].ent.balance = c.balance + job[j].amount
            /\ job'[j].result = job[j].result
  BY GrantLeaves, JobTypes DEF LedgerTypeOK
<1>2. ~Split(j)
  BY DEF Split, Grants
<1>3. CASE job'[j].pc = "done" /\ job'[j].result = "rejected"
  <2>1. Answers(j)
    BY <1>1, <1>3 DEF Answers, Under
  <2> QED BY <1>1, <2>1 DEF Journey
<1>4. CASE /\ job'[j].pc = "save" /\ job'[j].part = job[j].amount /\ job[j].amount > 0
           /\ job'[j].before = c.balance /\ job'[j].ent.balance = c.balance + job[j].amount
           /\ job'[j].result = job[j].result
  <2>1. Takes(j)
    BY <1>1, <1>2, <1>4 DEF Takes, Signed, SamePlan, SameRequest
  <2> QED BY <1>1, <1>4, <2>1 DEF Journey
<1> QED BY <1>1, <1>3, <1>4

\* So is consuming in memory.
LEMMA ConsumeJourney ==
  ASSUME LedgerTypeOK, NEW j \in Jobs, NEW c \in Row, NEW a \in Int, Consume(j, c, a), Still,
         faults' >= faults, job[j].pc = "find", ~Grants(j),
         ~Split(j) => a = job[j].amount,
         Split(j) => a <= job[j].rest /\ (a < job[j].rest => ~OnPaid(j) /\ a = c.balance)
  PROVE  Journey(j)
<1>1. /\ \A i \in Jobs \ {j} : job'[i] = job[i]
      /\ SamePlan(j) /\ job'[j].attempt = job[j].attempt
      /\ \/ job'[j].pc = "done" /\ job'[j].result = "rejected"
         \/ /\ job'[j].pc = "save" /\ job'[j].part = a /\ a > 0 /\ a <= c.balance
            /\ job'[j].before = c.balance /\ job'[j].ent.balance = c.balance - a
            /\ job'[j].result = job[j].result
  BY ConsumeLeaves DEF LedgerTypeOK
<1>3. CASE job'[j].pc = "done" /\ job'[j].result = "rejected"
  <2>1. Answers(j)
    BY <1>1, <1>3 DEF Answers, Under
  <2> QED BY <1>1, <2>1 DEF Journey
<1>4. CASE /\ job'[j].pc = "save" /\ job'[j].part = a /\ a > 0 /\ a <= c.balance
           /\ job'[j].before = c.balance /\ job'[j].ent.balance = c.balance - a
           /\ job'[j].result = job[j].result
  <2>1. c.balance \in Int /\ job[j].rest \in Int /\ job[j].amount \in Int
    BY JobTypes DEF Row
  <2>2. /\ job'[j].ent.balance >= 0
        /\ job'[j].ent.balance = job'[j].before + Signed(j, job'[j].part)
    BY <1>4, <2>1 DEF Signed
  <2>3. Takes(j)
    BY <1>1, <1>4, <2>1, <2>2 DEF Takes, SamePlan, SameRequest
  <2> QED BY <1>1, <1>4, <2>3 DEF Journey
<1> QED BY <1>1, <1>3, <1>4

\* So is a save, written or refused or broken.
LEMMA SaveJourney ==
  ASSUME LedgerTypeOK, NEW j \in Jobs, TrySave(j), job[j].pc = "save"
  PROVE  Journey(j)
<1>1. faults' >= faults /\ UNCHANGED history
  BY FaultsGrow DEF TrySave
<1>2. SaveRow(j) => writes' = writes \cup {NewWrite(j)}
  BY DEF SaveRow, NewWrite
<1>3. CASE SaveRow(j) /\ Goto(j, "record")
  <2>1. /\ \A i \in Jobs \ {j} : job'[i] = job[i]
        /\ SamePlan(j) /\ SameMove(j) /\ job'[j].pc = "record" /\ job'[j].result = job[j].result
    BY <1>3, GotoLeaves DEF LedgerTypeOK
  <2>2. SavesOrNot(j)
    BY <1>1, <1>2, <1>3, <2>1 DEF SavesOrNot
  <2> QED BY <1>1, <2>1, <2>2 DEF Journey
<1>4. CASE SaveRefused(j) /\ (UNCHANGED writes \/ (Broken /\ SaveRow(j)))
  <2>1. /\ \A i \in Jobs \ {j} : job'[i] = job[i]
        /\ SamePlan(j)
        /\ \/ /\ job'[j].pc = "find" /\ job'[j].attempt = job[j].attempt + 1
              /\ job'[j].result = job[j].result
           \/ job'[j].pc = "done" /\ job'[j].result = "conflict"
    BY <1>4, SaveRefusedLeaves DEF LedgerTypeOK
  <2>2. UNCHANGED writes \/ (faults' > 0 /\ writes' = writes \cup {NewWrite(j)})
    BY <1>2, <1>4, FaultsGrow
  <2>3. SavesOrNot(j)
    BY <1>1, <2>1, <2>2 DEF SavesOrNot
  <2> QED BY <1>1, <2>1, <2>3 DEF Journey
<1> QED BY <1>3, <1>4 DEF TrySave

\* A record inserts the row that describes the change under way.
LEMMA RecordInserts ==
  ASSUME NEW j \in Jobs, Record(j, Suffix(j), IF Grants(j) THEN "grant" ELSE "consume")
  PROVE  job[j].meta /\ UNCHANGED writes /\ Insert(NewRow(j, Suffix(j)))
BY DEF Record, NewRow

\* A record that fails, or breaks after it was inserted, is a step of a journey.
LEMMA RecordFailsJourney ==
  ASSUME LedgerTypeOK, NEW j \in Jobs,
         RecordFails(j, Suffix(j), IF Grants(j) THEN "grant" ELSE "consume"), job[j].pc = "record"
  PROVE  Journey(j)
<1>1. /\ \A i \in Jobs \ {j} : job'[i] = job[i]
      /\ SamePlan(j) /\ job'[j].pc = "done" /\ job'[j].result = "dbError"
  BY FinishLeaves DEF LedgerTypeOK, RecordFails
<1>2. CASE Broken /\ Record(j, Suffix(j), IF Grants(j) THEN "grant" ELSE "consume")
  <2>1. Records(j)
    BY <1>1, <1>2, RecordInserts, FaultsGrow DEF Records, SamePlan
  <2> QED BY <1>1, <1>2, <2>1, FaultsGrow DEF Journey
<1>3. CASE (Broken \/ (~job[j].meta /\ Answered)) /\ UNCHANGED <<history, writes>>
  <2>1. Answers(j)
    BY <1>1, <1>3, FaultsGrow DEF Answers, Still, Under
  <2> QED BY <1>1, <1>3, <2>1, FaultsGrow DEF Journey
<1> QED BY <1>2, <1>3 DEF RecordFails

\* So is a record after which the request ends or goes on.
LEMMA RecordsJourney ==
  ASSUME LedgerTypeOK, NEW j \in Jobs, NEW pc, Answered, job[j].pc = "record",
         Record(j, Suffix(j), IF Grants(j) THEN "grant" ELSE "consume"),
         \/ Finish(j, "conflict") /\ Split(j)
         \/ /\ Finish(j, "ok") \/ (Goto(j, pc) /\ pc \in Past)
            /\ Split(j) => job[j].rest <= job[j].part
         \/ /\ ToPaid(j, job[j].rest - job[j].part) /\ Split(j) /\ ~OnPaid(j)
            /\ job[j].rest > job[j].part
  PROVE  Journey(j)
<1>1. /\ job[j].meta /\ UNCHANGED writes /\ Insert(NewRow(j, Suffix(j)))
      /\ faults' >= faults
  BY RecordInserts, FaultsGrow
<1>2. CASE Finish(j, "conflict") /\ Split(j)
  <2>1. /\ \A i \in Jobs \ {j} : job'[i] = job[i]
        /\ SamePlan(j) /\ job'[j].pc = "done" /\ job'[j].result = "conflict"
    BY <1>2, FinishLeaves DEF LedgerTypeOK
  <2>2. Records(j)
    BY <1>1, <1>2, <2>1 DEF Records, SamePlan
  <2> QED BY <1>1, <2>1, <2>2 DEF Journey
<1>3. CASE Finish(j, "ok") /\ (Split(j) => job[j].rest <= job[j].part)
  <2>1. /\ \A i \in Jobs \ {j} : job'[i] = job[i]
        /\ SamePlan(j) /\ job'[j].pc = "done" /\ job'[j].result = "ok"
    BY <1>3, FinishLeaves DEF LedgerTypeOK
  <2>2. Records(j)
    BY <1>1, <1>3, <2>1 DEF Records, SamePlan
  <2> QED BY <1>1, <2>1, <2>2 DEF Journey
<1>4. CASE Goto(j, pc) /\ pc \in Past /\ (Split(j) => job[j].rest <= job[j].part)
  <2>1. /\ \A i \in Jobs \ {j} : job'[i] = job[i]
        /\ SamePlan(j) /\ job'[j].pc = pc /\ job'[j].result = job[j].result
    BY <1>4, GotoLeaves DEF LedgerTypeOK
  <2>2. Records(j)
    BY <1>1, <1>4, <2>1 DEF Records, SamePlan
  <2> QED BY <1>1, <2>1, <2>2 DEF Journey
<1>5. CASE /\ ToPaid(j, job[j].rest - job[j].part) /\ Split(j) /\ ~OnPaid(j)
           /\ job[j].rest > job[j].part
  <2>1. /\ \A i \in Jobs \ {j} : job'[i] = job[i]
        /\ SameRequest(j) /\ job'[j].pc = "find" /\ job'[j].key = Typed(j, "paid")
        /\ job'[j].rest = job[j].rest - job[j].part /\ job'[j].result = job[j].result
    BY <1>5, ToPaidLeaves DEF LedgerTypeOK
  <2>2. Records(j)
    BY <1>1, <1>5, <2>1 DEF Records, Typed
  <2> QED BY <1>1, <2>1, <2>2 DEF Journey
<1> QED BY <1>2, <1>3, <1>4, <1>5

-----------------------------------------------------------------------------
(* Free, then paid *)

\* So is finding the free row and taking from it what there is.
LEMMA TakeFreeJourney ==
  ASSUME LedgerTypeOK, NEW j \in Jobs, NEW op \in {"priority", "payment"},
         OnType(j, op, "find", "free"), TakeFree(j), Numbers(j)
  PROVE  Journey(j)
<1>1. /\ job[j].pc = "find" /\ Split(j) /\ ~OnPaid(j) /\ ~Grants(j)
      /\ job[j].key \in Keys /\ job[j].rest \in Int
  BY JobTypes DEF OnType, At, Split, OnPaid, Grants
<1>2. ReadOnly => Still /\ faults' >= faults
  BY FaultsGrow DEF ReadOnly, Still
<1>3. CASE StatementFails(j)
  BY <1>1, <1>3, FailsJourney DEF Under
<1>4. CASE ReadOnly /\ job[j].attempt = 0 /\ ToPaid(j, job[j].rest)
  BY <1>1, <1>2, <1>4, SkipsJourney
<1>5. CASE ReadOnly /\ Finish(j, "rejected")
  BY <1>1, <1>2, <1>5, AnswersJourney
<1>6. CASE ReadRow(j, job[j].key) /\ Consume(j, RowOf(j), Smaller(job[j].rest, RowOf(j).balance))
  <2>1. RowOf(j) \in Row
    BY <1>1, <1>6 DEF LedgerTypeOK, ReadRow, RowOf
  <2> DEFINE a == Smaller(job[j].rest, RowOf(j).balance)
  <2>2. a \in Int /\ a <= job[j].rest /\ (a < job[j].rest => a = RowOf(j).balance)
    BY <1>1, <2>1 DEF Smaller, Row
  <2>3. Consume(j, RowOf(j), a) /\ Still /\ faults' >= faults
    BY <1>2, <1>6 DEF ReadRow
  <2> HIDE DEF a
  <2> QED BY <1>1, <2>1, <2>2, <2>3, ConsumeJourney
<1> QED BY <1>3, <1>4, <1>5, <1>6 DEF TakeFree, ReadRow, MissRow

\* So is the record of the free part.
LEMMA RecordFreeJourney ==
  ASSUME LedgerTypeOK, NEW j \in Jobs, NEW op \in {"priority", "payment"},
         OnType(j, op, "record", "free"), Numbers(j),
         \/ RecordFreePart(j, Finish(j, "ok"))
         \/ RecordFreePart(j, Goto(j, "complete"))
  PROVE  Journey(j)
<1>1. /\ job[j].pc = "record" /\ Split(j) /\ ~OnPaid(j) /\ ~Grants(j) /\ Suffix(j) = "free"
      /\ job[j].rest \in Int /\ job[j].part \in Int
  BY JobTypes DEF OnType, At, Split, OnPaid, Grants, Suffix
<1>2. CASE RecordFails(j, "free", "consume")
  BY <1>1, <1>2, RecordFailsJourney
<1>3. CASE /\ Answered /\ Record(j, "free", "consume")
           /\ \/ Finish(j, "conflict")
              \/ job[j].rest - job[j].part > 0 /\ ToPaid(j, job[j].rest - job[j].part)
              \/ /\ job[j].rest - job[j].part <= 0
                 /\ Finish(j, "ok") \/ Goto(j, "complete")
  <2>1. Record(j, Suffix(j), IF Grants(j) THEN "grant" ELSE "consume")
    BY <1>1, <1>3
  <2>2. /\ job[j].rest - job[j].part > 0 => job[j].rest > job[j].part
        /\ job[j].rest - job[j].part <= 0 => job[j].rest <= job[j].part
    BY <1>1
  <2> QED BY <1>1, <1>3, <2>1, <2>2, RecordsJourney DEF Past
<1> QED BY <1>2, <1>3 DEF RecordFreePart

\* So is the record of the paid part.
LEMMA RecordPaidJourney ==
  ASSUME LedgerTypeOK, NEW j \in Jobs, NEW op \in {"priority", "payment"},
         OnType(j, op, "record", "paid"), Numbers(j),
         \/ RecordPaidPart(j, Finish(j, "ok"))
         \/ RecordPaidPart(j, Goto(j, "complete"))
  PROVE  Journey(j)
<1>1. /\ job[j].pc = "record" /\ Split(j) /\ OnPaid(j) /\ ~Grants(j) /\ Suffix(j) = "paid"
      /\ job[j].rest \in Int /\ job[j].part \in Int
  BY JobTypes DEF OnType, At, Split, OnPaid, Grants, Suffix
<1>2. CASE RecordFails(j, "paid", "consume")
  BY <1>1, <1>2, RecordFailsJourney
<1>3. CASE /\ Answered /\ Record(j, "paid", "consume")
           /\ Finish(j, "conflict") \/ Finish(j, "ok") \/ Goto(j, "complete")
  <2>1. Record(j, Suffix(j), IF Grants(j) THEN "grant" ELSE "consume")
    BY <1>1, <1>3
  <2>2. job[j].rest <= job[j].part
    BY <1>1 DEF Numbers
  <2> QED BY <1>1, <1>3, <2>1, <2>2, RecordsJourney DEF Past
<1> QED BY <1>2, <1>3 DEF RecordPaidPart

\* So is the only record of a grant, a consumption or a redemption.
LEMMA RecordOneJourney ==
  ASSUME LedgerTypeOK, NEW j \in Jobs, job[j].pc = "record", ~Split(j), NEW kind,
         kind = IF Grants(j) THEN "grant" ELSE "consume",
         \/ RecordFails(j, "", kind)
         \/ Answered /\ Record(j, "", kind) /\ (Finish(j, "ok") \/ Goto(j, "saveRedemption"))
  PROVE  Journey(j)
<1>1. Suffix(j) = ""
  BY DEF Suffix
<1>2. CASE RecordFails(j, "", kind)
  BY <1>1, <1>2, RecordFailsJourney
<1>3. CASE Answered /\ Record(j, "", kind) /\ (Finish(j, "ok") \/ Goto(j, "saveRedemption"))
  BY <1>1, <1>3, RecordsJourney DEF Past
<1> QED BY <1>2, <1>3

\* So is finding the row to grant to.
LEMMA FindGrantJourney ==
  ASSUME LedgerTypeOK, NEW j \in Jobs, job[j].pc = "find", Grants(j), Numbers(j),
         \/ StatementFails(j)
         \/ MissRow(j, job[j].key) /\ Goto(j, "create")
         \/ ReadRow(j, job[j].key) /\ Grant(j, RowOf(j), job[j].amount)
  PROVE  Journey(j)
<1>1. ReadOnly => Still /\ faults' >= faults
  BY FaultsGrow DEF ReadOnly, Still
<1>2. CASE StatementFails(j)
  BY <1>2, FailsJourney DEF Under
<1>3. CASE MissRow(j, job[j].key) /\ Goto(j, "create")
  BY <1>1, <1>3, GoesJourney DEF MissRow
<1>4. CASE ReadRow(j, job[j].key) /\ Grant(j, RowOf(j), job[j].amount)
  <2>1. RowOf(j) \in Row
    BY <1>4, JobTypes DEF LedgerTypeOK, ReadRow, RowOf
  <2> QED BY <1>1, <1>4, <2>1, GrantJourney DEF ReadRow
<1> QED BY <1>2, <1>3, <1>4

\* So is creating it.
LEMMA CreateGrantJourney ==
  ASSUME LedgerTypeOK, NEW j \in Jobs, job[j].pc = "create", Grants(j), Numbers(j),
         \/ StatementFails(j)
         \/ Broken /\ CreateRow(j) /\ Finish(j, "dbError")
         \/ Answered /\ CreateRow(j) /\ Grant(j, Zero, job[j].amount)
  PROVE  Journey(j)
<1>1. Answered \/ Broken => faults' >= faults
  BY FaultsGrow
<1>2. CreateRow(j) => Still
  BY DEF CreateRow, Still
<1>3. CASE StatementFails(j)
  BY <1>3, FailsJourney DEF Under
<1>4. CASE Broken /\ CreateRow(j) /\ Finish(j, "dbError")
  BY <1>1, <1>2, <1>4, AnswersJourney DEF Under
<1>5. CASE Answered /\ CreateRow(j) /\ Grant(j, Zero, job[j].amount)
  <2>1. Zero \in Row
    BY DEF Zero, Row
  <2> QED BY <1>1, <1>2, <1>5, <2>1, GrantJourney
<1> QED BY <1>3, <1>4, <1>5

\* So is finding the row to take from.
LEMMA FindConsumeJourney ==
  ASSUME LedgerTypeOK, NEW j \in Jobs, job[j].pc = "find", ~Grants(j), Numbers(j), NEW a \in Int,
         Split(j) => a = job[j].rest, ~Split(j) => a = job[j].amount,
         \/ StatementFails(j)
         \/ MissRow(j, job[j].key) /\ Finish(j, "rejected")
         \/ ReadRow(j, job[j].key) /\ Consume(j, RowOf(j), a)
  PROVE  Journey(j)
<1>1. ReadOnly => Still /\ faults' >= faults
  BY FaultsGrow DEF ReadOnly, Still
<1>2. CASE StatementFails(j)
  BY <1>2, FailsJourney DEF Under
<1>3. CASE MissRow(j, job[j].key) /\ Finish(j, "rejected")
  BY <1>1, <1>3, AnswersJourney DEF MissRow
<1>4. CASE ReadRow(j, job[j].key) /\ Consume(j, RowOf(j), a)
  <2>1. RowOf(j) \in Row
    BY <1>4, JobTypes DEF LedgerTypeOK, ReadRow, RowOf
  <2> QED BY <1>1, <1>4, <2>1, ConsumeJourney DEF ReadRow
<1> QED BY <1>2, <1>3, <1>4

=============================================================================
