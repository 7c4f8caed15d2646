-------------------------- MODULE PaymentServiceProofs -------------------------
(***************************************************************************)
(* What holds of PaymentService for every set of users, requests, payments,  *)
(* amounts and initial rows, every number of attempts, broken statements and *)
(* manual adjustments.                                                       *)
(***************************************************************************)
EXTENDS PaymentService, LedgerProofs

\* A request of a payment promises no movement, whatever its answer.
LEMMA PaymentSilent ==
  ASSUME job \in [Jobs -> Job], NEW j \in Jobs, job[j].op = "payment",
         NEW res, Finish(j, res)
  PROVE  Silent(j)
BY DEF Finish, Job, Silent, PastSave, Told

-----------------------------------------------------------------------------
(* Each step of a payment is sound. *)

LEMMA PayStartSound ==
  ASSUME TypeOK, NEW j \in Jobs, PayStart(j)
  PROVE  Sound(j)
<1>1. job \in [Jobs -> Job] /\ LedgerTypeOK
  BY DEF TypeOK, LedgerTypeOK
<1>2. PICK u \in Users, a \in Amounts, r \in Refs :
        Refuse(j, "payment") \/ Begin(j, "payment", "lookup", <<u, "free">>, a, TRUE, r)
  BY DEF PayStart
<1>3. <<u, "free">> \in Keys /\ a \in Int
  BY LedgerAssumption DEF Keys, CurrencyTypes
<1>4. job' \in [Jobs -> Job]
  BY <1>1, <1>2, <1>3, BeginType, RefuseType DEF Ops, Pcs
<1>5. (\A i \in Jobs \ {j} : job'[i] = job[i]) /\ Away(j)
  BY <1>1, <1>2, BeginEffect, RefuseEffect
<1>6. Silent(j)
  BY <1>1, <1>2, BeginSilent, RefuseSilent
<1>7. job[j].pc = "idle" /\ Answered /\ UNCHANGED <<balances, history, adjusts, fresh, writes>>
  BY <1>2 DEF Refuse, Begin, PayStart, store, Answered
<1> QED BY <1>1, <1>4, <1>5, <1>6, <1>7, LocalStep

LEMMA PayLookupSound ==
  ASSUME TypeOK, NEW j \in Jobs, PayLookup(j)
  PROVE  Sound(j)
<1>1. job \in [Jobs -> Job] /\ LedgerTypeOK /\ job[j].pc = "lookup" /\ job[j].op = "payment"
  BY DEF TypeOK, LedgerTypeOK, PayLookup, At
<1>2. CASE StatementFails(j)
  BY <1>1, <1>2, StatementFailsSound
<1>3. CASE ReadOnly /\ (Goto(j, "replay") \/ Goto(j, "find") \/ Finish(j, "rejected"))
  <2>1. job' \in [Jobs -> Job]
    BY <1>1, <1>3, GotoType, FinishType DEF Pcs, Results
  <2>2. (\A i \in Jobs \ {j} : job'[i] = job[i]) /\ Away(j)
    BY <1>1, <1>3, GotoEffect, FinishEffect DEF Away
  <2>3. Silent(j)
    BY <1>1, <1>3, GotoSilent, PaymentSilent DEF PastSave
  <2>4. UNCHANGED fresh
    BY DEF PayLookup
  <2> QED BY <1>1, <1>3, <2>1, <2>2, <2>3, <2>4, LocalStep DEF ReadOnly
<1> QED BY <1>2, <1>3 DEF PayLookup

LEMMA PayEndsSound ==
  ASSUME TypeOK, NEW j \in Jobs, PayReplay(j) \/ PayFail(j) \/ PayComplete(j)
  PROVE  Sound(j)
<1>1. /\ job \in [Jobs -> Job] /\ LedgerTypeOK
      /\ job[j].pc \in {"replay", "fail", "complete"} /\ job[j].op = "payment"
  BY DEF TypeOK, LedgerTypeOK, PayReplay, PayFail, PayComplete, At
<1>2. CASE StatementFails(j)
  BY <1>1, <1>2, StatementFailsSound
<1>3. CASE ~StatementFails(j)
  <2>1. \E res \in {"rejected", "ok", "dbError"} : Finish(j, res)
    BY <1>3 DEF PayReplay, PayFail, PayComplete
  <2>2. job' \in [Jobs -> Job]
    BY <1>1, <2>1, FinishType DEF Results
  <2>3. (\A i \in Jobs \ {j} : job'[i] = job[i]) /\ Away(j)
    BY <1>1, <2>1, FinishEffect
  <2>4. Silent(j)
    BY <1>1, <2>1, PaymentSilent
  <2>5. (Answered \/ Broken) /\ UNCHANGED <<balances, history, adjusts, fresh, writes>>
    BY <1>3 DEF PayReplay, PayFail, PayComplete, ReadOnly
  <2> QED BY <1>1, <2>2, <2>3, <2>4, <2>5, LocalStep
<1> QED BY <1>2, <1>3

LEMMA PayFindFreeSound ==
  ASSUME TypeOK, NEW j \in Jobs, PayFindFree(j)
  PROVE  Sound(j)
<1>1. job \in [Jobs -> Job] /\ LedgerTypeOK /\ job[j].pc = "find" /\ TakeFree(j)
  BY DEF TypeOK, LedgerTypeOK, PayFindFree, OnType, At
<1> QED BY <1>1, TakeFreeType, TakeFreeEffect, TakeFreeSpeaks DEF Sound, Speaks

LEMMA PayFindPaidSound ==
  ASSUME TypeOK, NEW j \in Jobs, PayFindPaid(j)
  PROVE  Sound(j)
<1>1. /\ job \in [Jobs -> Job] /\ LedgerTypeOK
      /\ job[j].pc = "find" /\ job[j].op = "payment"
      /\ job[j].key \in Keys /\ job[j].rest \in Int
  BY DEF TypeOK, LedgerTypeOK, PayFindPaid, OnType, At, Job
<1>2. CASE StatementFails(j)
  BY <1>1, <1>2, StatementFailsSound
<1>3. CASE MissRow(j, job[j].key) /\ Finish(j, "rejected")
  <2>1. job' \in [Jobs -> Job]
    BY <1>1, <1>3, FinishType DEF Results
  <2>2. Effect(j)
    BY <1>1, <1>3, FinishEffect DEF Effect, Misses, MissRow, ReadOnly
  <2>3. Quiet(j)
    BY <1>1, <1>3, PaymentSilent, ReadSpeaks
  <2> QED BY <1>1, <1>3, <2>1, <2>2, <2>3, MissRowType DEF Sound, Speaks
<1>4. CASE /\ ReadRow(j, job[j].key)
           /\ Goto(j, "fail") \/ Consume(j, RowOf(j), job[j].rest)
  <2>1. RowOf(j) \in Row
    BY <1>1, <1>4 DEF LedgerTypeOK, ReadRow, RowOf
  <2>2. job' \in [Jobs -> Job]
    BY <1>1, <1>4, <2>1, GotoType, ConsumeType DEF Pcs
  <2>3. (\A i \in Jobs \ {j} : job'[i] = job[i]) /\ (Away(j) \/ Carries(j, RowOf(j)))
    BY <1>1, <1>4, <2>1, GotoEffect, ConsumeEffect DEF Away
  <2>4. Effect(j)
    BY <1>4, <2>3 DEF Effect, Reads, ReadRow, ReadOnly
  <2>5. Quiet(j)
    BY <1>1, <1>4, GotoSilent, ConsumeSilent, ReadSpeaks DEF PastSave
  <2> QED BY <1>1, <1>4, <2>2, <2>4, <2>5, ReadRowType DEF Sound, Speaks
<1> QED BY <1>2, <1>3, <1>4 DEF PayFindPaid

LEMMA PayRecordSound ==
  ASSUME TypeOK, NEW j \in Jobs, PayRecordFree(j) \/ PayRecordPaid(j)
  PROVE  Sound(j)
<1>1. /\ job \in [Jobs -> Job] /\ LedgerTypeOK /\ job[j].pc = "record"
      /\ job[j].rest - job[j].part \in Int
  BY DEF TypeOK, LedgerTypeOK, PayRecordFree, PayRecordPaid, OnType, At, Job
<1>2. PICK suffix \in {"free", "paid"} :
        \/ RecordFails(j, suffix, "consume")
        \/ /\ Answered /\ Record(j, suffix, "consume")
           /\ \/ Finish(j, "conflict") \/ Goto(j, "complete")
              \/ ToPaid(j, job[j].rest - job[j].part)
  BY DEF PayRecordFree, PayRecordPaid, RecordFreePart, RecordPaidPart
<1>3. CASE RecordFails(j, suffix, "consume")
  BY <1>1, <1>3, RecordFailsType, RecordFailsEffect, RecordFailsSpeaks DEF Sound, Speaks
<1>4. CASE /\ Answered /\ Record(j, suffix, "consume")
           /\ \/ Finish(j, "conflict") \/ Goto(j, "complete")
              \/ ToPaid(j, job[j].rest - job[j].part)
  <2>1. job' \in [Jobs -> Job]
    BY <1>1, <1>4, FinishType, GotoType, ToPaidType DEF Results, Pcs
  <2>2. (\A i \in Jobs \ {j} : job'[i] = job[i]) /\ Away(j)
    BY <1>1, <1>4, FinishEffect, GotoEffect, ToPaidEffect DEF Away
  <2>3. Effect(j)
    BY <1>4, <2>2, RecordEffect
  <2>4. Telling(j)
    BY <1>1, <1>4 DEF Record, Telling, PastSave
  <2> QED BY <1>1, <1>4, <2>1, <2>3, <2>4, RecordType DEF Sound, Speaks
<1> QED BY <1>2, <1>3, <1>4

LEMMA PaySaveSound ==
  ASSUME TypeOK, NEW j \in Jobs, PaySaveFree(j) \/ PaySavePaid(j)
  PROVE  Sound(j)
<1>1. LedgerTypeOK /\ job[j].pc = "save" /\ TrySave(j)
  BY DEF TypeOK, PaySaveFree, PaySavePaid, OnType, At
<1> QED BY <1>1, TrySaveSound

\* Every step of a payment is one that the shared tables can bear.
LEMMA PaymentSound ==
  ASSUME TypeOK, NEW j \in Jobs, PayStart(j) \/ Step(j)
  PROVE  Sound(j)
BY PayStartSound, PayLookupSound, PayEndsSound, PayFindFreeSound, PayFindPaidSound,
   PayRecordSound, PaySaveSound DEF Step

\* Where a payment may be.
Places == {"lookup", "replay", "find", "save", "record", "fail", "complete", "done"}

LEMMA PaymentPlace ==
  ASSUME TypeOK, NEW j \in Jobs, PayStart(j) \/ Step(j)
  PROVE  job'[j].pc \in Places
<1>1. job \in [Jobs -> Job]
  BY DEF TypeOK, LedgerTypeOK
<1>2. ASSUME (\E res : Finish(j, res)) \/ Refuse(j, "payment") \/ StatementFails(j)
      PROVE  job'[j].pc = "done"
  BY <1>1, <1>2, FinishSpeech DEF Refuse, Job, StatementFails
<1>3. CASE PayStart(j)
  <2>1. \/ Refuse(j, "payment")
        \/ \E k, a, r : Begin(j, "payment", "lookup", k, a, TRUE, r)
    BY <1>3 DEF PayStart
  <2> QED BY <1>1, <1>2, <2>1, BeginPlace DEF Places
<1>4. CASE PayLookup(j) \/ PayFindPaid(j)
  <2>1. \/ StatementFails(j) \/ Finish(j, "rejected")
        \/ Goto(j, "replay") \/ Goto(j, "find") \/ Goto(j, "fail")
        \/ Consume(j, RowOf(j), job[j].rest)
    BY <1>4 DEF PayLookup, PayFindPaid
  <2> QED BY <1>1, <1>2, <2>1, GotoEffect, ConsumePlace DEF Places
<1>5. CASE PayReplay(j) \/ PayFail(j) \/ PayComplete(j)
  <2>1. StatementFails(j) \/ \E res : Finish(j, res)
    BY <1>5 DEF PayReplay, PayFail, PayComplete
  <2> QED BY <1>2, <2>1 DEF Places
<1>6. CASE PayFindFree(j)
  BY <1>1, <1>6, TakeFreePlace DEF PayFindFree, Places
<1>7. CASE PaySaveFree(j) \/ PaySavePaid(j)
  BY <1>1, <1>7, TrySavePlace DEF PaySaveFree, PaySavePaid, Places
<1>8. CASE PayRecordFree(j) \/ PayRecordPaid(j)
  <2>1. job'[j].pc \in {"done", "find"} \/ Goto(j, "complete")
    BY <1>1, <1>8, RecordFreePlace, RecordPaidPlace DEF PayRecordFree, PayRecordPaid
  <2> QED BY <1>1, <2>1, GotoEffect DEF Places
<1> QED BY <1>3, <1>4, <1>5, <1>6, <1>7, <1>8 DEF Step

-----------------------------------------------------------------------------
(* Types *)

LEMMA PaymentTablesType ==
  ASSUME TypeOK, NEW j \in Jobs, PayStart(j) \/ Step(j)
  PROVE  /\ payments' \in [Refs -> Statuses]
         /\ reply' \in [Jobs -> Int]
         /\ repeats' \in SUBSET Jobs
<1>1. /\ payments \in [Refs -> Statuses] /\ reply \in [Jobs -> Int] /\ repeats \in SUBSET Jobs
      /\ \A h \in history : h.amount \in Int
  BY DEF TypeOK, LedgerTypeOK, HistoryRow
<1>2. CASE PayStart(j)
  BY <1>1, <1>2 DEF PayStart
<1>3. CASE PayFail(j) \/ PayComplete(j)
  <2>1. job[j].amount \in Int /\ job[j].rest \in Int /\ job[j].part \in Int
    BY JobTypes DEF TypeOK
  <2>2. TotalConsumed(j) \in Int
    BY <2>1 DEF TotalConsumed
  <2> QED BY <1>1, <1>3, <2>2 DEF PayFail, PayComplete, Statuses
<1>4. CASE PayReplay(j)
  BY <1>1, <1>4 DEF PayReplay
<1>5. CASE UNCHANGED payVars
  BY <1>1, <1>5 DEF payVars
<1> QED BY <1>2, <1>3, <1>4, <1>5
        DEF Step, PayLookup, PayFindFree, PaySaveFree, PayRecordFree,
            PayFindPaid, PaySavePaid, PayRecordPaid

\* Requests and tables keep their types: a payment is settled by the statuses
\* completed and failed alone, and no retry counter leaves its bound.
THEOREM PaymentTypeCorrect == Spec => []TypeOK
<1>1. Init => TypeOK
  BY LedgerInitType DEF Init, TypeOK, Statuses
<1>2. TypeOK /\ [Next]_vars => TypeOK'
  <2> SUFFICES ASSUME TypeOK, [Next]_vars PROVE TypeOK'
    OBVIOUS
  <2>1. CASE \E j \in Jobs : PayStart(j) \/ Step(j)
    BY <2>1, PaymentSound, PaymentTablesType DEF TypeOK, Sound
  <2>2. CASE \E k \in Keys : Adjust(k) /\ UNCHANGED payVars
    BY <2>2, AdjustType DEF TypeOK, payVars
  <2>3. CASE UNCHANGED vars
    BY <2>3 DEF TypeOK, LedgerTypeOK, vars
  <2> QED BY <2>1, <2>2, <2>3 DEF Next, Quiescent
<1> QED BY <1>1, <1>2, PTL DEF Spec

-----------------------------------------------------------------------------
(* The invariants of the ledger hold of payments too, and with them the       *)
(* abstract accounts.                                                         *)

LEMMA PaymentInvariance == Spec => [](LedgerInv /\ MoversRecord)
<1>1. Init => LedgerInv /\ MoversRecord
  BY LedgerInitInv, LedgerInitKeeps DEF Init
<1>2. TypeOK /\ TypeOK' /\ LedgerInv /\ MoversRecord /\ [Next]_vars
        => LedgerInv' /\ MoversRecord'
  <2> SUFFICES ASSUME TypeOK, TypeOK', LedgerInv, MoversRecord, [Next]_vars
               PROVE  LedgerInv' /\ MoversRecord'
    OBVIOUS
  <2>1. CASE \E j \in Jobs : PayStart(j) \/ Step(j)
    BY <2>1, PaymentSound, EffectInv, StepRecords DEF TypeOK, Sound
  <2>2. CASE \E k \in Keys : Adjust(k) /\ UNCHANGED payVars
    BY <2>2, AdjustInv, AdjustRecords DEF TypeOK
  <2>3. CASE UNCHANGED vars
    BY <2>3 DEF vars, LedgerInv, FreshEntity, UntouchedEntity, BalancesInRange,
                EntityInRange, RowOf, MoversRecord, HasMoved
  <2> QED BY <2>1, <2>2, <2>3 DEF Next, Quiescent
<1> QED BY <1>1, <1>2, PaymentTypeCorrect, PTL DEF Spec

\* ProcessPayment implements Accounts, however deliveries of one payment
\* interleave, retry or break off; what it answers promises no movement, because it
\* may stem from the record of an earlier delivery.
THEOREM PaymentKeepsAccounts == Spec => KeepsAccounts
<1>1. Init => Promise!Init
  BY LedgerInitKeeps DEF Init
<1>2. TypeOK /\ TypeOK' /\ LedgerInv /\ MoversRecord /\ [Next]_vars
        => [Promise!Next]_(Promise!vars)
  <2> SUFFICES ASSUME TypeOK, TypeOK', LedgerInv, MoversRecord, [Next]_vars
               PROVE  [Promise!Next]_(Promise!vars)
    OBVIOUS
  <2>1. CASE \E j \in Jobs : PayStart(j) \/ Step(j)
    BY <2>1, PaymentSound, StepKeeps DEF TypeOK, Sound
  <2>2. CASE \E k \in Keys : Adjust(k) /\ UNCHANGED payVars
    BY <2>2, AdjustKeeps DEF TypeOK
  <2>3. CASE UNCHANGED vars
    BY <2>3, StutterKeeps DEF vars
  <2> QED BY <2>1, <2>2, <2>3 DEF Next, Quiescent
<1> QED BY <1>1, <1>2, PaymentTypeCorrect, PaymentInvariance, PTL
       DEF Spec, KeepsAccounts, Promise!Spec

-----------------------------------------------------------------------------
(* Repeated deliveries.  The strengthening: a payment is settled before any    *)
(* delivery of it succeeds or reads the earlier answer, it stays settled, and   *)
(* a delivery that starts then goes nowhere but to that answer.                 *)

Settled(r) == payments[r] \in {"completed", "failed"}

SuccessSettles ==
  \A j \in Jobs : job[j].ref \in Refs /\ (job[j].result = "ok" \/ job[j].pc = "replay")
                    => Settled(job[j].ref)

RepeatsAskOnly ==
  \A j \in repeats :
    /\ job[j].ref \in Refs /\ Settled(job[j].ref)
    /\ job[j].pc \in {"lookup", "replay", "done"}
    /\ ~HasMoved(j)

IdleMoveNothing == \A j \in Jobs : job[j].pc = "idle" => ~HasMoved(j)

RepeatInv == SuccessSettles /\ RepeatsAskOnly /\ IdleMoveNothing

\* The request goes on with its payment, and neither succeeds nor replays.
Onward(j) ==
  /\ job'[j].ref = job[j].ref
  /\ job'[j].pc \notin {"idle", "replay"}
  /\ job'[j].result = "ok" => job[j].result = "ok"

\* What a step does to the payment: the same, or success on a settled one.
Pays(j) ==
  /\ UNCHANGED repeats
  /\ \A r \in Refs : Settled(r) => Settled(r)'
  /\ job[j].pc = "replay" => job'[j].pc = "done"
  /\ job[j].pc = "lookup" /\ Settled(job[j].ref) => job'[j].pc \in {"replay", "done"}
  /\ \/ Onward(j)
     \/ /\ job'[j].ref = job[j].ref /\ job'[j].pc # "idle"
        /\ job[j].pc = "replay" \/ (job[j].ref \in Refs => Settled(job[j].ref)')

LEMMA GotoOnward ==
  ASSUME job \in [Jobs -> Job], NEW j \in Jobs, NEW pc, pc \notin {"idle", "replay"},
         Goto(j, pc)
  PROVE  Onward(j)
BY DEF Goto, Job, Onward

LEMMA FinishOnward ==
  ASSUME job \in [Jobs -> Job], NEW j \in Jobs, NEW res, res # "ok", Finish(j, res)
  PROVE  Onward(j)
BY DEF Finish, Job, Onward

LEMMA ToPaidOnward ==
  ASSUME job \in [Jobs -> Job], NEW j \in Jobs, NEW rest, ToPaid(j, rest)
  PROVE  Onward(j)
BY DEF ToPaid, Job, Onward

LEMMA ConsumeOnward ==
  ASSUME job \in [Jobs -> Job], NEW j \in Jobs, NEW c, NEW a, Consume(j, c, a)
  PROVE  Onward(j)
<1>1. CASE Finish(j, "rejected")
  BY <1>1, FinishOnward
<1>2. CASE ~Finish(j, "rejected")
  BY <1>2 DEF Consume, Job, Onward
<1> QED BY <1>1, <1>2

LEMMA TrySaveOnward ==
  ASSUME job \in [Jobs -> Job], NEW j \in Jobs, TrySave(j)
  PROVE  Onward(j)
<1>1. ASSUME SaveRefused(j) PROVE Onward(j)
  <2>1. CASE job[j].attempt < MaxRetries - 1
    BY <1>1, <2>1 DEF SaveRefused, Job, Onward
  <2>2. CASE ~(job[j].attempt < MaxRetries - 1)
    BY <1>1, <2>2, FinishOnward DEF SaveRefused
  <2> QED BY <2>1, <2>2
<1> QED BY <1>1, GotoOnward DEF TrySave

LEMMA StepPays ==
  ASSUME TypeOK, NEW j \in Jobs, Step(j)
  PROVE  Pays(j)
<1>1. job \in [Jobs -> Job]
  BY DEF TypeOK, LedgerTypeOK
<1>2. CASE PayLookup(j)
  <2>1. UNCHANGED <<payments, repeats>> /\ job[j].pc = "lookup"
    BY <1>2 DEF PayLookup, payVars, At
  <2>2. CASE StatementFails(j) \/ Finish(j, "rejected")
    <3>1. job'[j].pc = "done" /\ Onward(j)
      BY <1>1, <2>2, FinishSpeech, FinishOnward DEF StatementFails
    <3> QED BY <2>1, <3>1 DEF Pays, Settled
  <2>3. CASE PaymentOf(j) = "completed" /\ Goto(j, "replay")
    <3>1. job'[j].pc = "replay" /\ job'[j].ref = job[j].ref /\ Settled(job[j].ref)
      BY <1>1, <2>3 DEF Goto, Job, Settled, PaymentOf
    <3> QED BY <2>1, <3>1 DEF Pays, Settled
  <2>4. CASE PaymentOf(j) \in {"none", "pending"} /\ Goto(j, "find")
    <3>1. Onward(j) /\ ~Settled(job[j].ref)
      BY <1>1, <2>4, GotoOnward DEF Settled, PaymentOf
    <3> QED BY <2>1, <3>1 DEF Pays, Settled
  <2> QED BY <1>2, <2>2, <2>3, <2>4 DEF PayLookup
<1>3. CASE PayReplay(j)
  <2>1. UNCHANGED <<payments, repeats>> /\ job[j].pc = "replay"
    BY <1>3 DEF PayReplay, At
  <2>2. job'[j].pc = "done" /\ job'[j].ref = job[j].ref
    <3>1. \E res : Finish(j, res)
      BY <1>3 DEF PayReplay, StatementFails
    <3> QED BY <1>1, <3>1 DEF Finish, Job
  <2> QED BY <2>1, <2>2 DEF Pays, Settled
<1>4. CASE PayFail(j)
  <2>1. Onward(j) /\ job[j].pc = "fail" /\ UNCHANGED repeats
    BY <1>1, <1>4, FinishOnward DEF PayFail, At
  <2>2. \A r \in Refs : Settled(r) => Settled(r)'
    BY <1>4 DEF PayFail, Settled, TypeOK
  <2> QED BY <2>1, <2>2 DEF Pays
<1>5. CASE PayComplete(j)
  <2>1. job[j].pc = "complete" /\ UNCHANGED repeats
    BY <1>5 DEF PayComplete, At
  <2>2. \A r \in Refs : Settled(r) => Settled(r)'
    BY <1>5 DEF PayComplete, Settled, TypeOK
  <2>3. CASE Finish(j, "dbError")
    <3>1. Onward(j)
      BY <1>1, <2>3, FinishOnward
    <3> QED BY <2>1, <2>2, <3>1 DEF Pays
  <2>4. CASE Finish(j, "ok") /\ payments' = [payments EXCEPT ![job[j].ref] = "completed"]
    <3>1. job'[j].ref = job[j].ref /\ job'[j].pc = "done"
      BY <1>1, <2>4 DEF Finish, Job
    <3>2. job[j].ref \in Refs => Settled(job[j].ref)'
      BY <2>4, <3>1 DEF Settled, TypeOK
    <3> QED BY <2>1, <2>2, <3>1, <3>2 DEF Pays
  <2> QED BY <1>5, <2>3, <2>4 DEF PayComplete
<1>6. CASE /\ UNCHANGED payVars /\ job[j].pc \in {"find", "save", "record"}
           /\ Onward(j)
  BY <1>6 DEF Pays, payVars, Settled
<1>7. CASE PayFindFree(j) \/ PayFindPaid(j)
  <2>1. /\ UNCHANGED payVars /\ job[j].pc = "find"
    BY <1>7 DEF PayFindFree, PayFindPaid, OnType, At
  <2>2. Onward(j)
    BY <1>1, <1>7, GotoOnward, FinishOnward, ToPaidOnward, ConsumeOnward
       DEF PayFindFree, PayFindPaid, TakeFree, StatementFails
  <2> QED BY <1>6, <2>1, <2>2
<1>8. CASE PaySaveFree(j) \/ PaySavePaid(j)
  BY <1>1, <1>6, <1>8, TrySaveOnward DEF PaySaveFree, PaySavePaid, OnType, At
<1>9. CASE PayRecordFree(j) \/ PayRecordPaid(j)
  <2>1. /\ UNCHANGED payVars /\ job[j].pc = "record"
    BY <1>9 DEF PayRecordFree, PayRecordPaid, OnType, At
  <2>2. Onward(j)
    BY <1>1, <1>9, GotoOnward, FinishOnward, ToPaidOnward
       DEF PayRecordFree, PayRecordPaid, RecordFreePart, RecordPaidPart, RecordFails
  <2> QED BY <1>6, <2>1, <2>2
<1> QED BY <1>2, <1>3, <1>4, <1>5, <1>7, <1>8, <1>9 DEF Step

LEMMA StepRepeats ==
  ASSUME TypeOK, RepeatInv, NEW j \in Jobs, Step(j)
  PROVE  RepeatInv'
<1>1. Pays(j) /\ Effect(j) /\ Speaks(j)
  BY StepPays, PaymentSound DEF Sound
<1>2. \A i \in Jobs \ {j} : job'[i] = job[i]
  BY <1>1 DEF Effect
<1>3. job'[j].ref = job[j].ref /\ job'[j].pc # "idle"
  BY <1>1 DEF Pays, Onward
<1>4. repeats' = repeats /\ \A r \in Refs : Settled(r) => Settled(r)'
  BY <1>1 DEF Pays
<1>5. SuccessSettles'
  <2> SUFFICES ASSUME NEW i \in Jobs, job'[i].ref \in Refs,
                      job'[i].result = "ok" \/ job'[i].pc = "replay"
               PROVE  Settled(job[i].ref)'
    BY DEF SuccessSettles, Settled
  <2>1. CASE i # j
    <3>1. Settled(job[i].ref) /\ job'[i].ref = job[i].ref
      BY <1>2, <2>1 DEF RepeatInv, SuccessSettles
    <3> QED BY <1>4, <3>1 DEF Settled
  <2>2. CASE i = j
    <3>1. Settled(job[j].ref)'
      BY <1>1, <1>3, <1>4, <2>2 DEF RepeatInv, SuccessSettles, Pays, Onward
    <3> QED BY <1>3, <2>2, <3>1 DEF Settled
  <2> QED BY <2>1, <2>2
<1>6. RepeatsAskOnly'
  <2> SUFFICES ASSUME NEW i \in repeats
               PROVE  /\ job'[i].ref \in Refs /\ Settled(job[i].ref)'
                      /\ job'[i].pc \in {"lookup", "replay", "done"}
                      /\ ~HasMoved(i)'
    BY <1>4 DEF RepeatsAskOnly, Settled
  <2>1. /\ i \in Jobs /\ job[i].ref \in Refs /\ Settled(job[i].ref)
        /\ job[i].pc \in {"lookup", "replay", "done"} /\ ~HasMoved(i)
    BY DEF TypeOK, RepeatInv, RepeatsAskOnly
  <2>2. job'[i].ref = job[i].ref
    BY <1>2, <1>3, <2>1
  <2>3. Settled(job[i].ref)'
    BY <1>4, <2>1, <2>2 DEF Settled
  <2>4. job'[i].pc \in {"lookup", "replay", "done"}
    BY <1>1, <1>2, <2>1 DEF Pays, Speaks
  <2>5. ~HasMoved(i)'
    BY <1>1, <2>1, MovesAlone
  <2> QED BY <2>1, <2>2, <2>3, <2>4, <2>5
<1>7. IdleMoveNothing'
  <2> SUFFICES ASSUME NEW i \in Jobs, job'[i].pc = "idle" PROVE ~HasMoved(i)'
    BY DEF IdleMoveNothing
  <2>1. i # j /\ ~HasMoved(i)
    BY <1>2, <1>3 DEF RepeatInv, IdleMoveNothing
  <2> QED BY <1>1, <2>1, MovesAlone
<1> QED BY <1>5, <1>6, <1>7 DEF RepeatInv

LEMMA StartRepeats ==
  ASSUME TypeOK, RepeatInv, NEW j \in Jobs, PayStart(j)
  PROVE  RepeatInv'
<1>1. /\ \A i \in Jobs \ {j} : job'[i] = job[i]
      /\ job[j].pc = "idle" /\ UNCHANGED <<payments, writes>>
  <2>1. Effect(j)
    BY PaymentSound DEF Sound
  <2> QED BY <2>1 DEF Effect, PayStart, Refuse, Begin, store
<1>2. PICK u \in Users, a \in Amounts, r \in Refs :
        \/ Refuse(j, "payment") /\ UNCHANGED repeats
        \/ /\ Begin(j, "payment", "lookup", <<u, "free">>, a, TRUE, r)
           /\ repeats' = IF \E i \in Jobs : job[i].ref = r /\ job[i].result = "ok"
                         THEN repeats \cup {j} ELSE repeats
  BY DEF PayStart
<1>3. \/ /\ UNCHANGED repeats
         /\ job'[j].pc = "done" /\ job'[j].result = "rejected"
      \/ /\ job'[j].pc = "lookup" /\ job'[j].result = "none" /\ job'[j].ref = r
         /\ repeats' = IF \E i \in Jobs : job[i].ref = r /\ job[i].result = "ok"
                       THEN repeats \cup {j} ELSE repeats
  <2>1. CASE Refuse(j, "payment") /\ UNCHANGED repeats
    BY <2>1 DEF Refuse, TypeOK, LedgerTypeOK, Job
  <2>2. CASE /\ Begin(j, "payment", "lookup", <<u, "free">>, a, TRUE, r)
             /\ repeats' = IF \E i \in Jobs : job[i].ref = r /\ job[i].result = "ok"
                           THEN repeats \cup {j} ELSE repeats
    <3>1. PICK s \in Stamps(j) :
             job' = [job EXCEPT ![j] =
                       [IdleJob(j) EXCEPT !.op = "payment", !.pc = "lookup",
                                          !.key = <<u, "free">>, !.amount = a, !.rest = a,
                                          !.part = a, !.stamp = s, !.meta = TRUE, !.ref = r]]
      BY <2>2 DEF Begin
    <3> DEFINE new == [IdleJob(j) EXCEPT !.op = "payment", !.pc = "lookup",
                                         !.key = <<u, "free">>, !.amount = a, !.rest = a,
                                         !.part = a, !.stamp = s, !.meta = TRUE, !.ref = r]
    <3>2. new.pc = "lookup" /\ new.result = "none" /\ new.ref = r
      BY DEF IdleJob
    <3>3. job' = [job EXCEPT ![j] = new]
      BY <3>1
    <3> HIDE DEF new
    <3>4. job'[j] = new
      BY <3>3 DEF TypeOK, LedgerTypeOK
    <3> QED BY <2>2, <3>2, <3>4
  <2> QED BY <1>2, <2>1, <2>2
<1>4. j \notin repeats
  BY <1>1 DEF RepeatInv, RepeatsAskOnly
<1>5. SuccessSettles'
  BY <1>1, <1>3 DEF RepeatInv, SuccessSettles, Settled
<1>6. RepeatsAskOnly'
  <2> SUFFICES ASSUME NEW i \in repeats'
               PROVE  /\ job'[i].ref \in Refs /\ Settled(job[i].ref)'
                      /\ job'[i].pc \in {"lookup", "replay", "done"}
                      /\ ~HasMoved(i)'
    BY DEF RepeatsAskOnly, Settled
  <2>1. CASE i \in repeats
    BY <1>1, <1>4, <2>1 DEF RepeatInv, RepeatsAskOnly, Settled, HasMoved, TypeOK
  <2>2. CASE i \notin repeats
    <3>1. i = j /\ job'[j].pc = "lookup" /\ job'[j].ref = r
      BY <1>3, <2>2
    <3>2. Settled(r)
      BY <1>3, <2>2 DEF RepeatInv, SuccessSettles
    <3>3. ~HasMoved(j)
      BY <1>1 DEF RepeatInv, IdleMoveNothing
    <3> QED BY <1>1, <3>1, <3>2, <3>3 DEF Settled, HasMoved
  <2> QED BY <2>1, <2>2
<1>7. IdleMoveNothing'
  BY <1>1, <1>3 DEF RepeatInv, IdleMoveNothing, HasMoved
<1> QED BY <1>5, <1>6, <1>7 DEF RepeatInv

\* Once a delivery of a payment was answered with success, none that starts later
\* takes anything, for any number of deliveries and whatever slower ones write into
\* the status: it meets a settled payment and can only answer.
THEOREM RepeatsNeverMove == Spec => []RepeatsMoveNothing
<1>1. Init => RepeatInv
  <2> SUFFICES ASSUME Init PROVE RepeatInv
    OBVIOUS
  <2>1. \A j \in Jobs : job[j].pc = "idle" /\ job[j].result = "none" /\ ~HasMoved(j)
    BY DEF Init, LedgerInit, IdleJob, HasMoved
  <2>2. repeats = {}
    BY DEF Init
  <2> QED BY <2>1, <2>2 DEF RepeatInv, SuccessSettles, RepeatsAskOnly, IdleMoveNothing
<1>2. TypeOK /\ RepeatInv /\ [Next]_vars => RepeatInv'
  <2> SUFFICES ASSUME TypeOK, RepeatInv, [Next]_vars PROVE RepeatInv'
    OBVIOUS
  <2>1. CASE \E j \in Jobs : PayStart(j) \/ Step(j)
    BY <2>1, StartRepeats, StepRepeats
  <2>2. CASE UNCHANGED <<job, writes, payments, repeats>>
    BY <2>2 DEF RepeatInv, SuccessSettles, RepeatsAskOnly, IdleMoveNothing, Settled, HasMoved
  <2> QED BY <2>1, <2>2 DEF Next, Quiescent, vars, Adjust, payVars
<1>3. RepeatInv => RepeatsMoveNothing
  BY DEF RepeatInv, RepeatsAskOnly, RepeatsMoveNothing, HasMoved, Written
<1> QED BY <1>1, <1>2, <1>3, PaymentTypeCorrect, PTL DEF Spec

-----------------------------------------------------------------------------
(* What requests write and record *)

\* A payment begins a journey.
LEMMA PayStartJourney ==
  ASSUME TypeOK, NEW j \in Jobs, PayStart(j), Numbers(j)
  PROVE  Journey(j)
<1>1. LedgerTypeOK /\ UNCHANGED store
  BY DEF TypeOK, PayStart
<1>2. CASE Refuse(j, "payment")
  BY <1>1, <1>2, RefuseJourney
<1>3. CASE \E u \in Users, a \in Amounts, r \in Refs, m \in BOOLEAN :
             a > 0 /\ Begin(j, "payment", "lookup", <<u, "free">>, a, m, r)
  <2>1. PICK u \in Users, a \in Amounts, r \in Refs, m \in BOOLEAN :
             a > 0 /\ Begin(j, "payment", "lookup", <<u, "free">>, a, m, r)
    BY <1>3
  <2>2. a \in Int /\ a >= 0
    BY <2>1, LedgerAssumption
  <2> DEFINE k == <<u, "free">>
  <2>3. k[2] = "free" /\ a > 0 /\ Begin(j, "payment", "lookup", k, a, m, r)
    BY <2>1
  <2>4. "lookup" \in Early \ {"idle"}
    BY DEF Early
  <2> HIDE DEF k
  <2> QED BY <1>1, <2>2, <2>3, <2>4, BeginJourney
<1> QED BY <1>2, <1>3 DEF PayStart

\* Looking the payment up, replaying its answer and writing its status are steps of
\* it.
LEMMA PayAskJourney ==
  ASSUME TypeOK, NEW j \in Jobs, Numbers(j),
         PayLookup(j) \/ PayReplay(j) \/ PayFail(j) \/ PayComplete(j)
  PROVE  Journey(j)
<1>1. /\ LedgerTypeOK /\ job[j].op = "payment"
      /\ job[j].pc \in {"lookup", "replay", "fail", "complete"}
  BY DEF TypeOK, PayLookup, PayReplay, PayFail, PayComplete, At
<1>2. /\ ReadOnly => Still /\ faults' >= faults
      /\ Answered \/ Broken => faults' >= faults
  BY <1>1, FaultsGrow DEF ReadOnly, Still
<1>3. CASE StatementFails(j)
  BY <1>1, <1>3, FailsJourney DEF Early, Under, Past
<1>4. CASE PayLookup(j) /\ ~StatementFails(j)
  <2>1. ReadOnly /\ (Goto(j, "replay") \/ Finish(j, "rejected") \/ Goto(j, "find"))
    BY <1>4 DEF PayLookup
  <2>2. job[j].pc = "lookup"
    BY <1>4 DEF PayLookup, At
  <2> QED BY <1>1, <1>2, <2>1, <2>2, LookedJourney DEF Early
<1>5. CASE PayReplay(j) /\ ~StatementFails(j)
  <2>1. ReadOnly /\ (Finish(j, "rejected") \/ Finish(j, "ok")) /\ job[j].pc = "replay"
    BY <1>5 DEF PayReplay, At
  <2> QED BY <1>1, <1>2, <2>1, LookedJourney DEF Early
<1>6. CASE PayFail(j)
  <2>1. /\ job[j].pc = "fail" /\ Finish(j, "rejected") /\ Still
        /\ Answered \/ Broken
    BY <1>6 DEF PayFail, At, Still
  <2> QED BY <1>1, <1>2, <2>1, AnswersJourney
<1>7. CASE PayComplete(j)
  <2>1. /\ job[j].pc = "complete" /\ (Finish(j, "ok") \/ Finish(j, "dbError")) /\ Still
        /\ Answered \/ Broken
    BY <1>7 DEF PayComplete, At, Still
  <2> QED BY <1>1, <1>2, <2>1, AnswersJourney DEF Past
<1> QED BY <1>3, <1>4, <1>5, <1>6, <1>7

\* So is every other statement.
LEMMA PayStepJourney ==
  ASSUME TypeOK, NEW j \in Jobs, Step(j), Numbers(j)
  PROVE  Journey(j)
<1>1. LedgerTypeOK /\ job[j].rest \in Int
  BY JobTypes DEF TypeOK
<1>2. CASE PayLookup(j) \/ PayReplay(j) \/ PayFail(j) \/ PayComplete(j)
  BY <1>2, PayAskJourney
<1>3. CASE PayFindFree(j)
  BY <1>1, <1>3, TakeFreeJourney DEF PayFindFree
<1>4. CASE PaySaveFree(j) \/ PaySavePaid(j)
  BY <1>1, <1>4, SaveJourney DEF PaySaveFree, PaySavePaid, OnType, At
<1>5. CASE PayRecordFree(j)
  BY <1>1, <1>5, RecordFreeJourney DEF PayRecordFree
<1>6. CASE PayRecordPaid(j)
  BY <1>1, <1>6, RecordPaidJourney DEF PayRecordPaid
<1>7. CASE PayFindPaid(j)
  <2>1. job[j].pc = "find" /\ Split(j) /\ ~Grants(j)
    BY <1>7 DEF PayFindPaid, OnType, At, Split, Grants
  <2>2. CASE ReadRow(j, job[j].key) /\ Goto(j, "fail")
    BY <1>1, <2>1, <2>2, GoesJourney, FaultsGrow DEF ReadRow, ReadOnly, Still
  <2> QED BY <1>1, <1>7, <2>1, <2>2, FindConsumeJourney DEF PayFindPaid
<1> QED BY <1>2, <1>3, <1>4, <1>5, <1>6, <1>7 DEF Step

\* What is no request leaves requests, payments and history alone.
LEMMA RestOfPayments ==
  ASSUME [Next]_vars, ~\E j \in Jobs : PayStart(j) \/ Step(j)
  PROVE  UNCHANGED <<history, job, faults, writes, payments, reply>>
BY DEF Next, Quiescent, vars, store, Adjust, payVars

\* Every behaviour of the payment service keeps the invariant of the journeys.
LEMMA ToursInvariance == Spec => []Tours
<1>1. Init => Tours
  BY InitTours DEF Init
<1>2. TypeOK /\ TypeOK' /\ Tours /\ [Next]_vars => Tours'
  <2> SUFFICES ASSUME TypeOK, TypeOK', Tours, [Next]_vars PROVE Tours'
    OBVIOUS
  <2>1. CASE \E j \in Jobs : PayStart(j) \/ Step(j)
    <3>1. PICK j \in Jobs : PayStart(j) \/ Step(j)
      BY <2>1
    <3>2. Journey(j)
      BY <3>1, PayStartJourney, PayStepJourney DEF Tours, Carrying
    <3> QED BY <3>2, JourneyTours DEF TypeOK
  <2>2. CASE ~\E j \in Jobs : PayStart(j) \/ Step(j)
    BY <2>2, RestOfPayments, RestTours
  <2> QED BY <2>1, <2>2
<1> QED BY <1>1, <1>2, PaymentTypeCorrect, PTL DEF Spec

\* The invariant of the journeys shows what the ledger promises.
LEMMA PaymentTours ==
  TypeOK /\ Tours => /\ HistoryIsBacked /\ ConsumeNeverOverdraws /\ FreeBeforePaid
                     /\ SuccessIsAccounted /\ RetriesApplyOnce
BY ToursShow DEF TypeOK

\* Every row of the transactions table describes a balance that its request wrote,
\* however requests interleave, retry and break off, although the two statements
\* commit separately.
THEOREM TransactionsBacked == Spec => []HistoryIsBacked
BY PaymentTypeCorrect, ToursInvariance, PaymentTours, PTL

\* No consumption drives a balance below zero, whatever it overwrites.
THEOREM ConsumptionsCovered == Spec => []ConsumeNeverOverdraws
BY PaymentTypeCorrect, ToursInvariance, PaymentTours, PTL

\* Paid currency is taken only for what an empty free balance left, across retries
\* that read other balances.
THEOREM FreeIsTakenFirst == Spec => []FreeBeforePaid
BY PaymentTypeCorrect, ToursInvariance, PaymentTours, PTL

\* The rows of a request that was answered with success add up to the amount it
\* asked for.
THEOREM SuccessesAccounted == Spec => []SuccessIsAccounted
BY PaymentTypeCorrect, ToursInvariance, PaymentTours, PTL

\* As long as no statement breaks, retries never move more than was asked for, and
\* what a finished request moved is on record.
THEOREM RetriesOnce == Spec => []RetriesApplyOnce
BY PaymentTypeCorrect, ToursInvariance, PaymentTours, PTL

-----------------------------------------------------------------------------
(* What payments are answered *)

\* The strengthening: what the requests for a payment have taken covers, in one write
\* or some, what is about to be answered and what was answered; and whoever wrote
\* that the payment is completed has its rows together.
OnlyPayments ==
  \A j \in Jobs :
    job[j].op \in {"none", "payment"} /\ (job[j].op = "none" => job[j].pc = "idle")
Backers(j)   == {w \in writes : w.by \in Payers(job[j].ref)}
Covers(j, n) == n > 0 /\ \E T \in SUBSET Backers(j) : SumOfWrites(T) = -n
PaidWhole    == \A j \in Jobs : job[j].pc = "complete" => Covers(j, TotalConsumed(j))
Replied      == \A j \in Jobs : job[j].op = "payment" /\ job[j].result = "ok" => Covers(j, reply[j])
CompletedFirst ==
  \A r \in Refs : payments[r] = "completed" =>
    \E j \in Payers(r) : job[j].pc = "done" /\ SumOfRows(Recorded(j)) = Asked(j)

\* One write moves what it moves.
LEMMA OneWrite ==
  ASSUME NEW w \in Write
  PROVE  SumOfWrites({w}) = Delta(w)
<1>1. SumOfWrites({} \cup {w}) = SumOfWrites({}) + Delta(w) /\ SumOfWrites({}) = 0
  BY WritesSum, FS_EmptySet
<1>2. {} \cup {w} = {w} /\ Delta(w) \in Int
  BY WriteTypes
<1> QED BY <1>1, <1>2

\* Two writes move their sum.
LEMMA TwoWrites ==
  ASSUME NEW v \in Write, NEW w \in Write, v # w
  PROVE  SumOfWrites({v, w}) = Delta(v) + Delta(w)
<1>1. IsFiniteSet({v})
  BY FS_Singleton
<1>2. SumOfWrites({v} \cup {w}) = SumOfWrites({v}) + Delta(w)
  BY <1>1, WritesSum
<1>3. {v} \cup {w} = {v, w}
  OBVIOUS
<1> QED BY <1>2, <1>3, OneWrite

\* The record after which a payment only has its status to write is that of a save
\* with which the whole amount is taken, in one write or two.
LEMMA RecordCovers ==
  ASSUME LedgerTypeOK, NEW j \in Jobs, Split(j), Carrying(j), Records(j), job'[j].pc \in Past
  PROVE  \E T \in SUBSET Written(j) : SumOfWrites(T) = -job[j].amount
<1>1. /\ job[j].pc = "record" /\ job[j].rest <= job[j].part /\ ~Grants(j)
      /\ job[j].pc \in Under
  BY DEF Records, Past, Split, Grants, Under
<1>2. /\ job[j].rest \in Int /\ job[j].part \in Int /\ job[j].amount \in Int
      /\ job[j].before \in Int /\ Written(j) \in SUBSET Write
  BY JobTypes
<1>3. /\ job[j].part = job[j].rest /\ job[j].ent.balance = job[j].before - job[j].part
      /\ ~OnPaid(j) => job[j].rest = job[j].amount
  BY <1>1, <1>2 DEF Carrying, Numbers, Signed
<1>4. PICK w \in Written(j) :
        w.key = job[j].key /\ w.before = job[j].before /\ w.after = job[j].ent.balance
  BY <1>1 DEF Carrying, Wrote
<1>5. Delta(w) = -job[j].rest
  BY <1>2, <1>3, <1>4 DEF Delta
<1>6. SumOfWrites({w}) = Delta(w)
  BY <1>2, OneWrite
<1>7. CASE job[j].rest = job[j].amount
  BY <1>5, <1>6, <1>7
<1>8. CASE job[j].rest # job[j].amount
  <2>1. OnPaid(j) /\ w.key[2] = "paid"
    BY <1>3, <1>4, <1>8 DEF OnPaid, Carrying, Wrote
  <2>2. PICK v \in Written(j) : v.key[2] = "free" /\ Delta(v) = job[j].rest - job[j].amount
    BY <1>8, <2>1 DEF Carrying, Wrote
  <2>3. SumOfWrites({v, w}) = Delta(v) + Delta(w)
    BY <1>2, <2>1, <2>2, TwoWrites
  <2>4. SumOfWrites({v, w}) = -job[j].amount
    BY <1>2, <1>5, <2>2, <2>3
  <2> QED BY <2>4
<1> QED BY <1>7, <1>8

\* A request keeps its operation and the payment it is for.
LEMMA RefStays ==
  ASSUME NEW j \in Jobs, Journey(j), job[j].pc # "idle"
  PROVE  job'[j].ref = job[j].ref /\ job'[j].op = job[j].op /\ job[j].pc # "done"
BY DEF Journey, Begins, Looks, Answers, Goes, Skips, Takes, SavesOrNot, Records, SamePlan,
       SameRequest, Early, Under, Past

\* Writes that cover an amount keep doing so.
LEMMA CoversStays ==
  ASSUME LedgerTypeOK, Tours, NEW j \in Jobs, Journey(j), NEW i \in Jobs, NEW n,
         job[i].pc # "idle", Covers(i, n)
  PROVE  Covers(i, n)'
<1>1. job'[i].ref = job[i].ref
  BY RefStays DEF Journey
<1>2. \A w \in writes : w \in writes' /\ w.by \in Jobs /\ job'[w.by].ref = job[w.by].ref
  BY WriterStays DEF Tours, Carrying
<1>3. Backers(i) \subseteq Backers(i)'
  BY <1>1, <1>2 DEF Backers, Payers
<1> QED BY <1>3 DEF Covers

\* A payment succeeds by replaying the answer of an earlier one, or by completing.
LEMMA StepOk ==
  ASSUME TypeOK, Tours, OnlyPayments, NEW j \in Jobs, Step(j), Journey(j), job'[j].result = "ok"
  PROVE  \/ /\ PayReplay(j) /\ UNCHANGED writes
            /\ \E h \in history : h.ref = job[j].ref /\ reply' = [reply EXCEPT ![j] = h.amount]
         \/ /\ At(j, "payment", "complete") /\ UNCHANGED writes
            /\ SamePlan(j) /\ reply' = [reply EXCEPT ![j] = TotalConsumed(j)]
<1>1. job[j].result # "ok" /\ job \in [Jobs -> Job]
  BY DEF Tours, Unanswered, Journey, Begins, Looks, Answers, Goes, Skips, Takes, SavesOrNot,
         Records, Early, Under, Past, TypeOK, LedgerTypeOK
<1>2. job'[j].pc = "done"
  BY <1>1 DEF Journey
<1>3. \A res : Finish(j, res) => res = "ok"
  BY <1>1, FinishLeaves
<1>4. /\ \A pc \in {"replay", "find", "fail", "complete"} : ~Goto(j, pc)
      /\ ~TrySave(j) /\ \A r : ~ToPaid(j, r)
  <2>1. \A pc \in {"replay", "find", "fail", "complete"} : ~Goto(j, pc)
    BY <1>1, <1>2, GotoLeaves
  <2>2. \A r : ~ToPaid(j, r)
    BY <1>1, <1>2, ToPaidLeaves
  <2>3. ~TrySave(j)
    <3>1. ~SaveRefused(j)
      BY <1>1, <1>2, SaveRefusedLeaves
    <3>2. ~Goto(j, "record")
      BY <1>1, <1>2, GotoLeaves
    <3> QED BY <3>1, <3>2 DEF TrySave
  <2> QED BY <2>1, <2>2, <2>3
<1>5. \A c \in Row, a \in Int : ~Consume(j, c, a)
  BY <1>1, <1>2, ConsumeLeaves
<1>6. ~PayLookup(j) /\ ~PayFail(j) /\ ~PaySaveFree(j) /\ ~PaySavePaid(j)
  BY <1>3, <1>4 DEF PayLookup, PayFail, PaySaveFree, PaySavePaid, StatementFails
<1>7. ~PayRecordFree(j) /\ ~PayRecordPaid(j)
  BY <1>3, <1>4 DEF PayRecordFree, PayRecordPaid, RecordFreePart, RecordPaidPart, RecordFails
<1>8. job[j].rest \in Int /\ job[j].key \in Keys
  BY JobTypes DEF TypeOK
<1>9. ReadRow(j, job[j].key) => RowOf(j) \in Row
  BY <1>8 DEF TypeOK, LedgerTypeOK, ReadRow, RowOf
<1>10. ~PayFindPaid(j)
  BY <1>3, <1>4, <1>5, <1>8, <1>9 DEF PayFindPaid, StatementFails
<1>11. ~PayFindFree(j)
  <2>1. ReadRow(j, job[j].key) => Smaller(job[j].rest, RowOf(j).balance) \in Int
    BY <1>8, <1>9 DEF Smaller, Row
  <2> QED BY <1>3, <1>4, <1>5, <1>9, <2>1 DEF PayFindFree, TakeFree, StatementFails
<1>12. CASE PayReplay(j)
  BY <1>3, <1>12 DEF PayReplay, StatementFails, ReadOnly
<1>13. CASE PayComplete(j)
  BY <1>1, <1>3, <1>13, FinishLeaves DEF PayComplete
<1> QED BY <1>6, <1>7, <1>10, <1>11, <1>12, <1>13 DEF Step

\* A payment answers nobody else, and only its last statement writes the status.
LEMMA ReplyApart ==
  ASSUME TypeOK, NEW j \in Jobs, PayStart(j) \/ Step(j)
  PROVE  /\ \A i \in Jobs \ {j} : reply'[i] = reply[i]
         /\ UNCHANGED payments \/ PayFail(j) \/ PayComplete(j)
<1>1. reply \in [Jobs -> Int]
  BY DEF TypeOK
<1> QED BY <1>1 DEF PayStart, Step, PayLookup, PayReplay, PayFail, PayComplete, PayFindFree,
       PaySaveFree, PayRecordFree, PayFindPaid, PaySavePaid, PayRecordPaid, payVars

\* A request that starts is a payment, and not yet a success.
LEMMA PayStartLeaves ==
  ASSUME TypeOK, NEW j \in Jobs, PayStart(j)
  PROVE  /\ job[j].pc = "idle" /\ job'[j].op = "payment"
         /\ job'[j].result # "ok" /\ job'[j].pc \in {"lookup", "done"}
<1>1. job \in [Jobs -> Job]
  BY DEF TypeOK, LedgerTypeOK
<1>2. CASE Refuse(j, "payment")
  BY <1>1, <1>2, RefuseLeaves
<1>3. CASE \E u \in Users, a \in Amounts, r \in Refs, m \in BOOLEAN :
             Begin(j, "payment", "lookup", <<u, "free">>, a, m, r)
  BY <1>1, <1>3, BeginLeaves
<1> QED BY <1>2, <1>3 DEF PayStart

\* No other requests appear.
LEMMA OnlyPaymentsStays ==
  ASSUME TypeOK, OnlyPayments, NEW j \in Jobs, PayStart(j) \/ Step(j), Journey(j)
  PROVE  OnlyPayments'
<1>1. job'[j].op = "payment"
  <2>1. CASE PayStart(j)
    BY <2>1, PayStartLeaves
  <2>2. CASE job[j].pc # "idle"
    BY <2>2, RefStays DEF OnlyPayments
  <2> QED BY <2>1, <2>2 DEF Step, PayLookup, PayReplay, PayFail, PayComplete, PayFindFree,
       PaySaveFree, PayRecordFree, PayFindPaid, PaySavePaid, PayRecordPaid, OnType, At
<1> QED BY <1>1 DEF OnlyPayments, Journey

\* The last part is in memory as it was recorded when a payment comes to complete.
LEMMA CompleteArrives ==
  ASSUME TypeOK, NEW j \in Jobs, PayStart(j) \/ Step(j), job'[j].pc = "complete"
  PROVE  SamePlan(j) /\ SameMove(j)
<1>1. job \in [Jobs -> Job]
  BY DEF TypeOK, LedgerTypeOK
<1>2. Step(j)
  BY PayStartLeaves
<1>3. /\ \A res : ~Finish(j, res) /\ \A r : ~ToPaid(j, r)
      /\ \A pc \in {"replay", "find", "fail"} : ~Goto(j, pc)
  BY <1>1, FinishLeaves, ToPaidLeaves, GotoLeaves
<1>4. ~TrySave(j)
  <2>1. ~SaveRefused(j) /\ ~Goto(j, "record")
    BY <1>1, SaveRefusedLeaves, GotoLeaves
  <2> QED BY <2>1 DEF TrySave
<1>5. \A c \in Row, a \in Int : ~Consume(j, c, a)
  BY <1>1, ConsumeLeaves
<1>6. ~PayLookup(j) /\ ~PayReplay(j) /\ ~PayFail(j) /\ ~PaySaveFree(j) /\ ~PaySavePaid(j)
  BY <1>3, <1>4 DEF PayLookup, PayReplay, PayFail, PaySaveFree, PaySavePaid, StatementFails
<1>7. ~PayComplete(j)
  BY <1>3 DEF PayComplete
<1>8. job[j].rest \in Int /\ job[j].key \in Keys
  BY JobTypes DEF TypeOK
<1>9. ReadRow(j, job[j].key) => RowOf(j) \in Row
  BY <1>8 DEF TypeOK, LedgerTypeOK, ReadRow, RowOf
<1>10. ~PayFindPaid(j)
  BY <1>3, <1>5, <1>8, <1>9 DEF PayFindPaid, StatementFails
<1>11. ~PayFindFree(j)
  <2>1. ReadRow(j, job[j].key) => Smaller(job[j].rest, RowOf(j).balance) \in Int
    BY <1>8, <1>9 DEF Smaller, Row
  <2> QED BY <1>3, <1>5, <1>9, <2>1 DEF PayFindFree, TakeFree, StatementFails
<1>12. Goto(j, "complete")
  BY <1>2, <1>3, <1>6, <1>7, <1>10, <1>11
     DEF Step, PayRecordFree, PayRecordPaid, RecordFreePart, RecordPaidPart, RecordFails
<1> QED BY <1>1, <1>12, GotoLeaves

\* Whoever comes to complete a payment has taken what it will report.
LEMMA PaidWholeStays ==
  ASSUME TypeOK, Tours, OnlyPayments, PaidWhole, NEW j \in Jobs, Journey(j),
         PayStart(j) \/ Step(j)
  PROVE  PaidWhole'
<1> SUFFICES ASSUME NEW i \in Jobs, job'[i].pc = "complete"
             PROVE  Covers(i, TotalConsumed(i))'
  BY DEF PaidWhole
<1>1. CASE i # j
  <2>1. job'[i] = job[i] /\ job[i].pc # "idle"
    BY <1>1 DEF Journey
  <2>2. Covers(i, TotalConsumed(i)) /\ TotalConsumed(i)' = TotalConsumed(i)
    BY <2>1 DEF PaidWhole, TotalConsumed
  <2>3. Backers(i) \subseteq Backers(i)'
    <3>1. \A w \in writes : w \in writes' /\ w.by \in Jobs /\ job'[w.by].ref = job[w.by].ref
      BY WriterStays DEF Tours, Carrying, TypeOK
    <3> QED BY <2>1, <3>1 DEF Backers, Payers
  <2> QED BY <2>1, <2>2, <2>3 DEF Covers
<1>2. CASE i = j
  <2>1. job[j].pc # "idle" /\ Records(j)
    BY <1>2 DEF Journey, Begins, Looks, Answers, Goes, Skips, Takes, SavesOrNot, Records, Early,
                Under, Past
  <2>2. Carrying(j) /\ job[j].pc \in Under /\ Written(j) = Written(j)'
    BY <2>1 DEF Tours, Records, Under, Written
  <2>3. Split(j)
    BY <2>1 DEF OnlyPayments, Split
  <2>4. PICK T \in SUBSET Written(j) : SumOfWrites(T) = -job[j].amount
    BY <1>2, <2>1, <2>2, <2>3, RecordCovers DEF TypeOK, Past
  <2>5. job'[j].ref = job[j].ref
    BY <2>1 DEF Records, SameRequest
  <2>6. job[j].amount > 0 /\ TotalConsumed(j)' = job[j].amount
    <3>1. job[j].rest \in Int /\ job[j].amount \in Int /\ job[j].part \in Int
      BY JobTypes DEF TypeOK
    <3>2. job[j].pc = "record" /\ job[j].rest <= job[j].part
      BY <1>2, <2>1, <2>3 DEF Records
    <3>3. job[j].part = job[j].rest /\ job[j].amount > 0
      BY <2>2, <2>3, <3>1, <3>2 DEF Carrying, Numbers
    <3>4. /\ job'[j].amount = job[j].amount /\ job'[j].rest = job[j].rest
          /\ job'[j].part = job[j].part
      BY <1>2, CompleteArrives DEF SamePlan, SameRequest, SameMove
    <3> QED BY <3>1, <3>3, <3>4 DEF TotalConsumed
  <2>7. T \subseteq Backers(j)'
    <3>1. \A w \in Written(j)' : w \in writes' /\ w.by = j
      BY DEF Written
    <3> QED BY <2>2, <2>4, <3>1 DEF Backers, Payers
  <2> QED BY <1>2, <2>4, <2>5, <2>6, <2>7 DEF Covers
<1> QED BY <1>1, <1>2

\* A row that an answer is rebuilt from reports what one write took.
LEMMA ReplayCovers ==
  ASSUME TypeOK, Tours, OnlyPayments, NEW j \in Jobs, NEW h \in history, h.ref = job[j].ref
  PROVE  Covers(j, h.amount)
<1>1. PICK w \in writes :
        Delta(w) = Charge(h) /\ job[w.by].ref = h.ref /\ (h.kind = "grant" <=> Grants(w.by))
  BY DEF Tours, Backed
<1>2. w \in Write /\ w.by \in Jobs /\ w \in Written(w.by) /\ h \in HistoryRow
  BY DEF TypeOK, LedgerTypeOK, Write, Written
<1>3. ~Grants(w.by)
  BY <1>2 DEF OnlyPayments, Grants
<1>4. Delta(w) < 0
  BY <1>2, <1>3 DEF Tours, Carrying, Wrote
<1>5. Delta(w) = -h.amount /\ h.amount \in Int
  BY <1>1, <1>2, <1>3 DEF Charge, HistoryRow
<1>6. SumOfWrites({w}) = -h.amount /\ h.amount > 0
  BY <1>2, <1>4, <1>5, OneWrite
<1>7. {w} \in SUBSET Backers(j)
  BY <1>1, <1>2 DEF Backers, Payers
<1> QED BY <1>6, <1>7 DEF Covers

\* So an answer is covered when it is given, and stays so.
LEMMA RepliedStays ==
  ASSUME TypeOK, Tours, OnlyPayments, PaidWhole, Replied, NEW j \in Jobs, Journey(j),
         PayStart(j) \/ Step(j)
  PROVE  Replied'
<1> SUFFICES ASSUME NEW i \in Jobs, job'[i].op = "payment", job'[i].result = "ok"
             PROVE  Covers(i, reply[i])'
  BY DEF Replied
<1>1. CASE i # j
  <2>1. job'[i] = job[i] /\ reply'[i] = reply[i]
    BY <1>1, ReplyApart DEF Journey
  <2>2. Covers(i, reply[i]) /\ job[i].pc # "idle"
    BY <2>1 DEF Replied, Tours, Unanswered
  <2>3. Backers(i) \subseteq Backers(i)'
    <3>1. \A w \in writes : w \in writes' /\ w.by \in Jobs /\ job'[w.by].ref = job[w.by].ref
      BY WriterStays DEF Tours, Carrying, TypeOK
    <3> QED BY <2>1, <3>1 DEF Backers, Payers
  <2> QED BY <2>1, <2>2, <2>3 DEF Covers
<1>2. CASE i = j
  <2>1. Step(j)
    BY <1>2, PayStartLeaves
  <2>2. reply \in [Jobs -> Int]
    BY DEF TypeOK
  <2>3. job[j].pc # "idle"
    BY <2>1 DEF Step, PayLookup, PayReplay, PayFail, PayComplete, PayFindFree,
       PaySaveFree, PayRecordFree, PayFindPaid, PaySavePaid, PayRecordPaid, OnType, At
  <2>4. Covers(j, reply'[j])
    <3>1. CASE \E h \in history : h.ref = job[j].ref /\ reply' = [reply EXCEPT ![j] = h.amount]
      BY <2>2, <3>1, ReplayCovers
    <3>2. CASE At(j, "payment", "complete") /\ reply' = [reply EXCEPT ![j] = TotalConsumed(j)]
      BY <2>2, <3>2 DEF At, PaidWhole
    <3> QED BY <1>2, <2>1, <3>1, <3>2, StepOk
  <2>5. Backers(j) \subseteq Backers(j)'
    <3>1. \A w \in writes : w \in writes' /\ w.by \in Jobs /\ job'[w.by].ref = job[w.by].ref
      BY WriterStays DEF Tours, Carrying, TypeOK
    <3>2. job'[j].ref = job[j].ref
      BY <2>3, RefStays
    <3> QED BY <3>1, <3>2 DEF Backers, Payers
  <2> QED BY <1>2, <2>4, <2>5 DEF Covers
<1> QED BY <1>1, <1>2

\* A status that says completed was written by a request whose rows add up to its
\* amount; it is answered now and changes nothing any more.
LEMMA CompletedFirstStays ==
  ASSUME ~ClockRepeats, TypeOK, Tours, Tours', CompletedFirst, NEW j \in Jobs, Journey(j),
         PayStart(j) \/ Step(j)
  PROVE  CompletedFirst'
<1> SUFFICES ASSUME NEW r \in Refs, payments'[r] = "completed"
             PROVE  \E i \in Payers(r)' : job'[i].pc = "done"
                                          /\ SumOfRows(Recorded(i)') = Asked(i)'
  BY DEF CompletedFirst
<1>1. CASE payments[r] = "completed"
  <2>1. PICK i \in Payers(r) : job[i].pc = "done" /\ SumOfRows(Recorded(i)) = Asked(i)
    BY <1>1 DEF CompletedFirst
  <2>2. i \in Jobs /\ job[i].ref = r
    BY DEF Payers
  <2>3. i # j
    BY <2>1, RefStays
  <2>4. job'[i] = job[i] /\ Recorded(i)' = Recorded(i)
    <3>1. Own(i)'
      BY <2>2 DEF Tours, Stamped, Stamps, Own
    <3> QED BY <2>1, <2>2, <2>3, <3>1, OtherTables
  <2>5. Asked(i)' = Asked(i)
    BY <2>4 DEF Asked, Grants
  <2> QED BY <2>1, <2>2, <2>4, <2>5 DEF Payers
<1>2. CASE payments[r] # "completed"
  <2>1. payments \in [Refs -> Statuses] /\ job \in [Jobs -> Job]
    BY DEF TypeOK, LedgerTypeOK
  <2>2. ~PayFail(j)
    BY <1>2, <2>1 DEF PayFail
  <2>3. PayComplete(j) /\ payments' = [payments EXCEPT ![job[j].ref] = "completed"]
    BY <1>2, <2>2, ReplyApart DEF PayComplete
  <2>4. job[j].ref = r
    BY <1>2, <2>1, <2>3
  <2>5. /\ SamePlan(j) /\ job'[j].pc = "done" /\ UNCHANGED history
        /\ job[j].pc = "complete"
    BY <2>1, <2>3, FinishLeaves DEF PayComplete, At
  <2>6. SumOfRows(Recorded(j)) = Asked(j)
    <3>1. Own(j) /\ Books(j)
      BY StampsApart DEF Tours, Carrying
    <3> QED BY <2>5, <3>1 DEF Books, Past
  <2>7. Recorded(j)' = Recorded(j) /\ Asked(j)' = Asked(j) /\ job'[j].ref = r
    BY <2>4, <2>5 DEF SamePlan, SameRequest, Recorded, Asked, Grants
  <2> QED BY <2>5, <2>6, <2>7 DEF Payers
<1> QED BY <1>1, <1>2

\* Every behaviour keeps what was just shown of answers.
LEMMA AnswersInvariance == Spec => [](OnlyPayments /\ PaidWhole /\ Replied)
<1>1. Init => OnlyPayments /\ PaidWhole /\ Replied
  BY DEF Init, LedgerInit, IdleJob, OnlyPayments, PaidWhole, Replied
<1>2. TypeOK /\ Tours /\ OnlyPayments /\ PaidWhole /\ Replied /\ [Next]_vars
        => OnlyPayments' /\ PaidWhole' /\ Replied'
  <2> SUFFICES ASSUME TypeOK, Tours, OnlyPayments, PaidWhole, Replied, [Next]_vars
               PROVE  OnlyPayments' /\ PaidWhole' /\ Replied'
    OBVIOUS
  <2>1. CASE \E j \in Jobs : PayStart(j) \/ Step(j)
    <3>1. PICK j \in Jobs : PayStart(j) \/ Step(j)
      BY <2>1
    <3>2. Journey(j)
      BY <3>1, PayStartJourney, PayStepJourney DEF Tours, Carrying, TypeOK
    <3> QED BY <3>1, <3>2, OnlyPaymentsStays, PaidWholeStays, RepliedStays
  <2>2. CASE UNCHANGED <<history, job, faults, writes, payments, reply>>
    <3>1. \A i \in Jobs : Backers(i)' = Backers(i)
      BY <2>2 DEF Backers, Payers
    <3> QED BY <2>2, <3>1 DEF OnlyPayments, PaidWhole, Replied, Covers, TotalConsumed
  <2> QED BY <2>1, <2>2, RestOfPayments
<1> QED BY <1>1, <1>2, PaymentTypeCorrect, ToursInvariance, PTL DEF Spec

\* And what was shown of the status, unless clock readings repeat.
LEMMA CompletedInvariance ==
  ASSUME ~ClockRepeats
  PROVE  Spec => []CompletedFirst
<1>1. Init => CompletedFirst
  BY DEF Init, CompletedFirst
<1>2. TypeOK /\ Tours /\ Tours' /\ CompletedFirst /\ [Next]_vars => CompletedFirst'
  <2> SUFFICES ASSUME TypeOK, Tours, Tours', CompletedFirst, [Next]_vars
               PROVE  CompletedFirst'
    OBVIOUS
  <2>1. CASE \E j \in Jobs : PayStart(j) \/ Step(j)
    <3>1. PICK j \in Jobs : PayStart(j) \/ Step(j)
      BY <2>1
    <3>2. Journey(j)
      BY <3>1, PayStartJourney, PayStepJourney DEF Tours, Carrying, TypeOK
    <3> QED BY <3>1, <3>2, CompletedFirstStays
  <2>2. CASE UNCHANGED <<history, job, faults, writes, payments, reply>>
    <3>1. /\ \A i \in Jobs : Recorded(i)' = Recorded(i) /\ Asked(i)' = Asked(i)
          /\ \A r \in Refs : Payers(r)' = Payers(r) /\ Payers(r) \subseteq Jobs
      BY <2>2 DEF Payers, Recorded, Asked, Grants
    <3> QED BY <2>2, <3>1 DEF CompletedFirst
  <2> QED BY <2>1, <2>2, RestOfPayments
<1> QED BY <1>1, <1>2, PaymentTypeCorrect, ToursInvariance, PTL DEF Spec

\* A payment that its row calls completed was taken and recorded as a whole by one
\* request, whatever other deliveries of it do: for any number of requests, unless
\* clock readings repeat.
THEOREM CompletedPaymentsPaid ==
  ASSUME ~ClockRepeats
  PROVE  Spec => []CompletedIsPaidFor
<1>1. CompletedFirst => CompletedIsPaidFor
  BY DEF CompletedFirst, CompletedIsPaidFor
<1> QED BY <1>1, CompletedInvariance, PTL

\* A payment that was refused has taken no paid currency, as long as no statement
\* broke.
THEOREM FailedPaymentsTakeNoPaid == Spec => []FailedTookNoPaid
<1>1. Tours => FailedTookNoPaid
  <2> SUFFICES ASSUME Tours, faults = 0, NEW j \in Jobs, job[j].op = "payment",
                      job[j].result = "rejected"
               PROVE  \A w \in Written(j) : w.key[2] = "free"
    BY DEF FailedTookNoPaid
  <2>1. job[j].pc = "done" /\ Split(j) /\ Moves(j)
    BY DEF Tours, Unanswered, Split, Carrying
  <2> QED BY <2>1 DEF Moves
<1> QED BY <1>1, ToursInvariance, PTL

\* Whatever total a payment is answered with, at least that much was taken by the
\* requests for its id; and never nothing.
THEOREM PaymentAnswersCovered == Spec => []AnswersAreCovered
<1>1. TypeOK /\ Tours /\ OnlyPayments /\ Replied => AnswersAreCovered
  <2> SUFFICES ASSUME TypeOK, Tours, OnlyPayments, Replied, NEW j \in Jobs,
                      job[j].op = "payment", job[j].result = "ok"
               PROVE  reply[j] \in 1..(-SumOfWrites(Backers(j)))
    BY DEF AnswersAreCovered, Backers
  <2>1. PICK T \in SUBSET Backers(j) : SumOfWrites(T) = -reply[j] /\ reply[j] > 0
    BY DEF Replied, Covers
  <2>2. Backers(j) \in SUBSET Write /\ IsFiniteSet(Backers(j))
    <3>1. Backers(j) \in SUBSET writes
      BY DEF Backers
    <3> QED BY <3>1, FS_Subset DEF TypeOK, LedgerTypeOK, Tours, Finite
  <2>3. \A w \in Backers(j) : Delta(w) <= 0
    <3> SUFFICES ASSUME NEW w \in Backers(j) PROVE Delta(w) <= 0
      OBVIOUS
    <3>1. w \in Write /\ w.by \in Jobs /\ w \in Written(w.by)
      BY <2>2 DEF Write, Written, Backers
    <3>2. ~Grants(w.by)
      BY <3>1 DEF OnlyPayments, Grants
    <3>3. Delta(w) < 0
      BY <3>1, <3>2 DEF Tours, Carrying, Wrote
    <3>4. Delta(w) \in Int
      BY <3>1, WriteTypes
    <3> QED BY <3>3, <3>4
  <2>4. SumOfWrites(Backers(j)) <= -reply[j]
    BY <2>1, <2>2, <2>3, MoreTaken
  <2>5. reply[j] \in Int /\ SumOfWrites(Backers(j)) \in Int
    BY <2>2, WritesSum DEF TypeOK
  <2> QED BY <2>1, <2>4, <2>5
<1> QED BY <1>1, PaymentTypeCorrect, ToursInvariance, AnswersInvariance, PTL

=============================================================================
