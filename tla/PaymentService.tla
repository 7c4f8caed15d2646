----------------------------- MODULE PaymentService ----------------------------
(***************************************************************************)
(* PaymentApplicationService.ProcessPayment: idempotent by the client's     *)
(* payment_request_id.  The payment_requests row is looked up first and     *)
(* written last, each by a statement of its own.                            *)
(***************************************************************************)
EXTENDS FreeThenPaid, LedgerProperties

VARIABLES
  payments,  \* table payment_requests: the status per payment_request_id
  reply,     \* TotalConsumed of the answer of each request
  repeats    \* auxiliary: requests that started when one for their id had succeeded

payVars == <<payments, reply, repeats>>
vars == <<balances, history, job, faults, adjusts, fresh, writes, payments, reply, repeats>>

Statuses == {"none", "pending", "completed", "failed"}

Init ==
  /\ LedgerInit
  /\ payments = [r \in Refs |-> "none"]
  /\ reply = [j \in Jobs |-> 0]
  /\ repeats = {}

PaymentOf(j) == payments[job[j].ref]

-----------------------------------------------------------------------------

PayStart(j) ==
  /\ \E u \in Users, a \in Amounts, r \in Refs :
       \/ a <= 0 /\ Refuse(j, "payment") /\ UNCHANGED repeats
       \/ /\ a > 0
          /\ Begin(j, "payment", "lookup", <<u, "free">>, a, TRUE, r)
          /\ repeats' = IF \E i \in Jobs : job[i].ref = r /\ job[i].result = "ok"
                         THEN repeats \cup {j} ELSE repeats
  /\ UNCHANGED <<store, payments, reply>>

\* Mutant: a failed payment may be tried again.
PayLookupRetriesFailed(j) ==
  /\ At(j, "payment", "lookup")
  /\ ReadOnly /\ UNCHANGED <<fresh, payVars>>
  /\ IF PaymentOf(j) = "completed" THEN Goto(j, "replay") ELSE Goto(j, "find")

\* FindByPaymentRequestID and the three answers it leads to. A new
\* PaymentRequest (status pending) is made in memory only.
PayLookup(j) ==
  /\ At(j, "payment", "lookup")
  /\ UNCHANGED <<fresh, payVars>>
  /\ \/ StatementFails(j)
     \/ /\ ReadOnly
        /\ \/ PaymentOf(j) = "completed" /\ Goto(j, "replay")
           \/ PaymentOf(j) = "failed" /\ Finish(j, "rejected")
           \/ PaymentOf(j) \in {"none", "pending"} /\ Goto(j, "find")

\* The answer to a completed payment is rebuilt from one transactions row with
\* its payment_request_id: the latest by created_at, a column in seconds.
PayReplay(j) ==
  LET rows == {h \in history : h.ref = job[j].ref}
  IN  /\ At(j, "payment", "replay")
      /\ UNCHANGED <<fresh, payments, repeats>>
      /\ \/ StatementFails(j) /\ UNCHANGED reply
         \/ ReadOnly /\ rows = {} /\ Finish(j, "rejected") /\ UNCHANGED reply
         \/ /\ ReadOnly
            /\ \E h \in rows : reply' = [reply EXCEPT ![j] = h.amount]
            /\ Finish(j, "ok")

PayFindFree(j) == OnType(j, "payment", "find", "free") /\ TakeFree(j) /\ UNCHANGED payVars

PaySaveFree(j) == OnType(j, "payment", "save", "free") /\ TrySave(j) /\ UNCHANGED payVars

PayRecordFree(j) ==
  /\ OnType(j, "payment", "record", "free")
  /\ RecordFreePart(j, Goto(j, "complete"))
  /\ UNCHANGED payVars

\* Unlike ConsumeWithPriority, a paid balance that is too low fails the payment.
PayFindPaid(j) ==
  /\ OnType(j, "payment", "find", "paid")
  /\ UNCHANGED payVars
  /\ \/ StatementFails(j)
     \/ MissRow(j, job[j].key) /\ Finish(j, "rejected")
     \/ /\ ReadRow(j, job[j].key)
        /\ IF RowOf(j).balance < job[j].rest
           THEN Goto(j, "fail")
           ELSE Consume(j, RowOf(j), job[j].rest)

\* pr.Fail() and Update, an upsert whose error is dropped.
PayFail(j) ==
  LET fail == payments' = [payments EXCEPT ![job[j].ref] = "failed"]
  IN  /\ At(j, "payment", "fail")
      /\ Finish(j, "rejected")
      /\ UNCHANGED <<balances, history, adjusts, fresh, writes, reply, repeats>>
      /\ \/ Answered /\ fail
         \/ Broken /\ (fail \/ UNCHANGED payments)

PaySavePaid(j) == OnType(j, "payment", "save", "paid") /\ TrySave(j) /\ UNCHANGED payVars

PayRecordPaid(j) ==
  /\ OnType(j, "payment", "record", "paid")
  /\ RecordPaidPart(j, Goto(j, "complete"))
  /\ UNCHANGED payVars

\* Mutant: a paid part adds the whole amount of the request.
TotalOfWhole(j) ==
  IF job[j].rest = job[j].amount THEN job[j].part ELSE job[j].amount - job[j].rest + job[j].amount

\* totalConsumed: the free part, if paid currency was taken too, and the last part.
TotalConsumed(j) == job[j].amount - job[j].rest + job[j].part

\* pr.Complete() and Save, an upsert.
PayComplete(j) ==
  LET complete == payments' = [payments EXCEPT ![job[j].ref] = "completed"]
  IN  /\ At(j, "payment", "complete")
      /\ UNCHANGED <<balances, history, adjusts, fresh, writes, repeats>>
      /\ \/ /\ Answered /\ complete
            /\ reply' = [reply EXCEPT ![j] = TotalConsumed(j)]
            /\ Finish(j, "ok")
         \/ /\ Broken /\ (complete \/ UNCHANGED payments)
            /\ UNCHANGED reply
            /\ Finish(j, "dbError")

-----------------------------------------------------------------------------

Step(j) ==
  \/ PayLookup(j) \/ PayReplay(j) \/ PayFail(j) \/ PayComplete(j)
  \/ PayFindFree(j) \/ PaySaveFree(j) \/ PayRecordFree(j)
  \/ PayFindPaid(j) \/ PaySavePaid(j) \/ PayRecordPaid(j)

Quiescent == (\A j \in Jobs : job[j].pc = "done") /\ UNCHANGED vars

Next ==
  \/ \E j \in Jobs : PayStart(j) \/ Step(j)
  \/ \E k \in Keys : Adjust(k) /\ UNCHANGED payVars
  \/ Quiescent

Spec == Init /\ [][Next]_vars

FairSpec == Spec /\ \A j \in Jobs : WF_vars(Step(j))

-----------------------------------------------------------------------------
(* Properties *)

TypeOK ==
  /\ LedgerTypeOK
  /\ payments \in [Refs -> Statuses]
  /\ reply \in [Jobs -> Int]
  /\ repeats \in SUBSET Jobs

Payers(r) == {j \in Jobs : job[j].ref = r}
TakenFor(r) == SumOfRows({h \in history : h.ref = r})

\* The idempotency the code does provide: once some request for an id has been
\* answered with success, no request that starts afterwards for that id moves
\* any money, whatever slower requests for it still do to the status.
RepeatsMoveNothing == \A j \in repeats : Written(j) = {}

\* A payment_requests row says completed only if one request took and recorded
\* the whole amount for it.
CompletedIsPaidFor ==
  \A r \in Refs : payments[r] = "completed" =>
    \E j \in Payers(r) : SumOfRows(Recorded(j)) = Asked(j)

\* A request that ends by marking its payment failed has taken no paid currency
\* (its free part may be gone) as long as no statement broke.
FailedTookNoPaid ==
  faults = 0 => \A j \in Jobs :
    job[j].op = "payment" /\ job[j].result = "rejected" =>
      \A w \in Written(j) : w.key[2] = "free"

\* The total a payment is answered with, by whichever request for its id, was really
\* taken: a repeat, which rebuilds it from one of the rows, may report a part of it,
\* but never nothing, nor more than the requests for that id have taken.
AnswersAreCovered ==
  \A j \in Jobs :
    job[j].op = "payment" /\ job[j].result = "ok" =>
      reply[j] \in 1..(-SumOfWrites({w \in writes : w.by \in Payers(job[j].ref)}))

\* Every request that starts is answered.
EveryPaymentIsAnswered ==
  \A j \in Jobs : job[j].pc # "idle" ~> job[j].pc = "done"

-----------------------------------------------------------------------------
(* What the documents promise, and the code does not keep *)

\* Idempotency by payment_request_id: however often a client sends a payment,
\* no more than its amount is taken (all its requests carry the same amount).
PaidAtMostOnce ==
  \A r \in Refs : \A j \in Payers(r) : -TakenFor(r) <= job[j].amount

=============================================================================
