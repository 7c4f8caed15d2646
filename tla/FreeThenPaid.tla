------------------------------ MODULE FreeThenPaid -----------------------------
(***************************************************************************)
(* Taking an amount from free currency first and the rest from paid         *)
(* currency.  CurrencyApplicationService.ConsumeWithPriority and            *)
(* PaymentApplicationService.ProcessPayment each hold a copy of this code;  *)
(* the operators below are the steps the two copies have in common.         *)
(***************************************************************************)
EXTENDS LedgerStore

OnType(j, op, pc, t) == At(j, op, pc) /\ job[j].key[2] = t

Smaller(a, b) == IF a > b THEN b ELSE a

\* Mutant: the paid part is not reduced by the free part.
ToPaidWhole(j, rest) ==
  job' = [job EXCEPT ![j].pc = "find", ![j].key = Typed(j, "paid"),
                     ![j].rest = job[j].amount, ![j].part = job[j].amount,
                     ![j].attempt = 0, ![j].retried = FALSE]

\* Nothing (more) to take from free currency: the paid loop starts afresh.
ToPaid(j, rest) ==
  job' = [job EXCEPT ![j].pc = "find", ![j].key = Typed(j, "paid"),
                     ![j].rest = rest, ![j].part = rest,
                     ![j].attempt = 0, ![j].retried = FALSE]

\* The first read of free currency may find no row or no positive balance; a
\* retry takes both for errors.
TakeFree(j) ==
  LET c == RowOf(j)
  IN  \/ StatementFails(j)
      \/ /\ MissRow(j, job[j].key)
         /\ IF job[j].attempt = 0 THEN ToPaid(j, job[j].rest) ELSE Finish(j, "rejected")
      \/ /\ ReadRow(j, job[j].key)
         /\ IF job[j].attempt = 0 /\ c.balance <= 0
            THEN ToPaid(j, job[j].rest)
            ELSE Consume(j, c, Smaller(job[j].rest, c.balance))

\* Mutant: the free part counts as the whole.
RecordFreeOnly(j, covered) ==
  \/ RecordFails(j, "free", "consume")
  \/ Answered /\ Record(j, "free", "consume") /\ covered

\* retryErr of an earlier attempt is still set when the loop is left by break.
RecordFreePart(j, covered) ==
  LET left == job[j].rest - job[j].part
  IN  \/ RecordFails(j, "free", "consume")
      \/ /\ Answered
         /\ Record(j, "free", "consume")
         /\ \/ job[j].retried /\ Finish(j, "conflict")
            \/ ~job[j].retried /\ left > 0 /\ ToPaid(j, left)
            \/ ~job[j].retried /\ left <= 0 /\ covered

\* Mutant: a payment with retryErr set is marked failed.
RecordPaidThenFail(j, covered) ==
  \/ RecordFails(j, "paid", "consume")
  \/ /\ Answered
     /\ Record(j, "paid", "consume")
     /\ IF job[j].retried THEN Goto(j, "fail") ELSE covered

RecordPaidPart(j, covered) ==
  \/ RecordFails(j, "paid", "consume")
  \/ /\ Answered
     /\ Record(j, "paid", "consume")
     /\ \/ job[j].retried /\ Finish(j, "conflict")
        \/ ~job[j].retried /\ covered

=============================================================================
