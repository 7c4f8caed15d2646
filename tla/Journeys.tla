-------------------------------- MODULE Journeys -------------------------------
(***************************************************************************)
(* What one request does on its way, whichever use case it runs: eight kinds *)
(* of step, and the invariant they keep together, from which what a request  *)
(* has written and recorded can be read off its place.                       *)
(***************************************************************************)
EXTENDS LedgerProperties, FiniteSets

\* Places before a balance is read, around its change, and after the change.
Early == {"idle", "checkFree", "checkPaid", "lookup", "replay", "hasRedeemed", "update",
          "count", "delete"}
Under == {"find", "create", "save", "record", "fail"}
Past  == {"complete", "saveRedemption"}

Split(j)     == job[j].op \in {"priority", "payment"}
OnPaid(j)    == job[j].key[2] = "paid"
Signed(j, a) == IF Grants(j) THEN a ELSE -a

\* What was moved and recorded before the change under way: the free part, once
\* the request is on paid currency.
Due(j) == IF Split(j) THEN job[j].rest - job[j].amount ELSE 0

\* No request that was started shares the stamp.
Own(j) == \A i \in Jobs \ {j} : job[i].pc # "idle" => job[i].stamp # job[j].stamp

-----------------------------------------------------------------------------
(* Kinds of step *)

SameRequest(j) ==
  /\ job'[j].op = job[j].op /\ job'[j].amount = job[j].amount /\ job'[j].stamp = job[j].stamp
  /\ job'[j].meta = job[j].meta /\ job'[j].ref = job[j].ref
SamePlan(j) == SameRequest(j) /\ job'[j].key = job[j].key /\ job'[j].rest = job[j].rest
SameMove(j) ==
  job'[j].part = job[j].part /\ job'[j].before = job[j].before /\ job'[j].ent = job[j].ent
Still == UNCHANGED <<writes, history>>

\* The request is refused, or begins with the whole amount to move.
Begins(j) ==
  /\ job[j].pc = "idle" /\ Still
  /\ job'[j].attempt = 0 /\ job'[j].stamp \in Stamps(j) \cup {job[j].stamp}
  /\ \/ /\ job'[j].pc = "done" /\ job'[j].result = "rejected"
        /\ job'[j].amount = job[j].amount /\ job'[j].rest = job[j].rest
     \/ /\ job'[j].pc \in (Early \ {"idle"}) \cup {"find"} /\ job'[j].result = "none"
        /\ job'[j].amount >= 0 /\ job'[j].rest = job'[j].amount
        /\ job'[j].op = "delete" => job'[j].amount = 0
        /\ job'[j].op \in {"priority", "payment"} => job'[j].amount > 0 /\ job'[j].key[2] = "free"

\* A statement before the first balance is read to change it.
Looks(j) ==
  /\ job[j].pc \in Early \ {"idle"} /\ Still
  /\ job'[j].op = job[j].op /\ job'[j].stamp = job[j].stamp /\ job'[j].meta = job[j].meta
  /\ job'[j].ref = job[j].ref /\ job'[j].attempt = job[j].attempt
  /\ job'[j].amount >= 0
  /\ job[j].op = "delete" => job'[j].amount = job[j].amount
  /\ Split(j) => job'[j].key = job[j].key /\ job'[j].amount = job[j].amount
  /\ \/ /\ job'[j].pc \in (Early \ {"idle"}) \cup {"find"}
        /\ Split(j) /\ job'[j].pc # "checkPaid" =>
             \/ job'[j].rest = job[j].amount
             \/ job'[j].rest = job[j].rest /\ job[j].pc # "checkPaid"
     \/ /\ job'[j].pc = "done"
        /\ job'[j].result = "ok" => job[j].op = "payment" \/ job[j].op = "delete"

\* An answer that writes neither a balance nor a row of the history.
Answers(j) ==
  /\ job[j].pc \in Under \cup Past /\ Still /\ SamePlan(j)
  /\ job'[j].pc = "done"
  /\ job'[j].result = "ok" => job[j].pc \in Past
  /\ job'[j].result = "rejected" => job[j].pc \in {"find", "create", "fail"}
  /\ job[j].pc = "record" => faults' > 0 \/ ~job[j].meta

\* The row is missing, or too low for a payment.
Goes(j) ==
  /\ job[j].pc = "find" /\ Still /\ SamePlan(j)
  /\ job'[j].pc \in {"create", "fail"} /\ job'[j].attempt = job[j].attempt

\* There is no free currency to take: all of the rest is left to paid currency.
Skips(j) ==
  /\ job[j].pc = "find" /\ Split(j) /\ ~OnPaid(j) /\ job[j].attempt = 0
  /\ Still /\ SameRequest(j)
  /\ job'[j].pc = "find" /\ job'[j].key[2] = "paid" /\ job'[j].rest = job[j].rest

\* The balance that was read is changed in memory.
Takes(j) ==
  LET n == job'[j] IN
  /\ job[j].pc \in {"find", "create"} /\ Still /\ SamePlan(j)
  /\ n.pc = "save" /\ n.attempt = job[j].attempt
  /\ n.part > 0 /\ n.ent.balance = n.before + Signed(j, n.part)
  /\ ~Grants(j) => n.ent.balance >= 0
  /\ ~Split(j) => n.part = n.amount
  /\ Split(j) => n.part <= n.rest /\ (n.part < n.rest => ~OnPaid(j) /\ n.ent.balance = 0)

NewWrite(j) ==
  [by |-> j, attempt |-> job[j].attempt, key |-> job[j].key,
   before |-> job[j].before, after |-> job[j].ent.balance]

\* The balance is written or refused; what was written leads to the record, unless
\* a statement broke.
SavesOrNot(j) ==
  /\ job[j].pc = "save" /\ SamePlan(j) /\ UNCHANGED history
  /\ \/ /\ writes' = writes \cup {NewWrite(j)}
        /\ job'[j].pc = "record" \/ faults' > 0
     \/ UNCHANGED writes /\ job'[j].pc # "record"
  /\ \/ job'[j].pc = "record" /\ SameMove(j)
     \/ job'[j].pc = "find" /\ job'[j].attempt = job[j].attempt + 1
     \/ job'[j].pc = "done" /\ job'[j].result = "conflict"

NewRow(j, suffix) ==
  [id |-> <<job[j].stamp, suffix>>, key |-> job[j].key,
   kind |-> IF Grants(j) THEN "grant" ELSE "consume",
   amount |-> job[j].part, before |-> job[j].before,
   after |-> job[j].ent.balance, ref |-> job[j].ref]

Suffix(j) == IF Split(j) THEN job[j].key[2] ELSE ""

\* The row of the history is inserted; the request ends, or goes on to its last
\* statement, or to paid currency with what free currency did not cover.
Records(j) ==
  /\ job[j].pc = "record" /\ job[j].meta /\ UNCHANGED writes /\ SameRequest(j)
  /\ Insert(NewRow(j, Suffix(j)))
  /\ \/ /\ job'[j].pc = "done" /\ job'[j].key = job[j].key /\ job'[j].rest = job[j].rest
        /\ \/ job'[j].result = "dbError" /\ faults' > 0
           \/ job'[j].result = "conflict" /\ Split(j)
     \/ /\ job'[j].key = job[j].key /\ job'[j].rest = job[j].rest
        /\ job'[j].pc \in Past \/ (job'[j].pc = "done" /\ job'[j].result = "ok")
        /\ Split(j) => job[j].rest <= job[j].part
     \/ /\ Split(j) /\ ~OnPaid(j) /\ job[j].rest > job[j].part
        /\ job'[j].pc = "find" /\ job'[j].key[2] = "paid"
        /\ job'[j].rest = job[j].rest - job[j].part

Journey(j) ==
  /\ \A i \in Jobs \ {j} : job'[i] = job[i]
  /\ faults' >= faults
  /\ job'[j].pc # "done" => job'[j].result \in {"none", job[j].result}
  /\ \/ Begins(j) \/ Looks(j) \/ Answers(j) \/ Goes(j) \/ Skips(j) \/ Takes(j)
     \/ SavesOrNot(j) \/ Records(j)

-----------------------------------------------------------------------------
(* The invariant of a request *)

\* The amounts of the request and of the change under way fit together.
Numbers(j) ==
  LET r == job[j] IN
  /\ r.amount >= 0
  /\ r.pc = "idle" => r.amount = 0 /\ r.rest = 0
  /\ r.op = "delete" => r.amount = 0
  /\ r.pc \in Early => r.attempt = 0
  /\ r.pc \in Early /\ Split(j) =>
       r.amount > 0 /\ ~OnPaid(j) /\ (r.pc # "checkPaid" => r.rest = r.amount)
  /\ r.pc \in Under /\ Split(j) =>
       0 < r.rest /\ r.rest <= r.amount /\ (~OnPaid(j) => r.rest = r.amount)
  /\ r.pc \in {"save", "record"} =>
       /\ r.part > 0 /\ r.ent.balance = r.before + Signed(j, r.part)
       /\ ~Grants(j) => r.ent.balance >= 0
       /\ ~Split(j) => r.part = r.amount
       /\ Split(j) => r.part <= r.rest /\ (r.part < r.rest => ~OnPaid(j) /\ r.ent.balance = 0)

\* What it has written so far: nothing early, what it is about to record, and paid
\* currency only for what an empty free balance left.
Wrote(j) ==
  /\ job[j].pc \in Early => Written(j) = {}
  /\ job[j].pc = "record" => \E w \in Written(j) :
       w.key = job[j].key /\ w.before = job[j].before /\ w.after = job[j].ent.balance
  /\ \A w \in Written(j) :
       /\ IF Grants(j) THEN Delta(w) > 0 ELSE Delta(w) < 0 /\ w.after >= 0
       /\ Split(j) /\ w.key[2] = "paid" => OnPaid(j) /\ -Delta(w) = job[j].rest
  /\ Split(j) /\ ~OnPaid(j) /\ job[j].pc \in {"find", "create", "save"} /\ job[j].attempt = 0
       => Written(j) = {}
  /\ Split(j) /\ OnPaid(j) =>
       \/ job[j].rest = job[j].amount /\ \A w \in Written(j) : w.key[2] = "paid"
       \/ \E v \in Written(j) :
            v.key[2] = "free" /\ v.after = 0 /\ Delta(v) = job[j].rest - job[j].amount

\* What the history says of it, unless another request shares its stamp.
Books(j) == Own(j) /\ job[j].pc # "idle" =>
  /\ job[j].pc \in Early => Recorded(j) = {}
  /\ job[j].pc \in Under =>
       /\ SumOfRows(Recorded(j)) = Due(j)
       /\ \A h \in Recorded(j) : Split(j) /\ OnPaid(j) /\ h.id[2] = "free"
  /\ job[j].pc \in Past => SumOfRows(Recorded(j)) = Asked(j)
  /\ job[j].pc = "done" /\ job[j].result = "ok" =>
       SumOfRows(Recorded(j)) = Asked(j) \/ (job[j].op = "payment" /\ Written(j) = {})

\* How much it has moved, as long as no statement broke.
Moves(j) == faults = 0 =>
  LET moved == SumOfWrites(Written(j)) IN
  /\ job[j].pc \in Under \ {"record"} =>
       moved = Due(j) /\ \A w \in Written(j) : Split(j) /\ OnPaid(j) /\ w.key[2] = "free"
  /\ job[j].pc = "record" => moved = Due(j) + Signed(j, job[j].part)
  /\ job[j].pc \in Past => moved = Asked(j)
  /\ job[j].pc = "done" =>
       /\ IF Split(j) THEN moved \in Asked(j)..0 ELSE moved \in {0, Asked(j)}
       /\ job[j].meta /\ Own(j) => SumOfRows(Recorded(j)) = moved
       /\ job[j].result = "rejected" /\ Split(j) => \A w \in Written(j) : w.key[2] = "free"

Carrying(j) == Numbers(j) /\ Wrote(j) /\ Books(j) /\ Moves(j)

-----------------------------------------------------------------------------
(* The invariant of the ledger *)

\* HistoryIsBacked, with the kind and the payment of the request that wrote.
Backed ==
  \A h \in history : \E w \in writes :
    /\ job[w.by].stamp = h.id[1] /\ w.key = h.key
    /\ w.before = h.before /\ w.after = h.after
    /\ Delta(w) = Charge(h)
    /\ job[w.by].ref = h.ref /\ (h.kind = "grant" <=> Grants(w.by))

Finite     == IsFiniteSet(writes) /\ IsFiniteSet(history)
Unanswered == \A j \in Jobs : job[j].pc # "done" => job[j].result = "none"
Stamped    == \A j \in Jobs : job[j].stamp \in Stamps(j)

Tours == Finite /\ Backed /\ Unanswered /\ Stamped /\ \A j \in Jobs : Carrying(j)

=============================================================================
