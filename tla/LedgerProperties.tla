--------------------------- MODULE LedgerProperties ----------------------------
(***************************************************************************)
(* What holds of the shared tables whichever use cases run on them, and     *)
(* what the documents promise of them.  The modules of the use cases check  *)
(* these definitions against their own steps.                               *)
(***************************************************************************)
EXTENDS LedgerStore, FiniteSetsExt

LedgerTypeOK ==
  /\ balances \in [Keys -> Row \cup {NoRow}]
  /\ history \in SUBSET HistoryRow
  /\ job \in [Jobs -> Job]
  /\ faults \in 0..MaxFaults /\ adjusts \in 0..MaxAdjusts
  /\ fresh \in SUBSET (Jobs \X Keys)
  /\ writes \in SUBSET Write

\* Grant's overflow check and Consume's balance check, on values read several
\* steps before they are written back, keep every stored balance within
\* [MinBalance, MaxAmount]: FindByUserIDAndType never meets a row that
\* NewCurrency refuses.
BalancesInRange ==
  \A k \in Keys : balances[k] # NoRow => balances[k].balance \in InRange

\* The entity counts its version up before Save compares it with the row, so
\* the UPDATE misses every row that nobody wrote since it was read: what the
\* optimistic lock lets through is exactly a lost update.
FreshSaveIsRefused ==
  \A j \in Jobs :
    job[j].pc = "save" /\ <<j, job[j].key>> \in fresh => ~SaveMatches(j)

\* Consequence for all use cases together: until somebody writes beside the service,
\* no request changes a row that exists, neither by Save nor by the upsert of a
\* Create that another request's Create forestalled, however they interleave.
ServiceAloneIsFrozen ==
  [][\A k \in Keys : adjusts' = 0 /\ balances[k] # NoRow
       => balances'[k] = balances[k]]_balances

\* Why these hold: the strengthening that every step preserves.

\* An entity on its way to Save stands one version ahead of a row that nobody
\* wrote since it was read.
FreshEntity ==
  \A j \in Jobs :
    job[j].pc = "save" /\ <<j, job[j].key>> \in fresh =>
      RowOf(j) # NoRow /\ job[j].ent.version = RowOf(j).version + 1

\* Until the first adjustment that is so whether or not the row was created
\* again, because a row can only be created again while it is empty.
UntouchedEntity ==
  adjusts = 0 => \A j \in Jobs :
    /\ job[j].pc = "save" => RowOf(j) # NoRow /\ job[j].ent.version = RowOf(j).version + 1
    /\ job[j].pc = "create" => RowOf(j) \in {NoRow, Zero}

\* Save writes back a balance that Grant or Consume accepted.
EntityInRange == \A j \in Jobs : job[j].pc = "save" => job[j].ent.balance \in InRange

LedgerInv == FreshEntity /\ UntouchedEntity /\ BalancesInRange /\ EntityInRange

Written(j)  == {w \in writes : w.by = j}
Recorded(j) == {h \in history : h.id[1] = job[j].stamp}
OwnStamp(j) == \A i \in Jobs \ {j} : job[i].stamp # job[j].stamp
Delta(w)    == w.after - w.before
Charge(h)   == IF h.kind = "grant" THEN h.amount ELSE -h.amount
Grants(j)   == job[j].op \in {"grant", "redeem"}
Asked(j)    == IF Grants(j) THEN job[j].amount ELSE -job[j].amount

SumOfRows(S)   == MapThenSumSet(LAMBDA h : Charge(h), S)
SumOfWrites(S) == MapThenSumSet(LAMBDA w : Delta(w), S)

\* Every row of the transactions table describes a balance written under its
\* transaction_id: same key, balance_before, balance_after, and an amount that is
\* their difference. Holds although the two statements commit separately.
HistoryIsBacked ==
  \A h \in history : \E w \in writes :
    /\ job[w.by].stamp = h.id[1] /\ w.key = h.key
    /\ w.before = h.before /\ w.after = h.after
    /\ Delta(w) = Charge(h)

\* A success answer is fully accounted for: the request's history rows add up
\* to the amount it asked for, split or not between free and paid currency, unless
\* another request shares its clock reading and with it the transaction_id. (A
\* payment answered from an earlier one writes nothing.)
SuccessIsAccounted ==
  \A j \in Jobs :
    /\ job[j].result = "ok" /\ OwnStamp(j)
    /\ job[j].op = "payment" => Written(j) # {}
    => SumOfRows(Recorded(j)) = Asked(j)

\* While no statement breaks, retries never apply a request twice: what it
\* wrote stays within what it asked for, and every finished request that carries
\* metadata and has its own transaction_id has a row for every balance it wrote.
RetriesApplyOnce ==
  faults = 0 => \A j \in Jobs :
    LET moved == SumOfWrites(Written(j))
    IN  /\ IF Grants(j) THEN moved \in 0..Asked(j) ELSE moved \in Asked(j)..0
        /\ job[j].pc = "done" /\ job[j].meta /\ OwnStamp(j) => SumOfRows(Recorded(j)) = moved

\* No consumption drives a balance below zero, whatever it overwrites.
ConsumeNeverOverdraws ==
  \A w \in writes : ~Grants(w.by) => w.after >= 0

\* ConsumeWithPriority and ProcessPayment touch paid currency only once the free
\* balance they read is used up: the paid part is what free could not cover.
FreeBeforePaid ==
  \A w \in writes :
    job[w.by].op \in {"priority", "payment"} /\ w.key[2] = "paid" =>
      \/ /\ -Delta(w) = job[w.by].amount
         /\ \A v \in Written(w.by) : v.key[2] = "paid"
      \/ \E v \in Written(w.by) :
            v.key[2] = "free" /\ v.after = 0 /\ Delta(v) + Delta(w) = Asked(w.by)

-----------------------------------------------------------------------------
(* The promise behind it all *)

\* What a client is told: only these operations promise a movement. A payment may
\* be answered from the record of an earlier one, and a deletion moves nothing.
Told(j) ==
  IF job[j].pc # "done" THEN "none"
  ELSE IF job[j].result = "ok" /\ job[j].op \in {"grant", "consume", "priority", "redeem"}
       THEN "moved" ELSE "other"

Promise == INSTANCE Accounts WITH
  rows     <- balances,
  adjusted <- adjusts > 0,
  movers   <- {w.by : w \in writes},
  answers  <- [j \in Jobs |-> Told(j)]

\* The use cases implement Accounts: whatever they interleave, retry or break off,
\* balances are opened, moved within the range and never after the answer, and
\* nobody is told of a movement that was not made.
KeepsAccounts == Promise!Spec

-----------------------------------------------------------------------------
(* What the documents promise, and the code does not keep *)

\* Optimistic locking by the version column (docs/SECURITY_REVIEW_REPORT.md):
\* a save nobody interfered with goes through.
UncontendedSaveSucceeds ==
  \A j \in Jobs :
    job[j].pc = "save" /\ <<j, job[j].key>> \in fresh => SaveMatches(j)

\* Consistency by database transactions (docs/SECURITY_REVIEW_REPORT.md): a
\* request that is answered with an error changed no balance.
FailureChangesNothing ==
  \A j \in Jobs :
    job[j].pc = "done" /\ job[j].result # "ok" => Written(j) = {}

=============================================================================
