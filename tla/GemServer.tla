------------------------------- MODULE GemServer -------------------------------
(***************************************************************************)
(* All use cases of the server at once: each request runs one operation of   *)
(* the currency, payment or redemption service, and they share the tables    *)
(* of balances and transactions.                                             *)
(***************************************************************************)
EXTENDS LedgerProperties

CONSTANTS
  Codes, NoCode, Campaigns, MaxTime  \* as in RedemptionService

VARIABLES
  payments, reply, repeats,             \* as in PaymentService
  codes, redemptions, now, claim, again \* as in RedemptionService

payVars  == <<payments, reply, repeats>>
codeVars == <<codes, redemptions, now, claim, again>>
vars == <<balances, history, job, faults, adjusts, fresh, writes, payVars, codeVars>>

Currency   == INSTANCE CurrencyService
Payment    == INSTANCE PaymentService
Redemption == INSTANCE RedemptionService

\* What RedemptionService assumes of its constants.
ASSUME ServerAssumption ==
  /\ Codes # {} /\ NoCode \notin Redemption!CodeRow
  /\ Campaigns \subseteq Redemption!Campaign
  /\ MaxTime \in Nat

Init == Payment!Init /\ Redemption!Init

CurrencyRequest(j) ==
  /\ Currency!Start(j) \/ Currency!Step(j)
  /\ UNCHANGED <<payVars, codeVars>>

PaymentRequest(j) ==
  /\ Payment!PayStart(j) \/ Payment!Step(j)
  /\ UNCHANGED codeVars

RedemptionRequest(j) ==
  /\ Redemption!Start(j) \/ Redemption!Step(j)
  /\ UNCHANGED payVars

Administration ==
  \/ \E c \in Codes : Redemption!CreateCode(c) /\ UNCHANGED payVars
  \/ \E k \in Keys : Adjust(k) /\ UNCHANGED <<payVars, codeVars>>
  \/ Redemption!Tick /\ UNCHANGED payVars

Quiescent == (\A j \in Jobs : job[j].pc = "done") /\ UNCHANGED vars

Next ==
  \/ \E j \in Jobs : CurrencyRequest(j) \/ PaymentRequest(j) \/ RedemptionRequest(j)
  \/ Administration
  \/ Quiescent

Spec == Init /\ [][Next]_vars

=============================================================================
