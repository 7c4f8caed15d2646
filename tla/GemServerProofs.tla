----------------------------- MODULE GemServerProofs ---------------------------
(***************************************************************************)
(* The whole server implements Accounts and keeps what the ledger promises:  *)
(* what the proofs of the three services show of their steps holds of the    *)
(* same steps when all services run at once.                                 *)
(***************************************************************************)
EXTENDS GemServer, LedgerProofs

C == INSTANCE CurrencyServiceProofs
P == INSTANCE PaymentServiceProofs
R == INSTANCE RedemptionServiceProofs

\* What the services assume of their constants is what the server assumes.
LEMMA AssumptionsHold ==
  C!LedgerAssumption /\ P!LedgerAssumption /\ R!LedgerAssumption /\ R!RedemptionAssumption
BY LedgerAssumption, ServerAssumption
   DEF C!LedgerAssumption, P!LedgerAssumption, R!LedgerAssumption, R!RedemptionAssumption,
       Row, C!Row, P!Row, R!Row, InRange, C!InRange, P!InRange, R!InRange,
       Redemption!CodeRow, R!CodeRow, Redemption!Campaign, R!Campaign,
       Redemption!CurrencyTypes, R!CurrencyTypes

-----------------------------------------------------------------------------
(* Each definition is reached by two names: as part of GemServer, and as part  *)
(* of the module that proves something of it.                                  *)

LEMMA SameCurrency ==
  ASSUME NEW j \in Jobs, Currency!Start(j) \/ Currency!Step(j)
  PROVE  C!Start(j) \/ C!Step(j)
BY Zenon
   DEF Currency!Answered, C!Answered, Currency!At, C!At, Currency!BalanceOr0, C!BalanceOr0,
       Currency!Begin, C!Begin, Currency!Broken, C!Broken, Currency!CheckFree, C!CheckFree,
       Currency!CheckPaid, C!CheckPaid, Currency!Consume, C!Consume, Currency!ConsumeFind,
       C!ConsumeFind, Currency!ConsumeRecord, C!ConsumeRecord, Currency!ConsumeRejects,
       C!ConsumeRejects, Currency!ConsumeSave, C!ConsumeSave, Currency!ConsumeStart,
       C!ConsumeStart, Currency!CreateRow, C!CreateRow, Currency!CurrencyTypes,
       C!CurrencyTypes, Currency!FindFree, C!FindFree, Currency!FindPaid, C!FindPaid,
       Currency!Finish, C!Finish, Currency!Goto, C!Goto, Currency!Grant, C!Grant,
       Currency!GrantCreate, C!GrantCreate, Currency!GrantFind, C!GrantFind,
       Currency!GrantRecord, C!GrantRecord, Currency!GrantRejects, C!GrantRejects,
       Currency!GrantSave, C!GrantSave, Currency!GrantStart, C!GrantStart, Currency!IdleJob,
       C!IdleJob, Currency!Insert, C!Insert, Currency!Keys, C!Keys, Currency!MissRow,
       C!MissRow, Currency!Moved, C!Moved, Currency!OnType, C!OnType, Currency!ReadOnly,
       C!ReadOnly, Currency!ReadRow, C!ReadRow, Currency!Record, C!Record,
       Currency!RecordFails, C!RecordFails, Currency!RecordFree, C!RecordFree,
       Currency!RecordFreePart, C!RecordFreePart, Currency!RecordPaid, C!RecordPaid,
       Currency!RecordPaidPart, C!RecordPaidPart, Currency!Refuse, C!Refuse, Currency!RowOf,
       C!RowOf, Currency!SaveFree, C!SaveFree, Currency!SaveMatches, C!SaveMatches,
       Currency!SavePaid, C!SavePaid, Currency!SaveRefused, C!SaveRefused, Currency!SaveRow,
       C!SaveRow, Currency!Smaller, C!Smaller, Currency!Stamps, C!Stamps, Currency!Start,
       C!Start, Currency!StatementFails, C!StatementFails, Currency!Step, C!Step,
       Currency!TakeFree, C!TakeFree, Currency!ToPaid, C!ToPaid, Currency!TrySave,
       C!TrySave, Currency!Typed, C!Typed, Currency!WriteRow, C!WriteRow, Currency!Zero,
       C!Zero, Currency!store, C!store

LEMMA SamePayment ==
  ASSUME NEW j \in Jobs, Payment!PayStart(j) \/ Payment!Step(j)
  PROVE  P!PayStart(j) \/ P!Step(j)
BY Zenon
   DEF Payment!Answered, P!Answered, Payment!At, P!At, Payment!Begin, P!Begin, Payment!Broken,
       P!Broken, Payment!Consume, P!Consume, Payment!ConsumeRejects, P!ConsumeRejects,
       Payment!CurrencyTypes, P!CurrencyTypes, Payment!Finish, P!Finish, Payment!Goto,
       P!Goto, Payment!IdleJob, P!IdleJob, Payment!Insert, P!Insert, Payment!Keys, P!Keys,
       Payment!MissRow, P!MissRow, Payment!Moved, P!Moved, Payment!OnType, P!OnType,
       Payment!PayComplete, P!PayComplete, Payment!PayFail, P!PayFail, Payment!PayFindFree,
       P!PayFindFree, Payment!PayFindPaid, P!PayFindPaid, Payment!PayLookup, P!PayLookup,
       Payment!PayRecordFree, P!PayRecordFree, Payment!PayRecordPaid, P!PayRecordPaid,
       Payment!PayReplay, P!PayReplay, Payment!PaySaveFree, P!PaySaveFree,
       Payment!PaySavePaid, P!PaySavePaid, Payment!PayStart, P!PayStart, Payment!PaymentOf,
       P!PaymentOf, Payment!ReadOnly, P!ReadOnly, Payment!ReadRow, P!ReadRow,
       Payment!Record, P!Record, Payment!RecordFails, P!RecordFails, Payment!RecordFreePart,
       P!RecordFreePart, Payment!RecordPaidPart, P!RecordPaidPart, Payment!Refuse, P!Refuse,
       Payment!RowOf, P!RowOf, Payment!SaveMatches, P!SaveMatches, Payment!SaveRefused,
       P!SaveRefused, Payment!SaveRow, P!SaveRow, Payment!Smaller, P!Smaller,
       Payment!Stamps, P!Stamps, Payment!StatementFails, P!StatementFails, Payment!Step,
       Payment!TotalConsumed, P!TotalConsumed,
       P!Step, Payment!TakeFree, P!TakeFree, Payment!ToPaid, P!ToPaid, Payment!TrySave,
       P!TrySave, Payment!Typed, P!Typed, Payment!WriteRow, P!WriteRow, Payment!Zero,
       P!Zero, Payment!payVars, P!payVars, Payment!store, P!store

LEMMA SameRedemption ==
  ASSUME NEW j \in Jobs, Redemption!Start(j) \/ Redemption!Step(j)
  PROVE  R!Start(j) \/ R!Step(j)
BY Zenon
   DEF Redemption!Answered, R!Answered, Redemption!At, R!At, Redemption!Begin, R!Begin,
       Redemption!Broken, R!Broken, Redemption!CodeOf, R!CodeOf, Redemption!CreateRow,
       R!CreateRow, Redemption!CurrencyTypes, R!CurrencyTypes, Redemption!Deletable,
       R!Deletable, Redemption!DeleteCount, R!DeleteCount, Redemption!DeleteFind,
       R!DeleteFind, Redemption!DeleteRow, R!DeleteRow, Redemption!DeleteStart,
       R!DeleteStart, Redemption!Finish, R!Finish, Redemption!Goto, R!Goto,
       Redemption!Grant, R!Grant, Redemption!GrantRejects, R!GrantRejects,
       Redemption!HasUserRedeemed, R!HasUserRedeemed, Redemption!IdleJob, R!IdleJob,
       Redemption!Insert, R!Insert, Redemption!Insertable, R!Insertable, Redemption!IsValid,
       R!IsValid, Redemption!Keys, R!Keys, Redemption!MissRow, R!MissRow, Redemption!Moved,
       R!Moved, Redemption!ReadOnly, R!ReadOnly, Redemption!ReadRow, R!ReadRow,
       Redemption!Record, R!Record, Redemption!RecordFails, R!RecordFails,
       Redemption!RedeemCheck, R!RedeemCheck, Redemption!RedeemCreate, R!RedeemCreate,
       Redemption!RedeemFind, R!RedeemFind, Redemption!RedeemFinish, R!RedeemFinish,
       Redemption!RedeemLookup, R!RedeemLookup, Redemption!RedeemRecord, R!RedeemRecord,
       Redemption!RedeemSave, R!RedeemSave, Redemption!RedeemStart, R!RedeemStart,
       Redemption!RedeemUpdate, R!RedeemUpdate, Redemption!Redeemed, R!Redeemed,
       Redemption!RedemptionRow, R!RedemptionRow,
       Redemption!RowOf, R!RowOf, Redemption!SaveMatches, R!SaveMatches,
       Redemption!SaveRefused, R!SaveRefused, Redemption!SaveRow, R!SaveRow,
       Redemption!Stamps, R!Stamps, Redemption!Start, R!Start, Redemption!StatementFails,
       R!StatementFails, Redemption!Step, R!Step, Redemption!TrySave, R!TrySave,
       Redemption!Typed, R!Typed, Redemption!User, R!User, Redemption!WriteRow, R!WriteRow,
       Redemption!Zero, R!Zero, Redemption!codeVars, R!codeVars, Redemption!store, R!store

LEMMA SameAdministration ==
  /\ \A c \in Codes : Redemption!CreateCode(c) => R!CreateCode(c)
  /\ Redemption!Tick => R!Tick
BY Zenon DEF Redemption!CreateCode, R!CreateCode, Redemption!Tick, R!Tick, Redemption!store, R!store

LEMMA SameType ==
  /\ C!LedgerTypeOK <=> LedgerTypeOK
  /\ P!LedgerTypeOK <=> LedgerTypeOK
  /\ R!LedgerTypeOK <=> LedgerTypeOK
  /\ P!LedgerTypeOK' <=> LedgerTypeOK'
  /\ R!LedgerTypeOK' <=> LedgerTypeOK'
BY Zenon DEF CurrencyTypes, C!CurrencyTypes, P!CurrencyTypes, R!CurrencyTypes, HistoryRow, C!HistoryRow,
             P!HistoryRow, R!HistoryRow, Job, C!Job, P!Job, R!Job, Keys, C!Keys, P!Keys,
             R!Keys, LedgerTypeOK, C!LedgerTypeOK, P!LedgerTypeOK, R!LedgerTypeOK, Ops,
             C!Ops, P!Ops, R!Ops, Pcs, C!Pcs, P!Pcs, R!Pcs, Results, C!Results, P!Results,
             R!Results, Row, C!Row, P!Row, R!Row, Write, C!Write, P!Write, R!Write

LEMMA SameSoundC ==
  ASSUME NEW j \in Jobs, C!Sound(j)
  PROVE  Sound(j)
BY Zenon DEF Answered, C!Answered, Away, C!Away, Carries, C!Carries, CreateRow, C!CreateRow, Creates,
             C!Creates, CurrencyTypes, C!CurrencyTypes, Effect, C!Effect, HistoryRow,
             C!HistoryRow, InRange, C!InRange, Job, C!Job, Keys, C!Keys, LedgerTypeOK,
             C!LedgerTypeOK, MissRow, C!MissRow, Misses, C!Misses, Moving, C!Moving, Ops,
             C!Ops, Passes, C!Passes, PastSave, C!PastSave, Pcs, C!Pcs, Quiet, C!Quiet,
             ReadOnly, C!ReadOnly, ReadRow, C!ReadRow, Reads, C!Reads, Results, C!Results,
             Row, C!Row, RowOf, C!RowOf, SaveMatches, C!SaveMatches, SaveRow, C!SaveRow,
             Saves, C!Saves, Silent, C!Silent, Sound, C!Sound, Speaks, C!Speaks, Telling,
             C!Telling, Told, C!Told, Write, C!Write, WriteRow, C!WriteRow, Zero, C!Zero

LEMMA SameSoundP ==
  ASSUME NEW j \in Jobs, P!Sound(j)
  PROVE  Sound(j)
BY Zenon DEF Answered, P!Answered, Away, P!Away, Carries, P!Carries, CreateRow, P!CreateRow, Creates,
             P!Creates, CurrencyTypes, P!CurrencyTypes, Effect, P!Effect, HistoryRow,
             P!HistoryRow, InRange, P!InRange, Job, P!Job, Keys, P!Keys, LedgerTypeOK,
             P!LedgerTypeOK, MissRow, P!MissRow, Misses, P!Misses, Moving, P!Moving, Ops,
             P!Ops, Passes, P!Passes, PastSave, P!PastSave, Pcs, P!Pcs, Quiet, P!Quiet,
             ReadOnly, P!ReadOnly, ReadRow, P!ReadRow, Reads, P!Reads, Results, P!Results,
             Row, P!Row, RowOf, P!RowOf, SaveMatches, P!SaveMatches, SaveRow, P!SaveRow,
             Saves, P!Saves, Silent, P!Silent, Sound, P!Sound, Speaks, P!Speaks, Telling,
             P!Telling, Told, P!Told, Write, P!Write, WriteRow, P!WriteRow, Zero, P!Zero

LEMMA SameSoundR ==
  ASSUME NEW j \in Jobs, R!Sound(j)
  PROVE  Sound(j)
BY Zenon DEF Answered, R!Answered, Away, R!Away, Carries, R!Carries, CreateRow, R!CreateRow, Creates,
             R!Creates, CurrencyTypes, R!CurrencyTypes, Effect, R!Effect, HistoryRow,
             R!HistoryRow, InRange, R!InRange, Job, R!Job, Keys, R!Keys, LedgerTypeOK,
             R!LedgerTypeOK, MissRow, R!MissRow, Misses, R!Misses, Moving, R!Moving, Ops,
             R!Ops, Passes, R!Passes, PastSave, R!PastSave, Pcs, R!Pcs, Quiet, R!Quiet,
             ReadOnly, R!ReadOnly, ReadRow, R!ReadRow, Reads, R!Reads, Results, R!Results,
             Row, R!Row, RowOf, R!RowOf, SaveMatches, R!SaveMatches, SaveRow, R!SaveRow,
             Saves, R!Saves, Silent, R!Silent, Sound, R!Sound, Speaks, R!Speaks, Telling,
             R!Telling, Told, R!Told, Write, R!Write, WriteRow, R!WriteRow, Zero, R!Zero

-----------------------------------------------------------------------------
(* Every request of any service is sound while the others run. *)

\* Tables and requests are well-formed, and a redemption about to count up holds the
\* code it read.
GemInv == P!TypeOK /\ R!TypeOK /\ R!ClaimHeld

LEMMA CurrencyRequestSound ==
  ASSUME GemInv, NEW j \in Jobs, CurrencyRequest(j)
  PROVE  GemInv' /\ Sound(j)
<1>1. /\ C!Start(j) \/ C!Step(j)
      /\ UNCHANGED <<payments, reply, repeats, codes, redemptions, now, claim, again>>
  BY SameCurrency DEF CurrencyRequest, payVars, codeVars
<1>2. C!TypeOK
  BY SameType DEF GemInv, P!TypeOK, C!TypeOK
<1>3. Sound(j) /\ job'[j].pc \in C!Places
  BY <1>1, <1>2, AssumptionsHold, C!CurrencySound, C!CurrencyPlace, SameSoundC
<1>4. P!TypeOK' /\ R!TypeOK'
  BY <1>1, <1>3, SameType DEF Sound, GemInv, P!TypeOK, R!TypeOK
<1>5. R!ClaimHeld'
  BY <1>1, <1>3 DEF Sound, Effect, GemInv, R!ClaimHeld, R!At, C!Places
<1> QED BY <1>3, <1>4, <1>5 DEF GemInv

LEMMA PaymentRequestSound ==
  ASSUME GemInv, NEW j \in Jobs, PaymentRequest(j)
  PROVE  GemInv' /\ Sound(j)
<1>1. /\ P!PayStart(j) \/ P!Step(j)
      /\ UNCHANGED <<codes, redemptions, now, claim, again>>
  BY SamePayment DEF PaymentRequest, codeVars
<1>2. P!TypeOK
  BY DEF GemInv
<1>3. Sound(j) /\ job'[j].pc \in P!Places
  BY <1>1, <1>2, AssumptionsHold, P!PaymentSound, P!PaymentPlace, SameSoundP
<1>4. P!TypeOK' /\ R!TypeOK'
  BY <1>1, <1>2, <1>3, AssumptionsHold, P!PaymentTablesType, SameType DEF Sound, GemInv, P!TypeOK, R!TypeOK
<1>5. R!ClaimHeld'
  BY <1>1, <1>3 DEF Sound, Effect, GemInv, R!ClaimHeld, R!At, P!Places
<1> QED BY <1>3, <1>4, <1>5 DEF GemInv

LEMMA RedemptionRequestSound ==
  ASSUME GemInv, NEW j \in Jobs, RedemptionRequest(j)
  PROVE  GemInv' /\ Sound(j)
<1>1. (R!Start(j) \/ R!Step(j)) /\ UNCHANGED <<payments, reply, repeats>>
  BY SameRedemption DEF RedemptionRequest, payVars
<1>2. R!TypeOK /\ R!ClaimHeld
  BY DEF GemInv
<1>3. Sound(j)
  BY <1>1, <1>2, AssumptionsHold, R!RedemptionSound, SameSoundR
<1>4. P!TypeOK' /\ R!TypeOK'
  BY <1>1, <1>2, <1>3, AssumptionsHold, R!CodeTablesType, SameType DEF Sound, GemInv, P!TypeOK, R!TypeOK
<1>5. R!ClaimHeld'
  BY <1>1, <1>2, AssumptionsHold, R!ClaimStaysHeld
<1> QED BY <1>3, <1>4, <1>5 DEF GemInv

LEMMA RequestSound ==
  ASSUME GemInv, NEW j \in Jobs,
         CurrencyRequest(j) \/ PaymentRequest(j) \/ RedemptionRequest(j)
  PROVE  GemInv' /\ Sound(j)
BY CurrencyRequestSound, PaymentRequestSound, RedemptionRequestSound

\* What is no request leaves the balances alone, or adjusts them.
LEMMA AdministrationKeepsTypes ==
  ASSUME GemInv, Administration
  PROVE  /\ GemInv'
         /\ (\E k \in Keys : Adjust(k))
            \/ UNCHANGED <<balances, history, job, faults, adjusts, fresh, writes>>
<1>1. LedgerTypeOK /\ R!TypeOK /\ R!ClaimHeld
  BY SameType DEF GemInv, P!TypeOK
<1>2. ASSUME NEW c \in Codes, Redemption!CreateCode(c), UNCHANGED payVars
      PROVE  GemInv' /\ UNCHANGED <<balances, history, job, faults, adjusts, fresh, writes>>
  <2>1. R!CreateCode(c)
    BY <1>2, SameAdministration
  <2>2. R!TypeOK' /\ R!ClaimHeld'
    BY <1>1, <2>1, AssumptionsHold, R!CreateCodeType
  <2>3. P!TypeOK'
    BY <1>2, <2>2, SameType DEF GemInv, P!TypeOK, R!TypeOK, payVars
  <2> QED BY <2>1, <2>2, <2>3 DEF GemInv, R!CreateCode, R!store
<1>3. ASSUME NEW k \in Keys, Adjust(k), UNCHANGED <<payVars, codeVars>>
      PROVE  GemInv'
  <2>1. LedgerTypeOK' /\ UNCHANGED job
    BY <1>1, <1>3, AdjustType DEF Adjust
  <2> QED BY <1>3, <2>1, SameType
          DEF GemInv, P!TypeOK, R!TypeOK, R!ClaimHeld, R!At, payVars, codeVars
<1>4. ASSUME Redemption!Tick, UNCHANGED payVars
      PROVE  GemInv' /\ UNCHANGED <<balances, history, job, faults, adjusts, fresh, writes>>
  <2>1. R!Tick
    BY <1>4, SameAdministration
  <2>2. R!TypeOK' /\ R!ClaimHeld'
    BY <1>1, <2>1, AssumptionsHold, R!TickType
  <2>3. P!TypeOK'
    BY <1>4, <2>2, SameType DEF GemInv, P!TypeOK, R!TypeOK, payVars
  <2> QED BY <2>1, <2>2, <2>3 DEF GemInv, R!Tick, R!store
<1> QED BY <1>2, <1>3, <1>4 DEF Administration

-----------------------------------------------------------------------------
(* Every request of any service is on a journey while the others run. *)

\* What Journeys says by its two names is the same: for the currency service.
LEMMA SameJourneyC ==
  ASSUME NEW j \in Jobs
  PROVE  /\ C!Numbers(j) <=> Numbers(j)
         /\ C!Journey(j) => Journey(j)
<1>1. C!Numbers(j) <=> Numbers(j)
  BY Zenon DEF Early, C!Early, Grants, C!Grants, Numbers, C!Numbers, OnPaid, C!OnPaid,
               Signed, C!Signed, Split, C!Split, Under, C!Under
<1>2. C!Journey(j) => Journey(j)
  BY Zenon DEF Answers, C!Answers, Begins, C!Begins, Early, C!Early, Goes, C!Goes,
               Grants, C!Grants, Insert, C!Insert, Journey, C!Journey, Looks, C!Looks,
               NewRow, C!NewRow, NewWrite, C!NewWrite, OnPaid, C!OnPaid, Past, C!Past,
               Records, C!Records, SameMove, C!SameMove, SamePlan, C!SamePlan,
               SameRequest, C!SameRequest, SavesOrNot, C!SavesOrNot, Signed, C!Signed,
               Skips, C!Skips, Split, C!Split, Stamps, C!Stamps, Still, C!Still,
               Suffix, C!Suffix, Takes, C!Takes, Under, C!Under
<1> QED BY <1>1, <1>2

\* What Journeys says by its two names is the same: for the payment service.
LEMMA SameJourneyP ==
  ASSUME NEW j \in Jobs
  PROVE  /\ P!Numbers(j) <=> Numbers(j)
         /\ P!Journey(j) => Journey(j)
<1>1. P!Numbers(j) <=> Numbers(j)
  BY Zenon DEF Early, P!Early, Grants, P!Grants, Numbers, P!Numbers, OnPaid, P!OnPaid,
               Signed, P!Signed, Split, P!Split, Under, P!Under
<1>2. P!Journey(j) => Journey(j)
  BY Zenon DEF Answers, P!Answers, Begins, P!Begins, Early, P!Early, Goes, P!Goes,
               Grants, P!Grants, Insert, P!Insert, Journey, P!Journey, Looks, P!Looks,
               NewRow, P!NewRow, NewWrite, P!NewWrite, OnPaid, P!OnPaid, Past, P!Past,
               Records, P!Records, SameMove, P!SameMove, SamePlan, P!SamePlan,
               SameRequest, P!SameRequest, SavesOrNot, P!SavesOrNot, Signed, P!Signed,
               Skips, P!Skips, Split, P!Split, Stamps, P!Stamps, Still, P!Still,
               Suffix, P!Suffix, Takes, P!Takes, Under, P!Under
<1> QED BY <1>1, <1>2

\* What Journeys says by its two names is the same: for the redemption service.
LEMMA SameJourneyR ==
  ASSUME NEW j \in Jobs
  PROVE  /\ R!Numbers(j) <=> Numbers(j)
         /\ R!Journey(j) => Journey(j)
<1>1. R!Numbers(j) <=> Numbers(j)
  BY Zenon DEF Early, R!Early, Grants, R!Grants, Numbers, R!Numbers, OnPaid, R!OnPaid,
               Signed, R!Signed, Split, R!Split, Under, R!Under
<1>2. R!Journey(j) => Journey(j)
  BY Zenon DEF Answers, R!Answers, Begins, R!Begins, Early, R!Early, Goes, R!Goes,
               Grants, R!Grants, Insert, R!Insert, Journey, R!Journey, Looks, R!Looks,
               NewRow, R!NewRow, NewWrite, R!NewWrite, OnPaid, R!OnPaid, Past, R!Past,
               Records, R!Records, SameMove, R!SameMove, SamePlan, R!SamePlan,
               SameRequest, R!SameRequest, SavesOrNot, R!SavesOrNot, Signed, R!Signed,
               Skips, R!Skips, Split, R!Split, Stamps, R!Stamps, Still, R!Still,
               Suffix, R!Suffix, Takes, R!Takes, Under, R!Under
<1> QED BY <1>1, <1>2

\* A request of any service takes a step of its journey, and leaves codes that pay.
LEMMA RequestJourney ==
  ASSUME GemInv, R!CodesPay, NEW j \in Jobs, Numbers(j),
         CurrencyRequest(j) \/ PaymentRequest(j) \/ RedemptionRequest(j)
  PROVE  Journey(j) /\ R!CodesPay'
<1>1. CASE CurrencyRequest(j)
  <2>1. /\ C!Start(j) \/ C!Step(j)
        /\ UNCHANGED codes
    BY <1>1, SameCurrency DEF CurrencyRequest, codeVars
  <2>2. C!TypeOK /\ C!Numbers(j)
    BY SameType, SameJourneyC DEF GemInv, P!TypeOK, C!TypeOK
  <2>3. C!Journey(j)
    BY <2>1, <2>2, AssumptionsHold, C!StartJourney, C!StepJourney
  <2> QED BY <2>1, <2>3, SameJourneyC DEF R!CodesPay
<1>2. CASE PaymentRequest(j)
  <2>1. /\ P!PayStart(j) \/ P!Step(j)
        /\ UNCHANGED codes
    BY <1>2, SamePayment DEF PaymentRequest, codeVars
  <2>2. P!TypeOK /\ P!Numbers(j)
    BY SameJourneyP DEF GemInv
  <2>3. P!Journey(j)
    BY <2>1, <2>2, AssumptionsHold, P!PayStartJourney, P!PayStepJourney
  <2> QED BY <2>1, <2>3, SameJourneyP DEF R!CodesPay
<1>3. CASE RedemptionRequest(j)
  <2>1. R!Start(j) \/ R!Step(j)
    BY <1>3, SameRedemption DEF RedemptionRequest
  <2>2. R!TypeOK /\ R!ClaimHeld /\ R!Numbers(j)
    BY SameJourneyR DEF GemInv
  <2>3. R!Journey(j)
    BY <2>1, <2>2, AssumptionsHold, R!RedeemStartJourney, R!RedeemStepJourney
  <2>4. R!CodesPay'
    BY <2>1, <2>2, AssumptionsHold, R!CodesPayStays
  <2> QED BY <2>3, <2>4, SameJourneyR
<1> QED BY <1>1, <1>2, <1>3

\* What is no request leaves codes that pay, too.
LEMMA AdministrationPays ==
  ASSUME GemInv, R!CodesPay, Administration
  PROVE  R!CodesPay'
<1>1. CASE UNCHANGED codes
  BY <1>1 DEF R!CodesPay
<1>2. CASE \E c \in Codes : R!CreateCode(c)
  BY <1>2 DEF R!CreateCode, R!CodesPay, GemInv, R!TypeOK
<1>3. UNCHANGED codes \/ \E c \in Codes : R!CreateCode(c)
  BY SameAdministration DEF Administration, R!Tick, codeVars
<1> QED BY <1>1, <1>2, <1>3

-----------------------------------------------------------------------------
(* The invariant of the whole server, and the abstract accounts *)

ServerInv == GemInv /\ LedgerInv /\ MoversRecord /\ R!CodesPay /\ Tours

LEMMA ServerStarts == Init => ServerInv /\ Promise!Init
<1> SUFFICES ASSUME Init PROVE ServerInv /\ Promise!Init
  OBVIOUS
<1>1. /\ Payment!LedgerInit
      /\ payments = [r \in Refs |-> "none"] /\ reply = [j \in Jobs |-> 0] /\ repeats = {}
      /\ codes = [c \in Codes |-> NoCode] /\ redemptions = {} /\ now = 0 /\ again = {}
      /\ claim = [j \in Jobs |-> [code |-> CHOOSE c \in Codes : TRUE, ent |-> NoCode]]
  BY DEF Init, Payment!Init, Redemption!Init
<1>2. LedgerInit
  BY <1>1, Zenon DEF LedgerInit, Payment!LedgerInit, IdleJob, Payment!IdleJob, Keys, Payment!Keys,
                     CurrencyTypes, Payment!CurrencyTypes, Zero, Payment!Zero
<1>3. LedgerTypeOK /\ LedgerInv /\ MoversRecord /\ Tours /\ Promise!Init
  BY <1>2, LedgerInitType, LedgerInitInv, InitTours, LedgerInitKeeps
<1>4. P!TypeOK
  BY <1>1, <1>3, SameType DEF P!TypeOK, P!Statuses
<1>5. R!TypeOK
  <2>1. (CHOOSE c \in Codes : TRUE) \in Codes
    BY ServerAssumption
  <2>2. claim \in [Jobs -> R!Claim]
    BY <1>1, <2>1 DEF R!Claim
  <2> QED BY <1>1, <1>3, <2>2, ServerAssumption, SameType DEF R!TypeOK
<1>6. R!ClaimHeld
  BY <1>2 DEF LedgerInit, IdleJob, R!ClaimHeld, R!At
<1>7. R!CodesPay
  BY <1>1 DEF R!CodesPay
<1> QED BY <1>3, <1>4, <1>5, <1>6, <1>7 DEF ServerInv, GemInv

LEMMA ServerStep ==
  ServerInv /\ [Next]_vars => ServerInv' /\ [Promise!Next]_(Promise!vars)
<1> SUFFICES ASSUME ServerInv, [Next]_vars
             PROVE  ServerInv' /\ [Promise!Next]_(Promise!vars)
  OBVIOUS
<1>1. GemInv /\ LedgerInv /\ MoversRecord /\ R!CodesPay /\ Tours /\ LedgerTypeOK
  BY SameType DEF ServerInv, GemInv, P!TypeOK
<1>2. CASE \E j \in Jobs : CurrencyRequest(j) \/ PaymentRequest(j) \/ RedemptionRequest(j)
  <2>1. PICK j \in Jobs : GemInv' /\ Sound(j) /\ Journey(j) /\ R!CodesPay'
    BY <1>1, <1>2, RequestSound, RequestJourney DEF Tours, Carrying
  <2>2. LedgerTypeOK' /\ Effect(j) /\ Speaks(j)
    BY <2>1 DEF Sound
  <2>3. LedgerInv' /\ MoversRecord'
    BY <1>1, <2>2, EffectInv, StepRecords
  <2>4. [Promise!Next]_(Promise!vars)
    BY <1>1, <2>2, StepKeeps
  <2>5. Tours'
    BY <1>1, <2>1, <2>2, JourneyTours
  <2> QED BY <2>1, <2>3, <2>4, <2>5 DEF ServerInv
<1>3. ASSUME GemInv', R!CodesPay', UNCHANGED <<balances, history, job, faults, adjusts, fresh, writes>>
      PROVE  ServerInv' /\ [Promise!Next]_(Promise!vars)
  <2>1. LedgerInv' /\ MoversRecord'
    BY <1>1, <1>3 DEF LedgerInv, FreshEntity, UntouchedEntity, BalancesInRange,
                      EntityInRange, RowOf, MoversRecord, HasMoved
  <2>2. UNCHANGED Promise!vars
    BY <1>3, StutterKeeps
  <2>3. Tours'
    BY <1>1, <1>3, RestTours
  <2> QED BY <1>3, <2>1, <2>2, <2>3 DEF ServerInv
<1>4. CASE Administration
  <2>1. /\ GemInv' /\ R!CodesPay'
        /\ (\E k \in Keys : Adjust(k))
           \/ UNCHANGED <<balances, history, job, faults, adjusts, fresh, writes>>
    BY <1>1, <1>4, AdministrationKeepsTypes, AdministrationPays
  <2>2. CASE \E k \in Keys : Adjust(k)
    <3>1. Tours'
      BY <1>1, <2>2, RestTours DEF Adjust
    <3> QED BY <1>1, <2>1, <2>2, <3>1, AdjustInv, AdjustRecords, AdjustKeeps DEF ServerInv
  <2> QED BY <1>3, <2>1, <2>2
<1>5. CASE UNCHANGED vars
  <2>1. GemInv'
    BY <1>1, <1>5, SameType DEF LedgerTypeOK, vars, payVars, codeVars, GemInv, P!TypeOK, R!TypeOK,
                                R!ClaimHeld, R!At
  <2>2. R!CodesPay'
    BY <1>1, <1>5 DEF R!CodesPay, vars, codeVars
  <2> QED BY <1>3, <1>5, <2>1, <2>2 DEF vars
<1> QED BY <1>2, <1>4, <1>5 DEF Next, Quiescent

\* The whole server implements Accounts: whatever grants, consumptions, payments,
\* redemptions and deletions of codes interleave on the same balances, rows are
\* opened, moved within the range and never after the answer, and nobody is told of
\* a movement that was not made.
THEOREM ServerKeepsAccounts == Spec => KeepsAccounts
BY ServerStarts, ServerStep, PTL DEF Spec, KeepsAccounts, Promise!Spec

\* Whatever runs at once, no stored balance leaves [MinBalance, MaxAmount] (a grant
\* may overwrite a payment, and a payment a grant), and the version column refuses
\* exactly the saves that nobody interfered with.
THEOREM ServerBalancesSafe == Spec => [](BalancesInRange /\ FreshSaveIsRefused)
<1>1. ServerInv => BalancesInRange /\ FreshSaveIsRefused
  <2> SUFFICES ASSUME ServerInv PROVE BalancesInRange /\ FreshSaveIsRefused
    OBVIOUS
  <2>1. LedgerTypeOK
    BY SameType DEF ServerInv, GemInv, P!TypeOK
  <2> QED BY <2>1, FreshRefused DEF ServerInv, LedgerInv
<1> QED BY <1>1, ServerStarts, ServerStep, PTL DEF Spec

\* As long as nobody writes beside the server, no grant, consumption, payment or
\* redemption changes a row of currency_balances that exists, whichever of them
\* interleave, the upserts of their Creates included.
THEOREM ServerAloneIsFrozen == Spec => ServiceAloneIsFrozen
<1>1. ServerInv /\ [Next]_vars =>
        [\A k \in Keys : adjusts' = 0 /\ balances[k] # NoRow
                         => balances'[k] = balances[k]]_balances
  <2> SUFFICES ASSUME ServerInv, Next, NEW k \in Keys, adjusts' = 0, balances[k] # NoRow
               PROVE  balances'[k] = balances[k]
    BY DEF vars
  <2>1. GemInv /\ LedgerTypeOK /\ UntouchedEntity
    BY SameType DEF ServerInv, GemInv, P!TypeOK, LedgerInv
  <2>2. CASE \E j \in Jobs : CurrencyRequest(j) \/ PaymentRequest(j) \/ RedemptionRequest(j)
    <3>1. PICK j \in Jobs : Sound(j)
      BY <2>1, <2>2, RequestSound
    <3>2. Effect(j) /\ adjusts = 0
      BY <3>1 DEF Sound, Effect
    <3> QED BY <2>1, <3>2, EffectFreezes
  <2>3. CASE Administration
    <3>1. (\E l \in Keys : Adjust(l)) \/ UNCHANGED balances
      BY <2>1, <2>3, AdministrationKeepsTypes
    <3> QED BY <2>1, <3>1 DEF Adjust, LedgerTypeOK
  <2>4. CASE Quiescent
    BY <2>4 DEF Quiescent, vars
  <2> QED BY <2>2, <2>3, <2>4 DEF Next
<1> QED BY <1>1, ServerStarts, ServerStep, PTL DEF Spec, ServiceAloneIsFrozen

\* The invariant of the whole server shows what the ledger promises.
LEMMA ServerTours ==
  ServerInv => /\ HistoryIsBacked /\ ConsumeNeverOverdraws /\ FreeBeforePaid
               /\ SuccessIsAccounted /\ RetriesApplyOnce
<1> SUFFICES ASSUME ServerInv
             PROVE  /\ HistoryIsBacked /\ ConsumeNeverOverdraws /\ FreeBeforePaid
                    /\ SuccessIsAccounted /\ RetriesApplyOnce
  OBVIOUS
<1>1. LedgerTypeOK /\ Tours
  BY SameType DEF ServerInv, GemInv, P!TypeOK
<1> QED BY <1>1, ToursShow

\* Whatever services run at once on the shared tables: every row of the
\* transactions table describes a balance that a request wrote under its
\* transaction_id, also when clock readings repeat.
THEOREM ServerTransactionsBacked == Spec => []HistoryIsBacked
BY ServerTours, ServerStarts, ServerStep, PTL DEF Spec

\* Whatever runs at once: no consumption or payment drives a balance below zero,
\* whatever it overwrites.
THEOREM ServerConsumptionsCovered == Spec => []ConsumeNeverOverdraws
BY ServerTours, ServerStarts, ServerStep, PTL DEF Spec

\* Whatever runs at once: paid currency is taken only for what an empty free
\* balance left.
THEOREM ServerFreeIsTakenFirst == Spec => []FreeBeforePaid
BY ServerTours, ServerStarts, ServerStep, PTL DEF Spec

\* Whatever runs at once: the rows of a request that was answered with success add
\* up to the amount it asked for, unless it shares its transaction_id.
THEOREM ServerSuccessesAccounted == Spec => []SuccessIsAccounted
BY ServerTours, ServerStarts, ServerStep, PTL DEF Spec

\* Whatever runs at once: as long as no statement breaks, no request moves more
\* than it asked for, and what a finished one moved is on record.
THEOREM ServerRetriesOnce == Spec => []RetriesApplyOnce
BY ServerTours, ServerStarts, ServerStep, PTL DEF Spec

=============================================================================
