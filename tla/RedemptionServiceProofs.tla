------------------------- MODULE RedemptionServiceProofs -----------------------
(***************************************************************************)
(* What holds of RedemptionService for every set of users, requests, codes   *)
(* and campaigns, every number of attempts, broken statements and manual      *)
(* adjustments, and at any time.                                             *)
(***************************************************************************)
EXTENDS RedemptionService, LedgerProofs

\* A deletion promises no movement, whatever its answer; nor does an error.
LEMMA DeletionSilent ==
  ASSUME job \in [Jobs -> Job], NEW j \in Jobs, NEW res, Finish(j, res),
         job[j].op = "delete" \/ res # "ok"
  PROVE  Silent(j)
BY DEF Finish, Job, Silent, PastSave, Told

-----------------------------------------------------------------------------
(* Each step of a redemption or a deletion is sound. *)

LEMMA StartSound ==
  ASSUME TypeOK, NEW j \in Jobs, Start(j)
  PROVE  Sound(j)
<1>1. job \in [Jobs -> Job] /\ LedgerTypeOK
  BY DEF TypeOK, LedgerTypeOK
<1>2. PICK op \in {"redeem", "delete"}, k \in Keys : Begin(j, op, "lookup", k, 0, TRUE, NoRef)
  <2>1. CASE RedeemStart(j)
    <3>1. PICK u \in Users : Begin(j, "redeem", "lookup", <<u, "free">>, 0, TRUE, NoRef)
      BY <2>1 DEF RedeemStart
    <3>2. <<u, "free">> \in Keys
      BY DEF Keys, CurrencyTypes
    <3> QED BY <3>1, <3>2
  <2>2. CASE DeleteStart(j)
    <3>1. IdleJob(j).key \in Keys
      BY IdleJobType DEF Job
    <3> QED BY <2>2, <3>1 DEF DeleteStart
  <2> QED BY <2>1, <2>2 DEF Start
<1>3. job' \in [Jobs -> Job]
  <2>1. op \in Ops /\ "lookup" \in Pcs /\ 0 \in Int /\ NoRef \in Refs \cup {NoRef}
    BY DEF Ops, Pcs
  <2> QED BY <1>1, <1>2, <2>1, BeginType
<1>4. (\A i \in Jobs \ {j} : job'[i] = job[i]) /\ Away(j)
  BY <1>1, <1>2, BeginEffect
<1>5. Silent(j)
  BY <1>1, <1>2, BeginSilent
<1>6. job[j].pc = "idle" /\ Answered /\ UNCHANGED <<balances, history, adjusts, fresh, writes>>
  BY <1>2 DEF Begin, Start, RedeemStart, DeleteStart, store, Answered
<1> QED BY <1>1, <1>3, <1>4, <1>5, <1>6, LocalStep

LEMMA DeleteSound ==
  ASSUME TypeOK, NEW j \in Jobs, DeleteFind(j) \/ DeleteCount(j) \/ DeleteRow(j)
  PROVE  Sound(j)
<1>1. /\ job \in [Jobs -> Job] /\ LedgerTypeOK
      /\ job[j].op = "delete" /\ job[j].pc \in {"lookup", "count", "delete"}
  BY DEF TypeOK, LedgerTypeOK, DeleteFind, DeleteCount, DeleteRow, At
<1>2. CASE StatementFails(j)
  BY <1>1, <1>2, StatementFailsSound
<1>3. CASE ~StatementFails(j)
  <2>1. \/ \E res \in {"rejected", "ok", "dbError"} : Finish(j, res)
        \/ \E pc \in {"count", "delete"} : Goto(j, pc)
    BY <1>3 DEF DeleteFind, DeleteCount, DeleteRow
  <2>2. job' \in [Jobs -> Job]
    BY <1>1, <2>1, FinishType, GotoType DEF Results, Pcs
  <2>3. (\A i \in Jobs \ {j} : job'[i] = job[i]) /\ Away(j)
    BY <1>1, <2>1, FinishEffect, GotoEffect DEF Away
  <2>4. Silent(j)
    BY <1>1, <2>1, DeletionSilent, GotoSilent DEF PastSave
  <2>5. (Answered \/ Broken) /\ UNCHANGED <<balances, history, adjusts, fresh, writes>>
    BY <1>3 DEF DeleteFind, DeleteCount, DeleteRow, ReadOnly
  <2> QED BY <1>1, <2>2, <2>3, <2>4, <2>5, LocalStep
<1> QED BY <1>2, <1>3

LEMMA RedeemLookupSound ==
  ASSUME TypeOK, NEW j \in Jobs, RedeemLookup(j)
  PROVE  Sound(j)
<1> DEFINE c == codes[CodeOf(j)]
<1>1. /\ job \in [Jobs -> Job] /\ LedgerTypeOK /\ job[j] \in Job /\ job[j].pc = "lookup"
      /\ CodeOf(j) \in Codes /\ c \in CodeRow \cup {NoCode}
  BY DEF TypeOK, LedgerTypeOK, RedeemLookup, At, CodeOf, Claim
<1>2. CASE StatementFails(j)
  BY <1>1, <1>2, StatementFailsSound
<1>3. CASE ReadOnly /\ Finish(j, "rejected")
  <2>1. job' \in [Jobs -> Job]
    BY <1>1, <1>3, FinishType DEF Results
  <2>2. (\A i \in Jobs \ {j} : job'[i] = job[i]) /\ Away(j) /\ Silent(j)
    BY <1>1, <1>3, FinishEffect, DeletionSilent
  <2> QED BY <1>1, <1>3, <2>1, <2>2, LocalStep DEF RedeemLookup, ReadOnly
<1>4. CASE /\ ReadOnly /\ IsValid(c)
           /\ job' = [job EXCEPT ![j].pc = "hasRedeemed", ![j].amount = c.campaign.amount,
                                 ![j].key = Typed(j, c.campaign.type)]
  <2> DEFINE r1 == [[job[j] EXCEPT !.pc = "hasRedeemed"] EXCEPT !.amount = c.campaign.amount]
             r2 == [r1 EXCEPT !.key = Typed(j, c.campaign.type)]
  <2>1. c.campaign.amount \in Int /\ c.campaign.type \in CurrencyTypes
    BY <1>1, <1>4 DEF IsValid, CodeRow, Campaign
  <2> HIDE DEF c
  <2>2. Typed(j, c.campaign.type) \in Keys
    BY <1>1, <2>1 DEF Typed, Job, Keys
  <2>3. r1 \in Job
    <3>1. [job[j] EXCEPT !.pc = "hasRedeemed"] \in Job
      BY <1>1, JobField DEF Pcs
    <3> QED BY <2>1, <3>1, JobField
  <2>4. r2 \in Job
    <3> HIDE DEF r1
    <3> QED BY <2>2, <2>3, JobField
  <2>5. job' = [job EXCEPT ![j] = r2]
    BY <1>4
  <2>6. r2.pc = "hasRedeemed"
    BY <1>1 DEF Job
  <2> HIDE DEF r2
  <2>7. job' \in [Jobs -> Job] /\ job'[j] = r2 /\ \A i \in Jobs \ {j} : job'[i] = job[i]
    BY <1>1, <2>4, <2>5
  <2>8. Away(j) /\ Silent(j)
    BY <2>6, <2>7 DEF Away, Silent, PastSave, Told
  <2> QED BY <1>1, <1>4, <2>7, <2>8, LocalStep DEF RedeemLookup, ReadOnly
<1> QED BY <1>2, <1>3, <1>4 DEF RedeemLookup

LEMMA RedeemCheckSound ==
  ASSUME TypeOK, NEW j \in Jobs, RedeemCheck(j) \/ RedeemUpdate(j)
  PROVE  Sound(j)
<1>1. /\ job \in [Jobs -> Job] /\ LedgerTypeOK /\ job[j].pc \in {"hasRedeemed", "update"}
  BY DEF TypeOK, LedgerTypeOK, RedeemCheck, RedeemUpdate, At
<1>2. CASE StatementFails(j)
  BY <1>1, <1>2, StatementFailsSound
<1>3. CASE ~StatementFails(j)
  <2>1. \/ \E res \in {"rejected", "dbError"} : Finish(j, res)
        \/ \E pc \in {"update", "find"} : Goto(j, pc)
    BY <1>3 DEF RedeemCheck, RedeemUpdate
  <2>2. job' \in [Jobs -> Job]
    BY <1>1, <2>1, FinishType, GotoType DEF Results, Pcs
  <2>3. (\A i \in Jobs \ {j} : job'[i] = job[i]) /\ Away(j)
    BY <1>1, <2>1, FinishEffect, GotoEffect DEF Away
  <2>4. Silent(j)
    BY <1>1, <2>1, DeletionSilent, GotoSilent DEF PastSave
  <2>5. (Answered \/ Broken) /\ UNCHANGED <<balances, history, adjusts, fresh, writes>>
    BY <1>3 DEF RedeemCheck, RedeemUpdate, ReadOnly
  <2> QED BY <1>1, <2>2, <2>3, <2>4, <2>5, LocalStep
<1> QED BY <1>2, <1>3

LEMMA RedeemFindSound ==
  ASSUME TypeOK, NEW j \in Jobs, RedeemFind(j) \/ RedeemCreate(j)
  PROVE  Sound(j)
<1>1. /\ job \in [Jobs -> Job] /\ LedgerTypeOK /\ job[j].pc \in {"find", "create"}
      /\ job[j].key \in Keys /\ job[j].amount \in Int
  BY DEF TypeOK, LedgerTypeOK, RedeemFind, RedeemCreate, At, Job
<1>2. CASE StatementFails(j)
  BY <1>1, <1>2, StatementFailsSound
<1>3. CASE MissRow(j, job[j].key) /\ Goto(j, "create")
  <2>1. job' \in [Jobs -> Job]
    BY <1>1, <1>3, GotoType DEF Pcs
  <2>2. Effect(j)
    BY <1>1, <1>3, GotoEffect DEF Effect, Misses, MissRow, ReadOnly
  <2>3. Quiet(j)
    BY <1>1, <1>3, GotoSilent, ReadSpeaks DEF PastSave
  <2> QED BY <1>1, <1>3, <2>1, <2>2, <2>3, MissRowType DEF Sound, Speaks
<1>4. CASE ReadRow(j, job[j].key) /\ Grant(j, RowOf(j), job[j].amount)
  <2>1. RowOf(j) \in Row
    BY <1>1, <1>4 DEF LedgerTypeOK, ReadRow, RowOf
  <2>2. job' \in [Jobs -> Job]
    BY <1>1, <1>4, <2>1, GrantType
  <2>3. (\A i \in Jobs \ {j} : job'[i] = job[i]) /\ (Away(j) \/ Carries(j, RowOf(j)))
    BY <1>1, <1>4, <2>1, GrantEffect
  <2>4. Effect(j)
    BY <1>4, <2>3 DEF Effect, Reads, ReadRow, ReadOnly
  <2>5. Quiet(j)
    BY <1>1, <1>4, GrantSilent, ReadSpeaks
  <2> QED BY <1>1, <1>4, <2>2, <2>4, <2>5, ReadRowType DEF Sound, Speaks
<1>5. CASE /\ RedeemCreate(j) /\ CreateRow(j)
           /\ Answered \/ Broken
           /\ Finish(j, "dbError") \/ Grant(j, Zero, job[j].amount)
  <2>1. Zero \in Row
    BY DEF Zero, Row
  <2>2. job' \in [Jobs -> Job]
    BY <1>1, <1>5, <2>1, FinishType, GrantType DEF Results
  <2>3. (\A i \in Jobs \ {j} : job'[i] = job[i]) /\ (Away(j) \/ Carries(j, Zero))
    BY <1>1, <1>5, <2>1, FinishEffect, GrantEffect
  <2>4. job[j].pc = "create" /\ CreateRow(j) /\ UNCHANGED <<adjusts, writes>>
    BY <1>5 DEF RedeemCreate, At, CreateRow, StatementFails
  <2>5. Effect(j)
    BY <2>3, <2>4 DEF Effect, Creates
  <2>6. Silent(j)
    BY <1>1, <1>5, DeletionSilent, GrantSilent
  <2> QED BY <1>1, <1>5, <2>2, <2>4, <2>5, <2>6, CreateRowType DEF Sound, Speaks, Quiet
<1> QED BY <1>2, <1>3, <1>4, <1>5 DEF RedeemFind, RedeemCreate

LEMMA RedeemEndsSound ==
  ASSUME TypeOK, NEW j \in Jobs, RedeemSave(j) \/ RedeemRecord(j) \/ RedeemFinish(j)
  PROVE  Sound(j)
<1>1. job \in [Jobs -> Job] /\ LedgerTypeOK
  BY DEF TypeOK, LedgerTypeOK
<1>2. CASE RedeemSave(j)
  BY <1>1, <1>2, TrySaveSound DEF RedeemSave, At
<1>3. CASE RedeemRecord(j)
  <2>1. job[j].pc = "record"
    BY <1>3 DEF RedeemRecord, At
  <2>2. CASE RecordFails(j, "", "grant")
    BY <1>1, <2>1, <2>2, RecordFailsType, RecordFailsEffect, RecordFailsSpeaks DEF Sound, Speaks
  <2>3. CASE Answered /\ Record(j, "", "grant") /\ Goto(j, "saveRedemption")
    <3>1. job' \in [Jobs -> Job]
      BY <1>1, <2>3, GotoType DEF Pcs
    <3>2. (\A i \in Jobs \ {j} : job'[i] = job[i]) /\ Away(j)
      <4>1. job'[j].pc = "saveRedemption" /\ \A i \in Jobs \ {j} : job'[i] = job[i]
        BY <1>1, <2>3, GotoEffect
      <4> QED BY <4>1 DEF Away
    <3>3. Effect(j) /\ Telling(j)
      BY <2>1, <2>3, <3>2, RecordEffect DEF Record, Telling, PastSave
    <3> QED BY <1>1, <2>1, <2>3, <3>1, <3>3, RecordType DEF Sound, Speaks
  <2> QED BY <1>3, <2>2, <2>3 DEF RedeemRecord
<1>4. CASE RedeemFinish(j)
  <2>1. job[j].pc = "saveRedemption" /\ UNCHANGED <<balances, history, adjusts, fresh, writes>>
    BY <1>4 DEF RedeemFinish, At
  <2>2. (Answered \/ Broken) /\ \E res \in {"ok", "dbError"} : Finish(j, res)
    BY <1>4 DEF RedeemFinish
  <2>3. job' \in [Jobs -> Job]
    BY <1>1, <2>2, FinishType DEF Results
  <2>4. (\A i \in Jobs \ {j} : job'[i] = job[i]) /\ Away(j)
    BY <1>1, <2>2, FinishEffect
  <2>5. LedgerTypeOK'
    BY <1>1, <2>1, <2>2, <2>3, BrokenType DEF LedgerTypeOK
  <2>6. Effect(j)
    BY <2>1, <2>4 DEF Effect, Passes
  <2>7. Speaks(j)
    BY <2>1 DEF Speaks, Telling, PastSave
  <2> QED BY <2>5, <2>6, <2>7 DEF Sound
<1> QED BY <1>2, <1>3, <1>4

\* Every step of a redemption or a deletion is one the shared tables can bear.
LEMMA RedemptionSound ==
  ASSUME TypeOK, NEW j \in Jobs, Start(j) \/ Step(j)
  PROVE  Sound(j)
BY StartSound, DeleteSound, RedeemLookupSound, RedeemCheckSound, RedeemFindSound,
   RedeemEndsSound DEF Step

-----------------------------------------------------------------------------
(* Types.  The strengthening: what Redeem writes back as current_uses stems    *)
(* from a code it has read.                                                    *)

ClaimHeld ==
  \A j \in Jobs : At(j, "redeem", "update") => claim[j].ent \in CodeRow

\* A row keeps its type with another count.
LEMMA UsesType ==
  ASSUME NEW r \in CodeRow, NEW n \in Nat
  PROVE  [r EXCEPT !.uses = n] \in CodeRow
BY DEF CodeRow

LEMMA CodeTablesType ==
  ASSUME TypeOK, ClaimHeld, NEW j \in Jobs, Start(j) \/ Step(j)
  PROVE  /\ codes' \in [Codes -> CodeRow \cup {NoCode}]
         /\ redemptions' \in SUBSET Redemption
         /\ UNCHANGED now
         /\ claim' \in [Jobs -> Claim]
         /\ again' \in SUBSET Jobs
<1>1. /\ codes \in [Codes -> CodeRow \cup {NoCode}] /\ redemptions \in SUBSET Redemption
      /\ claim \in [Jobs -> Claim] /\ again \in SUBSET Jobs
      /\ CodeOf(j) \in Codes /\ claim[j] \in Claim
      /\ job[j] \in Job /\ User(j) \in Users
  BY DEF TypeOK, LedgerTypeOK, Job, Keys, User, CodeOf, Claim
<1>2. CASE Start(j)
  <2>1. PICK c \in Codes : claim' = [claim EXCEPT ![j].code = c]
    BY <1>2 DEF Start, RedeemStart, DeleteStart
  <2>2. claim' \in [Jobs -> Claim]
    BY <1>1, <2>1 DEF Claim
  <2> QED BY <1>1, <1>2, <2>2 DEF Start, RedeemStart, DeleteStart
<1>3. CASE RedeemLookup(j)
  <2>1. codes[CodeOf(j)] \in CodeRow \cup {NoCode}
    BY <1>1
  <2>2. claim' \in [Jobs -> Claim]
    BY <1>1, <1>3, <2>1 DEF RedeemLookup, Claim
  <2> QED BY <1>1, <1>3, <2>2 DEF RedeemLookup
<1>4. CASE RedeemCheck(j)
  <2>1. CASE UNCHANGED claim
    BY <1>1, <1>4, <2>1 DEF RedeemCheck
  <2>2. CASE /\ IsValid(claim[j].ent)
             /\ claim' = [claim EXCEPT ![j].ent.uses = @ + 1]
    <3>1. claim[j].ent \in CodeRow
      BY <1>1, <2>2 DEF IsValid, Claim
    <3>2. claim[j].ent.uses + 1 \in Nat
      BY <3>1 DEF CodeRow
    <3> DEFINE e == [claim[j].ent EXCEPT !.uses = claim[j].ent.uses + 1]
    <3>3. e \in CodeRow
      BY <3>1, <3>2, UsesType
    <3>4. claim' = [claim EXCEPT ![j] = [claim[j] EXCEPT !.ent = e]]
      BY <2>2
    <3> HIDE DEF e
    <3>5. [claim[j] EXCEPT !.ent = e] \in Claim
      BY <1>1, <3>3 DEF Claim
    <3> QED BY <1>1, <1>4, <3>4, <3>5 DEF RedeemCheck
  <2> QED BY <1>4, <2>1, <2>2 DEF RedeemCheck
<1>5. CASE RedeemUpdate(j)
  <2>1. claim[j].ent.uses \in Nat
    BY <1>5 DEF ClaimHeld, RedeemUpdate, CodeRow
  <2>2. CASE codes[CodeOf(j)] # NoCode /\ codes' = [codes EXCEPT ![CodeOf(j)].uses = claim[j].ent.uses]
    <3> DEFINE e == [codes[CodeOf(j)] EXCEPT !.uses = claim[j].ent.uses]
    <3>1. e \in CodeRow
      BY <1>1, <2>1, <2>2, UsesType
    <3>2. codes' = [codes EXCEPT ![CodeOf(j)] = e]
      BY <2>2
    <3> HIDE DEF e
    <3> QED BY <1>1, <1>5, <3>1, <3>2 DEF RedeemUpdate
  <2>3. CASE UNCHANGED codes
    BY <1>1, <1>5, <2>3 DEF RedeemUpdate
  <2> QED BY <1>5, <2>2, <2>3 DEF RedeemUpdate
<1>6. CASE DeleteRow(j)
  BY <1>1, <1>6 DEF DeleteRow
<1>7. CASE RedeemFinish(j)
  <2>1. \A id \in Stamps(j) : RedemptionRow(j, id) \in Redemption
    BY <1>1 DEF RedemptionRow, Redemption, Job, Stamps
  <2> QED BY <1>1, <1>7, <2>1 DEF RedeemFinish
<1>8. CASE UNCHANGED codeVars
  BY <1>1, <1>8 DEF codeVars
<1>9. UNCHANGED now
  BY DEF Start, Step, RedeemStart, DeleteStart, RedeemLookup, RedeemCheck, RedeemUpdate,
         DeleteRow, RedeemFinish, DeleteFind, DeleteCount, RedeemFind, RedeemCreate,
         RedeemSave, RedeemRecord, codeVars
<1> QED BY <1>2, <1>3, <1>4, <1>5, <1>6, <1>7, <1>8, <1>9
        DEF Step, DeleteFind, DeleteCount, RedeemFind, RedeemCreate, RedeemSave, RedeemRecord

\* Where a request goes: nowhere twice, and to the write-back only from the check.
LEMMA StartPlace ==
  ASSUME TypeOK, NEW j \in Jobs, Start(j)
  PROVE  job[j].pc = "idle" /\ job'[j].pc = "lookup"
<1>1. PICK op, k : Begin(j, op, "lookup", k, 0, TRUE, NoRef)
  BY DEF Start, RedeemStart, DeleteStart
<1>2. PICK s \in Stamps(j) :
         job' = [job EXCEPT ![j] =
                   [IdleJob(j) EXCEPT !.op = op, !.pc = "lookup", !.key = k, !.amount = 0,
                                      !.rest = 0, !.part = 0, !.stamp = s,
                                      !.meta = TRUE, !.ref = NoRef]]
  BY <1>1 DEF Begin
<1> DEFINE new == [IdleJob(j) EXCEPT !.op = op, !.pc = "lookup", !.key = k, !.amount = 0,
                                     !.rest = 0, !.part = 0, !.stamp = s,
                                     !.meta = TRUE, !.ref = NoRef]
<1>3. new.pc = "lookup"
  BY DEF IdleJob
<1>4. job' = [job EXCEPT ![j] = new]
  BY <1>2
<1> HIDE DEF new
<1> QED BY <1>1, <1>3, <1>4 DEF Begin, TypeOK, LedgerTypeOK

LEMMA StepPlace ==
  ASSUME TypeOK, NEW j \in Jobs, Step(j)
  PROVE  job'[j].pc # "idle" /\ (job'[j].pc = "update" => RedeemCheck(j))
<1>1. job \in [Jobs -> Job]
  BY DEF TypeOK, LedgerTypeOK
<1>2. CASE StatementFails(j)
  BY <1>1, <1>2, FinishSpeech DEF StatementFails
<1>3. CASE \E res : Finish(j, res)
  BY <1>1, <1>3, FinishSpeech
<1>4. CASE \E pc \in {"count", "delete", "find", "create", "saveRedemption"} : Goto(j, pc)
  BY <1>1, <1>4, GotoEffect
<1>5. CASE RedeemLookup(j)
  <2>1. CASE job' = [job EXCEPT ![j].pc = "hasRedeemed",
                                ![j].amount = codes[CodeOf(j)].campaign.amount,
                                ![j].key = Typed(j, codes[CodeOf(j)].campaign.type)]
    BY <1>1, <2>1 DEF Job
  <2> QED BY <1>2, <1>3, <1>5, <2>1 DEF RedeemLookup
<1>6. CASE RedeemCheck(j)
  BY <1>1, <1>2, <1>3, <1>6, GotoEffect DEF RedeemCheck
<1>7. CASE DeleteFind(j) \/ DeleteCount(j) \/ DeleteRow(j) \/ RedeemUpdate(j)
  BY <1>2, <1>3, <1>4, <1>7 DEF DeleteFind, DeleteCount, DeleteRow, RedeemUpdate
<1>8. CASE RedeemFind(j) \/ RedeemCreate(j)
  BY <1>1, <1>2, <1>3, <1>4, <1>8, GrantPlace DEF RedeemFind, RedeemCreate
<1>9. CASE RedeemSave(j)
  BY <1>1, <1>9, TrySavePlace DEF RedeemSave
<1>10. CASE RedeemRecord(j) \/ RedeemFinish(j)
  BY <1>3, <1>4, <1>10 DEF RedeemRecord, RecordFails, RedeemFinish
<1> QED BY <1>5, <1>6, <1>7, <1>8, <1>9, <1>10 DEF Step

LEMMA ClaimStaysHeld ==
  ASSUME TypeOK, ClaimHeld, NEW j \in Jobs, Start(j) \/ Step(j)
  PROVE  ClaimHeld'
<1>1. Effect(j) /\ claim' \in [Jobs -> Claim]
  BY RedemptionSound, CodeTablesType DEF Sound
<1> SUFFICES ASSUME NEW i \in Jobs, job'[i].op = "redeem", job'[i].pc = "update"
             PROVE  claim'[i].ent \in CodeRow
  BY DEF ClaimHeld, At
<1>2. /\ claim \in [Jobs -> Claim] /\ job \in [Jobs -> Job]
  BY DEF TypeOK, LedgerTypeOK
<1>3. CASE i # j
  <2>1. job'[i] = job[i]
    BY <1>1, <1>3 DEF Effect
  <2>2. claim'[i] = claim[i]
    BY <1>2, <1>3 DEF Start, Step, RedeemStart, DeleteStart, RedeemLookup, RedeemCheck,
         RedeemUpdate, DeleteRow, RedeemFinish, DeleteFind, DeleteCount, RedeemFind,
         RedeemCreate, RedeemSave, RedeemRecord, codeVars
  <2> QED BY <2>1, <2>2 DEF ClaimHeld, At
<1>4. CASE i = j
  <2>1. CASE RedeemCheck(j)
    <3>1. CASE /\ IsValid(claim[j].ent)
               /\ claim' = [claim EXCEPT ![j].ent.uses = @ + 1]
      <4>1. claim[j].ent \in CodeRow
        BY <1>2, <3>1 DEF IsValid, Claim
      <4>2. claim'[j].ent = [claim[j].ent EXCEPT !.uses = claim[j].ent.uses + 1]
        BY <1>2, <3>1 DEF Claim
      <4>3. claim[j].ent.uses + 1 \in Nat
        BY <4>1 DEF CodeRow
      <4> QED BY <1>4, <4>1, <4>2, <4>3, UsesType
    <3>2. CASE StatementFails(j) \/ Finish(j, "rejected")
      BY <1>2, <1>4, <3>2, FinishSpeech DEF StatementFails
    <3> QED BY <2>1, <3>1, <3>2 DEF RedeemCheck
  <2>2. CASE ~RedeemCheck(j)
    <3>1. job'[j].pc # "update"
      BY <2>2, StartPlace, StepPlace
    <3> QED BY <1>4, <3>1
  <2> QED BY <2>1, <2>2
<1> QED BY <1>3, <1>4

LEMMA CreateCodeType ==
  ASSUME TypeOK, ClaimHeld, NEW c \in Codes, CreateCode(c)
  PROVE  TypeOK' /\ ClaimHeld'
<1>1. PICK g \in Campaigns : codes' = [codes EXCEPT ![c] = [campaign |-> g, uses |-> 0]]
  BY DEF CreateCode
<1>2. [campaign |-> g, uses |-> 0] \in CodeRow
  BY RedemptionAssumption DEF CodeRow
<1>3. codes' \in [Codes -> CodeRow \cup {NoCode}]
  BY <1>1, <1>2 DEF TypeOK
<1>4. UNCHANGED <<job, store, redemptions, now, claim, again>>
  BY DEF CreateCode
<1> QED BY <1>3, <1>4 DEF TypeOK, LedgerTypeOK, store, ClaimHeld, At

LEMMA TickType ==
  ASSUME TypeOK, ClaimHeld, Tick
  PROVE  TypeOK' /\ ClaimHeld'
<1>1. now' \in 0..MaxTime
  BY RedemptionAssumption DEF Tick, TypeOK
<1> QED BY <1>1 DEF Tick, TypeOK, LedgerTypeOK, store, ClaimHeld, At

LEMMA RedemptionTyped == Spec => [](TypeOK /\ ClaimHeld)
<1>1. Init => TypeOK /\ ClaimHeld
  <2> SUFFICES ASSUME Init PROVE TypeOK /\ ClaimHeld
    OBVIOUS
  <2>1. LedgerTypeOK
    BY LedgerInitType DEF Init
  <2>2. (CHOOSE c \in Codes : TRUE) \in Codes
    BY RedemptionAssumption
  <2>3. claim \in [Jobs -> Claim]
    BY <2>2 DEF Init, Claim
  <2>4. ClaimHeld
    BY DEF Init, LedgerInit, IdleJob, ClaimHeld, At
  <2> QED BY <2>1, <2>3, <2>4, RedemptionAssumption DEF Init, TypeOK
<1>2. TypeOK /\ ClaimHeld /\ [Next]_vars => TypeOK' /\ ClaimHeld'
  <2> SUFFICES ASSUME TypeOK, ClaimHeld, [Next]_vars PROVE TypeOK' /\ ClaimHeld'
    OBVIOUS
  <2>1. CASE \E j \in Jobs : Start(j) \/ Step(j)
    <3>1. PICK j \in Jobs : Start(j) \/ Step(j)
      BY <2>1
    <3>2. LedgerTypeOK' /\ ClaimHeld'
      BY <3>1, RedemptionSound, ClaimStaysHeld DEF Sound
    <3> QED BY <3>1, <3>2, CodeTablesType DEF TypeOK
  <2>2. CASE \E c \in Codes : CreateCode(c)
    BY <2>2, CreateCodeType
  <2>3. CASE \E k \in Keys : Adjust(k) /\ UNCHANGED codeVars
    BY <2>3, AdjustType DEF TypeOK, codeVars, ClaimHeld, At, Adjust
  <2>4. CASE Tick
    BY <2>4, TickType
  <2>5. CASE UNCHANGED vars
    BY <2>5 DEF TypeOK, LedgerTypeOK, vars, ClaimHeld, At
  <2> QED BY <2>1, <2>2, <2>3, <2>4, <2>5 DEF Next, Quiescent
<1> QED BY <1>1, <1>2, PTL DEF Spec

\* Codes, redemptions and claims keep their types: no count is written back that
\* was not read from a code, and none replaces a row by anything but a row.
THEOREM RedemptionTypeCorrect == Spec => []TypeOK
BY RedemptionTyped, PTL

-----------------------------------------------------------------------------
(* The invariants of the ledger, and the abstract accounts *)

\* What is no request leaves the shared tables alone, or adjusts them.
LEMMA RestOfNext ==
  ASSUME [Next]_vars, ~\E j \in Jobs : Start(j) \/ Step(j)
  PROVE  (\E k \in Keys : Adjust(k))
         \/ UNCHANGED <<balances, history, job, faults, adjusts, fresh, writes>>
BY DEF Next, Quiescent, vars, CreateCode, Tick, store

LEMMA RedemptionInvariance == Spec => [](LedgerInv /\ MoversRecord)
<1>1. Init => LedgerInv /\ MoversRecord
  BY LedgerInitInv, LedgerInitKeeps DEF Init
<1>2. TypeOK /\ TypeOK' /\ LedgerInv /\ MoversRecord /\ [Next]_vars
        => LedgerInv' /\ MoversRecord'
  <2> SUFFICES ASSUME TypeOK, TypeOK', LedgerInv, MoversRecord, [Next]_vars
               PROVE  LedgerInv' /\ MoversRecord'
    OBVIOUS
  <2>1. CASE \E j \in Jobs : Start(j) \/ Step(j)
    BY <2>1, RedemptionSound, EffectInv, StepRecords DEF TypeOK, Sound
  <2>2. CASE \E k \in Keys : Adjust(k)
    BY <2>2, AdjustInv, AdjustRecords DEF TypeOK
  <2>3. CASE UNCHANGED <<balances, history, job, faults, adjusts, fresh, writes>>
    BY <2>3 DEF LedgerInv, FreshEntity, UntouchedEntity, BalancesInRange,
                EntityInRange, RowOf, MoversRecord, HasMoved
  <2> QED BY <2>1, <2>2, <2>3, RestOfNext
<1> QED BY <1>1, <1>2, RedemptionTypeCorrect, PTL DEF Spec

\* Redeem and DeleteCode implement Accounts, whatever codes are created, deleted or
\* expire meanwhile: success is told only of a grant that was written.
THEOREM RedemptionKeepsAccounts == Spec => KeepsAccounts
<1>1. Init => Promise!Init
  BY LedgerInitKeeps DEF Init
<1>2. TypeOK /\ TypeOK' /\ LedgerInv /\ MoversRecord /\ [Next]_vars
        => [Promise!Next]_(Promise!vars)
  <2> SUFFICES ASSUME TypeOK, TypeOK', LedgerInv, MoversRecord, [Next]_vars
               PROVE  [Promise!Next]_(Promise!vars)
    OBVIOUS
  <2>1. CASE \E j \in Jobs : Start(j) \/ Step(j)
    BY <2>1, RedemptionSound, StepKeeps DEF TypeOK, Sound
  <2>2. CASE \E k \in Keys : Adjust(k)
    BY <2>2, AdjustKeeps DEF TypeOK
  <2>3. CASE UNCHANGED <<balances, history, job, faults, adjusts, fresh, writes>>
    BY <2>3, StutterKeeps
  <2> QED BY <2>1, <2>2, <2>3, RestOfNext
<1> QED BY <1>1, <1>2, RedemptionTypeCorrect, RedemptionInvariance, PTL
       DEF Spec, KeepsAccounts, Promise!Spec

-----------------------------------------------------------------------------
(* Redemptions on record *)

\* DELETE takes no code away that was redeemed between its COUNT and itself, nor
\* does a count written back: the foreign key holds at every statement.
THEOREM RedeemedCodesSurvive == Spec => []RedeemedCodeSurvives
<1>1. Init => RedeemedCodeSurvives
  BY DEF Init, RedeemedCodeSurvives
<1>2. TypeOK /\ ClaimHeld /\ RedeemedCodeSurvives /\ [Next]_vars => RedeemedCodeSurvives'
  <2> SUFFICES ASSUME TypeOK, ClaimHeld, RedeemedCodeSurvives, [Next]_vars,
                      NEW x \in redemptions'
               PROVE  codes'[x.code] # NoCode
    BY DEF RedeemedCodeSurvives
  <2>1. /\ codes \in [Codes -> CodeRow \cup {NoCode}]
        /\ \A y \in redemptions : y.code \in Codes /\ codes[y.code] # NoCode
    BY DEF TypeOK, Redemption, RedeemedCodeSurvives
  <2>2. CASE UNCHANGED <<codes, redemptions>>
    BY <2>1, <2>2
  <2>3. ASSUME NEW c \in Codes, CreateCode(c) PROVE codes'[x.code] # NoCode
    BY <2>1, <2>3 DEF CreateCode
  <2>4. ASSUME NEW j \in Jobs, DeleteRow(j) PROVE codes'[x.code] # NoCode
    BY <2>1, <2>4 DEF DeleteRow, Deletable
  <2>5. ASSUME NEW j \in Jobs, RedeemUpdate(j) PROVE codes'[x.code] # NoCode
    <3>1. \A c \in Codes : codes[c] # NoCode => codes'[c] # NoCode
      <4> SUFFICES ASSUME NEW c \in Codes, codes[c] # NoCode PROVE codes'[c] # NoCode
        OBVIOUS
      <4>1. CASE codes' = codes
        BY <4>1
      <4>2. CASE codes' = [codes EXCEPT ![CodeOf(j)].uses = claim[j].ent.uses]
        <5>1. codes[c] \in CodeRow
          BY <2>1
        <5>2. claim[j].ent.uses \in Nat
          BY <2>5 DEF ClaimHeld, RedeemUpdate, CodeRow
        <5>3. [codes[c] EXCEPT !.uses = claim[j].ent.uses] # NoCode
          BY <5>1, <5>2, UsesType, RedemptionAssumption
        <5> QED BY <2>1, <4>2, <5>3
      <4> QED BY <2>5, <4>1, <4>2 DEF RedeemUpdate
    <3> QED BY <2>1, <2>5, <3>1 DEF RedeemUpdate
  <2>6. ASSUME NEW j \in Jobs, RedeemFinish(j) PROVE codes'[x.code] # NoCode
    <3>1. codes' = codes
      BY <2>6 DEF RedeemFinish
    <3>2. x \in redemptions \/ codes[x.code] # NoCode
      BY <2>6 DEF RedeemFinish, RedemptionRow, Insertable
    <3> QED BY <2>1, <3>1, <3>2
  <2> QED BY <2>2, <2>3, <2>4, <2>5, <2>6
          DEF Next, Quiescent, vars, Tick, Start, Step, RedeemStart, DeleteStart,
              RedeemLookup, RedeemCheck, DeleteFind, DeleteCount, RedeemFind,
              RedeemCreate, RedeemSave, RedeemRecord, codeVars
<1> QED BY <1>1, <1>2, RedemptionTyped, PTL DEF Spec

-----------------------------------------------------------------------------
(* A user who has redeemed.  The strengthening: a request that starts after its *)
(* user redeemed the code gets no further than HasUserRedeemed.                 *)

AgainAsksOnly ==
  \A j \in again :
    /\ job[j].op = "redeem" /\ job[j].pc \in {"lookup", "hasRedeemed", "done"}
    /\ Redeemed(User(j), CodeOf(j))
    /\ ~HasMoved(j)

IdleMoveNothing == \A j \in Jobs : job[j].pc = "idle" => ~HasMoved(j)

AgainInv == AgainAsksOnly /\ IdleMoveNothing

\* What a step does to the request: its user and code stay, and one whose user has
\* redeemed is refused by the check.
LEMMA StepChecks ==
  ASSUME TypeOK, NEW j \in Jobs, Step(j), job[j].op = "redeem",
         job[j].pc \in {"lookup", "hasRedeemed"}, Redeemed(User(j), CodeOf(j))
  PROVE  /\ job'[j].op = "redeem" /\ job'[j].pc \in {"hasRedeemed", "done"}
         /\ job'[j].key[1] = job[j].key[1]
<1>1. job \in [Jobs -> Job] /\ job[j] \in Job
  BY DEF TypeOK, LedgerTypeOK
<1>2. CASE \E res : Finish(j, res)
  BY <1>1, <1>2 DEF Finish, Job
<1>3. CASE RedeemLookup(j) /\ ~\E res : Finish(j, res)
  <2> DEFINE c == codes[CodeOf(j)]
  <2>1. job' = [job EXCEPT ![j].pc = "hasRedeemed", ![j].amount = c.campaign.amount,
                           ![j].key = Typed(j, c.campaign.type)]
    BY <1>3 DEF RedeemLookup, StatementFails
  <2> HIDE DEF c
  <2>2. job'[j].op = job[j].op /\ job'[j].pc = "hasRedeemed"
        /\ job'[j].key = Typed(j, c.campaign.type)
    BY <1>1, <2>1 DEF Job
  <2> QED BY <2>2 DEF Typed
<1>4. CASE RedeemCheck(j) /\ ~\E res : Finish(j, res)
  BY <1>4 DEF RedeemCheck, StatementFails, HasUserRedeemed
<1> QED BY <1>2, <1>3, <1>4
        DEF Step, At, DeleteFind, DeleteCount, DeleteRow, RedeemUpdate, RedeemFind,
            RedeemCreate, RedeemSave, RedeemRecord, RedeemFinish

\* Steps leave the codes that requests hold, and redemptions are never taken back.
LEMMA StepHolds ==
  ASSUME TypeOK, NEW j \in Jobs, Step(j)
  PROVE  /\ UNCHANGED again
         /\ redemptions \subseteq redemptions'
         /\ \A i \in Jobs : claim'[i].code = claim[i].code
<1>1. claim \in [Jobs -> Claim]
  BY DEF TypeOK
<1>2. CASE RedeemLookup(j) \/ RedeemCheck(j)
  BY <1>1, <1>2 DEF RedeemLookup, RedeemCheck, Claim
<1>3. CASE RedeemFinish(j)
  BY <1>3 DEF RedeemFinish
<1> QED BY <1>2, <1>3
        DEF Step, DeleteFind, DeleteCount, DeleteRow, RedeemUpdate, RedeemFind,
            RedeemCreate, RedeemSave, RedeemRecord, codeVars

LEMMA StepAgain ==
  ASSUME TypeOK, AgainInv, NEW j \in Jobs, Step(j)
  PROVE  AgainInv'
<1>1. Effect(j) /\ Speaks(j) /\ job'[j].pc # "idle"
  BY RedemptionSound, StepPlace DEF Sound
<1>2. \A i \in Jobs \ {j} : job'[i] = job[i]
  BY <1>1 DEF Effect
<1>3. AgainAsksOnly'
  <2> SUFFICES ASSUME NEW i \in again
               PROVE  /\ job'[i].op = "redeem" /\ job'[i].pc \in {"lookup", "hasRedeemed", "done"}
                      /\ Redeemed(User(i), CodeOf(i))'
                      /\ ~HasMoved(i)'
    BY StepHolds DEF AgainAsksOnly
  <2>1. /\ i \in Jobs /\ job[i].op = "redeem" /\ Redeemed(User(i), CodeOf(i)) /\ ~HasMoved(i)
        /\ job[i].pc \in {"lookup", "hasRedeemed", "done"}
    BY DEF AgainInv, AgainAsksOnly, TypeOK
  <2>2. /\ job'[i].op = "redeem" /\ job'[i].pc \in {"lookup", "hasRedeemed", "done"}
        /\ job'[i].key[1] = job[i].key[1]
    <3>1. CASE i # j
      BY <1>2, <2>1, <3>1
    <3>2. CASE i = j
      BY <1>1, <2>1, <3>2, StepChecks DEF Speaks
    <3> QED BY <3>1, <3>2
  <2>3. Redeemed(User(i), CodeOf(i))'
    BY <2>1, <2>2, StepHolds DEF Redeemed, User, CodeOf
  <2>4. ~HasMoved(i)'
    BY <1>1, <2>1, MovesAlone
  <2> QED BY <2>2, <2>3, <2>4
<1>4. IdleMoveNothing'
  <2> SUFFICES ASSUME NEW i \in Jobs, job'[i].pc = "idle" PROVE ~HasMoved(i)'
    BY DEF IdleMoveNothing
  <2>1. i # j /\ ~HasMoved(i)
    BY <1>1, <1>2 DEF AgainInv, IdleMoveNothing
  <2> QED BY <1>1, <2>1, MovesAlone
<1> QED BY <1>3, <1>4 DEF AgainInv

LEMMA StartAgain ==
  ASSUME TypeOK, AgainInv, NEW j \in Jobs, Start(j)
  PROVE  AgainInv'
<1>1. /\ \A i \in Jobs \ {j} : job'[i] = job[i] /\ claim'[i] = claim[i]
      /\ job[j].pc = "idle" /\ job'[j].pc = "lookup" /\ UNCHANGED <<redemptions, writes>>
  <2>1. Effect(j)
    BY RedemptionSound DEF Sound
  <2>2. \E c \in Codes : claim' = [claim EXCEPT ![j].code = c]
    BY DEF Start, RedeemStart, DeleteStart
  <2>3. \A i \in Jobs \ {j} : claim'[i] = claim[i]
    BY <2>2 DEF TypeOK
  <2> QED BY <2>1, <2>3, StartPlace DEF Effect, Start, RedeemStart, DeleteStart, store
<1>2. j \notin again /\ ~HasMoved(j)
  BY <1>1 DEF AgainInv, AgainAsksOnly, IdleMoveNothing
<1>3. j \in again' => job'[j].op = "redeem" /\ Redeemed(User(j), CodeOf(j))'
  <2> SUFFICES ASSUME j \in again' PROVE job'[j].op = "redeem" /\ Redeemed(User(j), CodeOf(j))'
    OBVIOUS
  <2>1. PICK u \in Users, c \in Codes :
          /\ Begin(j, "redeem", "lookup", <<u, "free">>, 0, TRUE, NoRef)
          /\ claim' = [claim EXCEPT ![j].code = c]
          /\ Redeemed(u, c)
    BY <1>2 DEF Start, RedeemStart, DeleteStart
  <2>2. PICK s \in Stamps(j) :
           job' = [job EXCEPT ![j] =
                     [IdleJob(j) EXCEPT !.op = "redeem", !.pc = "lookup", !.key = <<u, "free">>,
                                        !.amount = 0, !.rest = 0, !.part = 0, !.stamp = s,
                                        !.meta = TRUE, !.ref = NoRef]]
    BY <2>1 DEF Begin
  <2> DEFINE new == [IdleJob(j) EXCEPT !.op = "redeem", !.pc = "lookup", !.key = <<u, "free">>,
                                       !.amount = 0, !.rest = 0, !.part = 0, !.stamp = s,
                                       !.meta = TRUE, !.ref = NoRef]
  <2>3. new.op = "redeem" /\ new.key = <<u, "free">>
    BY DEF IdleJob
  <2>4. job' = [job EXCEPT ![j] = new]
    BY <2>2
  <2> HIDE DEF new
  <2>5. job'[j].op = "redeem" /\ job'[j].key[1] = u
    BY <2>3, <2>4 DEF TypeOK, LedgerTypeOK
  <2>6. claim'[j].code = c
    BY <2>1 DEF TypeOK, Claim
  <2> QED BY <1>1, <2>1, <2>5, <2>6 DEF Redeemed, User, CodeOf
<1>4. again' \subseteq again \cup {j}
  BY DEF Start, RedeemStart, DeleteStart
<1>5. AgainAsksOnly'
  <2> SUFFICES ASSUME NEW i \in again'
               PROVE  /\ job'[i].op = "redeem" /\ job'[i].pc \in {"lookup", "hasRedeemed", "done"}
                      /\ Redeemed(User(i), CodeOf(i))'
                      /\ ~HasMoved(i)'
    BY DEF AgainAsksOnly
  <2>1. CASE i = j
    BY <1>1, <1>2, <1>3, <2>1 DEF HasMoved
  <2>2. CASE i # j
    <3>1. i \in again /\ i \in Jobs
      BY <1>4, <2>2 DEF TypeOK
    <3>2. job'[i] = job[i] /\ claim'[i] = claim[i]
      BY <1>1, <2>2, <3>1
    <3> QED BY <1>1, <3>1, <3>2 DEF AgainInv, AgainAsksOnly, HasMoved, Redeemed, User, CodeOf
  <2> QED BY <2>1, <2>2
<1>6. IdleMoveNothing'
  BY <1>1 DEF AgainInv, IdleMoveNothing, HasMoved
<1> QED BY <1>5, <1>6 DEF AgainInv

\* Once a user's redemption of a code is on record, no request of this user for this
\* code that starts later moves anything, for any number of requests, whatever
\* becomes of the code: HasUserRedeemed stops it.
THEOREM RedeemedUsersGetNothing == Spec => []RedeemedUserGetsNothingMore
<1>1. Init => AgainInv
  <2> SUFFICES ASSUME Init PROVE AgainInv
    OBVIOUS
  <2>1. writes = {} /\ again = {}
    BY DEF Init, LedgerInit
  <2> QED BY <2>1 DEF AgainInv, AgainAsksOnly, IdleMoveNothing, HasMoved
<1>2. TypeOK /\ AgainInv /\ [Next]_vars => AgainInv'
  <2> SUFFICES ASSUME TypeOK, AgainInv, [Next]_vars PROVE AgainInv'
    OBVIOUS
  <2>1. CASE \E j \in Jobs : Start(j) \/ Step(j)
    BY <2>1, StartAgain, StepAgain
  <2>2. CASE UNCHANGED <<job, writes, redemptions, claim, again>>
    BY <2>2 DEF AgainInv, AgainAsksOnly, IdleMoveNothing, HasMoved, Redeemed, User, CodeOf
  <2> QED BY <2>1, <2>2
          DEF Next, Quiescent, vars, CreateCode, Tick, Adjust, codeVars, store
<1>3. AgainInv => RedeemedUserGetsNothingMore
  BY DEF AgainInv, AgainAsksOnly, RedeemedUserGetsNothingMore, HasMoved, Written
<1> QED BY <1>1, <1>2, <1>3, RedemptionTypeCorrect, PTL DEF Spec

-----------------------------------------------------------------------------
(* What requests write and record *)

\* Every code on record pays something.
CodesPay == \A c \in Codes : codes[c] # NoCode => codes[c].campaign.amount > 0

\* Requests leave codes that pay something.
LEMMA CodesPayStays ==
  ASSUME TypeOK, ClaimHeld, CodesPay, NEW j \in Jobs, Start(j) \/ Step(j)
  PROVE  CodesPay'
<1>1. codes \in [Codes -> CodeRow \cup {NoCode}]
  BY DEF TypeOK
<1>2. CASE UNCHANGED codes
  BY <1>2 DEF CodesPay
<1>3. CASE RedeemUpdate(j)
  <2> SUFFICES ASSUME NEW c \in Codes, codes'[c] # NoCode PROVE codes'[c].campaign.amount > 0
    BY DEF CodesPay
  <2>1. CASE codes' = codes
    BY <2>1 DEF CodesPay
  <2>2. CASE /\ codes[CodeOf(j)] # NoCode
             /\ codes' = [codes EXCEPT ![CodeOf(j)].uses = claim[j].ent.uses]
    <3>1. codes[c] # NoCode
      BY <1>1, <2>2
    <3>2. codes'[c].campaign = codes[c].campaign
      BY <1>1, <2>2, <3>1 DEF CodeRow
    <3> QED BY <3>1, <3>2 DEF CodesPay
  <2> QED BY <1>3, <2>1, <2>2 DEF RedeemUpdate
<1>4. CASE DeleteRow(j)
  BY <1>1, <1>4 DEF DeleteRow, CodesPay
<1> QED BY <1>2, <1>3, <1>4
        DEF Start, Step, RedeemStart, DeleteStart, RedeemLookup, RedeemCheck, DeleteFind,
            DeleteCount, RedeemFind, RedeemCreate, RedeemSave, RedeemRecord, RedeemFinish, codeVars

\* So does the administration.
LEMMA CodesPayRest ==
  ASSUME TypeOK, CodesPay, [Next]_vars, ~\E j \in Jobs : Start(j) \/ Step(j)
  PROVE  CodesPay'
<1>1. CASE UNCHANGED codes
  BY <1>1 DEF CodesPay
<1>2. CASE \E c \in Codes : CreateCode(c)
  BY <1>2 DEF CreateCode, CodesPay, TypeOK
<1> QED BY <1>1, <1>2 DEF Next, Quiescent, vars, Tick, codeVars

\* A redemption or a deletion begins a journey.
LEMMA RedeemStartJourney ==
  ASSUME TypeOK, NEW j \in Jobs, Start(j)
  PROVE  Journey(j)
<1>1. LedgerTypeOK /\ UNCHANGED store
  BY DEF TypeOK, Start, RedeemStart, DeleteStart
<1>2. PICK op \in {"redeem", "delete"}, k \in Keys \cup {IdleJob(j).key}, m \in BOOLEAN :
         Begin(j, op, "lookup", k, 0, m, NoRef)
  BY DEF Start, RedeemStart, DeleteStart, Keys, CurrencyTypes
<1>3. "lookup" \in Early \ {"idle"}
  BY DEF Early
<1> QED BY <1>1, <1>2, <1>3, BeginJourney

\* The statements of a deletion are steps of it.
LEMMA DeleteJourney ==
  ASSUME TypeOK, NEW j \in Jobs, Numbers(j), DeleteFind(j) \/ DeleteCount(j) \/ DeleteRow(j)
  PROVE  Journey(j)
<1>1. /\ LedgerTypeOK /\ job[j].op = "delete"
      /\ job[j].pc \in {"lookup", "count", "delete"}
  BY DEF TypeOK, DeleteFind, DeleteCount, DeleteRow, At
<1>2. /\ ReadOnly => Still /\ faults' >= faults
      /\ Answered \/ Broken => faults' >= faults
  BY <1>1, FaultsGrow DEF ReadOnly, Still
<1>3. job[j].pc \in Early \ {"idle"} /\ job[j].pc # "checkPaid"
  BY <1>1 DEF Early
<1>4. CASE StatementFails(j)
  BY <1>1, <1>3, <1>4, FailsJourney
<1>5. CASE ReadOnly /\ (Finish(j, "rejected") \/ Goto(j, "count") \/ Goto(j, "delete"))
  BY <1>1, <1>2, <1>3, <1>5, LookedJourney DEF Early
<1>6. CASE DeleteRow(j)
  <2>1. /\ Finish(j, "rejected") \/ Finish(j, "ok") \/ Finish(j, "dbError")
        /\ Answered \/ Broken
        /\ Still
    BY <1>6 DEF DeleteRow, Still
  <2> QED BY <1>1, <1>2, <1>3, <2>1, LookedJourney
<1> QED BY <1>4, <1>5, <1>6 DEF DeleteFind, DeleteCount

\* So are the statements of a redemption before its grant, which takes its amount
\* from the code.
LEMMA RedeemAskJourney ==
  ASSUME TypeOK, CodesPay, NEW j \in Jobs, Numbers(j),
         RedeemLookup(j) \/ RedeemCheck(j) \/ RedeemUpdate(j)
  PROVE  Journey(j)
<1>1. /\ LedgerTypeOK /\ job[j].op = "redeem"
      /\ job[j].pc \in {"lookup", "hasRedeemed", "update"}
  BY DEF TypeOK, RedeemLookup, RedeemCheck, RedeemUpdate, At
<1>2. /\ ReadOnly => Still /\ faults' >= faults
      /\ Answered \/ Broken => faults' >= faults
  BY <1>1, FaultsGrow DEF ReadOnly, Still
<1>3. job[j].pc \in Early \ {"idle"} /\ job[j].pc # "checkPaid"
  BY <1>1 DEF Early
<1>4. CASE StatementFails(j)
  BY <1>1, <1>3, <1>4, FailsJourney
<1>5. CASE ReadOnly /\ (Finish(j, "rejected") \/ Goto(j, "update"))
  BY <1>1, <1>2, <1>3, <1>5, LookedJourney DEF Early
<1>6. CASE RedeemUpdate(j)
  <2>1. /\ Goto(j, "find") \/ Finish(j, "dbError")
        /\ Answered \/ Broken
        /\ Still
    BY <1>6 DEF RedeemUpdate, Still
  <2> QED BY <1>1, <1>2, <1>3, <2>1, LookedJourney
<1>7. ASSUME RedeemLookup(j), ReadOnly, IsValid(codes[CodeOf(j)]),
             job' = [job EXCEPT ![j].pc = "hasRedeemed",
                                ![j].amount = codes[CodeOf(j)].campaign.amount,
                                ![j].key = Typed(j, codes[CodeOf(j)].campaign.type)]
      PROVE  Journey(j)
  <2> DEFINE c == codes[CodeOf(j)]
  <2>1. c \in CodeRow /\ c.campaign.amount > 0
    BY <1>7 DEF IsValid, CodesPay, TypeOK, Claim, CodeOf
  <2>2. c.campaign.amount \in Int
    BY <2>1 DEF CodeRow, Campaign
  <2> HIDE DEF c
  <2>3. job' = [job EXCEPT ![j].pc = "hasRedeemed", ![j].amount = c.campaign.amount,
                           ![j].key = Typed(j, c.campaign.type)]
    BY <1>7 DEF c
  <2>4. /\ \A i \in Jobs \ {j} : job'[i] = job[i]
        /\ job'[j].op = job[j].op /\ job'[j].stamp = job[j].stamp /\ job'[j].meta = job[j].meta
        /\ job'[j].ref = job[j].ref /\ job'[j].attempt = job[j].attempt
        /\ job'[j].result = job[j].result /\ job'[j].pc = "hasRedeemed"
        /\ job'[j].amount = c.campaign.amount
    BY <1>1, <2>3 DEF LedgerTypeOK, Job
  <2>5. Looks(j)
    BY <1>1, <1>2, <1>3, <1>7, <2>1, <2>2, <2>4 DEF Looks, Split, Early
  <2> QED BY <1>2, <1>7, <2>4, <2>5 DEF Journey
<1> QED BY <1>4, <1>5, <1>6, <1>7 DEF RedeemLookup, RedeemCheck

\* So is every other statement.
LEMMA RedeemStepJourney ==
  ASSUME TypeOK, CodesPay, NEW j \in Jobs, Step(j), Numbers(j)
  PROVE  Journey(j)
<1>1. LedgerTypeOK
  BY DEF TypeOK
<1>2. CASE DeleteFind(j) \/ DeleteCount(j) \/ DeleteRow(j)
  BY <1>2, DeleteJourney
<1>3. CASE RedeemLookup(j) \/ RedeemCheck(j) \/ RedeemUpdate(j)
  BY <1>3, RedeemAskJourney
<1>4. CASE RedeemFind(j)
  BY <1>1, <1>4, FindGrantJourney DEF RedeemFind, At, Grants
<1>5. CASE RedeemCreate(j)
  BY <1>1, <1>5, CreateGrantJourney DEF RedeemCreate, At, Grants
<1>6. CASE RedeemSave(j)
  BY <1>1, <1>6, SaveJourney DEF RedeemSave, At
<1>7. CASE RedeemRecord(j)
  BY <1>1, <1>7, RecordOneJourney DEF RedeemRecord, At, Grants, Split
<1>8. CASE RedeemFinish(j)
  <2>1. /\ Finish(j, "ok") \/ Finish(j, "dbError")
        /\ Answered \/ Broken
        /\ Still /\ job[j].pc = "saveRedemption"
    BY <1>8 DEF RedeemFinish, Still, At
  <2> QED BY <1>1, <2>1, FaultsGrow, AnswersJourney DEF Past
<1> QED BY <1>2, <1>3, <1>4, <1>5, <1>6, <1>7, <1>8 DEF Step

\* What is no request leaves requests, claims and redemptions alone.
LEMMA RestOfCodes ==
  ASSUME [Next]_vars, ~\E j \in Jobs : Start(j) \/ Step(j)
  PROVE  UNCHANGED <<history, job, faults, writes, redemptions, claim>>
BY DEF Next, Quiescent, vars, CreateCode, Tick, store, Adjust, codeVars

\* Every behaviour of the redemption service keeps the invariant of the journeys,
\* and codes that pay something.
LEMMA ToursInvariance == Spec => [](CodesPay /\ Tours)
<1>1. Init => CodesPay /\ Tours
  BY InitTours DEF Init, CodesPay
<1>2. TypeOK /\ TypeOK' /\ ClaimHeld /\ CodesPay /\ Tours /\ [Next]_vars => CodesPay' /\ Tours'
  <2> SUFFICES ASSUME TypeOK, TypeOK', ClaimHeld, CodesPay, Tours, [Next]_vars
               PROVE  CodesPay' /\ Tours'
    OBVIOUS
  <2>1. CASE \E j \in Jobs : Start(j) \/ Step(j)
    <3>1. PICK j \in Jobs : Start(j) \/ Step(j)
      BY <2>1
    <3>2. Journey(j)
      BY <3>1, RedeemStartJourney, RedeemStepJourney DEF Tours, Carrying
    <3> QED BY <3>1, <3>2, JourneyTours, CodesPayStays DEF TypeOK
  <2>2. CASE ~\E j \in Jobs : Start(j) \/ Step(j)
    BY <2>2, RestOfCodes, RestTours, CodesPayRest
  <2> QED BY <2>1, <2>2
<1> QED BY <1>1, <1>2, RedemptionTyped, PTL DEF Spec

\* The invariant of the journeys shows what the ledger promises.
LEMMA RedemptionTours ==
  TypeOK /\ Tours => /\ HistoryIsBacked /\ ConsumeNeverOverdraws /\ FreeBeforePaid
                     /\ SuccessIsAccounted /\ RetriesApplyOnce
BY ToursShow DEF TypeOK

\* Every row of the transactions table describes a balance that its request wrote,
\* however requests interleave, retry and break off, although the two statements
\* commit separately.
THEOREM TransactionsBacked == Spec => []HistoryIsBacked
BY RedemptionTypeCorrect, ToursInvariance, RedemptionTours, PTL

\* The rows of a request that was answered with success add up to the amount it
\* asked for.
THEOREM SuccessesAccounted == Spec => []SuccessIsAccounted
BY RedemptionTypeCorrect, ToursInvariance, RedemptionTours, PTL

\* As long as no statement breaks, retries never move more than was asked for, and
\* what a finished request moved is on record.
THEOREM RetriesOnce == Spec => []RetriesApplyOnce
BY RedemptionTypeCorrect, ToursInvariance, RedemptionTours, PTL

-----------------------------------------------------------------------------
(* What redemptions grant *)

\* The strengthening: a redemption that holds a code, or has moved a balance, is for
\* what the code pays; one about to be entered, or entered, has its grant on record.
Held == {"hasRedeemed", "update", "find", "create", "save", "record", "saveRedemption"}

Priced(j) ==
  /\ claim[j].ent \in CodeRow /\ claim[j].ent.campaign.amount = job[j].amount
  /\ job[j].amount > 0

ClaimsPay ==
  \A j \in Jobs : job[j].op = "redeem" /\ (job[j].pc \in Held \/ Written(j) # {}) => Priced(j)

Granted(j) ==
  \E w \in Written(j), h \in history :
    /\ h.id = <<job[j].stamp, "">> /\ w.key = h.key /\ h.key[1] = job[j].key[1]
    /\ Delta(w) = h.amount /\ h.amount = job[j].amount

GrantedFirst == \A j \in Jobs : At(j, "redeem", "saveRedemption") => Granted(j)

OnRecord ==
  \A x \in redemptions : \E j \in Jobs :
    /\ job[j].op = "redeem" /\ job[j].pc \notin Early
    /\ x.code = CodeOf(j) /\ x.user = User(j) /\ x.txn = job[j].stamp
    /\ Granted(j)

SuccessRedeemed ==
  \A j \in Jobs : job[j].op = "redeem" /\ job[j].result = "ok" =>
    Redeemed(User(j), CodeOf(j)) /\ Written(j) # {}

\* A request changes no other one's claim, its own only while it checks the code,
\* and adds to the redemptions only with its last statement.
LEMMA ClaimApart ==
  ASSUME TypeOK, NEW j \in Jobs, Start(j) \/ Step(j)
  PROVE  /\ \A i \in Jobs \ {j} : claim'[i] = claim[i]
         /\ Step(j) => \A i \in Jobs : CodeOf(i)' = CodeOf(i)
         /\ Step(j) => RedeemLookup(j) \/ RedeemCheck(j) \/ UNCHANGED claim
         /\ redemptions \subseteq redemptions'
         /\ UNCHANGED redemptions \/ RedeemFinish(j)
<1>1. claim \in [Jobs -> Claim]
  BY DEF TypeOK
<1>2. Step(j) => RedeemLookup(j) \/ RedeemCheck(j) \/ UNCHANGED claim
  BY DEF Step, RedeemUpdate, DeleteRow, RedeemFinish, DeleteFind, DeleteCount, RedeemFind,
         RedeemCreate, RedeemSave, RedeemRecord, codeVars
<1>3. \A i \in Jobs \ {j} : claim'[i] = claim[i]
  BY <1>1, <1>2 DEF Start, RedeemStart, DeleteStart, RedeemLookup, RedeemCheck
<1>4. redemptions \subseteq redemptions' /\ (UNCHANGED redemptions \/ RedeemFinish(j))
  BY DEF Start, RedeemStart, DeleteStart, Step, RedeemLookup, RedeemCheck,
         RedeemUpdate, DeleteRow, RedeemFinish, DeleteFind, DeleteCount, RedeemFind,
         RedeemCreate, RedeemSave, RedeemRecord, codeVars
<1> QED BY <1>2, <1>3, <1>4, StepHolds DEF CodeOf

\* A request keeps its operation, and past the checks its row.
LEMMA OpStays ==
  ASSUME NEW j \in Jobs, Journey(j), job[j].pc # "idle"
  PROVE  /\ job'[j].op = job[j].op /\ job[j].pc # "done"
         /\ job'[j].pc = "saveRedemption" => Records(j)
         /\ job[j].pc \notin Early /\ ~Split(j) => job'[j].key = job[j].key
BY DEF Journey, Begins, Looks, Answers, Goes, Skips, Takes, SavesOrNot, Records, SamePlan,
       SameRequest, Early, Under, Past

\* A redemption that holds a code grants what the code pays.
LEMMA ClaimsPayStays ==
  ASSUME TypeOK, CodesPay, ClaimsPay, Tours, NEW j \in Jobs, Start(j) \/ Step(j), Journey(j)
  PROVE  ClaimsPay'
<1>1. /\ claim \in [Jobs -> Claim] /\ job \in [Jobs -> Job]
      /\ codes \in [Codes -> CodeRow \cup {NoCode}]
  BY DEF TypeOK, LedgerTypeOK
<1> SUFFICES ASSUME NEW i \in Jobs, job'[i].op = "redeem", job'[i].pc \in Held \/ Written(i)' # {}
             PROVE  Priced(i)'
  BY DEF ClaimsPay
<1>2. CASE i # j
  <2>1. job'[i] = job[i] /\ Written(i)' = Written(i) /\ claim'[i] = claim[i]
    BY <1>2, OtherTables, ClaimApart
  <2> QED BY <2>1 DEF ClaimsPay, Priced
<1>3. job[j].pc \in Early => Written(j)' = {}
  <2>1. Written(j) = {} \/ job[j].pc \notin Early
    BY DEF Tours, Carrying, Wrote
  <2>2. job[j].pc \in Early => UNCHANGED writes
    BY JourneyTables DEF Early
  <2> QED BY <2>1, <2>2 DEF Written
<1>4. CASE i = j /\ Start(j)
  <2>1. job[j].pc = "idle" /\ job'[j].pc = "lookup"
    BY <1>4, StartPlace
  <2> QED BY <1>3, <1>4, <2>1 DEF Early, Held
<1>5. CASE i = j /\ RedeemLookup(j)
  <2>1. job[j].pc \in Early
    BY <1>5 DEF RedeemLookup, At, Early
  <2>2. job'[j].pc # "done"
    BY <1>3, <1>5, <2>1 DEF Held
  <2>3. ~StatementFails(j) /\ ~Finish(j, "rejected")
    BY <1>1, <2>2, FinishLeaves DEF StatementFails
  <2> DEFINE c == codes[CodeOf(j)]
  <2>4. /\ IsValid(c) /\ claim' = [claim EXCEPT ![j].ent = c]
        /\ job' = [job EXCEPT ![j].pc = "hasRedeemed", ![j].amount = c.campaign.amount,
                              ![j].key = Typed(j, c.campaign.type)]
    BY <1>5, <2>3 DEF RedeemLookup
  <2>5. c \in CodeRow /\ c.campaign.amount > 0
    BY <1>1, <2>4 DEF IsValid, CodesPay, Claim, CodeOf
  <2> HIDE DEF c
  <2>6. job'[j].amount = c.campaign.amount /\ claim'[j].ent = c
    BY <1>1, <2>4 DEF Job, Claim
  <2> QED BY <1>5, <2>5, <2>6 DEF Priced
<1>6. CASE i = j /\ RedeemCheck(j)
  <2>1. job[j].pc \in Early /\ job[j].pc \in Held /\ job[j].op = "redeem"
    BY <1>6 DEF RedeemCheck, At, Early, Held
  <2>2. job'[j].pc # "done"
    BY <1>3, <1>6, <2>1 DEF Held
  <2>3. ~StatementFails(j) /\ ~Finish(j, "rejected")
    BY <1>1, <2>2, FinishLeaves DEF StatementFails
  <2>4. claim' = [claim EXCEPT ![j].ent.uses = @ + 1] /\ Goto(j, "update")
    BY <1>6, <2>3 DEF RedeemCheck
  <2>5. Priced(j)
    BY <2>1 DEF ClaimsPay
  <2>6. claim'[j].ent = [claim[j].ent EXCEPT !.uses = claim[j].ent.uses + 1]
    BY <1>1, <2>4 DEF Claim
  <2>7. claim[j].ent.uses + 1 \in Nat
    BY <2>5 DEF Priced, CodeRow
  <2>8. claim'[j].ent \in CodeRow /\ claim'[j].ent.campaign = claim[j].ent.campaign
    BY <2>5, <2>6, <2>7, UsesType DEF Priced, CodeRow
  <2>9. job'[j].amount = job[j].amount
    BY <1>1, <2>4, GotoLeaves DEF SamePlan, SameRequest
  <2> QED BY <1>6, <2>5, <2>8, <2>9 DEF Priced
<1>7. CASE i = j /\ Step(j) /\ ~RedeemLookup(j) /\ ~RedeemCheck(j)
  <2>1. UNCHANGED claim
    BY <1>7, ClaimApart
  <2>2. job[j].pc # "idle"
    BY <1>7 DEF Step, DeleteFind, DeleteCount, DeleteRow, RedeemUpdate, RedeemFind, RedeemCreate,
                RedeemSave, RedeemRecord, RedeemFinish, At
  <2>3. job[j].op = "redeem"
    BY <1>7, <2>2, OpStays
  <2>4. job[j].pc \in Held
    BY <1>7, <2>3 DEF Step, DeleteFind, DeleteCount, DeleteRow, RedeemUpdate, RedeemFind, RedeemCreate,
                RedeemSave, RedeemRecord, RedeemFinish, At, Held
  <2>5. job'[j].amount = job[j].amount
    <3>1. CASE RedeemUpdate(j)
      BY <1>1, <3>1, FinishLeaves, GotoLeaves DEF RedeemUpdate, SamePlan, SameRequest
    <3>2. CASE ~RedeemUpdate(j)
      <4>1. job[j].pc \notin Early
        BY <1>7, <2>3, <3>2 DEF Step, DeleteFind, DeleteCount, DeleteRow, RedeemFind, RedeemCreate,
                RedeemSave, RedeemRecord, RedeemFinish, At, Early
      <4> QED BY <4>1, KeepsRequest DEF SameRequest
    <3> QED BY <3>1, <3>2
  <2> QED BY <1>7, <2>1, <2>3, <2>4, <2>5 DEF ClaimsPay, Priced
<1> QED BY <1>2, <1>4, <1>5, <1>6, <1>7

\* What was granted stays granted, to the same user.
LEMMA GrantedStays ==
  ASSUME TypeOK, NEW j \in Jobs, Journey(j), NEW i \in Jobs, job[i].op = "redeem",
         job[i].pc \notin Early, Granted(i)
  PROVE  Granted(i)' /\ job'[i].op = "redeem" /\ job'[i].pc \notin Early
         /\ job'[i].stamp = job[i].stamp /\ job'[i].key = job[i].key
<1>1. /\ job'[i].op = "redeem" /\ job'[i].pc \notin Early /\ job'[i].stamp = job[i].stamp
      /\ job'[i].key = job[i].key /\ job'[i].amount = job[i].amount
  <2>1. CASE i # j
    BY <2>1 DEF Journey
  <2>2. CASE i = j
    BY <2>2, KeepsRequest, OpStays DEF SameRequest, Split, Early
  <2> QED BY <2>1, <2>2
<1>2. Written(i) \subseteq Written(i)' /\ history \subseteq history'
  BY JourneyTables DEF Written
<1> QED BY <1>1, <1>2 DEF Granted

\* The record of a redemption shows its grant.
LEMMA RecordGrants ==
  ASSUME ~ClockRepeats, TypeOK, Tours, NEW j \in Jobs, Journey(j), job[j].op = "redeem",
         Records(j)
  PROVE  Granted(j)'
<1>1. /\ job[j].pc = "record" /\ ~Split(j) /\ Grants(j) /\ Suffix(j) = "" /\ job[j].pc # "idle"
      /\ job[j].pc \in Under
  BY DEF Records, Split, Grants, Suffix, Under
<1>2. Carrying(j) /\ Own(j)
  BY StampsApart DEF Tours
<1>3. Recorded(j) = {}
  BY <1>1, <1>2 DEF Carrying, Books
<1>4. NewRow(j, "") \in history'
  <2>1. \A h \in history : h.id # NewRow(j, "").id
    <3>1. NewRow(j, "").id[1] = job[j].stamp
      BY DEF NewRow
    <3> QED BY <1>3, <3>1 DEF Recorded
  <2> QED BY <1>1, <2>1 DEF Records, Insert
<1>5. PICK w \in Written(j) :
        w.key = job[j].key /\ w.before = job[j].before /\ w.after = job[j].ent.balance
  BY <1>1, <1>2 DEF Carrying, Wrote
<1>6. Delta(w) = job[j].amount /\ job[j].part = job[j].amount
  <2>1. /\ job[j].before \in Int /\ job[j].amount \in Int
        /\ job[j].part = job[j].amount
        /\ job[j].ent.balance = job[j].before + job[j].amount
    BY <1>1, <1>2, JobTypes DEF TypeOK, Carrying, Numbers, Signed
  <2> QED BY <1>5, <2>1 DEF Delta
<1>7. /\ job'[j].stamp = job[j].stamp /\ job'[j].key = job[j].key
      /\ job'[j].amount = job[j].amount /\ w \in Written(j)'
  BY <1>1 DEF Records, SameRequest, Written
<1>8. /\ NewRow(j, "").id = <<job[j].stamp, "">> /\ NewRow(j, "").key = job[j].key
      /\ NewRow(j, "").amount = job[j].part
  BY DEF NewRow
<1> QED BY <1>4, <1>5, <1>6, <1>7, <1>8 DEF Granted

\* A redemption is entered only after its grant was recorded.
LEMMA GrantedFirstStays ==
  ASSUME ~ClockRepeats, TypeOK, Tours, GrantedFirst, NEW j \in Jobs, Journey(j)
  PROVE  GrantedFirst'
<1> SUFFICES ASSUME NEW i \in Jobs, job'[i].op = "redeem", job'[i].pc = "saveRedemption"
             PROVE  Granted(i)'
  BY DEF GrantedFirst, At
<1>1. CASE i # j
  <2>1. job'[i] = job[i]
    BY <1>1 DEF Journey
  <2> QED BY <2>1, GrantedStays DEF GrantedFirst, At, Early
<1>2. CASE i = j
  <2>1. job[j].pc # "idle"
    BY <1>2 DEF Journey, Begins, Looks, Answers, Goes, Skips, Takes, SavesOrNot, Records, Early, Under, Past
  <2> QED BY <1>2, <2>1, OpStays, RecordGrants
<1> QED BY <1>1, <1>2

\* So every redemption on record was granted.
LEMMA OnRecordStays ==
  ASSUME ~ClockRepeats, TypeOK, Tours, GrantedFirst, OnRecord, NEW j \in Jobs, Journey(j),
         Start(j) \/ Step(j)
  PROVE  OnRecord'
<1> SUFFICES ASSUME NEW x \in redemptions'
             PROVE  \E i \in Jobs :
                      /\ job'[i].op = "redeem" /\ job'[i].pc \notin Early
                      /\ x.code = CodeOf(i)' /\ x.user = User(i)' /\ x.txn = job'[i].stamp
                      /\ Granted(i)'
  BY DEF OnRecord
<1>1. CASE x \in redemptions
  <2>1. PICK i \in Jobs : /\ job[i].op = "redeem" /\ job[i].pc \notin Early
                          /\ x.code = CodeOf(i) /\ x.user = User(i) /\ x.txn = job[i].stamp
                          /\ Granted(i)
    BY <1>1 DEF OnRecord
  <2>2. CodeOf(i)' = CodeOf(i)
    <3>1. CASE Start(j)
      <4>1. i # j
        BY <2>1, <3>1, StartPlace DEF Early
      <4> QED BY <4>1, ClaimApart DEF CodeOf
    <3>2. CASE Step(j)
      BY <3>2, ClaimApart
    <3> QED BY <3>1, <3>2
  <2> QED BY <2>1, <2>2, GrantedStays DEF User
<1>2. CASE x \notin redemptions
  <2>1. RedeemFinish(j)
    BY <1>2, ClaimApart
  <2>2. x.code = CodeOf(j) /\ x.user = User(j) /\ x.txn = job[j].stamp
    BY <1>2, <2>1 DEF RedeemFinish, RedemptionRow
  <2>3. At(j, "redeem", "saveRedemption") /\ CodeOf(j)' = CodeOf(j)
    BY <2>1 DEF RedeemFinish, CodeOf
  <2> QED BY <2>2, <2>3, GrantedStays DEF GrantedFirst, At, User, Early
<1> QED BY <1>1, <1>2

\* A redemption succeeds only when it is on record and has moved a balance.
LEMMA SuccessStays ==
  ASSUME TypeOK, Tours, MoversRecord, SuccessRedeemed, NEW j \in Jobs, Journey(j),
         Start(j) \/ Step(j)
  PROVE  SuccessRedeemed'
<1> SUFFICES ASSUME NEW i \in Jobs, job'[i].op = "redeem", job'[i].result = "ok"
             PROVE  Redeemed(User(i), CodeOf(i))' /\ Written(i)' # {}
  BY DEF SuccessRedeemed
<1>1. CASE i # j
  <2>1. /\ job'[i] = job[i] /\ claim'[i] = claim[i] /\ Written(i)' = Written(i)
        /\ redemptions \subseteq redemptions'
    BY <1>1, OtherTables, ClaimApart
  <2> QED BY <2>1 DEF SuccessRedeemed, Redeemed, User, CodeOf
<1>2. CASE i = j
  <2>1. job[j].result # "ok" /\ job[j].pc # "done"
    BY DEF Tours, Unanswered, Journey, Begins, Looks, Answers, Goes, Skips, Takes, SavesOrNot,
           Records, Early, Under, Past
  <2>2. job'[j].pc = "done"
    BY <1>2, <2>1 DEF Journey
  <2>3. job[j].pc \in Past \cup {"record"}
    <3>1. ~Begins(j)
      BY <1>2, <2>2 DEF Begins, Early
    <3>2. ~Looks(j)
      BY <1>2, <2>2 DEF Looks, Early
    <3>3. Answers(j) => job[j].pc \in Past
      BY <1>2 DEF Answers
    <3>4. ~Goes(j) /\ ~Skips(j) /\ ~Takes(j)
      BY <2>2 DEF Goes, Skips, Takes
    <3>5. ~SavesOrNot(j)
      BY <1>2, <2>2 DEF SavesOrNot
    <3> QED BY <3>1, <3>2, <3>3, <3>4, <3>5 DEF Journey, Records
  <2>4. Step(j) /\ (RedeemRecord(j) \/ RedeemFinish(j))
    BY <2>3, StartPlace DEF Past, Step, DeleteFind, DeleteCount, DeleteRow, RedeemLookup, RedeemCheck,
       RedeemUpdate, RedeemFind, RedeemCreate, RedeemSave, At
  <2>5. ~RedeemRecord(j)
    <3>1. job \in [Jobs -> Job]
      BY DEF TypeOK, LedgerTypeOK
    <3>2. ~Finish(j, "dbError")
      BY <1>2, <3>1, FinishLeaves
    <3>3. ~Goto(j, "saveRedemption")
      BY <2>2, <3>1, GotoLeaves
    <3> QED BY <3>2, <3>3 DEF RedeemRecord, RecordFails
  <2>6. RedeemFinish(j) /\ ~Finish(j, "dbError")
    BY <1>2, <2>4, <2>5, FinishLeaves DEF TypeOK, LedgerTypeOK
  <2>7. PICK id \in Stamps(j) :
          /\ redemptions' = redemptions \cup {RedemptionRow(j, id)}
          /\ Finish(j, "ok") /\ UNCHANGED <<claim, writes>>
    BY <2>6 DEF RedeemFinish
  <2> DEFINE x == RedemptionRow(j, id)
  <2>8. User(j)' = User(j) /\ CodeOf(j)' = CodeOf(j) /\ x.user = User(j) /\ x.code = CodeOf(j)
    BY <2>7, FinishLeaves DEF TypeOK, LedgerTypeOK, SamePlan, User, CodeOf, RedemptionRow
  <2>9. HasMoved(j)
    BY <2>6 DEF RedeemFinish, At, MoversRecord, PastSave
  <2> QED BY <1>2, <2>7, <2>8, <2>9 DEF Redeemed, HasMoved, Written
<1> QED BY <1>1, <1>2

\* Every behaviour keeps what was shown of claims and of successes.
LEMMA ClaimsInvariance == Spec => [](ClaimsPay /\ SuccessRedeemed)
<1>1. Init => ClaimsPay /\ SuccessRedeemed
  BY DEF Init, LedgerInit, IdleJob, ClaimsPay, SuccessRedeemed
<1>2. TypeOK /\ CodesPay /\ Tours /\ MoversRecord /\ ClaimsPay /\ SuccessRedeemed /\ [Next]_vars
        => ClaimsPay' /\ SuccessRedeemed'
  <2> SUFFICES ASSUME TypeOK, CodesPay, Tours, MoversRecord, ClaimsPay, SuccessRedeemed, [Next]_vars
               PROVE  ClaimsPay' /\ SuccessRedeemed'
    OBVIOUS
  <2>1. CASE \E j \in Jobs : Start(j) \/ Step(j)
    <3>1. PICK j \in Jobs : Start(j) \/ Step(j)
      BY <2>1
    <3>2. Journey(j)
      BY <3>1, RedeemStartJourney, RedeemStepJourney DEF Tours, Carrying
    <3> QED BY <3>1, <3>2, ClaimsPayStays, SuccessStays
  <2>2. CASE UNCHANGED <<history, job, faults, writes, redemptions, claim>>
    BY <2>2 DEF ClaimsPay, SuccessRedeemed, Priced, Written, Redeemed, User, CodeOf
  <2> QED BY <2>1, <2>2, RestOfCodes
<1> QED BY <1>1, <1>2, RedemptionTypeCorrect, RedemptionInvariance, ToursInvariance, PTL DEF Spec

\* And, unless clock readings repeat, what was shown of grants on record.
LEMMA GrantsInvariance ==
  ASSUME ~ClockRepeats
  PROVE  Spec => [](GrantedFirst /\ OnRecord)
<1>1. Init => GrantedFirst /\ OnRecord
  BY DEF Init, LedgerInit, IdleJob, GrantedFirst, OnRecord, At
<1>2. TypeOK /\ CodesPay /\ Tours /\ GrantedFirst /\ OnRecord /\ [Next]_vars
        => GrantedFirst' /\ OnRecord'
  <2> SUFFICES ASSUME TypeOK, CodesPay, Tours, GrantedFirst, OnRecord, [Next]_vars
               PROVE  GrantedFirst' /\ OnRecord'
    OBVIOUS
  <2>1. CASE \E j \in Jobs : Start(j) \/ Step(j)
    <3>1. PICK j \in Jobs : Start(j) \/ Step(j)
      BY <2>1
    <3>2. Journey(j)
      BY <3>1, RedeemStartJourney, RedeemStepJourney DEF Tours, Carrying
    <3> QED BY <3>1, <3>2, GrantedFirstStays, OnRecordStays
  <2>2. CASE UNCHANGED <<history, job, faults, writes, redemptions, claim>>
    <3>1. \A j \in Jobs : Granted(j)' = Granted(j) /\ User(j)' = User(j) /\ CodeOf(j)' = CodeOf(j)
      BY <2>2 DEF Granted, Written, User, CodeOf
    <3>2. GrantedFirst'
      BY <2>2, <3>1 DEF GrantedFirst, At
    <3>3. OnRecord'
      BY <2>2, <3>1 DEF OnRecord
    <3> QED BY <3>2, <3>3
  <2> QED BY <2>1, <2>2, RestOfCodes
<1> QED BY <1>1, <1>2, RedemptionTypeCorrect, ToursInvariance, PTL DEF Spec

\* Every redemption on record was granted, to the user it names and with the amount
\* of the code as it was read, although redemption, grant and row of the history
\* are statements of their own: unless clock readings repeat.
THEOREM GrantedRedemptions ==
  ASSUME ~ClockRepeats
  PROVE  Spec => []RedemptionIsGranted
<1>1. TypeOK /\ ClaimsPay /\ OnRecord => RedemptionIsGranted
  <2> SUFFICES ASSUME TypeOK, ClaimsPay, OnRecord, NEW x \in redemptions
               PROVE  \E w \in writes, h \in history :
                        /\ job[w.by].stamp = x.txn /\ h.id = <<x.txn, "">>
                        /\ w.key = h.key /\ h.key[1] = x.user
                        /\ Delta(w) = h.amount /\ h.amount = claim[w.by].ent.campaign.amount
    BY DEF RedemptionIsGranted
  <2>1. PICK j \in Jobs : /\ job[j].op = "redeem"
                          /\ x.code = CodeOf(j) /\ x.user = User(j) /\ x.txn = job[j].stamp
                          /\ Granted(j)
    BY DEF OnRecord
  <2>2. PICK w \in Written(j), h \in history :
          /\ h.id = <<job[j].stamp, "">> /\ w.key = h.key /\ h.key[1] = job[j].key[1]
          /\ Delta(w) = h.amount /\ h.amount = job[j].amount
    BY <2>1 DEF Granted
  <2>3. w \in writes /\ w.by = j
    BY DEF Written
  <2>4. claim[j].ent.campaign.amount = job[j].amount
    BY <2>1, <2>2 DEF ClaimsPay, Priced
  <2>5. x.txn = job[j].stamp /\ x.user = job[j].key[1]
    BY <2>1 DEF User
  <2> QED BY <2>2, <2>3, <2>4, <2>5
<1> QED BY <1>1, GrantsInvariance, ClaimsInvariance, RedemptionTypeCorrect, PTL

\* As long as no statement broke, a request that grants has granted all of its
\* amount or nothing.
LEMMA MovesAtOnce ==
  ASSUME LedgerTypeOK, Tours, faults = 0, NEW j \in Jobs, Grants(j)
  PROVE  SumOfWrites(Written(j)) \in {0, job[j].amount}
<1> DEFINE moved == SumOfWrites(Written(j))
<1>1. Numbers(j) /\ Wrote(j) /\ Moves(j)
  BY DEF Tours, Carrying
<1>2. /\ job[j].amount \in Int /\ job[j].part \in Int
      /\ job[j].pc \in Early \cup Under \cup Past \cup {"done"}
  BY JobTypes DEF Early, Under, Past, Pcs
<1>3. ~Split(j) /\ Asked(j) = job[j].amount /\ Due(j) = 0
  BY DEF Split, Grants, Asked, Due
<1>4. CASE job[j].pc \in Early
  <2>1. Written(j) = {}
    BY <1>1, <1>4 DEF Wrote
  <2> QED BY <2>1, WritesSum
<1>5. CASE job[j].pc \in Under \ {"record"}
  <2>1. moved = Due(j)
    BY <1>1, <1>5 DEF Moves
  <2> QED BY <1>3, <2>1
<1>6. CASE job[j].pc = "record"
  <2>1. moved = Due(j) + Signed(j, job[j].part) /\ job[j].part = job[j].amount
    BY <1>1, <1>3, <1>6 DEF Moves, Numbers
  <2>2. moved = job[j].amount
    BY <1>2, <1>3, <2>1 DEF Signed
  <2> QED BY <2>2
<1>7. CASE job[j].pc \in Past
  <2>1. moved = Asked(j)
    BY <1>1, <1>7 DEF Moves
  <2> QED BY <1>3, <2>1
<1>8. CASE job[j].pc = "done"
  <2>1. moved \in {0, Asked(j)}
    BY <1>1, <1>3, <1>8 DEF Moves
  <2> QED BY <1>3, <2>1
<1> QED BY <1>2, <1>4, <1>5, <1>6, <1>7, <1>8

\* As long as no statement breaks, a redemption grants all its code pays or
\* nothing, and one that succeeds is on record.
THEOREM RedeemsOnce == Spec => []RedeemGrantsOnce
<1>1. TypeOK /\ Tours /\ SuccessRedeemed => RedeemGrantsOnce
  <2> SUFFICES ASSUME TypeOK, Tours, SuccessRedeemed, faults = 0,
                      NEW j \in Jobs, job[j].op = "redeem"
               PROVE  /\ SumOfWrites(Written(j)) \in {0, job[j].amount}
                      /\ job[j].result = "ok" => Redeemed(User(j), CodeOf(j)) /\ Written(j) # {}
    BY DEF RedeemGrantsOnce
  <2>1. SumOfWrites(Written(j)) \in {0, job[j].amount}
    BY MovesAtOnce DEF TypeOK, Grants
  <2> QED BY <2>1 DEF SuccessRedeemed
<1> QED BY <1>1, RedemptionTypeCorrect, ToursInvariance, ClaimsInvariance, PTL

=============================================================================
