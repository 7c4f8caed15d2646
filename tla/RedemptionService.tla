---------------------------- MODULE RedemptionService --------------------------
(***************************************************************************)
(* CodeRedemptionApplicationService: Redeem, CreateCode and DeleteCode, on   *)
(* the tables redemption_codes and code_redemptions and the shared ledger.   *)
(* Redeem works on the RedemptionCode it read at the start to the end.       *)
(***************************************************************************)
EXTENDS LedgerProperties

CONSTANTS
  Codes,      \* values of the column code
  NoCode,     \* no row for this code
  Campaigns,  \* what administrators may create: [max, from, until, amount, type]
  MaxTime     \* bound: the clock stops here

Campaign == [max : Nat, from : Nat, until : Nat, amount : Int, type : CurrencyTypes]
CodeRow  == [campaign : Campaign, uses : Nat]

ASSUME RedemptionAssumption ==
  /\ Codes # {} /\ NoCode \notin CodeRow
  /\ Campaigns \subseteq Campaign
  /\ MaxTime \in Nat

VARIABLES
  codes,        \* table redemption_codes: a row or NoCode for every code
  redemptions,  \* table code_redemptions: its set of rows
  now,          \* time.Now() on the scale of valid_from and valid_until
  claim,        \* the RedemptionCode each request holds in memory
  again         \* auxiliary: requests whose user had redeemed the code when they started

codeVars == <<codes, redemptions, now, claim, again>>
vars == <<balances, history, job, faults, adjusts, fresh, writes,
          codes, redemptions, now, claim, again>>

Claim      == [code : Codes, ent : CodeRow \cup {NoCode}]
Redemption == [id : Jobs, code : Codes, user : Users, txn : Jobs]

Init ==
  /\ LedgerInit
  /\ codes = [c \in Codes |-> NoCode]
  /\ redemptions = {}
  /\ now = 0
  /\ claim = [j \in Jobs |-> [code |-> CHOOSE c \in Codes : TRUE, ent |-> NoCode]]
  /\ again = {}

User(j)        == job[j].key[1]
CodeOf(j)      == claim[j].code
Redeemed(u, c) == \E x \in redemptions : x.user = u /\ x.code = c

\* status is always active: nothing in the service calls Disable or Expire.
IsValid(c) ==
  /\ c # NoCode
  /\ now \in c.campaign.from..c.campaign.until
  /\ c.campaign.max = 0 \/ c.uses < c.campaign.max

-----------------------------------------------------------------------------
(* Administration *)

\* One INSERT; a second code of the same name is a duplicate key.
CreateCode(c) ==
  /\ codes[c] = NoCode
  /\ \E g \in Campaigns :
       /\ g.amount > 0 /\ g.from <= g.until
       /\ codes' = [codes EXCEPT ![c] = [campaign |-> g, uses |-> 0]]
  /\ UNCHANGED <<job, store, redemptions, now, claim, again>>

DeleteStart(j) ==
  /\ \E c \in Codes : claim' = [claim EXCEPT ![j].code = c]
  /\ Begin(j, "delete", "lookup", IdleJob(j).key, 0, TRUE, NoRef)
  /\ UNCHANGED <<store, codes, redemptions, now, again>>

DeleteFind(j) ==
  /\ At(j, "delete", "lookup")
  /\ UNCHANGED <<fresh, codeVars>>
  /\ \/ StatementFails(j)
     \/ ReadOnly /\ codes[CodeOf(j)] = NoCode /\ Finish(j, "rejected")
     \/ ReadOnly /\ codes[CodeOf(j)] # NoCode /\ Goto(j, "count")

DeleteCount(j) ==
  /\ At(j, "delete", "count")
  /\ UNCHANGED <<fresh, codeVars>>
  /\ \/ StatementFails(j)
     \/ ReadOnly /\ (\E x \in redemptions : x.code = CodeOf(j)) /\ Finish(j, "rejected")
     \/ ReadOnly /\ (\A x \in redemptions : x.code # CodeOf(j)) /\ Goto(j, "delete")

\* Mutant: no foreign key.
DeletableAlways(c) == TRUE

\* FOREIGN KEY (code) ... ON DELETE RESTRICT
Deletable(c) == \A x \in redemptions : x.code # c

DeleteRow(j) ==
  LET c == CodeOf(j)
      delete == codes' = [codes EXCEPT ![c] = NoCode]
  IN  /\ At(j, "delete", "delete")
      /\ UNCHANGED <<balances, history, adjusts, fresh, writes, redemptions, now, claim, again>>
      /\ \/ Answered /\ codes[c] = NoCode /\ Finish(j, "rejected") /\ UNCHANGED codes
         \/ Answered /\ codes[c] # NoCode /\ Deletable(c) /\ Finish(j, "ok") /\ delete
         \/ Answered /\ ~Deletable(c) /\ Finish(j, "dbError") /\ UNCHANGED codes
         \/ Broken /\ Finish(j, "dbError") /\ (UNCHANGED codes \/ (Deletable(c) /\ delete))

-----------------------------------------------------------------------------
(* Redeem *)

RedeemStart(j) ==
  /\ \E u \in Users, c \in Codes :
       /\ Begin(j, "redeem", "lookup", <<u, "free">>, 0, TRUE, NoRef)
       /\ claim' = [claim EXCEPT ![j].code = c]
       /\ again' = IF Redeemed(u, c) THEN again \cup {j} ELSE again
  /\ UNCHANGED <<store, codes, redemptions, now>>

RedeemLookup(j) ==
  LET c == codes[CodeOf(j)]
  IN  /\ At(j, "redeem", "lookup")
      /\ UNCHANGED <<fresh, codes, redemptions, now, again>>
      /\ \/ StatementFails(j) /\ UNCHANGED claim
         \/ ReadOnly /\ ~IsValid(c) /\ Finish(j, "rejected") /\ UNCHANGED claim
         \/ /\ ReadOnly /\ IsValid(c)
            /\ claim' = [claim EXCEPT ![j].ent = c]
            /\ job' = [job EXCEPT ![j].pc = "hasRedeemed", ![j].amount = c.campaign.amount,
                                  ![j].key = Typed(j, c.campaign.type)]

\* Mutant: every user is new to every code.
NeverRedeemed(j) == FALSE

HasUserRedeemed(j) == Redeemed(User(j), CodeOf(j))

\* HasUserRedeemed, CanBeRedeemed and, in memory, code.Redeem().
RedeemCheck(j) ==
  /\ At(j, "redeem", "hasRedeemed")
  /\ UNCHANGED <<fresh, codes, redemptions, now, again>>
  /\ \/ StatementFails(j) /\ UNCHANGED claim
     \/ /\ ReadOnly
        /\ HasUserRedeemed(j) \/ ~IsValid(claim[j].ent)
        /\ Finish(j, "rejected") /\ UNCHANGED claim
     \/ /\ ReadOnly
        /\ ~HasUserRedeemed(j) /\ IsValid(claim[j].ent)
        /\ claim' = [claim EXCEPT ![j].ent.uses = @ + 1]
        /\ Goto(j, "update")

\* UPDATE ... SET current_uses = ?: the count in memory, and no row no matter.
RedeemUpdate(j) ==
  LET c == CodeOf(j)
      update == codes' = IF codes[c] = NoCode THEN codes
                         ELSE [codes EXCEPT ![c].uses = claim[j].ent.uses]
  IN  /\ At(j, "redeem", "update")
      /\ UNCHANGED <<balances, history, adjusts, fresh, writes, redemptions, now, claim, again>>
      /\ \/ Answered /\ update /\ Goto(j, "find")
         \/ Broken /\ (update \/ UNCHANGED codes) /\ Finish(j, "dbError")

RedeemFind(j) ==
  /\ At(j, "redeem", "find")
  /\ UNCHANGED codeVars
  /\ \/ StatementFails(j)
     \/ MissRow(j, job[j].key) /\ Goto(j, "create")
     \/ ReadRow(j, job[j].key) /\ Grant(j, RowOf(j), job[j].amount)

RedeemCreate(j) ==
  /\ At(j, "redeem", "create")
  /\ UNCHANGED codeVars
  /\ \/ StatementFails(j)
     \/ Broken /\ CreateRow(j) /\ Finish(j, "dbError")
     \/ Answered /\ CreateRow(j) /\ Grant(j, Zero, job[j].amount)

RedeemSave(j) == At(j, "redeem", "save") /\ TrySave(j) /\ UNCHANGED codeVars

RedeemRecord(j) ==
  /\ At(j, "redeem", "record")
  /\ UNCHANGED codeVars
  /\ \/ RecordFails(j, "", "grant")
     \/ Answered /\ Record(j, "", "grant") /\ Goto(j, "saveRedemption")

\* redemption_id is red_<UnixNano>, a clock reading apart from that of txn.
RedemptionRow(j, id) == [id |-> id, code |-> CodeOf(j), user |-> User(j), txn |-> job[j].stamp]

\* INSERT under uk_user_code, the foreign key to redemption_codes and the
\* unique redemption_id.
Insertable(x) ==
  /\ ~Redeemed(x.user, x.code)
  /\ codes[x.code] # NoCode
  /\ \A y \in redemptions : y.id # x.id

RedeemFinish(j) ==
  /\ At(j, "redeem", "saveRedemption")
  /\ UNCHANGED <<balances, history, adjusts, fresh, writes, codes, now, claim, again>>
  /\ \E id \in Stamps(j) :
       LET x == RedemptionRow(j, id)
           insert == Insertable(x) /\ redemptions' = redemptions \cup {x}
       IN  \/ Answered /\ insert /\ Finish(j, "ok")
           \/ Answered /\ ~Insertable(x) /\ Finish(j, "dbError") /\ UNCHANGED redemptions
           \/ Broken /\ (insert \/ UNCHANGED redemptions) /\ Finish(j, "dbError")

-----------------------------------------------------------------------------

Tick ==
  /\ now < MaxTime
  /\ now' = now + 1
  /\ UNCHANGED <<job, store, codes, redemptions, claim, again>>

Start(j) == RedeemStart(j) \/ DeleteStart(j)

Step(j) ==
  \/ DeleteFind(j) \/ DeleteCount(j) \/ DeleteRow(j)
  \/ RedeemLookup(j) \/ RedeemCheck(j) \/ RedeemUpdate(j)
  \/ RedeemFind(j) \/ RedeemCreate(j) \/ RedeemSave(j) \/ RedeemRecord(j)
  \/ RedeemFinish(j)

Quiescent == (\A j \in Jobs : job[j].pc = "done") /\ UNCHANGED vars

Next ==
  \/ \E j \in Jobs : Start(j) \/ Step(j)
  \/ \E c \in Codes : CreateCode(c)
  \/ \E k \in Keys : Adjust(k) /\ UNCHANGED codeVars
  \/ Tick
  \/ Quiescent

Spec == Init /\ [][Next]_vars

FairSpec == Spec /\ \A j \in Jobs : WF_vars(Step(j))

-----------------------------------------------------------------------------
(* Properties *)

TypeOK ==
  /\ LedgerTypeOK
  /\ codes \in [Codes -> CodeRow \cup {NoCode}]
  /\ redemptions \in SUBSET Redemption
  /\ now \in 0..MaxTime
  /\ claim \in [Jobs -> Claim]
  /\ again \in SUBSET Jobs

\* Every row of code_redemptions stands for a grant that its request wrote to
\* this user's balance and recorded: the amount of the code as it was read.
RedemptionIsGranted ==
  \A x \in redemptions : \E w \in writes, h \in history :
    /\ job[w.by].stamp = x.txn /\ h.id = <<x.txn, "">>
    /\ w.key = h.key /\ h.key[1] = x.user
    /\ Delta(w) = h.amount /\ h.amount = claim[w.by].ent.campaign.amount

\* Once a user's redemption of a code is on record, no request of this user for
\* this code that starts afterwards moves any money.
RedeemedUserGetsNothingMore == \A j \in again : Written(j) = {}

\* DELETE takes no code away that was redeemed between its COUNT and itself.
RedeemedCodeSurvives == \A x \in redemptions : codes[x.code] # NoCode

\* While no statement breaks, a request redeems at most once: what it wrote is
\* nothing or the code's amount, and it succeeds only if it is on record.
RedeemGrantsOnce ==
  faults = 0 => \A j \in Jobs : job[j].op = "redeem" =>
    /\ SumOfWrites(Written(j)) \in {0, job[j].amount}
    /\ job[j].result = "ok" => Redeemed(User(j), CodeOf(j)) /\ Written(j) # {}

\* Every request that starts is answered.
EveryRedemptionIsAnswered ==
  \A j \in Jobs : job[j].pc # "idle" ~> job[j].pc = "done"

-----------------------------------------------------------------------------
(* What the documents promise, and the code does not keep *)

\* A code is redeemed at most max_uses times (0: any number of times).
RedemptionsWithinLimit ==
  \A c \in Codes : codes[c] # NoCode /\ codes[c].campaign.max > 0 =>
    Cardinality({x \in redemptions : x.code = c}) <= codes[c].campaign.max

=============================================================================
