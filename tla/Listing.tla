--------------------------------- MODULE Listing -------------------------------
(***************************************************************************)
(* The rows that GetTransactionHistory and ListCodes list, and the pages     *)
(* their SELECTs return: ORDER BY created_at DESC LIMIT ? OFFSET ?, on a     *)
(* column that counts whole seconds, filtered in memory afterwards.          *)
(***************************************************************************)
EXTENDS SequencesExt

CONSTANTS
  Users,         \* owners of transactions
  Txns,          \* transactions of one user
  Codes,         \* redemption codes
  NoRow,         \* no such row
  Seeds,         \* what may be stored at the start
  StartTime, MaxTime,  \* bound: the seconds modelled
  DefaultLimit,  \* rows on a page unless the client says otherwise
  MaxLimit       \* most rows on a page

Kinds   == {"grant", "consume", "promotion", "gift"}
Filters == Kinds \cup {""}
Stored  == [at : 0..MaxTime, kind : Kinds]
History(u) == {u} \X Txns
Rows    == (UNION {History(u) : u \in Users}) \cup Codes

ASSUME ListingAssumption ==
  /\ NoRow \notin Stored
  /\ IsFiniteSet(Txns) /\ IsFiniteSet(Codes) /\ Codes \cap (Users \X Txns) = {}
  /\ StartTime \in Nat /\ MaxTime \in Nat /\ StartTime <= MaxTime
  /\ Seeds \subseteq [Rows -> Stored \cup {NoRow}]
  /\ DefaultLimit \in 1..MaxLimit /\ MaxLimit \in Nat

VARIABLES
  stored,  \* the tables transactions and redemption_codes
  now      \* the clock

Present(T) == {r \in T : stored[r] # NoRow}

-----------------------------------------------------------------------------
(* Writers *)

\* Mutant: the column takes the second that comes next.
InsertAhead(r, since, kind) ==
  /\ stored[r] = NoRow
  /\ \E t \in since..now : stored' = [stored EXCEPT ![r] = [at |-> t + 1, kind |-> kind]]

\* created_at is the moment the entity was made, not that of the INSERT.
Insert(r, since, kind) ==
  /\ stored[r] = NoRow
  /\ \E t \in since..now : stored' = [stored EXCEPT ![r] = [at |-> t, kind |-> kind]]

Delete(r) == stored[r] # NoRow /\ stored' = [stored EXCEPT ![r] = NoRow]

-----------------------------------------------------------------------------
(* Readers *)

\* The service's limit: a default for nonsense, and an upper bound.
Clamp(limit) ==
  IF limit <= 0 THEN DefaultLimit ELSE IF limit > MaxLimit THEN MaxLimit ELSE limit

\* Mutant: ORDER BY is forgotten.
AnyOrder(T) == SetToSeqs(Present(T))

\* The orders a SELECT may see: rows of the same second come as they please.
NewestFirst(T) ==
  {q \in SetToSeqs(Present(T)) :
     \A i, k \in DOMAIN q : i < k => stored[q[i]].at >= stored[q[k]].at}

Tied(T) == \E r, s \in Present(T) : r # s /\ stored[r].at = stored[s].at

PageOf(q, limit, offset) ==
  {q[i] : i \in {i \in DOMAIN q : offset < i /\ i <= offset + limit}}

\* A type that no transaction has is ignored in the history, and matches no code.
Matches(r, filter) ==
  \/ filter \in {"", stored[r].kind}
  \/ filter \notin {"grant", "consume"} /\ r \notin Codes

Filtered(page, filter) == {r \in page : Matches(r, filter)}

=============================================================================
