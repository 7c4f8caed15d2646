---------------------------- MODULE EndpointsProofs ----------------------------
(***************************************************************************)
(* What is proved about the interfaces, for any number of calls, users,     *)
(* rows, page sizes and settings.                                           *)
(*                                                                         *)
(* Three arguments that share only the frame: what a call was asked never   *)
(* changes while it runs, so that its answer can be read off the question   *)
(* (Fate); a token outlives no call that it admitted (Holder); and a row     *)
(* that a scan has not shown yet has at least as many rows before it as the  *)
(* offset says, because rows only ever come to stand before others           *)
(* (Scanning).                                                              *)
(***************************************************************************)
EXTENDS Endpoints, FiniteSetTheorems, TLAPS

Tables == [Rows -> Stored \cup {NoRow}]

\* The rows of T that stand before x.
Ahead(x, T) == {y \in Present(T) : stored[y].at > stored[x].at}

-----------------------------------------------------------------------------
(* Sets of rows *)

\* Histories and codes are rows, finitely many each, and no row is in both.
LEMMA Scopes ==
  /\ Codes \subseteq Rows /\ IsFiniteSet(Codes)
  /\ \A u \in Users : /\ History(u) \subseteq Rows /\ IsFiniteSet(History(u))
                      /\ History(u) \cap Codes = {}
<1>1. Codes \subseteq Rows /\ IsFiniteSet(Codes)
  <2>1. \A c \in Codes : c \in (UNION {History(u) : u \in Users}) \cup Codes
    OBVIOUS
  <2>2. IsFiniteSet(Codes)
    BY ListingAssumption
  <2> QED BY <2>1, <2>2 DEF Rows
<1>2. ASSUME NEW u \in Users
      PROVE  /\ History(u) \subseteq Rows /\ IsFiniteSet(History(u))
             /\ History(u) \cap Codes = {}
  <2>1. IsFiniteSet({u})
    BY FS_Singleton
  <2>2. IsFiniteSet(History(u))
    BY <2>1, ListingAssumption, FS_Product DEF History
  <2>3. History(u) \subseteq Rows
    BY DEF Rows
  <2>4. History(u) \subseteq Users \X Txns
    BY DEF History
  <2> QED BY <2>2, <2>3, <2>4, ListingAssumption
<1> QED BY <1>1, <1>2

\* Present rows are stored rows, and finitely many.
LEMMA PresentRows ==
  ASSUME stored \in Tables, NEW T, T \subseteq Rows, IsFiniteSet(T)
  PROVE  /\ Present(T) \subseteq T /\ IsFiniteSet(Present(T))
         /\ Cardinality(Present(T)) \in Nat
         /\ \A x \in Present(T) : stored[x] \in Stored /\ stored[x].at \in Int
         /\ \A x : Ahead(x, T) \subseteq Present(T) /\ IsFiniteSet(Ahead(x, T))
                   /\ Cardinality(Ahead(x, T)) \in Nat
<1>1. Present(T) \subseteq T /\ IsFiniteSet(Present(T))
  BY FS_Subset DEF Present
<1>2. \A x \in Present(T) : stored[x] \in Stored /\ stored[x].at \in Int
  BY ListingAssumption DEF Present, Tables, Stored
<1>3. \A x : Ahead(x, T) \subseteq Present(T)
  BY DEF Ahead
<1>4. \A x : IsFiniteSet(Ahead(x, T))
  BY <1>1, <1>3, FS_Subset
<1> QED BY <1>1, <1>2, <1>3, <1>4, FS_CardinalityType

-----------------------------------------------------------------------------
(* Pages *)

\* Without ties a SELECT puts each row behind exactly those that stand before it.
LEMMA Position ==
  ASSUME stored \in Tables, NEW T, T \subseteq Rows, IsFiniteSet(T), ~Tied(T),
         NEW q \in NewestFirst(T)
  PROVE  /\ DOMAIN q = 1..Cardinality(Present(T))
         /\ \A i, k \in DOMAIN q : i # k => q[i] # q[k]
         /\ \A i \in DOMAIN q : q[i] \in Present(T) /\ Cardinality(Ahead(q[i], T)) = i - 1
         /\ \A x \in Present(T) : \E i \in DOMAIN q : x = q[i]
<1> DEFINE N == Cardinality(Present(T))
<1>1. /\ q \in [1..N -> Present(T)]
      /\ \A i, k \in 1..N : i # k => q[i] # q[k]
      /\ \A i, k \in DOMAIN q : i < k => stored[q[i]].at >= stored[q[k]].at
  BY DEF NewestFirst, SetToSeqs
<1>2. N \in Nat /\ IsFiniteSet(Present(T))
      /\ \A x \in Present(T) : stored[x].at \in Int
  BY PresentRows
<1> HIDE DEF N
<1>3. \A x \in Present(T) : \E i \in 1..N : x = q[i]
  <2>1. q \in Injection(1..N, Present(T))
    BY <1>1 DEF Injection, IsInjective
  <2>2. Cardinality(1..N) = N
    BY <1>2, FS_Interval
  <2>3. q \in Surjection(1..N, Present(T))
    BY <1>2, <2>1, <2>2, FS_Injection DEF N
  <2> QED BY <2>3 DEF Surjection
<1>4. ASSUME NEW i \in 1..N
      PROVE  Cardinality(Ahead(q[i], T)) = i - 1
  <2>1. \A k \in 1..N : k < i => stored[q[k]].at > stored[q[i]].at
    <3> SUFFICES ASSUME NEW k \in 1..N, k < i
                 PROVE  stored[q[k]].at > stored[q[i]].at
      OBVIOUS
    <3>1. q[k] \in Present(T) /\ q[i] \in Present(T) /\ q[k] # q[i]
      BY <1>1
    <3>2. stored[q[k]].at # stored[q[i]].at
      BY <3>1 DEF Tied
    <3>3. stored[q[k]].at >= stored[q[i]].at
      BY <1>1
    <3> QED BY <1>2, <3>1, <3>2, <3>3
  <2>2. \A k \in 1..N : k >= i => ~(stored[q[k]].at > stored[q[i]].at)
    <3> SUFFICES ASSUME NEW k \in 1..N, k >= i
                 PROVE  ~(stored[q[k]].at > stored[q[i]].at)
      OBVIOUS
    <3>1. k = i \/ i < k
      OBVIOUS
    <3>2. q[k] \in Present(T) /\ q[i] \in Present(T)
      BY <1>1
    <3>3. i < k => stored[q[i]].at >= stored[q[k]].at
      BY <1>1
    <3> QED BY <1>2, <3>1, <3>2, <3>3
  <2>3. Ahead(q[i], T) = {q[k] : k \in 1..(i - 1)}
    <3>1. ASSUME NEW y \in Ahead(q[i], T) PROVE \E k \in 1..(i - 1) : y = q[k]
      <4>1. y \in Present(T) /\ stored[y].at > stored[q[i]].at
        BY DEF Ahead
      <4>2. PICK k \in 1..N : y = q[k]
        BY <4>1, <1>3
      <4>3. ~(k >= i)
        BY <2>2, <4>1, <4>2
      <4>4. k \in 1..(i - 1)
        BY <4>3
      <4> QED BY <4>2, <4>4
    <3>2. ASSUME NEW k \in 1..(i - 1) PROVE q[k] \in Ahead(q[i], T)
      <4>1. k \in 1..N /\ k < i
        BY <1>2
      <4> QED BY <1>1, <2>1, <4>1 DEF Ahead
    <3> QED BY <3>1, <3>2
  <2> DEFINE f == [k \in 1..(i - 1) |-> q[k]]
  <2>4. f \in Bijection(1..(i - 1), Ahead(q[i], T))
    <3>1. \A k, m \in 1..(i - 1) : f[k] = f[m] => k = m
      <4>1. \A k \in 1..(i - 1) : k \in 1..N
        BY <1>2
      <4> QED BY <1>1, <4>1
    <3>2. f \in Injection(1..(i - 1), Ahead(q[i], T))
      BY <2>3, <3>1 DEF Injection, IsInjective
    <3>3. f \in Surjection(1..(i - 1), Ahead(q[i], T))
      BY <2>3 DEF Surjection
    <3> QED BY <3>2, <3>3 DEF Bijection
  <2>5. ExistsBijection(1..(i - 1), Ahead(q[i], T)) /\ i - 1 \in Nat
    BY <2>4 DEF ExistsBijection
  <2> QED BY <2>5, FS_CountingElements
<1> QED BY <1>1, <1>3, <1>4 DEF N

\* A page shows a row that no more rows than the offset stand before, or leaves it
\* to the pages behind; a page that is not full leaves none.
LEMMA PageShows ==
  ASSUME stored \in Tables, NEW T, T \subseteq Rows, IsFiniteSet(T), ~Tied(T),
         NEW q \in NewestFirst(T), NEW limit \in Nat, NEW offset \in Nat,
         NEW x \in Present(T), offset <= Cardinality(Ahead(x, T)),
         x \notin PageOf(q, limit, offset)
  PROVE  /\ offset + limit <= Cardinality(Ahead(x, T))
         /\ offset + limit < Cardinality(Present(T))
         /\ Cardinality(PageOf(q, limit, offset)) = limit
<1> DEFINE N == Cardinality(Present(T))
<1>0. N \in Nat
  BY PresentRows
<1>1. /\ DOMAIN q = 1..N
      /\ \A i, k \in DOMAIN q : i # k => q[i] # q[k]
      /\ \A i \in DOMAIN q : Cardinality(Ahead(q[i], T)) = i - 1
  BY Position
<1>2. PICK i \in DOMAIN q : x = q[i]
  BY Position
<1> HIDE DEF N
<1>3. Cardinality(Ahead(x, T)) = i - 1 /\ i \in 1..N
  BY <1>1, <1>2
<1>4. offset < i
  BY <1>3
<1>5. ~(i <= offset + limit)
  BY <1>2, <1>4 DEF PageOf
<1>6. offset + limit < i
  BY <1>3, <1>5
<1> DEFINE D == (offset + 1)..(offset + limit)
           page == PageOf(q, limit, offset)
<1>7. \A k \in D : k \in 1..N /\ offset < k /\ k <= offset + limit
  BY <1>0, <1>3, <1>6
<1>8. page = {q[k] : k \in D}
  <2>1. \A k \in DOMAIN q : offset < k /\ k <= offset + limit => k \in D
    BY <1>0, <1>1
  <2>2. {k \in DOMAIN q : offset < k /\ k <= offset + limit} = D
    BY <1>1, <1>7, <2>1
  <2> HIDE DEF D
  <2> QED BY <2>2 DEF PageOf
<1> DEFINE f == [k \in D |-> q[k]]
<1>9. f \in Bijection(D, page)
  <2>1. \A k, m \in D : f[k] = f[m] => k = m
    BY <1>1, <1>7
  <2>2. f \in Injection(D, page)
    BY <1>8, <2>1 DEF Injection, IsInjective
  <2>3. f \in Surjection(D, page)
    BY <1>8 DEF Surjection
  <2> QED BY <2>2, <2>3 DEF Bijection
<1>10. IsFiniteSet(D) /\ Cardinality(D) = limit
  <2>1. offset + 1 \in Int /\ offset + limit \in Int
    OBVIOUS
  <2>2. /\ IsFiniteSet(D)
        /\ Cardinality(D) = IF offset + 1 > offset + limit THEN 0
                            ELSE (offset + limit) - (offset + 1) + 1
    BY <2>1, FS_Interval
  <2> QED BY <2>2
<1>11. Cardinality(page) = limit
  BY <1>9, <1>10, FS_Bijection DEF ExistsBijection
<1> QED BY <1>0, <1>3, <1>6, <1>11 DEF N

-----------------------------------------------------------------------------
(* The fields of a call *)

\* What a call was asked, and what it found at its start, never changes.
AsAsked(n, r) ==
  /\ n.via = r.via /\ n.op = r.op /\ n.user = r.user /\ n.code = r.code
  /\ n.genuine = r.genuine /\ n.expires = r.expires /\ n.listed = r.listed
  /\ n.named = r.named /\ n.lacks = r.lacks /\ n.filter = r.filter /\ n.limit = r.limit
  /\ n.start = r.start

Answered(r, s) == [r EXCEPT !.pc = "done", !.status = s]
Ended(r, e, s) == [r EXCEPT !.pc = "done", !.error = e, !.since = 0, !.status = s]
LetIn(r, t)    == [r EXCEPT !.pc = "admitted", !.since = t]
Counted(r, n)  == [r EXCEPT !.pc = "counted", !.total = n]
Turned(r, s)   == [r EXCEPT !.seen = s, !.total = 0, !.since = 0]
Finished(r)    == [r EXCEPT !.pc = "done", !.error = "ok", !.status = "OK"]
Further(r, k)  == [r EXCEPT !.pc = "sent", !.offset = k]

\* A call that is answered before it reaches a use case.
LEMMA AnsweredFields ==
  ASSUME NEW r \in Call, NEW s \in Statuses, NEW n, n = Answered(r, s)
  PROVE  /\ n \in Call /\ AsAsked(n, r)
         /\ n.pc = "done" /\ n.status = s /\ n.error = r.error
         /\ n.since = r.since /\ n.offset = r.offset /\ n.total = r.total
         /\ n.seen = r.seen
BY DEF Call, AsAsked, Answered

\* A call whose use case ended.
LEMMA EndedFields ==
  ASSUME NEW r \in Call, NEW e \in Errors, NEW s \in Statuses, NEW n, n = Ended(r, e, s)
  PROVE  /\ n \in Call /\ AsAsked(n, r)
         /\ n.pc = "done" /\ n.status = s /\ n.error = e
         /\ n.since = 0 /\ n.offset = r.offset /\ n.total = r.total /\ n.seen = r.seen
<1>1. 0 \in 0..MaxTime
  BY ListingAssumption
<1> QED BY <1>1 DEF Call, AsAsked, Ended

\* A call that is admitted.
LEMMA LetInFields ==
  ASSUME NEW r \in Call, NEW t \in 0..MaxTime, NEW n, n = LetIn(r, t)
  PROVE  /\ n \in Call /\ AsAsked(n, r)
         /\ n.pc = "admitted" /\ n.status = r.status /\ n.error = r.error
         /\ n.since = t /\ n.offset = r.offset /\ n.total = r.total /\ n.seen = r.seen
BY DEF Call, AsAsked, LetIn

\* A call that counted the rows.
LEMMA CountedFields ==
  ASSUME NEW r \in Call, NEW k \in Nat, NEW n, n = Counted(r, k)
  PROVE  /\ n \in Call /\ AsAsked(n, r)
         /\ n.pc = "counted" /\ n.status = r.status /\ n.error = r.error
         /\ n.since = r.since /\ n.offset = r.offset /\ n.total = k /\ n.seen = r.seen
BY DEF Call, AsAsked, Counted

\* A call that showed one more page.
LEMMA TurnedFields ==
  ASSUME NEW r \in Call, NEW s \in SUBSET Rows, NEW n, n = Turned(r, s)
  PROVE  /\ n \in Call /\ AsAsked(n, r)
         /\ n.pc = r.pc /\ n.status = r.status /\ n.error = r.error
         /\ n.since = 0 /\ n.offset = r.offset /\ n.total = 0 /\ n.seen = s
<1>1. 0 \in 0..MaxTime
  BY ListingAssumption
<1> QED BY <1>1 DEF Call, AsAsked, Turned

\* A scan that showed its last page.
LEMMA FinishedFields ==
  ASSUME NEW r \in Call, "ok" \in Errors, "OK" \in Statuses, NEW n, n = Finished(r)
  PROVE  /\ n \in Call /\ AsAsked(n, r)
         /\ n.pc = "done" /\ n.status = "OK" /\ n.error = "ok"
         /\ n.since = r.since /\ n.offset = r.offset /\ n.total = r.total
         /\ n.seen = r.seen
BY DEF Call, AsAsked, Finished

\* A scan that asks for its next page.
LEMMA FurtherFields ==
  ASSUME NEW r \in Call, NEW k \in Nat, NEW n, n = Further(r, k)
  PROVE  /\ n \in Call /\ AsAsked(n, r)
         /\ n.pc = "sent" /\ n.status = r.status /\ n.error = r.error
         /\ n.since = r.since /\ n.offset = k /\ n.total = r.total /\ n.seen = r.seen
BY DEF Call, AsAsked, Further

\* What the types of a call's fields are.
LEMMA CallFields ==
  ASSUME NEW r \in Call
  PROVE  /\ r.via \in Vias /\ r.op \in Ops /\ r.user \in Users /\ r.code \in Codes
         /\ r.expires \in Nat /\ r.filter \in Filters /\ r.since \in 0..MaxTime
         /\ r.since \in Int /\ r.error \in Errors /\ r.limit \in Int /\ r.offset \in Nat
         /\ r.total \in Nat /\ r.start \subseteq Rows /\ r.seen \subseteq Rows
<1>1. /\ r.via \in Vias /\ r.op \in Ops /\ r.user \in Users /\ r.code \in Codes
      /\ r.expires \in Nat /\ r.filter \in Filters /\ r.since \in 0..MaxTime
  BY DEF Call
<1>2. /\ r.error \in Errors /\ r.limit \in Int /\ r.offset \in Nat
      /\ r.total \in Nat /\ r.start \in SUBSET Rows /\ r.seen \in SUBSET Rows
  BY DEF Call
<1> QED BY <1>1, <1>2

\* What was asked stays asked over several steps.
LEMMA AskedStays ==
  ASSUME NEW m, NEW n, NEW r, AsAsked(m, n), AsAsked(n, r)
  PROVE  AsAsked(m, r)
BY DEF AsAsked

\* Every operation has its parts, errors and statuses among all of them.
LEMMA ErrorsAndStatuses ==
  /\ \A op \in Ops : ErrorsOf(op) \subseteq Errors
  /\ "ok" \in Errors /\ "internal" \in Errors /\ "codeAlreadyExists" \in Errors
  /\ "" \in Errors /\ "" \in Statuses /\ "Created" \in Statuses
  /\ \A e \in Errors : RestStatus[e] \in Statuses /\ GrpcStatus[e] \in Statuses
  /\ \A v \in Vias : BadRequest(v) \in Statuses /\ Unknown(v) \in Statuses
                     /\ Forbidden(v) \in Statuses
  /\ "NotFound" \in Statuses
  /\ RestStatus["ok"] = "OK" /\ GrpcStatus["ok"] = "OK"
<1>1. \A op \in Ops : ErrorsOf(op) \subseteq (UNION {ErrorsOf(o) : o \in Ops})
  OBVIOUS
<1>2. /\ \A op \in Ops : ErrorsOf(op) \subseteq Errors
      /\ "ok" \in Errors /\ "internal" \in Errors /\ "codeAlreadyExists" \in Errors
      /\ "" \in Errors
  BY <1>1 DEF Errors
<1>3. "" \in Statuses /\ "Created" \in Statuses
  BY DEF Statuses
<1>4. \A e \in Errors : RestStatus[e] \in Statuses /\ GrpcStatus[e] \in Statuses
  BY DEF Statuses
<1>5. ASSUME NEW v \in Vias
      PROVE  BadRequest(v) \in Statuses /\ Unknown(v) \in Statuses /\ Forbidden(v) \in Statuses
  <2>1. {BadRequest(v), Unknown(v), Forbidden(v)}
          \subseteq UNION {{BadRequest(w), Unknown(w), Forbidden(w)} : w \in Vias}
    OBVIOUS
  <2> QED BY <2>1 DEF Statuses
<1>6. RestStatus["ok"] = "OK" /\ GrpcStatus["ok"] = "OK"
  BY <1>2 DEF RestStatus, GrpcStatus
<1>7. "NotFound" \in Statuses
  <2>1. "codeNotFound" \in ErrorsOf("redeem") /\ "redeem" \in OpsOf["user"] /\ "user" \in Vias
    BY DEF ErrorsOf, OpsOf, Vias
  <2>2. "redeem" \in Ops
    BY <2>1 DEF Ops
  <2>3. "codeNotFound" \in Errors
    BY <1>2, <2>1, <2>2
  <2>4. RestStatus["codeNotFound"] = "NotFound"
    BY <2>3 DEF RestStatus
  <2> QED BY <1>4, <2>3, <2>4
<1> QED BY <1>2, <1>3, <1>4, <1>5, <1>6, <1>7

-----------------------------------------------------------------------------
(* The invariant *)

\* No token lives longer than its lifetime from now.
Tokens == \A t \in issued : t.expires <= now + Lifetime

\* A genuine token is one that was issued, and a call is admitted while it lives.
Holder(r) ==
  /\ r.via = "user" /\ r.genuine /\ r.pc # "idle" =>
       [user |-> r.user, expires |-> r.expires] \in issued
  /\ r.via = "user" /\ r.pc = "admitted" =>
       r.genuine /\ r.since < r.expires /\ r.expires <= r.since + Lifetime

\* What lets a call through to its use case, apart from the clock.
Passed(r) ==
  r.genuine /\ (r.via # "user" => config.enabled /\ Allowed(r)) /\ ~Refused(r)

\* How the administration is turned away.
TurnedAway(r) ==
  \/ ~config.enabled /\ r.status = Forbidden(r.via)
  \/ config.enabled /\ ~r.genuine /\ r.status = Unknown(r.via)
  \/ config.enabled /\ r.genuine /\ ~Allowed(r) /\ r.status = Forbidden(r.via)
  \/ config.enabled /\ r.genuine /\ Allowed(r) /\ Refused(r) /\ r.status = Refusal(r)

Outcomes(op) ==
  ErrorsOf(op) \cup {"ok", "internal"}
    \cup (IF op = "createCode" THEN {"codeAlreadyExists"} ELSE {})

StatusOf(r, e) ==
  IF r.via = "grpc" THEN GrpcStatus[e]
  ELSE IF e = "ok" THEN IF r.op = "createCode" THEN "Created" ELSE "OK"
  ELSE RestStatus[e]

\* The answer follows from the question, the settings and the outcome.
Fate(r) ==
  /\ r.op \in OpsOf[r.via] /\ r.lacks \in PartsOf(r.op) \cup {""}
  /\ r.pc # "done" => r.error = ""
  /\ r.pc \in {"admitted", "counted"} => Passed(r)
  /\ r.pc = "counted" => r.op = "listCodes"
  /\ r.pc = "done" =>
       \/ r.error = "" /\ (r.via # "user" => TurnedAway(r))
       \/ r.error \in Outcomes(r.op) /\ Passed(r) /\ r.status = StatusOf(r, r.error)

\* The scans that the promise of ScanSeesEverything is about.
Judged(c, r) ==
  /\ c \notin disturbed /\ Lists(r)
  /\ r.op = "transactions" => r.filter \notin {"grant", "consume"}

Missed(r) == {x \in r.start : Matches(x, r.filter) /\ x \notin r.seen}

\* Nothing a scan has not shown can slip in front of its offset.
Behind(r) == \A x \in Missed(r) : r.offset <= Cardinality(Ahead(x, Scope(r)))

Scanning(c, r) ==
  Judged(c, r) =>
    /\ r.start \subseteq Present(Scope(r))
    /\ r.pc \in {"sent", "admitted", "counted"} => Behind(r)
    /\ r.pc = "counted" => r.total = Cardinality(Present(Codes))
    /\ r.pc = "done" /\ r.error = "ok" => Missed(r) = {}

EndpointsInv ==
  /\ TypeOK
  /\ config \in Configs
  /\ Tokens
  /\ \A c \in Calls : Holder(call[c])
  /\ \A c \in Calls : Fate(call[c])
  /\ \A c \in Calls : Scanning(c, call[c])

-----------------------------------------------------------------------------
(* What a step leaves alone *)

\* What a step may do to the tables: history is only ever added to, and who is scanning
\* codes is disturbed by a deletion, or by any change after the count.
TablesMove ==
  /\ disturbed \subseteq disturbed'
  /\ \A y \in Rows \ Codes : stored[y] # NoRow => stored'[y] = stored[y]
  /\ \/ \A y \in Codes : stored[y] # NoRow => stored'[y] = stored[y]
     \/ \A d \in Calls : call[d].op = "listCodes" => d \in disturbed'
  /\ \/ \A y \in Codes : stored'[y] = stored[y]
     \/ \A d \in Calls : call[d].pc = "counted" => d \in disturbed'

\* The rows a call lists are finitely many.
LEMMA ScopeRows ==
  ASSUME NEW r \in Call
  PROVE  /\ Scope(r) \subseteq Rows /\ IsFiniteSet(Scope(r))
         /\ r.op = "listCodes" => Scope(r) = Codes
         /\ r.op # "listCodes" => Scope(r) \cap Codes = {}
<1>1. r.user \in Users
  BY DEF Call
<1> QED BY <1>1, Scopes DEF Scope

\* Where rows are only added, those that stand before a row stay there.
LEMMA RowsBefore ==
  ASSUME stored \in Tables, stored' \in Tables, NEW T, T \subseteq Rows, IsFiniteSet(T),
         \A y \in T : stored[y] # NoRow => stored'[y] = stored[y]
  PROVE  /\ Present(T) \subseteq Present(T)'
         /\ \A x \in Present(T) :
              /\ \A k : Matches(x, k)' <=> Matches(x, k)
              /\ Cardinality(Ahead(x, T)) <= Cardinality(Ahead(x, T)')
<1>1. Present(T) \subseteq Present(T)'
  BY DEF Present
<1>2. \A x \in Present(T) : stored'[x] = stored[x]
  BY DEF Present
<1>3. \A x \in Present(T) : \A k : Matches(x, k)' <=> Matches(x, k)
  BY <1>2 DEF Matches
<1>4. ASSUME NEW x \in Present(T)
      PROVE  Cardinality(Ahead(x, T)) <= Cardinality(Ahead(x, T)')
  <2>1. Ahead(x, T) \subseteq Ahead(x, T)'
    BY <1>1, <1>2 DEF Ahead
  <2>2. Ahead(x, T)' \subseteq T
    BY DEF Ahead, Present
  <2>3. IsFiniteSet(Ahead(x, T)')
    BY <2>2, FS_Subset
  <2> QED BY <2>1, <2>3, FS_Subset
<1> QED BY <1>1, <1>3, <1>4

\* A judged scan finds its rows where they were.
LEMMA JudgedRows ==
  ASSUME EndpointsInv, TablesMove, NEW c \in Calls, NEW r \in Call, NEW n,
         AsAsked(call[c], r), AsAsked(n, r), Judged(c, n)'
  PROVE  /\ Judged(c, r) /\ Scope(n) = Scope(r)
         /\ \A y \in Scope(r) : stored[y] # NoRow => stored'[y] = stored[y]
<1>1. c \notin disturbed' /\ c \notin disturbed
  BY DEF Judged, TablesMove
<1>2. Judged(c, r) /\ Scope(n) = Scope(r)
  BY <1>1 DEF Judged, Lists, AsAsked, Scope
<1>3. ASSUME NEW y \in Scope(r), stored[y] # NoRow
      PROVE  stored'[y] = stored[y]
  <2>1. CASE r.op = "listCodes"
    <3>1. call[c].op = "listCodes" /\ y \in Codes
      BY <2>1, ScopeRows DEF AsAsked
    <3> QED BY <1>1, <1>3, <3>1 DEF TablesMove
  <2>2. CASE r.op # "listCodes"
    <3>1. y \in Rows \ Codes
      BY <2>2, ScopeRows
    <3> QED BY <1>3, <3>1 DEF TablesMove
  <2> QED BY <2>1, <2>2
<1> QED BY <1>2, <1>3

\* A scan that shows nothing by a step is as far as it was: rows that come to stand
\* before those it has not shown do no harm, and what it counted is still the count.
LEMMA ScanStays ==
  ASSUME EndpointsInv, stored' \in Tables, TablesMove, NEW c \in Calls,
         NEW r \in Call, r = call[c],
         NEW n, AsAsked(n, r), n.seen = r.seen, n.offset = r.offset,
         n.pc \in {"sent", "admitted", "counted"} => r.pc \in {"sent", "admitted", "counted"},
         n.pc = "counted" =>
           \/ r.pc = "counted" /\ n.total = r.total
           \/ stored' = stored /\ n.total = Cardinality(Present(Codes)),
         n.pc = "done" /\ n.error = "ok" /\ Lists(n) => r.pc = "done" /\ r.error = "ok"
  PROVE  Scanning(c, n)'
<1> SUFFICES ASSUME Judged(c, n)'
             PROVE  /\ n.start \subseteq Present(Scope(n))'
                    /\ n.pc \in {"sent", "admitted", "counted"} => Behind(n)'
                    /\ n.pc = "counted" => n.total = Cardinality(Present(Codes))'
                    /\ n.pc = "done" /\ n.error = "ok" => Missed(n)' = {}
  BY DEF Scanning
<1>1. AsAsked(call[c], r)
  BY DEF AsAsked
<1>2. /\ Judged(c, r) /\ Scope(n) = Scope(r)
      /\ \A y \in Scope(r) : stored[y] # NoRow => stored'[y] = stored[y]
  BY <1>1, JudgedRows
<1>3. PICK T : T = Scope(r)
  OBVIOUS
<1>4. T \subseteq Rows /\ IsFiniteSet(T) /\ Scope(n) = T
  BY <1>2, <1>3, ScopeRows
<1>5. stored \in Tables /\ stored' \in Tables
  BY DEF EndpointsInv, TypeOK, Tables
<1>6. /\ Present(T) \subseteq Present(T)'
      /\ \A x \in Present(T) :
           /\ \A k : Matches(x, k)' <=> Matches(x, k)
           /\ Cardinality(Ahead(x, T)) <= Cardinality(Ahead(x, T)')
  BY <1>2, <1>3, <1>4, <1>5, RowsBefore
<1>7. /\ r.start \subseteq Present(T)
      /\ r.pc \in {"sent", "admitted", "counted"} => Behind(r)
      /\ r.pc = "counted" => r.total = Cardinality(Present(Codes))
      /\ r.pc = "done" /\ r.error = "ok" => Missed(r) = {}
  <2>1. Scanning(c, r)
    BY DEF EndpointsInv
  <2> QED BY <1>2, <1>3, <2>1 DEF Scanning
<1>8. \A x \in Missed(n)' : x \in Missed(r) /\ x \in Present(T)
  BY <1>6, <1>7 DEF Missed, AsAsked
<1>9. n.start \subseteq Present(Scope(n))'
  <2>1. n.start \subseteq Present(T)'
    BY <1>6, <1>7 DEF AsAsked
  <2> QED BY <2>1, <1>4 DEF Present
<1>10. ASSUME n.pc \in {"sent", "admitted", "counted"}
       PROVE  Behind(n)'
  <2>1. ASSUME NEW x \in Missed(n)'
        PROVE  n.offset <= Cardinality(Ahead(x, T)')
    <3>1. r.offset <= Cardinality(Ahead(x, T))
      BY <1>3, <1>7, <1>8, <1>10 DEF Behind
    <3>2. Cardinality(Ahead(x, T)) <= Cardinality(Ahead(x, T)')
      BY <1>6, <1>8
    <3>3. Cardinality(Ahead(x, T)) \in Nat
      BY <1>4, <1>5, PresentRows
    <3>4. Cardinality(Ahead(x, T)') \in Nat
      <4>1. Ahead(x, T)' \subseteq T
        BY DEF Ahead, Present
      <4> QED BY <4>1, <1>4, FS_Subset, FS_CardinalityType
    <3>5. r.offset \in Nat
      BY CallFields
    <3> QED BY <3>1, <3>2, <3>3, <3>4, <3>5
  <2>2. \A x : Ahead(x, T)' = Ahead(x, Scope(n))'
    BY <1>4 DEF Ahead, Present
  <2> QED BY <2>1, <2>2 DEF Behind
<1>11. ASSUME n.pc = "counted"
       PROVE  n.total = Cardinality(Present(Codes))'
  <2>1. CASE stored' = stored /\ n.total = Cardinality(Present(Codes))
    BY <2>1 DEF Present
  <2>2. CASE r.pc = "counted" /\ n.total = r.total
    <3>1. c \notin disturbed'
      BY DEF Judged
    <3>2. \A y \in Codes : stored'[y] = stored[y]
      BY <2>2, <3>1 DEF TablesMove
    <3>3. Present(Codes)' = Present(Codes)
      BY <3>2 DEF Present
    <3> QED BY <2>2, <3>3, <1>7
  <2> QED BY <1>11, <2>1, <2>2
<1>12. ASSUME n.pc = "done", n.error = "ok"
       PROVE  Missed(n)' = {}
  <2>1. Lists(n)
    BY DEF Judged
  <2> QED BY <1>7, <1>8, <1>12, <2>1
<1> QED BY <1>9, <1>10, <1>11, <1>12

\* What the interfaces do to a call's right to its use case depends on what was asked.
LEMMA PassedAsAsked ==
  ASSUME NEW n, NEW r, AsAsked(n, r), config' = config
  PROVE  /\ Passed(n)' <=> Passed(r)
         /\ Lists(n) <=> Lists(r)
         /\ \A e : StatusOf(n, e) = StatusOf(r, e)
<1>1. Refused(n)' <=> Refused(r)
  BY DEF AsAsked, Refused, RestRefuses, GrpcRefuses, Lists
<1>2. Allowed(n)' <=> Allowed(r)
  BY DEF AsAsked, Allowed
<1>3. Passed(n)' <=> Passed(r)
  BY <1>1, <1>2 DEF AsAsked, Passed
<1>4. Lists(n) <=> Lists(r)
  BY DEF AsAsked, Lists
<1>5. \A e : StatusOf(n, e) = StatusOf(r, e)
  BY DEF AsAsked, StatusOf
<1> QED BY <1>3, <1>4, <1>5

\* What the tables, the clock and the tokens may do in a step.
Around ==
  /\ stored' \in Tables /\ TablesMove /\ disturbed' \subseteq Calls
  /\ now' \in StartTime..MaxTime
  /\ issued' \subseteq [user : Users, expires : Nat] /\ issued \subseteq issued' /\ Tokens'
  /\ config' = config

\* A call that takes no part in a step is as it should be after it.
LEMMA CallStays ==
  ASSUME EndpointsInv, Around, NEW c \in Calls, NEW r, r = call[c]
  PROVE  Holder(r)' /\ Fate(r)' /\ Scanning(c, r)'
<1>1. r \in Call /\ Holder(r) /\ Fate(r)
  BY DEF EndpointsInv, TypeOK
<1>2. AsAsked(r, r) /\ config' = config /\ issued \subseteq issued'
  BY DEF AsAsked, Around
<1>3. Holder(r)'
  BY <1>1, <1>2 DEF Holder
<1>4. Fate(r)'
  <2>1. Passed(r)' <=> Passed(r)
    BY <1>2, PassedAsAsked
  <2>2. Refused(r)' <=> Refused(r)
    BY DEF Refused, RestRefuses, GrpcRefuses, Lists
  <2>3. TurnedAway(r)' <=> TurnedAway(r)
    BY <1>2, <2>2 DEF TurnedAway, Allowed, Refusal
  <2> QED BY <1>1, <2>1, <2>3 DEF Fate
<1>5. Scanning(c, r)'
  BY <1>1, <1>2, ScanStays DEF Around
<1> QED BY <1>3, <1>4, <1>5

\* What holds of a record after a step holds of the call that is that record.
LEMMA SameCall ==
  ASSUME NEW d, NEW m, m = call'[d], Holder(m)', Fate(m)', Scanning(d, m)'
  PROVE  Holder(call[d])' /\ Fate(call[d])' /\ Scanning(d, call[d])'
<1>1. Holder(call[d])'
  BY DEF Holder
<1>2. Refused(call[d])' <=> Refused(m)'
  BY DEF Refused, RestRefuses, GrpcRefuses, Lists
<1>3. (Passed(call[d])' <=> Passed(m)') /\ (TurnedAway(call[d])' <=> TurnedAway(m)')
  BY <1>2 DEF Passed, TurnedAway, Allowed, Refusal
<1>4. Fate(call[d])'
  BY <1>3 DEF Fate, StatusOf
<1>5. Scanning(d, call[d])'
  BY DEF Scanning, Judged, Behind, Missed, Lists, Scope, Ahead, Present, Matches
<1> QED BY <1>1, <1>4, <1>5

\* A step of one call keeps the invariant if it keeps it for that call.
LEMMA OneCall ==
  ASSUME EndpointsInv, Around, NEW c \in Calls, NEW n \in Call,
         call' = [call EXCEPT ![c] = n], Holder(n)', Fate(n)', Scanning(c, n)'
  PROVE  EndpointsInv'
<1>1. call \in [Calls -> Call] /\ config \in Configs
  BY DEF EndpointsInv, TypeOK
<1>2. /\ call' \in [Calls -> Call] /\ call'[c] = n
      /\ \A d \in Calls : d # c => call'[d] = call[d]
  BY <1>1
<1>3. TypeOK' /\ config' \in Configs /\ Tokens'
  BY <1>1, <1>2 DEF TypeOK, Around, Tables
<1>4. ASSUME NEW d \in Calls
      PROVE  Holder(call[d])' /\ Fate(call[d])' /\ Scanning(d, call[d])'
  <2>1. PICK m : m = call'[d]
    OBVIOUS
  <2>2. Holder(m)' /\ Fate(m)' /\ Scanning(d, m)'
    <3>1. CASE d = c
      BY <1>2, <2>1, <3>1
    <3>2. CASE d # c
      BY <1>2, <2>1, <3>2, CallStays
    <3> QED BY <3>1, <3>2
  <2> QED BY <2>1, <2>2, SameCall
<1> QED BY <1>3, <1>4 DEF EndpointsInv

\* Where nobody's call changes, the invariant stays.
LEMMA NoCall ==
  ASSUME EndpointsInv, Around, call' = call
  PROVE  EndpointsInv'
<1>1. call \in [Calls -> Call] /\ config \in Configs
  BY DEF EndpointsInv, TypeOK
<1>2. TypeOK' /\ config' \in Configs /\ Tokens'
  BY <1>1 DEF TypeOK, Around, Tables
<1>3. ASSUME NEW d \in Calls
      PROVE  Holder(call[d])' /\ Fate(call[d])' /\ Scanning(d, call[d])'
  <2>1. PICK m : m = call[d] /\ m = call'[d]
    OBVIOUS
  <2>2. Holder(m)' /\ Fate(m)' /\ Scanning(d, m)'
    BY <2>1, CallStays
  <2> QED BY <2>1, <2>2, SameCall
<1> QED BY <1>2, <1>3 DEF EndpointsInv

-----------------------------------------------------------------------------
(* What a step does to its own call *)

\* Each of a call's steps replaces its record.
LEMMA Replacements ==
  ASSUME call \in [Calls -> Call], NEW c \in Calls
  PROVE  /\ \A s : Answer(c, s) => call' = [call EXCEPT ![c] = Answered(call[c], s)]
         /\ \A e : End(c, e) => call' = [call EXCEPT ![c] =
                                  Ended(call[c], e, StatusOf(call[c], e))]
         /\ \A t : call' = [call EXCEPT ![c].pc = "admitted", ![c].since = t]
                     => call' = [call EXCEPT ![c] = LetIn(call[c], t)]
         /\ \A k : call' = [call EXCEPT ![c].pc = "counted", ![c].total = k]
                     => call' = [call EXCEPT ![c] = Counted(call[c], k)]
<1>1. \A s : Answer(c, s) => call' = [call EXCEPT ![c] = Answered(call[c], s)]
  BY DEF Answer, Answered
<1>2. ASSUME NEW e, End(c, e)
      PROVE  call' = [call EXCEPT ![c] = Ended(call[c], e, StatusOf(call[c], e))]
  <2>1. PICK st : st = StatusOf(call[c], e)
    OBVIOUS
  <2>2. call' = [call EXCEPT ![c].pc = "done", ![c].error = e, ![c].since = 0,
                             ![c].status = st]
    BY <1>2, <2>1 DEF End, StatusOf
  <2>3. call' = [call EXCEPT ![c] = Ended(call[c], e, st)]
    BY <2>2 DEF Ended
  <2> QED BY <2>1, <2>3
<1>3. \A t : call' = [call EXCEPT ![c].pc = "admitted", ![c].since = t]
               => call' = [call EXCEPT ![c] = LetIn(call[c], t)]
  BY DEF LetIn
<1>4. \A k : call' = [call EXCEPT ![c].pc = "counted", ![c].total = k]
               => call' = [call EXCEPT ![c] = Counted(call[c], k)]
  BY DEF Counted
<1> QED BY <1>1, <1>2, <1>3, <1>4

\* The invariant, for one call.
LEMMA OfCall ==
  ASSUME EndpointsInv, NEW c \in Calls, NEW r, r = call[c]
  PROVE  /\ r \in Call /\ Holder(r) /\ Fate(r) /\ Scanning(c, r)
         /\ call \in [Calls -> Call]
BY DEF EndpointsInv, TypeOK

\* Outcomes are errors, with a status.
LEMMA OutcomesHaveStatus ==
  ASSUME NEW r \in Call, NEW e \in Outcomes(r.op)
  PROVE  e \in Errors /\ StatusOf(r, e) \in Statuses /\ e # ""
<1>1. e \in Errors
  BY CallFields, ErrorsAndStatuses DEF Outcomes
<1>2. StatusOf(r, e) \in Statuses
  BY <1>1, ErrorsAndStatuses DEF StatusOf, Statuses
<1>3. e # ""
  BY DEF Outcomes, ErrorsOf
<1> QED BY <1>1, <1>2, <1>3

\* A use case that ends keeps the invariant, whatever it did to the tables.
LEMMA CallEnds ==
  ASSUME EndpointsInv, Around, NEW c \in Calls, NEW r, r = call[c],
         r.pc \in {"admitted", "counted"}, NEW e \in Outcomes(r.op), e = "ok" => ~Lists(r),
         End(c, e)
  PROVE  EndpointsInv'
<1>1. r \in Call /\ Holder(r) /\ Fate(r) /\ call \in [Calls -> Call]
  BY OfCall
<1>2. e \in Errors /\ StatusOf(r, e) \in Statuses
  BY <1>1, OutcomesHaveStatus
<1>3. PICK n : n = Ended(r, e, StatusOf(r, e))
  OBVIOUS
<1>4. /\ n \in Call /\ AsAsked(n, r)
      /\ n.pc = "done" /\ n.status = StatusOf(r, e) /\ n.error = e
      /\ n.offset = r.offset /\ n.seen = r.seen
  BY <1>1, <1>2, <1>3, EndedFields
<1>5. call' = [call EXCEPT ![c] = n]
  BY <1>1, <1>3, Replacements
<1>6. /\ Passed(n)' <=> Passed(r)
      /\ Lists(n) <=> Lists(r)
      /\ StatusOf(n, e) = StatusOf(r, e)
  BY <1>4, PassedAsAsked DEF Around
<1>7. Holder(n)'
  BY <1>1, <1>4 DEF Holder, AsAsked, Around
<1>8. Fate(n)'
  <2>1. Passed(r) /\ r.op \in OpsOf[r.via] /\ n.op = r.op /\ n.via = r.via
        /\ n.lacks = r.lacks /\ r.lacks \in PartsOf(r.op) \cup {""}
    BY <1>1, <1>4 DEF Fate, AsAsked
  <2> QED BY <1>4, <1>6, <2>1 DEF Fate
<1>9. Scanning(c, n)'
  BY <1>1, <1>4, <1>6, ScanStays DEF Around
<1> QED BY <1>4, <1>5, <1>7, <1>8, <1>9, OneCall

\* So does one that is turned away, as the settings have it.
LEMMA CallAnswered ==
  ASSUME EndpointsInv, Around, NEW c \in Calls, NEW r, r = call[c], r.pc = "sent",
         NEW s \in Statuses, r.via # "user" => TurnedAway(Answered(r, s)), Answer(c, s)
  PROVE  EndpointsInv'
<1>1. r \in Call /\ Holder(r) /\ Fate(r) /\ call \in [Calls -> Call]
  BY OfCall
<1>2. PICK n : n = Answered(r, s)
  OBVIOUS
<1>3. /\ n \in Call /\ AsAsked(n, r)
      /\ n.pc = "done" /\ n.status = s /\ n.error = r.error
      /\ n.offset = r.offset /\ n.seen = r.seen
  BY <1>1, <1>2, AnsweredFields
<1>4. call' = [call EXCEPT ![c] = n]
  BY <1>1, <1>2, Replacements
<1>5. Holder(n)'
  BY <1>1, <1>3 DEF Holder, AsAsked, Around
<1>6. n.error = "" /\ r.op \in OpsOf[r.via] /\ n.op = r.op /\ n.via = r.via
      /\ n.lacks = r.lacks /\ r.lacks \in PartsOf(r.op) \cup {""}
  BY <1>1, <1>3 DEF Fate, AsAsked
<1>7. n.via # "user" => TurnedAway(n)'
  <2>1. n.via # "user" => TurnedAway(n)
    BY <1>2, <1>6
  <2>2. Refused(n)' <=> Refused(n)
    BY DEF Refused, RestRefuses, GrpcRefuses, Lists
  <2> QED BY <2>1, <2>2 DEF TurnedAway, Allowed, Refusal, Around
<1>8. Fate(n)'
  BY <1>3, <1>6, <1>7 DEF Fate
<1>9. Scanning(c, n)'
  BY <1>1, <1>3, <1>6, ScanStays DEF Around
<1> QED BY <1>3, <1>4, <1>5, <1>8, <1>9, OneCall

-----------------------------------------------------------------------------
(* What a step does around its call *)

\* Most steps leave the tables alone, or disturb scans only.
LEMMA StillAround ==
  ASSUME EndpointsInv, stored' = stored, now' = now, config' = config, issued' = issued,
         disturbed \subseteq disturbed', disturbed' \subseteq Calls
  PROVE  Around
<1>1. Tokens'
  BY DEF EndpointsInv, Tokens
<1>2. TablesMove
  BY DEF TablesMove
<1> QED BY <1>1, <1>2 DEF Around, EndpointsInv, TypeOK, Tables

\* A row that is inserted.
LEMMA InsertAround ==
  ASSUME EndpointsInv, now' = now, config' = config, issued' = issued,
         NEW x \in Rows, NEW since \in 0..MaxTime, NEW kind \in Kinds,
         Insert(x, since, kind),
         \/ x \notin Codes /\ disturbed' = disturbed
         \/ disturbed' = disturbed \cup {d \in Calls : call[d].pc = "counted"}
  PROVE  Around
<1>1. stored \in Tables /\ now \in StartTime..MaxTime /\ disturbed \subseteq Calls
      /\ stored[x] = NoRow
  BY DEF EndpointsInv, TypeOK, Tables, Insert
<1>2. PICK t \in since..now : stored' = [stored EXCEPT ![x] = [at |-> t, kind |-> kind]]
  BY DEF Insert
<1>3. t \in 0..MaxTime
  BY <1>1, ListingAssumption
<1>4. [at |-> t, kind |-> kind] \in Stored
  BY <1>3 DEF Stored
<1>5. stored' \in Tables /\ \A y \in Rows : y # x => stored'[y] = stored[y]
  BY <1>1, <1>2, <1>4 DEF Tables
<1>6. \A y \in Rows : stored[y] # NoRow => stored'[y] = stored[y]
  BY <1>1, <1>5
<1>7. disturbed \subseteq disturbed' /\ disturbed' \subseteq Calls
  BY <1>1
<1>8. \A y \in Codes : y \in Rows
  BY Scopes
<1>9. TablesMove
  BY <1>5, <1>6, <1>7, <1>8 DEF TablesMove
<1>10. Tokens'
  BY DEF EndpointsInv, Tokens
<1> QED BY <1>1, <1>5, <1>7, <1>9, <1>10 DEF Around, EndpointsInv, TypeOK

\* A code that is deleted.
LEMMA DeleteAround ==
  ASSUME EndpointsInv, now' = now, config' = config, issued' = issued,
         NEW x \in Codes, Delete(x),
         disturbed' = disturbed \cup {d \in Calls : call[d].op = "listCodes"},
         \A d \in Calls : call[d].pc = "counted" => call[d].op = "listCodes"
  PROVE  Around
<1>1. stored \in Tables /\ disturbed \subseteq Calls /\ x \in Rows
  BY Scopes DEF EndpointsInv, TypeOK, Tables
<1>2. stored' = [stored EXCEPT ![x] = NoRow]
  BY DEF Delete
<1>3. stored' \in Tables /\ \A y \in Rows : y # x => stored'[y] = stored[y]
  BY <1>1, <1>2 DEF Tables
<1>4. TablesMove
  BY <1>3 DEF TablesMove
<1>5. Tokens'
  BY DEF EndpointsInv, Tokens
<1> QED BY <1>1, <1>3, <1>4, <1>5 DEF Around, EndpointsInv, TypeOK

-----------------------------------------------------------------------------
(* The actions *)

\* Only listings of codes are counted.
LEMMA CountedAreCodes ==
  ASSUME EndpointsInv
  PROVE  \A d \in Calls : call[d].pc = "counted" => call[d].op = "listCodes"
BY DEF EndpointsInv, Fate

\* Admit: turned away as the settings have it, or let in with a living token.
LEMMA AdmitKeeps ==
  ASSUME EndpointsInv, NEW c \in Calls, Admit(c)
  PROVE  EndpointsInv'
<1>1. PICK r : r = call[c]
  OBVIOUS
<1>2. r \in Call /\ Holder(r) /\ Fate(r) /\ call \in [Calls -> Call] /\ r.via \in Vias
  BY <1>1, OfCall, CallFields
<1>3. r.pc = "sent" /\ stored' = stored /\ now' = now /\ config' = config
      /\ issued' = issued /\ disturbed' = disturbed
  BY <1>1 DEF Admit
<1>4. Around
  <2>1. disturbed \subseteq Calls
    BY DEF EndpointsInv, TypeOK
  <2> QED BY <1>3, <2>1, StillAround
<1>5. Refusal(r) \in Statuses /\ Unknown(r.via) \in Statuses
      /\ Forbidden(r.via) \in Statuses
  BY <1>2, ErrorsAndStatuses DEF Refusal
<1>6. ASSUME NEW s \in Statuses, Answer(c, s),
             r.via # "user" =>
               \/ ~config.enabled /\ s = Forbidden(r.via)
               \/ config.enabled /\ ~r.genuine /\ s = Unknown(r.via)
               \/ config.enabled /\ r.genuine /\ ~Allowed(r) /\ s = Forbidden(r.via)
               \/ config.enabled /\ r.genuine /\ Allowed(r) /\ Refused(r)
                    /\ s = Refusal(r)
      PROVE  EndpointsInv'
  <2>1. PICK n : n = Answered(r, s)
    OBVIOUS
  <2>2. AsAsked(n, r) /\ n.status = s
    BY <1>2, <2>1, AnsweredFields
  <2>3. n.via = r.via /\ n.genuine = r.genuine
    BY <2>2 DEF AsAsked
  <2>4. (Refused(n) <=> Refused(r)) /\ (Allowed(n) <=> Allowed(r)) /\ Refusal(n) = Refusal(r)
    BY <2>2 DEF AsAsked, Refused, RestRefuses, GrpcRefuses, Lists, Allowed, Refusal
  <2>5. r.via # "user" => TurnedAway(n)
    BY <1>6, <2>2, <2>3, <2>4 DEF TurnedAway
  <2> QED BY <1>1, <1>3, <1>4, <1>6, <2>1, <2>5, CallAnswered
<1>7. ASSUME ~Refused(r),
             IF r.via = "user" THEN Valid(r) ELSE config.enabled /\ r.genuine /\ Allowed(r),
             call' = [call EXCEPT ![c].pc = "admitted", ![c].since = now]
      PROVE  EndpointsInv'
  <2>1. PICK t : t = now
    OBVIOUS
  <2>2. t \in 0..MaxTime /\ t \in Int
    BY <2>1, ListingAssumption DEF EndpointsInv, TypeOK
  <2>3. PICK n : n = LetIn(r, t)
    OBVIOUS
  <2>4. /\ n \in Call /\ AsAsked(n, r)
        /\ n.pc = "admitted" /\ n.error = r.error
        /\ n.since = t /\ n.offset = r.offset /\ n.seen = r.seen
    BY <1>2, <2>2, <2>3, LetInFields
  <2>5. call' = [call EXCEPT ![c] = n]
    BY <1>1, <1>2, <1>7, <2>1, <2>3, Replacements
  <2>6. Holder(n)'
    <3> SUFFICES ASSUME r.via = "user"
                 PROVE  /\ r.genuine /\ t < r.expires /\ r.expires <= t + Lifetime
                        /\ [user |-> r.user, expires |-> r.expires] \in issued
      BY <1>3, <2>4 DEF Holder, AsAsked
    <3>1. r.genuine /\ t < r.expires
      BY <1>7, <2>1 DEF Valid
    <3>2. PICK k : k = [user |-> r.user, expires |-> r.expires]
      OBVIOUS
    <3>3. k \in issued
      BY <1>2, <1>3, <3>1, <3>2 DEF Holder
    <3>4. k.expires <= now + Lifetime
      BY <3>3 DEF EndpointsInv, Tokens
    <3>5. k.expires = r.expires
      BY <3>2
    <3> QED BY <2>1, <3>1, <3>2, <3>3, <3>4, <3>5
  <2>7. Fate(n)'
    <3>1. Passed(r)
      BY <1>7 DEF Passed, Valid
    <3>2. Passed(n)'
      BY <1>3, <2>4, <3>1, PassedAsAsked
    <3>3. n.error = "" /\ n.op \in OpsOf[n.via] /\ n.lacks \in PartsOf(n.op) \cup {""}
      BY <1>2, <1>3, <2>4 DEF Fate, AsAsked
    <3> QED BY <2>4, <3>2, <3>3 DEF Fate
  <2>8. Scanning(c, n)'
    BY <1>1, <1>2, <1>3, <2>4, <1>4, ScanStays DEF Around
  <2> QED BY <1>4, <2>4, <2>5, <2>6, <2>7, <2>8, OneCall
<1> QED
  <2>1. \/ r.via = "user" /\ ~Valid(r) /\ Answer(c, Unknown(r.via))
        \/ r.via # "user" /\ ~config.enabled /\ Answer(c, Forbidden(r.via))
        \/ r.via # "user" /\ config.enabled /\ ~r.genuine /\ Answer(c, Unknown(r.via))
        \/ r.via # "user" /\ config.enabled /\ r.genuine /\ ~Allowed(r)
             /\ Answer(c, Forbidden(r.via))
        \/ /\ IF r.via = "user" THEN Valid(r) ELSE config.enabled /\ r.genuine /\ Allowed(r)
           /\ \/ Refused(r) /\ Answer(c, Refusal(r))
              \/ ~Refused(r) /\ call' = [call EXCEPT ![c].pc = "admitted", ![c].since = now]
    BY <1>1 DEF Admit
  <2>2. CASE r.via = "user" /\ ~Valid(r) /\ Answer(c, Unknown(r.via))
    BY <2>2, <1>5, <1>6
  <2>3. CASE r.via # "user" /\ ~config.enabled /\ Answer(c, Forbidden(r.via))
    BY <2>3, <1>5, <1>6
  <2>4. CASE r.via # "user" /\ config.enabled /\ ~r.genuine /\ Answer(c, Unknown(r.via))
    BY <2>4, <1>5, <1>6
  <2>5. CASE r.via # "user" /\ config.enabled /\ r.genuine /\ ~Allowed(r)
             /\ Answer(c, Forbidden(r.via))
    BY <2>5, <1>5, <1>6
  <2>6. CASE /\ IF r.via = "user" THEN Valid(r)
                                  ELSE config.enabled /\ r.genuine /\ Allowed(r)
             /\ Refused(r) /\ Answer(c, Refusal(r))
    BY <2>6, <1>5, <1>6
  <2>7. CASE /\ IF r.via = "user" THEN Valid(r)
                                  ELSE config.enabled /\ r.genuine /\ Allowed(r)
             /\ ~Refused(r)
             /\ call' = [call EXCEPT ![c].pc = "admitted", ![c].since = now]
    BY <2>7, <1>7
  <2> QED BY <2>1, <2>2, <2>3, <2>4, <2>5, <2>6, <2>7

\* RecordPart: a row of history more.
LEMMA RecordPartKeeps ==
  ASSUME EndpointsInv, NEW c \in Calls, RecordPart(c)
  PROVE  EndpointsInv'
<1>1. PICK r : r = call[c]
  OBVIOUS
<1>2. r \in Call /\ r.user \in Users /\ r.since \in 0..MaxTime
  BY <1>1, OfCall, CallFields
<1>3. now' = now /\ config' = config /\ issued' = issued /\ call' = call
      /\ disturbed' = disturbed
  BY DEF RecordPart
<1>4. PICK x \in History(r.user) : Insert(x, r.since, "consume")
  BY <1>1 DEF RecordPart
<1>5. x \in Rows /\ x \notin Codes /\ "consume" \in Kinds
  BY <1>2, Scopes DEF Kinds
<1>6. Around
  BY <1>2, <1>3, <1>4, <1>5, InsertAround
<1> QED BY <1>3, <1>6, NoCall

\* Transact: it ends with or without a row of history.
LEMMA TransactKeeps ==
  ASSUME EndpointsInv, NEW c \in Calls, Transact(c)
  PROVE  EndpointsInv'
<1>1. PICK r : r = call[c]
  OBVIOUS
<1>2. r \in Call /\ r.user \in Users /\ r.since \in 0..MaxTime
  BY <1>1, OfCall, CallFields
<1>3. r.pc = "admitted" /\ Moves(r) /\ now' = now /\ config' = config /\ issued' = issued
  BY <1>1 DEF Transact
<1>4. PICK kind \in Kinds : kind = IF r.op \in {"grant", "redeem"} THEN "grant" ELSE "consume"
  BY DEF Kinds
<1>5. ~Lists(r)
  BY <1>3 DEF Moves, Lists
<1>6. ASSUME Keep PROVE Around
  <2>1. disturbed \subseteq Calls
    BY DEF EndpointsInv, TypeOK
  <2> QED BY <1>3, <1>6, <2>1, StillAround DEF Keep
<1>7. ASSUME \E x \in History(r.user) : Insert(x, r.since, kind), disturbed' = disturbed
      PROVE  Around
  <2>1. PICK x \in History(r.user) : Insert(x, r.since, kind)
    BY <1>7
  <2>2. x \in Rows /\ x \notin Codes
    BY <1>2, Scopes
  <2> QED BY <1>2, <1>3, <1>7, <2>1, <2>2, InsertAround
<1>8. Around /\ \E e \in Outcomes(r.op) : End(c, e)
  <2> DEFINE record == \E x \in History(r.user) : Insert(x, r.since, kind)
                       /\ UNCHANGED disturbed
  <2>1. \/ End(c, "ok") /\ record
        \/ r.op = "payment" /\ End(c, "ok") /\ Keep
        \/ \E e \in ErrorsOf(r.op) \ {"codeNotFound"} : End(c, e) /\ (Keep \/ record)
        \/ r.op = "redeem" /\ End(c, "codeNotFound") /\ Keep
        \/ End(c, "internal") /\ (Keep \/ record)
    BY <1>1, <1>4 DEF Transact
  <2>2. record => Around
    BY <1>7
  <2> HIDE DEF record
  <2>3. Around
    BY <2>1, <2>2, <1>6
  <2>4. r.op = "redeem" => "codeNotFound" \in ErrorsOf(r.op)
    BY DEF ErrorsOf
  <2>5. \E e \in Outcomes(r.op) : End(c, e)
    BY <2>1, <2>4 DEF Outcomes
  <2> QED BY <2>3, <2>5
<1> QED BY <1>1, <1>3, <1>5, <1>8, CallEnds

\* CreateCode: a code more disturbs scans that counted already.
LEMMA CreateCodeKeeps ==
  ASSUME EndpointsInv, NEW c \in Calls, CreateCode(c)
  PROVE  EndpointsInv'
<1>1. PICK r : r = call[c]
  OBVIOUS
<1>2. r \in Call /\ r.code \in Codes /\ r.since \in 0..MaxTime
  BY <1>1, OfCall, CallFields
<1>3. r.pc = "admitted" /\ r.op = "createCode"
      /\ now' = now /\ config' = config /\ issued' = issued
  BY <1>1 DEF CreateCode
<1>4. ASSUME Keep PROVE Around
  <2>1. disturbed \subseteq Calls
    BY DEF EndpointsInv, TypeOK
  <2> QED BY <1>3, <1>4, <2>1, StillAround DEF Keep
<1>5. ASSUME \E kind \in {"promotion", "gift"} : Insert(r.code, r.since, kind),
             disturbed' = disturbed \cup {d \in Calls : call[d].pc = "counted"}
      PROVE  Around
  <2>1. PICK kind \in {"promotion", "gift"} : Insert(r.code, r.since, kind)
    BY <1>5
  <2>2. kind \in Kinds /\ r.code \in Rows
    BY <1>2, Scopes DEF Kinds
  <2> QED BY <1>2, <1>3, <1>5, <2>1, <2>2, InsertAround
<1>6. Around /\ \E e \in Outcomes(r.op) : End(c, e)
  <2> DEFINE insert == /\ \E kind \in {"promotion", "gift"} : Insert(r.code, r.since, kind)
                       /\ disturbed' = disturbed \cup {d \in Calls : call[d].pc = "counted"}
  <2>1. \/ End(c, "ok") /\ insert
        \/ End(c, "codeAlreadyExists") /\ Keep
        \/ End(c, "internal") /\ (Keep \/ insert)
    BY <1>1 DEF CreateCode
  <2>2. insert => Around
    BY <1>5
  <2> HIDE DEF insert
  <2>3. Around
    BY <2>1, <2>2, <1>4
  <2>4. \E e \in Outcomes(r.op) : End(c, e)
    BY <1>3, <2>1 DEF Outcomes
  <2> QED BY <2>3, <2>4
<1>7. ~Lists(r)
  BY <1>3 DEF Lists
<1> QED BY <1>1, <1>3, <1>6, <1>7, CallEnds

\* DeleteCode: a code less disturbs every scan of codes.
LEMMA DeleteCodeKeeps ==
  ASSUME EndpointsInv, NEW c \in Calls, DeleteCode(c)
  PROVE  EndpointsInv'
<1>1. PICK r : r = call[c]
  OBVIOUS
<1>2. r \in Call /\ r.code \in Codes
  BY <1>1, OfCall, CallFields
<1>3. r.pc = "admitted" /\ r.op = "deleteCode"
      /\ now' = now /\ config' = config /\ issued' = issued
  BY <1>1 DEF DeleteCode
<1>4. ASSUME Keep PROVE Around
  <2>1. disturbed \subseteq Calls
    BY DEF EndpointsInv, TypeOK
  <2> QED BY <1>3, <1>4, <2>1, StillAround DEF Keep
<1>5. ASSUME Delete(r.code),
             disturbed' = disturbed \cup {d \in Calls : call[d].op = "listCodes"}
      PROVE  Around
  BY <1>2, <1>3, <1>5, CountedAreCodes, DeleteAround
<1>6. Around /\ \E e \in Outcomes(r.op) : End(c, e)
  <2> DEFINE delete == /\ Delete(r.code)
                       /\ disturbed' = disturbed \cup {d \in Calls : call[d].op = "listCodes"}
  <2>1. \/ End(c, "ok") /\ delete
        \/ End(c, "codeNotFound") /\ Keep
        \/ End(c, "codeCannotBeDeleted") /\ Keep
        \/ End(c, "internal") /\ (Keep \/ delete)
    BY <1>1 DEF DeleteCode
  <2>2. delete => Around
    BY <1>5
  <2> HIDE DEF delete
  <2>3. Around
    BY <2>1, <2>2, <1>4
  <2>4. \E e \in Outcomes(r.op) : End(c, e)
    BY <1>3, <2>1 DEF Outcomes, ErrorsOf
  <2> QED BY <2>3, <2>4
<1>7. ~Lists(r)
  BY <1>3 DEF Lists
<1> QED BY <1>1, <1>3, <1>6, <1>7, CallEnds

\* Look: it ends, and nothing else moves.
LEMMA LookKeeps ==
  ASSUME EndpointsInv, NEW c \in Calls, Look(c)
  PROVE  EndpointsInv'
<1>1. PICK r : r = call[c]
  OBVIOUS
<1>2. r.pc = "admitted" /\ r.op \in {"balance", "getCode"} /\ stored' = stored /\ now' = now
      /\ config' = config /\ issued' = issued /\ disturbed' = disturbed
  BY <1>1 DEF Look
<1>3. Around
  <2>1. disturbed \subseteq Calls
    BY DEF EndpointsInv, TypeOK
  <2> QED BY <1>2, <2>1, StillAround
<1>4. \E e \in Outcomes(r.op) : End(c, e)
  <2>1. \/ End(c, "ok") \/ (r.op = "getCode" /\ End(c, "codeNotFound"))
        \/ End(c, "internal")
    BY <1>1 DEF Look
  <2> QED BY <2>1 DEF Outcomes, ErrorsOf
<1>5. ~Lists(r)
  BY <1>2 DEF Lists
<1> QED BY <1>1, <1>2, <1>3, <1>4, <1>5, CallEnds

\* GenerateToken: a token more, that lives for its lifetime.
LEMMA GenerateTokenKeeps ==
  ASSUME EndpointsInv, NEW c \in Calls, GenerateToken(c)
  PROVE  EndpointsInv'
<1>1. PICK r : r = call[c]
  OBVIOUS
<1>2. r \in Call /\ r.user \in Users
  BY <1>1, OfCall, CallFields
<1>3. r.pc = "admitted" /\ r.op = "issueToken" /\ stored' = stored /\ now' = now
      /\ config' = config /\ disturbed' = disturbed
  BY <1>1 DEF GenerateToken
<1>4. /\ stored \in Tables /\ disturbed \subseteq Calls /\ now \in StartTime..MaxTime
      /\ issued \subseteq [user : Users, expires : Nat]
  BY DEF EndpointsInv, TypeOK, Tables
<1>5. TablesMove
  BY <1>3 DEF TablesMove
<1>6. PICK k : k = [user |-> r.user, expires |-> now + Lifetime]
  OBVIOUS
<1>7. k \in [user : Users, expires : Nat] /\ k.expires <= now + Lifetime
  <2>1. now + Lifetime \in Nat /\ now + Lifetime <= now + Lifetime
    BY <1>4, ListingAssumption, EndpointsAssumption
  <2> QED BY <1>2, <1>6, <2>1
<1>8. issued' = issued \cup {k} \/ issued' = issued
  BY <1>1, <1>6 DEF GenerateToken
<1>9. Tokens'
  BY <1>3, <1>7, <1>8 DEF EndpointsInv, Tokens
<1>10. Around
  BY <1>3, <1>4, <1>5, <1>7, <1>8, <1>9 DEF Around
<1>11. \E e \in Outcomes(r.op) : End(c, e)
  <2>1. End(c, "ok") \/ End(c, "internal")
    BY <1>1 DEF GenerateToken
  <2> QED BY <2>1 DEF Outcomes
<1>12. ~Lists(r)
  BY <1>3 DEF Lists
<1> QED BY <1>1, <1>3, <1>10, <1>11, <1>12, CallEnds

\* Count: the total is the number of codes there are.
LEMMA CountKeeps ==
  ASSUME EndpointsInv, NEW c \in Calls, Count(c)
  PROVE  EndpointsInv'
<1>1. PICK r : r = call[c]
  OBVIOUS
<1>2. r \in Call /\ Holder(r) /\ Fate(r) /\ call \in [Calls -> Call]
  BY <1>1, OfCall
<1>3. r.pc = "admitted" /\ r.op = "listCodes" /\ stored' = stored /\ now' = now
      /\ config' = config /\ issued' = issued /\ disturbed' = disturbed
  BY <1>1 DEF Count
<1>4. Around
  <2>1. disturbed \subseteq Calls
    BY DEF EndpointsInv, TypeOK
  <2> QED BY <1>3, <2>1, StillAround
<1>5. CASE End(c, "internal")
  <2>1. "internal" \in Outcomes(r.op)
    BY DEF Outcomes
  <2> QED BY <1>1, <1>3, <1>4, <1>5, <2>1, CallEnds
<1>6. CASE call' = [call EXCEPT ![c].pc = "counted",
                                ![c].total = Cardinality(Present(Codes))]
  <2>1. PICK k : k = Cardinality(Present(Codes))
    OBVIOUS
  <2>2. k \in Nat
    BY <2>1, Scopes, PresentRows DEF EndpointsInv, TypeOK, Tables
  <2>3. PICK n : n = Counted(r, k)
    OBVIOUS
  <2>4. /\ n \in Call /\ AsAsked(n, r)
        /\ n.pc = "counted" /\ n.error = r.error
        /\ n.offset = r.offset /\ n.total = k /\ n.seen = r.seen
    BY <1>2, <2>2, <2>3, CountedFields
  <2>5. call' = [call EXCEPT ![c] = n]
    BY <1>1, <1>2, <1>6, <2>1, <2>3, Replacements
  <2>6. Holder(n)'
    BY <1>2, <1>3, <2>4 DEF Holder, AsAsked
  <2>7. Fate(n)'
    <3>1. Passed(n)'
      BY <1>2, <1>3, <2>4, PassedAsAsked DEF Fate
    <3>2. /\ n.error = "" /\ n.op \in OpsOf[n.via] /\ n.op = "listCodes"
          /\ n.lacks \in PartsOf(n.op) \cup {""}
      BY <1>2, <1>3, <2>4 DEF Fate, AsAsked
    <3> QED BY <2>4, <3>1, <3>2 DEF Fate
  <2>8. Scanning(c, n)'
    BY <1>1, <1>2, <1>3, <1>4, <2>1, <2>4, ScanStays DEF Around
  <2> QED BY <1>4, <2>4, <2>5, <2>6, <2>7, <2>8, OneCall
<1> QED BY <1>1, <1>5, <1>6 DEF Count

\* The service always asks for at least one row.
LEMMA ClampedLimit ==
  ASSUME NEW limit \in Int
  PROVE  Clamp(limit) \in Nat
<1>1. DefaultLimit \in Nat /\ MaxLimit \in Nat
  BY ListingAssumption
<1> QED BY <1>1 DEF Clamp

\* A page has rows of the listing, and finitely many.
LEMMA PageRows ==
  ASSUME stored \in Tables, NEW T, T \subseteq Rows, IsFiniteSet(T),
         NEW q \in NewestFirst(T), NEW limit, NEW offset, NEW filter
  PROVE  /\ PageOf(q, limit, offset) \subseteq Present(T)
         /\ Filtered(PageOf(q, limit, offset), filter) \subseteq PageOf(q, limit, offset)
         /\ Cardinality(Filtered(PageOf(q, limit, offset), filter)) \in Nat
<1>1. \A i \in DOMAIN q : q[i] \in Present(T)
  BY DEF NewestFirst, SetToSeqs
<1>2. PageOf(q, limit, offset) \subseteq Present(T)
  BY <1>1 DEF PageOf
<1>3. Filtered(PageOf(q, limit, offset), filter) \subseteq PageOf(q, limit, offset)
  BY DEF Filtered
<1>4. IsFiniteSet(Present(T))
  BY PresentRows
<1>5. Cardinality(Filtered(PageOf(q, limit, offset), filter)) \in Nat
  BY <1>2, <1>3, <1>4, FS_Subset, FS_CardinalityType
<1> QED BY <1>2, <1>3, <1>5

\* What a judged scan still misses after a page lies behind that page, and a page that
\* the client takes for the last one leaves nothing.
LEMMA PageLeaves ==
  ASSUME EndpointsInv, NEW c \in Calls, NEW r, r = call[c], Judged(c, r), ~Tied(Scope(r)),
         r.pc \in {"admitted", "counted"}, r.pc = "admitted" => r.op = "transactions",
         NEW q \in NewestFirst(Scope(r)), NEW limit \in Nat,
         NEW page, page = Filtered(PageOf(q, limit, r.offset), r.filter),
         NEW x \in Missed(r), x \notin page
  PROVE  /\ r.offset + limit <= Cardinality(Ahead(x, Scope(r)))
         /\ r.op = "listCodes" => r.offset + limit < r.total
         /\ r.op # "listCodes" => Cardinality(page) = limit
<1>1. r \in Call /\ Fate(r) /\ Scanning(c, r) /\ r.offset \in Nat
  BY OfCall, CallFields
<1>2. PICK T : T = Scope(r)
  OBVIOUS
<1>3. T \subseteq Rows /\ IsFiniteSet(T) /\ (r.op = "listCodes" => T = Codes)
      /\ (r.op # "listCodes" => T \cap Codes = {})
  BY <1>1, <1>2, ScopeRows
<1>4. stored \in Tables
  BY DEF EndpointsInv, TypeOK, Tables
<1>5. /\ r.start \subseteq Present(T) /\ Behind(r)
      /\ r.pc = "counted" => r.total = Cardinality(Present(Codes))
  BY <1>1, <1>2 DEF Scanning
<1>6. x \in Present(T) /\ Matches(x, r.filter) /\ r.offset <= Cardinality(Ahead(x, T))
  BY <1>2, <1>5 DEF Missed, Behind
<1>7. x \notin PageOf(q, limit, r.offset)
  BY <1>6 DEF Filtered
<1>8. /\ r.offset + limit <= Cardinality(Ahead(x, T))
      /\ r.offset + limit < Cardinality(Present(T))
      /\ Cardinality(PageOf(q, limit, r.offset)) = limit
  BY <1>1, <1>2, <1>3, <1>4, <1>6, <1>7, PageShows
<1>9. ASSUME r.op = "listCodes"
      PROVE  r.total = Cardinality(Present(T))
  BY <1>3, <1>5, <1>9
<1>10. ASSUME r.op # "listCodes"
       PROVE  page = PageOf(q, limit, r.offset)
  <2>1. r.op = "transactions" /\ r.filter \notin {"grant", "consume"}
    BY <1>10 DEF Judged, Lists
  <2>2. \A y \in PageOf(q, limit, r.offset) : y \notin Codes
    <3>1. PageOf(q, limit, r.offset) \subseteq T
      BY <1>2, <1>3, <1>4, PageRows DEF Present
    <3> QED BY <1>3, <1>10, <3>1
  <2> QED BY <2>1, <2>2 DEF Filtered, Matches
<1> QED BY <1>2, <1>8, <1>9, <1>10

\* Select: one page more, or an error.
LEMMA SelectKeeps ==
  ASSUME EndpointsInv, NEW c \in Calls, Select(c)
  PROVE  EndpointsInv'
<1>1. PICK r : r = call[c]
  OBVIOUS
<1>2. /\ r \in Call /\ Holder(r) /\ Fate(r) /\ Scanning(c, r) /\ call \in [Calls -> Call]
      /\ r.offset \in Nat /\ r.limit \in Int /\ r.seen \subseteq Rows
  BY <1>1, OfCall, CallFields
<1>3. /\ (r.pc = "admitted" /\ r.op = "transactions") \/ r.pc = "counted"
      /\ stored' = stored /\ now' = now /\ config' = config /\ issued' = issued
      /\ disturbed' = IF Tied(Scope(r)) THEN disturbed \cup {c} ELSE disturbed
  BY <1>1 DEF Select
<1>4. Around
  <2>1. disturbed \subseteq Calls
    BY DEF EndpointsInv, TypeOK
  <2> QED BY <1>3, <2>1, StillAround
<1>5. CASE End(c, "internal")
  <2>1. "internal" \in Outcomes(r.op)
    BY DEF Outcomes
  <2> QED BY <1>1, <1>3, <1>4, <1>5, <2>1, CallEnds
<1>6. PICK limit \in Nat : limit = Clamp(Limit(r))
  <2>1. Limit(r) \in Int
    BY <1>2, ListingAssumption DEF Limit, GrpcLimit
  <2> QED BY <2>1, ClampedLimit
<1>7. ASSUME NEW q \in NewestFirst(Scope(r)), NEW page,
             page = Filtered(PageOf(q, limit, r.offset), r.filter), NEW n,
             call' = [call EXCEPT ![c] = n],
             \/ /\ n = Finished(Turned(r, r.seen \cup page))
                /\ IF r.op = "listCodes" THEN r.offset + limit >= r.total
                                         ELSE Cardinality(page) < limit
             \/ n = Further(Turned(r, r.seen \cup page), r.offset + limit)
      PROVE  EndpointsInv'
  <2>1. PICK T : T = Scope(r)
    OBVIOUS
  <2>2. T \subseteq Rows /\ IsFiniteSet(T) /\ stored \in Tables
    BY <1>2, <2>1, ScopeRows DEF EndpointsInv, TypeOK, Tables
  <2>3. page \subseteq Present(T) /\ Cardinality(page) \in Nat
    BY <1>7, <2>1, <2>2, PageRows
  <2>4. PICK s \in SUBSET Rows : s = r.seen \cup page
    BY <1>2, <2>2, <2>3, PresentRows
  <2>5. PICK m : m = Turned(r, s)
    OBVIOUS
  <2>6. /\ m \in Call /\ AsAsked(m, r) /\ m.error = r.error
        /\ m.offset = r.offset /\ m.seen = s
    BY <1>2, <2>4, <2>5, TurnedFields
  <2>7. /\ n \in Call /\ AsAsked(n, m) /\ n.seen = s
        /\ \/ /\ n.pc = "done" /\ n.error = "ok" /\ n.status = "OK"
              /\ IF r.op = "listCodes" THEN r.offset + limit >= r.total
                                       ELSE Cardinality(page) < limit
           \/ n.pc = "sent" /\ n.offset = r.offset + limit /\ n.error = r.error
    <3>1. CASE /\ n = Finished(m)
               /\ IF r.op = "listCodes" THEN r.offset + limit >= r.total
                                        ELSE Cardinality(page) < limit
      <4>1. /\ n \in Call /\ AsAsked(n, m) /\ n.seen = m.seen
            /\ n.pc = "done" /\ n.error = "ok" /\ n.status = "OK"
        BY <2>6, <3>1, FinishedFields, ErrorsAndStatuses DEF Statuses
      <4> QED BY <3>1, <2>6, <4>1
    <3>2. CASE n = Further(m, r.offset + limit)
      <4>1. r.offset + limit \in Nat
        BY <1>2
      <4>2. /\ n \in Call /\ AsAsked(n, m) /\ n.seen = m.seen
            /\ n.pc = "sent" /\ n.offset = r.offset + limit /\ n.error = m.error
        BY <2>6, <3>2, <4>1, FurtherFields
      <4> QED BY <2>6, <4>2
    <3> QED BY <1>7, <2>4, <2>5, <3>1, <3>2
  <2>8. AsAsked(n, r)
    BY <2>6, <2>7, AskedStays
  <2>9. Holder(n)'
    BY <1>2, <1>3, <2>7, <2>8 DEF Holder, AsAsked
  <2>10. Fate(n)'
    <3>1. /\ Passed(r) /\ r.error = "" /\ r.op \in OpsOf[r.via] /\ Lists(r)
          /\ r.lacks \in PartsOf(r.op) \cup {""}
      BY <1>2, <1>3 DEF Fate, Lists
    <3>2. /\ Passed(n)' /\ n.op \in OpsOf[n.via] /\ n.op = r.op /\ n.via = r.via
          /\ n.lacks \in PartsOf(n.op) \cup {""}
      BY <1>3, <2>8, <3>1, PassedAsAsked DEF AsAsked
    <3>3. n.op # "createCode"
      BY <3>1, <3>2 DEF Lists
    <3>4. "OK" = StatusOf(n, "ok") /\ "ok" \in Outcomes(n.op)
      BY <3>3, ErrorsAndStatuses DEF StatusOf, Outcomes
    <3>5. r.error = ""
      BY <3>1
    <3> QED BY <2>7, <3>2, <3>4, <3>5 DEF Fate
  <2>11. Scanning(c, n)'
    <3> SUFFICES ASSUME Judged(c, n)'
                 PROVE  /\ n.start \subseteq Present(Scope(n))'
                        /\ n.pc = "sent" => Behind(n)'
                        /\ n.pc = "done" => Missed(n)' = {}
      BY <2>7 DEF Scanning
    <3>1. ~Tied(T) /\ c \notin disturbed
      BY <1>3, <2>1 DEF Judged
    <3>2. Judged(c, r) /\ Scope(n) = T /\ n.filter = r.filter /\ n.start = r.start
      BY <2>1, <2>8, <3>1 DEF Judged, Lists, AsAsked, Scope
    <3>3. n.start \subseteq Present(Scope(n))'
      <4>1. r.start \subseteq Present(T)
        BY <1>2, <2>1, <3>2 DEF Scanning
      <4> QED BY <1>3, <3>2, <4>1 DEF Present
    <3>4. ASSUME NEW x \in Missed(n)'
          PROVE  /\ r.offset + limit <= Cardinality(Ahead(x, T))
                 /\ r.op = "listCodes" => r.offset + limit < r.total
                 /\ r.op # "listCodes" => Cardinality(page) = limit
      <4>1. x \in Missed(r) /\ x \notin page
        BY <1>3, <2>4, <2>7, <3>2 DEF Missed, Matches
      <4>2. /\ r.pc \in {"admitted", "counted"} /\ (r.pc = "admitted" => r.op = "transactions")
            /\ ~Tied(Scope(r))
        BY <1>3, <2>1, <3>1
      <4> QED BY <1>1, <1>7, <2>1, <3>2, <4>1, <4>2, PageLeaves
    <3>5. ASSUME n.pc = "sent" PROVE Behind(n)'
      <4>1. \A x : Ahead(x, Scope(n))' = Ahead(x, T)
        BY <1>3, <3>2 DEF Ahead, Present
      <4> QED BY <2>7, <3>4, <3>5, <4>1 DEF Behind
    <3>6. ASSUME n.pc = "done" PROVE Missed(n)' = {}
      <4>1. r.offset \in Nat /\ r.total \in Nat
        BY <1>2, CallFields
      <4>2. IF r.op = "listCodes" THEN r.offset + limit >= r.total
                                  ELSE Cardinality(page) < limit
        BY <2>7, <3>6
      <4>3. \A x \in Missed(n)' : FALSE
        BY <2>3, <3>4, <4>1, <4>2
      <4> QED BY <4>3
    <3> QED BY <3>3, <3>5, <3>6
  <2> QED BY <1>4, <1>7, <2>7, <2>9, <2>10, <2>11, OneCall
<1>8. ASSUME NEW q \in NewestFirst(Scope(r)), NEW page,
             page = Filtered(PageOf(q, limit, r.offset), r.filter), NEW total,
             total = IF r.op = "listCodes" THEN r.total ELSE Cardinality(page),
             NEW m, m = Turned(r, r.seen \cup page),
             call' = [call EXCEPT ![c] =
                        IF IF r.op = "listCodes" THEN r.offset + limit >= total
                                                 ELSE total < limit
                        THEN [m EXCEPT !.pc = "done", !.error = "ok", !.status = "OK"]
                        ELSE [m EXCEPT !.pc = "sent", !.offset = r.offset + limit]]
      PROVE  EndpointsInv'
  <2>1. CASE IF r.op = "listCodes" THEN r.offset + limit >= total ELSE total < limit
    <3>1. PICK n : n = Finished(m)
      OBVIOUS
    <3>2. call' = [call EXCEPT ![c] = n]
      BY <1>8, <2>1, <3>1 DEF Finished
    <3>3. IF r.op = "listCodes" THEN r.offset + limit >= r.total
                                ELSE Cardinality(page) < limit
      BY <1>8, <2>1
    <3> QED BY <1>7, <1>8, <3>1, <3>2, <3>3
  <2>2. CASE ~IF r.op = "listCodes" THEN r.offset + limit >= total ELSE total < limit
    <3>1. PICK n : n = Further(m, r.offset + limit)
      OBVIOUS
    <3>2. call' = [call EXCEPT ![c] = n]
      BY <1>8, <2>2, <3>1 DEF Further
    <3> QED BY <1>7, <1>8, <3>1, <3>2
  <2> QED BY <2>1, <2>2
<1> QED
  <2>1. CASE ~End(c, "internal")
    <3>1. \E q \in NewestFirst(Scope(r)) :
             LET page  == Filtered(PageOf(q, limit, r.offset), r.filter)
                 total == IF r.op = "listCodes" THEN r.total ELSE Cardinality(page)
                 last  == IF r.op = "listCodes" THEN r.offset + limit >= total
                                                ELSE total < limit
                 shown == [r EXCEPT !.seen = r.seen \cup page, !.total = 0, !.since = 0]
             IN  call' = [call EXCEPT ![c] =
                   IF last
                   THEN [shown EXCEPT !.pc = "done", !.error = "ok", !.status = "OK"]
                   ELSE [shown EXCEPT !.pc = "sent", !.offset = r.offset + limit]]
      BY <1>1, <1>6, <2>1 DEF Select
    <3> QED BY <3>1, <1>8 DEF Turned
  <2> QED BY <1>5, <2>1

\* The record of a call that was not made is a call's.
LEMMA IdleCall == Idle \in Call /\ Idle.pc = "idle" /\ Idle.via = "user" /\ Idle.error = ""
                  /\ Idle.op = "balance" /\ Idle.code \in Codes /\ Idle.offset = 0
                  /\ Idle.lacks = ""
                  /\ "balance" \in OpsOf["user"]
<1>1. (CHOOSE u \in Users : TRUE) \in Users /\ (CHOOSE x \in Codes : TRUE) \in Codes
  BY EndpointsAssumption
<1>2. "balance" \in OpsOf["user"] /\ "user" \in Vias
  BY DEF OpsOf, Vias
<1>3. "balance" \in Ops
  <2>1. OpsOf["user"] \subseteq Ops
    BY <1>2 DEF Ops
  <2> QED BY <1>2, <2>1
<1>4. 0 \in 0..MaxTime /\ "" \in Filters
  BY ListingAssumption DEF Filters
<1>5. "" \in Errors /\ "" \in Statuses
  BY ErrorsAndStatuses
<1>6. Idle \in Call
  <2>1. PICK u \in Users : u = CHOOSE v \in Users : TRUE
    BY <1>1
  <2>2. PICK x \in Codes : x = CHOOSE v \in Codes : TRUE
    BY <1>1
  <2>3. Idle = [pc |-> "idle", via |-> "user", op |-> "balance", user |-> u,
                code |-> x, genuine |-> TRUE, expires |-> 0, listed |-> TRUE, named |-> TRUE,
                lacks |-> "", filter |-> "", since |-> 0, error |-> "", status |-> "",
                limit |-> 0, offset |-> 0, total |-> 0, start |-> {}, seen |-> {}]
    BY <2>1, <2>2 DEF Idle
  <2>4. {} \in SUBSET Rows /\ 0 \in Nat /\ 0 \in Int /\ "" \in Parts \cup {""}
    OBVIOUS
  <2> QED BY <1>2, <1>3, <1>4, <1>5, <2>3, <2>4 DEF Call
<1>7. Idle.pc = "idle" /\ Idle.via = "user" /\ Idle.error = "" /\ Idle.op = "balance"
      /\ Idle.offset = 0 /\ Idle.lacks = "" /\ Idle.code = CHOOSE x \in Codes : TRUE
  BY DEF Idle
<1>8. Idle.code \in Codes
  BY <1>1, <1>7
<1> QED BY <1>2, <1>6, <1>7, <1>8

\* What a call that comes from somewhere asks.
Asks(from, lacks, code, limit, filter) ==
  [from EXCEPT !.lacks = lacks, !.code = code, !.limit = limit, !.filter = filter]

Begun(r, s) == [r EXCEPT !.start = s]

Fresh(r) ==
  /\ r.pc = "sent" /\ r.error = ""
  /\ r.op \in OpsOf[r.via] /\ r.lacks \in PartsOf(r.op) \cup {""}
AtStart(r) == r.offset = 0

\* It has no error yet, its pages start with the first, and its token, if genuine,
\* was issued.
LEMMA AsksFields ==
  ASSUME NEW f \in Call, f.pc = "sent", f.error = "", f.offset = 0, f.op \in OpsOf[f.via],
         f.via = "user" /\ f.genuine => [user |-> f.user, expires |-> f.expires] \in issued,
         NEW lacks \in PartsOf(f.op) \cup {""}, lacks \in Parts \cup {""},
         NEW code \in Codes, NEW limit \in Int, NEW filter \in Filters,
         NEW r, r = Asks(f, lacks, code, limit, filter)
  PROVE  r \in Call /\ Fresh(r) /\ AtStart(r) /\ Holder(r)
<1>1. r \in Call
  BY DEF Call, Asks
<1>2. r.pc = f.pc /\ r.via = f.via /\ r.op = f.op /\ r.user = f.user /\ r.lacks = lacks
  BY DEF Call, Asks
<1>3. r.genuine = f.genuine /\ r.expires = f.expires
  BY DEF Call, Asks
<1>4. r.error = f.error /\ r.offset = f.offset
  BY DEF Call, Asks
<1>5. Fresh(r)
  BY <1>2, <1>4 DEF Fresh
<1>6. AtStart(r)
  BY <1>4 DEF AtStart
<1>7. Holder(r)
  BY <1>2, <1>3 DEF Holder
<1> QED BY <1>1, <1>5, <1>6, <1>7

\* The rows it finds.
LEMMA BegunFields ==
  ASSUME NEW r \in Call, NEW s \in SUBSET Rows, NEW n, n = Begun(r, s)
  PROVE  /\ n \in Call /\ n.start = s /\ Scope(n) = Scope(r) /\ (Lists(n) <=> Lists(r))
         /\ (Fresh(r) => Fresh(n)) /\ (AtStart(r) => AtStart(n)) /\ (Holder(r) => Holder(n))
<1>1. n \in Call /\ n.start = s
  BY DEF Call, Begun
<1>2. n.pc = r.pc /\ n.via = r.via /\ n.op = r.op /\ n.user = r.user
      /\ n.genuine = r.genuine /\ n.expires = r.expires /\ n.since = r.since
      /\ n.lacks = r.lacks
  BY DEF Call, Begun
<1>3. n.error = r.error /\ n.offset = r.offset
  BY DEF Call, Begun
<1>4. Scope(n) = Scope(r) /\ (Lists(n) <=> Lists(r))
  BY <1>2 DEF Scope, Lists
<1>5. Fresh(r) => Fresh(n)
  BY <1>2, <1>3 DEF Fresh
<1>6. AtStart(r) => AtStart(n)
  BY <1>3 DEF AtStart
<1>7. Holder(r) => Holder(n)
  BY <1>2 DEF Holder
<1> QED BY <1>1, <1>4, <1>5, <1>6, <1>7

\* A call that is made keeps the invariant: its token, if genuine, was issued, and
\* nothing was shown yet.
LEMMA BegunKeeps ==
  ASSUME EndpointsInv, stored' = stored, now' = now, config' = config, issued' = issued,
         disturbed' = disturbed, NEW c \in Calls,
         NEW r \in Call, Fresh(r), AtStart(r), Holder(r),
         NEW s \in SUBSET Rows, Lists(r) => s = Present(Scope(r)),
         call' = [call EXCEPT ![c] = Begun(r, s)]
  PROVE  EndpointsInv'
<1>1. disturbed \subseteq Calls /\ stored \in Tables
  BY DEF EndpointsInv, TypeOK, Tables
<1>2. Around
  BY <1>1, StillAround
<1>3. Scope(r) \subseteq Rows /\ IsFiniteSet(Scope(r))
  BY ScopeRows
<1>4. PICK n : n = Begun(r, s)
  OBVIOUS
<1>5. /\ n \in Call /\ n.start = s /\ Scope(n) = Scope(r) /\ (Lists(n) <=> Lists(r))
      /\ Fresh(n) /\ AtStart(n) /\ Holder(n)
  BY <1>4, BegunFields
<1>6. Holder(n)'
  BY <1>5 DEF Holder
<1>7. Fate(n)'
  BY <1>5 DEF Fate, Fresh
<1>8. Scanning(c, n)'
  <2> SUFFICES ASSUME Judged(c, n)'
               PROVE  n.start \subseteq Present(Scope(n))' /\ Behind(n)'
    BY <1>5 DEF Scanning, Fresh
  <2>1. Lists(n) /\ Lists(r)
    BY <1>5 DEF Judged
  <2>2. n.start = Present(Scope(r))
    BY <1>5, <2>1
  <2>3. ASSUME NEW x PROVE 0 <= Cardinality(Ahead(x, Scope(r)))
    <3>1. PICK k \in Nat : k = Cardinality(Ahead(x, Scope(r)))
      BY <1>1, <1>3, PresentRows
    <3>2. 0 <= k
      OBVIOUS
    <3> QED BY <3>1, <3>2
  <2>4. \A x : Ahead(x, Scope(n))' = Ahead(x, Scope(r))
    BY <1>5 DEF Ahead, Present
  <2>5. Present(Scope(n))' = Present(Scope(r))
    BY <1>5 DEF Present
  <2> QED BY <1>5, <2>2, <2>3, <2>4, <2>5 DEF Behind, AtStart
<1> QED BY <1>2, <1>4, <1>5, <1>6, <1>7, <1>8, OneCall

\* What a client may send is a call's.
LEMMA AskedParts ==
  ASSUME NEW op \in Ops, NEW parts, parts \subseteq PartsOf(op)
  PROVE  /\ parts \subseteq Parts
         /\ \A limit \in IF "limit" \in parts THEN Limits ELSE {0} : limit \in Int
         /\ \A filter \in IF "limit" \in parts THEN Asked ELSE {""} : filter \in Filters
         /\ \A code \in IF "code" \in parts THEN Codes ELSE {Idle.code} : code \in Codes
<1>2. parts \subseteq Parts
  BY DEF Parts
<1>3. Limits \subseteq Int /\ Asked \subseteq Filters /\ "" \in Filters
  BY EndpointsAssumption DEF Filters
<1>4. Idle.code \in Codes
  BY IdleCall
<1>5. ASSUME NEW limit \in IF "limit" \in parts THEN Limits ELSE {0} PROVE limit \in Int
  <2>1. limit \in Limits => limit \in Int
    BY <1>3
  <2>2. 0 \in Int
    OBVIOUS
  <2> QED BY <2>1, <2>2, Zenon
<1>6. ASSUME NEW filter \in IF "limit" \in parts THEN Asked ELSE {""}
      PROVE  filter \in Filters
  BY <1>3
<1>7. ASSUME NEW code \in IF "code" \in parts THEN Codes ELSE {Idle.code}
      PROVE  code \in Codes
  BY <1>4
<1> QED BY <1>2, <1>5, <1>6, <1>7

\* Tokens expire at some second.
LEMMA Expiries ==
  ASSUME issued \subseteq [user : Users, expires : Nat]
  PROVE  \A x \in {0} \cup {t.expires : t \in issued} : x \in Nat
<1>1. \A t \in issued : t.expires \in Nat
  OBVIOUS
<1> QED BY <1>1

\* Send
LEMMA SendKeeps ==
  ASSUME EndpointsInv, NEW c \in Calls, Send(c)
  PROVE  EndpointsInv'
<1>1. call \in [Calls -> Call] /\ issued \subseteq [user : Users, expires : Nat]
      /\ disturbed \subseteq Calls /\ stored \in Tables
  BY DEF EndpointsInv, TypeOK, Tables
<1>2. stored' = stored /\ now' = now /\ config' = config /\ issued' = issued
      /\ disturbed' = disturbed
  BY DEF Send
<1>3. \E r \in Call : /\ Fresh(r) /\ AtStart(r) /\ Holder(r)
                      /\ call' = [call EXCEPT ![c] =
                           Begun(r, IF Lists(r) THEN Present(Scope(r)) ELSE {})]
  <2>4. PICK via \in Vias, op \in Ops, user \in Users, genuine \in BOOLEAN,
             listed \in BOOLEAN, named \in BOOLEAN,
             expires \in {0} \cup {t.expires : t \in issued} :
          /\ op \in OpsOf[via]
          /\ ~listed => genuine /\ config.restricted
          /\ listed => named
          /\ IF via = "user"
             THEN listed /\ genuine = ([user |-> user, expires |-> expires] \in issued)
             ELSE expires = 0
          /\ LET from   == [Idle EXCEPT !.pc = "sent", !.via = via, !.op = op, !.user = user,
                              !.genuine = genuine, !.expires = expires, !.listed = listed,
                              !.named = named]
                 heeded == genuine /\ (via = "user" \/ (config.enabled /\ Allowed(from)))
                 parts  == IF heeded THEN PartsOf(op) ELSE {}
             IN
             \E lacks  \in parts \cup {""},
                code   \in IF "code" \in parts THEN Codes ELSE {Idle.code},
                limit  \in IF "limit" \in parts THEN Limits ELSE {0},
                filter \in IF "limit" \in parts THEN Asked ELSE {""} :
               LET r == [from EXCEPT !.lacks = lacks, !.code = code, !.limit = limit,
                                     !.filter = filter]
               IN  /\ lacks = "user" => via # "user"
                   /\ lacks = "limit" => limit = 0
                   /\ call' = [call EXCEPT ![c] =
                        [r EXCEPT !.start = IF Lists(r) THEN Present(Scope(r)) ELSE {}]]
    BY DEF Send
  <2> DEFINE from == [Idle EXCEPT !.pc = "sent", !.via = via, !.op = op, !.user = user,
                        !.genuine = genuine, !.expires = expires, !.listed = listed,
                        !.named = named]
             parts == IF genuine /\ (via = "user" \/ (config.enabled /\ Allowed(from)))
                      THEN PartsOf(op) ELSE {}
  <2>5. PICK lacks  \in parts \cup {""},
             code   \in IF "code" \in parts THEN Codes ELSE {Idle.code},
             limit  \in IF "limit" \in parts THEN Limits ELSE {0},
             filter \in IF "limit" \in parts THEN Asked ELSE {""} :
               LET r == [from EXCEPT !.lacks = lacks, !.code = code, !.limit = limit,
                                     !.filter = filter]
               IN  /\ lacks = "user" => via # "user"
                   /\ lacks = "limit" => limit = 0
                   /\ call' = [call EXCEPT ![c] =
                        [r EXCEPT !.start = IF Lists(r) THEN Present(Scope(r)) ELSE {}]]
    BY <2>4
  <2>6. parts \subseteq PartsOf(op)
    OBVIOUS
  <2>7. op \in OpsOf[via] /\ (via = "user" /\ genuine => [user |-> user, expires |-> expires] \in issued)
    BY <2>4
  <2> HIDE DEF from, parts
  <2>8. PICK f : f = from
    OBVIOUS
  <2>9. PICK r : r = Asks(f, lacks, code, limit, filter)
    OBVIOUS
  <2>10. call' = [call EXCEPT ![c] = Begun(r, IF Lists(r) THEN Present(Scope(r)) ELSE {})]
    BY <2>5, <2>8, <2>9 DEF Asks, Begun
  <2>11. /\ lacks \in Parts \cup {""} /\ lacks \in PartsOf(op) \cup {""}
         /\ code \in Codes /\ limit \in Int /\ filter \in Filters /\ expires \in Nat
    BY <1>1, <2>6, AskedParts, Expiries
  <2>12. /\ f \in Call /\ f.pc = "sent" /\ f.via = via /\ f.op = op /\ f.user = user
         /\ f.genuine = genuine /\ f.expires = expires /\ f.error = "" /\ f.offset = 0
    <3>1. Idle \in Call /\ Idle.error = "" /\ Idle.offset = 0
      BY IdleCall
    <3>2. f \in Call
      <4>1. PICK g : g = [Idle EXCEPT !.pc = "sent", !.via = via, !.op = op, !.user = user]
        OBVIOUS
      <4>2. g \in Call
        BY <3>1, <4>1 DEF Call
      <4>3. f = [g EXCEPT !.genuine = genuine, !.expires = expires, !.listed = listed,
                          !.named = named]
        BY <2>8, <4>1 DEF from
      <4> QED BY <2>11, <4>2, <4>3 DEF Call
    <3>3. f.pc = "sent" /\ f.via = via /\ f.op = op /\ f.user = user
      BY <2>8, <3>1 DEF Call, from
    <3>4. f.genuine = genuine /\ f.expires = expires
      BY <2>8, <3>1 DEF Call, from
    <3>5. f.error = "" /\ f.offset = 0
      BY <2>8, <3>1 DEF Call, from
    <3> QED BY <3>2, <3>3, <3>4, <3>5
  <2>13. f.op \in OpsOf[f.via]
    BY <2>7, <2>12
  <2>14. r \in Call /\ Fresh(r) /\ AtStart(r) /\ Holder(r)
    BY <2>7, <2>9, <2>11, <2>12, <2>13, AsksFields
  <2> QED BY <2>10, <2>14, Zenon
<1>4. PICK r \in Call : /\ Fresh(r) /\ AtStart(r) /\ Holder(r)
                       /\ call' = [call EXCEPT ![c] =
                            Begun(r, IF Lists(r) THEN Present(Scope(r)) ELSE {})]
  BY <1>3
<1>5. PICK s \in SUBSET Rows : /\ Lists(r) => s = Present(Scope(r))
                               /\ call' = [call EXCEPT ![c] = Begun(r, s)]
  <2>1. Present(Scope(r)) \in SUBSET Rows
    BY <1>1, ScopeRows, PresentRows
  <2>2. CASE Lists(r)
    BY <1>4, <2>1, <2>2
  <2>3. CASE ~Lists(r)
    <3>1. {} \in SUBSET Rows
      OBVIOUS
    <3> QED BY <1>4, <2>3, <3>1
  <2> QED BY <2>2, <2>3
<1> QED BY <1>2, <1>4, <1>5, BegunKeeps

\* Tick: no token lives longer for it.
LEMMA TickKeeps ==
  ASSUME EndpointsInv, Tick
  PROVE  EndpointsInv'
<1>1. /\ stored' = stored /\ config' = config /\ issued' = issued /\ call' = call
      /\ disturbed' = disturbed /\ now' = now + 1 /\ now < MaxTime
  BY DEF Tick
<1>2. /\ stored \in Tables /\ disturbed \subseteq Calls /\ now \in StartTime..MaxTime
      /\ issued \subseteq [user : Users, expires : Nat] /\ Tokens
  BY DEF EndpointsInv, TypeOK, Tables
<1>3. now' \in StartTime..MaxTime
  BY <1>1, <1>2, ListingAssumption
<1>4. Tokens'
  <2>1. ASSUME NEW t \in issued PROVE t.expires <= now' + Lifetime
    <3>1. t.expires <= now + Lifetime /\ t.expires \in Nat
      BY <1>2 DEF Tokens
    <3>2. now \in Nat /\ Lifetime \in Nat
      BY <1>2, ListingAssumption, EndpointsAssumption
    <3> QED BY <1>1, <3>1, <3>2
  <2> QED BY <1>1, <2>1 DEF Tokens
<1>5. TablesMove
  BY <1>1 DEF TablesMove
<1>6. Around
  BY <1>1, <1>2, <1>3, <1>4, <1>5 DEF Around
<1> QED BY <1>1, <1>6, NoCall

-----------------------------------------------------------------------------
(* The invariant holds *)

\* In the beginning nobody calls.
LEMMA InitHolds ==
  ASSUME Init
  PROVE  EndpointsInv
<1>1. stored \in [Rows -> Stored \cup {NoRow}] /\ now \in StartTime..MaxTime
  BY ListingAssumption DEF Init
<1>2. issued = {} /\ disturbed = {} /\ config \in Configs /\ call = [c \in Calls |-> Idle]
  BY DEF Init
<1>3. TypeOK
  BY <1>1, <1>2, IdleCall DEF TypeOK
<1>4. Tokens
  BY <1>2 DEF Tokens
<1>5. ASSUME NEW c \in Calls
      PROVE  Holder(call[c]) /\ Fate(call[c]) /\ Scanning(c, call[c])
  <2>1. PICK r : r = call[c]
    OBVIOUS
  <2>2. r = Idle
    BY <1>2, <2>1
  <2>3. r.pc = "idle" /\ r.via = "user" /\ r.error = "" /\ r.op = "balance"
        /\ "balance" \in OpsOf["user"] /\ r.lacks = ""
    BY <2>2, IdleCall
  <2>4. Holder(r)
    BY <2>3 DEF Holder
  <2>5. Fate(r)
    BY <2>3 DEF Fate
  <2>6. Scanning(c, r)
    BY <2>3 DEF Scanning, Judged, Lists
  <2> QED BY <2>1, <2>4, <2>5, <2>6
<1> QED BY <1>2, <1>3, <1>4, <1>5 DEF EndpointsInv

\* Every step keeps the invariant.
LEMMA NextKeeps ==
  ASSUME EndpointsInv, [Next]_vars
  PROVE  EndpointsInv'
<1>1. CASE UNCHANGED vars
  <2>1. /\ stored' = stored /\ now' = now /\ config' = config /\ issued' = issued
        /\ disturbed' = disturbed /\ call' = call /\ disturbed \subseteq Calls
    BY <1>1 DEF vars, EndpointsInv, TypeOK
  <2> QED BY <2>1, StillAround, NoCall
<1>2. CASE Tick
  BY <1>2, TickKeeps
<1>3. CASE Quiescent
  BY <1>1, <1>3 DEF Quiescent
<1>4. ASSUME NEW c \in Calls, Send(c) \/ Step(c)
      PROVE  EndpointsInv'
  <2>1. CASE Send(c)
    BY <2>1, SendKeeps
  <2>2. CASE Admit(c)
    BY <2>2, AdmitKeeps
  <2>3. CASE Transact(c)
    BY <2>3, TransactKeeps
  <2>4. CASE CreateCode(c)
    BY <2>4, CreateCodeKeeps
  <2>5. CASE DeleteCode(c)
    BY <2>5, DeleteCodeKeeps
  <2>6. CASE Look(c)
    BY <2>6, LookKeeps
  <2>7. CASE GenerateToken(c)
    BY <2>7, GenerateTokenKeeps
  <2>8. CASE Count(c)
    BY <2>8, CountKeeps
  <2>9. CASE Select(c)
    BY <2>9, SelectKeeps
  <2>10. CASE RecordPart(c)
    BY <2>10, RecordPartKeeps
  <2> QED BY <1>4, <2>1, <2>2, <2>3, <2>4, <2>5, <2>6, <2>7, <2>8, <2>9, <2>10 DEF Step
<1> QED BY <1>1, <1>2, <1>3, <1>4 DEF Next

\* The invariant holds throughout every run of the interfaces.
THEOREM EndpointsAlways == Spec => []EndpointsInv
<1>1. Init => EndpointsInv
  BY InitHolds
<1>2. EndpointsInv /\ [Next]_vars => EndpointsInv'
  BY NextKeeps
<1> QED BY <1>1, <1>2, PTL DEF Spec

-----------------------------------------------------------------------------
(* What it gives *)

\* The tables, the clock, the tokens and every call keep their types.
THEOREM EndpointsTypeCorrect == Spec => []TypeOK
<1>1. EndpointsInv => TypeOK
  BY DEF EndpointsInv
<1> QED BY <1>1, EndpointsAlways, PTL

\* Whoever reaches a use case over the user API holds a token that the administration
\* issued for that user, no longer than its lifetime ago.
THEOREM TokensHeld == Spec => []UserHoldsToken
<1>1. EndpointsInv => UserHoldsToken
  BY DEF EndpointsInv, Holder, UserHoldsToken
<1> QED BY <1>1, EndpointsAlways, PTL

\* A client that turns all pages sees every row that was there when it began, for any
\* number of rows, any page size and any interleaving with the writers.
THEOREM ScansComplete == Spec => []ScanSeesEverything
<1>1. ASSUME EndpointsInv PROVE ScanSeesEverything
  <2> SUFFICES ASSUME NEW c \in Calls \ disturbed,
                      Lists(call[c]), call[c].pc = "done", call[c].error = "ok",
                      call[c].op = "transactions" =>
                        call[c].filter \notin {"grant", "consume"},
                      NEW x \in call[c].start, Matches(x, call[c].filter)
               PROVE  x \in call[c].seen
    BY DEF ScanSeesEverything
  <2>1. Judged(c, call[c])
    BY DEF Judged
  <2>2. Missed(call[c]) = {}
    BY <1>1, <2>1 DEF EndpointsInv, Scanning
  <2> QED BY <2>2 DEF Missed
<1> QED BY <1>1, EndpointsAlways, PTL

\* An outcome is answered alike on both interfaces, for what both offer.
LEMMA OutcomesAlike ==
  ASSUME NEW r, NEW g, r.via = "admin", g.via = "grpc", r.op = g.op,
         r.op \in OpsOf["admin"], g.op \in OpsOf["grpc"],
         NEW e \in Outcomes(r.op)
  PROVE  Alike(StatusOf(r, e), StatusOf(g, e))
<1>1. r.op \in {"balance", "grant", "consume", "transactions"}
  BY DEF OpsOf
<1>2. e \in {"ok", "internal", "invalidAmount", "insufficientBalance", "currencyNotFound"}
  BY <1>1 DEF Outcomes, ErrorsOf
<1>3. {"ok", "internal", "invalidAmount", "insufficientBalance", "currencyNotFound"}
        \subseteq Errors
  <2>1. ErrorsOf("consume") \subseteq Errors
    <3>1. "consume" \in OpsOf["admin"] /\ "admin" \in Vias
      BY DEF OpsOf, Vias
    <3>2. OpsOf["admin"] \subseteq Ops
      BY <3>1 DEF Ops
    <3> QED BY <3>1, <3>2, ErrorsAndStatuses
  <2>2. {"invalidAmount", "insufficientBalance", "currencyNotFound"} \subseteq ErrorsOf("consume")
    BY DEF ErrorsOf
  <2> QED BY <2>1, <2>2, ErrorsAndStatuses
<1>4. /\ e = "ok" => StatusOf(r, e) = "OK" /\ StatusOf(g, e) = "OK"
      /\ e = "internal" => StatusOf(r, e) = "InternalServerError" /\ StatusOf(g, e) = "Internal"
      /\ e = "invalidAmount" => StatusOf(r, e) = "BadRequest" /\ StatusOf(g, e) = "InvalidArgument"
      /\ e = "insufficientBalance" =>
           StatusOf(r, e) = "Conflict" /\ StatusOf(g, e) = "FailedPrecondition"
      /\ e = "currencyNotFound" => StatusOf(r, e) = "NotFound" /\ StatusOf(g, e) = "NotFound"
  <2>1. r.op # "createCode"
    BY <1>1
  <2>2. e = "ok" => StatusOf(r, e) = "OK" /\ StatusOf(g, e) = "OK"
    BY <2>1, ErrorsAndStatuses DEF StatusOf
  <2>3. e # "ok" => StatusOf(r, e) = RestStatus[e] /\ StatusOf(g, e) = GrpcStatus[e]
    BY DEF StatusOf
  <2>4. /\ RestStatus["internal"] = "InternalServerError" /\ GrpcStatus["internal"] = "Internal"
        /\ RestStatus["invalidAmount"] = "BadRequest"
        /\ GrpcStatus["invalidAmount"] = "InvalidArgument"
        /\ RestStatus["insufficientBalance"] = "Conflict"
        /\ GrpcStatus["insufficientBalance"] = "FailedPrecondition"
        /\ RestStatus["currencyNotFound"] = "NotFound"
        /\ GrpcStatus["currencyNotFound"] = "NotFound"
    BY <1>3 DEF RestStatus, GrpcStatus
  <2> QED BY <2>2, <2>3, <2>4
<1>5. /\ {"OK"} \in Same /\ {"BadRequest", "InvalidArgument"} \in Same
      /\ {"NotFound"} \in Same /\ {"Conflict", "FailedPrecondition"} \in Same
      /\ {"InternalServerError", "Internal"} \in Same
  BY DEF Same
<1> QED BY <1>2, <1>4, <1>5 DEF Alike

\* Who is turned away on one interface is turned away alike on the other.
LEMMA AwayAlike ==
  ASSUME NEW r, NEW g, r.via = "admin", g.via = "grpc", r.genuine = g.genuine,
         r.op = g.op, g.op \in OpsOf["grpc"], Allowed(r) <=> Allowed(g),
         TurnedAway(r), TurnedAway(g)
  PROVE  Alike(r.status, g.status)
<1>1. r.op \notin {"deleteCode", "getCode"}
  BY DEF OpsOf
<1>2. /\ Forbidden(r.via) = "Forbidden" /\ Forbidden(g.via) = "PermissionDenied"
      /\ Unknown(r.via) = "Unauthorized" /\ Unknown(g.via) = "Unauthenticated"
      /\ Refusal(r) = "BadRequest" /\ Refusal(g) = "InvalidArgument"
  BY <1>1 DEF Forbidden, Unknown, Refusal, BadRequest
<1>3. \/ r.status = "Forbidden" /\ g.status = "PermissionDenied"
      \/ r.status = "Unauthorized" /\ g.status = "Unauthenticated"
      \/ r.status = "BadRequest" /\ g.status = "InvalidArgument"
  BY <1>2 DEF TurnedAway
<1>4. /\ {"Forbidden", "PermissionDenied"} \in Same /\ {"Unauthorized", "Unauthenticated"} \in Same
      /\ {"BadRequest", "InvalidArgument"} \in Same
  BY DEF Same
<1> QED BY <1>3, <1>4 DEF Alike

\* A limit in range is neither too small nor too large.
LEMMA InRange ==
  ASSUME NEW k, k \in 1..MaxLimit
  PROVE  ~(k <= 0) /\ ~(k > MaxLimit)
BY ListingAssumption

\* Except for the checks that differ, both handlers refuse a request or neither does.
LEMMA RefusedAlike ==
  ASSUME NEW r, NEW g, r.via = "admin", g.via = "grpc", Fate(r), Fate(g),
         r.op = g.op, r.lacks = g.lacks, ~ChecksDiffer(r)
  PROVE  Refused(r) <=> Refused(g)
<1>0. /\ r.op \in OpsOf["admin"] /\ r.op \in OpsOf["grpc"]
      /\ r.lacks \in PartsOf(r.op) \cup {""} /\ r.lacks # "type"
  BY DEF Fate, ChecksDiffer
<1>1. r.op \in {"balance", "grant", "consume", "transactions"}
  BY <1>0 DEF OpsOf
<1>2. r.lacks \in {"", "user", "amount", "metadata", "limit"}
  BY <1>0, <1>1 DEF PartsOf
<1>3. Lists(r) => r.op = "transactions"
  BY <1>1 DEF Lists
<1>4. CASE r.lacks \in {"user", "amount"}
  BY <1>4 DEF Refused, GrpcRefuses, RestRefuses
<1>5. CASE r.lacks \in {"", "metadata", "limit"}
  <2>1. ~Refused(g)
    BY <1>5 DEF Refused, GrpcRefuses
  <2>2. r.op = "transactions" /\ r.lacks # "limit" => ~(r.limit <= 0) /\ ~(r.limit > MaxLimit)
    BY InRange DEF ChecksDiffer
  <2>3. ~Refused(r)
    BY <1>3, <1>5, <2>2 DEF Refused, RestRefuses
  <2> QED BY <2>1, <2>3
<1> QED BY <1>2, <1>4, <1>5

\* So two calls that ask the same, and whose use cases do not disagree, are answered alike.
LEMMA AnsweredAlike ==
  ASSUME NEW r \in Call, NEW g \in Call, Fate(r), Fate(g),
         r.pc = "done", g.pc = "done", r.via = "admin", g.via = "grpc",
         r.op = g.op, r.genuine = g.genuine, Allowed(r) <=> Allowed(g),
         Refused(r) <=> Refused(g),
         r.error = g.error \/ r.error = "" \/ g.error = ""
  PROVE  Alike(r.status, g.status)
<1>1. Allowed(r) <=> Allowed(g)
  OBVIOUS
<1>2. /\ \/ r.error = "" /\ TurnedAway(r)
         \/ r.error \in Outcomes(r.op) /\ Passed(r) /\ r.status = StatusOf(r, r.error)
      /\ \/ g.error = "" /\ TurnedAway(g)
         \/ g.error \in Outcomes(g.op) /\ Passed(g) /\ g.status = StatusOf(g, g.error)
      /\ r.op \in OpsOf["admin"] /\ g.op \in OpsOf["grpc"]
  BY DEF Fate
<1>3. CASE TurnedAway(r) /\ TurnedAway(g)
  BY <1>2, <1>3, AwayAlike
<1>4. ~(TurnedAway(r) /\ Passed(g))
  BY <1>1 DEF TurnedAway, Passed
<1>5. ~(Passed(r) /\ TurnedAway(g))
  BY <1>1 DEF TurnedAway, Passed
<1>6. CASE /\ r.error \in Outcomes(r.op) /\ r.status = StatusOf(r, r.error)
           /\ g.error \in Outcomes(g.op) /\ g.status = StatusOf(g, g.error)
  <2>1. r.error # "" /\ g.error # ""
    BY <1>6, OutcomesHaveStatus
  <2>2. PICK e : e = r.error /\ e = g.error
    BY <2>1
  <2>3. e \in Outcomes(r.op) /\ r.status = StatusOf(r, e) /\ g.status = StatusOf(g, e)
    BY <1>6, <2>2
  <2>4. Alike(StatusOf(r, e), StatusOf(g, e))
    BY <1>2, <2>3, OutcomesAlike
  <2> QED BY <2>3, <2>4
<1> QED BY <1>2, <1>3, <1>4, <1>5, <1>6

\* But for the three checks in which the interfaces differ, the administration is
\* answered alike on both, whatever its question has or lacks, whatever errors the use
\* cases end in, and whatever the settings are.
THEOREM SameAnswers == Spec => []SameAnswerOnBoth
<1>1. ASSUME EndpointsInv PROVE SameAnswerOnBoth
  <2> SUFFICES ASSUME NEW c \in Calls, NEW d \in Calls,
                      AskedOnBoth(call[c], call[d]), ~ChecksDiffer(call[c])
               PROVE  Alike(call[c].status, call[d].status)
    BY DEF SameAnswerOnBoth
  <2>1. PICK r, g : r = call[c] /\ g = call[d]
    OBVIOUS
  <2>2. r \in Call /\ g \in Call /\ Fate(r) /\ Fate(g)
    BY <1>1, <2>1 DEF EndpointsInv, TypeOK
  <2>3. /\ r.pc = "done" /\ g.pc = "done" /\ r.via = "admin" /\ g.via = "grpc"
        /\ r.op = g.op /\ r.genuine = g.genuine /\ r.listed = g.listed
        /\ r.named = g.named /\ r.lacks = g.lacks
        /\ r.error = g.error \/ r.error = "" \/ g.error = ""
    BY <2>1 DEF AskedOnBoth
  <2>4. ~ChecksDiffer(r)
    BY <2>1
  <2>5. Refused(r) <=> Refused(g)
    BY <2>2, <2>3, <2>4, RefusedAlike
  <2>6. Allowed(r) <=> Allowed(g)
    BY <2>3, <2>4 DEF Allowed, ChecksDiffer
  <2> QED BY <2>1, <2>2, <2>3, <2>5, <2>6, AnsweredAlike
<1> QED BY <1>1, EndpointsAlways, PTL

=============================================================================
