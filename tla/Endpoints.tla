-------------------------------- MODULE Endpoints ------------------------------
(***************************************************************************)
(* The REST and gRPC interfaces: a call is admitted by token or API key,     *)
(* its parts are checked, one use case runs, and its error becomes a status. *)
(* What the use cases do to balances is in the modules of the services; here *)
(* they end in any of their errors and list, add or delete rows.             *)
(*                                                                         *)
(* A call that lists rows stands for a client that turns page after page,    *)
(* each an HTTP request or RPC of its own that is admitted anew.             *)
(***************************************************************************)
EXTENDS Listing

CONSTANTS
  Calls,      \* what clients ask for
  Lifetime,   \* jwt.Expiration in seconds
  Configs,    \* settings of the administration API
  Limits,     \* limits clients ask for
  Asked       \* types clients filter by

ASSUME EndpointsAssumption ==
  /\ Users # {} /\ Codes # {}
  /\ Lifetime \in Nat /\ Limits \subseteq Int /\ Asked \subseteq Filters
  /\ Configs \subseteq [enabled : BOOLEAN, restricted : BOOLEAN]

VARIABLES
  config,     \* [enabled, restricted]: AdminAPI.Enabled, AllowedIPs not empty
  issued,     \* tokens handed out
  call,       \* the state of every call
  disturbed   \* auxiliary: scans whose pages may not fit together, or to the rows

vars == <<stored, now, config, issued, call, disturbed>>

Vias == {"user", "admin", "grpc"}

OpsOf == [user  |-> {"balance", "transactions", "payment", "redeem"},
          admin |-> {"issueToken", "balance", "grant", "consume", "transactions",
                     "createCode", "deleteCode", "getCode", "listCodes"},
          grpc  |-> {"balance", "grant", "consume", "payment", "redeem", "transactions"}]

Ops == UNION {OpsOf[v] : v \in Vias}

\* The parts of a request; a call lacks at most one of them or has it wrong.
PartsOf(op) ==
  CASE op \in {"grant", "consume"}      -> {"user", "amount", "type", "metadata"}
    [] op = "payment"                   -> {"user", "amount", "paymentId"}
    [] op = "redeem"                    -> {"user", "code"}
    [] op = "createCode"                -> {"code", "date", "amount"}
    [] op \in {"deleteCode", "getCode"} -> {"code"}
    [] op = "transactions"              -> {"user", "limit"}
    [] op = "listCodes"                 -> {"limit"}
    [] OTHER                            -> {"user"}

Parts == UNION {PartsOf(op) : op \in Ops}

\* The errors a use case may end in; "internal" is any other.
ErrorsOf(op) ==
  CASE op = "grant"      -> {"invalidAmount"}
    [] op = "consume"    -> {"invalidAmount", "insufficientBalance", "currencyNotFound"}
    [] op = "payment"    -> {"insufficientBalance", "currencyNotFound",
                             "transactionNotFound", "alreadyProcessed"}
    [] op = "redeem"     -> {"codeNotFound", "codeNotRedeemable", "userAlreadyRedeemed"}
    [] op = "deleteCode" -> {"codeNotFound", "codeCannotBeDeleted"}
    [] op = "getCode"    -> {"codeNotFound"}
    [] OTHER             -> {}

Errors == (UNION {ErrorsOf(op) : op \in Ops})
            \cup {"", "ok", "internal", "codeAlreadyExists"}

-----------------------------------------------------------------------------
(* Statuses *)

RestStatus == [e \in Errors |->
  CASE e = "ok" -> "OK"
    [] e \in {"insufficientBalance", "alreadyProcessed", "codeAlreadyExists",
              "codeCannotBeDeleted"} -> "Conflict"
    [] e \in {"invalidAmount", "codeNotRedeemable", "userAlreadyRedeemed"} -> "BadRequest"
    [] e \in {"currencyNotFound", "transactionNotFound", "codeNotFound"} -> "NotFound"
    [] OTHER -> "InternalServerError"]

GrpcStatus == [e \in Errors |->
  CASE e = "ok" -> "OK"
    [] e \in {"insufficientBalance", "alreadyProcessed"} -> "FailedPrecondition"
    [] e \in {"invalidAmount", "codeNotRedeemable"} -> "InvalidArgument"
    [] e = "userAlreadyRedeemed" -> "AlreadyExists"
    [] e \in {"currencyNotFound", "transactionNotFound", "codeNotFound"} -> "NotFound"
    [] OTHER -> "Internal"]

BadRequest(via) == IF via = "grpc" THEN "InvalidArgument" ELSE "BadRequest"
Unknown(via)    == IF via = "grpc" THEN "Unauthenticated" ELSE "Unauthorized"
Forbidden(via)  == IF via = "grpc" THEN "PermissionDenied" ELSE "Forbidden"

Statuses == {"", "Created"} \cup {RestStatus[e] : e \in Errors} \cup {GrpcStatus[e] : e \in Errors}
              \cup UNION {{BadRequest(v), Unknown(v), Forbidden(v)} : v \in Vias}

-----------------------------------------------------------------------------

Call == [pc : {"idle", "sent", "admitted", "counted", "done"},
         via : Vias, op : Ops, user : Users, code : Codes,
         genuine : BOOLEAN,          \* is the token or the API key a right one?
         expires : Nat,              \* exp of the token
         listed : BOOLEAN,           \* is the address it comes from in AllowedIPs?
         named : BOOLEAN,            \* does a forwarding header name that address?
         lacks : Parts \cup {""},
         filter : Filters,
         since : 0..MaxTime,         \* when it was admitted, while it runs
         error : Errors, status : Statuses,
         limit : Int, offset : Nat,  \* the page it asks for
         total : Nat,                \* what COUNT(*) said
         start : SUBSET Rows,        \* auxiliary: listed rows when the scan began
         seen : SUBSET Rows]         \* what its pages showed

Idle == [pc |-> "idle", via |-> "user", op |-> "balance", user |-> CHOOSE u \in Users : TRUE,
         code |-> CHOOSE c \in Codes : TRUE, genuine |-> TRUE, expires |-> 0,
         listed |-> TRUE, named |-> TRUE, lacks |-> "", filter |-> "", since |-> 0,
         error |-> "", status |-> "", limit |-> 0, offset |-> 0, total |-> 0, start |-> {}, seen |-> {}]

Init ==
  /\ stored \in Seeds
  /\ now = StartTime
  /\ config \in Configs
  /\ issued = {}
  /\ call = [c \in Calls |-> Idle]
  /\ disturbed = {}

Lists(r) == r.op \in {"transactions", "listCodes"}
Scope(r) == IF r.op = "listCodes" THEN Codes ELSE History(r.user)
Moves(r) == r.op \in {"grant", "consume", "payment", "redeem"}

Answer(c, status) ==
  call' = [call EXCEPT ![c].pc = "done", ![c].status = status]

\* Mutant: an internal error is not answered but tried again.
EndTriesAgain(c, e) ==
  call' = [call EXCEPT ![c] =
    IF e = "internal" THEN [@ EXCEPT !.pc = "sent", !.since = 0]
    ELSE [@ EXCEPT !.pc = "done", !.since = 0, !.error = e, !.status = RestStatus[e]]]

End(c, e) ==
  LET r == call[c]
      ok == IF r.op = "createCode" THEN "Created" ELSE "OK"
  IN  call' = [call EXCEPT ![c].pc = "done", ![c].error = e, ![c].since = 0,
                 ![c].status = IF r.via = "grpc" THEN GrpcStatus[e]
                               ELSE IF e = "ok" THEN ok ELSE RestStatus[e]]

-----------------------------------------------------------------------------
(* What decides about a call before its use case *)

\* Mutant: exp is not looked at.
ValidWhatever(r) == r.genuine

\* jwt.Parse: signed with the secret, by the issuer, and not expired.
Valid(r) == r.genuine /\ now < r.expires

\* Both look for the address in the forwarding headers. Without one, REST takes the
\* address of the connection, and gRPC looks no further.
Allowed(r) == config.restricted => r.listed \/ (r.via = "grpc" /\ ~r.named)

\* What the handlers refuse before they call a use case.
RestRefuses(r) ==
  \/ r.lacks \in {"user", "amount", "date"}
  \/ r.lacks = "code" /\ r.op # "redeem"
  \/ /\ Lists(r) /\ r.lacks # "limit"
     /\ r.limit <= 0 \/ (r.op = "transactions" /\ r.limit > MaxLimit)

\* Mutant: the handler of Grant does not look for an amount.
GrpcTakesNoAmount(r) == r.lacks \in {"user", "type", "code", "paymentId"}

GrpcRefuses(r) == r.lacks \in {"user", "type", "amount", "code", "paymentId"}

Refused(r) == IF r.via = "grpc" THEN GrpcRefuses(r) ELSE RestRefuses(r)

\* Without a code in its path, a request for one finds no route.
Refusal(r) ==
  IF r.op \in {"deleteCode", "getCode"} THEN "NotFound" ELSE BadRequest(r.via)

\* The gRPC handler replaces a limit out of range; zero is also protobuf's for none.
GrpcLimit(r) ==
  IF r.limit <= 0 THEN DefaultLimit ELSE IF r.limit > MaxLimit THEN MaxLimit ELSE r.limit

Limit(r) ==
  IF r.via = "grpc" THEN GrpcLimit(r)
  ELSE IF r.lacks = "limit" THEN DefaultLimit ELSE r.limit

-----------------------------------------------------------------------------
(* A call arrives *)

\* A token is one that was issued, or none that would pass. What does not matter
\* to an operation, or to a call that the middleware refuses, stays as in Idle.
Send(c) ==
  /\ call[c].pc = "idle"
  /\ \E via \in Vias, op \in Ops, user \in Users, genuine, listed, named \in BOOLEAN,
        expires \in {0} \cup {t.expires : t \in issued} :
       /\ op \in OpsOf[via]
       /\ ~listed => genuine /\ config.restricted
       /\ listed => named
       /\ IF via = "user"
          THEN listed /\ genuine = ([user |-> user, expires |-> expires] \in issued)
          ELSE expires = 0
       /\ LET from   == [Idle EXCEPT !.pc = "sent", !.via = via, !.op = op, !.user = user,
                           !.genuine = genuine, !.expires = expires, !.listed = listed,
                           !.named = named]
              heeded == genuine /\ (via = "user" \/ (config.enabled /\ Allowed(from)))
              parts  == IF heeded THEN PartsOf(op) ELSE {}
          IN
          \E lacks  \in parts \cup {""},
             code   \in IF "code" \in parts THEN Codes ELSE {Idle.code},
             limit  \in IF "limit" \in parts THEN Limits ELSE {0},
             filter \in IF "limit" \in parts THEN Asked ELSE {""} :
            LET r == [from EXCEPT !.lacks = lacks, !.code = code, !.limit = limit,
                                  !.filter = filter]
            IN  /\ lacks = "user" => via # "user"
                /\ lacks = "limit" => limit = 0
                /\ call' = [call EXCEPT ![c] =
                     [r EXCEPT !.start = IF Lists(r) THEN Present(Scope(r)) ELSE {}]]
  /\ UNCHANGED <<stored, now, config, issued, disturbed>>

\* Middleware or interceptor, then the checks of the handler.
Admit(c) ==
  LET r == call[c]
  IN  /\ r.pc = "sent"
      /\ \/ r.via = "user" /\ ~Valid(r) /\ Answer(c, Unknown(r.via))
         \/ r.via # "user" /\ ~config.enabled /\ Answer(c, Forbidden(r.via))
         \/ r.via # "user" /\ config.enabled /\ ~r.genuine /\ Answer(c, Unknown(r.via))
         \/ r.via # "user" /\ config.enabled /\ r.genuine /\ ~Allowed(r)
              /\ Answer(c, Forbidden(r.via))
         \/ /\ IF r.via = "user" THEN Valid(r) ELSE config.enabled /\ r.genuine /\ Allowed(r)
            /\ \/ Refused(r) /\ Answer(c, Refusal(r))
               \/ ~Refused(r) /\ call' = [call EXCEPT ![c].pc = "admitted", ![c].since = now]
      /\ UNCHANGED <<stored, now, config, issued, disturbed>>

-----------------------------------------------------------------------------
(* The use cases, as far as callers can tell *)

\* What a use case cannot do for lack of something REST handlers pass on: an id for
\* the payment, a type to grant, metadata for the JSON column, a code.
Hopeless(r) ==
  r.via # "grpc" /\ \/ r.lacks \in {"paymentId", "metadata", "code"}
                    \/ r.lacks = "type" /\ r.op = "grant"

Keep == UNCHANGED <<stored, disturbed>>

\* A consumption by priority or a payment, split between free and paid currency,
\* records one part before it goes on with the other.
RecordPart(c) ==
  LET r == call[c]
  IN  /\ r.pc = "admitted" /\ r.op \in {"consume", "payment"} /\ ~Hopeless(r)
      /\ \E x \in History(r.user) : Insert(x, r.since, "consume")
      /\ UNCHANGED <<now, config, issued, call, disturbed>>

\* Grant, Consume, ProcessPayment, Redeem: a success is on record, unless it
\* repeats a payment; an error may come when something is.
Transact(c) ==
  LET r == call[c]
      kind == IF r.op \in {"grant", "redeem"} THEN "grant" ELSE "consume"
      record == /\ ~Hopeless(r)
                /\ \E x \in History(r.user) : Insert(x, r.since, kind)
                /\ UNCHANGED disturbed
  IN  /\ r.pc = "admitted" /\ Moves(r)
      /\ \/ End(c, "ok") /\ record
         \/ r.op = "payment" /\ ~Hopeless(r) /\ End(c, "ok") /\ Keep
         \/ \E e \in ErrorsOf(r.op) \ {"codeNotFound"} :
              /\ r.lacks \notin {"paymentId", "code"} \/ r.via = "grpc"
              /\ End(c, e)
              /\ Keep \/ (e \in {"insufficientBalance", "currencyNotFound"} /\ record)
         \/ /\ r.op = "redeem" /\ (r.lacks = "code" \/ stored[r.code] = NoRow)
            /\ End(c, "codeNotFound") /\ Keep
         \/ End(c, "internal") /\ (Keep \/ record)
      /\ UNCHANGED <<now, config, issued>>

CreateCode(c) ==
  LET r == call[c]
      insert == /\ \E kind \in {"promotion", "gift"} : Insert(r.code, r.since, kind)
                /\ disturbed' = disturbed \cup {d \in Calls : call[d].pc = "counted"}
  IN  /\ r.pc = "admitted" /\ r.op = "createCode"
      /\ \/ End(c, "ok") /\ insert
         \/ stored[r.code] # NoRow /\ End(c, "codeAlreadyExists") /\ Keep
         \/ End(c, "internal") /\ (Keep \/ insert)
      /\ UNCHANGED <<now, config, issued>>

DeleteCode(c) ==
  LET r == call[c]
      delete == /\ Delete(r.code)
                /\ disturbed' = disturbed \cup {d \in Calls : call[d].op = "listCodes"}
  IN  /\ r.pc = "admitted" /\ r.op = "deleteCode"
      /\ \/ End(c, "ok") /\ delete
         \/ stored[r.code] = NoRow /\ End(c, "codeNotFound") /\ Keep
         \/ stored[r.code] # NoRow /\ End(c, "codeCannotBeDeleted") /\ Keep
         \/ End(c, "internal") /\ (Keep \/ delete)
      /\ UNCHANGED <<now, config, issued>>

\* GetBalance and GetCode
Look(c) ==
  LET r == call[c]
  IN  /\ r.pc = "admitted" /\ r.op \in {"balance", "getCode"}
      /\ \/ (r.op = "getCode" => stored[r.code] # NoRow) /\ End(c, "ok")
         \/ r.op = "getCode" /\ stored[r.code] = NoRow /\ End(c, "codeNotFound")
         \/ End(c, "internal")
      /\ UNCHANGED <<stored, now, config, issued, disturbed>>

GenerateToken(c) ==
  LET r == call[c]
  IN  /\ r.pc = "admitted" /\ r.op = "issueToken"
      /\ \/ /\ End(c, "ok")
            /\ issued' = issued \cup {[user |-> r.user, expires |-> now + Lifetime]}
         \/ End(c, "internal") /\ UNCHANGED issued
      /\ UNCHANGED <<stored, now, config, disturbed>>

-----------------------------------------------------------------------------
(* Listing, page by page *)

\* FindAll counts in a statement of its own.
Count(c) ==
  LET r == call[c]
  IN  /\ r.pc = "admitted" /\ r.op = "listCodes"
      /\ \/ call' = [call EXCEPT ![c].pc = "counted", ![c].total = Cardinality(Present(Codes))]
         \/ End(c, "internal")
      /\ UNCHANGED <<stored, now, config, issued, disturbed>>

\* The history's Total is the length of the filtered page, the codes' the count: a
\* client turns the page until the count is reached, or the page is not full.
Select(c) ==
  LET r     == call[c]
      limit == Clamp(Limit(r))
  IN  /\ (r.pc = "admitted" /\ r.op = "transactions") \/ r.pc = "counted"
      /\ \/ \E q \in NewestFirst(Scope(r)) :
              LET page  == Filtered(PageOf(q, limit, r.offset), r.filter)
                  total == IF r.op = "listCodes" THEN r.total ELSE Cardinality(page)
                  last  == IF r.op = "listCodes" THEN r.offset + limit >= total ELSE total < limit
                  shown == [r EXCEPT !.seen = r.seen \cup page, !.total = 0, !.since = 0]
              IN  call' = [call EXCEPT ![c] =
                    IF last
                    THEN [shown EXCEPT !.pc = "done", !.error = "ok", !.status = "OK"]
                    ELSE [shown EXCEPT !.pc = "sent", !.offset = r.offset + limit]]
         \/ End(c, "internal")
      /\ disturbed' = IF Tied(Scope(r)) THEN disturbed \cup {c} ELSE disturbed
      /\ UNCHANGED <<stored, now, config, issued>>

-----------------------------------------------------------------------------

Tick ==
  /\ now < MaxTime /\ now' = now + 1
  /\ UNCHANGED <<stored, config, issued, call, disturbed>>

Step(c) ==
  \/ Admit(c) \/ RecordPart(c) \/ Transact(c) \/ CreateCode(c) \/ DeleteCode(c)
  \/ Look(c) \/ GenerateToken(c) \/ Count(c) \/ Select(c)

Quiescent == (\A c \in Calls : call[c].pc = "done") /\ UNCHANGED vars

Next == Tick \/ Quiescent \/ \E c \in Calls : Send(c) \/ Step(c)

Spec == Init /\ [][Next]_vars

\* As long as a call can go on, the servers go on with one, and clients turn pages.
FairSpec == Spec /\ WF_vars(\E c \in Calls : Step(c))

-----------------------------------------------------------------------------
(* Properties *)

TypeOK ==
  /\ stored \in [Rows -> Stored \cup {NoRow}]
  /\ now \in StartTime..MaxTime
  /\ issued \in SUBSET [user : Users, expires : Nat]
  /\ call \in [Calls -> Call]
  /\ disturbed \in SUBSET Calls

\* A client that turns all pages sees every row that was there when it began,
\* whatever is added meanwhile: new rows push old ones to later pages. Excepted
\* are scans of codes once a code is deleted, scans that meet one added between COUNT
\* and SELECT, or two rows of the same second; and a history filtered by type, whose
\* pages may be short or empty before the last.
ScanSeesEverything ==
  \A c \in Calls \ disturbed :
    LET r == call[c]
    IN  /\ Lists(r) /\ r.pc = "done" /\ r.error = "ok"
        /\ r.op = "transactions" => r.filter \notin {"grant", "consume"}
        => \A x \in r.start : stored[x] # NoRow /\ Matches(x, r.filter) => x \in r.seen

\* Whoever reaches a use case over the user API holds a token that the
\* administration issued for that user, no longer than its lifetime ago.
UserHoldsToken ==
  \A c \in Calls :
    LET r == call[c]
    IN  r.via = "user" /\ r.pc = "admitted" =>
          /\ [user |-> r.user, expires |-> r.expires] \in issued
          /\ r.since < r.expires /\ r.expires <= r.since + Lifetime

\* REST and gRPC statuses that tell the caller the same.
Same == {{"OK"}, {"BadRequest", "InvalidArgument"}, {"NotFound"},
         {"Conflict", "FailedPrecondition"}, {"Unauthorized", "Unauthenticated"},
         {"Forbidden", "PermissionDenied"}, {"InternalServerError", "Internal"}}

Alike(s, t) == \E alike \in Same : {s, t} \subseteq alike

\* A question that the administration asked over REST (r) and over gRPC (g), both
\* answered, and alike in the use case if both came that far.
AskedOnBoth(r, g) ==
  LET question(x) ==
        <<x.op, x.genuine, x.listed, x.named, x.lacks, x.filter, x.limit>>
  IN  /\ r.pc = "done" /\ g.pc = "done" /\ r.via = "admin" /\ g.via = "grpc"
      /\ question(r) = question(g)
      /\ r.error = g.error \/ r.error = "" \/ g.error = ""

\* The checks in which the interfaces differ: a currency type that is missing (only
\* gRPC refuses it), a limit of the history out of range (only REST refuses it), and
\* an address that no forwarding header names (only REST looks further).
ChecksDiffer(r) ==
  \/ r.lacks = "type"
  \/ r.op = "transactions" /\ r.lacks # "limit" /\ r.limit \notin 1..MaxLimit
  \/ config.restricted /\ ~r.listed /\ ~r.named

\* Apart from these three checks, the administration is answered alike by both
\* interfaces, whatever its question has or lacks and whatever errors the use cases end
\* in: what the one refuses the other refuses, with the status that means the same.
SameAnswerOnBoth ==
  \A c, d \in Calls :
    AskedOnBoth(call[c], call[d]) /\ ~ChecksDiffer(call[c])
      => Alike(call[c].status, call[d].status)

\* Again and again no call is under way: each is answered, every scan comes to an end.
EveryCallEnds == []<>(\A c \in Calls : call[c].pc \in {"idle", "done"})

=============================================================================
