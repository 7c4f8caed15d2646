# gem-server in TLA+

gem-server keeps two virtual currencies per user, `free` and `paid`, in MySQL and
lets clients grant them, consume them, pay with them and redeem codes for them. It
runs as several replicas of a Go server (REST and gRPC over the same application
services), so every use case runs concurrently with itself and with the others, and
the only thing they share is the database. A payment handler in the browser (a
service worker and payment windows) lets web merchants ask for payments.

These modules model the use cases statement by statement, what lies around them
(interfaces, connection pool, shutdown, browser) at the level of calls and messages,
and an abstract specification that the use cases are shown to implement.
`PROJECT.json` lists the components, the model-checking runs, the mutants that each
property rejects, the source lines of every definition, the hazards and the theorems.

    tlc -config GemServer.cfg MCGemServer.tla
    tlapm GemServerProofs.tla

## Inventory

Paths are relative to `src/internal/` unless they start with `src/`.

| Component | State | Operations | Status |
|---|---|---|---|
| Ledger store: `infrastructure/persistence/mysql/{currency,transaction}_repository.go`, `transaction_manager.go`, `domain/currency`, `domain/transaction` | tables `currency_balances`, `transactions`; a `Currency` entity per request | find, create (upsert), save (`UPDATE … WHERE version = ?`), insert of a history row, `Currency.Grant`/`Consume` | modelled |
| Currency service: `application/currency/service.go`, `domain/service/currency_service.go` | local variables of a request | `Grant`, `Consume`, `ConsumeWithPriority`; `GetBalance` only reads | modelled |
| Payment service: `application/payment/service.go`, `payment_request_repository.go`, `domain/payment_request` | table `payment_requests` | `ProcessPayment` | modelled |
| Code redemption: `application/code_redemption/service.go`, `redemption_code_repository.go`, `domain/redemption_code` | tables `redemption_codes`, `code_redemptions` | `Redeem`, `CreateCode`, `DeleteCode`; `GetCode`, `ListCodes` only read | modelled |
| History: `application/history/service.go` and the `SELECT`s it sends | none | one paged, filtered query | modelled |
| Connection pool: `mysql/db.go` and what `WithTransaction` does to it | connections held and asked for | begin, statement, commit or rollback, a client giving up | modelled |
| Server lifecycle: `src/cmd/server/main.go`, the shutdown of both servers | where `main` is | serve, signal, `echo.Close`, `GracefulStop`, deadline, exit | partly: the start is left out |
| REST and gRPC: `presentation/` | none | admission, request checks, use case, status; paging by the client | partly: see "Not modelled" |
| Authentication: `application/auth`, middleware, interceptor | none on the server; tokens that clients hold | issue of tokens, check of tokens, keys and addresses | modelled |
| Payment handler in the browser: `src/public/pay/*.js` | one current payment in the service worker; the payment window | events, messages, buttons | modelled |
| Composition of the services | all of the tables above | any use case at any time | modelled |
| Observability, configuration | nothing the others read after the start | | not modelled |

### How the components interact

- A use case calls the repositories in sequence, inside
  `TransactionManager.WithTransaction`. That function opens a `*sql.Tx`, but no
  repository uses it: every statement goes to the pool (`r.db`) and commits by
  itself. The models therefore take *one statement plus the code up to the next
  one* as the atomic step, and nothing is ever rolled back.
- Balances are changed by read, compute in memory, `UPDATE … WHERE version = ?`,
  retried up to `maxRetries` times. `Currency.Grant` and `Consume` already count
  `version` up, and the `UPDATE` compares the row with that counted-up value.
- `ConsumeWithPriority` and `ProcessPayment` each hold a copy of the same code that
  empties `free` first and takes the rest from `paid` (module `FreeThenPaid`).
- `ProcessPayment` reads `payment_requests` first and writes it last; the client's
  `payment_request_id` is what makes it idempotent.
- `Redeem` reads the code, counts its use, grants, and inserts the redemption last.
- REST and gRPC handlers check a request, call the same services, and turn errors
  into statuses with code of their own each.
- The payment window asks the server for a balance; what the merchant then pays with
  reaches `ProcessPayment` through the merchant.
- The unused transaction of `WithTransaction` still occupies a connection while the
  statements ask the pool for a second one.
- Manual adjustments of balances (compensation, refund: `src/README.md:20-22`) are
  made beside the service. No operation of `src/` does them, so `Adjust` is
  external: it sets any balance in range and counts the version up. This matters
  more than it looks: with the inverted version check only a row that somebody else
  changes between the read and the save can be saved at all.

### What is hard here, and what makes it correct

| Hard behaviour | Property |
|---|---|
| A save accepted on a stale read; two writers on one row; a row created over another | `FreshSaveIsRefused`, `ServiceAloneIsFrozen`, `BalancesInRange`, `ConsumeNeverOverdraws` |
| Balance and history written by two statements; broken statements, lost answers, equal transaction ids | `HistoryIsBacked`, `SuccessIsAccounted`, `KeepsAccounts` |
| Retry loops with stale local variables (`retryErr`, `remainingAmount`, `key`) | `RetriesApplyOnce`, `FreeBeforePaid`, `EveryRequestIsAnswered` |
| The same payment delivered several times, the slow one overwriting the status | `RepeatsMoveNothing`, `CompletedIsPaidFor`, `FailedTookNoPaid`, `AnswersAreCovered` |
| A code redeemed, deleted, created again and expiring at once | `RedemptionIsGranted`, `RedeemedUserGetsNothingMore`, `RedeemedCodeSurvives`, `RedeemGrantsOnce` |
| Requests that hold one connection and need a second | `StuckUntilGivenUp`, `EveryoneServed` |
| A signal while requests run, wait, or are stuck | `GrpcIsDrained`, `ShutdownEnds` |
| One current payment for all windows; messages that arrive late; a new or stopped worker | `OwnWindowSettles`, `ReplacedNeverSettles`, `ApprovalIsCovered`, `EveryPaymentSettles` |
| Pages cut by `OFFSET` while rows come and go; limits of zero; tokens that expire between pages | `ScanSeesEverything`, `UserHoldsToken`, `EveryCallEnds` |
| Two interfaces that check the same requests and map the same errors | `SameAnswerOnBoth` |

## Modules

| Module | Models |
|---|---|
| `LedgerStore` | the two shared tables, the statements on them, the entity and the save-and-retry step; one record `job[j]` per request |
| `FreeThenPaid` | the steps `ConsumeWithPriority` and `ProcessPayment` share |
| `CurrencyService`, `PaymentService`, `RedemptionService` | the use cases: one action per statement, extending the modules above |
| `GemServer` | the three services at once, as instances over the same variables |
| `Accounts` | the abstract specification: what is promised of balances and answers |
| `LedgerProperties` | the properties of the shared tables, the strengthening `LedgerInv`, and the refinement mapping `Promise` to `Accounts` |
| `ConnPool` | the connection pool, separately: it abstracts every use case to a number of lookups and statements |
| `ServerLifecycle` | `main` and the two servers on top of `ConnPool` |
| `Listing` | the rows of histories and codes, and the pages a `SELECT` returns |
| `Endpoints` | calls over the user API, the administration API and gRPC on top of `Listing` |
| `PaymentHandler` | service worker and payment windows |
| `MCCurrencyService`, `MCPaymentService`, `MCRedemptionService`, `MCGemServer`, `MCEndpoints` | constants for TLC |
| `Journeys` | what one request does on its way in every use case (eight kinds of step), and the invariant `Tours` of what it has written and recorded; no definition of the program, only what the proofs need |
| `LedgerProofs` | lemmas on the statements of the store: types and `LedgerInv`, the refinement, `Tours` |
| `CurrencyServiceProofs`, `PaymentServiceProofs`, `RedemptionServiceProofs`, `GemServerProofs`, `ServerLifecycleProofs` (with `ConnPool`), `EndpointsProofs`, `PaymentHandlerProofs` | the theorems |

### State and steps

**Services.** `job[j].pc` names the statement request `j` runs next: `find` and
`create` read or insert the balance, `save` is the versioned `UPDATE`, `record` the
history insert. `ent` is the `Currency` in memory, `before` is `balanceBefore`,
`part` the amount of the current `Grant` or `Consume`, `rest` `remainingAmount`,
`retried` is `retryErr != nil`, `attempt` the loop variable. `stamp` is the clock
reading that became `transactionID` (`txn_<UnixNano>`); with `ClockRepeats` two
requests may read the same one, and the upsert of `Save` then drops the later row.
`redemption_id` is another clock reading, so a redemption may share the one and not the
other. `TotalConsumed` is the payment's `totalConsumed`, which the code adds up part by
part.

A statement ends `Answered`, or `Broken`, which covers both an error before it ran
and an answer lost after it committed (connection broken, request context
cancelled). `TrySave` treats both as the loop does: it retries. A failed history
insert ends the request with the balance already written; a request without
metadata always ends so, because it binds `""` to a JSON column.

`fresh`, `writes`, `repeats` and `again` are auxiliary: they record what was read or
written and when, no step of the program depends on them.

**Pool and lifecycle.** `pc[r]` says whether request `r` waits for or holds its
transaction's connection, and a second one for a statement. `phase` follows `main`
from serving to exit; `cut` holds the requests whose connection was closed and
context cancelled: these stop waiting (`CutOff`) but a statement already running is
finished.

**Interfaces.** A call is `Send`, `Admit` (middleware or interceptor, then the checks of
the handler), and one step of its use case, whose balances are left to the services:
here it ends in any of its errors, and inserts, deletes or lists rows. A consumption or
payment may record one part of its amount in a step of its own (`RecordPart`) before it
ends. A call that lists stands for a client that turns page after page, each admitted
anew. The limit is bounded twice, as in the code: by the handler (`RestRefuses`,
`GrpcLimit`) and by the service (`Clamp`). `listed` says whether the address a call
comes from is in `AllowedIPs`, `named` whether a forwarding header names that address.
`Insert` takes the `created_at` of any moment since the call was admitted, because the
entity is made before its statement; columns count whole seconds, and `NewestFirst`
returns rows of one second in any order.

**Browser.** `event` and `resolver` are the two fields of `currentPayment`, one pair
for each worker version. Awaits split an action in two: `PaymentRequest` runs up to
`openWindow`, and `OpenWindow` or `OpenWindowFails` goes on with the fields of
*that* moment. Messages of a window arrive in order, those of different windows in
any. `troubles` records, for the properties, what happened that the code makes no
provision for: overlapping payments, a new worker, a stopped worker, a window that
no worker controls, a window closed before it knew its worker.

Abstracted: identifiers are model values; metadata is present or not; names, types
and statuses that no branch reads are left out; logs, traces and metrics are left
out; the back-off sleeps between attempts take no step of their own.

### The promise: `Accounts`

`Accounts` knows accounts, whether anybody adjusted one by hand, who has moved a
balance, and what each request was told. A request that is not answered may open an
empty account, or move a balance within the range by one version once rows are
adjusted, and may be answered; it is told `moved` only if it is among the movers.
`LedgerProperties!Promise` maps the tables to it: `rows` is `balances`, `movers` are
the requests in `writes`, and `Told` reads the answer off `pc` and `result`. Retries,
histories, codes and payments are gone. That each step of the services is one of
these, or a stutter, says at once that no balance moves after the answer, none
outside the range, no success is told without a movement, and nothing moves before the
first adjustment (the inverted lock, see below).

## Runs

Every number is a bound of an instance, named in the `.cfg` file. `MaxAmount = 2` and
`MinBalance = -1` scale the range of balances down, so that overdrawn, empty, full
and overflowing balances all occur; in `gem_server` it is 0 to 1.

| Run | Instance | Checks |
|---|---|---|
| `gem_server` | 1 user, 2 requests of any service, 2 attempts, 1 adjustment, 1 code that expires at the only tick, a clock that may repeat | `HistoryIsBacked`, `RetriesApplyOnce`, `ServiceAloneIsFrozen`, `KeepsAccounts` |
| `currency_edges` | 1 request, amounts 0 to 3, 3 attempts, 3 adjustments, 1 broken statement, rows of -1 and 1 | `TypeOK`, `BalancesInRange`, `FreshSaveIsRefused`, `ConsumeNeverOverdraws`, `FreeBeforePaid`, `SuccessIsAccounted`, `EveryRequestIsAnswered` |
| `payment_concurrent` | 2 deliveries of one payment, 1 broken statement, 2 adjustments | `TypeOK`, `CompletedIsPaidFor`, `FailedTookNoPaid`, `HistoryIsBacked`, `AnswersAreCovered`, `EveryPaymentIsAnswered` |
| `payment_repeated` | 3 deliveries, rows of 1 or 2 at the start, 3 adjustments | `RepeatsMoveNothing` |
| `redeem_concurrent` | 2 requests of one user that redeem or delete, two kinds of code, no balance rows at the start, 1 broken statement, 2 adjustments, 1 tick | `TypeOK`, `RedemptionIsGranted`, `RedeemedUserGetsNothingMore`, `RedeemedCodeSurvives`, `RedeemGrantsOnce`, `EveryRedemptionIsAnswered` |
| `server_shutdown` | 4 requests, one by REST, 3 connections, 1 statement each, clients that give up | `ServerTypeOK`, `GrpcIsDrained`, `StuckUntilGivenUp`, `EveryoneServed`, `ShutdownEnds` |
| `payment_handler` | 2 payments, 2 worker versions, 2 undelivered messages of a window that fails to approve | `TypeOK`, `OwnWindowSettles`, `ApprovalIsCovered`, `ReplacedNeverSettles`, `EveryPaymentSettles` |
| `interfaces_scanned` | 2 calls, 1 user, 3 transactions and 3 codes of which 2 each exist, pages of 1 or 2 rows, limits 0, 2 and 3, an administration API with a list of addresses or closed, seconds 1 to 2, tokens that live one second | `TypeOK`, `ScanSeesEverything`, `UserHoldsToken`, `SameAnswerOnBoth`, `EveryCallEnds` |

Why the bounds are enough for the cases that matter: a successful split consumption
needs two saves that go through, hence two adjustments; a retry needs two attempts;
the shortest harmful race has two requests; a repeat that arrives after a slow
delivery overwrote a completed payment needs a third delivery, a third adjustment
and rows with different balances; two grants of one code one after the other need an
adjustment each. In `gem_server` one adjustment lets the save of one request through,
and that write the save of the other one, of any service. Four requests on three
connections let three of them fill the pool and one wait outside. Two payments
overlap, and two versions of the worker hand over; a third of either adds no new
pair. Two calls are a scan and whoever disturbs it, or a question asked over both
interfaces; two rows on pages of one make a scan of two pages and more. Requests and
calls run once and then stay `done`; a client that tries again is another request.

Deadlock is checked in every run: a state without a step of the program is one in
which all is answered (`Quiescent`), or the process has ended (`ServerQuiescent`).

### Fairness

`FairSpec` of the services assumes weak fairness for the steps of each request: the Go
runtime runs a goroutine that can run, and the driver answers or fails each statement.
Nothing obliges a client to send a request, an operator to adjust a balance, or a
statement to break. In `ConnPool` and `ServerLifecycle`, `Work` is weakly fair for the
same reason and `Get` strongly fair: `database/sql` queues those who wait for a
connection in the order they came, so one that comes free again and again reaches
everyone. `EveryoneServed` assumes that fewer requests than connections are under way;
without that it does not hold, see `StuckUntilGivenUp`. `main` is weakly fair: the
drain's deadline is a timer that fires. Nobody has to send a signal or to give up. In
`Endpoints` the servers go on with one of the calls as long as one can go on, and a
client that scans asks for its next page. In `PaymentHandler` the browser opens a window
or fails to, delivers messages and answers fetches, and the user of a window that can be
used ends up pressing one of its buttons; users may close windows, but need not.

### Where the code departs from what it says

Each is a run that TLC finishes with a counterexample; `findings` in `PROJECT.json`
quotes the lines.

- `currency_lock_inverted`: on an idle database the save of a lone request is refused
  as a conflict. The entity's version was counted up before it is compared.
- `currency_no_rollback`: a request answered with an error keeps its balance change.
- `payment_twice`: two deliveries of a payment both take its amount.
- `redeem_limit`: two users redeem a single-use code.

More are visible in the models without a run of their own:

- A save that succeeds on a retry still ends in the earlier attempt's error
  (`retried` in `RecordFreePart` and `RecordPaidPart`), and a slow delivery overwrites
  `completed` with `failed` (`PayFail`).
- The repeat of a split payment is answered with one of its two parts as the total
  (`PayReplay`; `src/docs/api-examples.md:397` promises the same answer).
  `AnswersAreCovered` bounds what it may answer.
- One user can be granted a code's amount twice by two requests at once: the unique
  key `uk_user_code` refuses only the second row of `code_redemptions`
  (`src/migrations/000001_init_schema.up.sql:101`), after the grant.
- Requests that read the same nanosecond share one history row (`Insert`), which is
  why `SuccessIsAccounted` speaks of requests with a stamp of their own.
- "RESTとgRPCの両方で同じ機能を提供し、どちらを使っても同じことができる。"
  (`src/README.md:55`), but three checks differ, and `ChecksDiffer`, the exception of
  `SameAnswerOnBoth`, names them. With `AllowedIPs` set, gRPC lets a call pass that no
  forwarding header gives an address (`interceptor/api_key.go:54-55`), while REST falls
  back to the address of the connection (`middleware/api_key.go:85-90`); a missing
  `currency_type` is refused by gRPC only (`currency_handler.go:77`); a limit of the
  history out of range is refused by REST (`history_handler.go:82`) and replaced by gRPC
  (`currency_handler.go:279-285`). A fourth difference lies beyond the checks: a grant or
  consumption without metadata fails over REST after its balance was saved, because the
  handler passes `nil` on, and succeeds over gRPC, whose handler makes an empty map
  (`Hopeless`).
- The history's total is the length of the filtered page, and type filters apply
  after `LIMIT` and `OFFSET`: a page may be empty though later ones have matches
  (`Select`). `ListCodes` counts in a statement of its own, so a code created in
  between can fall off the last page. `ScanSeesEverything` excepts both.
- The shutdown of REST, which `main` calls graceful (`src/cmd/server/main.go:186`), is
  `echo.Close()`, which cuts requests off, while gRPC drains (`CloseRest`, `Drained`).
- The service worker's single current payment: a second payment request takes the first
  one's place, and the first promise is never settled (`ReplacedNeverSettles`: once its
  event is gone from every worker, nothing settles it any more), or the failure of the
  first window rejects the second payment (`OpenWindowFails`).

The inverted lock shapes every other result. Properties such as
`ServiceAloneIsFrozen`, and the condition `adjusted` in `Accounts`, state what the
code does, not what one would wish of it; they would be the first to fail when the
lock is repaired, and that is what they are for.

## Proofs

Every safety property that a passing run checks is a theorem. All are proved from the
assumptions named in the modules: `LedgerAssumption` (users and requests exist,
`MinBalance <= 0`, seed rows in range, at least one attempt), `RedemptionAssumption`
and, for the composition, `ServerAssumption` (some code, well formed campaigns),
`PoolAssumption` (finitely many requests, at least one connection),
`LifecycleAssumption`, `ListingAssumption` and `EndpointsAssumption` (finitely many
rows, page sizes in order, some user and some code, settings of the right form),
`HandlerAssumption` (some payment, at least one worker); for any number of users,
requests, amounts, codes, attempts, broken statements, adjustments, ticks, rows,
calls, payments and workers.

| Module | Theorem | States |
|---|---|---|
| `GemServerProofs` | `ServerKeepsAccounts` | `Spec => KeepsAccounts`: the whole server implements `Accounts` |
| | `ServerBalancesSafe` | `Spec => [](BalancesInRange /\ FreshSaveIsRefused)` |
| | `ServerAloneIsFrozen` | `ServiceAloneIsFrozen` of all services at once |
| | `ServerTransactionsBacked`, `ServerSuccessesAccounted`, `ServerRetriesOnce` | `[]HistoryIsBacked`, `[]SuccessIsAccounted`, `[]RetriesApplyOnce` of all services at once |
| | `ServerConsumptionsCovered`, `ServerFreeIsTakenFirst` | `[]ConsumeNeverOverdraws`, `[]FreeBeforePaid` likewise |
| `CurrencyServiceProofs` | `TypeCorrect` | `Spec => []TypeOK` |
| | `FreshSavesRefused`, `BalancesStayInRange` | `[]FreshSaveIsRefused`, `[]BalancesInRange` |
| | `AloneIsFrozen` | `ServiceAloneIsFrozen` |
| | `ServiceKeepsAccounts` | the service implements `Accounts` |
| | `TransactionsBacked`, `ConsumptionsCovered`, `FreeIsTakenFirst`, `SuccessesAccounted`, `RetriesOnce` | the same five invariants as of the whole server |
| `PaymentServiceProofs` | `PaymentTypeCorrect`, `PaymentKeepsAccounts` | `[]TypeOK`; the service implements `Accounts` |
| | `RepeatsNeverMove` | `[]RepeatsMoveNothing` |
| | `CompletedPaymentsPaid` | `[]CompletedIsPaidFor`, unless clock readings repeat |
| | `FailedPaymentsTakeNoPaid`, `PaymentAnswersCovered` | `[]FailedTookNoPaid`, `[]AnswersAreCovered` |
| `RedemptionServiceProofs` | `RedemptionTypeCorrect`, `RedemptionKeepsAccounts` | `[]TypeOK`; the service implements `Accounts` |
| | `RedeemedCodesSurvive` | `[]RedeemedCodeSurvives` |
| | `RedeemedUsersGetNothing` | `[]RedeemedUserGetsNothingMore` |
| | `GrantedRedemptions` | `[]RedemptionIsGranted`, unless clock readings repeat |
| | `RedeemsOnce` | `[]RedeemGrantsOnce` |
| `ServerLifecycleProofs` | `PoolTypeCorrect`, `StuckPoolStaysStuck` | of the pool alone: `[]TypeOK`, `StuckUntilGivenUp` |
| | `ServerTypeCorrect`, `ServerStuckStaysStuck` | the same of the whole process, whatever `main` does |
| | `NobodyLeftBehind` | `[]GrpcIsDrained` |
| `EndpointsProofs` | `EndpointsTypeCorrect` | `[]TypeOK` |
| | `ScansComplete` | `[]ScanSeesEverything` |
| | `TokensHeld`, `SameAnswers` | `[]UserHoldsToken`; `[]SameAnswerOnBoth`, with the exceptions of `ChecksDiffer` |
| `PaymentHandlerProofs` | `HandlerTypeCorrect`, `OwnWindowsSettle`, `ApprovalsCovered` | `[]TypeOK`, `[]OwnWindowSettles`, `[]ApprovalIsCovered` |
| | `ReplacedPaymentsNeverSettle` | `ReplacedNeverSettles` |

**The ledger.** Neither `FreshSaveIsRefused` nor `BalancesInRange` is inductive: the
first says nothing of the version an entity carries, the second nothing of the
balance that is about to be saved. `LedgerInv` adds both: `FreshEntity` (an entity
about to be saved is exactly one version ahead of a row nobody wrote since it was
read), `EntityInRange` (its balance passed the checks), and `UntouchedEntity` (before
the first adjustment the former holds even across a concurrent `Create`, because a
row is only created again while it is still empty). `LedgerProofs` groups the
statements of the store into effects (a read, a row creation, a save, an insert, a
step of a request's memory only; `Effect`) and shows that each keeps types and
`LedgerInv`, whatever the use case.

**The refinement.** An effect says what a step does to the tables; `Speaks` says
what it does to the promise: it is quiet, or it is a save, or it follows one.
`MoversRecord` is the strengthening: a request past its save is among the movers.
`StepKeeps` then turns every step that has an effect and speaks into a request of
`Accounts` or a stutter. What is left for each service is that all of its actions
are `Sound`, that is, keep types, have an effect and speak.

**Journeys.** What a request has moved and recorded, in all, depends on the way it
came: whether it is on free or on paid currency, before or after its save, with
an error of an earlier attempt or without. The properties say this of the end of the
way only, so none of them is inductive. `Tours` says it of every place: `Numbers` (the
amounts of the request and of the change under way fit together), `Wrote` (what it has
written so far), `Books` (what the history says of it, unless another request shares
its stamp) and `Moves` (how much it has moved, as long as no statement broke).
`Journeys` sorts the statements of all use cases into eight kinds of step (begins,
looks, answers, goes to create or fail, skips free currency, takes in memory, saves or
not, records), and each kind keeps `Tours` once for all services; a service only has
to show that its actions are such steps. `Books` and `Moves` speak of sums over sets
of rows. These are defined by the library's fold, whose recursion over sets the
provers cannot unfold; `LedgerProofs` shows first, by the well-foundedness of strict
inclusion among finite sets, that the fold obeys the equation for one element more
(the lemmas under "Sums over finite sets").

**The composition.** `GemServer` runs the actions of the services on shared
variables, so `GemServerProofs` needs no new argument about statements: it shows
that the definitions reached through the instances are those of the services' proofs
(`SameCurrency` and the like), that the constants satisfy what the services assume
(`AssumptionsHold`), and that no service disturbs the types of another's tables nor
the code a redemption holds (`GemInv`, by the places a request of each service may be
in). Soundness of each action then carries over, and `LedgerInv`, `MoversRecord` and
the refinement follow once for all. `Tours` carries over in the same way.

**Payments delivered again.** `RepeatInv`: a payment is settled before any delivery of
it succeeds or reads the earlier answer; it stays settled, though not with the same
status; and a delivery that starts then goes nowhere but to that answer.

**Payments and their rows.** `CompletedIsPaidFor` and `RedemptionIsGranted` follow a
request to the statement after its last record, from `Books`: the rows it recorded are
still there, and they add up. Both theorems have `~ClockRepeats` as a hypothesis.
Without it two requests may share a `transaction_id`, and the upsert of the history
drops the later row, so that the request's rows need not add up; the runs of both
services have a clock that does not repeat either. `HistoryIsBacked` and
`RetriesApplyOnce` need no such hypothesis, and `SuccessIsAccounted` excepts shared
stamps itself.

**Codes.** `ClaimHeld` says that a redemption about to count up holds a code that was
there, so no deletion or late count makes a row vanish under a redemption. `AgainInv`:
a request that starts after its user redeemed the code gets no further than
`HasUserRedeemed`, because a redemption on record is never taken back.

**Pool and shutdown.** `MoveInUse` computes the change in connections in use from the
places a request moves between. That it stays within `MaxOpenConns` is the library's
bound, restated by the guard of the `Get` steps, and no more than a lemma here: a stuck
pool has none free, so that nobody but who gives up can move. The lemmas speak of the
pool's steps (`PoolStep`), so `ServerLifecycleProofs` uses them for requests that are
cut off too. `DrainInv` adds to `GrpcIsDrained` that once the drain ended without the
deadline no gRPC request is under way, and that none arrives from the moment it began.

**Calls.** `Fate` says at every moment what will decide the answer: a call past
admission passed the checks of its interface, and an answered call was turned away by
the first check that failed or has the status of its outcome. `SameAnswerOnBoth` then is
a matter of comparing two questions, outside the three checks of `ChecksDiffer`.
`Holder` keeps the token of an admitted call among those issued, and `Tokens` bounds the
life of each of them from now, so that the lifetime holds at admission.

**Scans.** `ScanSeesEverything` speaks of the end of a scan; `Behind` says of every
page that a row not shown yet has at least as many rows before it as the offset. It
is kept because rows are added before others or among them, never taken away, unless
the scan counts as disturbed (`TablesMove`, `RowsBefore`). A page moves the offset up
by the limit, and a row it did not show stands at least so far behind (`Position`,
`PageShows`: without ties a row's place in every order is the number of rows before
it). A page that is not full, or one that reaches the count, leaves no row
(`PageLeaves`). The proof found an exception that the property had missed: a code
deleted *after* the scan and created again under the same name, of another type, is
one that the scan's filter would now show. A deletion of a code therefore disturbs
every scan of codes, finished ones included.

**Windows of the payment handler.** The properties speak of a promise when it is
settled, but which window settles it was decided when a message was posted or an
answer fetched. `HandlerInv` follows each window through three stages: unopened,
unheard (it knows no worker) and heard (it knows the worker that answered it). It says
what its messages may be in each stage, that a balance which covered its payment does
so from then on, and, while payments do not overlap, that the worker's current payment
is the one whose window is open.

Only model-checked: all liveness properties (`EveryRequestIsAnswered`,
`EveryPaymentIsAnswered`, `EveryRedemptionIsAnswered`, `EveryoneServed`,
`ShutdownEnds`, `EveryPaymentSettles`, `EveryCallEnds`), which are outside the reach of
the prover, as is `ENABLED`; and the counterexamples. In the composition the
properties of payments and redemptions are proved of each service alone.

## Not modelled

- Isolation inside one statement is MySQL's and taken as given. `WithTransaction`'s
  empty transaction has no effect on the tables and appears only in `ConnPool`.
- A process that dies between two statements is a behaviour in which a request takes
  no further step: the safety properties are checked under `Spec`'s steps without
  fairness and cover it; there is nothing a restarted process would clean up.
- Integers are 64 bits wide, while balances and amounts are bounded by `MaxAmount`
  before they are added, so overflow does not occur (`GrantRejects` compares with
  `MaxAmount - a`).
- Of the interfaces: static files, Swagger, CORS, security headers, request ids, health
  check, keepalive, reflection, the generated protobuf code, and the wording of answers.
  Which forwarding header names the address (`X-Forwarded-For` or `X-Real-IP`), and what
  it names, is abstracted to `listed` and `named`; a header that names another address
  is a call from that address. Filtering the history by currency type works like that by
  transaction type and is left out.
- Cryptography of tokens and keys is taken as given.
- Of the lifecycle: the start, which reads the configuration, connects, or exits.
- Observability influences nothing else; configuration is read once, and what the
  other parts take from it is a constant (`MaxOpenConns`, `Lifetime`, `Configs`).
- The balance at the moment `ProcessPayment` runs after an approval in the browser:
  window and service share nothing but the table, and the amounts are the service's
  business.

## Plan

1. `CompletedIsPaidFor`, `AnswersAreCovered`, `RedemptionIsGranted` and
   `RedeemGrantsOnce` as properties and theorems of `GemServer`.
2. An abstract payment, taken at most once, and the condition under which
   `PaymentService` implements it: deliveries one after another, no broken statement.
3. When the lock is repaired: drop `adjusted` from `Accounts`, and replace
   `ServiceAloneIsFrozen` and `FreshSaveIsRefused` by the absence of lost updates.
