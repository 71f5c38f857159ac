# VaultPay wallet service: specifications, model checks and proofs

TLA+ modules that model the wallet service of this repository, the TLC runs that
check them on small instances, and theorems that TLAPS proves for all instances.
Paths are relative to the repository; `T/`, `X/` and `W/` stand for
`src/modules/transaction/`, `src/modules/transfer/` and `src/modules/wallet/`.

## 1. The system

| Part | State | Operations | Interacts with |
|---|---|---|---|
| Deposits and withdrawals (`T/services`, `T/repositories`) | rows of `wallets` and `transactions`, the unique index on `transactions.reference` | `POST /wallets/:id/deposit`, `.../withdraw` | wallets (`loadOwnedWallet`), PostgreSQL |
| Transfers (`X/services`, `X/repositories`) | rows of `wallets`, `transfers`, `transactions`, the unique index on `transfers.reference` | `POST /transfers` | wallets, PostgreSQL |
| Wallets (`W/`) | rows of `wallets`, unique on (user, currency) | create, get, list | PostgreSQL |
| Lists and reads | none | `GET /wallets/:id/transactions`, `/transactions/:id`, `/transfers`, `/transfers/:id` | the tables above, two statements per list |
| Rate limiter (`src/shared/middleware/rateLimiter.js`) | one counter per route and client in Redis, with a time to live | runs before every handler | Redis through one ioredis client |
| Pipeline (`routes/`, `src/shared/middleware`) | `req.user`, `req.clientIp`, `req.body` | ipTracker, rateLimiter, auth, encryption, validate, controller, errorHandler | all of the above |
| Lifecycle (`src/server.js`, `src/app.js`, `src/shared/config/cluster.js`) | primary, workers, listening sockets | start, re-fork, shutdown on SIGTERM or SIGINT with a 10 s timer, `GET /health` | the operating system, PostgreSQL, Redis |

Every worker process runs many handlers at once; they share nothing but the
database and Redis. What is hard: handlers interleave at every `await`; a
statement waits for a row lock or for an uncommitted key of a unique index; a
transaction is rolled back, or its COMMIT takes effect and nobody hears of it; a
client that got no answer sends its request again, perhaps while the first is
still running; an operator changes a wallet's status in between.

What makes each part correct:

- money: balances equal what the ledger adds up to and are never negative; a
  transfer happens entirely or not at all; a reference takes effect once; funds
  are conserved; only an owner's request debits a wallet, and only while it is
  ACTIVE; transactions never wait in a circle; every request is answered, and
  the answer is true.
- wallets: one per user and currency; of creations that race one succeeds; a
  wallet whose creation was answered is seen by every later read.
- lists: a walk over the pages meets every row that was there, shows none twice
  and is promised no empty page, although movements commit meanwhile and the page
  and the count are two snapshots; the meta data agree with the count.
- rate limiter: no more than `max` requests per window; a refused client is let
  in again; Redis errors let requests through.
- pipeline: nothing unauthenticated or unvalidated takes effect, whatever the
  route; a 500 has a cause outside the service.
- lifecycle: a worker that is told to stop answers what it accepted, and stops;
  workers that die are replaced.

## 2. Modules

| Module | What it is |
|---|---|
| `WalletLedger` | deposits, withdrawals and transfers as concurrent handlers over PostgreSQL; one action per `await` |
| `AtomicLedger` | what they promise: each request takes effect once, at one instant |
| `WalletLedgerProps` | types, safety, action and liveness properties, the refinement, what `WalletApi` takes the handlers to do, the inductive invariant |
| `MCWalletLedger` | the instances: wallets, ids, and the requests each run may choose |
| `WalletLedgerClaims` | what the documentation says and the code does not do, with the requests that show it |
| `WalletLedgerProofs` | the inductive invariant of the books, and what follows from it |
| `WalletLedgerEffectProofs` | what a commit publishes, one effect per reference, ACTIVE wallets, authorisation |
| `WalletLedgerAnswerProofs` | transfers are whole, answers are true, the handlers do what `WalletApi` takes them to do |
| `WalletLedgerAtomicProofs` | no deadlock and what follows for progress, retries, the refinement of `AtomicLedger`, conservation of funds |
| `RateLimiter` | the Redis counter, the workers' connections and the middleware, one action per command and per answer |
| `MCRateLimiter` | its instances |
| `RateLimiterProofs` | its theorems |
| `HttpPipeline` | the middleware of every route, what it refuses and hands on, error codes and statuses, as functions of a request |
| `WalletApi` | every endpoint behind that pipeline: creation, lists and reads of wallets in full, the money operations from the outside |
| `MCWalletApi` | its instance |
| `WalletApiProofs` | its theorems |
| `LedgerPaging` | the two lists: validation, pagination, the two statements, and a client who walks over the pages |
| `MCLedgerPaging` | its instance |
| `LedgerPagingProofs` | its theorems |
| `Lifecycle` | primary, workers, signals, shutdown, requests in flight, outages of PostgreSQL and Redis |
| `LifecycleProofs` | its theorems |

`WalletLedgerProps` extends `WalletLedger` and instantiates `AtomicLedger` and
`WalletApi`, each with its variables as functions of the ledger's.
`WalletApi` extends `HttpPipeline`. The proof modules of the ledger extend each
other in the order of the table. The other models share no variables: each takes
from the next only what it promises (a movement takes effect or is refused in
`WalletApi`, a row is committed in `LedgerPaging`, the limiter lets a request
pass or not in `WalletApi`, a request needs Redis and then PostgreSQL in
`Lifecycle`), so that each stays small enough to be checked.

A definition named `X_Y` is `X` with the mistake `Y` (a dropped guard, a missing
sort, no transaction): nothing uses it, and with it in the place of `X` the
property that `PROJECT.json` names under `mutants` fails.

### WalletLedger against the code

`req[r]` is the body after validation (chosen in `Init`, so that a run covers
every combination of requests of its menu), `pc[r]` the handler's next `await`,
`answer[r]` its response. `wallet[w]` is the committed row with its rows of
`transactions`; `draft[w]` is the version that the transaction holding `lock[w]`
sees and writes. `txnRef` and `transferRef` are the two unique indexes: an entry
whose request is not in `commitLog` belongs to an open transaction and makes
other insertions of the key wait.

The path of a handler:

    deposit   load -> replay -> credit -> insertEntry -> commit -> sent
    withdraw  load -> replay -> debit  -> insertEntry -> commit -> sent
    transfer  source -> destination -> replay -> lockFirst -> lockSecond
              -> validate -> insertTransfer -> debitLeg -> creditLeg -> commit -> sent

PostgreSQL is modelled at READ COMMITTED, the default that the code relies on:
plain reads see committed versions; `updateMany` skips a committed row that fails
its predicate without waiting (`GuardedDecrementNone`), waits for the lock of one
that passes, and evaluates the predicate again then; `SELECT ... FOR UPDATE` and
`update` wait. A statement and the read that follows it under the same lock are
one step, since nobody else can write the row in between.

`Fail` is any failed statement (timeouts and deadlock victims included) and the
death of a worker: PostgreSQL rolls back, the client gets a 500 or nothing.
`CommitUnacknowledged` is a COMMIT that took effect and was not heard of. A
client's retry is another request of the menu with the same body. `SetStatus` is
external: no endpoint changes a wallet's status.

### RateLimiter against the code

One key: one route and one client (`count`, `ttl`). `window` remembers whose
latest INCR the counter holds. The path of a request:

    idle -> incr -> counted [-> expire -> expiring] -> passed
                                                    -> ttl -> refused

A command is executed in one step and answered in another, because `link[w]`, the
connection of a worker, may be lost in between; ioredis then sends the command
again (`maxRetriesPerRequest: null` and its default resending), which `LinkDown`
models by moving the handler back. `CommandFails` is the `catch` block: the
request goes on (`opened`). A worker that dies takes its requests along (`lost`).
These are the kinds of `FaultKinds`: a run has those it is about.
The X-RateLimit and Retry-After headers are left out, and so is a Redis that
restarts empty.

### HttpPipeline and WalletApi against the code

A request is what the middleware looks at: the route, the state of its token, the
form of its body (not JSON, clear, encrypted, encrypted but not decipherable) and
what the schemas find in it. `Chain(q)` is the list of middleware that the
`*.routes.js` files give each route; `Result(q, i)` is what the i-th of them makes
of the request, and the first that does not call `next()` decides (`Refuses`),
unless none does (`Admits`). The encryption middleware replaces the body that
those behind it see (`Before`). `ErrorCode` and `Status` are `errorHandler.js` and
the error classes: whatever is no `AppError` becomes a 500. "padded" fields are
the ones that `isValidAmount` trims and the service does not.

The path of a handler in `WalletApi`:

    unsent -> (express.json, notFound) -> limiter -> find -> insert -> sent   create
                                                  -> read -> sent             GETs
                                                  -> move -> sent             money

`limiter` is the await of the limiter; behind it the chain runs without another
await to the controller's first one, so `Limit` is one step. It is a step that Redis
may never allow, and is no part of `Handle`, the awaits of PostgreSQL. `Create` is the
INSERT under the unique index on (user, currency), whose violation (P2002) nobody
maps. `CreateUnacknowledged` and `MoveUnacknowledged` are effects whose answer is
lost, `Fail` is any other failed statement. `known[r]` remembers which creations
had been answered when `r` was sent. `Move` has every outcome that the services
of `WalletLedger` can have, without the books; that they have no others is
`MovesAsTheApiSays`. Seen from `WalletApi` a handler of `WalletLedger` waits at
`move` until it answers, a replay is a 201, and an answer that is lost is as bad
as a 500 (`Heard`).

### LedgerPaging against the code

`stamp` is `created_at`, given before the commit (`Make`, then `Commit`), so rows
become visible in another order than the list's. `query` is page and limit as
sent; `PaginationQuery` is the validator, `Page`, `Limit`, `Skip` and `Take` are
`getPagination`, `PageMeta` is `buildPageMeta`. `ReadPage` and `ReadCount` are the
two statements of `Promise.all`, in either order, each on the rows committed by
then. Rows of one millisecond have no order: `IsPage` allows any. `Answer` hands
the page to a client who asks for the next one as long as `hasNext` says so;
`seen`, `again`, `promised` and `first` are the client's memory, and `overtaken`
remembers a commit between the count and the page of one answer.

### Lifecycle against the code

A slot of the cluster is `starting` (`connectDatabase`, no signal handler yet),
`serving`, `closing` (`server.close` waits, the timer of 10 s runs), `quitting`
(the callback disconnects PostgreSQL and Redis) or `gone`. `Refork` is the
primary's `exit` handler. The primary has no signal handler: `SignalPrimary`
terminates it, and `Orphaned` is Node's cluster module, which exits a worker
whose channel closes. A request in flight has to hear of Redis and then of
PostgreSQL (`needs`); a health check asks both at once. Without PostgreSQL a
statement fails and is answered; without Redis a command waits
(`maxRetriesPerRequest: null`), and stays in the queue when its client gives up
(`leftover`), where `redis.quit()` waits behind it. `primary = "none"` is
`CLUSTER_ENABLED=false`: one process that nobody forks again.

## 3. Runs

### What holds

| Run | Instance | Shows |
|---|---|---|
| `movements` | 3 requests out of 5, 2 wallets, one reference, faults and a freezing operator; 126 000 states | the books, `AnswersAreTrue`, one effect per reference, retries after the commit are replayed, the refinement of `AtomicLedger` |
| `edges` | 2 requests out of 13, 3 wallets, 2 currencies, overflow, unknown, foreign, closed and re-opened wallets, blank references | each refusal beside every other request; a failed credit leg leaves no debit; money moves only as authorised; the handlers do what `WalletApi` takes them to do; the invariant of the proofs, types included |
| `rings` | 3 requests out of 5 around 3 wallets, 2 references, faults, fairness; 297 000 states | no wait cycle through rows, references or both; every request is answered |
| `limiter` | 3 requests on 2 workers, maximum 1, window 2, two failures, fairness; 72 000 states | counts differ and the maximum is kept, whatever fails; until something fails windows end and refusals are justified; requests are decided while their worker is connected |
| `api` | a creation, a second creation or a movement, and a third request of any kind, failures, fairness; 289 000 states | one wallet per user and currency, true answers, clients read their writes, nothing unauthenticated or invalid takes effect, every 500 has a cause, every request that got past the limiter is answered |
| `paging` | 3 rows, a clock of 3, limits 1 and 2, 6 values of each parameter, fairness; 406 000 states | walks meet every row, show none twice and find rows on every promised page; the meta data agree; walks end |
| `lifecycle` | 2 workers with and without a primary, a request and a health check, 3 signals, deaths or outages, fairness; 147 000 states | nothing is disconnected before it answered; told workers stop; a cluster heals; requests are answered unless Redis is away |

Bounds. `Menu` lists the requests of a run and `Init` gives each handler any of
them, twice the same included: that is a retry. Two requests suffice for every
race of two actors; three, for a retry beside its original with a third request
that moves the balance in between, and for a ring that no pair of transfers
closes. Amounts are 1 and 2 and the opening balance 2, so that two withdrawals
compete for what covers one of them. `MaxBalance` is what Decimal(20,4) holds,
small in `edges` so that credits overflow. `StatusChanges` are the statuses an
operator may write. The limiter and the processes count their failures in
`faults`, bounded by the constant `Faults`: for the limiter two are one lost reply
and one death or error beside it; for the processes three are a signal, a death
while the worker closes, and an outage.

In `api` the first request creates a wallet, the second creates the same one,
another one or moves money, and the third is one of every kind of read or of every
kind of refusal; one token, form and set of fields of each kind appears. In
`paging` three rows are the fewest that fill a page, overflow it and leave one to
be committed in between; with limits 1 and 2 and a default of 1 lists end with
full and with partial pages, and the parameters -1, 0 and 3 are refused or lie
beyond the end. The clock reaches 3 so that three rows may have three stamps, or
share one.

Symmetry: in `movements` and `edges` requests are interchangeable, since their
bodies are chosen in `Init`. No run with a liveness property uses it.

Fairness. `FairSpec` assumes weak fairness of each handler's next step: the event
loop resumes a handler whose await is over, PostgreSQL grants a lock that is
free, and Redis answers over a connection that is up. Weak fairness of a handler
suffices because transactions end: whoever waits for a lock waits for finitely
many others, each of which is in `Requests`. `Tick` of the limiter is fair: time
passes. In `Lifecycle` the steps of processes are fair too, the expiry of the
10 s timer and the exit of orphans included. In `WalletApi` only the awaits behind
the limiter are fair (`Handle`): the limiter's await, `Limit`, may wait for Redis for
ever, so `EveryRequestAnswered` of that module speaks of the requests that have got
past it, and how far those in front of it come is `EveryRequestDecided`'s, which
excuses the ones whose connection is down. Nothing else is assumed: `Fail`,
`SetStatus`, signals, deaths, the clients' arrival and giving up, commits beside a
walk, and above all the return of a connection, of Redis or of PostgreSQL.
`ClusterHeals` therefore speaks of behaviours in which PostgreSQL is there to
stay, and `AcceptedIsAnswered` excuses requests while Redis is away.

No run switches the deadlock check off: `Quiescent` is a step only when every
request is answered. Where failures are possible they always end a transaction,
and `NoWaitCycle` states what the deadlock check would have found.

### What the documentation says and the code does not do

| Run | Disagreement |
|---|---|
| `spelling_deadlock` | ids are sorted as the strings of the body and locked as uuids: an upper-case spelling reverses the order, and opposing transfers deadlock (PostgreSQL aborts one: a 500) |
| `foreign_replay` | one index for the references of deposits and withdrawals of all wallets: a withdrawal is answered with a deposit |
| `concurrent_retry` | a retry beside its original may be refused for the funds the original spent, although the withdrawal succeeded |
| `limiter_eternal` | a worker that dies between INCR and EXPIRE leaves a counter that never expires |
| `shutdown` | a signal to the primary of a cluster terminates it at once, and its workers drop what they are answering |

`limiter_eternal` has deaths of workers as its only failures, so that its
counterexample shows that cause and no other. Two others lead to the same state, as
`FaultKinds = {"command"}` and `FaultKinds = {"connection"}` show in its place: an
EXPIRE that fails, and an INCR that is executed, loses its reply and is sent again,
so that no reply is 1 and nobody calls EXPIRE.

### Observed, without a run

These show in the models, and are left without a run of their own because they
restate one line of the code, or follow from a run above:

- The same-wallet check compares strings: two spellings of one id pass it
  (`edges` has such a transfer; its two legs cancel out and the books stay exact).
- A replay reports the balance of now, not that of the original answer
  (`X/services/transfer.create.service.js:58`).
- `debit` returns `null` both for a wallet that was frozen meanwhile and for
  missing funds; the service reports missing funds.
- The loser of a creation race gets a 500 where `W/docs/wallet.create.docs.js`
  promises a 409 (`InternalErrorHasCause` lists the case).
- An amount with blanks around it passes validation and fails in
  `Prisma.Decimal`: a 500. So does a body that is not JSON, in `express.json()`.
- While Redis is unreachable the limiter waits for it, and does not fail open; the
  health check hangs where it should say 503.
- The limiter runs before `auth` on every route, so `req.user?.id` is never there
  and clients are told apart by address only.
- Rows of one millisecond have no order of their own, so pages may overlap or
  skip; and a row that is committed between the count and the page of the last
  answer pushes another one off the walk. `EveryRowMet` needs both preconditions:
  without either one TLC finds a walk that misses a row.
- The container starts node under `sh -c`, which may not pass SIGTERM on.

## 4. Proofs

Every theorem is checked by TLAPS for all values of the constants: any sets of
requests, wallets, ids, references and workers, every menu and opening balance,
with and without failures.

`WalletLedgerProofs`:

| Theorem | |
|---|---|
| `BooksAreKept` | `Spec => []BooksInv`, the inductive invariant |
| `TypeCorrect` | `Spec => []TypeOK` |
| `LedgerIsExact` | a committed balance is what the committed rows add up to, and each row's `balance_after` is its prefix's |
| `BalancesNeverNegative` | no balance or `balance_after` is negative, in open transactions included |

`LedgerExplainsBalance` and `NeverNegative` are not inductive: nothing in them
says why a commit, which copies drafts into the table, copies good ones.
`BooksInv` adds

- `Routed`: an operation's handler is only where its operation leads, and the
  wallets it has loaded exist;
- `LocksHeld`: the rows a handler has locked are a function of where it is, so
  that two handlers never write one row and a rollback undoes only its own;
- `DraftsLocked`: a row nobody has locked is as it was committed;
- `DraftsExplained`: a draft's rows add up to its balance, except between the
  UPDATE and the INSERT of one transaction, where the balance is ahead by the
  amount (`Ahead`);
- `Funded`: what `validate` saw under the row locks holds until the debit.

`TypeStep`, `RoutedStep` and `RowsStep` prove the three parts, one step per
action; `Rows...` lemmas say how reading, writing, rollback and commit of drafts
act on the rows. They assume the named assumptions of `WalletLedger` only
(`NoWallet` and `NoRequest` are outside their sets, ranks are injective, the menu
consists of validated bodies).

`WalletLedgerEffectProofs` starts from one case distinction, `StepKinds`: a step
reads, writes one row under its lock, inserts one key, commits or rolls back.

| Theorem | Argument |
|---|---|
| `DebitsAreOfActiveWallets` | `ActiveInv`: a handler that has debited or validated holds the locks of ACTIVE wallets, and an operator waits for them |
| `PublishedByCommit` | `GrowthInv`: a draft extends the committed ledger with rows of the handler that holds the lock |
| `ReferencesTakeEffectOnce` | `RefsInv`: every row, of open transactions too, is in its index under its reference, and no two rows share one |
| `OnlyOwnersMoveMoney` | `Permits` follows a handler from the check of the caller to the commit; `Justifications` says the same of every row that it leaves behind |

`WalletLedgerAnswerProofs`:

- `TransfersAreWhole`, by `LegsInv`: which legs a ledger has is a function of
  where the handler is, in drafts, and of the commit log, in the table.
- `AnswersTellTheTruth`, by `AnswersInv`: the balance that a handler will report is
  that of the row it wrote, which nobody else has touched, and a row under an
  index key is of the kind that uses the index.
- `ReplaysOfOwnBodies`: a replay is of the same body if clients use a reference for
  one operation only (`OneBodyPerReference`). `foreign_replay` is what happens
  when they do not.
- `HandlersMoveAsTold`: `Spec => MovesAsTheApiSays`. `OwnErrors` lists the errors of
  an operation, `ApiRefuses`, `ApiReplays` and `ApiCommits` say what `WalletApi` sees
  of an answer, `ApiStutters` that it sees nothing else; `HandlerMoves` goes through
  the actions. `Routed` is needed to know whose error it is.

`WalletLedgerAtomicProofs`, however the ids are spelled:

- `FundsAreConserved`: the sum of the balances is the opening one plus what the
  committed deposits and withdrawals moved. That is not
  inductive: a commit publishes drafts, so one has to know by how much those of
  its request differ from the table (`InFlight`), which for a transfer is as much
  on one side as on the other. The library's sums over finite sets come with no theorems and are
  defined by recursion over the set; lemmas derive what one more element, or one
  changed value, does to a sum, by a least counterexample.
- `LateRetriesAreReplayed`: a retry that looks for its reference after the original
  committed is shown the original's row. `KeysHeld` says that a committed key is in
  its index under its own request for good. A retry that looks earlier may be
  refused: `concurrent_retry`.
- `HandlersGoForward`: each step of a handler takes it to a later stage (`Stage`),
  so that it has at most ten to take.

and, under the assumption `OneSpelling` (each wallet has one id, as the service
prints them):

- `NoDeadlock`: who has written waits for nobody, and who waits for a key waits
  for one who has written (`KeysInv` says whose a key is). So a circle would be of
  handlers between their two locks, each waiting for the first row of another,
  whose id is of higher rank: ranks would grow without end (`RanksBounded`: ids
  are finitely many). The assumption is needed: `spelling_deadlock` violates it
  and has the circle.
- `SomebodyGoesOn`: as long as a handler runs, one that runs has its guards met
  (`CanGo` spells them out: a row that can be locked or fails the predicate, a key
  that is free or taken for good). With `HandlersGoForward` this is the safety half
  of `EveryRequestAnswered`: only finitely many steps are left, and one of them can
  always be taken. That it is taken is fairness, and is checked by `rings`.
- `HandlersAreAtomic`: `Spec` implements `Atomic!Spec`. The commit is the step of
  `AtomicLedger`, every other step stutters. `DrawnInv` says that a draft is what
  the atomic step would compute from the table as it is now, since the rows are
  locked; `Capped`, that it fits the column; `ActiveInv` and `Permits`, that the
  atomic step's guard holds at the instant of the commit. `movements` checks the
  refinement on an instance that satisfies the assumption.

`RateLimiterProofs`: `CountsDiffer` (requests counted in one window have
different counts, at most the counter, and who passed has one of at most `Max`)
is inductive as it stands; `LimitIsKept` follows, because the counts map the
requests that passed one to one into `1 .. Max`. `CounterIsGivenExpiry` needs that
the key is gone exactly when its time to live says so (`ExpiryInv`), and
`RefusalsAreDue` that the counter is the number of requests in the window
(`CountedOnce`), both as long as nothing fails. `LockoutIsForEver` is about the
state that `limiter_eternal` reaches (`LockedOut`: the counter is at the maximum, has
no expiry, and nobody is on the way to set one): it lasts, and whoever is counted in
it is counted beyond the maximum, so that the disagreement is not one of timing.

`WalletApiProofs`, for any number of requests of any kind:

- `WalletsAreUnique`: the unique index alone keeps it, wherever the handlers are.
- `OnlyAdmittedTakeEffect`: lemmas compute the chain of a route that writes and
  what it admits; `AdmissionInv` carries that to the handlers that may still write.
- `ApiTypes`, `ApiAnswersAreTrue`, `ClientsReadTheirWrites`, `NoFailureOfItsOwn`,
  `OneCreationSucceeds`: `ApiInv` says where a handler may be and that it has done
  nothing before it answers (`Placed`), that known wallets have rows (`Knows`),
  that an answer is true, a success of an authenticated client included
  (`Truthful`), and that every row is seeded or of a creation
  that was answered or failed (`RowsInv`). Rows only grow, so what was true of an
  answer stays true when others act (`StaysTrue`); each action then has to prove
  its own answer.

`LedgerPagingProofs`, for lists of any finite length and every page and limit:

- `MetaDataAgree`: lemmas on pages and rounding division against the definition
  that counts pages (`Pages`).
- `PromisesAreKept`: `ServedInv`, the count of an answer was reached before, and
  lists only grow.
- `WalksMeetEveryRow`, `NoRowIsShownTwice`: the rank of a row is how many newer
  ones there are. A page holds the rows whose ranks are its own (`PageRanks`), and
  ranks only grow: `WalkInv` says that a row not yet met is ahead of the walk, and
  while nothing is committed a row that was met is behind it.
- `WalksAreFinite`: each request of a walk asks for the page after the one before,
  and never for one beyond the number of rows there are. `WalkEnds` is this and
  fairness.
- `PagingTypes`: the types, which the other invariants rest on.

`LifecycleProofs`: `WorkersDrain`, `LifecycleInv` is inductive as it stands.
`GracefulWithoutPrimaryLoss`: what the run `shutdown` refutes holds as long as the
primary lives, or there is none; a request is dropped with its worker only if the
primary is gone (`LostToPrimary`).

All of this rests on the named assumptions of the modules only, which TLC
evaluates in the runs (that the wallets are finitely many is one: a sum over them
needs it), on `OneSpelling`, `RanksBounded` and `OneBodyPerReference` where they are
named, and on the library's theorems about finite sets and well-founded induction.

Only model-checked:

- liveness, which needs fairness and `ENABLED`: `EveryRequestAnswered` (of both
  modules), `EveryRequestDecided`, `WindowEnds`, `WalkEnds`, `StopsWhenTold`,
  `ClusterHeals`, `AcceptedIsAnswered`;
- the claims that fail, and of which `ReplaysOfOwnBodies` and
  `GracefulWithoutPrimaryLoss` prove what is left of them.

## 5. What could follow

- More of the safety half of the liveness properties, as `SomebodyGoesOn` and
  `HandlersGoForward` for the ledger: that a counted request of the limiter is
  decided or its worker is cut off, and that a closing worker only goes towards its
  exit.
- An abstract limiter, and `RateLimiter` as an implementation of it while nothing
  fails.
- `LedgerPaging`'s commits as what `WalletLedger`'s ledgers do, in the way
  `MovesAsTheApiSays` ties the handlers to `WalletApi`. The product of two models is
  too large for TLC; what one takes from the other can be stated and proved.
- A Redis that restarts empty in the middle of a window.
- The strings of amounts: `isValidAmount`, `toMoney` and Decimal(20,4) as functions
  on sequences of characters.

## 6. What is not modelled

- The ciphers and signatures of payload encryption and tokens: the libraries'.
  Whether a body decrypts and a token verifies is an input.
- `serviceAuth`: no route uses it.
- Logging, the request context and swagger: no state that a property is about.
- Configuration: read once at the start; what the models need of it are constants.
- The seed and the container files: outside the service.
- `ipTracker` beyond its place in the chain: it sets `req.clientIp` and `req.geo`,
  which only the limiter's key and the logs use.
- The characters of amounts and money formatting: amounts are counted in units of
  0.0001, which is what the column holds. Balances that do not fit are `edges`.
- The plain indexes of the tables, and the health check's body.

PostgreSQL, Redis, Prisma, ioredis and Node's cluster module are modelled as far
as the code relies on them, and marked external in `PROJECT.json`.
