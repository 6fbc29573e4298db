# ForgeTSS in TLA+

ForgeTSS takes signed Stellar transactions over a REST API, keeps them in
Postgres and submits them to Horizon or Soroban.  Several replicas share one
database, and nothing but single SQL statements orders what they do.  These
modules model that part of the program, the TLC configurations check it on small
instances, and the proof modules prove the results that do not depend on the
instance.  Paths are relative to the repository's root.

The repository does not compile as committed (unused and missing imports,
`getEnvStrings` is not defined, `rpc.Router` has no `Account` although `main`
passes it as the pool's Horizon client, `Pool.store` is a pointer to an
interface, the embed path leaves its package).  The modules translate the bodies
of the functions and the wiring `cmd/forgetss/main.go` sets up.

## Inventory

| component | state | operations |
|---|---|---|
| Channel account pool: `internal/channelaccounts`, `internal/store/channelaccounts.go` | table `channel_accounts`: status, sequence number, last use; a row lock during a lease | `Lease`, `Release`, `UpdateSequenceNumber`, `SyncSequenceNumbers`, `Refill` |
| Transaction store: `internal/store/transactions.go` | table `transactions`: status, retry count, two nullable columns, creation time | insert, unconditional status update, increment of the retry count, oldest pending row, row for a retry |
| Queue worker: `internal/submission/engine.go` | local variables of one `processBatch` per replica | `ProcessQueue`, `processBatch`, `Enqueue`, `failTransaction` |
| Retry: `internal/submission/retry.go` | local variables of each call | `Retry`, `createFeeBump`, backoff |
| RPC router and clients: `internal/rpc` | two round-robin counters shared by all calls; the round and the endpoint of each call | `route`, failover over endpoints, status query |
| REST API and event stream: `internal/api` | none besides the store; one goroutine per stream with its last row | enqueue, status, stream |
| Go client: `pkg/client` | the bytes of the stream it has read | enqueue, status, stream parser |
| Start of a replica: `cmd/forgetss/main.go`, `internal/config`, `internal/store/migration.go` | table `_migrations`, the tables themselves, the open transaction of each replica | configuration check, one transaction per migration, start of worker and API |
| Bearer tokens, metrics, scripts | none that changes | |

**How they interact.**  The API inserts a `pending` row.  Each replica's worker
polls for the oldest pending row, marks it `submitting`, leases a channel
account, stores the account's next sequence number, submits the envelope through
the router, releases the account and writes `confirmed` or `failed`.  These are
up to six statements and a network call with no transaction around them. `Retry`
reads a failed row, waits, counts the attempt, marks the row, submits a fee bump
and writes the result; it shares the row with the workers and with other calls
of itself.  The sync overwrites sequence numbers of rows other replicas may be
leasing.  All calls of the router take their endpoints from shared counters.
The event stream reads the row the workers write, every two seconds, and sends
it as text that the client reads in pieces.  Replicas that start run the
migrations side by side before any of this.  A leased account is a token only:
the envelope is submitted as the caller sent it, so the account's sequence
number never meets the network through the engine.

Nothing in the repository calls `Retry`, `SyncSequenceNumbers`, `Refill`,
`Router.GetTransactionStatus` or `Engine.Enqueue`: the API stores rows itself.
They are modelled as callers would run them, beside working replicas, which is
what their comments describe.  The status `submitted`, listed in `API.md:62-68`
and `README.md:98`, is declared and never written; the models have no such
status.

**What is hard.**  Interleavings of replicas between statements; a decision on a
row read earlier (the worker's fetch, the retry's checks, the sync's list, the
stream's tick, the set of applied migrations); statements that fail, with or
without effect, in the middle of a batch; a commit whose acknowledgement is
lost; submissions that are lost or whose answer is, and that the router sends
again elsewhere; a process that stops anywhere (`main` handles no signal, so
every stop is a crash); rows and accounts no code path ever returns to; a byte
stream that is not cut where its events are.  `PROJECT.json` lists each hazard
at its line with the property aimed at it.

**What correctness means.**

* Pool: an account has one holder; nobody else changes its number; the SQL
  transaction behaves as one atomic lease; the sync raises numbers only.
* Store and worker: the queue is served first come, first served; a replica
  submits an envelope once; `confirmed` is true and final; `failed` is true;
  every queued transaction settles; every account comes back; a replica that
  hangs in a call holds up nobody else.
* Retry: at most `MAX_RETRY_ATTEMPTS`, but for races; it settles.
* Router: it sends again only on a network that may fail, answers what the ledger
  says, tries every endpoint before it gives up, and returns.
* Event stream: no event is older than the row was at the event before; the
  client sees statuses in order; the handler ends.
* Start: a table exists exactly when its migration is recorded, in order; a
  replica serves on the whole schema only; replicas that start together do not
  all make each other exit.

## Modules

| module | what it models |
|---|---|
| `AccountPool` | the pool as the engine sees it, an abstract specification: a lease is one step |
| `ChannelAccounts` | the pool statement by statement: `SELECT .. FOR UPDATE SKIP LOCKED`, `UPDATE`, `COMMIT` with row locks, the autocommit updates, sync and refill; implements `AccountPool` |
| `Envelopes` | the transactions, how the router classifies them, the faults a run allows |
| `TransactionStore` | the `transactions` table; one operator per statement |
| `StellarNetwork` | external: the ledger, and what `Router.SubmitTransaction` may return |
| `TransactionLife` | one transaction as its caller sees it, an abstract specification: its statuses, whom it queues behind, the ledger |
| `Submission` | a call of `SubmitTransaction` as the engine sees it, an abstract specification over the operators of `StellarNetwork` |
| `Router` | the calls endpoint by endpoint, with the shared counters; implements `Submission` |
| `ProcessQueue` | `processBatch` of every replica, over `AccountPool`, `TransactionStore` and `StellarNetwork` |
| `Retry` | `Engine.Retry`, over `TransactionStore` and `StellarNetwork` |
| `SubmissionEngine` | the composition: API, workers, retries, refill, network; properties and fairness; implements `TransactionLife` |
| `StatusStream` | `streamHandler`, the byte stream and `StreamStatus` |
| `Startup` | `main`, `Load`, `migrate` and `runMigration` of several replicas |
| `MCChannelAccounts`, `MCSubmissionEngine`, `MCRouter` | the symmetries, and the values of `Kind` and `Calls`, for TLC |
| `AccountPoolProofs`, `ChannelAccountsProofs`, `SubmissionEngineProofs`, `LifeProofs`, `RetryBoundProofs`, `RouterProofs`, `StreamProofs`, `StartupProofs` | proofs |

**Correspondence.**  One action is one database statement or one network call.
The `INSERT` of a transaction is two, `Post` when it begins and `Enqueue` when
it has committed, because its row carries the time of the first and can be read
from the second on, and handlers of several requests do this at a time.
`acctStatus`, `acctSeq`, `txStatus`, `txRetry` are the committed columns;
`pc[r]` is where replica `r` is in `processBatch`, `job[r]` its `tx`, `held[r]`
and `leaseSeq[r]` its `acct`, `outcome[r]` what `SubmitTransaction` returned.
`rpc`, `rjob`, `routcome` are the same for a call of `Retry`.  In
`ChannelAccounts` `lockedBy` is the row lock and `phase[r]` the progress of the
lease transaction; read committed isolation hides the uncommitted `UPDATE`, so
it shows in `phase` only.  `sentBy` and `savedFirst` (the rows that could be
read when an `INSERT` began) are history variables.

A failing statement either took effect or did not, and the worker goes on as the
code does after the error: it returns, or logs and continues.  A crash loses the
local variables of a replica and leaves the tables; a crash while a lease is
asked for may leave it committed.

In `Router` a step is the choice of an endpoint, a call of a client or its
return: `idx` is `horizonIdx` and `sorobanIdx`, `left[c]` the rounds the loop of
call `c` has left, `endpoint[c]` its client.  The counters are kept modulo the
number of endpoints, which is all the code reads of them.  `tried`, `sent` and
`alone` are history variables.  The worker and `Retry` use the operators of
`StellarNetwork` that `Submission` is made of (`Send`, `SendAgain`, `MayAnswer`,
`MayFailUnsent`), so `ImplementsSubmission` is what allows the engine to be
modelled without endpoints.

`TransactionLife` has the column `status` as callers and the queue see it, for
each transaction the ones stored when it was posted, and the set of applied
transactions; `Life` in `SubmissionEngine` is the mapping.  No `UPDATE` of the
store looks at the status it overwrites, so the arrows submitting to confirmed
or failed, and failed to submitting, are promised to a service with one worker
and one retry at a time only (`Alone`), and that a failed transaction is not in
the ledger only if errors are true as well (`Truthful`).  What it promises to
every service: a row enters the queue once and leaves it after all that were
stored when it was posted; `confirmed` is written when the ledger has the
transaction; the ledger takes a transaction once and not before it left the
queue.

In `StatusStream` the row is the number of its updates: statuses repeat, and the
properties are about which update an event shows.  `events` is what the handler
has written; an event is seven pieces, cut at every place where the end of a
read changes what `StreamStatus` does (before and after the prefix `event:`,
inside and after the name, inside and after the data).  `Read` takes any number
of written pieces.  In `Startup` `open[r]` is the migration whose transaction
replica `r` has open; the uncommitted `CREATE TABLE` is visible to the others
only as a wait.

**Abstractions.**

* `created_at` is `DEFAULT now()`, the time its `INSERT` begins.  Only the order
  of these times is kept: two inserts may begin at one time and they commit in
  any order, so rows can tie and an older row can appear after a younger one has
  left the queue.  Two things are assumed of the database's clock: it does not
  go back, and an `INSERT` that begins after another row could be read gets a
  later time than that row has.
* The lease's `ORDER BY last_used_at` is not modelled: the times come from the
  clocks of several replicas, so any idle unlocked row may be returned.
* In `ProcessQueue` a lease finds nothing when the idle rows do not outnumber
  the replicas that are leasing: each of them may have locked one.
* Ledger verdicts stand for sequence numbers: an envelope and its fee bump share
  one, so at most one of them is applied, once.  The network may also reject any
  envelope.  A rejected envelope that is sent again is decided again.
* A rejected envelope shows: the call returns an error or an operation code
  (`MayAnswer`).  `processBatch` writes `confirmed` when there is neither
  (`engine.go:146-157`), and Horizon reports a transaction that fails before its
  operations are tried by a transaction code; that this comes as an error is an
  assumption about the SDK, which the code relies on and never checks, and
  `ConfirmedApplied` rests on it.
* `Retry` builds every fee bump from the stored envelope, so all of them are one
  form of the transaction.  The SDK decides whether `route` can parse the raw
  bytes handed to it, so a Soroban fee bump may take either way.
* `NullReadable`: a new row has NULL in `channel_account` and `last_error`, and
  the Postgres store scans them into Go strings, which pgx refuses.  The
  constant is `FALSE` for that store and `TRUE` for one that reads back what it
  saved, such as the fake in `engine_test.go`.  Runs about the algorithm use
  `TRUE`, since with `FALSE` no row is ever fetched.
* `isRetryable` classifies errors by kind; in `Router` a network failure may
  either lead to the next endpoint or end the call.
* A migration is one `CREATE TABLE`, as both files in `migrations/` are.

## Runs

Passing runs:

| run | instance | shows |
|---|---|---|
| `pool_refines` | 2 replicas, 1 sync, 2 accounts, numbers to 3 | the SQL implements `AccountPool` (`ImplementsPool`); locks and phases agree (`RowLocks`); `LeaseExclusive`, `SequenceOwned`; `TypeOK` |
| `engine_faulty` | 2 replicas, 2 concurrent retries, 1 transaction, 2 accounts, limit 2, all faults | `ConfirmedApplied` with fee bumps racing the original; `OncePerReplica`; `RetryBound`: the limit is overshot by fewer than the concurrent calls; `LeaseExclusive` and `TypeOK` along the engine's error and crash paths |
| `engine_solo` | 1 replica, 1 retry at a time, a classic and an unparsable envelope, failing statements and crashes | `failed` means not applied (`NoFalseFailure`); a confirmed status is final (`ConfirmedIsFinal`); a transaction's life follows the arrows of `TransactionLife` (`ImplementsLife`) |
| `engine_live` | 2 replicas, a classic and a Soroban transaction posted at any time, lost submissions, one account and a second to be refilled; no crash, no failing statement | `QueueOrder`, `SubmittingHasWorker`, `ReturnedAdvanced`; under fairness `OneReplicaServes`, `SettlesEventually`, `AccountReturned` |
| `router_calls` | 2 concurrent calls, 2 Horizon and 2 Soroban endpoints, status queries, failing endpoints | the router implements `Submission` (`ImplementsSubmission`); an undisturbed call that gives up has tried every endpoint (`AloneTriesAll`); every call returns (`CallReturns`); no index leaves its slice (`TypeOK`) |
| `status_stream` | 4 events, 3 updates, every way of cutting the stream | `FreshAtTick`, `InOrder`, `AlignedDelivery`, `HandlerReturns` |
| `startup` | 3 replicas, 2 migrations, any configuration, any earlier release, failing statements and crashes | `SchemaMatches`, `AppliedInOrder`, `ServingHasSchema`, `OneServes` |

Several properties name the condition under which they hold and fail without it.
`ConfirmedIsFinal` needs a single worker and `NoFalseFailure` a network whose
answers arrive, so `engine_solo` says nothing of the races and lost answers
under which a status is overwritten or false.  `ReturnedAdvanced` needs
statements that succeed; `AccountReturned`, `SettlesEventually`,
`SubmittingHasWorker` and `OneReplicaServes` need them and processes that do not
stop: `engine_live` has no `"db"` and no `"crash"` fault.  Adding one to the
`Faults` of `Live.cfg`, or a second replica to `Solo.cfg`, shows the
counterexample; a row left `submitting` or an account left `leased` by a crash
or a failed statement is never looked at again, and an account released after
its `UpdateSequenceNumber` failed is leased with the old number.  These are
what the code does, and `PROJECT.json` says at each such hazard where its
property stops.  `QueueOrder` promises an order only to a transaction posted
after another could be read; between two that are saved at the same time there
is none, whatever their `created_at`.  `OneReplicaServes` has one premise, that
the calls of this one replica return, and none about the others.
`AloneTriesAll` needs that nobody moved the
shared counter between the rounds of the call: with two calls alternating over
two endpoints each may meet one endpoint twice and report that all have failed.
`AlignedDelivery` needs reads that end where events end; `InOrder` does not, and
says what is left for a stream that is cut anywhere: events are lost and a
status may carry the name of the event after it, but nothing is reported twice
or out of order. `OneServes` needs a poll interval above zero: `Load` accepts
others, and such a replica can win the migrations, make the others exit and then
stop in `time.NewTicker`.

Runs that refute what the repository says; each is a finding in `PROJECT.json`:

| run | what the code does |
|---|---|
| `double_pickup` | two replicas fetch one row, both mark it `submitting` and both submit it (`engine.go:116`) |
| `retry_strands` | a fee bump whose submission errs leaves the row `submitting`, and `Retry` refuses it from then on (`retry.go:62`) |
| `null_scan` | with the Postgres store the queue query fails on every new row |
| `soroban_failed` | `submitSoroban` returns success as an error, and an applied transaction is marked failed (`router.go:148`) |
| `sync_lowers` | the sync compares with the number it listed and overwrites a higher one (`sync.go:43`) |

That concurrent retries pass the limit together, because the `FOR UPDATE` of
`GetTransactionForRetry` runs outside a transaction (`transactions.go:121`), is
what `RetryBound` measures: it would hold with the limit itself if the lock did.

**Bounds.**  `MaxSeq` of `ChannelAccounts` is a bound inside a guard
(`UpdateSequenceNumber` and `AdvanceNetwork`); 3 lets two leases of one account
and a sync in between move the number, and the network run ahead of it.
`MaxUpdates` and `MaxEvents` of `StatusStream` bound the row and the stream: a
first event, two that a handler reads at ticks, with an update before, between
and after, and an error event; a read spans up to four events.  The other
modules have no such bound: rows are finite, a row is processed a bounded number
of times because it never becomes pending again, a call has finitely many
rounds. Two replicas give every pairwise race over a row, an account and a lock;
two transactions give an order to the queue; two accounts make both exhaustion
and choice possible; two retriers are needed to overshoot the limit.  Two calls
over two endpoints are the least in which one call's rounds are disturbed; three
calls or three endpoints take the run beyond some minutes, and the refinement is
proved for any number.  Three replicas let one lose a race against the winner
and another against a replica that was started again; two migrations are what
the repository has.  Symmetry is used in runs without liveness only
(`pool_refines` checks a safety refinement).  Crashes and faults are not
counted.

**Deadlock** is checked in every run but `status_stream`, where a returned
client and an ended handler are the end.  `EmptyPoll` is a stuttering step of
the idle worker, so the composition as such cannot deadlock while a worker is
idle; that a worker whose calls return does not get stuck in the middle is
`OneReplicaServes`.

**Fairness.**  `SubmissionEngine`: `FairSpec` has what the program does by
itself, weak fairness of the call of `SubmitTransaction` that a worker or a
retry is about to make.  Everything else waits for somebody.  The statements of
`processBatch` and of `Retry` run on the same context as the submission,
without a deadline (`main.go:55`), the connection pool sets no statement or
acquire timeout (`postgres.go:23`) and the Horizon client none either, so that
the database and the network answer is no part of the specification but a
premise of the properties that need it: `WorkerAnswered(r)` says that the
statements of one replica return and that it does not wait for the network for
ever, `RetryAnswered` the same of a call of `Retry`, `AllAnswered` of all.  No
fairness for callers, operators, crashes, lost answers or cancelled retries.
`Router`: a call goes on, and its
endpoint answers or fails.  `StatusStream`: the handler goes on, and the 60
seconds of `middleware.Timeout` pass; the client may stop reading. `Startup`:
every replica is started once, and `main` goes on; restarts are not assumed.
Weak fairness is enough in all of them, because no process keeps disabling and
enabling the step another one is at.

## Proofs

For all replicas, accounts, transactions, retries, calls, endpoints, migrations
and faults, from the named assumptions (`NoAccountAssumption`,
`ChannelAccountsAssumption`, `EnvelopesAssumption`, `NullReadableAssumption`,
`RetryAssumption`, `RouterAssumption`, `StreamAssumption`, `StartupAssumption`:
sentinels differ from real values, transactions and retries are finitely many,
types of the parameters):

* `PoolSafe`: `AccountPool` keeps leases exclusive and numbers owned.  The
  inductive invariant `PoolInv` is the conjunction of the three;
  `LeaseExclusive` carries `SequenceOwned`, because a step on another row cannot
  be a step on mine.
* `LocksSafe` and `PoolImplemented`: `ChannelAccounts` keeps `TypeOK /\
  RowLocks` and implements `AccountPool`.  Each statement maps to an operation
  or to a stutter: `CommitLease` to `Lease`, `CommitUnacknowledged` to
  `LeaseUnacknowledged`, the sync's `UPDATE` to `Reconcile`.  `RowLocks` is
  needed for `CommitLease`: at the commit the row must still be idle and carry
  the number the `SELECT` read, which is what the lock gives.
* `SqlLeasesSafe`: so the SQL, too, keeps leases exclusive and numbers owned.
  Its proof is the refinement and the lemmas of `AccountPoolProofs`, nothing
  else.
* `EngineRefinesPool` and `EngineLeasesSafe`: every step of the composition is a
  step of `AccountPool` or leaves its variables alone (`EngineUsesPool`), so the
  engine refines `PoolSpec`, and the leases are exclusive as `PoolSafe` says of
  that.
* `EngineTypes`: the type invariant of the composition.
* `EngineSafe`: `ConfirmedApplied` and `OncePerReplica`.  Neither is inductive:
  the invariant adds `JobsInHand`.  A worker that learned `ok` has its envelope
  in the ledger and ledger entries are never undone; a row a worker has marked
  is never pending again, and only such rows were ever submitted.  A failover
  sends again and leaves all of this alone.
* `QueueOrdered`: `QueueOrder`, for any number of handlers that save at the same
  time.  A replica marks a row some steps after it found that row the oldest;
  `FetchedInTurn` says that none of the rows stored before it was posted is
  pending by then, because no row becomes pending twice.  That it held when the
  row was fetched is `InsertOrder`: a row is younger than every row that could
  be read when its `INSERT` began, and those can be read still.
* `LeasesAdvance`: `ReturnedAdvanced`, if statements succeed (`~ DbFault`).
  `HoldsLease` relates a worker's place in the batch to the row of its account:
  leased with the number the lease returned before the update, with the next one
  after it.
* `MarkedRowsHaveWorkers`: `SubmittingHasWorker`, if there is no retry and
  nothing fails or stops; several replicas may have marked one row, and the last
  of them that returns leaves it settled.
* `LifeImplemented`: the engine implements `TransactionLife`, for any number of
  replicas and retries and whatever fails.  The invariant is `LifeInv`: the ones
  above, `SentOffQueue` (only rows off the queue were sent), and for the arrows
  that need them `AloneInv` and `TruthInv`.  `AloneInv` is the heart: with one
  worker and one retry the rows they are at differ, each finds its row
  in the status it left it in, and what it read earlier is still so.  `TruthInv`
  adds that a form of the transaction is open in the ledger only while someone
  waits for it.
* `ConfirmedStays` and `FailuresAreTrue`: `ConfirmedIsFinal` under `Alone`,
  `NoFalseFailure` under `Alone /\ Truthful`, from the same invariant.
* `RetryBounded`: `RetryBound`, by a budget: the count of a row plus the calls
  that have passed the check on it and not counted yet (`RetryBudget`) never
  exceeds the limit by the number of calls or more.
* `RouterImplements`: `Router` implements `Submission`.  The strengthening
  remembers why a call may go on: once it has sent its envelope and is not
  waiting, or has used up a round of Horizon, the network has failed it.
* `GivesUpAfterAll` and `RouterTypes`: `AloneTriesAll` and `TypeOK`.  While a
  call is alone the endpoints it has tried are the ones its counter has passed
  since it began (`RoundsInv`, in terms of `Ago`, the number of steps back from
  the counter), so after as many rounds as there are endpoints none is left.
* `StatusesFresh` and `CallsInOrder`: `FreshAtTick` and `InOrder`, for streams
  of any length.  The first needs that the row about to be sent was read after
  the last event; the second is about one read (`ReportsNear`): a name that is
  not the data's own nor the next one's would have been overwritten by one in
  between.
* `EventsDelivered`: `AlignedDelivery`, for streams of any length.  `AlignedInv`
  is the property and that the client stands between two events; the work is in
  what a read of whole events delivers (`ReadDelivers`).
* `StartupSafe`: `SchemaMatches`, `AppliedInOrder` and `ServingHasSchema`.  The
  strengthening follows a migration from its statement to its commit: its table
  is absent, nobody else has it open, and the ones before it are recorded.

Four of these take a hypothesis, the condition named above: `Alone`,
`Truthful`, no failing statements, no crash, no retry.  Each is true of the
instance of the run that checks the property (`Solo.cfg`: one replica, one
retry, no lost answer, no Soroban envelope; `Live.cfg`: no retry, no failing
statement, no crash), and without it the property is false, as the findings and
the last remark on the passing runs say.

Only model-checked: liveness (`SettlesEventually`, `AccountReturned`,
`OneReplicaServes`, `RetrySettles`, `CallReturns`, `HandlerReturns`,
`OneServes`), which the prover does not reach.  Every invariant and every action
property of the passing runs has a theorem.

## Not modelled

* Bearer tokens (a stateless lookup), metrics (nothing in the engine updates
  them), shell scripts and compose files (whose variable names differ from those
  `config.go` reads).
* Parsing and defaults of the configuration; of `Load` only what it refuses and
  what it lets through that stops a replica later.
* `backoffDuration`: float arithmetic whose overflow is platform-defined.  A
  retry may go on at any time after its checks, so no property depends on it.
* `Client.Enqueue` and `Client.GetStatus`, single requests; `getTxHandler` and
  the health check, which change nothing.  A repeated `Enqueue` makes a second
  row.
* Text: XDR, keys, secrets, JSON, the blank that `TrimPrefix` leaves in front of
  an event's name.  A read that returns bytes together with the end of the
  stream is the end of the stream, for the code drops those bytes.
* `Refill` inserts one account per step and its count is left out.  Sequence
  numbers are natural numbers and do not wrap at 2^63.
* `isRetryable`'s classification, see above.

## Plan

Done, in this order: `AccountPool` and `ChannelAccounts`, the store, the worker,
the retry, the composition, `Submission` and `Router`, `StatusStream`,
`Startup`, the proofs of the invariants, `TransactionLife` and its refinement,
the proofs of the action properties.  Left: the steps of the liveness arguments
that are not temporal (which action is enabled where a worker stands, and the
measure that it lowers), stated as invariants.
