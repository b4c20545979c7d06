# Vero relayer service: TLA+ models, checks and proofs

This directory specifies the Vero relayer service: a webhook receiver that puts
merged `wave-contribution` pull requests on a Redis queue, workers that register
each of them on the Stellar ledger with one signed transaction, and a Soroban
contract for M-of-N administration. The specifications are translated from the
code (`index.js`, `stellar.js`, `src/**`, `contracts/vero-admin/src/**`; paths
below are relative to the repository). TLC checks them on small instances, TLAPS
proves theorems about them for every instance.

`tlc -config X.cfg M` runs one check, `tlapm M_proofs.tla` the proofs of `M`.

## 1. Inventory

The JavaScript files are the program; the `.ts` twins (`nonceManager.ts`,
`fee-engine.ts`, ...) are type-checked and not emitted. `batcher.ts`,
`watcher.ts` and `cleanup.ts` have no JavaScript twin and nothing starts them.

| Component | State | Operations | Talks to |
|---|---|---|---|
| Webhook intake (`index.js:35-54`, `event-queue.js`) | none of its own | rate limit, signature, filter, derive job id, enqueue, answer 202 or 500 | GitHub, BullMQ |
| Event queue and retention (`queue/event-queue.js`, `queue/cleanup.js`) | jobs in Redis: state, attempts, stalls, lock | add, clean by state and age | intake, worker, Redis |
| Event worker (`workers/event-worker.js`) | concurrency slots, `closing` | process, shut down, start | queue, submission |
| Submission (`stellar.js`, `relayer/nonceManager.js`, `services/broadcaster.js`, `utils/retry.js`, `db/client.js`) | pooled connections, advisory lock, the call's account and transaction | lock, fetch, build, sign, submit, retry, unlock | PostgreSQL, Redis cache, Horizon |
| RPC cache (`services/rpc-cache.js`) | Redis entries with a TTL | read-through, refuse sensitive replies, clear | submission, fee engine |
| Fee engine (`services/fee-engine.js`) | `cachedEstimate` | estimate, clamp, clear | Soroban RPC, poller |
| Config poller (`services/config-poller.js`, `config-worker.js`) | `process.env`, `dynamicConfig`, interval, worker thread, Redis client | poll, verify, apply, start, stop | Redis, fee engine, logger |
| RPC factory (`services/rpc-factory.js`) | the node of each kind, chosen at load time | get server; rotate and failover, which nothing calls | submission, fee engine |
| Event batcher (`queue/batcher.ts`, `services/batch-sizer.js`) | queue, timer, working size, counts | enqueue, drain, flush | a flush function |
| Rate limiter (`middleware/rateLimit.js`) | counters with expiry in Redis, shared by all servers | count, set the expiry, reject | intake, Redis |
| Watcher (`workers/watcher.ts`) | a map of transactions, not its own | re-queue or fail stalled ones | pool |
| Task purge (`workers/cleanup.ts`) | rows of `tasks` | delete old failed rows | pool, logger |
| Heartbeat (`services/diagnostics.js`) | none | check, report, notify | Slack, RPC node, Redis |
| Error alert (`logger.js:61-128`) | window start, error count, last alert | count, alert | every caller of `logger.error` |
| Admin contract (`contracts/vero-admin/src`) | admins, threshold, nonce, tasks, proposals | initialise, propose, approve and execute | - |
| Logging format, tracing, metrics, JWT, validation | counters | stateless per request or per line | - |

What is hard in this code:

- **Two workers, one account.** Every call reads the account's sequence number
  and submits a transaction with the next one; only a PostgreSQL *session* lock
  keeps calls apart. Sessions end, connections are pooled and reused, unlocking
  can fail and is then only logged.
- **Unknown outcomes.** A submission that times out may have been applied, may
  be applied later, or never. It is resent as it is (same signed transaction),
  and after the last error the call gives up while it may still be in flight.
- **At-least-once processing.** BullMQ delivers a job again after an error, a
  crash or a lost job lock; deliveries come twice from GitHub. Nothing but the
  job id, while Redis retains it, makes them one.
- **Shutdown, crash and restart** of workers with jobs active.
- **Retention** that forgets jobs, and with them the protection by job id.
- **Sequences of legal contract calls** that change the admins and the threshold
  under proposals that are still open.
- **Batches that settle late**, while the sizer already judges the next ones.
- **Configuration that changes under its readers**: two keys read by two
  commands, polls that overlap, settings merged key by key, a cache that is
  cleared while a computation with the old settings is still awaiting its answer.
- **Two Redis commands where one is meant**: the limiter counts and then sets the
  expiry; the RPC cache reads, asks the node, and writes under a key it computed
  before; `clearCache` pages through keys that others are writing.
- **Timers that overlap** on a pool of few connections, whose clients must come
  back whatever fails.

`PROJECT.json` lists each hazard with its line and the properties that watch it.

## 2. Modules

| Module | Models |
|---|---|
| `TaskLedger` | the abstract promise of a submission: an attempt is recorded at most once; an attempt that resolves has been recorded |
| `NonceManager` | submission in full detail; implements `TaskLedger` |
| `MCNonceManager` | two processes, three calls, two connections |
| `NonceManager_proofs` | theorems about `NonceManager` |
| `JobPromise` | the abstract promise of the queue: a job has one life and one outcome, completes only when registered, and is registered within a limit |
| `EventQueue` | intake, queue, workers and retention; uses the promise of a submission, implements `JobPromise` |
| `MCEventQueue` | a redelivered job, once without a number, two workers |
| `EventQueue_proofs` | theorems about `EventQueue` |
| `WebhookIntake` | limiter, signature, filter and job identity of a delivery |
| `MCWebhookIntake` | one address, two servers, events that share a number or an id |
| `WebhookIntake_proofs` | theorems about `WebhookIntake` |
| `VeroAdmin` | the admin contract |
| `MCVeroAdmin` | three accounts, four admin vectors, one of them empty |
| `VeroAdmin_proofs` | theorems about `VeroAdmin` |
| `EventBatcher` | the batcher with its adaptive sizer; `EventBatcher.cfg` and `EventBatcher_doc_scaling.cfg` are instances |
| `EventBatcher_proofs` | theorems about `EventBatcher` |
| `FeeEngine` | concurrent fee estimates and their cache, over an environment |
| `ConfigPoller` | the configuration poller; extends `FeeEngine` and composes with it |
| `MCConfigPoller` | two signed configurations and an unsigned one, one environment |
| `ConfigPoller_proofs` | theorems about `FeeEngine` and `ConfigPoller` |
| `RpcAccess` | fee statistics from the node through the shared cache; `clearCache` |
| `MCRpcAccess` | two processes, two networks |
| `RpcAccess_proofs` | theorems about `RpcAccess` |
| `Background` | watcher and purge on one pool; heartbeat; error alert |
| `MCBackground` | one connection, two watcher runs, three groups of services |
| `Background_proofs` | theorems about `Background` |

The chain from delivery to ledger is modelled in three links, each of which
promises what the next one uses: `WebhookIntake` gives the job ids that
`EventQueue` takes as `JobOf` (`JobIdentifiesEvent` is why, among identified events,
a shared job is a shared event); `EventQueue` lets one slot process a job unless it stalled and takes of a
broadcast what `TaskLedger` promises; `NonceManager` implements `TaskLedger`.
`FeeEngine` has as `StatsArrive` and `StatsFail` what `RpcAccess` details, and
`ConfigPoller` changes the settings of one and the network of the other.

Each module ends with its properties. An operator whose comment begins with
`mutant` is a deliberately wrong variant of the definition that follows it: it
is used by no specification, and substituting it must make a property fail,
which shows that the property can fail.

### NonceManager

One *call* is a slot of a process in which `submitTransaction` runs again and
again (bounded by `MaxCalls`). The control point `pc` follows the awaits:

| `pc` | Code |
|---|---|
| `connect` | `await pool.connect()` (nonceManager.js:34) |
| `lock` | `await pg_advisory_lock` (38) |
| `fetch` | `await fetchAccountFn()` (42) through `rpc-cache.js` |
| `build` | the transaction is built and signed; first submission |
| `submit` | `await server.submitTransaction` (broadcaster.js:50) |
| `backoff` | `await setTimeout(delay)` (retry.js:38) |
| `return`, `throw` | in the `finally` block, with a result or an error |

Everything between two awaits is one action. `Settle` is what the end of the
function does on every path (release the connection, drop the locals, resolve or
reject), and is part of `Unlock` and `UnlockFails`.

External, modelled from how the code uses it:

- *pg pool*: a connection is checked out by one call at a time; released
  connections are reused; an idle one is closed after `idleTimeoutMillis`
  (`IdleClose`, modelled where it matters, when the session holds the lock).
- *PostgreSQL*: advisory locks belong to the session and are re-entrant
  (`holds` counts); a session can be lost under its client (`SessionLost`); a
  statement can be cancelled while the session survives; sessions of a dead
  client live on until the server notices (`stale`, `Reap`). When pg reports a
  broken connection that is checked out it emits an `error` event without a
  listener, which kills the process: `Crash` is that, and `LockFails` and
  `UnlockFails` are the query that rejects.
- *Stellar*: the account's sequence number is the number of its transactions on
  the ledger; a submitted transaction is in `net` until it is applied, if its
  sequence number is the next one, or dropped. It may be lost on the way, late,
  or applied without the caller learning it.
- *Redis cache*: an entry may or may not be there; a read error is a miss. The
  account reply holds an account id, matches `SENSITIVE_VALUE_RE` and is not
  stored (rpc-cache.js:211-216). This guard, not the short TTL, keeps the
  sequence number fresh: without it `SequenceFresh` fails (the mutant
  `NoSensitiveFields`). It also means that account lookups are never served from
  the cache, contrary to broadcaster.js:67.

Abstracted: one account and one lock key; fees, the operation's content,
signatures; the error classes of `defaultIsRetryable` (an error is retried, not
retried, or the last one); the retries of `loadAccount`, which change no state.

### EventQueue

`state`, `failures`, `stalls` and `owner` are what Redis keeps of a job, `proc`,
`job` and `stage` what a worker process keeps. `Deliver` is the webhook handler
for a qualifying delivery; deliveries with one idempotency key share a job
(`JobOf`). A slot takes a waiting job, runs `processEventJob` (`Reject`,
`Broadcast`, `BroadcastSettles`) and BullMQ moves the job by the outcome
(`Move`), unless the slot lost the job's lock meanwhile. `Stall` is BullMQ's
recovery of a job whose process died; `Overrun` the same for a process that is
alive and did not renew its lock, so that two slots process one job.
`Shutdown`/`Exit`/`Crash`/`Restart` are the life of a process. `Forget` is
retention (`removeOnComplete`, `removeOnFail`, `cleanStaleJobs`). The ages (a day,
a week) are longer than any processing, hence its guards: no slot works on the job
any more, and no transaction of it is in flight. Retention is also by count (1000
completed, 5000 failed jobs, event-queue.js:13-20); that it does not reach a job on
which a slot that lost its lock still works is assumed.

The broadcast is what `TaskLedger` promises of a submission: one transaction per
processing, recorded at most once; `ok` only if it is on the ledger; an error
says nothing. BullMQ is external: waiting, delayed, active, completed, failed.

### VeroAdmin

A contract invocation that panics changes nothing, hence every panic and early
return is a guard. The hash of a proposal is the pair it is computed from, as
the encoding is injective and sha256 collisions are outside the model. An admin
vector may repeat an address, as the contract accepts, and may be empty: it can be
proposed and approved, and it is refused only when it would be executed
(admin.rs:180-182), so that its last approval fails with it. `Initialised` is whether
`DataKey::Admins` is set, which an empty vector in storage would not undo. `require_auth`
makes each account its own caller.

### EventBatcher

JavaScript runs a callback to its end, so an action is a whole callback:
`Enqueue` (push, set the timer, ask the sizer, perhaps drain), `WindowCloses`
(the timer's drain), `FlushResolves` and `FlushRejects` (the promise that `flush`
returned settles, in any order). The error rate is a comparison of two products
in place of a quotient. It is the rate of the process's whole life, although
batch-sizer.js:78 speaks of recent jobs, and a flush still out counts in it as a
success. The events of a rejected batch are not queued again: `EachEventOnce`
says that each event is handed to `flush` once, not that a flush succeeds.

### FeeEngine and ConfigPoller

`FeeEngine` has the settings (`env`), the estimate that is kept (`cached`) and
the estimates in progress. One estimate is at most two steps: up to `await
withTimeout(...)`, where it has read its settings (`config`), and after it. A
key may be missing in `env` and then has its default. Numbers stand for strings
that parse. An override may be `Unset`, `Blank`, or its fee, where 0 stands for any
text that is no positive number; that one throws, as do unusable settings
(`EstimateThrows`): the call is over without a fee. The multiplier and the percentile are constants. `EstimateExpires`
drops the kept estimate at any time, which covers `expiresAt`.

`ConfigPoller` adds what changes `env`. `stage` is the await at which a poll is;
`wire` is the connection that the polls of a process share: ioredis sends
commands in the order they were issued, Redis serves them in that order, answers
arrive in it, and after a reconnection the unanswered ones are sent again
(`maxRetriesPerRequest: null`, queue/redis.js:80). `Ends` is the return or the
catch of `pollConfig`, and the `.then` that sets the interval after the first
poll. In mode `thread`, config-worker.js polls: it forwards what it finds and
does not compare payload and signature; the process applies a message when it
arrives. Publisher and Redis are external. Observations the model made visible:

- Clearing the estimate in `applyConfig` (config-poller.js:88) is not what keeps
  fees current: an estimate computed with the old settings may be stored *after*
  the clear. The settings in the cache key (fee-engine.js:255) do it; without
  them `FeeOfOwnSettings` fails.
- `NoRollback` rests on the one client that overlapping polls share. With a
  client for each poll it fails (mutant `ServeAny`).
- A setting once applied stays when later configurations do not name it, so that
  partial configurations may leave a minimum above the maximum, and every
  estimate then throws. `SettingsUsable` is therefore conditional on `Complete`.
- `stopConfigPoller` during the first poll clears no interval, as there is none:
  the poll that ends in its catch then sets one, which lasts until the exit.
- Nothing starts another thread when the worker thread dies; `PublishedInForce`
  says what holds as long as polling is not off.

### WebhookIntake

`hits` and `ttl` are the Redis key `rl:<ip>`, which both limiters share and all
server processes count in. A process sends its commands over one connection, in
order (`wire`); `ServeCount` is MULTI INCR PTTL EXEC together with the callback,
which answers 429 or lets the request on through `verifySignature` and the filter,
and appends PEXPIRE to the wire if the key had no expiry. `CountFails` is the
error that express-rate-limit passes on; `CountMissing` a transaction that is
answered, but whose INCR is answered by an error or not at all; `ExpireFails` the error
that rateLimit.js:85 swallows; `Resend` a transaction whose answer was lost with its
connection, so that ioredis sends it again (`maxRetriesPerRequest: null`). `passed`
is history: `passed[ip][n]` is how long ago the n-th last unauthenticated request that
was counted was let through, up to a window. The store is called by the callback
convention that src uses; the installed express-rate-limit awaits promises of its
stores.

The identity of a job is computed as in `deriveIdempotencyKey` from the fields a
request has; sha256 is injective here. The ids that a sender gives (the
`idempotency-key` header, the delivery, those of the body) are one name space, the
keys derived from the pull request another: that an explicit id is not spelled
`github:pull_request:...` is assumed. Without a repository the key has the number alone
(event-queue.js:94), and without either the id is random.

Observations the model made visible:

- `BurstBounded` is twice the limit and not the limit: a fixed window admits a
  burst at its end and another after it. One more passes if the count from before
  the request is compared (mutant `OverLimitBefore`).
- It bounds the *counted* requests only. With an INCR that is answered by an error
  or missing, rateLimit.js:78-81 takes the count for 0, and the request passes
  uncounted (`CountMissing`): the limiter fails open there, whereas an error of the
  transaction is answered 500. Nothing bounds the number of these.
- `JobIdentifiesEvent` is about events that are `Identified`: by an explicit id that
  names no other event, or by repository and number. Two events that share an
  explicit id, or a number without a repository, share a job, and `queue.add` drops the
  second; the run has both, and shows that no identified event is lost beside them.
  Were the repository left out of the key, it would be (mutant `NumberAlone`).
- `LimitLifted` fails if only the first hit sets the expiry (`ExpiryOnFirstHit`):
  PEXPIRE may be lost. It needs a client that goes on asking, as nothing else
  repairs the key.

### RpcAccess

Statistics carry the network they were asked for and that of the node that gave
them. `stage` is the await at which a lookup is: `get`, `fetch`, `set`
(rpc-cache.js:194, 209, 219). `caller` is the promise of `withTimeout`, which may
be rejected while the lookup goes on. `clear`, `page`, `last` and `due` are
`clearCache` between SCAN and DEL, with what Redis guarantees of SCAN: a key that
is there from the beginning to the end is returned; others may be. `old` is
history: keys whose entry is from before the clear.

`OwnNetwork` has two parts. That an answer is of the network its caller asked for
holds always. That it comes from a *node* of this network holds until a process
changes `STELLAR_NETWORK` (`~moved`): the factory keeps the node it chose at load
time, so that from then on statistics of the old network are cached under the new
network's key, contrary to what rpc-cache.js:10-11 says of network-scoped keys.

### Background

Watcher and purge share the pool of db/client.ts (db/client.js has another, which
the submission uses). `run` is where each run of a job is; node-cron and
`setInterval` start a run whether or not the last has ended, so that runs of one
job overlap. `ConnectRejects` happens when the database refuses or no client comes
free in `connectionTimeoutMillis`. The loop of the watcher has no await and is one
step, with the release of its client. Ages stand for `submittedAt`,
`lastRetryAt` and `created_at`; `life` is history, the age of a transaction. The
owner of the watcher's map and the writer of `tasks` are external. The alert hook
counts errors (`errorCount`, `windowAge`, `alertAge`); `recent` is history,
`recent[n]` how long ago the n-th last error was, up to a window. A process may have started some of the services and not others
(`Started`).

Observations the model made visible:

- `SpikeIsAlerted` needs `2 * Threshold - 1` errors within a window: windows begin
  with an error, and fewer may be split evenly between two of them.
- cleanup.ts:71 swallows errors as "Logged inside purgeFailedTasks". An error of
  `pool.connect()` is thrown before that function's `try` and is logged nowhere;
  in the model `ConnectRejects` calls no `LogError`.
- `ChannelsTried` says that each channel has a status in the report, which is not that
  it was told: `notified` has `failed` for a Slack post that threw, and `queued` for the
  e-mail, which nothing sends. The log line after it says "delivered" all the same
  (diagnostics.js:206-207).

## 3. Checks

| Run | Instance | Shows |
|---|---|---|
| `nonce` | 2 processes, 3 calls, two of them on one connection, 1 resubmission; network faults, cancelled statements, lost sessions, crashes; fairness | `MutualExclusion`, `SequenceFresh`, `LockHeldByCall`, `KeepsPromise`, `CallsSettle` |
| `nonce_doc_sequential` | network faults only | `SequentialNonceGuarantee` (nonceManager.js:27) is violated |
| `queue` | 1 job, delivered with and without a number, 2 workers of one slot that stop, crash and restart, 2 attempts, 1 stall; fairness | `CompletedIsRegistered`, `RegistrationsBounded`, `OneProcessingUnlessStalled`, `GivenUpOnlyExhausted`, `KeepsJobPromise`, `JobsSettle` |
| `queue_doc_202` | 1 job delivered twice | `AcceptedMeansQueued` (README.md:91) is violated |
| `admin` | 3 accounts, 4 admin vectors, the empty one included, thresholds 0, 1 and 3 (2 by clamping), 3 proposals | `TypeOK`, `ThresholdInRange`, `NonceCountsExecutions`, `ExecutionNeedsQuorum`, `ChangeOnlyByExecution` |
| `admin_doc_threshold` | thresholds 0-2, 2 proposals | `ThresholdReachedExecutes` (lib.rs:68) is violated |
| `batcher` | 8 events, sizes 1 to 6 starting at 4, threshold 1/5; fairness of the timer | `SizerNeverThrows`, `WaitingHasWindow`, `BatchWithinLimit`, `EachEventOnce`, `EventFlushed` |
| `batcher_doc_scaling` | 10 events, default size 2, sizes up to 10 | `ScalesUpUnderPressure` (batcher.ts:9, test.js:37) is violated |
| `config` | 2 overlapping polls, both modes, all faults, 2 signed configurations and 1 unsigned, 1 message at a time; 1 estimate at a time, with and without an unusable override; fairness | `SettingsUsable`, `AppliedWasSigned`, `FeeOfOwnSettings`, `FeeWithinBounds`, `NoRollback`, `PublishedInForce` |
| `intake` | 1 address, 2 servers of one slot, 5 kinds of requests, limits 1 and 2, a window of 2 ticks; failed, incomplete and resent replies, crashes; fairness | `BurstBounded`, `JobIdentifiesEvent`, `LimitLifted` |
| `rpc` | 2 processes with a lookup each, 2 networks, `clearCache`; all faults | `OwnNetwork`, `ClearedAreGone` |
| `background` | 1 connection, 2 watcher runs, a purge, 1 transaction with 2 retries, 1 task, threshold 3 in a window of 2; 3 groups of services; fairness | `FailedOnlyAfterRetries`, `SpikeIsAlerted`, `StalledIsNoticed`, `OldFailedGo`, `ChannelsTried` |

Deadlock is not checked: calls and deliveries are bounded, and the system then
rests.

**Bounds.** Two calls of different processes are the smallest contention; a third
shares the one connection of its process with the first, so that a pool runs
empty and the connection is reused with what the first call left behind (a leaked
lock, a transaction in flight). One resubmission has a first and a last
submission; more of them, and repeated calls of one slot, are covered by the
proofs, which bound nothing. `Attempts = 2` and `MaxStalled = 1` have a first and a
last attempt and a stall that is and one that is not tolerated; two slots of
different processes let two processings of one job overlap. Three proposals, of
which two execute, are a change of admins, one of the threshold, and one that is
open across both; the empty vector, like a threshold of 0, can be proposed and never
executed. Eight events are a batch of full size, its rejection, and
batches of two halved sizes under queues that are longer. Two polls are the
smallest overlap; three commands of each are the longest a poll sends. Two
signed configurations have an old and a new one, with disjoint bounds for fees.
The environment at the start is inconsistent by itself, so that estimates throw until
a configuration is applied. One estimate suffices to find what an earlier one has
stored, as a call is repeated, and to store its own after a clear; more at a time are
covered by the proofs, as are more messages under way from the thread. The five requests have one number twice, with and without its repository, and two
events with one explicit id. `PublicMax = 1`
and `AuthMax = 2` put two limits on one counter, and a request of each server lets
one expire the key under the other; two ticks are a window with a border inside.
Two networks and two processes are a reader and a writer of an entry that
disagree; two keys make more than one page of a clear. Two watcher runs of a
transaction with two retries can meet in one stall; one connection makes every
other job a competitor. Threshold 3 in two ticks splits a spike over windows.

**Fairness** (`Fairness` in each module). A started call goes on: each await is
a reply, an error or a timer (`WF` on its body). A waiter for the advisory lock
is served in arrival order by PostgreSQL: `SF` on `AcquireLock`, since the lock
may be taken in between. Idle and dead sessions are closed by `idleTimeoutMillis`
and TCP keepalive. The network settles each transaction within its time bounds
(`setTimeout(30)`). BullMQ promotes delayed jobs, recovers stalled ones and takes
jobs in order (`SF`, as the slots are busy in between); a supervisor restarts a
worker. The window timer and the interval of the poller fire. The poller's
commands are answered (`WF` on `Serve`) in spite of reconnections in between, and not
every command fails (`SF` on each stage of a poll). Of Redis the intake assumes that it answers what is queued, and not every count and every
expiry of an address with an error (`SF` on `CountedFor` and `ExpiresFor`); a
limited client goes on asking (`SF` on `Asks`). `Background` assumes that its timers
fire, that the database does not refuse for ever (`SF` on `Connect`), that a query
does not fail for ever (`SF` on `Finish`), that every request of the heartbeat ends,
and `<>[][\A r \in Run : ~NoClientInTime(r)]_vars`: from some time on nobody waits
for a client longer than `connectionTimeoutMillis`. The last one is an assumption
about load, as pg grants clients in the order of asking and two short jobs share
ten; without it a starved watcher is possible, with it a
leaked client still is, which is what the mutant `ReleaseSkipped` shows. No fairness is
assumed of faults, invocations, deliveries, publications, events or flushes.

## 4. Findings

- `SequentialNonceGuarantee`: the lock is given up with the outcome of a
  submission unknown; its transaction then takes the next call's sequence number.
  What does hold is `SequenceFresh`.
- `AcceptedMeansQueued`: a redelivery of an event whose job failed is answered
  `202 queued: true` for the seven days in which Redis retains the failed job,
  and is never processed.
- `ThresholdReachedExecutes`: the proposer's approval counts but never executes,
  so that with M = 1 a second admin must vote, and a single admin can do nothing.
- `ScalesUpUnderPressure`: the sizer is asked only while the queue is no longer than
  the working size, since `enqueue` drains when it is reached. The growth branch is
  dead (`SizeNeverGrowsHolds` proves it for all sizes), and one bad phase shrinks the
  size for the life of the process.

Noted while reading and modelling, without a run of their own:

- `getFeeEngineConfig` never returns `rpcUrl` (`parseRpcUrl` is unused), so that the
  fee client is always the factory's node; see `RpcAccess` for what follows when
  `STELLAR_NETWORK` changes.
- `withHorizonFailover` and `withRpcFailover` have no caller, contrary to what
  .env.example:5 suggests; they would not work either: `logger` there is the module
  object, which has no `warn` (rpc-factory.js:88), and the TypeError leaves the loop.
- `checkRedisConnection` calls `queue.isReady()`, which BullMQ's Queue lacks, so that
  the check reports an error in any case.
- A lookup that `withTimeout` gave up is not cancelled, and a Redis command waits as
  long as Redis is away (`maxRetriesPerRequest: null`): the cache's fall-through to
  the node (rpc-cache.js:203) is for errors, not for outages.
- `startServer` listens twice on one port (index.js:65, 69); the ledger key
  `vero:pr:<number>` ignores the repository (stellar.js:70), so that two jobs that
  `JobIdentifiesEvent` keeps apart write one entry.

## 5. Proofs

`NonceManager_proofs` holds for any sets of processes, calls and connections, any
bounds and any set of faults. It assumes only the named assumptions of
`NonceManager` on its constants.

- `TypeCorrect`: by `TInv`, which adds to `TypeOK` that a running call has been
  invoked and that one in `backoff` has a resubmission left; without these a step
  could not be shown to keep `attempt` and `tries` in range.
- `MutualExclusionHolds`: by `LockInv`. Mutual exclusion alone is not inductive:
  `AcquireLock` needs that *no other* session holds the lock, and one must know
  that every protected call's session does. `LockInv` says that connections are
  not shared, that a call between lock and unlock with a living session has
  `holds > 0`, and that at most one session holds the lock. Leaked locks fit in:
  they keep others out.
- `SequenceFreshHolds`: by `FreshInv`. Freshness must survive the *next* `Apply`,
  so one must know whose transactions can still be applied: `NetOwned` says that
  a transaction in flight is that of a rejected attempt, or the current one of a
  call that has submitted it and, unless its session is lost, holds the lock.
  With `LockInv` no other call is protected then. `Uncached` says that no account
  reply is ever cached.

- `LockHeldByCallHolds`: by `HeldInv`. A session holds the lock once, as long as no
  unlock was cancelled (`HeldOnce`), so that the `finally` block of its call gives it
  back whole; lost sessions hold nothing.
- `KeepsPromiseHolds`, the refinement of `TaskLedger`: by `PromiseInv`. A transaction
  that is in flight or on the ledger was issued once and by an attempt that has
  submitted (`IssuedOnce`, `IssuedBySubmit`), so that applying it records a new
  attempt; an attempt about to return has been applied (`ReturnedApplied`), so that
  resolving it is allowed. With `FreshInv`, each disjunct of `Next` is then a step of
  `TaskLedger` under the refinement mapping or leaves it unchanged.
- `AttemptsEndOnce`: what those steps add up to. With `OutcomesArePast` (an outcome is
  that of an attempt that was made and is not running) every step of `TaskLedger` keeps
  the ledger without repetitions, the resolved attempts on it, and apart from the
  rejected ones; the theorem then holds of the protocol by the refinement.

`EventQueue_proofs` holds for any deliveries, jobs, workers, slots and limits. `Inv` is
`Types`, `Locks` (a job's owner is a slot that has it), `Counters` (failures and stalls
within their limits), `Ledger` (what a slot is told is on the ledger is), and
`Payloads` (a job without a number has sent nothing).

- `TypeCorrect`, `CompletedIsRegisteredHolds`, `OneProcessingUnlessStalledHolds` and `GivenUpOnlyExhaustedHolds` follow from `Inv`.
- `RegistrationsBoundedHolds`: by `Paid`, an accounting: what a job has sent, with the
  slots that are about to send, is paid for by its failures, its stalls and the one
  slot that has its lock. A slot that lost the lock has been paid for by the stall.
- `KeepsJobPromiseHolds`, the refinement of `JobPromise`, which maps waiting, delayed
  and active to `pending` and the transactions of a job to their number. It needs
  `Ledger` to complete a job, `RegistrationsBounded` in the next state for the limit,
  and `Numbered` with `Counters` and `Payloads`, by which a late transaction is of a job
  that Redis still knows and that has a usable payload. That retention takes no job away
  that has not ended is part of the promise, as is `CompletedIsRegistered`.

`WebhookIntake_proofs`: `TypeCorrect` states `Wires` too, that a count on a wire is that
of one waiting slot of that process. `JobIdentifiesEventHolds` assumes `PullRequestsNamed`,
that a repository and a number name one pull request, and nothing of explicit ids: the
jobs are those of requests (`Jobs`), and a request under whose id an identified one
finds a job has the same id by the same rule (`JobIdCases`, `IdentifiedIsOwn`).
`BurstBoundedHolds`, for any two limits (`HitsMax`, where the model stops counting, is
above both), by `Allowed`: of what was let through the last `c`, at most
`PublicMax`, count in the counter there is now (`CounterAllows`); those before them are no
more than one limit, and were let through before the counter got its expiry, so that the
rest of the window is no longer than their age. A counter without an expiry never
ends, and admits less. A sum over a window is avoided by keeping the ages of the
last `Burst` requests, which shift when one is let through: no recursion.

`RpcAccess_proofs`: `OwnNetworkHolds` by `Scoped`, that every entry is of the network in
its key and every lookup of the key it began with. `ClearedAreGoneHolds` by `OldIsDue`:
an old entry is still due from SCAN or on the page that is deleted next.

`Background_proofs`: `TypeCorrect` states `PoolWhole` too, that the clients in the pool and
those in use are `PoolMax`, by cardinality; so no client is lost or released twice.
`FailedOnlyAfterRetriesHolds` by `RetriesTakeTime`, that a transaction is older than
its retries times the timeout. `SpikeIsAlertedHolds` by `Alerts`: later errors are
younger (`InOrder`), and of the last errors some came in the window there is now, some in
the one before, and all others are a window ago; if one of the two had the threshold, an
alert was sent then or less than a window before (`Windows`, `AlertedSince`). Of
`2 * Threshold - 1` errors one of the two has the threshold.

`VeroAdmin_proofs`:

- `TypeCorrect`; `ThresholdInRangeHolds`, which is inductive with `TypeOK`: the empty
  vector is among those that may be proposed (`AdminVec` is any set of vectors), and
  the check at execution is what keeps the range.
- `NonceCounts`: the nonce equals the cardinality of the executed proposals,
  proved with the finiteness of that set.
- `ExecutionNeedsQuorumHolds`: of every step, that whoever is among the votes of any
  proposal was there before or is an admin now (hence each vote was an admin's when it
  was cast), and that the one proposal a step executes has the threshold of voters. It
  needs that the approvals of a proposal are distinct, so that their number is the
  cardinality of the set of voters.
- `ChangeOnlyByExecutionHolds`: an action property, from type correctness.

`EventBatcher_proofs` holds for any sizes, threshold and number of events. `Inv` is
the conjunction of four of them, which need each other: a batch is within
its limit because the queue is shorter than the working size *between* events
(part of `BatchWithinLimit`) and an event adds one; errors do not outnumber
flushes because a pending flush is not counted yet (`SizerNeverThrows`, by
cardinalities of finite sets). `SizeNeverGrowsHolds` is an action property
from `Inv`: when the sizer is asked, the depth is at most the size.
`EachEventOnceHolds` follows the numbers of the events through every drain.

`ConfigPoller_proofs` holds for any settings, configurations, statistics, number of
polls and estimates, and all faults.

- `MultiplierRoundsUp`: `applyMultiplier` on natural numbers.
- `FeeOfOwnSettingsHolds`, `FeeWithinBoundsHolds`: by `FeeInv`. One must say of the
  kept estimate that *some* usable settings with its key have yielded it
  (`CachedOK`), and that what the key leaves out does not change the fee
  (`KeyDeterminesFee`); a call that is asking has read usable settings.
- `SettingsUsableHolds`: every message on its way holds a published version, and a
  complete configuration overwrites all three bounds at once.
- `AppliedWasSignedHolds`: what a poll has read of the signature is no newer than
  what Redis has, and a reply that waits on the wire is no newer than the key it
  was read from (`WireFor`).
- `NoRollbackHolds`: by `Order`. Redis holds nothing older than what was applied or
  posted by the thread (`HeldLast`); neither is an answer that waits on the wire
  (`ReadLater`); of the commands for one key, a later one is not answered with an older
  version, and none is answered before one sent earlier (`ReadInOrder`); the messages of
  a source are in order and not older than what is applied (`PostedInOrder`). A
  reconnection forgets the answers that were not handled and sends all commands again
  in their order.
- `TypeCorrect`.

Every invariant and action property of the passing runs is stated by a theorem, and
both refinements are proved. Only model-checked is liveness: `CallsSettle`, `JobsSettle`,
`EventFlushed`, `PublishedInForce`, `LimitLifted`, `StalledIsNoticed`,
`OldFailedGo`, `ChannelsTried`. It needs `WF` and `SF`, hence `ENABLED`, of which the
prover knows nothing. The type invariants that no run lists are proved (`TypeCorrect`).

## 6. Not modelled

- JWT, schema validation, logging format and redaction, tracing, metrics: stateless
  or output only. `registerBatchOnChain` submits nothing.
- RPC failover and rotation, `BatchSizer.reset`, `resetKey` of the limiter's store, a second `startConfigPoller`: nothing calls them. Watcher, purge,
  heartbeat and `clearCache` are not started by anything in the
  repository either, but are complete programs, and are modelled as started.
- The limiter's memory store without `REDIS_HOST` belongs to express-rate-limit. The
  count of 1 to which `increment` falls back (rateLimit.js:94-106) is for a client that
  throws where it is called, which ioredis does not.
  The batch of a rejected flush is lost, and no document promises more.
- `LOG_LEVEL`; configuration errors that end a process at startup; `pool.end` on
  SIGTERM of `db/client`. Heartbeats do not overlap in the model, as a day lies
  between two.
- `healthCheck` of `db/client.js`, which changes nothing.
- Alert posts and Slack messages that are answered but not delivered.
- The TypeScript twins that are not emitted, and the load generator.

## 7. Plan

1. `Relay`: `EventQueue` over `NonceManager` in one state space, two jobs with one
   account. Its links are proved separately now.
2. Job ids of `WebhookIntake` as the `JobOf` of `EventQueue`, by refinement.
3. The statistics of `RpcAccess` as the `StatsArrive` of `FeeEngine`, likewise; an
   abstract specification of the admin contract.
