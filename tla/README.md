# Verification of the SAManager backend

SAManager runs jobs of ERC-4337 smart accounts: a user registers a job (a user
operation to be sent several times, at intervals), the dapp stores its schedule
in a contract, and the backend sends the operation each time the schedule says
so. This directory holds TLA+ models of that backend, the instances TLC checks,
and proofs TLAPS checks. Paths below are relative to the repository's root
(`src/...` is its Go code, `cmd/...` its programs, `docs/...` its documents).

`PROJECT.json` lists the same things for tools: components, runs, mutants, the
map from definitions to source lines, findings, hazards and theorems.

## 1. The system

| Component | State | Operations |
|---|---|---|
| Job scheduler (`src/service/scheduler.go`) | two goroutines and their locals, `js.ctx` | poll: check receipts, sync cache to database, load active jobs, read the contract, filter, enqueue; execute: pop, run, report |
| Job cache and queue (`src/repository/job_cache.go`) | a Redis record per job in flight (status, chain, hash, error, 24 h TTL) and a Redis list | set, fail, delete, add, update hash, find by status; LPUSH, BRPOP |
| Job store (`src/repository/job_repo.go`, `src/service/job.go`) | the `jobs` table in Postgres (status, err_msg; unique per account, chain and on-chain job) | create, find active, update status |
| Blockchain service (`src/service/blockchain.go`) | pools of clients per chain | client of a chain, bundler client of a chain, contract reads, close |
| Execution service (`src/service/execution.go`) | none | build, sign and send the operation of one job |
| ERC-4337 client (`erc4337/`) | none | bundler RPC, packing and hashing of operations |
| HTTP API (`src/handler/`) | the context its logger middleware captured | register a job, list jobs, middleware |
| Application (`src/app/`, `cmd/samanager`) | root context, connections | start, run the worker, shut down, exit after 15 s |
| Prototype scheduler (`cmd/scheduler`) | queue and statuses in Redis | poll, execute, stop |
| Manual tools (`cmd/executeJob`, `cmd/erc4337`) | none | execute one operation, wait for its receipt |
| Outside the repository | the contract's `executionLog`, the bundler's pool, the clock, the users | |

Who meets whom:

- The API inserts rows; the poller reads the `queuing` ones and turns them into
  `completed` or `failed`. Nothing else connects the API to the scheduler.
- Poller and executor share only Redis: the poller writes the record and pushes
  the job, the executor pops it and stores the hash, or a failure, in the record;
  the poller later finds out from the record's hash what became of the operation.
- Both read the chain, through different services: the poller the contract (is
  the job due, is it complete) and the bundler (receipts), the executor the entry
  point (nonce) and the bundler (send).
- A job makes one round per execution: row `queuing` and no record -> due ->
  record with the zero hash -> queue -> executor -> record with the hash ->
  receipt -> no record. After the last round the contract says that all
  executions are done, the record becomes `completed`, and so does the row.

What is hard in it:

- the rounds of the two goroutines overlap in any way: the receipt check of a
  poll sees records whose job is still queued or being executed;
- every one of the Redis, Postgres and RPC calls may fail, each failure is only
  logged, and the code goes on;
- nothing is transactional: the record and the queue entry, the operation and
  its hash, the row and the record are written by separate calls, and the process
  may stop between any two of them (a crash; SIGTERM, which cancels the context
  of all Redis and bundler calls under both goroutines; the exit after 15 s);
- at the end of the process everything meets everything: the API server drains
  for up to ten seconds, `main` waits for fifteen and then closes the connections
  under whoever is left, and some calls cannot be cancelled;
- clients are created on demand behind a double-checked lock, by both goroutines;
- the executor and the manual tools use nonces of the same accounts;
- decisions are taken from snapshots: of the records, of the active rows, of the
  contract, of the clock; meanwhile the owner may switch the job off on chain, and
  `cmd/executeJob` may execute it beside the queue;
- calls of the nodes run under contexts without a deadline: one that is never
  answered keeps its goroutine.

What makes each component correct:

- *Scheduler*: one dispatch and one operation in flight per job; operations sent
  only when due, and not for a job that is switched off; verdicts filed under the right job and operation; a settled row
  stays settled; every registered job is triggered when due and settled at last.
- *Cache*: each method is atomic for the goroutines; a record is never half old
  and half new.
- *Store*: at most one row per on-chain job; terminal statuses are final.
- *Blockchain service*: one client per chain; none left open after `Close`.
- *Execution service*: the nonce belongs to the job's key; operations that share no
  key never disturb each other; every execution ends,
  unless a node never answers.
- *ERC-4337 packing*: fixed widths, no field spills into its neighbour.
- *Application*: the goroutines have ended before the connections they use close; a graceful end
  leaves nothing open; a signal ends the process.
- *HTTP API*: each request logs as itself.

## 2. Modules

    ExecutionConfig          pure: schedule, completion, due test
      JobTypes               constants of an instance and their assumptions
        JobCache             cache, queue
        JobStore             dbStatus, dbReason
        Blockchain           log, now, ops       (contract, clock, bundler)
          JobScheduler       composes the three; poller, executor, process
            JobLifecycle             abstract: what is promised of a job
            JobSchedulerProperties   refinement and properties
              JobSchedulerInvariants   the inductive invariants, in layers
                MCJobScheduler         the instances for TLC
                JobSwitch              history of the owners' switches
                JobSchedulerProofs     types, dispatch
                  JobOutcomeProofs     order of operations, verdicts, final rows
                    JobLifecycleProofs the refinement
                    JobPlanProofs      completion, due operations, switches

    UserOperation            pure: JSON, packing, hash, nonce key, fees
      UserOperationFlow      one operation from the registration to the bundler
        MCUserOperationFlow  its instance for TLC
        UserOperationProofs  its proofs

    ExecutionService         executor and tools against nonces and bundler
      MCExecutionService     its instance for TLC
      ExecutionServiceProofs its proofs

    ClientPool               the two pools, their lock, Close
    HttpServer               requests, logger middleware, drain
      Application            composes the two; main, scheduler as a user, shutdown
        MCApplication        its instance for TLC
        ApplicationProofs    the proofs of all three

    PrototypeScheduler       cmd/scheduler
      MCPrototypeScheduler   its instance for TLC
      PrototypeSchedulerProofs   its proofs

`ExecutionConfig` translates `ExecutionConfig.IsTimeToExecute` and the completion
test. Go's nil checks in it vanish: the fields are unpacked from the contract and
are never nil. 0 stands for the zero value "never", as it does in Solidity.

`JobCache`, `JobStore` and `Blockchain` define the effect of each operation as an
action without a frame for the other components; `JobScheduler` supplies the
frames and says which outcomes a caller sees. One `cache` record is the JSON value
under `<queue>:status:<job>`, `NoRecord` an absent key. The k-th operation accepted
for a job has hash k, and hash 0 is Go's `common.Hash{}`. Error texts are one of
four reasons.

`JobScheduler` has one action per stretch of code between two calls that another
actor can observe. Correspondence:

| Code | Actions |
|---|---|
| `checkReceiptsForPendingJobs`, `...ForChain`, `checkSingleJobReceipt` | `ReadPending`, `CheckChain`, `CheckReceipt`, `ReceiptsDone` |
| `syncCacheToDatabase`, `syncJobsToDatabase` | `ReadForSync`, `SyncRow`, `SyncDelete`, `SyncDone` (for `failed`, then `completed`) |
| `pollJobLogic`, step 3 | `LoadActive` |
| `GetExecutionConfigsBatch` | `FetchConfig`, `FetchDone` |
| `fetchExecutionConfigsAndFilterJobs` | `FilterJob`, `MarkCompleted`, `FilterDone` |
| `pollJobLogic`, step 5 | `AddToCache`, `Push`, `Cleanup`, `EnqueueDone` |
| `processJobs`, `DequeueJob` | `Dequeue` |
| `executeJobLogic` | `ExecuteFails`, `ExecuteSends`, `Report` |
| `RegisterJob` | `Register` |
| `main`, `RunPollingWorker`, `Start`, `Stop` | `Cancel`, `Restart`, `Crash` |
| `cmd/executeJob` | `ChainStep` (`ExecuteBeside`) |
| outside | `ChainStep` (`Tick`, `ConfigureOnChain`, `SwitchJob`, `IncludeOp`, `RevertOp`, `DropOp`), `Expire` |

`pc` and `epc` are the places the goroutines are at, `todo` and `group` what a loop
has still to treat, `seen`, `active`, `config` and `picked` the locals of the poll.
Loops over slices and maps take their elements in any order, which includes the
order of the code.

Abstractions:

- `GetCacheStatistics` is left out: it reads and logs.
- `ExecuteJob` is two outcomes for the scheduler: it ends without effect and with
  an error, or the bundler accepts the operation. Its reads (nonce, fees,
  decimals) change nothing another actor sees.
- Every method of the cache repository is one step: it holds the RWMutex, or is
  one command. Only one process runs the scheduler.
- `GetExecutionConfigsBatch` reads one job per step, so the clock and the chain may
  move between the reads, as they do between the code's RPC calls.
- Under the fault `lag` a contract read may return the log before the last
  execution, and under `lagswitch` the log before the last switch; a node that lags
  behind the dapp's first write looks like `early`.
- Of a configuration, the owner changes `isEnabled` at any time (`SwitchJob`); its
  other fields are written once. The contract is not part of the repository: the
  documents name a single write by the dapp (`docs/scheduling.md:152`), a switch
  (`docs/scheduling.md:81`) and no other change.
- `cmd/executeJob` takes a row in any status, looks neither at the log nor at the
  queue, and writes nothing (`cmd/executeJob/main.go:85-100`). To the scheduler it is
  the execution it causes: `ExecuteBeside` counts it in the log, at any time, and drops the
  operation of the same nonce key that was pending. Its calls, one by one, are in
  `ExecutionService`.

`JobSwitch` adds a history variable: which jobs are off and have been at rest, out of
queue, executor and poll, at some moment since they were switched off. Only a theorem
needs it.

`JobLifecycle` is what the scheduler promises of a job, without records, stages or
processes: a job is dispatched from a `queuing` row when nobody holds it, an
operation is sent only by the one that holds it and after the earlier ones have
succeeded, only one job is executed at a time, a verdict is final.
`JobSchedulerProperties` maps `JobScheduler` to it: `row` is `dbStatus`, `sent` is
`ops`, and `place` says whether a job is in the queue or in the executor's hands.
`ImplementsLifecycle` is the abstract specification under that mapping.

`UserOperation` translates `erc4337/user_operation.go` and the pure parts of
`execution.go`. A number is a natural, as `big.Int` is; where the code handles its
bytes the model does, in base `Base` with halves of `Half` bytes; `Power` and the
value in `SetBytes` are recursive functions, so that they can be reasoned about. `CopyRight` is
Go's `copy(buf[end-len(s):end], s)` with its panic. There are two encoders:
`MarshalJSON`, which the pointer receiver makes `CreateJob` and the bundler client
use, and `DefaultJSON`, which `EnqueueJob` uses because it marshals the job by
value. The text of a number keeps its padding, so that reading it back has
something to undo; a sign, which the parser would take, is left out. Keccak and
ECDSA are the values they are applied to. `BundlerHash` and `BundlerTakes` are the
other side, written from the definition of ERC-4337 and not from this code.

`UserOperationFlow` moves one operation: `Register` (handler and `CreateJob`),
`Load` (`ToEntityJob`), `Enqueue`, `Dequeue`, then `ExecuteJob` as `SetNonce`,
`SetGas`, `SignAndSend`, each with the errors of its calls in `ExecuteFails`, the
refusal of a short nonce (`noKey`) and the two ways to panic (a missing estimate in
the log line, a field too long for its half). `NextRound` returns to the stored row.
`JobScheduler` sees all this as `ExecuteFails` and `ExecuteSends`.

`ExecutionService` takes `ExecuteJob` apart once more, now as RPC calls against the
EntryPoint's sequence numbers and the bundler's pool: `ReadNonce`, `Estimate`,
`ReadFees`, `SignAndSend`, each of which may fail (`Abort`). The executor takes the
next job when the bundler has accepted an operation; `cmd/executeJob` and
`cmd/erc4337` are processes of their own and wait for the receipt, the one in
`WaitForUserOpReceipt`, the other in a loop that takes an answer without an error
for a receipt and dereferences the nil of an operation not yet mined
(`cmd/erc4337/main.go:306`; an end `panicked` in the model). The bundler is written
from ERC-4337: it refuses a wrong sequence number, and replaces a pending
operation of the same key for a fee at least 10% higher. Any call may also never be
answered (`Hang`, and `hung` after the bundler has accepted the operation): the
tools run under `context.Background()`, the executor under `js.ctx`, and neither has
a deadline. A hanging job of the executor keeps the later ones from starting.

`ClientPool` has one action per critical section: `Lookup` under the read lock,
`LockAndCheck` under the write lock, `Dial`, which keeps it, and `ClosePools`. The
pools of both kinds share the lock and are one function from chain and kind.

`HttpServer` cuts `LoggerMiddleware` at its accesses to the captured context,
which requests share: `Arrive` reads it, `WriteContext` assigns it, `AttachLogger`
reads it again. A logger is the sequence of the requests whose fields it carries:
each request inherits those of earlier ones, without end (`middleware.go:23`).

`Application` follows `main` and `NewApplication` by `stage` and has the
scheduler's goroutines as users of database and clients: a poll or an execution is
a list of uses (`Work`), each of which may fail or meet a connection that is
closed already; `refused` remembers who did. Time counts from the signal in units
of five seconds, of which the drains and the wait are multiples, and passes only when
no timer is due and no answer to the cancellation outstanding. Redis has no users in
it: when it is closed, all commands are refused for their context already. The
statistics logger, which returns when the context is done, is left out, and
`POLLING_INTERVAL` is taken to be positive (`config.go:237` does not check it, and
the poller's ticker panics otherwise).

`PrototypeScheduler` has one action per Redis command of `cmd/scheduler` with the
code after it. Redis outlives the program, which may be run again; five minutes,
the age at which failed statuses are cleared, is longer than a run.

`Wrong_...` operators are not part of the model. Each is a mistake the definition
after it could contain; every property is shown to fail when one is put in place.

### Failures

`Faults` says, for the scheduler, which failures and interventions an instance allows:

| Fault | Meaning |
|---|---|
| `redis` | a Redis command, the GET of `isJobInCache` excepted, fails without effect |
| `get` | that GET fails, which the code reads as "not in the cache" |
| `lostreply` | a Redis command, statement or RPC takes effect and its reply is lost (the clients may time out after sending) |
| `db`, `rpc`, `client` | a statement, a contract or receipt call, the creation of a bundler client fails |
| `lag`, `lagswitch` | a contract read does not show the last execution, or the owner's last switch, yet |
| `exec` | `ExecuteJob` fails before it sends |
| `revert`, `drop` | the operation reverts, or is forgotten by the bundler |
| `crash` | the process dies at any point and is started again |
| `shutdown` | SIGTERM cancels the context; both goroutines return; a new process starts |
| `expiry` | the 24-hour TTL of a record elapses |
| `early` | a job is registered before the dapp has configured it on chain |
| `switch` | the owner switches a job off, or on again |
| `manual` | `cmd/executeJob` executes the job of a row |

`get` is apart from `redis` because it breaks what all others leave standing.
After a cancellation every Redis command fails before it is sent (go-redis looks
at the context first), an RPC call fails, and one that was under way may have been
accepted by the bundler with its reply abandoned; contract calls of the poller and
statements do not use the cancelled context and go on.

## 3. Properties

Named in `JobSchedulerProperties`, each with the behaviour it is about:

- `NoDuplicateDispatch`: no job twice in the queue, nor queued while executed.
- `EarlierOpsSucceeded`: an operation is sent only after all earlier ones of its
  job have succeeded.
- `SendsOnTime`: at the moment an operation is sent an execution of the plan is left,
  and its start date and a full interval have passed, although the decision was taken
  from an older snapshot.
- `SendsWithinPlan`: the scheduler sends no more operations than there are planned
  executions, also when `cmd/executeJob` executes the job beside it (proved, in no run).
- `OffStaysOut`: a job that is off, and not queued, executed or found due, is not
  brought back by anyone until it is on again. `SwitchedOffIsUnsent` (in `JobSwitch`,
  proved, in no run) says it of what is sent: nothing, once the job has been at rest.
- `TerminalIsFinal`: a completed or failed row stays what it is, although the
  update looks at no previous status.
- `CompletedIsEarned`: a completed row has had its planned executions.
- `OnChainFailureIsReal`: a row failed for an on-chain failure belongs to a job
  whose last operation reverted.
- `DueJobsAreTriggered`, `RegisteredSettles`: liveness, once shutdowns cease.
- `ImplementsLifecycle`: the refinement above.
- `InFlightIsNotFailed`: what a comment says and the code does not do.

Named in `UserOperationFlow`:

- `SurvivesStorage`: what the executor dequeues is what was registered.
- `SignedIsSent`: the bundler computes from the request the hash that was signed.
- `OnlyFeesChange`: sequence, gas values and dummy signature are all that
  `ExecuteJob` changes.
- `FittingNeverPanics`: the executor survives every operation whose fields fit.
- `EveryOtherKeyIsExecutable`: only nonces of key zero are refused as too short.

`SignedIsSent` is stated for operations that have a factory and its data or
neither. The code signs an empty init code as soon as one of the two is missing
(`erc4337/user_operation.go:317`), and sends the other one: the bundler's hash is
another one then. A wallet sends both or none; the first form of the property
forgot the data without a factory, and its proof failed at that case.

It is stated, too, for the entry point the code signs for. A job registered
with another one is signed for the fixed entry point and sent to its own, which
nothing checks; the API's own example of that field (`src/handler/job_handler.go:42`)
names another one. And that a nonce of key zero, the default key, is refused at all
is at odds with the padding four lines below (`src/service/execution.go:61`).

Named in `ExecutionService`:

- `LostToCompetitor`: an operation is refused or pushed out only by another one of
  the same key that took its sequence number.
- `ToolsTellTheTruth`: a tool that reports a receipt has one, one that gives up has
  polled as often as it should.
- `ExecutionsEnd`: every execution that has begun ends, whatever the bundler does with
  operations, unless a call of its own is never answered.
- `RefusedIsRetried`: what the documentation says and the code does not do.

Named in `ClientPool`, `HttpServer` and `Application`:

- `NoOrphanClient`: every open client is in the pool, under one key.
- `OwnLoggerOnTop`: a request logs its own path last, however requests race.
- `ConnectionsOutliveUsers`: a handler meets a closed database only if it outlived
  the drain, a goroutine a closed connection only if `main` gave up waiting.
- `GracefulLeavesNothingOpen`: after a graceful shutdown every client is closed.
- `OnlySchedulerTimesOut`: the 15 seconds elapse only because of the scheduler.
- `SignalEndsProcess`: liveness, though a poll may hang for ever.

Named in `PrototypeScheduler`:

- `ResultIsReal`: a result in Redis is that of an execution. The reverse does not
  hold: the pending status written after the push may replace the result
  (`cmd/scheduler/main.go:123`).
- `QueueIsWorkedOff`, `StopEnds`: liveness of the executor and of `Stop`.

## 4. Runs

The runs of the scheduler use `MCJobScheduler`: jobs j1 (executed twice) and j2 (once) on the
supported chain c1, interval 2, first execution at time 2.

| Run | Faults | Checks | States |
|---|---|---|---|
| `faults` | `redis`, `db`, `rpc`, `client`, `exec`, `revert`, `drop`, `crash`, `shutdown`, `early` | dispatch, execution, verdicts, times and the refinement under failures and crashes | 1 510 000 |
| `hostile` | `lostreply`, `get`, `lag`, `expiry`, `exec`, `switch`, `manual`; one job | `CompletedIsEarned`, `OffStaysOut` | 1 650 000 |
| `progress` | `revert`, `shutdown`; j2 malformed | `TypeOK`, `RegisteredSettles`, `DueJobsAreTriggered` | 45 000 |

The other passing runs have an instance of their own:

| Run | Instance | States |
|---|---|---|
| `user_operation` | operations at the boundaries of their fields, two entry points | 254 000 |
| `execution` | a job, `cmd/executeJob` and `cmd/erc4337`, two of them with one key, every failure | 268 000 |
| `application` | two requests, one chain, both goroutines, four clients | 626 000 |
| `prototype` | two runs, two polls of two jobs | 478 000 |

`faults` does not check `CompletedIsEarned`, because `early` breaks it (below);
`hostile` does without `early`. With `get` alone `NoDuplicateDispatch` still holds
in the instances tried, since a record that is reset to the zero hash is failed by
the next receipt check; with `lostreply` or `expiry` it does not, and
`EarlierOpsSucceeded` needs `get` to be reliable too.

Runs that show a disagreement between the code and what is said about it:

| Run | Violated | What happens |
|---|---|---|
| `inflight_failed` | `InFlightIsNotFailed` | The poll reads a record with the zero hash, the executor sends the operation and stores the hash, and the poll fails the job for its empty hash. No fault is needed: a poll that starts while a job is queued or executed suffices. |
| `cache_read_error` | `EarlierOpsSucceeded` | A failed GET in the filter lets a job in flight be dispatched again. |
| `early_registration` | `CompletedIsEarned` | A job polled before its configuration is on chain reads 0 of 0 executions and is completed for good. |
| `starvation` | `DueJobsAreTriggered` | A job on an unsupported chain makes every poll return before it triggers anything. |
| `shared_nonce` | `RefusedIsRetried` | Of two jobs of one account with one nonce key the second is refused while the first is pending, and has failed for good. |

Two more are in the model and in no run. The documented condition is "isEnabled &&
(lastExecutionTime + executeInterval < now)" (`docs/scheduling.md:160`), and the code
looks at it when it filters (`src/service/scheduler.go:293`) and not again when it sends
(`:209`). An owner who switches the job off in between (`FilterJob`, `SwitchJob`,
`ExecuteSends`) has it sent once more; `OffStaysOut` is stated for jobs that are out
of reach. And when `cmd/executeJob` executes the job in between (`FilterJob`,
`ExecuteBeside`, `ExecuteSends`), the executor sends it again before the interval has
passed; `SendsOnTime` is proved without the tool, `SendsWithinPlan` with it.

One needs no run: "If enqueue fails, remove from cache to maintain
consistency" (`src/service/scheduler.go:190`), but the DEL uses the context whose
cancellation failed the push, so on shutdown the record stays, and the next process
fails the job for its empty hash. That it is settled at all is `RegisteredSettles`.

### Bounds and why they are enough

- Two jobs: the scheduler treats jobs independently but for the order of its
  loops, the queue and the early returns; two suffice for one job to be queued
  behind, polled beside, or settled before the other. `MaxQueue` 3 leaves room for
  the duplicate that `NoDuplicateDispatch` excludes (with 2 entries at most for
  two jobs, the bound is never met in a correct run).
- One job with two executions and one with one: the shortest plans with a round
  after a round, and with a completion at once.
- `MaxOps` 3: one more operation than any plan has.
- `MaxTime` 4 from 1: before the start, at the start, within the interval, after
  it. The liveness runs use interval 0 and `MaxTime` 2, so that the clock's bound
  keeps no job from being due: the last value of the clock is due for every plan.
- `hostile` has one job because its faults multiply the states; its properties are
  about one job at a time. Its `MaxOps` is 2: with the tool's executions the log's
  count passes the plan all the same.
- Polls, restarts and crashes are not bounded.

- `MCUserOperationFlow`: bytes of one bit, halves of two bytes, words of four,
  sequences of two. A field takes nil, 0, the longest value that fits (3) and the
  shortest that does not (4, and 16 for a word); a nonce every value up to 8, the
  largest and one too large. The code treats every byte and every field of a
  kind alike, so it is the boundaries and the differences between fields that
  matter. Requests are one field (or the fields of one kind) away from a plain
  operation; estimates and fees vary together.

- `MCExecutionService`: three executions, of which two share a key, are the fewest
  with a competitor and a bystander; two base fees, near enough that one outbids the
  other; two polls for a receipt, a first and a last.
- `MCApplication`: two requests race on the logger, one runs while the other
  arrives; one chain has two pools, in each of which both goroutines can miss; two
  clients in the pools, and one more for each goroutine after `Close`. The drains of one
  and two units and the wait of three keep their order.
- `MCPrototypeScheduler`: a job that succeeds and one that may fail in each poll, a
  second run in which the first one's failures are old. The client may repeat one
  push; any command may fail, and after `Stop` take effect unheard.

Deadlock is checked in every run but `application` and `prototype`, whose programs
end.

### Fairness

`FairSpec` assumes weak fairness of the poller's and of the executor's steps (the
Go scheduler runs both goroutines; the ticker fires again; every call returns), of
`Restart` (the platform starts a stopped service again), of the clock, and of the
inclusion of each accepted operation. A fair goroutine need not succeed: where a
fault is allowed it may fail for ever, so the liveness runs allow only faults that
the properties survive. Nothing is assumed of the users: no one need register,
configure or shut down. Both properties have the premise that shutdowns
cease, without which a service stopped before each poll settles nothing. The run's
instance has neither `switch` nor `manual`: a job that stays off is rightly never settled,
and one whose pending operation the tool has displaced waits for the 24-hour TTL.

That every call returns is assumed of Redis, Postgres and the nodes, and not ensured by
the code, whose contexts have no deadline: `RegisteredSettles` and
`DueJobsAreTriggered` hold as long as the nodes answer, with an error if need be. The two
models that look at single calls do without it. In `ExecutionService` the programs'
steps are weakly fair, but a call may hang at any of them, after which the execution has
no step (`Hang`); nothing is assumed of what the bundler does with operations.

In `Application` it is `main`, its workers and time that go on, dialling
that ends, and a writer that gets the pools' lock at last (Go's RWMutex lets no
reader overtake a waiting writer): one strong fairness for all of these, of which only the last
needs it. Nothing is assumed of the scheduler's goroutines and the requests, whose
queries and contract calls no cancellation reaches. In `PrototypeScheduler` both
goroutines are weakly fair and a pop does not fail for ever.

## 5. Proofs

Every safety property of section 3 that a passing run checks is also proved, and so
is the refinement of `JobLifecycle`: for all jobs, plans, chains, requests, widths
and bounds that the named assumptions on the constants admit. TLC has checked each
inductive invariant on the instance of its component before it was proved.

| Module | Theorems | Under |
|---|---|---|
| `JobSchedulerProofs` | `TypeCorrect` | every fault |
| | `NoDuplicateDispatchHolds` | `ReliableCache` |
| `JobOutcomeProofs` | `EarlierOpsSucceededHolds`, `OnChainFailureIsRealHolds`, `TerminalIsFinalHolds` | `ReliableCache` |
| `JobLifecycleProofs` | `SchedulerImplementsLifecycle` | `ReliableCache` |
| `JobPlanProofs` | `CompletedIsEarnedHolds` | `RegisteredLate` |
| | `SendsOnTimeHolds` | `ReliableCache`, `UpToDateReads`, `NobodyBeside` |
| | `SendsWithinPlanHolds` | `ReliableCache`, `UpToDateReads` |
| | `OffStaysOutHolds`, `SwitchedOffIsUnsentHolds` | `UpToDateSwitches` |
| `UserOperationProofs` | `TypeCorrect`, `SurvivesStorageHolds`, `SignedIsSentHolds`, `OnlyFeesChangeHolds`, `FittingNeverPanicsHolds`, `EveryOtherKeyIsExecutableHolds` | all widths |
| `ExecutionServiceProofs` | `TypeCorrect`, `LostToCompetitorHolds`, `ToolsTellTheTruthHolds` | every failure |
| `ApplicationProofs` | `TypeCorrect`, `NoOrphanClientHolds`, `OwnLoggerOnTopHolds`, `ConnectionsOutliveUsersHolds`, `GracefulLeavesNothingOpenHolds`, `OnlySchedulerTimesOutHolds` | every environment |
| `PrototypeSchedulerProofs` | `TypeCorrect`, `ResultIsRealHolds` | every fault |

### The scheduler

`ReliableCache` says that `lostreply`, `get` and `expiry` are excluded; all other
faults, crashes and shutdowns included, are allowed. It is what the code needs:
with `get` the run `cache_read_error` violates `EarlierOpsSucceeded`, with the other
two a job is queued twice. `RegisteredLate` excludes `early`, without which the run
`early_registration` violates `CompletedIsEarned`, and allows everything else.
`UpToDateReads` excludes `lag` and `lagswitch`, `UpToDateSwitches` only the latter, and
`NobodyBeside` excludes `manual`, with which `SendsOnTime` is lost (section 4). Each names a set of the constant `Faults`, so the
runs with those faults are instances of the theorems.

The invariants are in layers, each kept by a step that starts from it and from those
before it.

*`DispatchInv`*, for `NoDuplicateDispatch`. A job is *held*
while it is in the queue or in the executor's hands. What must be shown is that a
job about to be pushed is not held (`PushedIsFree`). The poll decides that when it
filters (`PickedIsFree`), and it can decide it from the cache because an active
job without a record is free (`UncachedActiveIsFree`). That in turn survives
because a record is only deleted when its job is not held: by a receipt, which
needs a hash, which the executor stores last (`HashedIsFree`, of the records and
of the poll's snapshot of them); by a sync, after the row has ceased to be active
(`PolledIsActive`); or by the cleanup of a push that failed. `HeldIsRegistered`
keeps a registration from making a held job active, and `StageSets` says which of
the poll's sets are empty where. A cancelled context makes the filter see
no record at all, so `PickedIsFree` is conditional on it; no push can succeed then.
Steps that change nothing the invariant speaks of, or only release a job, share
`LooserHolds`; two lemmas say what a push and a pop do to the queue.

*`VerdictInv`*, for `TerminalIsFinal`. `UpdateJobStatus` looks at no previous status,
so a settled row is safe only because any record it still has repeats its verdict
(`RecordFitsRow`). A job that may still report is completed nowhere
(`HeldIsIncomplete`), and what the poll has read as failed or completed stays so until
the row is written (`ReadRecords`): the executor may fail a record under the poll's
hands, never turn one.

*`SettledInv`*, for `EarlierOpsSucceeded`. A job that may be dispatched, that is on
its way into the queue, or that waits for its operation has nothing but successful
operations (`DispatchableIsSettled`, `PickedIsSettled`, `WaitingIsSettled`). A record
is deleted on a success only, and the receipt was that of the last operation:
`HashIsLast`, of the records, of the poll's snapshots and of what the executor is
about to report.

*`RevertInv`*, for `OnChainFailureIsReal`. A verdict is true where it is found, where
it is read and where it is filed, and the job of a reverted operation is held by
nobody who could send another.

The refinement takes `DispatchInv`, `VerdictInv` and `SettledInv` and shows of each
action that it is a step of `JobLifecycle` under the mapping, or a stutter. The
mapping needs the first of them: a job in two places is no place of the abstract
jobs.

*`PlanInv`*, for `SendsOnTime`. The configuration a poll has read is still the log's,
but for the switch, for a job that is not in flight (`ReadConfigs`), since only an
operation of the job changes the rest; so a job whose time has come when it is picked keeps it
through the queue, until its operation is sent: time runs one way. It takes
`NobodyBeside`, since the tool's execution is one the poll has not seen.

*`CountInv`*, for `SendsWithinPlan`, does without it. The scheduler's own successful
operations are at most the log's count (`CountedOps`), also those a poll has read
(`ReadCounts`): an execution beside only makes the count larger. A job that is picked
(`RoomForPicked`), or on its way to the executor (`RoomFor`), had fewer than planned,
and has no operation out that could use up the room.

`OffStaysOut` needs no layer but the types: `OutOfReach` is inductive by itself as long
as the poll reads that the job is off. Duplicates, leftovers and lost replies can only
repeat what was on its way already, which is why neither a reliable cache nor the
absence of `cmd/executeJob` is needed. A read that misses an execution still shows the
switch (`ReadableSwitch`). *`SwitchInv`*, for `SwitchedOffIsUnsent`, adds that a poll
leaves nothing of what it has read to the next one.

*`EarnedInv`*, for `CompletedIsEarned`, depends on no other layer but the types, which
is why it holds under lost replies, failed reads and expiry too. The log's count only
grows, a lagging read is below it, and a job the service knows of was configured
before.

### The user operation

`FlowInv` follows one operation: the row is what was registered (`RegisteredInv`),
each hand passes the same operation on (`CarriedInv`), execution keeps the key, the
width of the nonce and the fields it must not touch (`ExecutedInv`), the signature
ends with the dummy until it is replaced (`SignatureInv`), and request and hash are
of one operation (`SentInv`). The lemmas below it are about the model's operators:
`CopyRightCopies` and `PaddedFits` about buffers, `RowReadsBack` and `QueueReadsBack`
about the two encoders, `HalvesFit` about a packed word, `KeyOfNonce` and `NonceOfKey`,
`DummyEnds`; `HashesAgree` puts them together.

What they need of numbers and their bytes is proved below them, by induction. The
library's induction theorems cannot be instantiated here, but `WFMin` needs no
instance: a set of numbers has a least one (`LeastNumber`), so a set with 0 that is
closed under the successor has all (`Induction`). With it `PowerDefined` shows
that the recursive function `Power` is what its definition says, `PowerOfSum` and
`PowersGrow` what powers do, `ByteLenIs` that the length of a number is the least
whose power exceeds it, `SetBytesReads` that the recursion in `SetBytes` ends in the
value of any sequence of partial values, and `DigitsRead` that the partial values of
a number's digits are its quotients: decoding undoes encoding, with zeros in front
(`PaddedReads`) and without (`HexTextReads`), and what is above the sequence is the
quotient that `extractNonceKey` is after. No theorem has a hypothesis about bytes.

### The others

`ExecutionInv`: the sequence numbers of a key are used up one by one, each by a mined
operation (`SequenceInv`); the pool holds at most one operation of a key, that with the
next number (`PendingInv`). Whoever is refused or pushed out thus has a competitor
to name.

`AppInv`: pools and open clients are in bijection, and who dials has missed under
the write lock (`PoolInv`); a request carries its own logger from its arrival on
(`ServerInv`); what `main` has done by each stage and what the others have done by
then (`StageInv`); units of time pass only when what is due in them has happened
(`TimeInv`); who holds a closed client is one `main` gave up on (`HeldClientsInv`).
`GracefulLeavesNothingOpen` needs of these that a graceful `main` closes the pools
when the scheduler has stopped.

`PrototypeInv`: the result in the executor's hands is one the job has had.

### Only model-checked

- Everything under fairness: `RegisteredSettles`, `DueJobsAreTriggered`,
  `ExecutionsEnd`, `SignalEndsProcess`, `QueueIsWorkedOff`, `StopEnds`. The prover does
  not handle it.
- The expected violations, which are counterexamples and nothing to prove.

## 6. Not modelled

- `cmd/worker`: two workers that each close what they alone have opened; its drain
  and its wait are those of `Application` with nothing shared.
- The validation of registrations and the answers of the API: they decide what is
  registered, and the models start from all that may be.
- Lock and command of a cache method as steps of their own: the RWMutex keeps the
  two goroutines apart between the GET and the SET of `UpdateJobCacheUserOpHash`, the
  only method that writes what it has read, and there is one process.
- Passkey handlers, service and repository: their routes are commented out.
- Configuration, logging, migrations, response formatting, Swagger: I/O and
  layout without control the properties could see.
- `src/utils`, `src/testutil`, `src/domain/error.go`: formatting and test set-up.
- Two processes polling the same database: nothing in the code provides for it.

## 7. Plan

The components above are modelled and their safety properties proved. What is left:

1. Lemmas of wider use out of the proofs' longest steps (`SettledNext`, `VerdictNext`),
   so that a change of one action of the scheduler touches one step of each layer.
2. `NoDuplicateDispatch` under `get` alone, which TLC finds to hold: it needs an
   invariant in which a record may be reset while its job is held.
3. `ConnectionsOutliveUsers` for drains other than the code's, as constants.
