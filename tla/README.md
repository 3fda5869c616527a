# A TLA+ model of algo-backtesting

This directory specifies the parts of the repository that carry its correctness:
the backtest loop with its broker and account, the strategies and the
walk-forward optimizer, the acquisition of market data and its immutable cache,
the results database, the API's background jobs and the AWS workflow that runs
research jobs. Each part is a TLA+ module translated from the code and checked
by TLC on small instances; what matters most is proved with TLAPS for every
value of the constants. `PROJECT.json` lists the components, runs, mutants,
hazards, findings and theorems, and maps every definition to the lines it
models. Paths below are relative to the repository.

## 1. The system

### Components, their state and operations

| Component | State | Operations | What makes it correct |
|---|---|---|---|
| `src/engine/broker.py` SimulatedBroker | none | `execute`: fill price of a MARKET, LIMIT or STOP order on a candle, slippage, commission | a fill happens exactly when, and where, a walk along the bar triggers it, never past the limit |
| `src/models/portfolio.py` Portfolio | cash, positions, restricted cash, collateral and borrow date of each short, trades, equity curve | `record_fill`, `accrue_short_borrow`, `update`, `maintenance_ratio` | money is conserved; the short dictionaries follow the open shorts; a rejected fill changes nothing |
| `src/engine/backtest.py` BacktestEngine | queue, one pending order, the symbol, the portfolio | per candle: accrue borrow, execute pending, mark, margin check, strategy, signal | no look-ahead, one position, orders expire, margin calls are issued and stand, bookkeeping never raises |
| `src/engine/position_sizer.py` | none | `calculate` | at least one share |
| `src/strategies/*` | indicator windows | `on_candle`, `reset` | signals depend on the candles of the run so far and on nothing else |
| `src/analytics/walk_forward.py` | trials, windows, combined curve | rolling windows, random search, out-of-sample run, chaining | the first best trial trades, the combined curve has no jumps |
| `src/analytics/permutation_test.py`, `src/api/jobs.py`, `src/api/routes/backtest.py` | jobs by id, collected metrics | `get`, `set`, background permutation test, polling | active jobs are kept, results leave only for cause, every seed counts once, every job settles |
| `src/data/acquisition.py`, `retry.py`, `providers/*` | none of their own | `acquire`: plan ranges from the cache, fetch with retry and fallback, validate, assemble, publish | what is served as fresh is fresh and meets the policy; errors follow from the attempts |
| `src/data/quality.py`, `normalization.py`, `calendars.py` | none | which rows and frames are accepted | coverage and gaps within the policy |
| `src/data/store.py`, `store_artifacts.py`, `manifest.py` | generation directories, `CURRENT.json`, lock, pins, archived reports | `read_generation`, `publish_generation`, `cleanup_generations`, `lookup_manifest`, `maintain_manifest_archive` | no lost update, readers never see a partial generation, cleanup keeps what is referenced, reports stay discoverable |
| `src/db/*`, `alembic/*` | one SQLite file | assess and upgrade the schema, save a run in one transaction, read runs | no row is lost, a schema called current has its keys, reads see whole runs |
| `src/analytics/sql_*.py` | none | `validate`, `compare`: several SELECTs, then a report or an export | no comparison of ambiguous rows is exported |
| `src/cloud/*`, `infra/step_functions.tf` | DynamoDB run record, S3 objects, execution state | acquire, prepare, run worker, finalize, serve results | a run executes once, terminal records never change, only complete runs become public |
| dashboard, observability, CLIs, benchmarks, metrics, reports | - | user interface, logging, timing, statistics | not modelled (section 5) |

### How they interact

The engine calls broker, portfolio, sizer and strategy synchronously; within a
run there is one thread, and the difficulty is the order of the calls over many
candles. Walk-forward runs the engine once per window with a new strategy
object. The API runs permutation tests as background tasks, which meet their
clients in a job store behind a lock, and saves runs in the database, where it
meets migrations, the analytics commands and any other SQLite client. The API,
the CLI and the cloud acquisition Lambda each run `AcquisitionService` in their
own process on a shared directory; they meet only through files: a lock, the
pointer `CURRENT.json`, immutable generation directories, pin files and archived
reports. In the cloud, the state machine invokes Lambdas and one Fargate task,
which meet through conditional updates of a DynamoDB record and write-once S3
objects. An invocation may outlive the state that started it.

The hard behaviours are therefore: the order of events within and across
candles (engine); state carried over between runs and windows (strategies);
what an acquisition records about rows it did not fetch (acquisition);
interleaved writers, crashes between file operations, failing operations and
cleanup beside publication (store); DDL that commits by itself, racing
migrations and reads without a snapshot (database); expiry and eviction beside
running tasks, a pool that breaks midway (jobs); lost answers, retries, late
writers and timeouts (cloud). `PROJECT.json` lists each under `hazards` at the
line where it bites.

## 2. Modules

| Module | Models | Kind |
|---|---|---|
| `Broker` | fill rules as operators | pure |
| `Portfolio` | the account; extends `Broker` | state, one operator per method |
| `BacktestEngine` | `_run`; extends `Portfolio` | composition |
| `Strategies` | the three strategies and, for each, its signals stated on the whole history | pure, with reference definitions |
| `WalkForward` | windows, search, out-of-sample run, chaining; extends `Strategies` | composition |
| `JobLife` | what the API promises a client about a job: pending, running, an outcome, forgotten | abstract specification |
| `PermutationJobs` | job store, routes, background task, permutation tester; INSTANCEs `JobLife` | detailed specification |
| `Acquisition` | `acquire` for one caller at a time, with retry, providers and quality rules | state machine |
| `CanonicalCache` | what the store promises: a map from session to row, changed atomically | abstract specification |
| `GenerationStore` | acquirers, files, cleanup; INSTANCEs `CanonicalCache` | detailed specification |
| `Database` | SQLite file, migrators, API, readers, analytics commands | composition |
| `RunLedger` | what the workflow promises about runs: opened once, given once, ended once, shown with the success | abstract specification |
| `CloudRun` | one execution of the state machine with Lambdas, worker, storage; INSTANCEs `RunLedger` | detailed specification, composition |
| `*Proofs` | theorems about the module they extend (`StrategyProofs`: lemmas about `Strategies`) | proofs |
| `MC*` | candles, signals, ranges, answers and symmetry for TLC | instances |

Definitions called *Mutant* in a comment are plausible mistakes in the code.
They are used nowhere; replacing the named definition by one of them makes TLC
report the property it is listed with.

### Broker, Portfolio, BacktestEngine

*Units.* Prices are integers (ticks). `SlipScale` and `CostScale` are the
denominators of the percentages: slippage multiplies a price by
`SlipScale + Slippage` or `SlipScale - Slippage`, commission, margin and borrow
rates are numerators over `CostScale`, so all amounts are exact integers in one
small unit. What the model cannot show is the effect of float rounding.

*Broker.* `CalculateFillPrice` follows `_calculate_fill_price`: MARKET at the
open, LIMIT at the open or the limit with slippage capped at the limit, STOP at
the open when the bar gaps through it, else at the stop. `Marketable` and
`RawPrices` are the reference `FillFollowsPricePath` compares it with: they ask
instead which price of the bar's path reaches the order first.

*Portfolio.* Variables are the attributes of `Portfolio`; the list of trades is
kept as the sum of their pnl (`realised`), the equity curve as its peak.
`RecordFill` covers opening, closing, rejection and each raise. `reset` has no
caller and is left out.

*BacktestEngine.* `phase` is the position in the loop body:
`next -> execute -> mark -> margin -> market -> signal -> next`, one action for
each. `NextCandle` includes the accrual of borrow fees, `ExecutePending` the
broker, the fill event and the removal of expired orders, `HandleSignalEvent`
the building of the order. The strategy is the environment: any signal of
`Signals`, or none, on each candle, a malformed one included. The sizer is any
quantity of at least one share.

### Strategies, WalkForward

A strategy's state is the record of its attributes; averages are integer sums,
or a numerator over a power of the period for Wilder's smoothing, so that each
comparison of the code is exact. `OnCandle` is the incremental program;
`ExpectedSignal` recomputes the indicator from the whole history. `WalkForward`
draws parameters, scores them (the same parameters score the same in a window),
keeps the running best in `best` as `_optimize_window` does in `best_params` and
`best_metric`, and runs the winner candle by candle; fills and equity of that run
are any the engine could give. `EngineRaises` is an exception of
`BacktestEngine.run`, in a trial or in the out-of-sample run: only the
`ValueError` of a strategy's constructor is caught, so the analysis ends in phase
`raised` and returns no curve. The auxiliary `growth` multiplies the first and
the last equities of the segments, which is what the chained curve is compared
with. Two things in the code are visible here and are not errors of
a run: `BacktestEngine.run` never calls `strategy.reset()`, although
`src/strategies/base.py:38` says it is called before a backtest (walk-forward
builds a new object instead, which is what the model does), and the
moving-average strategy puts the candle's date into `signal.symbol`, which the
engine ignores when a symbol is requested.

### PermutationJobs

`entries` is `_entries`, `order` the place of a key in the dictionary (a
replaced key keeps its place, which decides ties of the eviction sort). A
handler that makes two store calls is two actions. `samples` counts how often
the result of each seed was collected, and `Collection` is `permuted_metrics` as
the set of these occurrences; `CollectResult` takes them in any order.
`WorkerFails` is `_PermutationWorkerError`, which the fallback does not catch;
`RestartSequentially` is the fallback, with a new list. `Restart` is the process
restarting: the store is process-local.

`JobLife` has no store, threads, clock or capacity. It has what each job is
(`life`) and what its client was last told (`told`): `Post`, `Start`, `End`,
`Tell`, and `Lose` for a restart. A job starts only once its client has been told
that it is pending, as `BackgroundTasks` runs after the response; outcomes may be
forgotten in any step, since `get` and `set` both purge; an active job is
forgotten only by `Lose`. `PermutationJobs` maps `life` to the status of the
job's entry (`Life`) and `told` to the last answer.

### Acquisition

`Acquire` plans: expected sessions, the recent window, stale and missing
sessions, contiguous groups, the eligible providers of each range. `FetchRaises`
and `FetchReturns` are one attempt each, with the retry, the fallback and Alpha
Vantage's local budget; `Widen` is the full refetch after a corporate action
changed; `Publish` merges, validates the complete request, rebuilds the lineage
and, for an acquisition that bypassed the cache, rebases it. A cached row carries
the time it was really received, which the program does not have: it has only
the lineage segments, and `FreshHitIsFresh` compares the two. A publication is
one step here; its interleavings are `GenerationStore`'s subject.

### GenerationStore and CanonicalCache

An acquirer runs `acquire` once; its name is its acquisition id and its
generation id, which are fresh. A row of a frame is the acquirer that fetched it,
which is all that lost-update properties need to tell. `pc` follows `acquire`:
`idle`, `fetching`, `fetched`, then in `publish_generation` `locked`,
`assembled` (rebased on the latest generation), `writing`, `written`,
`committed`, and `archiving`, `pinning`, `failing`, `done`. Each file operation
is an action, so that another process, a failure or a crash fits between any
two. `Crash` releases the lock, as the operating system does. `Faults` selects
which operations may fail. `cleanup_generations` is a process of its own that
reads `CURRENT`, lists directories and pins, and deletes one directory at a time.

`CanonicalCache` has the rows, the acquisitions that have published, and one
action, `Publish`: a set of sessions gets the rows of one acquisition and every
other session keeps its own. `GenerationStore` maps the rows to the frame
`CURRENT` leads to.

### Database

A database is a record: named objects, tables whose structure is not the
expected one, tables with their unique constraint, the revision, and the rows
(run and copy, so that two copies are a duplicate key). `disk` is what is
committed, `work` what the holder of the write lock sees. SQLite is external and
modelled from how the code drives it: through pysqlite a transaction starts at
the first INSERT, UPDATE or DELETE, so a DDL statement before it commits by
itself (`Ddl`), one after it belongs to the transaction. `upgrade_database` is
followed statement by statement, both revisions included; `Interrupt` may stop
it between any two. The API checks the schema once, at its start. A read route
and an analytics command are a set or sequence of SELECTs, each of which sees
what is committed at that moment; other clients insert rows that obey the keys,
if there are any, but not foreign keys. A client that deletes or repairs rows is
not modelled (nothing in the repository does either), and `ExportIsChecked` rests
on that. `StampRow` assigns the revision where alembic inserts a row: the second
stamp of a race would fail on the key, which is an interrupted upgrade
(`Interrupt`), or leave two rows, which `assess_schema` calls UNKNOWN.

### CloudRun

`status`, `code`, `completed` and `started` are the DynamoDB record of a run,
`specs` and `objects` the S3 objects. An object's contents are the worker that
wrote them: two workers would write different `result.json` and
`checksums.json` (they hold a completion time) and equal tables and report. A
Lambda invocation is an entry of `calls` with its own program counter, one step
for each S3 or DynamoDB request; its outcome is `ok`, `error` (the handler
refuses) or `broken` (AWS fails or the function times out). `wf` is the state of
the execution; `waiting` and `worker` are what it waits for. `ServiceFails` and
`LaunchFails` model Retry: the state machine forgets the invocation or the task,
which goes on. `Served` is what `get_public_result` demands before it answers 200.

`RunLedger` knows neither calls nor objects nor a state machine: `Open`, `Begin`,
`Succeed` and `Fail` a run. `CloudRun` maps its stage to the record's status, the
executions a run was given to to the workers whose `MarkRunning` succeeded
(`Given`), and what is shown to the worker whose result `Served` lets anybody
read (`Shown`). So `KeepsLedger` also says that the result becomes readable in the
very step that marks the success, although its objects were all written before,
and that it is the result of the one worker that took the run.

## 3. Runs

| Run | Instance | Time | Shows |
|---|---|---|---|
| `engine` | 2 symbols, no requested symbol, every order type for one of them and market orders for both, a malformed signal, gaps of 1 and 3 days, 4 bars | 1 min | fills where the bar's path says, no look-ahead, coherent queue, fresh marks, margin calls issued, prompt and resolved, books that balance, no raise but for malformed signals |
| `engine_opposite` | 1 symbol | s | **violation**, finding 1 |
| `store_publish` | 3 acquirers of 1 session each out of 2, failing validation, write, archival and pin, crashes anywhere, one cleanup that runs alone | 1.5 min | `CurrentIsComplete`, refinement of `CanonicalCache`, reports discoverable, failed refreshes keep data, cleanup retains |
| `store_live` | 2 acquirers, one outside the lock, failing fetch, write, sync and removal, crashes, cleanup racing, fairness | 1 min | every acquisition ends; a generation is built on the one it names, thanks to the conflict loop |
| `store_partial` | providers may leave sessions out | s | **violation**, finding 2 |
| `store_cleanup_race` | cleanup beside acquisitions | s | **violation**, finding 3 |
| `cloud_run` | 2 run ids, 2 tasks, 2 invocations at once, one retry, all faults | 1 min | executed once, refinement of `RunLedger`, succeeded runs complete and served, end state true, no run left open |
| `jobs` | 2 jobs of 2 seeds, room for 1 result, TTL 2, clock to 3 | 40 s | active jobs kept, results dropped for cause only, exact statistics, refinement of `JobLife`, jobs settle |
| `database` | 5 initial schemas, 2 migrators, 1 run with 2 copies, API, readers, analytics, another client | 1.5 min | no row lost, current means hardened, served schema stays hardened, whole reads, checked exports |
| `database_atomic` | 1 migrator | s | **violation**, finding 4 |
| `acquisition` | 3 sessions and a holiday, 4 kinds of request, 15 answers, clock to 2 | 1 min | fresh hits are fresh, failures explained, policy met |
| `research` | 3 strategies with 2 valid parameter choices and an invalid one, 4 candles, windows of 5 that abut or overlap | 30 s | signals match their reference (for the window strategies and for the RSI), best trial wins, curve chains, analysis ends with a result or with the engine's exception |

*Why the bounds are enough.* A round trip takes two fills and each needs a
signal on an earlier candle: four candles hold an entry, a breach and the forced
cover, or an entry and an exit with what follows. Three acquirers are needed for
a base, a winner and a loser of the race; two, for a conflict with a writer the
lock does not exclude. Two jobs and room for one result make eviction, expiry
and clock ties happen. Two migrators give every race of one upgrade with
another, two copies of one run a duplicate key; more runs add nothing, since no
rule relates two runs. In the acquisition the sessions 1, 2 and 4 around a
holiday give gaps at the edge and inside, a budget of 2 calls is used up by one
request, and TTLs of 0 and 1 expire on the clock. A period of 3 and five
out-of-sample candles give the RSI its seed and two smoothed steps. In the cloud
two invocations at once and one retry produce every overlap of a success and a
failure finalizer; two tasks, the duplicate worker. Where TLC is limited to such
an instance the theorems below are not. Symmetry is used only for
interchangeable processes and rows and never with liveness.

*Deadlock* is checked in `acquisition` and `research`. Elsewhere it is off because
the modelled system ends: the series ends, each acquisition is run once, the
execution reaches an end state, clocks are bounded. `AcquisitionsFinish`,
`JobsSettle` and `MarginCallResolved` check what deadlock freedom would.

*Fairness.* `BacktestEngine!FairSpec` is weak fairness of the loop body, and
`WalkForward!FairSpec` of the analysis: plain sequential code. `MarginCallResolved`
also allows for the data to end. `GenerationStore!FairSpec` is weak fairness of
each started acquirer and of a started cleanup: processes that run keep running.
Weak fairness suffices for the lock although `FileLock` only polls, because each
acquirer takes it once; a waiter is assumed to take a free lock, not to be freed
by an I/O error. `PermutationJobs!FairSpec` is weak fairness of the threads that
serve a request and run its task; they block on nothing but the store's lock.
Nothing is assumed of crashes or faults, nor that an acquisition or a job starts.
`CloudRun`, `Database` and `Acquisition` are checked for safety only.

### Findings

1. `engine_opposite`. The execution design says an opposite signal cancels the
   pending order; with a LONG open and a SHORT limit exit pending, `_build_order`
   returns `None` for a LONG signal and the exit stays.
2. `store_partial`. The rebase selects every candidate row inside the planned
   ranges. When the provider leaves a session out, that row is the old base's
   and overwrites the one another acquisition committed meanwhile.
3. `store_cleanup_race`. `cleanup_generations` takes no lock: a generation
   committed after it has read `CURRENT` is removed although it is active.
4. `database_atomic`. The blueprint promises an atomic migration; on SQLite the
   version table and the temporary table commit before the first row is
   written, and an interruption there leaves a schema that `assess_schema` calls
   UNKNOWN and every later upgrade refuses. No data is lost (`NoRowLost`).

Further limits are visible in the model and have no run of their own.

- Adding `"sync"` to `Faults` in `MCStorePublish.cfg` violates
  `FailedRefreshKeepsData`: when the directory sync after `os.replace` raises, the
  caller is told of a failure while `CURRENT` serves the new data.
- A crash between the commit and the archival leaves a generation neither
  archived nor pinned, although ADR 0003 says it stays pinned until archived;
  `ReportsDiscoverable` therefore speaks of acquisitions that returned.
- `_rebase_lineage` gives every day of a replaced range an incoming segment. A
  bypassing acquisition whose answer omits a cached day thereby relabels the old
  row as just received. `FreshHitIsFresh` excepts these days (`foreign`).
- `_actions_changed` compares only days that are in the cache and in the answer:
  a split first seen on a new day does not widen the refresh.
- Read routes and audits have no SQLite snapshot. `ReadsAreWhole` and
  `ExportIsChecked` hold all the same, because committed rows are never removed.
- In the cloud, a whole-execution timeout (900 s, without a Catch) leaves the
  record open, and a retried preparation orphans a PENDING record;
  `NoRunLeftOpen` excludes both by its wording.
- `WalkForwardAnalyzer` accepts `step_days` 0 and then never leaves its first
  window; the assumption admits it and `AnalysisEnds` speaks of positive steps.
  With a step shorter than the out-of-sample window the chained curve repeats
  dates; `CombinedCurveChains` claims their order only for windows that do
  not overlap.

## 4. Proofs

### BacktestEngineProofs

For every set of candles and signals, every quantity set, margin setting and
length of run, from `SeriesAssumption` (positive OHLC-ordered candles, advancing
time), `EngineAssumption` (types) and `SlippageBelowPrice`:
`TypeCorrect`, `SinglePosition`, `QueueIsCoherent`, `BookkeepingNeverRaises`,
`BooksBalance`, `CollateralFollowsShorts`, `FillsAreFair`,
`FillsFollowPricePath`, `MarksAreFresh`, `MarginIsEnforced`, `CoversArePrompt`, `MarketOrdersLiveOneCandle`,
`MarginCallStands`.

None of the properties is inductive alone. That the ledger balances needs the
sum over positions, hence that there is at most one (`PositionIsMarked`: in the
symbol the engine marks), hence that the pending order can never open a second
(`PendingClosesPosition`), hence that it was well formed when it was queued
(`PendingWellFormed`). `CoreInv` is their conjunction with `ShortBooks` and the
ledger stated for one position (`LedgerOfOne`), which spares the proof a sum over
an arbitrary set. The lemmas `OpenKeepsBooks`, `CloseKeepsBooks` and
`AccrualKeepsBooks` do the arithmetic once per portfolio operation; one lemma per
engine action uses them. `MarginInv` adds what margin calls need on top.
`FillsFollowPricePath` compares `_calculate_fill_price` with the walk along the bar
once, in `FillPriceIsReference`; the fill of a step is then the reference's
because the order that fills was well formed.

### GenerationStoreProofs

For any number of acquirers and sessions and any faults, from `StoreAssumption`.
Each theorem has only the hypotheses it needs:

| Theorem | Hypotheses | Invariant |
|---|---|---|
| `StoreTypeCorrect` | - | `TypeOK` |
| `ReadersSeeWholeGenerations`, `CleanupIsSafe`, `ReportsStayDiscoverable` | cleanup runs alone | `FileInv` |
| `FailedRefreshesKeepData` | no directory sync fails | `RefreshInv` |
| `BuiltOnPreviousHolds` | providers answer whole ranges | `BuildInv` |
| `CacheRefinement` | `Discipline`: both, and every writer takes the lock | `StoreInv` |

The hypotheses are not decoration: `store_cleanup_race` refutes `CleanupIsSafe`
without the first, a failing sync breaks `FailedRefreshKeepsData` (section 3), and
`store_partial` refutes the refinement when providers leave sessions out. `FileInv` conjoins `CleanInv`, `FilesInv` (`CURRENT` leads to a
complete, committed generation), `CommitInv` (a committed generation's publisher
writes no more) and `ResultInv` (an answer without a pin warning has its report
archived or pinned); it mentions no lock, so readers are safe even beside a
writer that bypasses it. `RefreshInv` says that nothing but the sync raises after
the commit. `BuildInv` shows that the comparison of the generation observed with
the one read, not the lock, makes a generation build on the one it names: a
candidate whose base was superseded may hold anything outside its plan, because
it is rebased and `CURRENT` never returns to an earlier generation.

For the refinement `StoreInv` adds `LockInv` (who is between lock and unlock holds
it), `LatestInv` (what was read under the lock is still current) and `FrameInv`
(what a candidate frame holds at each stage: the base, then the fetched ranges
over the base, then the fetched ranges over `CURRENT`). The last is why the commit
maps to `Publish`; every other step leaves the abstract rows alone (`Invisible`).

### AcquisitionProofs

For any calendar, requests, policy, budget and answers, from
`AcquisitionAssumption`: `AcquisitionTypeCorrect`, `FreshHitsAreFresh`,
`HitsAreFreshWithoutBypass`, `FailuresAreExplained`, `ServedDataMeetsPolicy`, `PublicationsOnlyRefresh`.

`FreshHitsAreFresh` excepts the days of `foreign`, the rows a bypassing
acquisition relabelled without refreshing them, where the code does serve expired
rows as fresh. `HitsAreFreshWithoutBypass` says that these are the only ones: when
no request bypasses the cache, `foreign` stays empty and every row of a fresh hit
is within its lifetime.

`IInv` conjoins the types, `PlanInv` (an acquisition fetches a range left of its
plan and accepts rows in the plan only), `LineageInv` and `FetchInv`. `LineageInv`
is the reason a fresh hit is fresh: every cached row outside `foreign` is covered
by lineage segments, all of its own provider, and none claims a later time than
the row was received. Both ways of writing the lineage keep it: the rebuild
gives a day the segment of its accepted answer or keeps the cached one, the rebase
takes it from the incoming or the current lineage, and both then merge adjacent
days of equal provenance only (`GroupByProvenanceFacts`). `FetchInv`
carries the log of a range (`LogOK`): providers before the current one were given
up on, the current one has had transient failures only, no provider has more
than `MaxAttempts`; the error `_fetch_range` raises is read off it. That what is
served meets the policy needs that the groups of missing sessions the code forms
are the maximal ones the policy is about. The least and greatest days these
arguments name exist because `Days` is finite (`MinExists` and its neighbours).

`PublicationsOnlyRefresh` is an action property: a row changes only where this
acquisition accepted one, in a range it planned, and never to an older one; no
row disappears. It needs `AgeInv`: what was accepted is no older than the cached
row it would replace, which holds because the clock only advances and the cache
is written by the publication that ends the acquisition.

### CloudRunProofs

For any number of runs, tasks, simultaneous invocations and retries and any
faults, from `CloudAssumption` (`None` is no run, task, invocation, time or
failure code): `Types`, `RunsOnce`, `SuccessIsServable`, `EndsTruly`,
`NothingLeftOpen`, `TerminalRecordsAreFinal`, `LedgerIsKept`.

The argument has two halves. `Advances` says what one step, whoever takes it,
may do to records and objects: a record never falls back, a terminal one keeps
its status, code and time, a stored object stays. It follows from the conditions
of the updates and of `put` alone. `RunInv` then says what each process may
conclude from its own progress: a worker past `MarkRunning` is the only one that
executed its run (`WorkerInv`), so everything stored for a run is of one worker
(`ObjectInv`); a finalizer about to mark success has verified the artifacts, one
that answered agrees with the record, one that found a failure refused knows the
record terminal (`CallInv`); the state machine's run exists, and the invocation it
waits for does what its state asked (`FlowInv`). These conclusions are stable
because records only advance (`CallKept`, `FlowKept`), so each action's proof
concerns only the process that steps.

`LedgerIsKept` is the refinement of `RunLedger`. Four steps touch the record, and
each has a lemma that maps it (`CreateOpens`, `MarkRunningBegins`,
`MarkSucceededSucceeds`, `MarkFailedFails`); the others leave the ledger alone
(`RestIsInvisible`). That they do is not obvious for the steps that write
objects: `ShownIsGiven` derives from `RunInv` that a run shows its own
worker's result from its success on and nothing before.

### PermutationJobsProofs

For any finite number of jobs and seeds, any metric of a seed, any capacity, TTL
and length of run, from `JobStoreAssumption` and `SeedsAssumption`:
`ActiveJobsAreKeptHolds`, `JobsAreServed`, `PollsNeverRegressHolds`,
`ResultsAreExact`, `ResultsLeaveForCause`, `JobsTypeCorrect`.

Expiry and eviction remove terminal entries only (`GetKeepsActive`,
`SetKeepsActive`). That alone does not order what clients are told: `JobsInv` ties
together, for each phase of a task, the status in the store and the last answer
(`PhaseInv`), so that a poll finds the same status or a later one, and
`SampleInv` that no seed is counted twice. A pass that ended has therefore
collected every seed once, and `FullPassResult` turns the counts of
`permuted_metrics` into counts of seeds.

`StoreInv` is about what the store gives up: entries, dictionary order and times
of the outcomes belong together, and a missing outcome was old or crowded out.
Eviction keeps the `max_terminal_jobs` last entries of a sort. The proof numbers
the terminal entries by their place in that order (`RankFacts`: with distinct
keys, the places are distinct and fill an interval), so that those which stay fit
in `MaxTerminal` places (`CapacityBound`) and those which go had that many after
them (`EvictedIsCrowdedOut`).

`JobsAreServed` is the refinement of `JobLife`, from `JobsInv` alone: one lemma for
each kind of store access says which abstract step it is (`StartPosts`,
`BeginStarts`, `OutcomeEnds`, `GetTells`, `RestartLoses`), and `OneMoves` that the
purge inside it does to the other jobs no more than `Kept` allows.

### DatabaseProofs

For any number of migrators, runs and rows, from any of the initial schemas, by
`DatabaseAssumption` and `SchemasAssumption`: `CurrentIsHardenedHolds`,
`ServedSchemaIsHardenedHolds`, `NoRowLostHolds`, `ReadsAreWholeHolds`,
`ExportIsCheckedHolds`, `DatabaseTypeCorrect`.

`Grows` says that one database has all rows of the tables and all constraints of
another. `WriteIsSound` shows once that a statement which only adds to what its
process sees keeps `DbInv` (`KeysHold` and `Grows(disk, work)`) and other processes'
transactions (`Local`). Only the swap of a table could violate it, and
`MigratorInv` says why it does not: a migrator about to swap is in the transaction
in which it copied every row past the unique key. `ApiInv` (the run being saved is
nowhere on disk, its children not before its parent), `SavedInv` and `ReadInv` then
give the readers' guarantees: what a reader found wanting was on disk and is
therefore never the run about to be saved, and a run that was ambiguous in a
comparison stays so until its query is run.

### StrategyProofs and WalkForwardProofs

For any series, window sizes, steps, number of trials, parameter spaces, metrics
and equity curves, from `NoValueAssumption` and `WalkForwardAssumption` (positive
sizes, a step of 0 or more; out-of-sample curves have a point per candle): `AnalysisTypeCorrect`,
`WindowSignalsAreReferenceSignals`, `WilderSignalsAreReferenceSignals`,
`SearchPicksBestTrial`, `CurveChains`. What one `on_candle` does is proved in
`StrategyProofs`, what an analysis does with it in `WalkForwardProofs`.

`IndicatorInv` says that nothing is remembered outside an out-of-sample run and
that inside one the two windows of `BreakoutStrategy`, and those of
`MACrossoverStrategy`, are the most recent values (`Recent`) of that run's own
candles. `PushKeepsRecent` is the lemma about `deque(maxlen=n)`, `LastNIsRecent`
that the reference looks at the same values; with them `BreakoutStep` and
`MACrossoverStep` show that one `on_candle` keeps the invariant and returns the
signal of the reference, at the boundary where a window becomes full too. Types
are proved with it and not before: the extremum of the lows is a number only
because both windows of the channel grow together.

The RSI strategy keeps two smoothed averages and no history, and the reference
has Wilder's average in closed form, a weighted sum of all changes with powers
of the period. `RSIInv` says that before the seed the averages are plain sums
and after it the closed form, scaled. `WilderFirst` is the seed on exactly
`period` changes, `WilderNext` one smoothing step: every weight is multiplied by
`period - 1` and the new change enters with the next power of the period. Sums and
powers are recursive functions, so what they compute needs an induction; the
library's induction theorems take an operator the provers cannot instantiate, and
`Induction` states it for a set instead, by the least number outside it.
`SolutionExists` and `SolutionUnique` make the recursive definitions usable, and
`SumAppend`, `SumScaled` and `PowerFacts` are all the algebra that is left.

`SearchInv` says that the running best is the first best of the trials so far.
`ChainInv` adds to the property that an empty curve has no growth and that the curve ends before the
next window's out-of-sample candles when windows do not overlap; the growth
identity is then multiplied by one segment's growth (`GrowthMultiplies`).

### Only model-checked

Liveness under fairness (`MarginCallResolved`, `AcquisitionsFinish`, `JobsSettle`,
`AnalysisEnds`), which is beyond the prover used here, as ENABLED is. Every other
property of the passing runs is a theorem. Some theorems have hypotheses that
their run satisfies by its constants (`GenerationStoreProofs`). Some theorems
state properties no run has a line for: types, facts about one variable of the
engine, `TerminalRecordsAreFinal` and `PollsNeverRegressHolds`, which the two
refinements imply, `PublicationsOnlyRefresh`, which TLC confirmed on the instance
of `acquisition` before it was proved, and `HitsAreFreshWithoutBypass`, which it
confirmed there without the bypassing request (with it, TLC finds an expired row).

## 5. What is not modelled

- Floating-point rounding; metrics, combined statistics and the HTML report.
- The arithmetic of the position sizers, beyond at least one share.
- SQL analytics: rules about column values, result contracts, the catalogue's
  digests, the staging of output files, and service reports without a caller.
- Price adjustment and `compare_cached_and_refreshed` (not called by `acquire`);
  pacing between provider calls and the midnight reset of the budget.
- Data contracts, the legacy single-file cache and its fetcher: validation of
  values and wiring.
- HTTP routes other than saving, reading, starting and polling; validation of
  request fields; the dashboard, logging, command lines and benchmarks, which
  are input and output around the parts above.
- S3 lifecycle expiry and DynamoDB TTL; several executions at once (run ids are
  fresh, so executions share no record).

## 6. Plan

What remains, in order of worth:

1. Abstract specifications of the database (a table of whole runs that only
   grows) and of the acquisition service, with the detailed modules shown to
   implement them; both follow from invariants that are already proved.
2. The conclusion of the refinement of `CanonicalCache` when providers leave
   sessions out: what the store still promises then.
3. The sizers' arithmetic over rationals as pairs, as operators with a reference.
