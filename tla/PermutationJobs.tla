-------------------------- MODULE PermutationJobs --------------------------
(***************************************************************************)
(* The API's background permutation tests: InMemoryJobStore                *)
(* (src/src/api/jobs.py), the routes that start and poll a job             *)
(* (src/src/api/routes/backtest.py) and PermutationTester.run              *)
(* (src/src/analytics/permutation_test.py).                                *)
(*                                                                         *)
(* Every store call holds the lock, so get and set are atomic; a handler   *)
(* that makes two calls is two steps.  A job is posted, answered, queued   *)
(* as a background task, run, and ends "done" or "error"; meanwhile any    *)
(* client may poll any job, the clock runs and the process may restart.    *)
(* A permuted run is its seed: shuffle and backtest are a function of it.  *)
(***************************************************************************)
EXTENDS Integers, FiniteSets

CONSTANTS
    Jobs,           \* job identifiers (uuid4)
    Seeds,          \* self.seed + i for i in range(n_permutations)
    Metric,         \* Metric[s]: what _run_single_permutation answers for seed s
    ActualMetric,   \* the metric on the real candles
    MaxTerminal,    \* max_terminal_jobs
    TTL,            \* terminal_ttl_seconds
    MaxTime,        \* bound on the clock
    None            \* Python's None

Active == {"pending", "running"}
Terminal == {"done", "error"}
Statuses == Active \cup Terminal

\* _JobEntry: status, result and updated_at.
Entry == [status : Statuses, result : [gte : Int, rank : Int, size : Int] \cup {None}, at : Nat]

ASSUME JobStoreAssumption ==
    /\ MaxTerminal \in Nat \ {0} /\ TTL \in Nat \ {0} /\ MaxTime \in Nat
    /\ IsFiniteSet(Jobs)
    /\ None \notin Nat
    /\ None \notin Entry

ASSUME SeedsAssumption ==
    /\ IsFiniteSet(Seeds)
    /\ Metric \in [Seeds -> Int] /\ ActualMetric \in Int

VARIABLES
    now,        \* the monotonic clock
    entries,    \* _entries: the job's entry, or None
    order,      \* place of the job in the dictionary, 0 before it is inserted
    phase,      \* where the job's request or background task is
    samples,    \* permuted_metrics: how often each seed's result was collected
    seen,       \* the last status a client was told
    finished    \* auxiliary: when the job's terminal entry was set, or None

vars == <<now, entries, order, phase, samples, seen, finished>>

NoSamples == [s \in Seeds |-> 0]

Init ==
    /\ now = 0
    /\ entries = [j \in Jobs |-> None]
    /\ order = [j \in Jobs |-> 0]
    /\ phase = [j \in Jobs |-> "new"]
    /\ samples = [j \in Jobs |-> NoSamples]
    /\ seen = [j \in Jobs |-> "nothing"]
    /\ finished = [j \in Jobs |-> None]

-----------------------------------------------------------------------------
(* InMemoryJobStore.                                                       *)

IsTerminal(entry) == entry # None /\ entry.status \in Terminal

\* Mutant: every entry expires, whatever its status.
WithoutExpiredAny(store) ==
    [j \in Jobs |-> IF store[j] # None /\ now - store[j].at >= TTL THEN None ELSE store[j]]

\* _without_expired: terminal entries leave when they reach the TTL.
WithoutExpired(store) ==
    [j \in Jobs |-> IF IsTerminal(store[j]) /\ now - store[j].at >= TTL
                    THEN None ELSE store[j]]

\* j precedes k in terminal jobs sorted by updated_at; the sort is stable, so
\* the dictionary order decides between equal times.
Older(store, place, j, k) ==
    \/ store[j].at < store[k].at
    \/ store[j].at = store[k].at /\ place[j] < place[k]

\* Mutant: the newest results are evicted first.
WithinTerminalCapacityNewest(store, place) ==
    LET terminal == {j \in Jobs : IsTerminal(store[j])}
        excess == Cardinality(terminal) - MaxTerminal
    IN  [j \in Jobs |->
           IF j \in terminal /\ Cardinality({k \in terminal : Older(store, place, j, k)}) < excess
           THEN None ELSE store[j]]

\* _within_terminal_capacity: drop the first `excess` terminal entries.
WithinTerminalCapacity(store, place) ==
    LET terminal == {j \in Jobs : IsTerminal(store[j])}
        excess == Cardinality(terminal) - MaxTerminal
    IN  [j \in Jobs |->
           IF j \in terminal /\ Cardinality({k \in terminal : Older(store, place, k, j)}) < excess
           THEN None ELSE store[j]]

\* {**entries, job_id: ...}: a replaced key keeps its place, a new one is last.
Placed(j) ==
    [order EXCEPT ![j] = IF @ > 0 THEN @ ELSE 1 + Cardinality({k \in Jobs : order[k] > 0})]

\* set(): expire, insert, evict, under one lock.
SetJob(j, status, result) ==
    /\ order' = Placed(j)
    /\ entries' = WithinTerminalCapacity(
                    [WithoutExpired(entries) EXCEPT
                       ![j] = [status |-> status, result |-> result, at |-> now]], order')

\* get(): expire, then answer the entry or None.
GetJob(j) == entries' = WithoutExpired(entries)

-----------------------------------------------------------------------------
(* The routes and the background task.                                     *)

At(j, from, to) == phase[j] = from /\ phase' = [phase EXCEPT ![j] = to]

\* start_permutation_test, up to the task being queued behind the response.
StartPermutationTest(j) ==
    /\ At(j, "new", "posted")
    /\ SetJob(j, "pending", None)
    /\ UNCHANGED <<now, samples, seen, finished>>

\* Its second store call, whose answer it asserts is not None and returns.
RespondAccepted(j) ==
    /\ GetJob(j)
    /\ At(j, "posted", IF entries'[j] = None THEN "raised" ELSE "queued")
    /\ seen' = [seen EXCEPT ![j] = IF entries'[j] = None THEN @ ELSE entries'[j].status]
    /\ UNCHANGED <<now, order, samples, finished>>

\* _run_permutation_bg begins.
BeginTask(j) ==
    /\ At(j, "queued", "running")
    /\ SetJob(j, "running", None)
    /\ UNCHANGED <<now, samples, seen, finished>>

\* Mutant: the exception is only logged.
SetErrorLogged(j) ==
    /\ phase' = [phase EXCEPT ![j] = "over"]
    /\ finished' = [finished EXCEPT ![j] = now]
    /\ UNCHANGED <<now, entries, order, samples, seen>>

\* The except clause of _run_permutation_bg, whatever was raised.
SetError(j) ==
    /\ phase' = [phase EXCEPT ![j] = "over"]
    /\ SetJob(j, "error", None)
    /\ finished' = [finished EXCEPT ![j] = now]
    /\ UNCHANGED <<now, samples, seen>>

\* Anything before the pool raises: the strategy's parameters, the candles,
\* the run on the real series or a metric that is not defined.
PreparationFails(j) ==
    /\ phase[j] = "running"
    /\ samples[j] = NoSamples
    /\ SetError(j)

\* _run_single_permutation: shuffle, rebuild the prices, run the engine, compute
\* the metrics; a function of the seed and of nothing shared.
RunSinglePermutation(s) == Metric[s]

\* as_completed yields the result of one future, in any order.
CollectResult(j, s) ==
    /\ phase[j] = "running"
    /\ samples[j][s] = 0
    /\ samples' = [samples EXCEPT ![j][s] = 1]
    /\ UNCHANGED <<now, entries, order, phase, seen, finished>>

\* future.result() raises, for a failed backtest or a broken pool alike:
\* _PermutationWorkerError, which is never answered by the fallback.
WorkerFails(j) ==
    /\ phase[j] = "running"
    /\ \E s \in Seeds : samples[j][s] = 0
    /\ SetError(j)

Collected(j) == \A s \in Seeds : samples[j][s] > 0

\* The elements of permuted_metrics that came from the seeds in S.
Collection(counts, S) == UNION {{s} \X (1..counts[s]) : s \in S}

\* The PermutationResult: p_value is gte/size with the add-one correction,
\* percentile is rank/size; rank is the first index of the actual metric among
\* the sorted metrics.
PermutationResult(counts) ==
    LET total(S) == Cardinality(Collection(counts, S))
    IN  [gte  |-> total({s \in Seeds : RunSinglePermutation(s) >= ActualMetric}) + 1,
         rank |-> total({s \in Seeds : RunSinglePermutation(s) < ActualMetric}),
         size |-> total(Seeds) + 1]

\* Mutant: the entry is published while the task can still raise.
SetDoneEarly(j) ==
    /\ Collected(j)
    /\ phase[j] = "running"
    /\ SetJob(j, "done", PermutationResult(samples[j]))
    /\ finished' = [finished EXCEPT ![j] = now]
    /\ UNCHANGED <<now, phase, samples, seen>>

\* The pool has answered every seed: statistics, then the "done" entry.
SetDone(j) ==
    /\ Collected(j)
    /\ At(j, "running", "over")
    /\ SetJob(j, "done", PermutationResult(samples[j]))
    /\ finished' = [finished EXCEPT ![j] = now]
    /\ UNCHANGED <<now, samples, seen>>

\* Mutant: the sequential pass adds to what the pool had already answered.
RestartSequentiallyKeeps(j) ==
    /\ samples[j] = NoSamples \/ Collected(j)
    /\ At(j, "running", "over")
    /\ samples' = [samples EXCEPT ![j] = [s \in Seeds |-> @[s] + 1]]
    /\ SetJob(j, "done", PermutationResult(samples'[j]))
    /\ finished' = [finished EXCEPT ![j] = now]
    /\ UNCHANGED <<now, seen>>

\* Creating the pool, submitting to it or shutting it down raises: every seed
\* is run again, in this process, into a new list; then as above.
RestartSequentially(j) ==
    /\ samples[j] = NoSamples \/ Collected(j)
    /\ At(j, "running", "over")
    /\ samples' = [samples EXCEPT ![j] = [s \in Seeds |-> 1]]
    /\ SetJob(j, "done", PermutationResult(samples'[j]))
    /\ finished' = [finished EXCEPT ![j] = now]
    /\ UNCHANGED <<now, seen>>

\* ... or the sequential pass raises in turn.
SequentialFails(j) ==
    /\ phase[j] = "running"
    /\ samples[j] = NoSamples \/ Collected(j)
    /\ SetError(j)

\* poll_permutation_test: 404 when the store has no entry (any more).
PollPermutationTest(j) ==
    /\ phase[j] \notin {"new", "posted"}
    /\ GetJob(j)
    /\ seen' = [seen EXCEPT ![j] = IF entries'[j] = None THEN "404" ELSE entries'[j].status]
    /\ UNCHANGED <<now, order, phase, samples, finished>>

Tick ==
    /\ now < MaxTime
    /\ now' = now + 1
    /\ UNCHANGED <<entries, order, phase, samples, seen, finished>>

\* The process restarts: the store is process-local, tasks die with it.
Restart ==
    /\ entries' = [j \in Jobs |-> None]
    /\ order' = [j \in Jobs |-> 0]
    /\ phase' = [j \in Jobs |-> IF phase[j] = "new" THEN "new" ELSE "lost"]
    /\ samples' = [j \in Jobs |-> NoSamples]
    /\ finished' = [j \in Jobs |-> None]
    /\ UNCHANGED <<now, seen>>

\* The steps the server's own threads take for a job.
Task(j) ==
    \/ RespondAccepted(j)
    \/ BeginTask(j)
    \/ PreparationFails(j)
    \/ \E s \in Seeds : CollectResult(j, s)
    \/ WorkerFails(j)
    \/ SetDone(j)
    \/ RestartSequentially(j)
    \/ SequentialFails(j)

Next ==
    \/ \E j \in Jobs : StartPermutationTest(j) \/ Task(j) \/ PollPermutationTest(j)
    \/ Tick
    \/ Restart

Spec == Init /\ [][Next]_vars

\* A thread of the server's pool serves each request and runs each background
\* task to its end; nothing blocks it but the store's lock, which is released
\* after every call.
FairSpec == Spec /\ \A j \in Jobs : WF_vars(Task(j))

-----------------------------------------------------------------------------
(* Properties.                                                             *)

\* Type correctness of the job store, its jobs and what clients were told.
TypeOK ==
    /\ now \in Nat
    /\ entries \in [Jobs -> Entry \cup {None}]
    /\ order \in [Jobs -> Nat]
    /\ phase \in [Jobs -> {"new", "posted", "raised", "queued", "running", "over", "lost"}]
    /\ samples \in [Jobs -> [Seeds -> Nat]]
    /\ seen \in [Jobs -> Statuses \cup {"nothing", "404"}]
    /\ finished \in [Jobs -> Nat \cup {None}]

\* A job somebody still works on is in the store with an active status, however
\* old it is and however many results crowd the store: expiry and eviction
\* never take it, and the assertion in start_permutation_test never fails.
ActiveJobsAreKept ==
    \A j \in Jobs :
      /\ phase[j] # "raised"
      /\ phase[j] \in {"posted", "queued", "running"} =>
           entries[j] # None /\ entries[j].status \in Active

\* A result is given up only for cause: it reached its TTL, or at least
\* MaxTerminal other jobs finished no earlier.  And the store never holds more
\* than MaxTerminal results.
ResultsKeptUntilOldOrCrowded ==
    /\ Cardinality({j \in Jobs : IsTerminal(entries[j])}) <= MaxTerminal
    /\ \A j \in Jobs :
         finished[j] # None /\ entries[j] = None =>
           \/ now - finished[j] >= TTL
           \/ Cardinality({k \in Jobs \ {j} : finished[k] # None /\ finished[k] >= finished[j]})
                >= MaxTerminal

\* The reported statistics are those of every seed counted once, whatever the
\* order the pool answered in and whether or not it was abandoned.
ResultIsExact ==
    \A j \in Jobs :
      entries[j] # None /\ entries[j].status = "done" =>
        entries[j].result =
          [gte  |-> Cardinality({s \in Seeds : Metric[s] >= ActualMetric}) + 1,
           rank |-> Cardinality({s \in Seeds : Metric[s] < ActualMetric}),
           size |-> Cardinality(Seeds) + 1]

\* How far a status is along the life of a job.
Progress(status) ==
    CASE status = "nothing" -> 0
      [] status = "pending" -> 1
      [] status = "running" -> 2
      [] status \in Terminal -> 3
      [] status = "404" -> 4

\* What clients are told of a job only moves forward: never from an outcome
\* back to running, from one outcome to the other, or from 404 to a job.
PollsNeverRegress ==
    [][\A j \in Jobs : seen'[j] # seen[j] => Progress(seen'[j]) > Progress(seen[j])]_vars

\* Every accepted job settles: its entry becomes a result or an error, or is
\* gone with the process; it is never left "running" by a task that died.
JobsSettle ==
    \A j \in Jobs : phase[j] = "posted" ~> (entries[j] = None \/ IsTerminal(entries[j]))

-----------------------------------------------------------------------------
(* The promise to the client.                                              *)

\* What a job is: its entry in the store, none before it is posted.
Life == [j \in Jobs |-> IF phase[j] = "new" THEN "unknown"
                        ELSE IF entries[j] = None THEN "gone" ELSE entries[j].status]

Service == INSTANCE JobLife WITH life <- Life, told <- seen

\* Posted and polled through the API, the jobs live as their clients are promised:
\* expiry and eviction take outcomes only, a poll tells what the job is, an outcome
\* is never taken back, and only a restart loses a job that is worked on.
ServesJobs == Service!Spec

=============================================================================
